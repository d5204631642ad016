--------------------------- MODULE ComplianceFeed ---------------------------
(***************************************************************************)
(* The list of blocked domains on its way to a node that is being or was   *)
(* enrolled: the worker `refreshCompliance`, the compliance.feed commands, *)
(* `Apply` and the minute loop of the node, and the choice of nodes for    *)
(* new assignments, which goes by the time of the last acknowledgement.    *)
(* A unit of time is long against the minute loop and a fraction of the    *)
(* six hours a feed is valid.                                              *)
(***************************************************************************)
EXTENDS Enrollment, Sequences, Functions

CONSTANTS
  Contents,     \* lists the source may hold: numbers of valid and invalid lines
  Life,         \* a feed is valid for 6 hours, an acknowledgement counts for 6
  CommandLife,  \* commands expire after 24 hours
  MaxTime, MaxFeeds   \* bounds

ASSUME ContentsAreCounted == Contents \subseteq [valid : Nat, invalid : Nat]
ASSUME TimesAreCounted == {Life, CommandLife, MaxTime, MaxFeeds} \subseteq Nat

VARIABLES
  now,
  source,    \* what the source holds
  snaps,     \* compliance_snapshots in the order of fetched_at
  feeds,     \* open compliance.feed commands
  sent,      \* feeds queued so far
  done,      \* the ones of them the running agent has applied
  rules,     \* the feed in the node's store
  stale,     \* the node's alert
  fetched,   \* nodes.compliance_fetched_at
  newest,    \* history: the list fetched last
  behind     \* history: why a feed did not reach the node, or not in order

feedVars == <<now, source, snaps, feeds, sent, done, rules, stale, fetched, newest, behind>>
vars == <<enrollVars, feedVars>>

Feeds == [content : Contents, at : 0..MaxTime, n : 1..MaxFeeds]

ASSUME NoneIsNoFeed == None \notin Feeds

Init ==
  /\ EnrollInit
  /\ now = 0 /\ source \in Contents /\ snaps = <<>>
  /\ feeds = {} /\ sent = 0 /\ done = {} /\ rules = None /\ stale = FALSE /\ fetched = None
  /\ newest = None /\ behind = {}
-----------------------------------------------------------------------------
(* refreshCompliance *)

SourceChanges(c) ==
  /\ c # source /\ source' = c
  /\ UNCHANGED <<enrollVars, now, snaps, feeds, sent, done, rules, stale, fetched, newest, behind>>

\* parseDomains: some domains, and not too many lines that are none.
Parsed(c) == c.valid > 0 /\ (c.invalid > 5 => c.invalid * 20 <= c.valid + c.invalid)

\* The list did not lose more than half of its domains.
Plausible(c) ==
  Parsed(c) /\ (snaps # <<>> => c.valid >= snaps[Len(snaps)].valid \div 2)

\* A list that was there before leaves its snapshot as it was.  The feed is
\* queued for a node that is not pending.  Nothing happens, but for an alert,
\* when the source answers that the validators of the latest snapshot are its
\* own (304), when it does not answer and when its list is refused.
Refresh ==
  LET f == [content |-> source, at |-> now, n |-> sent + 1] IN
  /\ snaps # <<>> => source # snaps[Len(snaps)]
  /\ Plausible(source)
  /\ snaps' = IF source \in Range(snaps) THEN snaps ELSE Append(snaps, source)
  /\ IF serial # None /\ status # "pending"
     THEN /\ sent < MaxFeeds /\ sent' = sent + 1 /\ feeds' = feeds \cup {f}
          /\ newest' = source /\ behind' = behind \ {"missed"}
     ELSE newest' = source /\ behind' = behind \cup {"missed"} /\ UNCHANGED <<sent, feeds>>
  /\ UNCHANGED <<enrollVars, now, source, done, rules, stale, fetched>>

-----------------------------------------------------------------------------
(* The node and the hub *)

\* Mutant: commands do not expire.
ExpiredNever(f) == FALSE

Expired(f) ==
  now >= f.at + CommandLife

Current(f) ==
  now < f.at + Life

\* The feed is delivered: applied, or refused for good.
Apply(f) ==
  /\ online /\ f \notin done /\ ~Expired(f)
  /\ IF Current(f)
     THEN /\ rules' = f /\ stale' = FALSE /\ done' = done \cup {f} /\ UNCHANGED feeds
          /\ behind' = IF rules # None /\ f.n < rules.n THEN behind \cup {"reordered"} ELSE behind
     ELSE /\ feeds' = feeds \ {f} /\ behind' = behind \cup {"expired"}
          /\ UNCHANGED <<rules, stale, done>>
  /\ UNCHANGED <<enrollVars, now, source, snaps, sent, fetched, newest>>

\* Mutant: what was sent counts as applied.
AppliedWhenSent(f) == TRUE

Applied(f) ==
  f \in done

\* The acknowledgement, of the first delivery or of a repeated one.
Ack(f) ==
  /\ online /\ Applied(f) /\ ~Expired(f)
  /\ feeds' = feeds \ {f} /\ fetched' = now
  /\ UNCHANGED <<enrollVars, now, source, snaps, sent, done, rules, stale, newest, behind>>

CommandExpires(f) ==
  /\ online /\ Expired(f) /\ feeds' = feeds \ {f}
  /\ behind' = behind \cup {"expired"}
  /\ UNCHANGED <<enrollVars, now, source, snaps, sent, done, rules, stale, fetched, newest>>

\* Mutant: a feed that has expired is not looked at.
OutdatedNever == rules = None

Outdated ==
  rules = None \/ ~(now < rules.at + Life)

\* serve, and complianceLoop every minute
Check ==
  /\ up /\ stale # Outdated /\ stale' = Outdated
  /\ UNCHANGED <<enrollVars, now, source, snaps, feeds, sent, done, rules, fetched, newest, behind>>

\* Time passes when the minute loop has run, and no command is past its end.
Tick ==
  /\ now < MaxTime /\ (up => stale = Outdated) /\ (online => \A f \in feeds : ~Expired(f))
  /\ now' = now + 1
  /\ UNCHANGED <<enrollVars, source, snaps, feeds, sent, done, rules, stale, fetched, newest, behind>>

\* An agent that stops forgets which commands it has seen; one that starts
\* checks its feed.
Enroll ==
  /\ Enrolling
  /\ done' = IF up' THEN done ELSE {}
  /\ stale' = IF ~up /\ up' THEN Outdated ELSE stale
  /\ UNCHANGED <<now, source, snaps, feeds, sent, rules, fetched, newest, behind>>

Next ==
  \/ Enroll
  \/ \E c \in Contents : SourceChanges(c)
  \/ Refresh
  \/ \E f \in feeds : Apply(f) \/ Ack(f) \/ CommandExpires(f)
  \/ Check \/ Tick

Spec == Init /\ [][Next]_vars

\* Handlers of the node run to their end.
FairSpec == Spec /\ WF_vars(Handling /\ Enroll)
-----------------------------------------------------------------------------
\* subscriptionDocument chooses among these nodes.
Eligible == status = "healthy" /\ fetched # None /\ now < fetched + Life

TypeOK ==
  /\ EnrollTypeOK
  /\ now \in 0..MaxTime /\ source \in Contents /\ snaps \in Seq(Contents)
  /\ stale \in BOOLEAN
  /\ feeds \subseteq Feeds /\ done \subseteq Feeds /\ sent \in 0..MaxFeeds
  /\ rules \in Feeds \cup {None} /\ fetched \in 0..MaxTime \cup {None}
  /\ newest \in Contents \cup {None} /\ behind \subseteq {"missed", "expired", "reordered"}

(* When no feed is on its way the node has the list that was fetched last,  *)
(* whatever acknowledgements were lost and however often it restarted;      *)
(* unless the node was pending then, the feed came too late, or the feeds   *)
(* arrived out of order (Apply replaces newer rules by older ones).         *)
QuietNodeIsCurrent ==
  newest # None /\ feeds = {} /\ behind = {} => rules # None /\ rules.content = newest

(* The running agent whose feed has expired, or that has none, has its      *)
(* alert, before the next feed and after every restart (Check, Apply).      *)
StaleIsReported ==
  up /\ (rules # None => now > rules.at + Life) => stale

(* A node that is chosen has rules no older than a command and an           *)
(* acknowledgement can be: repeated acknowledgements and restarts do not    *)
(* keep a node with older rules eligible; feeds out of order may.           *)
ChosenRulesAreBounded ==
  Eligible /\ "reordered" \notin behind => rules # None /\ now < rules.at + CommandLife + Life
=============================================================================
