------------------------ MODULE ComplianceFeedProofs ------------------------
(***************************************************************************)
(* Enrollment and the compliance feed, for any number of calls, tokens,    *)
(* certificates, lists, feeds and failures, and for any two lifetimes.     *)
(***************************************************************************)
EXTENDS ComplianceFeed, TLAPS

\* A call that nobody has met so far carries the certificate the controller
\* knows, to a node that is not claimed.
CallsAreAlone ==
  slips = {} => \A q \in Requests : pc[q] = "call" =>
    /\ ser[q] = serial /\ ~claimed
    /\ \A p \in Requests \ {q} : pc[p] # "call"

\* A call is made with a certificate.
CallsAreCertified == \A q \in Requests : pc[q] = "call" => ser[q] # 0

EnrollInv ==
  EnrollTypeOK /\ CallsAreCertified /\ CallsAreAlone /\ ClaimedIsAdmitted /\ ClaimedHasKeys

LEMMA EnrollInvInit == EnrollInit => EnrollInv
<1> SUFFICES ASSUME EnrollInit PROVE EnrollInv
  OBVIOUS
<1>1. EnrollTypeOK
  <2>1. {up, open, valid, claimed, quotaKey, online} \subseteq BOOLEAN
    BY DEF EnrollInit
  <2>2. token \in 0..tokens /\ tokens \in 0..MaxTokens /\ certs \in 0..MaxCerts /\ faults \in 0..MaxFaults
    BY BoundsAreCounted DEF EnrollInit
  <2>3. tok \in [Requests -> 0..tokens] /\ ser \in [Requests -> 0..certs]
    BY DEF EnrollInit
  <2> QED
    BY <2>1, <2>2, <2>3 DEF EnrollInit, EnrollTypeOK
<1> QED
  BY <1>1 DEF EnrollInit, EnrollInv, CallsAreCertified, CallsAreAlone, ClaimedIsAdmitted,
       ClaimedHasKeys

\* Only a call that is its own witness can become the node's certificate.
LEMMA EnrollTypeStep ==
  ASSUME EnrollInv, Enrolling \/ UNCHANGED enrollVars
  PROVE  EnrollTypeOK' /\ CallsAreCertified'
<1> USE BoundsAreCounted DEF EnrollInv, EnrollTypeOK, CallsAreCertified
<1>1. CASE Serve \/ Reenroll \/ TokenExpires
  <2>1. {up', open', valid', claimed', quotaKey', online'} \subseteq BOOLEAN
    BY <1>1 DEF Serve, Reenroll, TokenExpires, NewToken, ctrlVars
  <2>2. token' \in 0..tokens' /\ tokens' \in 0..MaxTokens /\ tokens <= tokens'
    BY <1>1 DEF Serve, Reenroll, TokenExpires, NewToken
  <2>3. UNCHANGED <<cert, quotaKey, ctrlVars, callVars, faults, slips>>
    BY <1>1 DEF Serve, Reenroll, TokenExpires
  <2>4. tok' \in [Requests -> 0..tokens']
    BY <2>2, <2>3 DEF callVars
  <2> QED
    BY <2>1, <2>2, <2>3, <2>4 DEF ctrlVars, callVars
<1>2. CASE Crash
  <2>1. pc' \in [Requests -> {"idle", "call", "states", "answer", "done", "failed"}]
    BY <1>2 DEF Crash
  <2>2. faults' \in 0..MaxFaults
    BY <1>2 DEF Crash, Fault
  <2>3. status' \in {"pending", "healthy", "offline"} /\ slips' \subseteq {"again", "cut"}
    BY <1>2 DEF Crash
  <2> QED
    BY <1>2, <2>1, <2>2, <2>3 DEF Crash
<1>3. ASSUME NEW q \in Requests, Claim(q) PROVE EnrollTypeOK' /\ CallsAreCertified'
  <2>1. ser[q] \in 1..certs
    BY <1>3 DEF Claim
  <2>2. pc' \in [Requests -> {"idle", "call", "states", "answer", "done", "failed"}]
    BY <1>3 DEF Claim, ClaimThen
  <2> QED
    BY <1>3, <2>1, <2>2 DEF Claim, ClaimThen, ctrlVars
<1>4. ASSUME NEW q \in Requests, ClaimStates(q) \/ EndpointCloses(q)
      PROVE EnrollTypeOK' /\ CallsAreCertified'
  BY <1>4 DEF ClaimStates, EndpointCloses, Shutdown, ctrlVars
<1>5. ASSUME NEW q \in Requests, CallFails(q) PROVE EnrollTypeOK' /\ CallsAreCertified'
  <2>1. faults' \in 0..MaxFaults /\ slips' \subseteq {"again", "cut"}
    BY <1>5 DEF CallFails, Fault
  <2> QED
    BY <1>5, <2>1 DEF CallFails, nodeVars, ctrlVars
<1>6. ASSUME NEW q \in Requests, Answered(q) PROVE EnrollTypeOK' /\ CallsAreCertified'
  BY <1>6 DEF Answered, nodeVars, ctrlVars
<1>7. ASSUME NEW q \in Requests, NEW t \in 1..MaxTokens, Prepare(q, t)
      PROVE EnrollTypeOK' /\ CallsAreCertified'
  BY <1>7 DEF Prepare, Conflict, Issue, nodeVars
<1>8. CASE Connect \/ Disconnect
  <2>1. faults' \in 0..MaxFaults
    BY <1>8 DEF Connect, Disconnect, Fault
  <2>2. status' \in {"pending", "healthy", "offline"} /\ online' \in BOOLEAN
    BY <1>8 DEF Connect, Disconnect
  <2> QED
    BY <1>8, <2>1, <2>2 DEF Connect, Disconnect, nodeVars, callVars
<1>9. CASE UNCHANGED enrollVars
  BY <1>9 DEF enrollVars, nodeVars, ctrlVars, callVars
<1> QED
  BY <1>1, <1>2, <1>3, <1>4, <1>5, <1>6, <1>7, <1>8, <1>9 DEF Enrolling, Handling

\* A call that is alone stays alone and is the one that claims.
LEMMA AdmittedStep ==
  ASSUME EnrollInv, Enrolling \/ UNCHANGED enrollVars
  PROVE  CallsAreAlone' /\ ClaimedIsAdmitted'
<1> USE DEF EnrollInv, EnrollTypeOK, CallsAreAlone, ClaimedIsAdmitted
<1>1. CASE Serve \/ Reenroll \/ TokenExpires
  BY <1>1 DEF Serve, Reenroll, TokenExpires, NewToken, ctrlVars, callVars
<1>2. CASE Crash
  BY <1>2 DEF Crash
<1>3. ASSUME NEW q \in Requests, Claim(q) PROVE CallsAreAlone' /\ ClaimedIsAdmitted'
  <2>1. /\ pc[q] = "call" /\ UNCHANGED <<serial, ser, slips>>
        /\ pc' = [pc EXCEPT ![q] = pc'[q]] /\ pc'[q] # "call"
        /\ \/ claimed' = TRUE /\ cert' = ser[q]
           \/ UNCHANGED <<claimed, cert>>
    BY <1>3 DEF Claim, ClaimThen, ctrlVars
  <2> QED
    BY <2>1
<1>4. ASSUME NEW q \in Requests, ClaimStates(q) \/ EndpointCloses(q) \/ CallFails(q) \/ Answered(q)
      PROVE CallsAreAlone' /\ ClaimedIsAdmitted'
  <2>1. /\ UNCHANGED <<claimed, cert, serial>> /\ (slips' = {} => slips = {})
        /\ pc' = [pc EXCEPT ![q] = pc'[q]] /\ pc'[q] # "call"
        /\ \A p \in Requests \ {q} : ser'[p] = ser[p]
    BY <1>4 DEF ClaimStates, EndpointCloses, CallFails, Answered, nodeVars, ctrlVars
  <2> QED
    BY <2>1
<1>5. ASSUME NEW q \in Requests, NEW t \in 1..MaxTokens, Prepare(q, t)
      PROVE CallsAreAlone' /\ ClaimedIsAdmitted'
  <2>1. /\ UNCHANGED <<claimed, cert>> /\ serial' = certs + 1
        /\ pc' = [pc EXCEPT ![q] = "call"] /\ ser'[q] = certs + 1
        /\ slips' = {} => ~claimed /\ \A p \in Requests : pc[p] # "call"
        /\ slips' = {} => slips = {}
    BY <1>5 DEF Prepare, Conflict, Issue, nodeVars
  <2> QED
    BY <2>1
<1>6. CASE Connect \/ Disconnect
  BY <1>6 DEF Connect, Disconnect, nodeVars, callVars
<1>7. CASE UNCHANGED enrollVars
  BY <1>7 DEF enrollVars, nodeVars, ctrlVars, callVars
<1> QED
  BY <1>1, <1>2, <1>3, <1>4, <1>5, <1>6, <1>7 DEF Enrolling, Handling

\* Whoever claims is about to store the keys, and only a cut keeps it from that.
LEMMA KeysStep ==
  ASSUME EnrollInv, Enrolling \/ UNCHANGED enrollVars
  PROVE  ClaimedHasKeys'
<1> USE DEF EnrollInv, EnrollTypeOK, ClaimedHasKeys
<1>1. CASE Serve \/ Reenroll \/ TokenExpires
  BY <1>1 DEF Serve, Reenroll, TokenExpires, NewToken, ctrlVars, callVars
<1>2. CASE Crash
  BY <1>2 DEF Crash, Cut
<1>3. ASSUME NEW q \in Requests, Claim(q) PROVE ClaimedHasKeys'
  <2>1. /\ pc[q] = "call" /\ UNCHANGED <<slips, quotaKey>>
        /\ \/ pc' = [pc EXCEPT ![q] = "states"]
           \/ pc' = [pc EXCEPT ![q] = "failed"] /\ UNCHANGED claimed
    BY <1>3 DEF Claim, ClaimThen
  <2> QED
    BY <2>1
<1>4. ASSUME NEW q \in Requests, ClaimStates(q) PROVE ClaimedHasKeys'
  BY <1>4 DEF ClaimStates
<1>5. ASSUME NEW q \in Requests, EndpointCloses(q) \/ Answered(q) PROVE ClaimedHasKeys'
  <2>1. /\ pc[q] \in {"answer", "done", "failed"} /\ pc' = [pc EXCEPT ![q] = pc'[q]]
        /\ UNCHANGED <<claimed, quotaKey, slips>>
    BY <1>5 DEF EndpointCloses, Answered, nodeVars
  <2> QED
    BY <2>1
<1>6. ASSUME NEW q \in Requests, CallFails(q) PROVE ClaimedHasKeys'
  <2>1. /\ pc' = [pc EXCEPT ![q] = "failed"] /\ UNCHANGED <<claimed, quotaKey>>
        /\ slips \subseteq slips' /\ (pc[q] = "states" => "cut" \in slips')
    BY <1>6 DEF CallFails, Cut, nodeVars
  <2> QED
    BY <2>1
<1>7. ASSUME NEW q \in Requests, NEW t \in 1..MaxTokens, Prepare(q, t) PROVE ClaimedHasKeys'
  <2>1. /\ pc[q] = "idle" /\ pc' = [pc EXCEPT ![q] = "call"]
        /\ UNCHANGED <<claimed, quotaKey>> /\ slips \subseteq slips'
    BY <1>7 DEF Prepare, nodeVars
  <2> QED
    BY <2>1
<1>8. CASE Connect \/ Disconnect
  BY <1>8 DEF Connect, Disconnect, nodeVars, callVars
<1>9. CASE UNCHANGED enrollVars
  BY <1>9 DEF enrollVars, nodeVars, ctrlVars, callVars
<1> QED
  BY <1>1, <1>2, <1>3, <1>4, <1>5, <1>6, <1>7, <1>8, <1>9 DEF Enrolling, Handling

LEMMA EnrollInvAlways == Spec => []EnrollInv
<1>1. Init => EnrollInv
  BY EnrollInvInit DEF Init
<1>2. [Next]_vars => Enrolling \/ UNCHANGED enrollVars
  BY DEF Next, vars, Enroll, SourceChanges, Refresh, Apply, Ack, CommandExpires, Check, Tick
<1>3. EnrollInv /\ [Next]_vars => EnrollInv'
  BY <1>2, EnrollTypeStep, AdmittedStep, KeysStep DEF EnrollInv
<1> QED
  BY <1>1, <1>3, PTL DEF Spec

(* A claimed node holds the certificate the hub looks for, unless bundles   *)
(* were entered twice (enrollNode, store.Claim).                            *)
THEOREM ClaimedNodesAreAdmitted == Spec => []ClaimedIsAdmitted
<1>1. EnrollInv => ClaimedIsAdmitted
  BY DEF EnrollInv
<1> QED
  BY <1>1, EnrollInvAlways, PTL

(* A claimed node has the keys of leases and feeds or is about to store     *)
(* them, unless it was cut short between two transactions (Claim).          *)
THEOREM ClaimedNodesHaveKeys == Spec => []ClaimedHasKeys
<1>1. EnrollInv => ClaimedHasKeys
  BY DEF EnrollInv
<1> QED
  BY <1>1, EnrollInvAlways, PTL
-----------------------------------------------------------------------------
(* The feed *)

FeedTypeOK ==
  /\ now \in 0..MaxTime /\ source \in Contents /\ snaps \in Seq(Contents)
  /\ stale \in BOOLEAN
  /\ feeds \subseteq Feeds /\ done \subseteq Feeds /\ sent \in 0..MaxFeeds
  /\ rules \in Feeds \cup {None} /\ fetched \in 0..MaxTime \cup {None}
  /\ newest \in Contents \cup {None} /\ behind \subseteq {"missed", "expired", "reordered"}

\* The feeds that are somewhere: on their way, applied, in the node's store.
Around == feeds \cup done \cup ({rules} \ {None})

\* Feeds are numbered in the order they are made, one of each number.
FeedsAreOrdered ==
  /\ \A f \in Around : f.n <= sent /\ f.at <= now
  /\ \A f, g \in Around : (f.n <= g.n => f.at <= g.at) /\ (f.n = g.n => f = g)

\* Without reordering the store holds the newest feed that was applied.
StoreIsNewest ==
  "reordered" \notin behind => \A f \in done : rules # None /\ f.n <= rules.n

\* The list fetched last is on its way or in the store.
NewestIsAround ==
  newest # None /\ behind = {} =>
    \E f \in feeds \cup ({rules} \ {None}) : f.n = sent /\ f.content = newest

\* An acknowledgement is of a feed that is no newer than the store's.
AckIsRecent ==
  fetched # None /\ "reordered" \notin behind => rules # None /\ fetched < rules.at + CommandLife

FeedInv ==
  FeedTypeOK /\ FeedsAreOrdered /\ StoreIsNewest /\ NewestIsAround /\ AckIsRecent

\* Nothing but fields of feeds is compared, and they are numbers.
LEMMA FeedFields ==
  ASSUME FeedTypeOK
  PROVE  /\ \A f \in Around : f \in Feeds /\ f.n \in Nat /\ f.at \in Nat
         /\ now \in Nat /\ sent \in Nat /\ Life \in Nat /\ CommandLife \in Nat
         /\ fetched # None => fetched \in Nat
<1>1. {Life, CommandLife, MaxTime, MaxFeeds} \subseteq Nat
  BY TimesAreCounted
<1>2. Around \subseteq Feeds
  BY DEF FeedTypeOK, Around
<1>3. \A f \in Feeds : f.n \in Nat /\ f.at \in Nat
  BY <1>1 DEF Feeds
<1> QED
  BY <1>1, <1>2, <1>3 DEF FeedTypeOK

LEMMA RefreshKeepsFeeds ==
  ASSUME FeedInv, Refresh
  PROVE  FeedInv'
<1> DEFINE f == [content |-> source, at |-> now, n |-> sent + 1]
<1> USE DEF FeedInv
<1>0. /\ UNCHANGED <<now, source, done, rules, stale, fetched>> /\ newest' = source
      /\ snaps' = IF source \in Range(snaps) THEN snaps ELSE Append(snaps, source)
  BY DEF Refresh
<1>1. snaps' \in Seq(Contents)
  BY <1>0 DEF FeedTypeOK
<1>2. CASE serial # None /\ status # "pending"
  <2>1. sent < MaxFeeds /\ sent' = sent + 1 /\ feeds' = feeds \cup {f} /\ behind' = behind \ {"missed"}
    BY <1>2 DEF Refresh
  <2>2. f \in Feeds /\ f.n = sent + 1 /\ f.at = now /\ f.content = source
    BY <2>1, TimesAreCounted DEF Feeds, FeedTypeOK
  <2> HIDE DEF f
  <2>3. FeedTypeOK'
    BY <1>0, <1>1, <2>1, <2>2, TimesAreCounted DEF FeedTypeOK
  <2>4. Around' = Around \cup {f}
    BY <1>0, <2>1 DEF Around
  <2>5. FeedsAreOrdered'
    BY <1>0, <2>1, <2>2, <2>4, FeedFields DEF FeedsAreOrdered
  <2>6. StoreIsNewest' /\ AckIsRecent'
    BY <1>0, <2>1 DEF StoreIsNewest, AckIsRecent
  <2>7. NewestIsAround'
    BY <1>0, <2>1, <2>2 DEF NewestIsAround
  <2> QED
    BY <2>3, <2>5, <2>6, <2>7
<1>3. CASE ~(serial # None /\ status # "pending")
  <2>1. behind' = behind \cup {"missed"} /\ UNCHANGED <<sent, feeds>>
    BY <1>3 DEF Refresh
  <2>2. FeedTypeOK' /\ Around' = Around
    BY <1>0, <1>1, <2>1 DEF FeedTypeOK, Around
  <2> QED
    BY <1>0, <2>1, <2>2 DEF FeedsAreOrdered, StoreIsNewest, AckIsRecent, NewestIsAround
<1> QED
  BY <1>2, <1>3

LEMMA ApplyKeepsFeeds ==
  ASSUME FeedInv, NEW f \in feeds, Apply(f)
  PROVE  FeedInv'
<1> USE DEF FeedInv
<1>0. UNCHANGED <<now, source, snaps, sent, fetched, newest>>
  BY DEF Apply
<1>1. f \in Feeds /\ f \in Around /\ f # None
  BY NoneIsNoFeed DEF FeedTypeOK, Around
<1>2. CASE Current(f)
  <2>1. /\ rules' = f /\ stale' = FALSE /\ done' = done \cup {f} /\ UNCHANGED feeds
        /\ behind \subseteq behind' /\ behind' \subseteq behind \cup {"reordered"}
        /\ rules # None /\ f.n < rules.n => "reordered" \in behind'
    BY <1>2 DEF Apply
  <2>2. FeedTypeOK'
    BY <1>0, <1>1, <2>1 DEF FeedTypeOK
  <2>3. Around' \subseteq Around
    BY <1>1, <2>1 DEF Around
  <2>4. FeedsAreOrdered'
    BY <1>0, <2>3 DEF FeedsAreOrdered
  <2>5. rules # None => rules \in Around
    BY DEF Around
  <2>6. StoreIsNewest'
    <3> SUFFICES ASSUME "reordered" \notin behind', NEW g \in done, g # f
                 PROVE  g.n <= f.n
      BY <1>1, <2>1, FeedFields DEF StoreIsNewest
    <3>1. rules # None /\ g.n <= rules.n /\ ~(f.n < rules.n) /\ g \in Around
      BY <2>1 DEF StoreIsNewest, Around
    <3> QED
      BY <1>1, <2>5, <3>1, FeedFields
  <2>7. NewestIsAround'
    <3> SUFFICES ASSUME newest # None, behind' = {}
                 PROVE  \E g \in feeds \cup {f} : g.n = sent /\ g.content = newest
      BY <1>0, <1>1, <2>1 DEF NewestIsAround
    <3>1. behind = {}
      BY <2>1
    <3>2. PICK g \in feeds \cup ({rules} \ {None}) : g.n = sent /\ g.content = newest
      BY <3>1 DEF NewestIsAround
    <3>3. CASE g \in feeds
      BY <3>2, <3>3
    <3>4. CASE g = rules /\ rules # None
      <4>1. f.n = g.n
        BY <1>1, <2>1, <2>5, <3>2, <3>4, FeedFields DEF FeedsAreOrdered
      <4> QED
        BY <1>1, <2>5, <3>2, <3>4, <4>1 DEF FeedsAreOrdered
    <3> QED
      BY <3>2, <3>3, <3>4
  <2>8. AckIsRecent'
    <3> SUFFICES ASSUME fetched # None, "reordered" \notin behind'
                 PROVE  fetched < f.at + CommandLife
      BY <1>0, <1>1, <2>1 DEF AckIsRecent
    <3>1. rules # None /\ fetched < rules.at + CommandLife /\ ~(f.n < rules.n)
      BY <2>1 DEF AckIsRecent
    <3>2. rules.at <= f.at
      BY <1>1, <2>5, <3>1, FeedFields DEF FeedsAreOrdered
    <3> QED
      BY <1>1, <2>5, <3>1, <3>2, FeedFields
  <2> QED
    BY <2>2, <2>4, <2>6, <2>7, <2>8
<1>3. CASE ~Current(f)
  <2>1. feeds' = feeds \ {f} /\ behind' = behind \cup {"expired"} /\ UNCHANGED <<rules, stale, done>>
    BY <1>3 DEF Apply
  <2>2. FeedTypeOK' /\ Around' \subseteq Around
    BY <1>0, <2>1 DEF FeedTypeOK, Around
  <2> QED
    BY <1>0, <2>1, <2>2 DEF FeedsAreOrdered, StoreIsNewest, AckIsRecent, NewestIsAround
<1> QED
  BY <1>2, <1>3

LEMMA AckKeepsFeeds ==
  ASSUME FeedInv, NEW f \in feeds, Ack(f)
  PROVE  FeedInv'
<1> USE DEF FeedInv
<1>0. /\ f \in done /\ ~Expired(f) /\ feeds' = feeds \ {f} /\ fetched' = now
      /\ UNCHANGED <<now, source, snaps, sent, done, rules, stale, newest, behind>>
  BY DEF Ack, Applied
<1>1. FeedTypeOK'
  BY <1>0 DEF FeedTypeOK
<1>2. Around' \subseteq Around /\ f \in Around /\ (rules # None => rules \in Around)
  BY <1>0 DEF Around
<1>3. FeedsAreOrdered' /\ StoreIsNewest'
  BY <1>0, <1>2 DEF FeedsAreOrdered, StoreIsNewest
<1>4. "reordered" \notin behind => rules # None /\ f.n <= rules.n
  BY <1>0 DEF StoreIsNewest
<1>5. NewestIsAround'
  <2> SUFFICES ASSUME newest # None, behind = {}
               PROVE  \E g \in (feeds \ {f}) \cup ({rules} \ {None}) : g.n = sent /\ g.content = newest
    BY <1>0 DEF NewestIsAround
  <2>1. PICK g \in feeds \cup ({rules} \ {None}) : g.n = sent /\ g.content = newest
    BY DEF NewestIsAround
  <2>2. CASE g = f
    <3>1. rules # None /\ f.n = rules.n
      BY <1>2, <1>4, <2>1, <2>2, FeedFields DEF FeedsAreOrdered
    <3>2. f = rules
      BY <1>2, <3>1 DEF FeedsAreOrdered
    <3> QED
      BY <2>1, <2>2, <3>1, <3>2
  <2>3. CASE g # f
    BY <2>1, <2>3
  <2> QED
    BY <2>2, <2>3
<1>6. AckIsRecent'
  <2> SUFFICES ASSUME "reordered" \notin behind
               PROVE  rules # None /\ now < rules.at + CommandLife
    BY <1>0 DEF AckIsRecent
  <2>1. rules # None /\ f.at <= rules.at
    BY <1>2, <1>4 DEF FeedsAreOrdered
  <2>2. now < f.at + CommandLife
    BY <1>0, <1>2, FeedFields DEF Expired
  <2> QED
    BY <1>2, <2>1, <2>2, FeedFields
<1> QED
  BY <1>1, <1>3, <1>5, <1>6

LEMMA FeedInvStep == FeedInv /\ [Next]_vars => FeedInv'
<1> SUFFICES ASSUME FeedInv, [Next]_vars PROVE FeedInv'
  OBVIOUS
<1>1. ASSUME NEW f \in feeds, CommandExpires(f) PROVE FeedInv'
  <2>1. /\ feeds' = feeds \ {f} /\ behind' = behind \cup {"expired"}
        /\ UNCHANGED <<now, source, snaps, sent, done, rules, stale, fetched, newest>>
    BY <1>1 DEF CommandExpires
  <2>2. FeedTypeOK' /\ Around' \subseteq Around
    BY <2>1 DEF FeedInv, FeedTypeOK, Around
  <2> QED
    BY <2>1, <2>2 DEF FeedInv, FeedsAreOrdered, StoreIsNewest, AckIsRecent, NewestIsAround
<1>2. ASSUME done' \subseteq done, now' \in now..MaxTime, source' \in Contents, stale' \in BOOLEAN,
             UNCHANGED <<snaps, feeds, sent, rules, fetched, newest, behind>>
      PROVE  FeedInv'
  <2>1. now' \in 0..MaxTime /\ now <= now'
    BY <1>2, TimesAreCounted DEF FeedInv, FeedTypeOK
  <2>2. FeedTypeOK' /\ Around' \subseteq Around
    BY <1>2, <2>1 DEF FeedInv, FeedTypeOK, Around
  <2>3. FeedsAreOrdered'
    <3>1. \A f \in Around' : f.at <= now'
      BY <2>1, <2>2, FeedFields DEF FeedInv, FeedsAreOrdered
    <3> QED
      BY <1>2, <2>2, <3>1 DEF FeedInv, FeedsAreOrdered
  <2> QED
    BY <1>2, <2>2, <2>3 DEF FeedInv, StoreIsNewest, AckIsRecent, NewestIsAround
<1>3. now \in now..MaxTime /\ source \in Contents /\ stale \in BOOLEAN /\ now \in Nat
  BY TimesAreCounted DEF FeedInv, FeedTypeOK
<1>4. CASE Enroll
  <2>1. stale' \in BOOLEAN /\ done' \subseteq done
    BY <1>3, <1>4 DEF Enroll, Outdated
  <2> QED
    BY <1>2, <1>3, <1>4, <2>1 DEF Enroll
<1>5. ASSUME NEW c \in Contents, SourceChanges(c) PROVE FeedInv'
  BY <1>2, <1>3, <1>5 DEF SourceChanges
<1>6. CASE Check
  <2>1. stale' \in BOOLEAN
    BY <1>6 DEF Check, Outdated
  <2> QED
    BY <1>2, <1>3, <1>6, <2>1 DEF Check
<1>7. CASE Tick
  <2>1. now' \in now..MaxTime
    BY <1>3, <1>7, TimesAreCounted DEF Tick
  <2> QED
    BY <1>2, <1>3, <1>7, <2>1 DEF Tick
<1>8. CASE UNCHANGED vars
  BY <1>2, <1>3, <1>8 DEF vars, feedVars
<1> QED
  BY <1>1, <1>4, <1>5, <1>6, <1>7, <1>8, RefreshKeepsFeeds, ApplyKeepsFeeds, AckKeepsFeeds DEF Next

LEMMA FeedInvAlways == Spec => []FeedInv
<1>1. Init => FeedInv
  <2> SUFFICES ASSUME Init PROVE FeedInv
    OBVIOUS
  <2>1. FeedTypeOK
    <3>1. stale \in BOOLEAN
      BY DEF Init
    <3>2. now \in 0..MaxTime /\ sent \in 0..MaxFeeds /\ snaps \in Seq(Contents)
      BY TimesAreCounted DEF Init
    <3> QED
      BY <3>1, <3>2 DEF Init, FeedTypeOK
  <2>2. Around = {}
    BY DEF Init, Around
  <2> QED
    BY <2>1, <2>2 DEF Init, FeedInv, FeedsAreOrdered, StoreIsNewest, NewestIsAround, AckIsRecent
<1> QED
  BY <1>1, FeedInvStep, PTL DEF Spec

(* The types of enrollment and feed, for every value of the bounds.         *)
THEOREM FeedTypeCorrect == Spec => []TypeOK
<1>1. EnrollInv /\ FeedInv => TypeOK
  BY DEF EnrollInv, FeedInv, FeedTypeOK, TypeOK
<1> QED
  BY <1>1, EnrollInvAlways, FeedInvAlways, PTL

(* When no feed is on its way the node has the list that was fetched last,  *)
(* unless feeds were missed, too late or out of order (refreshCompliance,   *)
(* Apply).                                                                  *)
THEOREM QuietNodesAreCurrent == Spec => []QuietNodeIsCurrent
<1>1. FeedInv => QuietNodeIsCurrent
  BY DEF FeedInv, NewestIsAround, QuietNodeIsCurrent
<1> QED
  BY <1>1, FeedInvAlways, PTL

(* A node chosen for assignments has rules no older than the lifetimes of   *)
(* a command and of an acknowledgement together, unless feeds came out of   *)
(* order (subscriptionDocument, commandAck).                                *)
THEOREM ChosenNodesHaveRecentRules == Spec => []ChosenRulesAreBounded
<1>1. FeedInv => ChosenRulesAreBounded
  <2> SUFFICES ASSUME FeedInv, Eligible, "reordered" \notin behind
               PROVE  rules # None /\ now < rules.at + CommandLife + Life
    BY DEF ChosenRulesAreBounded
  <2>1. fetched # None /\ now < fetched + Life
    BY DEF Eligible
  <2>2. rules # None /\ fetched < rules.at + CommandLife
    BY <2>1 DEF FeedInv, AckIsRecent
  <2>3. rules.at \in Nat
    BY <2>2, FeedFields DEF FeedInv, Around
  <2> QED
    BY <2>1, <2>2, <2>3, FeedFields DEF FeedInv
<1> QED
  BY <1>1, FeedInvAlways, PTL

(* A running agent whose feed has expired has its alert: time does not pass *)
(* the end of a feed before the minute loop has looked (complianceLoop,     *)
(* Check).                                                                  *)
THEOREM StaleFeedsAreReported == Spec => []StaleIsReported
<1>1. Init => StaleIsReported
  BY DEF Init, EnrollInit, StaleIsReported
<1>2. FeedInv /\ EnrollInv /\ StaleIsReported /\ [Next]_vars => StaleIsReported'
  <2> SUFFICES ASSUME FeedInv, EnrollInv, StaleIsReported, [Next]_vars,
                      up', rules' # None => now' > rules'.at + Life
               PROVE  stale'
    BY DEF StaleIsReported
  <2>0. /\ now \in Nat /\ Life \in Nat /\ (rules # None => rules.at \in Nat)
        /\ \A f \in feeds : f.at \in Nat
    BY FeedFields DEF FeedInv, Around
  <2>1. (rules # None => now > rules.at + Life) => Outdated
    BY <2>0 DEF Outdated
  <2>2. CASE Enroll
    <3>1. UNCHANGED <<now, rules>> /\ stale' = IF ~up /\ up' THEN Outdated ELSE stale
      BY <2>2 DEF Enroll
    <3>2. Outdated
      BY <2>1, <3>1
    <3>3. CASE up
      BY <3>1, <3>3 DEF StaleIsReported
    <3>4. CASE ~up
      BY <3>1, <3>2, <3>4
    <3> QED
      BY <3>3, <3>4
  <2>3. ASSUME UNCHANGED <<up, now, rules, stale>> PROVE stale'
    BY <2>3 DEF StaleIsReported
  <2>4. ASSUME NEW f \in feeds, Apply(f) PROVE stale'
    <3>1. UNCHANGED <<up, now>>
      BY <2>4 DEF Apply, enrollVars, nodeVars
    <3>2. CASE Current(f)
      <4>1. rules' = f /\ f # None
        BY <2>4, <3>2, NoneIsNoFeed DEF Apply, FeedInv, FeedTypeOK
      <4>2. now < f.at + Life /\ now > f.at + Life
        BY <3>1, <3>2, <4>1 DEF Current
      <4> QED
        BY <2>0, <4>2
    <3>3. CASE ~Current(f)
      BY <2>3, <2>4, <3>1, <3>3 DEF Apply
    <3> QED
      BY <3>2, <3>3
  <2>5. CASE Check
    <3>1. UNCHANGED <<now, rules>> /\ stale' = Outdated
      BY <2>5 DEF Check
    <3> QED
      BY <2>1, <3>1
  <2>6. CASE Tick
    <3>1. UNCHANGED <<up, rules, stale>> /\ now' = now + 1 /\ (up => stale = Outdated)
      BY <2>6 DEF Tick, enrollVars, nodeVars
    <3>2. Outdated
      BY <2>0, <3>1 DEF Outdated
    <3> QED
      BY <3>1, <3>2
  <2>7. ASSUME \/ \E c \in Contents : SourceChanges(c)
               \/ Refresh
               \/ \E f \in feeds : Ack(f) \/ CommandExpires(f)
               \/ UNCHANGED vars
        PROVE  stale'
    BY <2>3, <2>7 DEF SourceChanges, Refresh, Ack, CommandExpires, vars, feedVars, enrollVars, nodeVars
  <2> QED
    BY <2>2, <2>4, <2>5, <2>6, <2>7 DEF Next
<1> QED
  BY <1>1, <1>2, EnrollInvAlways, FeedInvAlways, PTL DEF Spec
=============================================================================
