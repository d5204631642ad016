---------------------------- MODULE DeviceSlots -----------------------------
(***************************************************************************)
(* The devices of users: `createDevice` with its limit, the subscription   *)
(* link (`deviceSubscription`), the first fetch of `subscriptionDocument`, *)
(* which starts the trial and binds the device to the hardware it came     *)
(* from, and `rebindDevice`.  Handlers read rows outside the transactions, *)
(* or before the locks, in which they write.                               *)
(***************************************************************************)
EXTENDS Integers, FiniteSets

CONSTANTS
  Users, Devices, HWIDs,
  Limit,        \* plans.device_limit
  Old,          \* devices older than subscription_token_ciphertext
  Requests, None,
  MaxRebinds    \* bound

ASSUME OldAreDevices == Old \subseteq Devices
ASSUME LimitIsCounted == Limit \in Nat \ {0} /\ MaxRebinds \in Nat
ASSUME DevicesAreFinite == IsFiniteSet(Devices)
ASSUME NoneIsNothing == None \notin Users \cup Devices \cup HWIDs \cup Requests

VARIABLES
  owner,     \* owner[d]: devices.user_id; None: no such device yet
  hwid,      \* hwid[d]: devices.hwid_hmac
  cred,      \* cred[d]: how often the credential was replaced
  link,      \* link[d]: the link stored, named after what made it
  pending,   \* users whose status is 'pending_trial'
  prints,    \* trial_fingerprints
  lock,      \* who holds the lock createDevice takes
  pc, dev, hw,   \* of each request: where it is, its device or user, its X-HWID
  read,      \* what it has read: a count, a credential, or no link
  trial,     \* whether it has read 'pending_trial'
  served,    \* history: served[d]: who was given the current credential
  given,     \* history: given[d]: the links that were answered
  raced      \* history: what was written, and where, over something not looked at

rowVars == <<owner, hwid, cred, link, pending, prints>>
reqVars == <<pc, dev, hw, read, trial>>
histVars == <<served, given, raced>>
vars == <<rowVars, lock, reqVars, histVars>>

Of(u) == {d \in Devices : owner[d] = u}

Init ==
  /\ owner \in [Devices -> Users \cup {None}]
  /\ \A d \in Devices \ Old : owner[d] = None
  /\ \A u \in Users : Cardinality(Of(u)) <= Limit
  /\ hwid = [d \in Devices |-> None] /\ cred = [d \in Devices |-> 0]
  /\ link = [d \in Devices |-> None]
  /\ pending = Users /\ prints = {} /\ lock = None
  /\ pc = [q \in Requests |-> "idle"] /\ dev = [q \in Requests |-> None]
  /\ hw = [q \in Requests |-> None] /\ read = [q \in Requests |-> 0]
  /\ trial = [q \in Requests |-> FALSE]
  /\ served = [d \in Devices |-> {}] /\ given = [d \in Devices |-> {}] /\ raced = {}

\* Request q starts on x, from hardware h, and remembers n and t.
Start(q, s, x, h, n, t) ==
  /\ pc[q] = "idle" /\ pc' = [pc EXCEPT ![q] = s]
  /\ dev' = [dev EXCEPT ![q] = x] /\ hw' = [hw EXCEPT ![q] = h]
  /\ read' = [read EXCEPT ![q] = n] /\ trial' = [trial EXCEPT ![q] = t]
Goto(q, s) == pc' = [pc EXCEPT ![q] = s] /\ UNCHANGED <<dev, hw, read, trial>>
End(q) ==
  /\ pc' = [pc EXCEPT ![q] = "idle"] /\ dev' = [dev EXCEPT ![q] = None]
  /\ hw' = [hw EXCEPT ![q] = None] /\ read' = [read EXCEPT ![q] = 0]
  /\ trial' = [trial EXCEPT ![q] = FALSE]

\* The request leaves rows and locks as they are.
Answer(q) == End(q) /\ UNCHANGED <<rowVars, lock, histVars>>
-----------------------------------------------------------------------------
(* createDevice *)

\* The SELECT counts in the snapshot it starts with,
Count(q, u) ==
  /\ Start(q, "count", u, None, Cardinality(Of(u)), FALSE)
  /\ UNCHANGED <<rowVars, lock, histVars>>

\* Mutant: the limit itself is allowed once more.
HasRoomOnce(n) == n <= Limit

HasRoom(n) ==
  n < Limit

\* then waits for the lock of FOR UPDATE.  The row it waits for has not
\* changed, so nothing is read again.
Lock(q) ==
  /\ pc[q] = "count" /\ lock = None /\ HasRoom(read[q])
  /\ lock' = q /\ Goto(q, "insert")
  /\ UNCHANGED <<rowVars, histVars>>

LimitReached(q) == pc[q] = "count" /\ lock = None /\ ~HasRoom(read[q]) /\ Answer(q)

\* The INSERT takes the next slot number, and the link is answered.
Insert(q, d) ==
  LET u == dev[q] IN
  /\ pc[q] = "insert" /\ owner[d] = None
  /\ owner' = [owner EXCEPT ![d] = u] /\ link' = [link EXCEPT ![d] = d]
  /\ given' = [given EXCEPT ![d] = {d}]
  /\ raced' = IF read[q] = Cardinality(Of(u)) THEN raced ELSE raced \cup {<<"slot", u>>}
  /\ lock' = None /\ End(q)
  /\ UNCHANGED <<hwid, cred, pending, prints, served>>
-----------------------------------------------------------------------------
(* deviceSubscription *)

\* Mutant: a link is made on every request.
MissingAlways(d) == TRUE

Missing(d) ==
  link[d] = None

\* A stored link is answered; a device without one gets one,
ReadLink(q, d) ==
  /\ owner[d] # None /\ Missing(d)
  /\ Start(q, "link", d, None, link[d], FALSE)
  /\ UNCHANGED <<rowVars, lock, histVars>>

\* which is stored without another look.
StoreLink(q) ==
  LET d == dev[q] IN
  /\ pc[q] = "link" /\ End(q)
  /\ link' = [link EXCEPT ![d] = q] /\ given' = [given EXCEPT ![d] = @ \cup {q}]
  /\ raced' = IF link[d] = read[q] THEN raced ELSE raced \cup {<<"link", d>>}
  /\ UNCHANGED <<owner, hwid, cred, pending, prints, lock, served>>
-----------------------------------------------------------------------------
(* subscriptionDocument and rebindDevice *)

\* Mutant: a bound device is bound again.
AcceptedAnyway(d, h) == TRUE

\* hwid-mismatch otherwise
Accepted(d, h) ==
  hwid[d] \in {None, h}

\* One SELECT reads the device, its owner and the subscription.
Fetch(q, d, h) ==
  /\ owner[d] # None /\ Accepted(d, h)
  /\ Start(q, IF hwid[d] # None THEN "serve" ELSE IF owner[d] \in pending THEN "trial" ELSE "bind",
           d, h, cred[d], owner[d] \in pending)
  /\ UNCHANGED <<rowVars, lock, histVars>>

\* The account or the hardware has had its trial.
Reused(u, h) == \E p \in prints : p[1] = u \/ p[2] = h

\* Mutant: only the account is looked up.
FreeForUser(q) == \A p \in prints : p[1] # owner[dev[q]]

FreeTrial(q) ==
  ~Reused(owner[dev[q]], hw[q])

CheckTrial(q) ==
  /\ pc[q] = "trial"
  /\ IF FreeTrial(q) THEN Goto(q, "bind") ELSE End(q)
  /\ UNCHANGED <<rowVars, lock, histVars>>

Fingerprint(q) ==
  <<owner[dev[q]], hw[q]>>

\* The transaction that starts the trial, if it was pending, and binds.
Bind(q) ==
  LET d == dev[q]
      u == owner[d] IN
  /\ pc[q] = "bind" /\ (trial[q] => lock = None /\ Fingerprint(q) \notin prints)
  /\ pending' = IF trial[q] THEN pending \ {u} ELSE pending
  /\ prints' = IF trial[q] THEN prints \cup {Fingerprint(q)} ELSE prints
  /\ hwid' = [hwid EXCEPT ![d] = hw[q]]
  /\ raced' = raced \cup (IF trial[q] /\ ~FreeTrial(q) THEN {<<"trial", hw[q]>>} ELSE {})
                    \cup (IF hwid[d] # None \/ cred[d] # read[q] THEN {<<"bind", d>>} ELSE {})
  /\ Goto(q, "serve")
  /\ UNCHANGED <<owner, cred, link, lock, served, given>>

\* The fingerprint is there already, or the database fails.
BindFails(q) == pc[q] = "bind" /\ Answer(q)

\* The credential that was read at first is answered.
Serve(q) ==
  LET d == dev[q] IN
  /\ pc[q] = "serve" /\ End(q)
  /\ served' = IF read[q] = cred[d] THEN [served EXCEPT ![d] = @ \cup {hw[q]}] ELSE served
  /\ UNCHANGED <<rowVars, lock, given, raced>>

\* No node, or no quota: 503.
NoRoute(q) == pc[q] = "serve" /\ Answer(q)

\* rebindDevice: a new credential, for whoever fetches it first.  It is refused
\* for 24 hours after a binding, which leaves out times and not states; the
\* commands to the node are DeviceSync's.
Rebind(d) ==
  /\ owner[d] # None /\ \A e \in Devices : cred[e] < MaxRebinds
  /\ cred' = [cred EXCEPT ![d] = @ + 1] /\ hwid' = [hwid EXCEPT ![d] = None]
  /\ served' = [served EXCEPT ![d] = {}] /\ raced' = raced \ {<<"bind", d>>}
  /\ UNCHANGED <<owner, link, pending, prints, lock, reqVars, given>>

\* changePlan instead of a trial.
Purchase(u) ==
  /\ u \in pending /\ lock = None /\ pending' = pending \ {u}
  /\ UNCHANGED <<owner, hwid, cred, link, prints, lock, reqVars, histVars>>
-----------------------------------------------------------------------------
Request(q) ==
  \/ \E u \in Users : Count(q, u)
  \/ Lock(q) \/ LimitReached(q)
  \/ \E d \in Devices : Insert(q, d) \/ ReadLink(q, d)
  \/ StoreLink(q)
  \/ \E d \in Devices, h \in HWIDs : Fetch(q, d, h)
  \/ CheckTrial(q) \/ Bind(q) \/ BindFails(q) \/ Serve(q) \/ NoRoute(q)

Next ==
  \/ \E q \in Requests : Request(q)
  \/ \E d \in Devices : Rebind(d)
  \/ \E u \in Users : Purchase(u)

Spec == Init /\ [][Next]_vars
-----------------------------------------------------------------------------
TypeOK ==
  /\ owner \in [Devices -> Users \cup {None}]
  /\ hwid \in [Devices -> HWIDs \cup {None}] /\ cred \in [Devices -> 0..MaxRebinds]
  /\ link \in [Devices -> Requests \cup Devices \cup {None}]
  /\ pending \subseteq Users /\ prints \subseteq Users \X HWIDs
  /\ lock \in Requests \cup {None}
  /\ pc \in [Requests -> {"idle", "count", "insert", "link", "trial", "bind", "serve"}]
  /\ dev \in [Requests -> Devices \cup Users \cup {None}]
  /\ hw \in [Requests -> HWIDs \cup {None}]
  /\ read \in [Requests -> Nat \cup {None}] /\ trial \in [Requests -> BOOLEAN]
  /\ served \in [Devices -> SUBSET HWIDs]

(* A user has at most as many devices as the plan allows, unless two        *)
(* createDevice overlapped: the one that waits for the lock goes on with    *)
(* the count of before.                                                     *)
LimitUnlessRaced ==
  \A u \in Users : <<"slot", u>> \in raced \/ Cardinality(Of(u)) <= Limit

(* A piece of hardware starts one trial, whatever account it is used from,  *)
(* unless two first fetches overlapped: both find it unused, and the key of *)
(* trial_fingerprints is the pair (subscriptionDocument).                   *)
OneTrialUnlessRaced ==
  \A h \in HWIDs :
    <<"trial", h>> \in raced \/ Cardinality({p \in prints : p[2] = h}) <= 1

(* The credential of a device is given to one piece of hardware only, the   *)
(* one it is bound to, through trials, rebinding and late answers; unless   *)
(* a binding overlapped another one or a rebinding (subscriptionDocument    *)
(* writes hwid_hmac without looking at it again).                           *)
OneHolderUnlessRaced ==
  \A d \in Devices : <<"bind", d>> \in raced \/ served[d] \subseteq {hwid[d]}

(* A link that was answered goes on working, unless two requests made the   *)
(* missing link of an old device at the same time (deviceSubscription).     *)
LinksWorkUnlessRaced ==
  \A d \in Devices : <<"link", d>> \in raced \/ given[d] \subseteq {link[d]}
=============================================================================
