------------------------------- MODULE NodeLease -------------------------------
(***************************************************************************)
(* Leases on the way to the node and on it.  QuotaLease's transactions     *)
(* queue device.upsert and quota.lease commands, the node's handlers store *)
(* what they carry, and `Authenticate` admits a device by it.  Grace,      *)
(* which begins when the billing period ends, is left out: `open` is the   *)
(* node's SubscriptionEnds as well.                                        *)
(***************************************************************************)
EXTENDS QuotaLease, Sequences, SequencesExt

CONSTANTS
  Trials,     \* the users on the trial plan
  MaxQueue,   \* bound: commands on their way
  MaxTraffic  \* bound: bytes a device transfers

ASSUME TrialsAreUsers == Trials \subseteq Users
ASSUME NodeBounds == MaxQueue \in Nat /\ MaxTraffic \in Nat

VARIABLES
  queue,     \* commands to the node that are not settled
  known,     \* known[d]: the node's row of d is "active", "revoked" or "none"
  held,      \* held[d]: the lease in it, 0 for lease_bytes = 0
  spent,     \* spent[d]: used_bytes in it
  reported,  \* reported[d]: how much of spent[d] the controller has charged
  orphans    \* history: leases whose rows a rebind has deleted

nodeVars == <<known, held, spent, reported>>
vars == <<leaseVars, queue, nodeVars, orphans>>

Upsert(d) == [kind |-> "upsert", dev |-> d, lease |-> 0]
Revoke(d) == [kind |-> "revoke", dev |-> d, lease |-> 0]
Offer(d, l) == [kind |-> "lease", dev |-> d, lease |-> l]

Init ==
  /\ LeaseInit
  /\ queue = <<>>
  /\ known = [d \in Devices |-> "none"]
  /\ held = [d \in Devices |-> 0]
  /\ spent = [d \in Devices |-> 0]
  /\ reported = [d \in Devices |-> 0]
  /\ orphans = {}
-----------------------------------------------------------------------------
(* The controller *)

Enqueue(commands) ==
  /\ Len(queue) + Len(commands) <= MaxQueue
  /\ queue' = queue \o commands

\* provisionDevice finds a lease: the upsert it queues carries none.
QueueUpsert(p) ==
  /\ CommitUpsert(p)
  /\ Enqueue(<<Upsert(job[p])>>)
  /\ UNCHANGED <<nodeVars, orphans>>

\* Mutant: the lease is sent, its row is not stored.
QueueUnrecorded(p) ==
  LET l == granted + 1 IN
  /\ pc[p] = "locked" /\ Reserved(p) = {} /\ granted < MaxLeases
  /\ Release(p)
  /\ granted' = l
  /\ bytes' = [bytes EXCEPT ![l] = LeaseBytes]
  /\ Enqueue(<<Upsert(job[p]), Offer(job[p], l)>>)
  /\ UNCHANGED <<used, open, rows, expired, due, faults, nodeVars, orphans>>

\* provisionDevice adds a lease: both commands are queued with it.
QueueLease(p) ==
  /\ CommitLease(p)
  /\ Enqueue(<<Upsert(job[p]), Offer(job[p], granted')>>)
  /\ UNCHANGED <<nodeVars, orphans>>

\* rebindDevice: the revoke is queued after the commit, and may fail.
QueueRevoke(d) ==
  /\ Rebind(d)
  /\ orphans' = orphans \cup rows[d]
  /\ Enqueue(<<Revoke(d)>>) \/ UNCHANGED queue
  /\ UNCHANGED nodeVars

\* queueDeviceResync, when the node connects.
Resync(d) ==
  /\ Owner[d] \in open
  /\ Enqueue(<<Upsert(d)>>)
  /\ UNCHANGED <<leaseVars, nodeVars, orphans>>

\* NodeHub.usage charges what the node has reported.
ChargeReported(d) ==
  /\ reported[d] < spent[d]
  /\ Charge(d)
  /\ reported' = [reported EXCEPT ![d] = @ + 1]
  /\ UNCHANGED <<queue, known, held, spent, orphans>>

\* A step of the controller that queues nothing.
Quiet ==
  /\ \/ SelectDue
     \/ \E p \in Provisioners :
          (\E d \in Devices : Begin(p, d)) \/ Acquire(p) \/ Refuse(p) \/ Abort(p)
     \/ \E l \in Leases : Expire(l)
     \/ \E u \in Users : Lapse(u)
  /\ UNCHANGED <<queue, nodeVars, orphans>>
-----------------------------------------------------------------------------
(* The node *)

\* Command i reaches the node: any command may come next, and one that is not
\* settled comes again.
Receive(i) ==
  /\ i \in 1..Len(queue)
  /\ \/ queue' = RemoveAt(queue, i)
     \/ UNCHANGED queue

\* A command passes its deadline before the node gets it.
Lose(i) ==
  /\ i \in 1..Len(queue)
  /\ queue' = RemoveAt(queue, i)
  /\ UNCHANGED <<leaseVars, nodeVars, orphans>>

\* device.upsert: UpsertDevice stores the payload, lease_bytes 0 included.
ApplyUpsert(i) ==
  LET d == queue[i].dev IN
  /\ Receive(i) /\ queue[i].kind = "upsert"
  /\ known' = [known EXCEPT ![d] = "active"]
  /\ held' = [held EXCEPT ![d] = 0]
  /\ UNCHANGED <<leaseVars, spent, reported, orphans>>

\* device.revoke
ApplyRevoke(i) ==
  LET d == queue[i].dev IN
  /\ Receive(i) /\ queue[i].kind = "revoke"
  /\ known' = [known EXCEPT ![d] = IF @ = "none" THEN @ ELSE "revoked"]
  /\ UNCHANGED <<leaseVars, held, spent, reported, orphans>>

\* quota.lease: stored with the device if it verifies and the device is there.
ApplyLease(i) ==
  LET d == queue[i].dev
      l == queue[i].lease IN
  /\ Receive(i) /\ queue[i].kind = "lease"
  /\ IF l \in expired \/ known[d] = "none"
     THEN UNCHANGED held
     ELSE held' = [held EXCEPT ![d] = l]
  /\ UNCHANGED <<leaseVars, known, spent, reported, orphans>>

\* Policy.Authenticate
Allowed(d) ==
  LET exhausted == spent[d] >= Quota IN
  /\ known[d] = "active" /\ Owner[d] \in open
  /\ ~(Owner[d] \in Trials /\ exhausted)
  /\ ~exhausted /\ held[d] # 0 =>
       held[d] \notin expired /\ spent[d] < bytes[held[d]]

\* A device that is admitted transfers, and the collector records it.
Transfer(d) ==
  /\ Allowed(d) /\ spent[d] < MaxTraffic
  /\ spent' = [spent EXCEPT ![d] = @ + 1]
  /\ UNCHANGED <<leaseVars, queue, known, held, reported, orphans>>

Next ==
  \/ Quiet
  \/ \E p \in Provisioners : QueueUpsert(p) \/ QueueLease(p)
  \/ \E d \in Devices : QueueRevoke(d) \/ Resync(d) \/ ChargeReported(d) \/ Transfer(d)
  \/ \E i \in 1..MaxQueue : ApplyUpsert(i) \/ ApplyRevoke(i) \/ ApplyLease(i) \/ Lose(i)

Spec == Init /\ [][Next]_vars
-----------------------------------------------------------------------------
TypeOK ==
  /\ LeaseTypeOK
  /\ queue \in BoundedSeq([kind : {"upsert", "revoke", "lease"}, dev : Devices,
                           lease : 0..granted], MaxQueue)
  /\ known \in [Devices -> {"active", "revoked", "none"}]
  /\ held \in [Devices -> 0..granted]
  /\ spent \in [Devices -> 0..MaxTraffic]
  /\ \A d \in Devices : reported[d] \in 0..spent[d]
  /\ orphans \subseteq 1..granted

(* A lease the node can still admit traffic by is one the controller counts *)
(* as a reservation of that device, unless a rebind has deleted its row:    *)
(* commands that come late, again or out of order never bring back a        *)
(* reservation that was given to somebody else.                             *)
HeldLeaseIsReserved ==
  \A d \in Devices : held[d] \notin expired \cup orphans \cup {0} => held[d] \in Active(d)
=============================================================================
