---------------------------- MODULE NodeLeaseProofs ----------------------------
(***************************************************************************)
(* Reservations under concurrent provisioning, and the leases that reach a *)
(* node, for any number of users, devices, requests, leases and commands.  *)
(***************************************************************************)
EXTENDS NodeLease, SequenceTheorems, TLAPS

\* A provisioner past its SELECT ... FOR UPDATE holds the lock of the owner,
\* and so what it has read of the owner is still true.
LockedIsCurrent ==
  \A p \in Provisioners : pc[p] = "locked" =>
    lock[Owner[job[p]]] = p /\ snap[p] = used[Owner[job[p]]]

\* A provisioner in a transaction works for a device.
BusyHasAJob ==
  \A p \in Provisioners : pc[p] # "idle" => job[p] \in Devices

\* Time only goes on: what was expired when a transaction began still is.
GoneIsExpired ==
  \A p \in Provisioners : gone[p] \subseteq expired

LeaseInv ==
  LeaseTypeOK /\ LockedIsCurrent /\ BusyHasAJob /\ GoneIsExpired /\ OneActiveLease

(* What provisionDevice reserves is never more than is left of the quota.   *)
LEMMA GrantFits ==
  ASSUME NEW n \in Nat
  PROVE  Grant(n) \in Nat /\ (Grant(n) # 0 => Grant(n) <= Quota - n)
<1> DEFINE available == (Quota - n) - 0
<1>1. available \in Int /\ LeaseBytes \in Nat
  BY BytesAreCounted
<1>2. CASE available < 0
  BY <1>1, <1>2 DEF Grant, ReservableBytes
<1>3. CASE available >= 0 /\ LeaseBytes > available
  BY <1>1, <1>3, BytesAreCounted DEF Grant, ReservableBytes
<1>4. CASE available >= 0 /\ LeaseBytes <= available
  BY <1>1, <1>4, BytesAreCounted DEF Grant, ReservableBytes
<1> QED
  BY <1>1, <1>2, <1>3, <1>4

LEMMA LeaseInvInit == LeaseInit => LeaseInv
<1> SUFFICES ASSUME LeaseInit PROVE LeaseInv
  OBVIOUS
<1>1. LeaseTypeOK
  BY BoundsAreCounted DEF LeaseInit, LeaseTypeOK, Leases
<1>2. LockedIsCurrent /\ BusyHasAJob /\ GoneIsExpired /\ OneActiveLease
  BY DEF LeaseInit, LockedIsCurrent, BusyHasAJob, GoneIsExpired, OneActiveLease, Active
<1> QED
  BY <1>1, <1>2 DEF LeaseInv

(* The end of a transaction leaves the rest of the invariant as it was.     *)
LEMMA ReleaseKeepsProvisioners ==
  ASSUME LeaseInv, NEW p \in Provisioners, Release(p), UNCHANGED <<used, expired>>
  PROVE  /\ lock' \in [Users -> Provisioners \cup {None}]
         /\ pc' \in [Provisioners -> {"idle", "begun", "locked"}]
         /\ job' \in [Provisioners -> Devices \cup {None}]
         /\ gone' \in [Provisioners -> SUBSET Leases]
         /\ snap' \in [Provisioners -> 0..MaxUse]
         /\ LockedIsCurrent' /\ BusyHasAJob' /\ GoneIsExpired'
<1> USE DEF LeaseInv, LeaseTypeOK, Release
<1>1. lock' \in [Users -> Provisioners \cup {None}]
  OBVIOUS
<1>2. /\ pc' \in [Provisioners -> {"idle", "begun", "locked"}]
      /\ job' \in [Provisioners -> Devices \cup {None}]
      /\ gone' \in [Provisioners -> SUBSET Leases]
  OBVIOUS
<1>3. snap' \in [Provisioners -> 0..MaxUse]
  BY BoundsAreCounted
<1>4. LockedIsCurrent'
  <2> SUFFICES ASSUME NEW q \in Provisioners, pc'[q] = "locked"
               PROVE  lock'[Owner[job'[q]]] = q /\ snap'[q] = used'[Owner[job'[q]]]
    BY DEF LockedIsCurrent
  <2>1. q # p /\ pc[q] = "locked" /\ job'[q] = job[q] /\ snap'[q] = snap[q]
    OBVIOUS
  <2>2. job[q] \in Devices /\ Owner[job[q]] \in Users
    BY <2>1, DevicesAreOwned DEF BusyHasAJob
  <2> QED
    BY <2>1, <2>2 DEF LockedIsCurrent
<1>5. BusyHasAJob'
  BY DEF BusyHasAJob
<1>6. GoneIsExpired'
  BY DEF GoneIsExpired
<1> QED
  BY <1>1, <1>2, <1>3, <1>4, <1>5, <1>6

(* Leases that expire, or rows that are deleted, only make fewer active.    *)
LEMMA FewerStaysOne ==
  ASSUME OneActiveLease,
         \A d \in Devices : rows'[d] \subseteq rows[d],
         expired \subseteq expired'
  PROVE  OneActiveLease'
BY DEF OneActiveLease, Active

LEMMA LeaseInvStep == LeaseInv /\ [LeaseNext]_leaseVars => LeaseInv'
<1> SUFFICES ASSUME LeaseInv, [LeaseNext]_leaseVars PROVE LeaseInv'
  OBVIOUS
<1> USE DEF LeaseInv
<1>1. CASE UNCHANGED leaseVars
  BY <1>1 DEF leaseVars, rowVars, provVars, LeaseTypeOK, LockedIsCurrent, BusyHasAJob,
       GoneIsExpired, OneActiveLease, Active
<1>2. CASE SelectDue
  <2>1. LeaseTypeOK'
    BY <1>2 DEF SelectDue, rowVars, LeaseTypeOK
  <2> QED
    BY <1>2, <2>1 DEF SelectDue, rowVars, LockedIsCurrent, BusyHasAJob, GoneIsExpired,
         OneActiveLease, Active
<1>3. ASSUME NEW p \in Provisioners, NEW d \in Devices, Begin(p, d) PROVE LeaseInv'
  <2> USE <1>3 DEF Begin, rowVars, LeaseTypeOK
  <2>1. LeaseTypeOK'
    <3>1. gone' \in [Provisioners -> SUBSET Leases]
      BY BoundsAreCounted DEF Leases
    <3> QED
      BY <3>1
  <2>2. LockedIsCurrent'
    BY DEF LockedIsCurrent
  <2>3. BusyHasAJob' /\ GoneIsExpired'
    BY DEF BusyHasAJob, GoneIsExpired
  <2>4. OneActiveLease'
    BY DEF OneActiveLease, Active
  <2> QED
    BY <2>1, <2>2, <2>3, <2>4
<1>4. ASSUME NEW p \in Provisioners, Acquire(p) PROVE LeaseInv'
  <2> USE <1>4 DEF Acquire, rowVars, LeaseTypeOK
  <2>1. job[p] \in Devices /\ Owner[job[p]] \in Users
    BY DevicesAreOwned DEF BusyHasAJob
  <2>2. LeaseTypeOK'
    BY <2>1
  <2>3. LockedIsCurrent'
    <3> SUFFICES ASSUME NEW q \in Provisioners, pc'[q] = "locked"
                 PROVE  lock'[Owner[job'[q]]] = q /\ snap'[q] = used'[Owner[job'[q]]]
      BY DEF LockedIsCurrent
    <3>1. CASE q = p
      BY <2>1, <3>1
    <3>2. CASE q # p
      <4>1. pc[q] = "locked" /\ lock[Owner[job[q]]] = q
        BY <3>2 DEF LockedIsCurrent
      <4>2. Owner[job[q]] # Owner[job[p]]
        BY <4>1, ProvisionersAreDistinct DEF Provisioners
      <4> QED
        BY <3>2, <4>1, <4>2 DEF LockedIsCurrent
    <3> QED
      BY <3>1, <3>2
  <2>4. BusyHasAJob' /\ GoneIsExpired' /\ OneActiveLease'
    BY <2>1 DEF BusyHasAJob, GoneIsExpired, OneActiveLease, Active
  <2> QED
    BY <2>2, <2>3, <2>4
<1>5. ASSUME NEW p \in Provisioners, CommitUpsert(p) PROVE LeaseInv'
  <2> USE <1>5 DEF CommitUpsert, rowVars
  <2>1. LeaseTypeOK' /\ LockedIsCurrent' /\ BusyHasAJob' /\ GoneIsExpired'
    BY ReleaseKeepsProvisioners DEF LeaseTypeOK
  <2> QED
    BY <2>1 DEF OneActiveLease, Active
<1>6. ASSUME NEW p \in Provisioners, CommitLease(p) PROVE LeaseInv'
  <2> DEFINE d == job[p]
             l == granted + 1
  <2> USE <1>6 DEF CommitLease
  <2>1. d \in Devices /\ snap[p] \in Nat
    BY BoundsAreCounted DEF BusyHasAJob, LeaseTypeOK
  <2>2. l \in Leases /\ granted' = l /\ granted \in Nat
    BY BoundsAreCounted DEF LeaseTypeOK, Leases
  <2>3. LeaseTypeOK'
    <3>1. bytes' \in [Leases -> Nat]
      BY <2>1, <2>2, GrantFits DEF LeaseTypeOK
    <3>2. rows' \in [Devices -> SUBSET (1..granted')] /\ expired' \subseteq 1..granted'
      BY <2>1, <2>2 DEF LeaseTypeOK
    <3>3. granted' \in 0..MaxLeases
      BY <2>2, BoundsAreCounted DEF Leases
    <3> QED
      BY <3>1, <3>2, <3>3, ReleaseKeepsProvisioners DEF LeaseTypeOK
  <2>4. LockedIsCurrent' /\ BusyHasAJob' /\ GoneIsExpired'
    BY ReleaseKeepsProvisioners
  <2>5. OneActiveLease'
    <3>1. rows[d] \subseteq expired
      BY <2>1 DEF GoneIsExpired, Reserved
    <3>2. \A e \in Devices : rows'[e] = IF e = d THEN rows[d] \cup {l} ELSE rows[e]
      BY <2>1 DEF LeaseTypeOK
    <3> QED
      BY <3>1, <3>2 DEF OneActiveLease, Active
  <2> QED
    BY <2>3, <2>4, <2>5
<1>7. ASSUME NEW p \in Provisioners, Fails(p), faults' \in 0..MaxFaults PROVE LeaseInv'
  <2> USE <1>7 DEF Fails, rowVars
  <2>1. LeaseTypeOK' /\ LockedIsCurrent' /\ BusyHasAJob' /\ GoneIsExpired'
    BY ReleaseKeepsProvisioners DEF LeaseTypeOK
  <2> QED
    BY <2>1 DEF OneActiveLease, Active
<1>8. ASSUME NEW p \in Provisioners, Refuse(p) PROVE LeaseInv'
  BY <1>7, <1>8 DEF Refuse, LeaseTypeOK
<1>9. ASSUME NEW p \in Provisioners, Abort(p) PROVE LeaseInv'
  BY <1>7, <1>9, BoundsAreCounted DEF Abort, LeaseTypeOK
<1>10. ASSUME NEW l \in Leases, Expire(l) PROVE LeaseInv'
  <2> USE <1>10 DEF Expire, provVars
  <2>1. LeaseTypeOK'
    BY BoundsAreCounted DEF LeaseTypeOK, Leases
  <2>2. LockedIsCurrent' /\ BusyHasAJob' /\ GoneIsExpired'
    BY DEF LockedIsCurrent, BusyHasAJob, GoneIsExpired
  <2> QED
    BY <2>1, <2>2, FewerStaysOne
<1>11. ASSUME NEW d \in Devices, Charge(d) PROVE LeaseInv'
  <2> USE <1>11 DEF Charge, provVars, LeaseTypeOK
  <2>1. Owner[d] \in Users
    BY DevicesAreOwned
  <2>2. LeaseTypeOK'
    BY <2>1, BoundsAreCounted
  <2>3. LockedIsCurrent'
    <3> SUFFICES ASSUME NEW q \in Provisioners, pc[q] = "locked"
                 PROVE  snap[q] = used'[Owner[job[q]]]
      BY DEF LockedIsCurrent
    <3>1. lock[Owner[job[q]]] = q /\ Owner[job[q]] \in Users
      BY DevicesAreOwned DEF LockedIsCurrent, BusyHasAJob
    <3>2. Owner[job[q]] # Owner[d]
      BY <3>1, ProvisionersAreDistinct DEF Provisioners
    <3> QED
      BY <3>1, <3>2 DEF LockedIsCurrent
  <2>4. BusyHasAJob' /\ GoneIsExpired' /\ OneActiveLease'
    BY DEF BusyHasAJob, GoneIsExpired, OneActiveLease, Active
  <2> QED
    BY <2>2, <2>3, <2>4
<1>12. ASSUME NEW d \in Devices, Rebind(d) PROVE LeaseInv'
  <2> USE <1>12 DEF Rebind, provVars, LeaseTypeOK
  <2>1. LeaseTypeOK'
    OBVIOUS
  <2>2. LockedIsCurrent' /\ BusyHasAJob' /\ GoneIsExpired'
    BY DEF LockedIsCurrent, BusyHasAJob, GoneIsExpired
  <2>3. \A e \in Devices : rows'[e] \subseteq rows[e]
    OBVIOUS
  <2> QED
    BY <2>1, <2>2, <2>3, FewerStaysOne
<1>13. ASSUME NEW u \in Users, Lapse(u) PROVE LeaseInv'
  BY <1>13 DEF Lapse, provVars, LeaseTypeOK, LockedIsCurrent, BusyHasAJob, GoneIsExpired,
       OneActiveLease, Active
<1> QED
  BY <1>1, <1>2, <1>3, <1>4, <1>5, <1>6, <1>8, <1>9, <1>10, <1>11, <1>12, <1>13
  DEF LeaseNext, Provision

LEMMA LeaseInvAlways == LeaseSpec => []LeaseInv
BY LeaseInvInit, LeaseInvStep, PTL DEF LeaseSpec

(* However many requests provision a device together with the renewal       *)
(* worker, it never has two unexpired leases (provisionDevice).             *)
THEOREM DeviceHasOneLease == LeaseSpec => []OneActiveLease
<1>1. LeaseInv => OneActiveLease
  BY DEF LeaseInv
<1> QED
  BY <1>1, LeaseInvAlways, PTL

(* A lease fits into what its owner has left at the moment it is stored,    *)
(* although usage is charged concurrently (provisionDevice, NodeHub.usage). *)
THEOREM LeasesFitTheQuota == LeaseSpec => GrantsFit
<1> DEFINE Fit == \A d \in Devices : \A l \in rows'[d] \ rows[d] :
                    bytes'[l] <= Quota - used[Owner[d]]
<1>1. LeaseInv /\ [LeaseNext]_leaseVars => [Fit]_leaseVars
  <2> SUFFICES ASSUME LeaseInv, LeaseNext, NEW d \in Devices, NEW l \in rows'[d] \ rows[d]
               PROVE  bytes'[l] <= Quota - used[Owner[d]]
    OBVIOUS
  <2> USE DEF LeaseInv, LeaseTypeOK
  <2>1. \/ \E p \in Provisioners : CommitLease(p)
        \/ \E e \in Devices : rows' = [rows EXCEPT ![e] = {}]
        \/ rows' = rows
    BY DEF LeaseNext, SelectDue, Provision, Begin, Acquire, CommitUpsert, Refuse, Abort, Fails,
         Expire, Charge, Rebind, Lapse, rowVars
  <2>2. PICK p \in Provisioners : CommitLease(p)
    BY <2>1
  <2>3. d = job[p] /\ l = granted + 1 /\ l \in Leases
    BY <2>2, BoundsAreCounted DEF CommitLease, Leases
  <2>4. bytes'[l] = Grant(snap[p]) /\ Grant(snap[p]) # 0
    BY <2>2, <2>3 DEF CommitLease
  <2>5. snap[p] = used[Owner[d]] /\ snap[p] \in Nat
    BY <2>2, <2>3, BoundsAreCounted DEF CommitLease, LockedIsCurrent
  <2> QED
    BY <2>4, <2>5, GrantFits
<1>2. LeaseSpec => [][Fit]_leaseVars
  BY <1>1, LeaseInvAlways, PTL DEF LeaseSpec
<1> QED
  BY <1>2 DEF GrantsFit
-----------------------------------------------------------------------------
(* On the node *)

\* A command of the queue: a lease it carries is one the controller has stored
\* for the device, even if a rebind has deleted the row since.
Command == [kind : {"upsert", "revoke", "lease"}, dev : Devices, lease : Nat]
SoundCommand ==
  {c \in Command : c.kind = "lease" => c.lease \in rows[c.dev] \cup orphans}

\* A lease in the node's row of a device came from such a command.
HeldWasStored ==
  \A d \in Devices : held[d] \in rows[d] \cup orphans \cup {0}

NodeInv ==
  /\ LeaseInv
  /\ queue \in Seq(SoundCommand)
  /\ held \in [Devices -> Nat]
  /\ HeldWasStored

(* What is left of a sequence without one of its elements has no others.    *)
LEMMA RemoveAtKeepsElements ==
  ASSUME NEW S, NEW s \in Seq(S), NEW i \in 1..Len(s)
  PROVE  RemoveAt(s, i) \in Seq(S)
<1>1. Len(s) \in Nat /\ \A j \in 1..Len(s) : s[j] \in S
  BY LenProperties, ElementOfSeq
<1>2. SubSeq(s, 1, i - 1) \in Seq(S)
  BY <1>1, SubSeqProperties
<1>3. SubSeq(s, i + 1, Len(s)) \in Seq(S)
  BY <1>1, SubSeqProperties
<1> QED
  BY <1>2, <1>3, ConcatProperties DEF RemoveAt

(* With the node beside it the controller does what it does without.        *)
LEMMA NodeStepIsALeaseStep == [Next]_vars => [LeaseNext]_leaseVars
<1> SUFFICES ASSUME [Next]_vars PROVE [LeaseNext]_leaseVars
  OBVIOUS
<1>1. CASE Quiet
  BY <1>1 DEF Quiet, LeaseNext, Provision
<1>2. ASSUME NEW p \in Provisioners, QueueUpsert(p) \/ QueueLease(p) PROVE LeaseNext
  BY <1>2 DEF QueueUpsert, QueueLease, LeaseNext, Provision
<1>3. ASSUME NEW d \in Devices, QueueRevoke(d) \/ ChargeReported(d) PROVE LeaseNext
  BY <1>3 DEF QueueRevoke, ChargeReported, LeaseNext
<1>4. ASSUME NEW d \in Devices, Resync(d) \/ Transfer(d) PROVE UNCHANGED leaseVars
  BY <1>4 DEF Resync, Transfer
<1>5. ASSUME NEW i \in 1..MaxQueue, ApplyUpsert(i) \/ ApplyRevoke(i) \/ ApplyLease(i) \/ Lose(i)
      PROVE UNCHANGED leaseVars
  BY <1>5 DEF ApplyUpsert, ApplyRevoke, ApplyLease, Lose
<1>6. CASE UNCHANGED vars
  BY <1>6 DEF vars
<1> QED
  BY <1>1, <1>2, <1>3, <1>4, <1>5, <1>6 DEF Next

(* The controller of NodeLease is the one of QuotaLease: what is proved of  *)
(* provisioning alone holds while commands are queued, lost and applied     *)
(* (provisionDevice queues its commands in its own transaction).            *)
THEOREM NodeLeaseImplementsQuotaLease == Spec => LeaseSpec
<1>1. Init => LeaseInit
  BY DEF Init
<1> QED
  BY <1>1, NodeStepIsALeaseStep, PTL DEF Spec, LeaseSpec

(* Rows are deleted only into the history of orphans, so what was stored    *)
(* stays stored.                                                            *)
LEMMA StoredStaysStored ==
  ASSUME LeaseInv, [Next]_vars
  PROVE  /\ orphans \subseteq orphans'
         /\ \A d \in Devices : rows[d] \subseteq rows'[d] \cup orphans'
<1> USE DEF LeaseInv, LeaseTypeOK
<1>1. CASE Quiet
  BY <1>1 DEF Quiet, SelectDue, Begin, Acquire, Refuse, Abort, Fails, Expire, Lapse, rowVars
<1>2. ASSUME NEW p \in Provisioners, QueueUpsert(p)
      PROVE  orphans' = orphans /\ rows' = rows
  BY <1>2 DEF QueueUpsert, CommitUpsert, rowVars
<1>3. ASSUME NEW p \in Provisioners, QueueLease(p)
      PROVE  orphans' = orphans /\ \A d \in Devices : rows[d] \subseteq rows'[d]
  BY <1>3 DEF QueueLease, CommitLease
<1>4. ASSUME NEW d \in Devices, QueueRevoke(d)
      PROVE  /\ orphans' = orphans \cup rows[d]
             /\ \A e \in Devices : e = d \/ rows'[e] = rows[e]
  BY <1>4 DEF QueueRevoke, Rebind
<1>5. ASSUME NEW d \in Devices, Resync(d) \/ ChargeReported(d) \/ Transfer(d)
      PROVE  orphans' = orphans /\ rows' = rows
  BY <1>5 DEF Resync, ChargeReported, Charge, Transfer, leaseVars, rowVars
<1>6. ASSUME NEW i \in 1..MaxQueue, ApplyUpsert(i) \/ ApplyRevoke(i) \/ ApplyLease(i) \/ Lose(i)
      PROVE  orphans' = orphans /\ rows' = rows
  BY <1>6 DEF ApplyUpsert, ApplyRevoke, ApplyLease, Lose, leaseVars, rowVars
<1>7. CASE UNCHANGED vars
  BY <1>7 DEF vars, leaseVars, rowVars
<1> QED
  BY <1>1, <1>2, <1>3, <1>4, <1>5, <1>6, <1>7 DEF Next

LEMMA NodeInvStep == NodeInv /\ [Next]_vars => NodeInv'
<1> SUFFICES ASSUME NodeInv, [Next]_vars PROVE NodeInv'
  OBVIOUS
<1> USE DEF NodeInv
<1>1. LeaseInv'
  BY NodeStepIsALeaseStep, LeaseInvStep
<1>2. /\ orphans \subseteq orphans'
      /\ \A d \in Devices : rows[d] \subseteq rows'[d] \cup orphans'
  BY StoredStaysStored
<1>3. SoundCommand \subseteq SoundCommand'
  BY <1>2 DEF SoundCommand, Command
<1>4. queue \in Seq(SoundCommand')
  BY <1>3, SeqMonotonic
<1>5. UNCHANGED held => held' \in [Devices -> Nat] /\ HeldWasStored'
  BY <1>2 DEF HeldWasStored
<1>6. ASSUME NEW new \in Seq(SoundCommand'), Enqueue(new) PROVE queue' \in Seq(SoundCommand')
  BY <1>4, <1>6, ConcatProperties DEF Enqueue
<1>7. ASSUME NEW i, Receive(i)
      PROVE  queue' \in Seq(SoundCommand') /\ queue[i] \in SoundCommand
  <2>1. i \in 1..Len(queue) /\ (queue' = RemoveAt(queue, i) \/ queue' = queue)
    BY <1>7 DEF Receive
  <2> QED
    BY <1>4, <2>1, RemoveAtKeepsElements, ElementOfSeq
<1>8. CASE Quiet
  BY <1>1, <1>4, <1>5, <1>8 DEF Quiet, nodeVars
<1>9. ASSUME NEW p \in Provisioners, QueueUpsert(p) PROVE NodeInv'
  <2>1. job[p] \in Devices
    BY <1>9 DEF QueueUpsert, CommitUpsert, LeaseInv, BusyHasAJob
  <2>2. Upsert(job[p]) \in SoundCommand'
    BY <2>1 DEF Upsert, SoundCommand, Command
  <2>3. <<Upsert(job[p])>> \in Seq(SoundCommand')
    BY <2>2
  <2> QED
    BY <1>1, <1>5, <1>6, <1>9, <2>3 DEF QueueUpsert, nodeVars
<1>10. ASSUME NEW p \in Provisioners, QueueLease(p) PROVE NodeInv'
  <2>1. job[p] \in Devices /\ granted' \in Nat /\ granted' \in rows'[job[p]]
    <3>1. job[p] \in Devices
      BY <1>10 DEF QueueLease, CommitLease, LeaseInv, BusyHasAJob
    <3>2. granted' = granted + 1 /\ rows' = [rows EXCEPT ![job[p]] = @ \cup {granted + 1}]
      BY <1>10 DEF QueueLease, CommitLease
    <3> QED
      BY <3>1, <3>2, BoundsAreCounted DEF LeaseInv, LeaseTypeOK
  <2>2. Upsert(job[p]) \in SoundCommand' /\ Offer(job[p], granted') \in SoundCommand'
    BY <2>1 DEF Upsert, Offer, SoundCommand, Command
  <2>3. <<Upsert(job[p]), Offer(job[p], granted')>> \in Seq(SoundCommand')
    BY <2>2
  <2> QED
    BY <1>1, <1>5, <1>6, <1>10, <2>3 DEF QueueLease, nodeVars
<1>11. ASSUME NEW d \in Devices, QueueRevoke(d) PROVE NodeInv'
  <2>1. Revoke(d) \in SoundCommand'
    BY DEF Revoke, SoundCommand, Command
  <2>2. <<Revoke(d)>> \in Seq(SoundCommand')
    BY <2>1
  <2> QED
    BY <1>1, <1>4, <1>5, <1>6, <1>11, <2>2 DEF QueueRevoke, nodeVars
<1>12. ASSUME NEW d \in Devices, Resync(d) PROVE NodeInv'
  <2>1. Upsert(d) \in SoundCommand'
    BY DEF Upsert, SoundCommand, Command
  <2>2. <<Upsert(d)>> \in Seq(SoundCommand')
    BY <2>1
  <2> QED
    BY <1>1, <1>5, <1>6, <1>12, <2>2 DEF Resync, nodeVars
<1>13. ASSUME NEW d \in Devices, ChargeReported(d) \/ Transfer(d) PROVE NodeInv'
  BY <1>1, <1>4, <1>5, <1>13 DEF ChargeReported, Transfer
<1>14. ASSUME NEW i \in 1..MaxQueue, ApplyUpsert(i) PROVE NodeInv'
  <2>1. queue[i].dev \in Devices
    BY <1>7, <1>14 DEF ApplyUpsert, SoundCommand, Command
  <2>2. held' = [held EXCEPT ![queue[i].dev] = 0]
    BY <1>14 DEF ApplyUpsert
  <2>3. held' \in [Devices -> Nat] /\ HeldWasStored'
    BY <1>2, <2>1, <2>2 DEF HeldWasStored
  <2> QED
    BY <1>1, <1>7, <1>14, <2>3 DEF ApplyUpsert
<1>15. ASSUME NEW i \in 1..MaxQueue, ApplyRevoke(i) PROVE NodeInv'
  BY <1>1, <1>5, <1>7, <1>15 DEF ApplyRevoke
<1>16. ASSUME NEW i \in 1..MaxQueue, ApplyLease(i) PROVE NodeInv'
  <2> DEFINE d == queue[i].dev
             l == queue[i].lease
  <2>1. d \in Devices /\ l \in Nat /\ l \in rows[d] \cup orphans
    BY <1>7, <1>16 DEF ApplyLease, SoundCommand, Command
  <2>2. held' = held \/ held' = [held EXCEPT ![d] = l]
    BY <1>16 DEF ApplyLease
  <2>3. held' \in [Devices -> Nat] /\ HeldWasStored'
    BY <1>2, <1>5, <2>1, <2>2 DEF HeldWasStored
  <2> QED
    BY <1>1, <1>7, <1>16, <2>3 DEF ApplyLease
<1>17. ASSUME NEW i \in 1..MaxQueue, Lose(i) PROVE NodeInv'
  BY <1>1, <1>5, <1>7, <1>17 DEF Lose, Receive, nodeVars
<1>18. CASE UNCHANGED vars
  BY <1>1, <1>4, <1>5, <1>18 DEF vars, nodeVars
<1> QED
  BY <1>8, <1>9, <1>10, <1>11, <1>12, <1>13, <1>14, <1>15, <1>16, <1>17, <1>18 DEF Next

(* Whatever order the node gets its commands in, and however often, a lease *)
(* it admits traffic by is one the controller counts as reserved for that   *)
(* device, unless a rebind has deleted the row (quota.lease, rebindDevice). *)
THEOREM NodeHoldsReservedLeases == Spec => []HeldLeaseIsReserved
<1>1. Init => NodeInv
  <2> SUFFICES ASSUME Init PROVE NodeInv
    OBVIOUS
  <2>1. LeaseInv
    BY LeaseInvInit DEF Init
  <2>2. queue \in Seq(SoundCommand)
    BY EmptySeq DEF Init
  <2> QED
    BY <2>1, <2>2 DEF Init, NodeInv, HeldWasStored
<1>2. NodeInv => HeldLeaseIsReserved
  BY DEF NodeInv, HeldWasStored, HeldLeaseIsReserved, Active
<1> QED
  BY <1>1, <1>2, NodeInvStep, PTL DEF Spec
=============================================================================
