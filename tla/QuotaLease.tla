------------------------------ MODULE QuotaLease ------------------------------
(***************************************************************************)
(* How the controller reserves quota, within one billing period.           *)
(* `provisionDevice`, called by requests and by the renewal worker, gives  *)
(* a device without an unexpired lease part of what its owner has left.    *)
(* Transactions run under READ COMMITTED: others run between BEGIN, which  *)
(* fixes now(), the row locks and COMMIT.                                  *)
(***************************************************************************)
EXTENDS Integers, FiniteSets

CONSTANTS
  Users, Devices,
  Owner,        \* Owner[d]: devices.user_id
  Quota,        \* subscriptions.quota_bytes, the same for every user
  LeaseBytes,   \* what provisionDevice asks for: 1_000_000_000
  Worker,       \* the goroutine of renewQuotaLeases
  Requests,     \* requests, each provisioning one device at a time
  None,
  MaxLeases,    \* bound: leases issued
  MaxUse,       \* bound: bytes charged to a user
  MaxFaults     \* bound: transactions that fail for no reason of their own

ASSUME DevicesAreOwned == Owner \in [Devices -> Users]
ASSUME BytesAreCounted == Quota \in Nat /\ LeaseBytes \in Nat \ {0}
ASSUME BoundsAreCounted == MaxLeases \in Nat /\ MaxUse \in Nat /\ MaxFaults \in Nat
ASSUME ProvisionersAreDistinct == Worker \notin Requests /\ None \notin Requests \cup {Worker} \cup Devices

Leases == 1..MaxLeases
Provisioners == Requests \cup {Worker}

VARIABLES
  used,      \* subscriptions.used_bytes
  open,      \* users whose subscriptions.status is 'active' or 'grace'
  lock,      \* lock[u]: who holds the row lock of u's subscription
  granted,   \* the leases issued so far are 1..granted
  bytes,     \* quota_leases.bytes
  rows,      \* rows[d]: leases of d in quota_leases
  expired,   \* leases past expires_at
  pc,        \* pc[p]: where provisioner p is
  job,       \* job[p]: the device it is at
  gone,      \* gone[p]: the leases that are expired at its now()
  snap,      \* snap[p]: used_bytes as it has read it
  due,       \* the worker's remaining devices
  faults

rowVars == <<used, open, granted, bytes, rows, expired>>
provVars == <<lock, pc, job, gone, snap, due, faults>>
leaseVars == <<rowVars, provVars>>

LeaseInit ==
  /\ used = [u \in Users |-> 0] /\ open = Users
  /\ granted = 0 /\ bytes = [l \in Leases |-> 0]
  /\ rows = [d \in Devices |-> {}] /\ expired = {}
  /\ lock = [u \in Users |-> None]
  /\ pc = [p \in Provisioners |-> "idle"]
  /\ job = [p \in Provisioners |-> None]
  /\ gone = [p \in Provisioners |-> {}]
  /\ snap = [p \in Provisioners |-> 0]
  /\ due = {} /\ faults = 0

\* The unexpired leases of a device.
Active(d) == rows[d] \ expired

\* Bound: as many leases are left as devices may come to need.
LeasesLast ==
  granted + Cardinality({d \in Devices : Active(d) = {}}) < MaxLeases
-----------------------------------------------------------------------------
(* provisionDevice *)

\* reservableBytes: never more than is left, nothing if all is reserved.
ReservableBytes(remaining, reserved, requested) ==
  LET available == remaining - reserved IN
  IF available < 0 THEN 0
  ELSE IF requested > available THEN available
  ELSE IF requested < 0 THEN 0 ELSE requested

\* What provisionDevice reserves: it comes to this point only when the device
\* has no active reservation.
Grant(n) == ReservableBytes(Quota - n, 0, LeaseBytes)

\* Mutant: the renewal looks for devices that never had a lease.
SelectDueOnce ==
  /\ pc[Worker] = "idle" /\ due = {}
  /\ due' = {d \in Devices : Owner[d] \in open /\ rows[d] = {}}
  /\ due' # {}
  /\ UNCHANGED <<rowVars, lock, pc, job, gone, snap, faults>>

\* renewQuotaLeases reads the devices without an unexpired lease.
SelectDue ==
  /\ pc[Worker] = "idle" /\ due = {}
  /\ due' = {d \in Devices : Owner[d] \in open /\ Active(d) = {}}
  /\ due' # {}
  /\ UNCHANGED <<rowVars, lock, pc, job, gone, snap, faults>>

\* tx.Begin.  The worker takes its devices in whatever order the query, which
\* has no ORDER BY, returned them; a request has looked at the status.
Begin(p, d) ==
  /\ pc[p] = "idle"
  /\ IF p = Worker THEN d \in due ELSE Owner[d] \in open
  /\ pc' = [pc EXCEPT ![p] = "begun"]
  /\ job' = [job EXCEPT ![p] = d]
  /\ gone' = [gone EXCEPT ![p] = expired]
  /\ due' = IF p = Worker THEN due \ {d} ELSE due
  /\ UNCHANGED <<rowVars, lock, snap, faults>>

\* Mutant: SELECT without FOR UPDATE.
AcquireNothing(p) ==
  /\ pc[p] = "begun"
  /\ pc' = [pc EXCEPT ![p] = "locked"]
  /\ snap' = [snap EXCEPT ![p] = used[Owner[job[p]]]]
  /\ UNCHANGED <<rowVars, lock, job, gone, due, faults>>

\* SELECT ... FOR UPDATE locks the device and the subscription and reads the
\* newest version of both.
Acquire(p) ==
  LET u == Owner[job[p]] IN
  /\ pc[p] = "begun" /\ lock[u] = None
  /\ lock' = [lock EXCEPT ![u] = p]
  /\ pc' = [pc EXCEPT ![p] = "locked"]
  /\ snap' = [snap EXCEPT ![p] = used[u]]
  /\ UNCHANGED <<rowVars, job, gone, due, faults>>

\* The transaction of p ends, committed or rolled back: its locks are free,
\* its variables gone.
Release(p) ==
  /\ pc' = [pc EXCEPT ![p] = "idle"]
  /\ lock' = [u \in Users |-> IF lock[u] = p THEN None ELSE lock[u]]
  /\ job' = [job EXCEPT ![p] = None]
  /\ gone' = [gone EXCEPT ![p] = {}]
  /\ snap' = [snap EXCEPT ![p] = 0]

\* Mutant: the comparison with expires_at is the wrong way round.
ReservedWhenExpired(p) == rows[job[p]] \cap gone[p]

\* The leases p counts as active: unexpired at its now().  Their sum is
\* positive if there is one: bytes is, and consumed_bytes is never set.
Reserved(p) ==
  rows[job[p]] \ gone[p]

\* There is a lease: nothing is reserved.
CommitUpsert(p) ==
  /\ pc[p] = "locked" /\ Owner[job[p]] \in open
  /\ Reserved(p) # {}
  /\ Release(p)
  /\ UNCHANGED <<rowVars, due, faults>>

\* There is none: what may be reserved becomes the device's lease.
CommitLease(p) ==
  LET d == job[p]
      l == granted + 1
      grant == Grant(snap[p]) IN
  /\ pc[p] = "locked" /\ Owner[d] \in open
  /\ Reserved(p) = {} /\ grant # 0 /\ granted < MaxLeases
  /\ Release(p)
  /\ granted' = l
  /\ bytes' = [bytes EXCEPT ![l] = grant]
  /\ rows' = [rows EXCEPT ![d] = @ \cup {l}]
  /\ UNCHANGED <<used, open, expired, due, faults>>

\* An error of provisionDevice: the transaction rolls back, and the worker
\* returns without looking at its other devices.
Fails(p) ==
  /\ Release(p)
  /\ due' = IF p = Worker THEN {} ELSE due
  /\ UNCHANGED rowVars

\* "subscription is not active" or "no quota remains"
Refuse(p) ==
  /\ pc[p] = "locked"
  /\ \/ Owner[job[p]] \notin open
     \/ Reserved(p) = {} /\ Grant(snap[p]) = 0
  /\ Fails(p)
  /\ UNCHANGED faults

\* The database fails, or ends a deadlock.
Abort(p) ==
  /\ pc[p] # "idle" /\ faults < MaxFaults
  /\ faults' = faults + 1
  /\ Fails(p)
-----------------------------------------------------------------------------
(* What else changes the rows *)

Expire(l) ==
  /\ l <= granted /\ l \notin expired /\ LeasesLast
  /\ expired' = expired \cup {l}
  /\ UNCHANGED <<used, open, granted, bytes, rows, provVars>>

\* NodeHub.usage: the UPDATE of the owner's row waits for the row lock.
Charge(d) ==
  LET u == Owner[d] IN
  /\ lock[u] = None /\ used[u] < MaxUse
  /\ used' = [used EXCEPT ![u] = @ + 1]
  /\ UNCHANGED <<open, granted, bytes, rows, expired, provVars>>

\* subscriptionLifecycle: the subscription ends.
Lapse(u) ==
  /\ u \in open /\ lock[u] = None
  /\ open' = open \ {u}
  /\ UNCHANGED <<used, granted, bytes, rows, expired, provVars>>

\* rebindDevice deletes the leases of the device, whose row it locks.
Rebind(d) ==
  /\ \A p \in Provisioners : pc[p] = "locked" => job[p] # d
  /\ Active(d) # {} /\ LeasesLast
  /\ rows' = [rows EXCEPT ![d] = {}]
  /\ UNCHANGED <<used, open, granted, bytes, expired, provVars>>

Provision(p) ==
  \/ \E d \in Devices : Begin(p, d)
  \/ Acquire(p) \/ CommitUpsert(p) \/ CommitLease(p) \/ Refuse(p)

LeaseNext ==
  \/ SelectDue
  \/ \E p \in Provisioners : Provision(p) \/ Abort(p)
  \/ \E l \in Leases : Expire(l)
  \/ \E d \in Devices : Charge(d) \/ Rebind(d)
  \/ \E u \in Users : Lapse(u)

LeaseSpec == LeaseInit /\ [][LeaseNext]_leaseVars

(* The worker's ticker goes on, and a row lock is granted in turn, so that  *)
(* whoever waits for it gets it.                                            *)
FairSpec ==
  /\ LeaseSpec
  /\ WF_leaseVars(SelectDue)
  /\ \A p \in Provisioners :
      /\ WF_leaseVars(CommitUpsert(p) \/ CommitLease(p) \/ Refuse(p))
      /\ SF_leaseVars(Acquire(p))
  /\ WF_leaseVars(\E d \in Devices : Begin(Worker, d))
-----------------------------------------------------------------------------
LeaseTypeOK ==
  /\ used \in [Users -> 0..MaxUse] /\ open \subseteq Users
  /\ granted \in 0..MaxLeases /\ bytes \in [Leases -> Nat]
  /\ rows \in [Devices -> SUBSET (1..granted)] /\ expired \subseteq 1..granted
  /\ lock \in [Users -> Provisioners \cup {None}]
  /\ pc \in [Provisioners -> {"idle", "begun", "locked"}]
  /\ job \in [Provisioners -> Devices \cup {None}]
  /\ gone \in [Provisioners -> SUBSET Leases]
  /\ snap \in [Provisioners -> 0..MaxUse]
  /\ due \subseteq Devices /\ faults \in 0..MaxFaults

(* A device has at most one unexpired lease, however requests and the       *)
(* worker race to provision it and although each of them judges expiry by   *)
(* the time its own transaction began (provisionDevice, FOR UPDATE).        *)
OneActiveLease ==
  \A d \in Devices : \A k, l \in Active(d) : k = l

(* A lease never holds more than its owner has left when it is committed,   *)
(* although usage is charged while provisioning runs (provisionDevice reads *)
(* used_bytes in a statement before the one that stores the lease).         *)
GrantsFit ==
  [][\A d \in Devices : \A l \in rows'[d] \ rows[d] :
        bytes'[l] <= Quota - used[Owner[d]]]_leaseVars

(* As long as nobody runs out of quota or of subscription, every device     *)
(* keeps getting a new lease after the old one expires (renewQuotaLeases).  *)
LeasesAreRenewed ==
  <>[](\A u \in Users : used[u] < Quota /\ u \in open)
    => \A d \in Devices : []<>(Active(d) # {})
=============================================================================
