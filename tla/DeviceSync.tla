------------------------------ MODULE DeviceSync ------------------------------
(***************************************************************************)
(* One device and the node it is assigned to: provisioning, blocking and   *)
(* unblocking its owner, rebinding, and the resynchronisation of a node    *)
(* that connects.  Each queues device.upsert or device.revoke commands;    *)
(* what the node ends up with depends on the order in which it applies     *)
(* them.  Credentials are numbered: payload k > 0 is a device.upsert with  *)
(* credential k, payload 0 a device.revoke.                                *)
(***************************************************************************)
EXTENDS CommandChannel

CONSTANT MaxCred    \* bound on the credentials a device goes through

ASSUME CredentialsAreBounded == MaxCred \in Nat \ {0}

VARIABLES
  payload,   \* node_commands.payload
  cred,      \* devices.credential_hash on the controller
  blocked,   \* users.status = 'blocked'
  selected,  \* a provisioning has seen an active user and not yet queued
  revoking,  \* a rebind has committed and not yet queued its revoke
  resync,    \* per handler: credential its resync query read, 0 for none
  nodeDev,   \* credential the node accepts for the device, 0 for none
  newest,    \* history: highest command that has taken effect on the node
  late       \* history: a command took effect after a higher one

deviceVars == <<payload, cred, blocked, selected, revoking, resync>>
effectVars == <<nodeDev, newest, late>>
syncVars == <<channelVars, deviceVars, effectVars>>

Creds == 1..MaxCred

SyncTypeOK ==
  /\ ChannelTypeOK
  /\ payload \in [Commands -> Creds \cup {0}]
  /\ cred \in Creds
  /\ blocked \in BOOLEAN
  /\ selected \in BOOLEAN
  /\ revoking \in BOOLEAN
  /\ resync \in [Handlers -> Creds \cup {0}]
  /\ nodeDev \in Creds \cup {0}
  /\ newest \in Commands \cup {0}
  /\ late \in BOOLEAN

SyncInit ==
  /\ ChannelInit
  /\ payload = [c \in Commands |-> 0]
  /\ cred = 1
  /\ blocked = FALSE
  /\ selected = FALSE
  /\ revoking = FALSE
  /\ resync = [h \in Handlers |-> 0]
  /\ nodeDev = 0
  /\ newest = 0
  /\ late = FALSE

-----------------------------------------------------------------------------
(* Requests and workers of the controller *)

Queue(c, p) ==
  /\ Enqueue(c)
  /\ payload' = [payload EXCEPT ![c] = p]

\* subscriptionDocument, renewQuotaLeases and changePlan look at users.status
\* in a statement of their own, before provisionDevice.
Select ==
  /\ ~blocked /\ ~selected
  /\ selected' = TRUE
  /\ UNCHANGED <<channelVars, payload, cred, blocked, revoking, resync, effectVars>>

\* provisionDevice reads the credential and queues the upsert in one
\* transaction that does not look at users.status.
Provision(c) ==
  /\ selected
  /\ Queue(c, cred)
  /\ selected' = FALSE
  /\ UNCHANGED <<cred, blocked, revoking, resync, effectVars>>

\* provisionDevice fails: no quota remains, the subscription is not active.
ProvisionFails ==
  /\ selected
  /\ selected' = FALSE
  /\ UNCHANGED <<channelVars, payload, cred, blocked, revoking, resync, effectVars>>

\* updateUserStatus: a block queues the revoke in its transaction.
Block(c) ==
  /\ Queue(c, 0)
  /\ blocked' = TRUE
  /\ UNCHANGED <<cred, selected, revoking, resync, effectVars>>

Unblock ==
  /\ blocked
  /\ blocked' = FALSE
  /\ UNCHANGED <<channelVars, payload, cred, selected, revoking, resync, effectVars>>

\* rebindDevice commits the new credential, then queues the revoke outside
\* the transaction and ignores its failure.
RebindCommit ==
  /\ ~revoking /\ cred < MaxCred
  /\ cred' = cred + 1
  /\ revoking' = TRUE
  /\ UNCHANGED <<channelVars, payload, blocked, selected, resync, effectVars>>

RebindRevoke(c) ==
  /\ revoking
  /\ Queue(c, 0)
  /\ revoking' = FALSE
  /\ UNCHANGED <<cred, blocked, selected, resync, effectVars>>

RebindRevokeFails ==
  /\ revoking
  /\ revoking' = FALSE
  /\ UNCHANGED <<channelVars, payload, cred, blocked, selected, resync, effectVars>>

-----------------------------------------------------------------------------
(* The hub *)

\* Connect, and the query of queueDeviceResync.
AdmitAndRead(h) ==
  /\ Connect(h)
  /\ resync' = [resync EXCEPT ![h] = IF blocked THEN 0 ELSE cred]
  /\ UNCHANGED <<payload, cred, blocked, selected, revoking, effectVars>>

\* Its INSERT, with the credential of the query.  When it fails the handler
\* goes on without.
QueueResync(h) ==
  /\ EndResync(h)
  /\ resync' = [resync EXCEPT ![h] = 0]
  /\ \/ UNCHANGED <<status, payload>>
     \/ \E c \in Commands : /\ resync[h] # 0
                             /\ InsertRow(c)
                             /\ payload' = [payload EXCEPT ![c] = resync[h]]
  /\ UNCHANGED <<cred, blocked, selected, revoking, effectVars>>

SyncCrash ==
  /\ ControllerRestart
  /\ selected' = FALSE
  /\ revoking' = FALSE
  /\ resync' = [h \in Handlers |-> 0]
  /\ UNCHANGED <<payload, cred, blocked, effectVars>>

-----------------------------------------------------------------------------
(* The node *)

TakeEffect(c) ==
  /\ nodeDev' = payload[c]
  /\ newest' = IF c > newest THEN c ELSE newest
  /\ late' = (late \/ c < newest)

\* Mutant: an acknowledged device.revoke does not reach the store.
ApplyUpsertsOnly(c) ==
  /\ NodeApply(c)
  /\ IF payload[c] = 0 THEN UNCHANGED effectVars ELSE TakeEffect(c)
  /\ UNCHANGED deviceVars

Apply(c) ==
  /\ NodeApply(c)
  /\ TakeEffect(c)
  /\ UNCHANGED deviceVars

\* handle fails before it writes the device, or after: the local API of Xray
\* or Hysteria is down.
Fail(c) ==
  /\ NodeReject(c)
  /\ TakeEffect(c) \/ UNCHANGED effectVars
  /\ UNCHANGED deviceVars

-----------------------------------------------------------------------------

SyncNext ==
  \/ Select \/ ProvisionFails \/ Unblock \/ RebindCommit \/ RebindRevokeFails
  \/ \E c \in Commands : Provision(c) \/ Block(c) \/ RebindRevoke(c)
  \/ \E h \in Handlers : AdmitAndRead(h) \/ QueueResync(h)
  \/ \E c \in Commands : Apply(c) \/ Fail(c)
  \/ SyncCrash
  \/ /\ \/ \E c \in Commands : BackoffElapses(c) \/ DeadlinePasses(c) \/ NodeDuplicate(c)
        \/ \E h \in Handlers : Deliver(h) \/ ReadLoop(h)
        \/ Drop \/ NodeRestart
     /\ UNCHANGED <<deviceVars, effectVars>>

SyncSpec == SyncInit /\ [][SyncNext]_syncVars

-----------------------------------------------------------------------------
(* Properties *)

IsLast(c) == status[c] # "none" /\ \A d \in Commands : d > c => status[d] = "none"

\* Once the last command queued for the device is acknowledged, the node has
\* what that command says, unless it took effect on an older command after a
\* newer one: loss, duplication, restarts and partial failures of handle alone
\* never make the two sides disagree (deliver, readLoop, handle).
LastCommandWins ==
  \A c \in Commands :
    IsLast(c) /\ status[c] = "acked" /\ ~late => nodeDev = payload[c]

=============================================================================
