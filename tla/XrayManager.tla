----------------------------- MODULE XrayManager -----------------------------
(***************************************************************************)
(* The node's Xray users.  Two goroutines work on them: the control        *)
(* client's read loop applies device.upsert, quota.lease, device.revoke    *)
(* and session.kick one at a time, and the manager's own loop alternates   *)
(* Reconcile and CollectUsage.  Every call to Xray is a step, and the      *)
(* other goroutine may run between any two.  Only `blocked` has a lock,    *)
(* and only around a single access.                                        *)
(*                                                                         *)
(* A device's row is its credential and whether `allowed` holds of it.     *)
(***************************************************************************)
EXTENDS Naturals, FiniteSets

CONSTANTS
  Devices,
  MaxCred,      \* bound: credentials a device goes through
  MaxCommands,  \* bound: commands the controller sends
  MaxFaults     \* bound: calls that fail and restarts of Xray

ASSUME SomeDevice == Devices # {}
ASSUME XrayBounds == MaxCred \in Nat \ {0} /\ MaxCommands \in Nat /\ MaxFaults \in Nat

Creds == 1..MaxCred
NoRow == [cred |-> 0, ok |-> FALSE]
Rows == {r \in [cred : 0..MaxCred, ok : BOOLEAN] : r.cred = 0 => ~r.ok}

VARIABLES
  row,       \* row[d]: the node's store
  user,      \* user[d]: credential of d's Xray user, 0 if there is none
  blocked,   \* Manager.blocked
  cpc,       \* where the control client is, with
  cdev,      \*   its device
  ccred,     \*   and the credential it is to install, 0 to remove the user
  mpc,       \* where the manager's loop is, with
  mdev,      \*   its device,
  seen,      \*   the rows store.Devices returned,
  current,   \*   the credentials current() returned, 0 once visited,
  desired,   \*   and the devices it wants in Xray and has not seen there
  commands, faults,
  excused    \* history: devices blocked after the other goroutine had decided to
             \*   add them, and devices whose removal failed

controlVars == <<cpc, cdev, ccred, commands>>
loopVars == <<mpc, mdev, seen, current, desired>>
vars == <<row, user, blocked, controlVars, loopVars, faults, excused>>

AnyDevice == CHOOSE d \in Devices : TRUE

Init ==
  /\ row = [d \in Devices |-> NoRow]
  /\ user = [d \in Devices |-> 0]
  /\ blocked = {}
  /\ cpc = "idle" /\ cdev = AnyDevice /\ ccred = 0
  /\ mpc = "idle" /\ mdev = AnyDevice
  /\ seen = row /\ current = [d \in Devices |-> 0] /\ desired = {}
  /\ commands = 0 /\ faults = 0
  /\ excused = {}
-----------------------------------------------------------------------------
(* Calls to Xray.  RemoveUser of nobody is not an error, AddUser of an      *)
(* email that is there is.                                                  *)

RemoveUser(d) == user' = [user EXCEPT ![d] = 0]
AddUser(d, c) == user' = [user EXCEPT ![d] = IF @ = 0 THEN c ELSE @]
-----------------------------------------------------------------------------
(* The control client: handle, then Manager.Upsert, Revoke or Kick *)

Command(d, at) ==
  /\ cpc = "idle" /\ commands < MaxCommands
  /\ commands' = commands + 1
  /\ cpc' = at /\ cdev' = d
  /\ UNCHANGED <<user, blocked, loopVars, faults>>

\* device.upsert stores its payload; quota.lease the same row with a lease.
HandleUpsert(d) ==
  /\ Command(d, "upsert")
  /\ \E c \in {row[d].cred, row[d].cred + 1} \cap Creds, ok \in BOOLEAN :
       /\ row' = [row EXCEPT ![d] = [cred |-> c, ok |-> ok]]
       /\ ccred' = IF ok THEN c ELSE 0
  /\ UNCHANGED excused

\* device.revoke sets active = 0.
HandleRevoke(d) ==
  /\ Command(d, "block")
  /\ row' = [row EXCEPT ![d].ok = FALSE]
  /\ UNCHANGED <<ccred, excused>>

\* session.kick writes nothing to the store.
HandleKick(d) ==
  /\ Command(d, "block")
  /\ UNCHANGED <<row, ccred, excused>>

\* Manager.Upsert: unblocked, then ensured or removed.
Upsert ==
  /\ cpc = "upsert"
  /\ blocked' = blocked \ {cdev}
  /\ cpc' = IF ccred # 0 THEN "ensure" ELSE "remove"
  /\ excused' = excused \ {cdev}
  /\ UNCHANGED <<row, user, cdev, ccred, commands, loopVars, faults>>

\* Manager.Revoke and Kick: blocked, then removed.
Block ==
  /\ cpc = "block"
  /\ blocked' = blocked \cup {cdev}
  /\ cpc' = "remove"
  /\ excused' = IF cdev \in desired THEN excused \cup {cdev} ELSE excused
  /\ UNCHANGED <<row, user, cdev, ccred, commands, loopVars, faults>>

Remove ==
  /\ cpc = "remove"
  /\ RemoveUser(cdev)
  /\ cpc' = "idle"
  /\ UNCHANGED <<row, blocked, cdev, ccred, commands, loopVars, faults, excused>>

\* ensure: nothing to do, a user to replace, or one to add.
Ensure ==
  /\ cpc = "ensure"
  /\ cpc' = IF user[cdev] = ccred THEN "idle"
            ELSE IF user[cdev] = 0 THEN "add" ELSE "replace"
  /\ UNCHANGED <<row, user, blocked, cdev, ccred, commands, loopVars, faults, excused>>

Replace ==
  /\ cpc = "replace"
  /\ RemoveUser(cdev)
  /\ cpc' = "add"
  /\ UNCHANGED <<row, blocked, cdev, ccred, commands, loopVars, faults, excused>>

\* The command is acknowledged, or rejected because the user is there.
Add ==
  /\ cpc = "add"
  /\ AddUser(cdev, ccred)
  /\ cpc' = "idle"
  /\ UNCHANGED <<row, blocked, cdev, ccred, commands, loopVars, faults, excused>>

\* Xray or the store cannot be reached: the command is rejected.
ControlFails ==
  /\ cpc # "idle" /\ faults < MaxFaults
  /\ faults' = faults + 1
  /\ cpc' = "idle"
  /\ excused' = IF cpc = "remove" THEN excused \cup {cdev} ELSE excused
  /\ UNCHANGED <<row, user, blocked, cdev, ccred, commands, loopVars>>
-----------------------------------------------------------------------------
(* Manager.Run: Reconcile *)

Installing(d) == cpc \in {"ensure", "replace", "add"} /\ cdev = d

\* store.Devices
ReadRows ==
  /\ mpc = "idle"
  /\ mpc' = "listed" /\ seen' = row
  /\ UNCHANGED <<row, user, blocked, controlVars, mdev, current, desired, faults, excused>>

\* Mutant: the blocked map is not consulted.
ReadUsersOnly ==
  /\ mpc = "listed"
  /\ mpc' = "visit"
  /\ current' = user
  /\ desired' = {d \in Devices : seen[d].ok}
  /\ UNCHANGED <<row, user, blocked, controlVars, mdev, seen, faults, excused>>

\* current(), then what is wanted: allowed and not blocked.
ReadUsers ==
  /\ mpc = "listed"
  /\ mpc' = "visit"
  /\ current' = user
  /\ desired' = {d \in Devices : seen[d].ok /\ d \notin blocked}
  /\ UNCHANGED <<row, user, blocked, controlVars, mdev, seen, faults, excused>>

\* Mutant: a user that is there is left alone, whatever its credential.
VisitByEmail(d) ==
  /\ mpc = "visit" /\ current[d] # 0
  /\ IF d \in desired THEN UNCHANGED user ELSE RemoveUser(d)
  /\ mpc' = "visit" /\ mdev' = d
  /\ desired' = desired \ {d}
  /\ current' = [current EXCEPT ![d] = 0]
  /\ UNCHANGED <<row, blocked, controlVars, seen, faults, excused>>

\* A user current() returned: kept, removed, or removed to be added again.
Visit(d) ==
  LET wanted == d \in desired
      kept == wanted /\ current[d] = seen[d].cred IN
  /\ mpc = "visit" /\ current[d] # 0
  /\ IF kept THEN UNCHANGED user ELSE RemoveUser(d)
  /\ mpc' = (IF wanted /\ ~kept THEN "add" ELSE "visit") /\ mdev' = d
  /\ desired' = IF kept THEN desired \ {d} ELSE desired
  /\ current' = [current EXCEPT ![d] = 0]
  /\ excused' = IF wanted \/ Installing(d) THEN excused ELSE excused \ {d}
  /\ UNCHANGED <<row, blocked, controlVars, seen, faults>>

Visited == \A d \in Devices : current[d] = 0

\* Back to the ticker, with or without an error.
EndRound ==
  /\ mpc' = "idle"
  /\ current' = [d \in Devices |-> 0] /\ desired' = {}

\* The user is added with the credential of the row that was read; the round
\* ends with an error if it is already there.
AddWanted(d) ==
  /\ \/ mpc = "add" /\ d = mdev
     \/ mpc = "visit" /\ Visited /\ d \in desired
  /\ AddUser(d, seen[d].cred)
  /\ mdev' = d
  /\ IF user[d] = 0
     THEN mpc' = "visit" /\ desired' = desired \ {d} /\ UNCHANGED current
     ELSE EndRound
  /\ UNCHANGED <<row, blocked, controlVars, seen, faults, excused>>

ReconcileDone ==
  /\ mpc = "visit" /\ Visited /\ desired = {}
  /\ EndRound
  /\ UNCHANGED <<row, user, blocked, controlVars, mdev, seen, faults, excused>>
-----------------------------------------------------------------------------
(* Manager.Run: CollectUsage *)

\* After the usage read from Xray is added, d is no longer allowed.
CollectUsage(d) ==
  /\ mpc = "idle" /\ row[d].cred # 0
  /\ row' = [row EXCEPT ![d].ok = FALSE]
  /\ mpc' = "block" /\ mdev' = d
  /\ UNCHANGED <<user, blocked, controlVars, seen, current, desired, faults, excused>>

CollectBlock ==
  /\ mpc = "block"
  /\ blocked' = blocked \cup {mdev}
  /\ mpc' = "remove"
  /\ excused' = IF Installing(mdev) THEN excused \cup {mdev} ELSE excused
  /\ UNCHANGED <<row, user, controlVars, mdev, seen, current, desired, faults>>

CollectRemove ==
  /\ mpc = "remove"
  /\ RemoveUser(mdev)
  /\ mpc' = "idle"
  /\ UNCHANGED <<row, blocked, controlVars, mdev, seen, current, desired, faults, excused>>

\* A call of the loop fails: Reconcile returns, CollectUsage goes on.
LoopFails ==
  /\ mpc # "idle" /\ faults < MaxFaults
  /\ faults' = faults + 1
  /\ EndRound
  /\ excused' = IF mpc = "remove" THEN excused \cup {mdev} ELSE excused
  /\ UNCHANGED <<row, user, blocked, controlVars, mdev, seen>>
-----------------------------------------------------------------------------
(* Time and Xray *)

\* The subscription or the lease of d passes its end.
Lapse(d) ==
  /\ row[d].ok
  /\ row' = [row EXCEPT ![d].ok = FALSE]
  /\ UNCHANGED <<user, blocked, controlVars, loopVars, faults, excused>>

\* Xray keeps its users in memory.
XrayRestart ==
  /\ faults < MaxFaults
  /\ faults' = faults + 1
  /\ user' = [d \in Devices |-> 0]
  /\ UNCHANGED <<row, blocked, controlVars, loopVars, excused>>

Control == Upsert \/ Block \/ Remove \/ Ensure \/ Replace \/ Add

Loop ==
  \/ ReadUsers \/ ReconcileDone \/ CollectBlock \/ CollectRemove
  \/ \E d \in Devices : Visit(d) \/ AddWanted(d)

Next ==
  \/ \E d \in Devices : HandleUpsert(d) \/ HandleRevoke(d) \/ HandleKick(d)
  \/ Control \/ ControlFails
  \/ ReadRows \/ Loop \/ LoopFails
  \/ \E d \in Devices : CollectUsage(d) \/ Lapse(d)
  \/ XrayRestart

Spec == Init /\ [][Next]_vars

(* Both goroutines go on, and select, which picks among the tickers that    *)
(* are ready, does not pass over Reconcile for ever.                        *)
FairSpec == Spec /\ WF_vars(Control) /\ WF_vars(Loop) /\ SF_vars(ReadRows)
-----------------------------------------------------------------------------
TypeOK ==
  /\ row \in [Devices -> Rows] /\ seen \in [Devices -> Rows]
  /\ user \in [Devices -> 0..MaxCred] /\ current \in [Devices -> 0..MaxCred]
  /\ blocked \subseteq Devices /\ desired \subseteq Devices
  /\ cpc \in {"idle", "upsert", "block", "remove", "ensure", "replace", "add"}
  /\ mpc \in {"idle", "listed", "visit", "add", "block", "remove"}
  /\ cdev \in Devices /\ mdev \in Devices /\ ccred \in 0..MaxCred
  /\ commands \in 0..MaxCommands /\ faults \in 0..MaxFaults
  /\ excused \subseteq Devices

(* A blocked device has no Xray user, unless it is just being removed, its  *)
(* removal failed, or it was blocked between the other goroutine's decision *)
(* to add it and the call that does.  The Reconcile that removes such a     *)
(* user ends the exception, and nothing else brings a blocked device back.  *)
BlockedReturnsOnlyByARace ==
  \A d \in blocked : user[d] # 0 =>
    d \in excused \/ (cpc = "remove" /\ cdev = d) \/ (mpc = "remove" /\ mdev = d)

(* Once the controller is quiet, Xray's users come to be those the store    *)
(* and the blocked map ask for, each with its newest credential, whatever   *)
(* the goroutines did to each other (Reconcile).                            *)
XrayConverges ==
  <>[](\A d \in Devices :
         user[d] = IF row[d].ok /\ d \notin blocked THEN row[d].cred ELSE 0)
=============================================================================
