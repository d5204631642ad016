------------------------ MODULE SharedResourceProofs ------------------------
(***************************************************************************)
(* Theorems about two resources that goroutines share without a plan       *)
(* between them: the users of a node's Xray, which the control client and  *)
(* the manager's loop both edit, and the connections of the controller's   *)
(* database pool, which the handlers of nodes and all requests draw from.  *)
(***************************************************************************)
EXTENDS XrayManager, ConnectionPool, FiniteSetTheorems, TLAPS

-----------------------------------------------------------------------------
(* The users of Xray: nothing but the two races brings a blocked device    *)
(* back.                                                                   *)

\* The loop wants devices only inside a Reconcile, and wants the one it adds.
WantedInReconcile ==
  /\ mpc \notin {"visit", "add"} => desired = {}
  /\ mpc = "add" => mdev \in desired

\* A blocked device that either goroutine is still going to add is excused.
AddersAreExcused ==
  \A d \in blocked : d \in desired \/ Installing(d) => d \in excused

XrayInv == WantedInReconcile /\ AddersAreExcused /\ BlockedReturnsOnlyByARace

\* A row holds a credential or none, and can always be denied.
LEMMA RowTypes ==
  ASSUME NEW r \in Rows
  PROVE  /\ r.cred \in 0..MaxCred /\ r.ok \in BOOLEAN
         /\ [r EXCEPT !.ok = FALSE] \in Rows
  BY DEF Rows

\* The types hold when the manager starts, with an empty store.
LEMMA TypesInit == Init => TypeOK
<1>1. AnyDevice \in Devices  BY SomeDevice DEF AnyDevice
<1>2. NoRow \in Rows  BY XrayBounds DEF Rows, NoRow
<1> QED  BY <1>1, <1>2, XrayBounds DEF Init, TypeOK

\* Each step of either goroutine, of time and of Xray keeps the types.
LEMMA TypesStep == TypeOK /\ [Next]_vars => TypeOK'
<1> SUFFICES ASSUME TypeOK, [Next]_vars PROVE TypeOK'
  OBVIOUS
<1> USE XrayBounds DEF TypeOK
<1>1. ASSUME NEW d \in Devices, HandleUpsert(d) PROVE TypeOK'
  BY <1>1 DEF HandleUpsert, Command, controlVars, loopVars, Creds, Rows
<1>2. ASSUME NEW d \in Devices, HandleRevoke(d) PROVE TypeOK'
  BY <1>2, RowTypes DEF HandleRevoke, Command, controlVars, loopVars
<1>3. ASSUME NEW d \in Devices, HandleKick(d) PROVE TypeOK'
  BY <1>3 DEF HandleKick, Command, controlVars, loopVars
<1>4. ASSUME NEW d \in Devices, Visit(d) PROVE TypeOK'
  BY <1>4 DEF Visit, RemoveUser, Installing, controlVars, loopVars
<1>5. ASSUME NEW d \in Devices, AddWanted(d) PROVE TypeOK'
  <2>1. seen[d].cred \in 0..MaxCred
    BY RowTypes
  <2> QED
    BY <1>5, <2>1 DEF AddWanted, AddUser, EndRound, Visited, controlVars, loopVars
<1>6. ASSUME NEW d \in Devices, CollectUsage(d) PROVE TypeOK'
  BY <1>6, RowTypes DEF CollectUsage, controlVars, loopVars
<1>7. ASSUME NEW d \in Devices, Lapse(d) PROVE TypeOK'
  BY <1>7, RowTypes DEF Lapse, controlVars, loopVars
<1>8. CASE ReadRows
  BY <1>8 DEF ReadRows, controlVars, loopVars
<1>9. CASE ReadUsers
  BY <1>9 DEF ReadUsers, controlVars, loopVars
<1>10. CASE ReconcileDone
  BY <1>10 DEF ReconcileDone, EndRound, controlVars, loopVars
<1>11. CASE CollectBlock
  BY <1>11 DEF CollectBlock, Installing, controlVars, loopVars
<1>12. CASE CollectRemove
  BY <1>12 DEF CollectRemove, RemoveUser, controlVars, loopVars
<1>13. CASE LoopFails
  BY <1>13 DEF LoopFails, EndRound, controlVars, loopVars
<1>14. CASE Upsert
  BY <1>14 DEF Upsert, controlVars, loopVars
<1>15. CASE Block
  BY <1>15 DEF Block, controlVars, loopVars
<1>16. CASE Remove
  BY <1>16 DEF Remove, RemoveUser, controlVars, loopVars
<1>17. CASE Ensure
  BY <1>17 DEF Ensure, controlVars, loopVars
<1>18. CASE Replace
  BY <1>18 DEF Replace, RemoveUser, controlVars, loopVars
<1>19. CASE Add
  BY <1>19 DEF Add, AddUser, controlVars, loopVars
<1>20. CASE ControlFails
  BY <1>20 DEF ControlFails, controlVars, loopVars
<1>21. CASE XrayRestart
  BY <1>21 DEF XrayRestart, controlVars, loopVars
<1>22. CASE UNCHANGED vars
  BY <1>22 DEF vars, controlVars, loopVars
<1> QED
  BY <1>1, <1>2, <1>3, <1>4, <1>5, <1>6, <1>7, <1>8, <1>9, <1>10, <1>11, <1>12, <1>13, <1>14, <1>15, <1>16, <1>17, <1>18, <1>19, <1>20, <1>21, <1>22 DEF Next, Control, Loop

\* Nobody is blocked and nobody is wanted when the manager starts.
LEMMA XrayInvInit == Init => XrayInv
  BY DEF Init, XrayInv, WantedInReconcile, AddersAreExcused, BlockedReturnsOnlyByARace

\* A step that blocks a device excuses it if somebody is still to add it, and
\* a step that ends an excuse leaves nobody to add the device.
LEMMA XrayInvStep == TypeOK /\ XrayInv /\ [Next]_vars => XrayInv'
<1> SUFFICES ASSUME TypeOK, XrayInv, [Next]_vars PROVE XrayInv'
  OBVIOUS
<1> USE XrayBounds DEF TypeOK, XrayInv, WantedInReconcile, AddersAreExcused,
                       BlockedReturnsOnlyByARace, Installing
<1>1. ASSUME NEW d \in Devices, HandleUpsert(d) PROVE XrayInv'
  BY <1>1 DEF HandleUpsert, Command, controlVars, loopVars
<1>2. ASSUME NEW d \in Devices, HandleRevoke(d) PROVE XrayInv'
  BY <1>2 DEF HandleRevoke, Command, controlVars, loopVars
<1>3. ASSUME NEW d \in Devices, HandleKick(d) PROVE XrayInv'
  BY <1>3 DEF HandleKick, Command, controlVars, loopVars
<1>4. ASSUME NEW d \in Devices, Visit(d) PROVE XrayInv'
  BY <1>4 DEF Visit, RemoveUser, controlVars, loopVars
<1>5. ASSUME NEW d \in Devices, AddWanted(d) PROVE XrayInv'
  BY <1>5 DEF AddWanted, AddUser, EndRound, Visited, controlVars, loopVars
<1>6. ASSUME NEW d \in Devices, CollectUsage(d) PROVE XrayInv'
  BY <1>6 DEF CollectUsage, controlVars, loopVars
<1>7. ASSUME NEW d \in Devices, Lapse(d) PROVE XrayInv'
  BY <1>7 DEF Lapse, controlVars, loopVars
<1>8. CASE ReadRows
  BY <1>8 DEF ReadRows, controlVars, loopVars
<1>9. CASE ReadUsers
  BY <1>9 DEF ReadUsers, controlVars, loopVars
<1>10. CASE ReconcileDone
  BY <1>10 DEF ReconcileDone, EndRound, controlVars, loopVars
<1>11. CASE CollectBlock
  BY <1>11 DEF CollectBlock, controlVars, loopVars
<1>12. CASE CollectRemove
  BY <1>12 DEF CollectRemove, RemoveUser, controlVars, loopVars
<1>13. CASE LoopFails
  BY <1>13 DEF LoopFails, EndRound, controlVars, loopVars
<1>14. CASE Upsert
  BY <1>14 DEF Upsert, controlVars, loopVars
<1>15. CASE Block
  BY <1>15 DEF Block, controlVars, loopVars
<1>16. CASE Remove
  BY <1>16 DEF Remove, RemoveUser, controlVars, loopVars
<1>17. CASE Ensure
  BY <1>17 DEF Ensure, controlVars, loopVars
<1>18. CASE Replace
  BY <1>18 DEF Replace, RemoveUser, controlVars, loopVars
<1>19. CASE Add
  BY <1>19 DEF Add, AddUser, controlVars, loopVars
<1>20. CASE ControlFails
  BY <1>20 DEF ControlFails, controlVars, loopVars
<1>21. CASE XrayRestart
  BY <1>21 DEF XrayRestart, controlVars, loopVars
<1>22. CASE UNCHANGED vars
  BY <1>22 DEF vars, controlVars, loopVars
<1> QED
  BY <1>1, <1>2, <1>3, <1>4, <1>5, <1>6, <1>7, <1>8, <1>9, <1>10, <1>11, <1>12, <1>13, <1>14, <1>15, <1>16, <1>17, <1>18, <1>19, <1>20, <1>21, <1>22 DEF Next, Control, Loop

\* Two goroutines, any number of devices, commands and faults: the state of
\* the manager keeps its types.
THEOREM XrayTypeCorrect == Spec => []TypeOK
  BY TypesInit, TypesStep, PTL DEF Spec

\* Reconcile, Upsert and CollectUsage bring a blocked device back only if it
\* was blocked after they had decided to add it, or if its removal failed.
THEOREM BlockedStaysOut == Spec => []BlockedReturnsOnlyByARace
<1>1. Spec => []XrayInv
  BY XrayInvInit, XrayInvStep, XrayTypeCorrect, PTL DEF Spec
<1>2. XrayInv => BlockedReturnsOnlyByARace
  BY DEF XrayInv
<1> QED
  BY <1>1, <1>2, PTL

-----------------------------------------------------------------------------
(* The pool: no delivery loop leaks a connection, and a pool with more     *)
(* connections than handlers is never wedged by them.  The second follows  *)
(* from the first by counting: in a wedged pool every connection is the    *)
(* cursor of a different node.                                             *)

(* Every connection has one owner, so the inductive invariant is the type  *)
(* invariant together with what each point of the loop holds.              *)
PoolInv ==
    /\ PoolTypeOK
    /\ NothingLeaks

(* Nothing is checked out when the controller starts. *)
LEMMA InitPool == PoolInit => PoolInv
  BY HoldersAreDistinct, RowsAreCounted
     DEF PoolInit, PoolInv, PoolTypeOK, NothingLeaks, Holds

(* A cursor that is in use is a connection. *)
LEMMA CursorIsAConn ==
  ASSUME PoolInv, NEW n \in Nodes, pc[n] \in {"rows", "exec", "execing"}
  PROVE  cursor[n] \in Conns /\ owner[cursor[n]] = n
  BY DEF PoolInv, PoolTypeOK, NothingLeaks, Holds

(* Each step of the loop and each task keeps the types. *)
LEMMA NextPoolType == PoolInv /\ [PoolNext]_poolVars => PoolTypeOK'
<1> SUFFICES ASSUME PoolInv, [PoolNext]_poolVars
             PROVE  PoolTypeOK'
  OBVIOUS
<1> USE HoldersAreDistinct, RowsAreCounted
<1>t. PoolTypeOK
  BY DEF PoolInv
<1>1. ASSUME NEW n \in Nodes, Tick(n) PROVE PoolTypeOK'
  BY <1>1, <1>t DEF Tick, PoolTypeOK
<1>2. ASSUME NEW n \in Nodes, Query(n) PROVE PoolTypeOK'
  BY <1>2, <1>t DEF Query, PoolTypeOK
<1>3. ASSUME NEW n \in Nodes, NextRow(n) PROVE PoolTypeOK'
  BY <1>3, <1>t DEF NextRow, PoolTypeOK
<1>4. ASSUME NEW n \in Nodes, Exec(n) PROVE PoolTypeOK'
  BY <1>4, <1>t DEF Exec, PoolTypeOK
<1>5. ASSUME NEW n \in Nodes, ExecDone(n) PROVE PoolTypeOK'
  BY <1>5, <1>t DEF ExecDone, Holds, PoolTypeOK
<1>6. ASSUME NEW n \in Nodes, RowsClose(n) PROVE PoolTypeOK'
  <2>1. cursor[n] \in Conns
    BY <1>6, CursorIsAConn DEF RowsClose
  <2>2. owner' \in [Conns -> Nodes \cup Tasks \cup {Nobody}]
    BY <1>6, <1>t, <2>1 DEF RowsClose, PoolTypeOK
  <2>3. pc' \in [Nodes -> {"idle", "query", "rows", "exec", "execing", "sweep"}]
    BY <1>6, <1>t DEF RowsClose, PoolTypeOK
  <2>4. cursor' \in [Nodes -> Conns \cup {Nobody}] /\ left' \in [Nodes -> 0..BatchRows]
    BY <1>6, <1>t DEF RowsClose, PoolTypeOK
  <2> QED
    BY <2>2, <2>3, <2>4 DEF PoolTypeOK
<1>7. ASSUME NEW n \in Nodes, Sweep(n) PROVE PoolTypeOK'
  BY <1>7, <1>t DEF Sweep, PoolTypeOK
<1>8. ASSUME NEW t \in Tasks, Take(t) PROVE PoolTypeOK'
  BY <1>8, <1>t DEF Take, PoolTypeOK
<1>9. ASSUME NEW t \in Tasks, Give(t) PROVE PoolTypeOK'
  BY <1>9, <1>t DEF Give, Holds, PoolTypeOK
<1>10. CASE UNCHANGED poolVars
  BY <1>10, <1>t DEF poolVars, PoolTypeOK
<1> QED
  BY <1>1, <1>2, <1>3, <1>4, <1>5, <1>6, <1>7, <1>8, <1>9, <1>10 DEF PoolNext

(* Each step keeps what the points of the loop hold: a step of one node    *)
(* moves only that node's connections, a step of a task none of theirs.    *)
LEMMA NextHoldings == PoolInv /\ [PoolNext]_poolVars => NothingLeaks'
<1> SUFFICES ASSUME PoolInv, [PoolNext]_poolVars, NEW m \in Nodes
             PROVE  /\ pc'[m] \in {"idle", "query", "sweep"} => Holds(m)' = {}
                    /\ pc'[m] \in {"rows", "exec"} => Holds(m)' = {cursor'[m]}
                    /\ pc'[m] = "execing" =>
                         \E c \in Conns : c # cursor'[m] /\ Holds(m)' = {c, cursor'[m]}
  BY DEF NothingLeaks
<1> DEFINE Goal ==
       /\ pc'[m] \in {"idle", "query", "sweep"} => Holds(m)' = {}
       /\ pc'[m] \in {"rows", "exec"} => Holds(m)' = {cursor'[m]}
       /\ pc'[m] = "execing" =>
            \E c \in Conns : c # cursor'[m] /\ Holds(m)' = {c, cursor'[m]}
<1> USE HoldersAreDistinct
<1>t. PoolTypeOK /\ NothingLeaks
  BY DEF PoolInv
<1>s. ASSUME pc'[m] = pc[m], cursor'[m] = cursor[m], Holds(m)' = Holds(m)
      PROVE  Goal
  BY <1>s, <1>t DEF NothingLeaks
<1>1. ASSUME NEW n \in Nodes, Tick(n) PROVE Goal
  <2>1. Holds(m)' = Holds(m)
    BY <1>1 DEF Tick, Holds
  <2> QED
    BY <1>1, <1>t, <2>1 DEF Tick, PoolTypeOK, NothingLeaks
<1>2. ASSUME NEW n \in Nodes, Query(n) PROVE Goal
  <2>1. PICK c \in Conns : /\ Idle(c)
                           /\ owner' = [owner EXCEPT ![c] = n]
                           /\ cursor' = [cursor EXCEPT ![n] = c]
    BY <1>2 DEF Query
  <2>2. CASE m = n
    <3>1. Holds(m) = {}
      BY <1>2, <1>t, <2>2 DEF Query, NothingLeaks
    <3>2. Holds(m)' = {c}
      BY <2>1, <2>2, <3>1, <1>t DEF Holds, PoolTypeOK
    <3> QED
      BY <1>2, <1>t, <2>1, <2>2, <3>2 DEF Query, PoolTypeOK
  <2>3. CASE m # n
    BY <1>2, <1>s, <1>t, <2>1, <2>3 DEF Query, Holds, Idle, PoolTypeOK
  <2> QED
    BY <2>2, <2>3
<1>3. ASSUME NEW n \in Nodes, NextRow(n) PROVE Goal
  <2>1. Holds(m)' = Holds(m)
    BY <1>3 DEF NextRow, Holds
  <2> QED
    BY <1>3, <1>t, <2>1 DEF NextRow, PoolTypeOK, NothingLeaks
<1>4. ASSUME NEW n \in Nodes, Exec(n) PROVE Goal
  <2>1. PICK c \in Conns : Idle(c) /\ owner' = [owner EXCEPT ![c] = n]
    BY <1>4 DEF Exec
  <2>2. CASE m = n
    <3>1. Holds(m) = {cursor[m]} /\ cursor[m] \in Conns /\ owner[cursor[m]] = m
      BY <1>4, <1>t, <2>2, CursorIsAConn DEF Exec, NothingLeaks
    <3>2. Holds(m)' = {c, cursor[m]} /\ c # cursor[m]
      BY <2>1, <2>2, <3>1, <1>t DEF Holds, Idle, PoolTypeOK
    <3> QED
      BY <1>4, <1>t, <2>2, <3>2 DEF Exec, PoolTypeOK
  <2>3. CASE m # n
    BY <1>4, <1>s, <1>t, <2>1, <2>3 DEF Exec, Holds, Idle, PoolTypeOK
  <2> QED
    BY <2>2, <2>3
<1>5. ASSUME NEW n \in Nodes, ExecDone(n) PROVE Goal
  <2>1. PICK c \in Holds(n) \ {cursor[n]} : owner' = [owner EXCEPT ![c] = Nobody]
    BY <1>5 DEF ExecDone
  <2>2. CASE m = n
    <3>1. PICK d \in Conns : d # cursor[n] /\ Holds(n) = {d, cursor[n]}
      BY <1>5, <1>t DEF ExecDone, NothingLeaks
    <3>2. Holds(m)' = {cursor[m]}
      BY <2>1, <2>2, <3>1, <1>t DEF Holds, PoolTypeOK
    <3> QED
      BY <1>5, <1>t, <2>2, <3>2 DEF ExecDone, PoolTypeOK
  <2>3. CASE m # n
    BY <1>5, <1>s, <1>t, <2>1, <2>3 DEF ExecDone, Holds, PoolTypeOK
  <2> QED
    BY <2>2, <2>3
<1>6. ASSUME NEW n \in Nodes, RowsClose(n) PROVE Goal
  <2>1. /\ Holds(n) = {cursor[n]}
        /\ cursor[n] \in Conns /\ owner[cursor[n]] = n
    BY <1>6, <1>t, CursorIsAConn DEF RowsClose, NothingLeaks
  <2>2. CASE m = n
    <3>1. Holds(m)' = {}
      BY <1>6, <2>1, <2>2, <1>t DEF RowsClose, Holds, PoolTypeOK
    <3> QED
      BY <1>6, <1>t, <2>2, <3>1 DEF RowsClose, PoolTypeOK
  <2>3. CASE m # n
    BY <1>6, <1>s, <1>t, <2>1, <2>3 DEF RowsClose, Holds, PoolTypeOK
  <2> QED
    BY <2>2, <2>3
<1>7. ASSUME NEW n \in Nodes, Sweep(n) PROVE Goal
  <2>1. Holds(m)' = Holds(m)
    BY <1>7 DEF Sweep, Holds
  <2> QED
    BY <1>7, <1>t, <2>1 DEF Sweep, PoolTypeOK, NothingLeaks
<1>8. ASSUME NEW t \in Tasks, Take(t) PROVE Goal
  BY <1>8, <1>s, <1>t DEF Take, Holds, Idle, PoolTypeOK
<1>9. ASSUME NEW t \in Tasks, Give(t) PROVE Goal
  BY <1>9, <1>s, <1>t DEF Give, Holds, PoolTypeOK
<1>10. CASE UNCHANGED poolVars
  BY <1>10, <1>s DEF poolVars, Holds
<1> QED
  BY <1>1, <1>2, <1>3, <1>4, <1>5, <1>6, <1>7, <1>8, <1>9, <1>10 DEF PoolNext

LEMMA PoolInvariant == PoolSpec => []PoolInv
<1>1. PoolInv /\ [PoolNext]_poolVars => PoolInv'
  BY NextPoolType, NextHoldings DEF PoolInv
<1> QED
  BY InitPool, <1>1, PTL DEF PoolSpec

(* Every path through `deliver` and `queueDeviceResync` gives back what it *)
(* took, for any number of nodes, tasks and connections.                   *)
THEOREM NoConnectionLeaks == PoolSpec => []NothingLeaks
<1>1. PoolInv => NothingLeaks
  BY DEF PoolInv
<1> QED
  BY PoolInvariant, <1>1, PTL

(* A pool larger than the number of handlers is never wedged by their      *)
(* delivery loops: this is the condition config.MaxConns has to meet. *)
THEOREM LargePoolIsNeverWedged ==
  ASSUME Cardinality(Nodes) < Cardinality(Conns)
  PROVE  PoolSpec => []NotWedged
<1>1. PoolInv => NotWedged
  <2> SUFFICES ASSUME PoolInv,
                      \A c \in Conns : owner[c] \in Nodes /\ pc[owner[c]] = "exec"
               PROVE  FALSE
    BY DEF NotWedged
  <2>1. owner \in [Conns -> Nodes]
    BY DEF PoolInv, PoolTypeOK
  <2>2. \A c, d \in Conns : owner[c] = owner[d] => c = d
    BY DEF PoolInv, NothingLeaks, Holds
  <2>3. owner \in Injection(Conns, Nodes)
    BY <2>1, <2>2 DEF Injection, IsInjective
  <2>4. Cardinality(Conns) <= Cardinality(Nodes)
    BY <2>3, FS_Injection, PoolIsFinite
  <2> QED
    BY <2>4, PoolIsFinite, FS_CardinalityType
<1> QED
  BY PoolInvariant, <1>1, PTL
=============================================================================
