--------------------------- MODULE ConnectionPool ---------------------------
(***************************************************************************)
(* The controller's PostgreSQL pool as the node connections use it.  Each  *)
(* connected node has a handler that runs `deliver` every two seconds.     *)
(* `deliver` reads its result set while the connection behind it stays     *)
(* checked out, and for every row asks the pool for a second connection.   *)
(* The same shape, a query held open around an Exec per row, is that of    *)
(* `queueDeviceResync`.  Everything else the controller does with the      *)
(* database is a task that holds one connection and asks for no other.     *)
(* No context in these calls has a deadline: a caller waits for as long as *)
(* the pool is empty.                                                      *)
(***************************************************************************)
EXTENDS Naturals, FiniteSets

CONSTANTS
    Nodes,      \* handlers of node connections: one per connected node, and
                \* one more while the handler of an old connection winds up
    Tasks,      \* requests, readers and workers: one connection at a time
    Conns,      \* the connections of the pool, config.MaxConns of them
    Nobody,
    BatchRows   \* bound: rows of one result set (LIMIT 50 in the code)

ASSUME PoolIsFinite == IsFiniteSet(Nodes) /\ IsFiniteSet(Conns)
ASSUME HoldersAreDistinct == Nodes \cap Tasks = {} /\ Nobody \notin Nodes \cup Tasks \cup Conns
ASSUME RowsAreCounted == BatchRows \in Nat

VARIABLES
    owner,      \* owner[c]: who has connection c checked out, or Nobody
    pc,         \* pc[n]: where the handler of node n is
    cursor,     \* cursor[n]: the connection behind n's open rows, or Nobody
    left        \* left[n]: rows not read yet

poolVars == <<owner, pc, cursor, left>>

PoolInit ==
    /\ owner = [c \in Conns |-> Nobody]
    /\ pc = [n \in Nodes |-> "idle"]
    /\ cursor = [n \in Nodes |-> Nobody]
    /\ left = [n \in Nodes |-> 0]

Idle(c) == owner[c] = Nobody
Holds(h) == {c \in Conns : owner[c] = h}
-----------------------------------------------------------------------------
(* The handler's ticker fires, or a new handler starts its resync. *)
Tick(n) ==
    /\ pc[n] = "idle"
    /\ pc' = [pc EXCEPT ![n] = "query"]
    /\ UNCHANGED <<owner, cursor, left>>

(* db.Query: a connection is checked out and stays so while rows are open. *)
Query(n) ==
    /\ pc[n] = "query"
    /\ \E c \in Conns, k \in 0..BatchRows :
        /\ Idle(c)
        /\ owner' = [owner EXCEPT ![c] = n]
        /\ cursor' = [cursor EXCEPT ![n] = c]
        /\ left' = [left EXCEPT ![n] = k]
    /\ pc' = [pc EXCEPT ![n] = "rows"]

(* rows.Next is true: the row is scanned, the command written to the socket. *)
NextRow(n) ==
    /\ pc[n] = "rows" /\ left[n] > 0
    /\ left' = [left EXCEPT ![n] = @ - 1]
    /\ pc' = [pc EXCEPT ![n] = "exec"]
    /\ UNCHANGED <<owner, cursor>>

(* db.Exec inside the loop: a second connection is asked for. *)
Exec(n) ==
    /\ pc[n] = "exec"
    /\ \E c \in Conns :
        /\ Idle(c)
        /\ owner' = [owner EXCEPT ![c] = n]
    /\ pc' = [pc EXCEPT ![n] = "execing"]
    /\ UNCHANGED <<cursor, left>>

(* A bug: the second connection is not given back. *)
ExecDoneLeaks(n) ==
    /\ pc[n] = "execing"
    /\ pc' = [pc EXCEPT ![n] = "rows"]
    /\ UNCHANGED <<owner, cursor, left>>

ExecDone(n) ==
    /\ pc[n] = "execing"
    /\ \E c \in Holds(n) \ {cursor[n]} : owner' = [owner EXCEPT ![c] = Nobody]
    /\ pc' = [pc EXCEPT ![n] = "rows"]
    /\ UNCHANGED <<cursor, left>>

(* A bug rows.Close guards against: the loop ends without giving the       *)
(* connection behind the rows back.                                        *)
RowsLeak(n) ==
    /\ pc[n] = "rows"
    /\ cursor' = [cursor EXCEPT ![n] = Nobody]
    /\ left' = [left EXCEPT ![n] = 0]
    /\ \/ left[n] = 0 /\ pc' = [pc EXCEPT ![n] = "sweep"]
       \/ pc' = [pc EXCEPT ![n] = "idle"]
    /\ UNCHANGED owner

(* rows.Next is false, which closes the rows: the expiry sweep follows in   *)
(* `deliver`, nothing in `queueDeviceResync`.  Or a scan or a socket write  *)
(* fails and the deferred rows.Close runs.                                  *)
RowsClose(n) ==
    /\ pc[n] = "rows"
    /\ owner' = [owner EXCEPT ![cursor[n]] = Nobody]
    /\ cursor' = [cursor EXCEPT ![n] = Nobody]
    /\ left' = [left EXCEPT ![n] = 0]
    /\ \/ left[n] = 0 /\ pc' = [pc EXCEPT ![n] = "sweep"]
       \/ pc' = [pc EXCEPT ![n] = "idle"]

(* The sweep's Exec, or a Query that fails: one connection, taken and given *)
(* back.                                                                    *)
Sweep(n) ==
    /\ pc[n] \in {"sweep", "query"}
    /\ \E c \in Conns : Idle(c)
    /\ pc' = [pc EXCEPT ![n] = "idle"]
    /\ UNCHANGED <<owner, cursor, left>>

(* Any other user of the pool: a request's transaction, a reader's Exec. *)
Take(t) ==
    /\ Holds(t) = {}
    /\ \E c \in Conns : Idle(c) /\ owner' = [owner EXCEPT ![c] = t]
    /\ UNCHANGED <<pc, cursor, left>>

Give(t) ==
    /\ \E c \in Holds(t) : owner' = [owner EXCEPT ![c] = Nobody]
    /\ UNCHANGED <<pc, cursor, left>>

PoolNext ==
    \/ \E n \in Nodes :
        \/ Tick(n) \/ Query(n) \/ NextRow(n) \/ Exec(n)
        \/ ExecDone(n) \/ RowsClose(n) \/ Sweep(n)
    \/ \E t \in Tasks : Take(t) \/ Give(t)

PoolSpec == PoolInit /\ [][PoolNext]_poolVars

(* Whoever holds a connection goes on working.  A caller that waits for    *)
(* one is served in its turn (the pool queues its waiters), so waiting     *)
(* steps are strongly fair.  Nothing obliges a node to tick or a task to   *)
(* start.                                                                  *)
FairPoolSpec ==
    /\ PoolSpec
    /\ \A n \in Nodes :
        /\ WF_poolVars(NextRow(n) \/ ExecDone(n) \/ RowsClose(n))
        /\ SF_poolVars(Query(n) \/ Sweep(n)) /\ SF_poolVars(Exec(n))
    /\ \A t \in Tasks : WF_poolVars(Give(t))
-----------------------------------------------------------------------------
PoolTypeOK ==
    /\ owner \in [Conns -> Nodes \cup Tasks \cup {Nobody}]
    /\ pc \in [Nodes -> {"idle", "query", "rows", "exec", "execing", "sweep"}]
    /\ cursor \in [Nodes -> Conns \cup {Nobody}]
    /\ left \in [Nodes -> 0..BatchRows]

(* A handler between two database calls holds nothing, one that reads rows *)
(* holds exactly the connection behind them, and only inside an Exec a     *)
(* second one: no path of the loop, its early returns included, leaks a    *)
(* connection.                                                             *)
NothingLeaks ==
    \A n \in Nodes :
        /\ pc[n] \in {"idle", "query", "sweep"} => Holds(n) = {}
        /\ pc[n] \in {"rows", "exec"} => Holds(n) = {cursor[n]}
        /\ pc[n] = "execing" =>
            \E c \in Conns : c # cursor[n] /\ Holds(n) = {c, cursor[n]}

(* The pool is never wedged: with every connection checked out by a        *)
(* delivery loop that itself waits for another one, no loop, request or    *)
(* reader would ever run again.                                            *)
NotWedged ==
    ~ \A c \in Conns : owner[c] \in Nodes /\ pc[owner[c]] = "exec"

(* A delivery that has begun comes to its end, whatever the other nodes    *)
(* and the requests do: commands keep flowing to every connected node.     *)
EveryDeliveryEnds ==
    \A n \in Nodes : pc[n] = "query" ~> pc[n] = "idle"
=============================================================================
