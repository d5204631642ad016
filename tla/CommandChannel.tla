---------------------------- MODULE CommandChannel ----------------------------
(***************************************************************************)
(* The durable command queue between the control plane and ONE node:       *)
(* NodeHub.Connect, deliver and readLoop on the controller side,           *)
(* Client.readLoop, wasSeen and markSeen on the node side, and the socket  *)
(* between them.  What a command does when it is applied, and what its     *)
(* acknowledgement does to the controller's other tables, is left to the   *)
(* modules that extend this one.                                           *)
(*                                                                         *)
(* Statements that PostgreSQL executes one by one are separate actions, so *)
(* the delivery loop and the read loop of a connection, which are separate *)
(* goroutines, interleave between them.                                    *)
(***************************************************************************)
EXTENDS Naturals, Sequences, FiniteSets

CONSTANTS
  Commands,    \* ids of the node_commands rows, numbered in created_at order
  Handlers,    \* Connect invocations, each with its delivery and read goroutine
  None,        \* no handler, or no command
  BatchLimit,  \* LIMIT of the delivery query (50)
  SeenLimit,   \* size at which the node forgets its message ids (2048)
  SocketCap,   \* messages a socket direction holds before a write blocks
  MaxFaults    \* bound on drops, restarts and memory resets together

ASSUME CommandsAreNumbered == Commands \subseteq Nat \ {0}
ASSUME NoneIsNoCommand == None \notin Commands /\ None \notin Handlers
ASSUME BoundsAreNaturals ==
  BatchLimit \in Nat /\ SeenLimit \in Nat /\ SocketCap \in Nat /\ MaxFaults \in Nat

VARIABLES
  status,   \* node_commands.status, "none" while the row does not exist
  waiting,  \* not_before lies in the future
  overdue,  \* expires_at lies in the past
  live,     \* the handler whose socket is open, or None
  phase,    \* where the delivery goroutine of a handler is
  rows,     \* rows of its delivery query that it has not finished with
  acking,   \* command whose ack a read loop has recorded but not acted upon
  down,     \* commands on the socket, controller to node
  replies,  \* acks and nacks a handler has not read yet
  seen,     \* Client.seen, in memory only
  handled,  \* history: successful handle() calls per command
  refused,  \* history: commands that handle() has rejected at least once
  forgets,  \* history: how often the node lost its memory of message ids
  faults    \* drops, restarts and memory resets so far

tableVars   == <<status, waiting, overdue>>
hubVars     == <<phase, rows, acking>>
socketVars  == <<live, down, replies>>
nodeVars    == <<seen, handled, refused, forgets>>
channelVars == <<tableVars, hubVars, socketVars, nodeVars, faults>>

Statuses == {"none", "pending", "sent", "acked", "nacked", "expired"}
Open     == {"pending", "sent"}
Settled  == {"acked", "nacked", "expired"}
Reply    == [id : Commands, ok : BOOLEAN]

ChannelTypeOK ==
  /\ status \in [Commands -> Statuses]
  /\ waiting \in [Commands -> BOOLEAN]
  /\ overdue \in [Commands -> BOOLEAN]
  /\ live \in Handlers \cup {None}
  /\ phase \in [Handlers -> {"idle", "resync", "sending", "marking"}]
  /\ rows \in [Handlers -> SUBSET Commands]
  /\ acking \in [Handlers -> Commands \cup {None}]
  /\ down \in Seq(Commands)
  /\ replies \in [Handlers -> Seq(Reply)]
  /\ seen \in SUBSET Commands
  /\ handled \in [Commands -> Nat]
  /\ refused \in SUBSET Commands
  /\ forgets \in Nat
  /\ faults \in 0..MaxFaults

ChannelInit ==
  /\ status = [c \in Commands |-> "none"]
  /\ waiting = [c \in Commands |-> FALSE]
  /\ overdue = [c \in Commands |-> FALSE]
  /\ live = None
  /\ phase = [h \in Handlers |-> "idle"]
  /\ rows = [h \in Handlers |-> {}]
  /\ acking = [h \in Handlers |-> None]
  /\ down = <<>>
  /\ replies = [h \in Handlers |-> <<>>]
  /\ seen = {}
  /\ handled = [c \in Commands |-> 0]
  /\ refused = {}
  /\ forgets = 0
  /\ faults = 0

-----------------------------------------------------------------------------
(* The table *)

\* INSERT INTO node_commands: rows get ids in created_at order.
InsertRow(c) ==
  /\ status[c] = "none"
  /\ \A d \in Commands : d < c => status[d] # "none"
  /\ status' = [status EXCEPT ![c] = "pending"]

Enqueue(c) ==
  /\ InsertRow(c)
  /\ UNCHANGED <<waiting, overdue, hubVars, socketVars, nodeVars, faults>>

\* The clock passes not_before, or expires_at, of a row.
BackoffElapses(c) ==
  /\ waiting[c]
  /\ waiting' = [waiting EXCEPT ![c] = FALSE]
  /\ UNCHANGED <<status, overdue, hubVars, socketVars, nodeVars, faults>>

DeadlinePasses(c) ==
  /\ status[c] # "none" /\ ~overdue[c]
  /\ overdue' = [overdue EXCEPT ![c] = TRUE]
  /\ UNCHANGED <<status, waiting, hubVars, socketVars, nodeVars, faults>>

-----------------------------------------------------------------------------
(* The delivery goroutine of handler h: NodeHub.deliver *)

\* Mutant: a row that was sent once is not selected again.
DueOnlyPending == {c \in Commands : status[c] = "pending" /\ ~waiting[c] /\ ~overdue[c]}

Due == {c \in Commands : status[c] \in Open /\ ~waiting[c] /\ ~overdue[c]}

First(S) == CHOOSE c \in S : \A d \in S : c <= d

\* The delivery ticker fires: the oldest BatchLimit rows that are due.
DeliverQuery(h) ==
  /\ live = h /\ phase[h] = "idle"
  /\ phase' = [phase EXCEPT ![h] = "sending"]
  /\ rows' = [rows EXCEPT ![h] =
                {c \in Due : Cardinality({d \in Due : d < c}) < BatchLimit}]
  /\ UNCHANGED <<acking, tableVars, socketVars, nodeVars, faults>>

\* socket.Write of the next row succeeds.
DeliverWrite(h) ==
  /\ phase[h] = "sending" /\ rows[h] # {}
  /\ live = h /\ Len(down) < SocketCap
  /\ down' = Append(down, First(rows[h]))
  /\ phase' = [phase EXCEPT ![h] = "marking"]
  /\ UNCHANGED <<rows, acking, tableVars, live, replies, nodeVars, faults>>

\* socket.Write fails, and deliver returns: its connection is gone.
DeliverAbort(h) ==
  /\ phase[h] = "sending" /\ rows[h] # {} /\ live # h
  /\ phase' = [phase EXCEPT ![h] = "idle"]
  /\ rows' = [rows EXCEPT ![h] = {}]
  /\ UNCHANGED <<acking, tableVars, socketVars, nodeVars, faults>>

\* The UPDATE after the write: status and not_before, whatever status was.
DeliverMark(h) ==
  LET c == First(rows[h]) IN
  /\ phase[h] = "marking"
  /\ status' = [status EXCEPT ![c] = "sent"]
  /\ waiting' = [waiting EXCEPT ![c] = TRUE]
  /\ rows' = [rows EXCEPT ![h] = @ \ {c}]
  /\ phase' = [phase EXCEPT ![h] = "sending"]
  /\ UNCHANGED <<overdue, acking, socketVars, nodeVars, faults>>

\* After the last row, open rows past their deadline become expired.
DeliverFinish(h) ==
  /\ phase[h] = "sending" /\ rows[h] = {}
  /\ status' = [c \in Commands |->
                  IF status[c] \in Open /\ overdue[c] THEN "expired" ELSE status[c]]
  /\ phase' = [phase EXCEPT ![h] = "idle"]
  /\ UNCHANGED <<waiting, overdue, rows, acking, socketVars, nodeVars, faults>>

-----------------------------------------------------------------------------
(* The read goroutine of handler h: NodeHub.readLoop *)

\* Mutant: a nack is recorded as an ack.
HubReplyIgnoresNack(h) ==
  /\ phase[h] # "resync" /\ acking[h] = None /\ replies[h] # <<>>
  /\ LET r == Head(replies[h]) IN
     /\ status' = [status EXCEPT ![r.id] = "acked"]
     /\ acking' = [acking EXCEPT ![h] = r.id]
  /\ replies' = [replies EXCEPT ![h] = Tail(@)]
  /\ UNCHANGED <<waiting, overdue, phase, rows, live, down, nodeVars, faults>>

\* An ack or nack arrives: its status is stored whatever the row's status was.
HubReply(h) ==
  /\ phase[h] # "resync" /\ acking[h] = None /\ replies[h] # <<>>
  /\ LET r == Head(replies[h]) IN
     /\ status' = [status EXCEPT ![r.id] = IF r.ok THEN "acked" ELSE "nacked"]
     /\ acking' = [acking EXCEPT ![h] = IF r.ok THEN r.id ELSE None]
  /\ replies' = [replies EXCEPT ![h] = Tail(@)]
  /\ UNCHANGED <<waiting, overdue, phase, rows, live, down, nodeVars, faults>>

\* The UPDATEs of other tables that follow the recording of an ack.
HubEffects(h) ==
  /\ acking[h] # None
  /\ acking' = [acking EXCEPT ![h] = None]
  /\ UNCHANGED <<phase, rows, tableVars, socketVars, nodeVars, faults>>

-----------------------------------------------------------------------------
(* The node: Client.readLoop *)

Receive(c, ok) ==
  /\ live # None /\ down # <<>> /\ Head(down) = c
  /\ Len(replies[live]) < SocketCap
  /\ down' = Tail(down)
  /\ replies' = [replies EXCEPT ![live] = Append(@, [id |-> c, ok |-> ok])]

\* A remembered message id is acknowledged without calling handle.
NodeDuplicate(c) ==
  /\ c \in seen
  /\ Receive(c, TRUE)
  /\ UNCHANGED <<tableVars, hubVars, live, nodeVars, faults>>

\* Mutant: markSeen is forgotten.
NodeApplyWithoutMark(c) ==
  /\ c \notin seen
  /\ handled[c] < 3
  /\ Receive(c, TRUE)
  /\ handled' = [handled EXCEPT ![c] = @ + 1]
  /\ UNCHANGED <<tableVars, hubVars, live, seen, refused, forgets, faults>>

\* handle succeeds: markSeen, which first drops a full memory, then the ack.
NodeApply(c) ==
  /\ c \notin seen
  /\ Receive(c, TRUE)
  /\ handled' = [handled EXCEPT ![c] = @ + 1]
  /\ IF Cardinality(seen) > SeenLimit
       THEN /\ faults < MaxFaults
            /\ faults' = faults + 1
            /\ seen' = {c}
            /\ forgets' = forgets + 1
       ELSE /\ seen' = seen \cup {c}
            /\ UNCHANGED <<forgets, faults>>
  /\ UNCHANGED <<tableVars, hubVars, live, refused>>

\* handle returns an error: a nack, and the id is not remembered.
NodeReject(c) ==
  /\ c \notin seen
  /\ Receive(c, FALSE)
  /\ refused' = refused \cup {c}
  /\ UNCHANGED <<tableVars, hubVars, live, seen, handled, forgets, faults>>

-----------------------------------------------------------------------------
(* Connections and faults *)

\* The node dials, the hub accepts its hello and registers the connection.
Connect(h) ==
  /\ live = None
  /\ phase[h] = "idle" /\ acking[h] = None /\ replies[h] = <<>>
  /\ live' = h
  /\ phase' = [phase EXCEPT ![h] = "resync"]
  /\ UNCHANGED <<tableVars, rows, acking, down, replies, nodeVars, faults>>

\* queueDeviceResync ends, and the goroutines of the handler start.  It may
\* have queued a command.
EndResync(h) ==
  /\ phase[h] = "resync"
  /\ phase' = [phase EXCEPT ![h] = "idle"]
  /\ UNCHANGED <<waiting, overdue, rows, acking, socketVars, nodeVars, faults>>

Resync(h) ==
  /\ EndResync(h)
  /\ UNCHANGED status \/ \E c \in Commands : InsertRow(c)

CloseSocket ==
  /\ faults < MaxFaults
  /\ faults' = faults + 1
  /\ live' = None
  /\ down' = <<>>

\* Of the replies on a broken socket the handler still gets those that have
\* reached the controller: a prefix.
LoseReplies ==
  IF live = None
    THEN UNCHANGED replies
    ELSE \E k \in 0..Len(replies[live]) :
           replies' = [replies EXCEPT ![live] = SubSeq(@, 1, k)]

\* The connection breaks.  The goroutines of its handler run on until their
\* next use of the socket.
Drop ==
  /\ live # None
  /\ CloseSocket
  /\ LoseReplies
  /\ UNCHANGED <<tableVars, hubVars, nodeVars>>

NodeRestart ==
  /\ CloseSocket
  /\ LoseReplies
  /\ seen' = {}
  /\ forgets' = forgets + 1
  /\ UNCHANGED <<tableVars, hubVars, handled, refused>>

\* The controller process dies between any two statements.
ControllerRestart ==
  /\ CloseSocket
  /\ replies' = [h \in Handlers |-> <<>>]
  /\ phase' = [h \in Handlers |-> "idle"]
  /\ rows' = [h \in Handlers |-> {}]
  /\ acking' = [h \in Handlers |-> None]
  /\ UNCHANGED <<tableVars, nodeVars>>

-----------------------------------------------------------------------------

Deliver(h) == \/ DeliverQuery(h) \/ DeliverWrite(h) \/ DeliverAbort(h)
              \/ DeliverMark(h) \/ DeliverFinish(h)

ReadLoop(h) == HubReply(h) \/ HubEffects(h)

NodeStep(c) == NodeDuplicate(c) \/ NodeApply(c) \/ NodeReject(c)

ChannelNext ==
  \/ \E c \in Commands : Enqueue(c) \/ BackoffElapses(c) \/ DeadlinePasses(c)
  \/ \E h \in Handlers : Connect(h) \/ Resync(h) \/ Deliver(h) \/ ReadLoop(h)
  \/ \E c \in Commands : NodeStep(c)
  \/ Drop \/ NodeRestart \/ ControllerRestart

ChannelSpec == ChannelInit /\ [][ChannelNext]_channelVars

\* The delivery ticker, both goroutines, the node's read loop, its reconnect
\* loop and the clock keep going.  Nothing forces a deadline to pass, a
\* command to be queued or a fault to happen.
ChannelFairness ==
  /\ \A h \in Handlers : /\ WF_channelVars(Resync(h))
                          /\ WF_channelVars(Deliver(h))
                          /\ WF_channelVars(ReadLoop(h))
  /\ WF_channelVars(\E h \in Handlers : Connect(h))
  /\ WF_channelVars(\E c \in Commands : NodeStep(c))
  /\ \A c \in Commands : WF_channelVars(BackoffElapses(c))

FairChannelSpec == ChannelSpec /\ ChannelFairness

-----------------------------------------------------------------------------
(* Properties *)

\* A row leaves the queue for a reason: "acked" only if the node has applied
\* the command, "nacked" only if the node has rejected it, "expired" only if
\* its deadline passed.  The statements that set the status are unconditional
\* (readLoop, deliver), so this rests on what travels on the socket.
SettledForAReason ==
  \A c \in Commands :
    /\ status[c] = "acked" => handled[c] > 0
    /\ status[c] = "nacked" => c \in refused
    /\ status[c] = "expired" => overdue[c]

\* A command takes effect again only if the node lost its memory of message
\* ids in between, by a restart or by markSeen dropping a full map: redelivery
\* by itself never applies a command twice (wasSeen, markSeen).
ReappliedOnlyAfterForgetting ==
  \A c \in Commands : handled[c] <= 1 + forgets

\* Every command in the queue is eventually settled, whatever connections,
\* the node and the controller go through, as long as faults stop.
EveryCommandSettles ==
  \A c \in Commands : status[c] \in Open ~> status[c] \in Settled

=============================================================================
