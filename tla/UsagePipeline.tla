---------------------------- MODULE UsagePipeline ----------------------------
(***************************************************************************)
(* The way of a node's traffic into the quota of a subscription: the       *)
(* counters of Hysteria, Collector.Collect, the usage_events of the node,  *)
(* usage.batch messages, NodeHub.usage on the controller and the usage.ack *)
(* that lets the node mark its events as sent.  One node, one user.        *)
(***************************************************************************)
EXTENDS Naturals, Sequences, FiniteSets

CONSTANTS
  Devices,      \* devices that use the node
  Local,        \* those issued on the node itself, unknown to the controller
  MaxConns,     \* bound on the connections: the last one stays open
  MaxTraffic,   \* bound on the bytes a device carries
  MaxEvents,    \* bound on the events of the node
  UsageLimit,   \* LIMIT of PendingUsage (1000)
  SocketCap,    \* messages a socket direction holds before a write blocks
  Quota,        \* subscriptions.quota_bytes
  MaxRenewals,  \* bound on the renewals of the subscription
  MaxFailures   \* bound on the failures of the collector

ASSUME DevicesAreFinite == IsFiniteSet(Devices) /\ Local \subseteq Devices
ASSUME UsageBoundsAreNaturals ==
  /\ {MaxConns, MaxTraffic, MaxEvents, UsageLimit, SocketCap, MaxRenewals, MaxFailures} \subseteq Nat
  /\ Quota \in Nat \ {0}

VARIABLES
  counter,   \* bytes per device in the counters of Hysteria
  fetched,   \* bytes per device that Collect has read and not yet stored
  events,    \* usage_events of the node: device and bytes; the id is the index
  sent,      \* ids with sent_at set
  conn,      \* connections opened so far
  live,      \* the last of them is open
  up,        \* usage.batch messages per connection
  acking,    \* ids that a connection's usage() has committed, not acknowledged
  acks,      \* usage.ack messages on the open connection
  recorded,  \* event ids in usage_events of the controller
  used,      \* subscriptions.used_bytes
  kicking,   \* devices with a session.kick that is pending or sent
  renewals,  \* renewals so far
  carried,   \* history: bytes per device so far
  failures,  \* history: failures of the collector so far
  charges,   \* history: how often an event was added to used_bytes
  charged,   \* history: events added to used_bytes since the last renewal
  kicked     \* history: devices kicked since the last renewal

nodeVars  == <<counter, fetched, events, sent, carried, failures>>
wireVars  == <<conn, live, up, acks>>
hubVars   == <<acking, recorded, used, kicking, renewals, charges, charged, kicked>>
vars      == <<nodeVars, wireVars, hubVars>>

Conns    == 1..MaxConns
EventIds == 1..MaxEvents
Event    == [dev : Devices, bytes : Nat]

TypeOK ==
  /\ counter \in [Devices -> Nat]
  /\ fetched \in [Devices -> Nat]
  /\ events \in Seq(Event) /\ Len(events) <= MaxEvents
  /\ sent \in SUBSET EventIds
  /\ conn \in Conns \cup {0}
  /\ live \in BOOLEAN
  /\ up \in [Conns -> Seq(SUBSET EventIds)]
  /\ acking \in [Conns -> SUBSET EventIds]
  /\ acks \in Seq(SUBSET EventIds)
  /\ recorded \in SUBSET EventIds
  /\ used \in Nat
  /\ kicking \in SUBSET Devices
  /\ renewals \in 0..MaxRenewals
  /\ carried \in [Devices -> Nat]
  /\ failures \in 0..MaxFailures
  /\ charges \in [EventIds -> Nat]
  /\ charged \in SUBSET EventIds
  /\ kicked \in SUBSET Devices

Init ==
  /\ counter = [d \in Devices |-> 0]
  /\ fetched = [d \in Devices |-> 0]
  /\ events = <<>>
  /\ sent = {}
  /\ conn = 0
  /\ live = FALSE
  /\ up = [n \in Conns |-> <<>>]
  /\ acking = [n \in Conns |-> {}]
  /\ acks = <<>>
  /\ recorded = {}
  /\ used = 0
  /\ kicking = {}
  /\ renewals = 0
  /\ carried = [d \in Devices |-> 0]
  /\ failures = 0
  /\ charges = [e \in EventIds |-> 0]
  /\ charged = {}
  /\ kicked = {}

-----------------------------------------------------------------------------
(* The collector of the node *)

\* A device transfers a byte.
Transfer(d) ==
  /\ carried[d] < MaxTraffic
  /\ carried' = [carried EXCEPT ![d] = @ + 1]
  /\ counter' = [counter EXCEPT ![d] = @ + 1]
  /\ UNCHANGED <<fetched, events, sent, failures, wireVars, hubVars>>

Collecting == \E d \in Devices : fetched[d] > 0

\* Mutant: the counters are read without clear=1.
FetchWithoutClear ==
  /\ ~Collecting
  /\ fetched' = counter
  /\ UNCHANGED <<counter, events, sent, carried, failures, wireVars, hubVars>>

\* GET /traffic?clear=1
Fetch ==
  /\ ~Collecting
  /\ fetched' = counter
  /\ counter' = [d \in Devices |-> 0]
  /\ UNCHANGED <<events, sent, carried, failures, wireVars, hubVars>>

\* AddUsage for the next device of the answer.
AddUsage(d) ==
  /\ fetched[d] > 0 /\ Len(events) < MaxEvents
  /\ events' = Append(events, [dev |-> d, bytes |-> fetched[d]])
  /\ fetched' = [fetched EXCEPT ![d] = 0]
  /\ UNCHANGED <<counter, sent, carried, failures, wireVars, hubVars>>

\* AddUsage fails and Collect returns, or the node restarts: what was read and
\* not stored is gone.
CollectorFails ==
  /\ Collecting /\ failures < MaxFailures
  /\ failures' = failures + 1
  /\ fetched' = [d \in Devices |-> 0]
  /\ UNCHANGED <<counter, events, sent, carried, wireVars, hubVars>>

-----------------------------------------------------------------------------
(* The control connection *)

Dial ==
  /\ ~live /\ conn + 1 \in Conns
  /\ conn' = conn + 1
  /\ live' = TRUE
  /\ UNCHANGED <<up, acks, nodeVars, hubVars>>

\* The connection breaks.  Of the batches on it those that have reached the
\* controller, a prefix, are still handled.
Drop ==
  /\ live /\ conn < MaxConns
  /\ live' = FALSE
  /\ acks' = <<>>
  /\ \E k \in 0..Len(up[conn]) : up' = [up EXCEPT ![conn] = SubSeq(@, 1, k)]
  /\ UNCHANGED <<conn, nodeVars, hubVars>>

\* The oldest UsageLimit events that are not marked.
PendingUsage ==
  LET unsent == {e \in EventIds : e <= Len(events) /\ e \notin sent}
  IN  {e \in unsent : Cardinality({f \in unsent : f < e}) < UsageLimit}

\* Mutant: the node marks the events it has sent, without waiting for the ack.
SendBatchAndMark ==
  /\ live /\ PendingUsage # {} /\ Len(up[conn]) < SocketCap
  /\ up' = [up EXCEPT ![conn] = Append(@, PendingUsage)]
  /\ sent' = sent \cup PendingUsage
  /\ UNCHANGED <<conn, live, acks, counter, fetched, events, carried, failures, hubVars>>

\* The ticker of the node's connection.
SendBatch ==
  /\ live /\ PendingUsage # {} /\ Len(up[conn]) < SocketCap
  /\ up' = [up EXCEPT ![conn] = Append(@, PendingUsage)]
  /\ UNCHANGED <<conn, live, acks, nodeVars, hubVars>>

-----------------------------------------------------------------------------
(* The hub: NodeHub.usage of connection n *)

\* What a loop over the events adds up, event e counting w[e].
Total(w) ==
  LET sum[n \in 0..MaxEvents] == IF n = 0 THEN 0 ELSE sum[n - 1] + w[n]
  IN  sum[MaxEvents]

Bytes(E) == Total([e \in EventIds |-> IF e \in E THEN events[e].bytes ELSE 0])

\* Mutant: the quota must be exceeded.
ExhaustingStrictly(fresh) ==
  {events[e].dev : e \in {f \in fresh : used + Bytes({g \in fresh : g <= f}) > Quota}}

\* Devices whose new events find the quota used up, in the order of the batch.
Exhausting(fresh) ==
  {events[e].dev : e \in {f \in fresh : used + Bytes({g \in fresh : g <= f}) >= Quota}}

\* What the transaction does with the events that it inserts.
Charge(fresh) ==
  /\ recorded' = recorded \cup fresh
  /\ used' = used + Bytes(fresh)
  /\ kicking' = kicking \cup Exhausting(fresh)
  /\ charges' = [e \in EventIds |-> IF e \in fresh THEN charges[e] + 1 ELSE charges[e]]
  /\ charged' = charged \cup fresh
  /\ kicked' = kicked \cup Exhausting(fresh)

\* Mutant: a conflict of the INSERT is not noticed (RowsAffected is ignored).
HubUsageIgnoresConflict(n) ==
  LET batch == Head(up[n]) IN
  /\ up[n] # <<>> /\ acking[n] = {}
  /\ up' = [up EXCEPT ![n] = Tail(@)]
  /\ IF \E e \in batch : events[e].dev \in Local
       THEN UNCHANGED hubVars
       ELSE /\ Charge(batch)
            /\ acking' = [acking EXCEPT ![n] = batch]
            /\ UNCHANGED renewals
  /\ UNCHANGED <<conn, live, acks, nodeVars>>

\* One transaction for the batch: an event that is new is charged.  An event of
\* a device the controller does not know violates a foreign key and rolls the
\* whole batch back.
HubUsage(n) ==
  LET batch == Head(up[n]) IN
  /\ up[n] # <<>> /\ acking[n] = {}
  /\ up' = [up EXCEPT ![n] = Tail(@)]
  /\ IF \E e \in batch : events[e].dev \in Local
       THEN UNCHANGED hubVars
       ELSE /\ Charge(batch \ recorded)
            /\ acking' = [acking EXCEPT ![n] = batch]
            /\ UNCHANGED renewals
  /\ UNCHANGED <<conn, live, acks, nodeVars>>

\* After the commit the ack is written, if the connection is still open.
HubAck(n) ==
  /\ acking[n] # {}
  /\ acking' = [acking EXCEPT ![n] = {}]
  /\ IF live /\ conn = n
       THEN Len(acks) < SocketCap /\ acks' = Append(acks, acking[n])
       ELSE UNCHANGED acks
  /\ UNCHANGED <<conn, live, up, recorded, used, kicking, renewals, charges, charged,
                 kicked, nodeVars>>

\* The node handles usage.ack: MarkUsageSent.
MarkUsageSent ==
  /\ live /\ acks # <<>>
  /\ sent' = sent \cup Head(acks)
  /\ acks' = Tail(acks)
  /\ UNCHANGED <<counter, fetched, events, carried, failures, conn, live, up, hubVars>>

ControllerRestart ==
  /\ conn < MaxConns
  /\ live' = FALSE
  /\ acks' = <<>>
  /\ up' = [n \in Conns |-> <<>>]
  /\ acking' = [n \in Conns |-> {}]
  /\ UNCHANGED <<conn, recorded, used, kicking, renewals, charges, charged, kicked, nodeVars>>

-----------------------------------------------------------------------------
(* The subscription and its kicks *)

\* Mutant: the renewal does not reset used_bytes.
RenewKeepsUsed ==
  /\ renewals < MaxRenewals
  /\ renewals' = renewals + 1
  /\ charged' = {}
  /\ kicked' = {}
  /\ UNCHANGED <<acking, recorded, used, kicking, charges, nodeVars, wireVars>>

\* The lifecycle worker renews the subscription and resets used_bytes.
Renew ==
  /\ renewals < MaxRenewals
  /\ renewals' = renewals + 1
  /\ used' = 0
  /\ charged' = {}
  /\ kicked' = {}
  /\ UNCHANGED <<acking, recorded, kicking, charges, nodeVars, wireVars>>

\* A session.kick is acknowledged, rejected or expires.
KickSettles(d) ==
  /\ d \in kicking
  /\ kicking' = kicking \ {d}
  /\ UNCHANGED <<acking, recorded, used, renewals, charges, charged, kicked, nodeVars, wireVars>>

Next ==
  \/ \E d \in Devices : Transfer(d) \/ AddUsage(d) \/ KickSettles(d)
  \/ Fetch \/ CollectorFails
  \/ Dial \/ Drop \/ SendBatch \/ MarkUsageSent
  \/ \E n \in Conns : HubUsage(n) \/ HubAck(n)
  \/ ControllerRestart \/ Renew

Spec == Init /\ [][Next]_vars

\* The ticker of the node, its reconnect loop and the goroutines of the hub
\* keep going.  Traffic, failures, faults and renewals are not forced.
Fairness ==
  /\ WF_vars(Dial) /\ WF_vars(SendBatch) /\ WF_vars(MarkUsageSent)
  /\ \A n \in Conns : WF_vars(HubUsage(n)) /\ WF_vars(HubAck(n))

FairSpec == Spec /\ Fairness

-----------------------------------------------------------------------------
(* Properties *)

\* An event is added to used_bytes exactly once: when it is recorded, however
\* often its batch is sent, on however many connections, and wherever the
\* controller dies (NodeHub.usage, ON CONFLICT DO NOTHING).
ChargedOnce ==
  \A e \in EventIds : charges[e] = IF e \in recorded THEN 1 ELSE 0

\* The node gives up an event only when the controller has recorded it.
SentIsRecorded == sent \subseteq recorded

\* used_bytes is the sum of the events recorded since the last renewal.
UsedIsTheSum == used = Bytes(charged)

\* A subscription that has used up its quota had a device kicked for it, also
\* when the event that crosses the limit arrives in a batch with repeated ones.
ExhaustionIsKicked == used >= Quota => kicked # {}

\* No byte is counted twice on the node, and none is lost unless the collector
\* failed between reading the counters and storing them.
TrafficIsConserved ==
  \A d \in Devices :
    LET stored  == {e \in 1..Len(events) : events[e].dev = d}
        counted == counter[d] + fetched[d] + Bytes(stored)
    IN  counted <= carried[d] /\ (failures = 0 => counted = carried[d])

\* Every event is eventually recorded, because an unacknowledged batch is sent
\* again (connect, PendingUsage, usage), as long as no device issued on the
\* node itself has an event: that one rolls back every batch it is in, and
\* with it the events of others.
EveryEventIsRecorded ==
  LET local == \E f \in DOMAIN events : events[f].dev \in Local IN
  \A e \in EventIds : (e <= Len(events) /\ ~local) ~> (e \in recorded \/ local)

=============================================================================
