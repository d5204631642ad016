---------------------------- MODULE NodeHubProofs ----------------------------
(***************************************************************************)
(* Theorems about the node hub: the command channel, and the certificate   *)
(* rotation and the device synchronisation that run over it.  They hold    *)
(* for any set of commands and of handlers and for any bounds.             *)
(***************************************************************************)
EXTENDS CertRotation, DeviceSync, SequenceTheorems, WellFoundedInduction, TLAPS

-----------------------------------------------------------------------------
(* The command channel                                                     *)

\* What the node has sent is earned by what it has done.
RepliesAreEarned ==
  \A h \in Handlers : \A i \in 1..Len(replies[h]) :
    /\ replies[h][i].ok => handled[replies[h][i].id] > 0
    /\ ~replies[h][i].ok => replies[h][i].id \in refused

\* The memory of the node bounds how often it has applied a command.
MemoryBoundsHandled ==
  \A c \in Commands :
    /\ c \in seen => handled[c] > 0 /\ handled[c] <= 1 + forgets
    /\ c \notin seen => handled[c] <= forgets

\* A handler that has written a row still has to mark it.
MarkingHasARow == \A h \in Handlers : phase[h] = "marking" => rows[h] # {}

ChannelInv ==
  /\ ChannelTypeOK
  /\ MarkingHasARow
  /\ RepliesAreEarned
  /\ MemoryBoundsHandled
  /\ SettledForAReason

-----------------------------------------------------------------------------
(* Lemmas about the operators *)

\* The row that deliver takes next is one of the rows it has left.
LEMMA FirstIsAMember ==
  ASSUME NEW S \in SUBSET Commands, S # {}
  PROVE  First(S) \in S
<1> DEFINE R == OpToRel(<, Nat)
<1>1. IsWellFoundedOn(R, Nat)
  BY NatLessThanWellFounded
<1>2. S \subseteq Nat BY CommandsAreNumbered
<1>3. \E x \in S : \A y \in S : ~(<<y, x>> \in R)
  <2> HIDE DEF R
  <2> QED BY <1>1, <1>2, WFMin
<1>4. \A x, y \in Nat : y < x => <<y, x>> \in R
  BY DEF OpToRel
<1>5. PICK x \in S : \A y \in S : ~(<<y, x>> \in R)
  BY <1>3
<1>6. \A y \in S : x <= y
  <2> SUFFICES ASSUME NEW y \in S PROVE x <= y
    OBVIOUS
  <2>1. ~(y < x)
    BY <1>2, <1>4, <1>5
  <2> QED BY <2>1, <1>2
<1> QED BY <1>6 DEF First

\* A prefix of a sequence, which is what survives of the replies on a broken
\* socket, has the elements of the sequence.
LEMMA PrefixProperties ==
  ASSUME NEW S, NEW s \in Seq(S), NEW k \in 0..Len(s)
  PROVE  /\ SubSeq(s, 1, k) \in Seq(S)
         /\ Len(SubSeq(s, 1, k)) = k
         /\ \A i \in 1..k : SubSeq(s, 1, k)[i] = s[i]
<1>1. \A i \in 1..k : s[i] \in S
  BY ElementOfSeq, LenProperties
<1>2. k \in Nat /\ 1 \in Int /\ k \in Int
  BY LenProperties
<1>3. /\ SubSeq(s, 1, k) \in Seq(S)
      /\ Len(SubSeq(s, 1, k)) = IF 1 <= k THEN k - 1 + 1 ELSE 0
      /\ \A i \in 1..(k - 1 + 1) : SubSeq(s, 1, k)[i] = s[1 + i - 1]
  BY <1>1, <1>2, SubSeqProperties
<1> QED BY <1>2, <1>3

-----------------------------------------------------------------------------
(* Type correctness *)

LEMMA InitType == ChannelInit => ChannelTypeOK /\ MarkingHasARow
BY BoundsAreNaturals DEF ChannelInit, ChannelTypeOK, MarkingHasARow, Statuses, Reply

\* Every action keeps the types, and a handler that marks keeps its row.
LEMMA NextType ==
  ASSUME ChannelTypeOK, MarkingHasARow, [ChannelNext]_channelVars
  PROVE  ChannelTypeOK' /\ MarkingHasARow'
<1> USE DEF ChannelTypeOK, MarkingHasARow, Statuses, Open, tableVars, hubVars, socketVars, nodeVars
<1>1. ASSUME NEW c \in Commands, Enqueue(c)
      PROVE  ChannelTypeOK' /\ MarkingHasARow'
  BY <1>1 DEF Enqueue, InsertRow
<1>2. ASSUME NEW c \in Commands, BackoffElapses(c)
      PROVE  ChannelTypeOK' /\ MarkingHasARow'
  BY <1>2 DEF BackoffElapses
<1>3. ASSUME NEW c \in Commands, DeadlinePasses(c)
      PROVE  ChannelTypeOK' /\ MarkingHasARow'
  BY <1>3 DEF DeadlinePasses
<1>4. ASSUME NEW h \in Handlers, Connect(h)
      PROVE  ChannelTypeOK' /\ MarkingHasARow'
  BY <1>4 DEF Connect
<1>5. ASSUME NEW h \in Handlers, Resync(h)
      PROVE  ChannelTypeOK' /\ MarkingHasARow'
  <2>1. status' \in [Commands -> Statuses]
    BY <1>5 DEF Resync, InsertRow
  <2>2. /\ phase' = [phase EXCEPT ![h] = "idle"]
        /\ UNCHANGED <<waiting, overdue, rows, acking, socketVars, nodeVars, faults>>
    BY <1>5 DEF Resync, EndResync
  <2>3. phase' \in [Handlers -> {"idle", "resync", "sending", "marking"}] /\ MarkingHasARow'
    BY <2>2
  <2> QED BY <2>1, <2>2, <2>3
<1>6. ASSUME NEW h \in Handlers, DeliverQuery(h)
      PROVE  ChannelTypeOK' /\ MarkingHasARow'
  BY <1>6 DEF DeliverQuery, Due
<1>7. ASSUME NEW h \in Handlers, DeliverWrite(h)
      PROVE  ChannelTypeOK' /\ MarkingHasARow'
  <2>1. First(rows[h]) \in Commands
    BY <1>7, FirstIsAMember DEF DeliverWrite
  <2>2. down' \in Seq(Commands)
    BY <1>7, <2>1, AppendProperties DEF DeliverWrite
  <2> QED BY <1>7, <2>2 DEF DeliverWrite
<1>8. ASSUME NEW h \in Handlers, DeliverAbort(h)
      PROVE  ChannelTypeOK' /\ MarkingHasARow'
  BY <1>8 DEF DeliverAbort
<1>9. ASSUME NEW h \in Handlers, DeliverMark(h)
      PROVE  ChannelTypeOK' /\ MarkingHasARow'
  <2>1. First(rows[h]) \in Commands
    BY <1>9, FirstIsAMember DEF DeliverMark
  <2> QED BY <1>9, <2>1 DEF DeliverMark
<1>10. ASSUME NEW h \in Handlers, DeliverFinish(h)
       PROVE  ChannelTypeOK' /\ MarkingHasARow'
  BY <1>10 DEF DeliverFinish
<1>11. ASSUME NEW h \in Handlers, HubReply(h)
       PROVE  ChannelTypeOK' /\ MarkingHasARow'
  <2>1. Head(replies[h]) \in Reply /\ Tail(replies[h]) \in Seq(Reply)
    BY <1>11, HeadTailProperties DEF HubReply
  <2>2. replies' \in [Handlers -> Seq(Reply)]
    BY <1>11, <2>1 DEF HubReply
  <2>3. Head(replies[h]).id \in Commands
    BY <2>1 DEF Reply
  <2> QED BY <1>11, <2>2, <2>3 DEF HubReply
<1>12. ASSUME NEW h \in Handlers, HubEffects(h)
       PROVE  ChannelTypeOK' /\ MarkingHasARow'
  BY <1>12 DEF HubEffects
<1>13. ASSUME NEW c \in Commands, NEW ok \in BOOLEAN, Receive(c, ok)
       PROVE  down' \in Seq(Commands) /\ replies' \in [Handlers -> Seq(Reply)]
  <2>1. live \in Handlers
    BY <1>13 DEF Receive
  <2>2. down' \in Seq(Commands)
    BY <1>13, HeadTailProperties DEF Receive
  <2>3. [id |-> c, ok |-> ok] \in Reply
    BY DEF Reply
  <2>4. Append(replies[live], [id |-> c, ok |-> ok]) \in Seq(Reply)
    BY <2>1, <2>3, AppendProperties
  <2> QED BY <1>13, <2>1, <2>2, <2>4 DEF Receive
<1>14. ASSUME NEW c \in Commands, NodeDuplicate(c)
       PROVE  ChannelTypeOK' /\ MarkingHasARow'
  BY <1>13, <1>14 DEF NodeDuplicate
<1>15. ASSUME NEW c \in Commands, NodeApply(c)
       PROVE  ChannelTypeOK' /\ MarkingHasARow'
  <2>1. down' \in Seq(Commands) /\ replies' \in [Handlers -> Seq(Reply)]
    BY <1>13, <1>15 DEF NodeApply
  <2>2. handled' \in [Commands -> Nat]
    BY <1>15 DEF NodeApply
  <2>3. seen' \in SUBSET Commands /\ forgets' \in Nat /\ faults' \in 0..MaxFaults
    BY <1>15, BoundsAreNaturals DEF NodeApply
  <2>4. UNCHANGED <<tableVars, hubVars, live, refused>>
    BY <1>15 DEF NodeApply
  <2> QED BY <2>1, <2>2, <2>3, <2>4
<1>16. ASSUME NEW c \in Commands, NodeReject(c)
       PROVE  ChannelTypeOK' /\ MarkingHasARow'
  BY <1>13, <1>16 DEF NodeReject
<1>17. ASSUME LoseReplies
       PROVE  replies' \in [Handlers -> Seq(Reply)]
  <2>1. CASE live = None
    BY <1>17, <2>1 DEF LoseReplies
  <2>2. CASE live # None
    <3>1. live \in Handlers
      BY <2>2
    <3>2. PICK k \in 0..Len(replies[live]) :
                 replies' = [replies EXCEPT ![live] = SubSeq(replies[live], 1, k)]
      BY <1>17, <2>2 DEF LoseReplies
    <3>3. SubSeq(replies[live], 1, k) \in Seq(Reply)
      BY <3>1, PrefixProperties
    <3> QED BY <3>1, <3>2, <3>3
  <2> QED BY <2>1, <2>2
<1>18. ASSUME CloseSocket
       PROVE  /\ faults' \in 0..MaxFaults
              /\ live' \in Handlers \cup {None}
              /\ down' \in Seq(Commands)
  BY <1>18, BoundsAreNaturals DEF CloseSocket
<1>19. ASSUME Drop
       PROVE  ChannelTypeOK' /\ MarkingHasARow'
  BY <1>17, <1>18, <1>19 DEF Drop
<1>20. ASSUME NodeRestart
       PROVE  ChannelTypeOK' /\ MarkingHasARow'
  BY <1>17, <1>18, <1>20 DEF NodeRestart
<1>21. ASSUME ControllerRestart
       PROVE  ChannelTypeOK' /\ MarkingHasARow'
  BY <1>18, <1>21 DEF ControllerRestart
<1>22. CASE UNCHANGED channelVars
  BY <1>22 DEF channelVars
<1> QED
  BY Zenon, <1>1, <1>2, <1>3, <1>4, <1>5, <1>6, <1>7, <1>8, <1>9, <1>10, <1>11, <1>12,
     <1>14, <1>15, <1>16, <1>19, <1>20, <1>21, <1>22
  DEF ChannelNext, Deliver, ReadLoop, NodeStep

\* The variables of the channel always have their types: no interleaving of the
\* hub's goroutines, the node and the faults stores a status, a batch or a
\* message that is not one.
THEOREM ChannelTypeCorrect == ChannelSpec => []ChannelTypeOK
<1>1. ChannelInit => ChannelTypeOK /\ MarkingHasARow
  BY InitType
<1>2. ChannelTypeOK /\ MarkingHasARow /\ [ChannelNext]_channelVars
        => ChannelTypeOK' /\ MarkingHasARow'
  BY NextType
<1> QED BY <1>1, <1>2, PTL DEF ChannelSpec

-----------------------------------------------------------------------------
(* Safety *)

LEMMA InitInv == ChannelInit => ChannelInv
<1> SUFFICES ASSUME ChannelInit PROVE ChannelInv
  OBVIOUS
<1>1. ChannelTypeOK /\ MarkingHasARow
  BY InitType
<1>2. RepliesAreEarned /\ MemoryBoundsHandled /\ SettledForAReason
  BY DEF ChannelInit, RepliesAreEarned, MemoryBoundsHandled, SettledForAReason
<1> QED BY <1>1, <1>2 DEF ChannelInv

\* Receiving command c adds one reply, about c, and keeps the others: the
\* replies stay earned if this one is.
LEMMA ReceiveIsEarned ==
  ASSUME ChannelTypeOK, RepliesAreEarned,
         NEW c \in Commands, NEW ok \in BOOLEAN, Receive(c, ok),
         \A d \in Commands : handled[d] > 0 => handled'[d] > 0,
         refused \subseteq refused',
         ok => handled'[c] > 0,
         ~ok => c \in refused'
  PROVE  RepliesAreEarned'
<1>1. live \in Handlers
  BY DEF Receive, ChannelTypeOK
<1> DEFINE r == [id |-> c, ok |-> ok]
<1>2. r \in Reply
  BY DEF Reply
<1>3. replies[live] \in Seq(Reply)
  BY <1>1 DEF ChannelTypeOK
<1>4. /\ Len(Append(replies[live], r)) = Len(replies[live]) + 1
      /\ \A i \in 1..Len(replies[live]) : Append(replies[live], r)[i] = replies[live][i]
      /\ Append(replies[live], r)[Len(replies[live]) + 1] = r
  BY <1>2, <1>3, AppendProperties
<1> SUFFICES ASSUME NEW h \in Handlers, NEW i \in 1..Len(replies'[h])
             PROVE  /\ replies'[h][i].ok => handled'[replies'[h][i].id] > 0
                    /\ ~replies'[h][i].ok => replies'[h][i].id \in refused'
  BY DEF RepliesAreEarned
<1>5. replies' = [replies EXCEPT ![live] = Append(replies[live], r)]
  BY DEF Receive
<1>6. CASE h # live
  <2>1. replies'[h] = replies[h]
    BY <1>5, <1>6 DEF ChannelTypeOK
  <2>2. i \in 1..Len(replies[h])
    BY <2>1
  <2>3. replies[h][i] \in Reply
    BY <2>2, ElementOfSeq DEF ChannelTypeOK
  <2>4. replies[h][i].id \in Commands
    BY <2>3 DEF Reply
  <2> QED BY <2>1, <2>2, <2>4 DEF RepliesAreEarned
<1>7. CASE h = live
  <2>1. replies'[h] = Append(replies[live], r)
    BY <1>5, <1>7, <1>1 DEF ChannelTypeOK
  <2>2. Len(replies[live]) \in Nat
    BY <1>3, LenProperties
  <2>3. CASE i = Len(replies[live]) + 1
    BY <1>4, <2>1, <2>3
  <2>4. CASE i # Len(replies[live]) + 1
    <3>1. i \in 1..Len(replies[live])
      BY <1>4, <2>1, <2>2, <2>4
    <3>2. replies'[h][i] = replies[live][i]
      BY <1>4, <2>1, <3>1
    <3>3. replies[live][i] \in Reply
      BY <1>3, <3>1, ElementOfSeq
    <3>4. replies[live][i].id \in Commands
      BY <3>3 DEF Reply
    <3> QED BY <1>1, <3>1, <3>2, <3>4 DEF RepliesAreEarned
  <2> QED BY <2>3, <2>4
<1> QED BY <1>6, <1>7

\* Losing the end of the replies on a socket keeps the others earned.
LEMMA LossKeepsEarned ==
  ASSUME ChannelTypeOK, RepliesAreEarned, LoseReplies, UNCHANGED <<handled, refused>>
  PROVE  RepliesAreEarned'
<1>1. CASE live = None
  BY <1>1 DEF LoseReplies, RepliesAreEarned
<1>2. CASE live # None
  <2>1. live \in Handlers /\ replies[live] \in Seq(Reply)
    BY <1>2 DEF ChannelTypeOK
  <2>2. PICK k \in 0..Len(replies[live]) :
               replies' = [replies EXCEPT ![live] = SubSeq(replies[live], 1, k)]
    BY <1>2 DEF LoseReplies
  <2>3. /\ Len(SubSeq(replies[live], 1, k)) = k
        /\ \A i \in 1..k : SubSeq(replies[live], 1, k)[i] = replies[live][i]
    BY <2>1, PrefixProperties
  <2>4. Len(replies[live]) \in Nat
    BY <2>1, LenProperties
  <2> SUFFICES ASSUME NEW h \in Handlers, NEW i \in 1..Len(replies'[h])
               PROVE  i \in 1..Len(replies[h]) /\ replies'[h][i] = replies[h][i]
    BY DEF RepliesAreEarned
  <2>5. CASE h = live
    BY <2>1, <2>2, <2>3, <2>4, <2>5 DEF ChannelTypeOK
  <2>6. CASE h # live
    BY <2>2, <2>6 DEF ChannelTypeOK
  <2> QED BY <2>5, <2>6
<1> QED BY <1>1, <1>2

\* Every action keeps the invariant.
LEMMA NextInv ==
  ASSUME ChannelInv, [ChannelNext]_channelVars
  PROVE  RepliesAreEarned' /\ MemoryBoundsHandled' /\ SettledForAReason'
<1> DEFINE Goal == RepliesAreEarned' /\ MemoryBoundsHandled' /\ SettledForAReason'
<1>0. ChannelTypeOK /\ MarkingHasARow /\ RepliesAreEarned
        /\ MemoryBoundsHandled /\ SettledForAReason
  BY DEF ChannelInv
<1> USE DEF tableVars, hubVars, socketVars, nodeVars
<1>1. ASSUME UNCHANGED <<replies, nodeVars>>
      PROVE  RepliesAreEarned' /\ MemoryBoundsHandled'
  BY <1>0, <1>1 DEF RepliesAreEarned, MemoryBoundsHandled
<1>2. ASSUME NEW c \in Commands, Enqueue(c)
      PROVE  Goal
  <2>1. SettledForAReason'
    BY <1>0, <1>2 DEF Enqueue, InsertRow, SettledForAReason, ChannelTypeOK
  <2> QED BY <1>1, <1>2, <2>1 DEF Enqueue
<1>3. ASSUME NEW c \in Commands, BackoffElapses(c)
      PROVE  Goal
  <2>1. SettledForAReason'
    BY <1>0, <1>3 DEF BackoffElapses, SettledForAReason
  <2> QED BY <1>1, <1>3, <2>1 DEF BackoffElapses
<1>4. ASSUME NEW c \in Commands, DeadlinePasses(c)
      PROVE  Goal
  <2>1. SettledForAReason'
    BY <1>0, <1>4 DEF DeadlinePasses, SettledForAReason, ChannelTypeOK
  <2> QED BY <1>1, <1>4, <2>1 DEF DeadlinePasses
<1>5. ASSUME NEW h \in Handlers, Connect(h)
      PROVE  Goal
  <2>1. SettledForAReason'
    BY <1>0, <1>5 DEF Connect, SettledForAReason
  <2> QED BY <1>1, <1>5, <2>1 DEF Connect
<1>6. ASSUME NEW h \in Handlers, Resync(h)
      PROVE  Goal
  <2>1. SettledForAReason'
    BY <1>0, <1>6 DEF Resync, EndResync, InsertRow, SettledForAReason, ChannelTypeOK
  <2> QED BY <1>1, <1>6, <2>1 DEF Resync, EndResync
<1>7. ASSUME NEW h \in Handlers, DeliverQuery(h) \/ DeliverWrite(h) \/ DeliverAbort(h)
      PROVE  Goal
  <2>1. SettledForAReason'
    BY <1>0, <1>7 DEF DeliverQuery, DeliverWrite, DeliverAbort, SettledForAReason
  <2> QED BY <1>1, <1>7, <2>1 DEF DeliverQuery, DeliverWrite, DeliverAbort
<1>8. ASSUME NEW h \in Handlers, DeliverMark(h)
      PROVE  Goal
  <2>1. SettledForAReason'
    BY <1>0, <1>8 DEF DeliverMark, SettledForAReason, ChannelTypeOK
  <2> QED BY <1>1, <1>8, <2>1 DEF DeliverMark
<1>9. ASSUME NEW h \in Handlers, DeliverFinish(h)
      PROVE  Goal
  <2>1. SettledForAReason'
    BY <1>0, <1>9 DEF DeliverFinish, SettledForAReason, ChannelTypeOK
  <2> QED BY Zenon, <1>1, <1>9, <2>1 DEF DeliverFinish
<1>10. ASSUME NEW h \in Handlers, HubReply(h)
       PROVE  Goal
  <2> DEFINE r == Head(replies[h])
  <2>1. replies[h] \in Seq(Reply) /\ replies[h] # <<>>
    BY <1>0, <1>10 DEF HubReply, ChannelTypeOK
  <2>2. /\ r \in Reply
        /\ Len(Tail(replies[h])) = Len(replies[h]) - 1
        /\ \A i \in 1..Len(Tail(replies[h])) : Tail(replies[h])[i] = replies[h][i + 1]
    BY <2>1, HeadTailProperties
  <2>3. Len(replies[h]) \in Nat /\ Len(replies[h]) # 0 /\ r = replies[h][1]
    BY <2>1, LenProperties, EmptySeq
  <2>4. (r.ok => handled[r.id] > 0) /\ (~r.ok => r.id \in refused)
    BY <1>0, <2>3 DEF RepliesAreEarned
  <2>5. SettledForAReason'
    BY <1>0, <1>10, <2>2, <2>4 DEF HubReply, SettledForAReason, ChannelTypeOK
  <2>6. RepliesAreEarned'
    <3>1. replies' = [replies EXCEPT ![h] = Tail(replies[h])]
      BY <1>10 DEF HubReply
    <3>2. ASSUME NEW g \in Handlers, NEW i \in 1..Len(replies'[g])
          PROVE  \E j \in 1..Len(replies[g]) : replies'[g][i] = replies[g][j]
      <4>1. CASE g = h
        <5>1. replies'[g] = Tail(replies[h])
          BY <1>0, <3>1, <4>1 DEF ChannelTypeOK
        <5>2. i + 1 \in 1..Len(replies[h])
          BY <2>2, <2>3, <5>1
        <5> QED BY <2>2, <4>1, <5>1, <5>2
      <4>2. CASE g # h
        BY <1>0, <3>1, <4>2 DEF ChannelTypeOK
      <4> QED BY <4>1, <4>2
    <3>3. handled' = handled /\ refused' = refused
      BY <1>10 DEF HubReply, nodeVars
    <3> SUFFICES ASSUME NEW g \in Handlers, NEW i \in 1..Len(replies'[g])
                 PROVE  /\ replies'[g][i].ok => handled'[replies'[g][i].id] > 0
                        /\ ~replies'[g][i].ok => replies'[g][i].id \in refused'
      BY DEF RepliesAreEarned
    <3>4. PICK j \in 1..Len(replies[g]) : replies'[g][i] = replies[g][j]
      BY <3>2
    <3> QED BY <1>0, <3>3, <3>4 DEF RepliesAreEarned
  <2>7. MemoryBoundsHandled'
    BY <1>0, <1>10 DEF HubReply, MemoryBoundsHandled
  <2> QED BY <2>5, <2>6, <2>7
<1>11. ASSUME NEW h \in Handlers, HubEffects(h)
       PROVE  Goal
  <2>1. SettledForAReason'
    BY <1>0, <1>11 DEF HubEffects, SettledForAReason
  <2> QED BY <1>1, <1>11, <2>1 DEF HubEffects
<1>12. ASSUME NEW c \in Commands, NodeDuplicate(c)
       PROVE  Goal
  <2>1. handled[c] > 0
    BY <1>0, <1>12 DEF NodeDuplicate, MemoryBoundsHandled
  <2>2. RepliesAreEarned'
    BY <1>0, <1>12, <2>1, ReceiveIsEarned DEF NodeDuplicate
  <2>3. MemoryBoundsHandled' /\ SettledForAReason'
    BY <1>0, <1>12 DEF NodeDuplicate, MemoryBoundsHandled, SettledForAReason
  <2> QED BY <2>2, <2>3
<1>13. ASSUME NEW c \in Commands, NodeApply(c)
       PROVE  Goal
  <2>1. /\ \A d \in Commands : handled[d] > 0 => handled'[d] > 0
        /\ handled'[c] > 0
    BY <1>0, <1>13 DEF NodeApply, ChannelTypeOK
  <2>2. RepliesAreEarned'
    BY <1>0, <1>13, <2>1, ReceiveIsEarned DEF NodeApply
  <2>3. SettledForAReason'
    BY <1>0, <1>13, <2>1 DEF NodeApply, SettledForAReason
  <2>4. MemoryBoundsHandled'
    <3>1. CASE Cardinality(seen) > SeenLimit
      BY <1>0, <1>13, <3>1 DEF NodeApply, MemoryBoundsHandled, ChannelTypeOK
    <3>2. CASE ~(Cardinality(seen) > SeenLimit)
      BY <1>0, <1>13, <3>2 DEF NodeApply, MemoryBoundsHandled, ChannelTypeOK
    <3> QED BY <3>1, <3>2
  <2> QED BY <2>2, <2>3, <2>4
<1>14. ASSUME NEW c \in Commands, NodeReject(c)
       PROVE  Goal
  <2>1. RepliesAreEarned'
    BY Zenon, <1>0, <1>14, ReceiveIsEarned DEF NodeReject
  <2>2. MemoryBoundsHandled' /\ SettledForAReason'
    BY <1>0, <1>14 DEF NodeReject, MemoryBoundsHandled, SettledForAReason
  <2> QED BY <2>1, <2>2
<1>15. ASSUME Drop
       PROVE  Goal
  <2>1. RepliesAreEarned'
    BY <1>0, <1>15, LossKeepsEarned DEF Drop
  <2> QED BY <1>0, <1>15, <2>1 DEF Drop, MemoryBoundsHandled, SettledForAReason
<1>16. ASSUME NodeRestart
       PROVE  Goal
  <2>1. RepliesAreEarned'
    BY <1>0, <1>16, LossKeepsEarned DEF NodeRestart
  <2>2. MemoryBoundsHandled'
    BY <1>0, <1>16 DEF NodeRestart, MemoryBoundsHandled, ChannelTypeOK
  <2>3. SettledForAReason'
    BY Zenon, <1>0, <1>16 DEF NodeRestart, SettledForAReason
  <2> QED BY <2>1, <2>2, <2>3
<1>17. ASSUME ControllerRestart
       PROVE  Goal
  <2>1. RepliesAreEarned'
    <3>1. replies' = [h \in Handlers |-> <<>>]
      BY <1>17 DEF ControllerRestart
    <3>2. \A h \in Handlers : Len(replies'[h]) = 0
      BY <3>1, EmptySeq
    <3> QED BY <3>2 DEF RepliesAreEarned
  <2>2. MemoryBoundsHandled' /\ SettledForAReason'
    BY <1>0, <1>17 DEF ControllerRestart, MemoryBoundsHandled, SettledForAReason
  <2> QED BY <2>1, <2>2
<1>18. CASE UNCHANGED channelVars
  <2>1. SettledForAReason'
    BY <1>0, <1>18 DEF channelVars, SettledForAReason
  <2> QED BY <1>1, <1>18, <2>1 DEF channelVars
<1> QED
  BY <1>2, <1>3, <1>4, <1>5, <1>6, <1>7, <1>8, <1>9, <1>10, <1>11, <1>12,
     <1>13, <1>14, <1>15, <1>16, <1>17, <1>18
  DEF ChannelNext, Deliver, ReadLoop, NodeStep

LEMMA ChannelInvariant == ChannelSpec => []ChannelInv
<1>1. ChannelInit => ChannelInv
  BY InitInv
<1>2. ChannelInv /\ [ChannelNext]_channelVars => ChannelInv'
  BY NextType, NextInv DEF ChannelInv
<1> QED BY <1>1, <1>2, PTL DEF ChannelSpec

\* A command leaves the queue for a reason.  readLoop and deliver set its status
\* unconditionally, in goroutines that race: an "acked" row has been applied by
\* the node, a "nacked" one rejected, an "expired" one is past its deadline,
\* whatever was lost, repeated or interrupted.
THEOREM CommandsSettleForAReason == ChannelSpec => []SettledForAReason
<1>1. ChannelInv => SettledForAReason
  BY DEF ChannelInv
<1> QED BY <1>1, ChannelInvariant, PTL

\* Redelivery does not apply a command twice: the node applies it at most once
\* more than it has lost its memory of message ids (wasSeen, markSeen, restart).
THEOREM RedeliveryIsIdempotent == ChannelSpec => []ReappliedOnlyAfterForgetting
<1>1. ChannelInv => ReappliedOnlyAfterForgetting
  <2> SUFFICES ASSUME ChannelInv, NEW c \in Commands
               PROVE  handled[c] <= 1 + forgets
    BY DEF ReappliedOnlyAfterForgetting
  <2> QED BY DEF ChannelInv, MemoryBoundsHandled, ChannelTypeOK
<1> QED BY <1>1, ChannelInvariant, PTL

-----------------------------------------------------------------------------
(* What both uses of the channel rest on: nothing is on its way to the     *)
(* node, applied or rejected that was not queued first.                    *)

Queued == {c \in Commands : status[c] # "none"}

OnTheWayIsQueued ==
  /\ down \in Seq(Queued)
  /\ \A h \in Handlers : rows[h] \subseteq Queued
  /\ \A c \in Commands : handled[c] > 0 \/ c \in refused => c \in Queued
  /\ \A h \in Handlers : acking[h] # None => handled[acking[h]] > 0

TransportInv == ChannelInv /\ OnTheWayIsQueued

\* The steps of the queue that insert no row.
Transport ==
  \/ \E c \in Commands : BackoffElapses(c) \/ DeadlinePasses(c) \/ NodeStep(c)
  \/ \E h \in Handlers : Connect(h) \/ Deliver(h) \/ ReadLoop(h)
  \/ Drop \/ NodeRestart \/ ControllerRestart

\* A reply that a handler has still to read is about a queued command, and a
\* positive one about a command the node has applied.
LEMMA NextReplyIsQueued ==
  ASSUME TransportInv, NEW h \in Handlers, replies[h] # <<>>
  PROVE  /\ Head(replies[h]) \in Reply
         /\ Head(replies[h]).id \in Queued
         /\ Head(replies[h]).ok => handled[Head(replies[h]).id] > 0
<1> DEFINE r == Head(replies[h])
<1>1. replies[h] \in Seq(Reply)
  BY DEF TransportInv, ChannelInv, ChannelTypeOK
<1>2. r \in Reply /\ r = replies[h][1] /\ 1 \in 1..Len(replies[h])
  <2>1. Len(replies[h]) \in Nat /\ Len(replies[h]) # 0
    BY <1>1, LenProperties, EmptySeq
  <2> QED BY <1>1, <2>1, HeadTailProperties
<1>3. (r.ok => handled[r.id] > 0) /\ (~r.ok => r.id \in refused)
  BY <1>2 DEF TransportInv, ChannelInv, RepliesAreEarned
<1>4. r.id \in Commands
  BY <1>2 DEF Reply
<1> QED BY <1>2, <1>3, <1>4 DEF TransportInv, OnTheWayIsQueued

\* The command the node reads from its socket was queued.
LEMMA ReceivedIsQueued ==
  ASSUME TransportInv, NEW c \in Commands, NEW ok \in BOOLEAN, Receive(c, ok)
  PROVE  c \in Queued /\ down' \in Seq(Queued)
BY HeadTailProperties DEF TransportInv, OnTheWayIsQueued, Receive

\* The statements of deliver and readLoop move a row between the statuses of a
\* queued command, whatever status they find.
LEMMA TransportInsertsNothing ==
  ASSUME TransportInv, Transport
  PROVE  Queued' = Queued
<1> USE DEF tableVars, Queued
<1>t. ChannelTypeOK /\ MarkingHasARow
  BY DEF TransportInv, ChannelInv
<1>1. ASSUME UNCHANGED status PROVE Queued' = Queued
  BY <1>1
<1>2. ASSUME NEW h \in Handlers, DeliverMark(h) PROVE Queued' = Queued
  <2>1. First(rows[h]) \in rows[h]
    BY <1>2, <1>t, FirstIsAMember DEF DeliverMark, MarkingHasARow, ChannelTypeOK
  <2>2. First(rows[h]) \in Queued
    BY <2>1 DEF TransportInv, OnTheWayIsQueued
  <2> QED BY <1>2, <1>t, <2>2 DEF DeliverMark, ChannelTypeOK
<1>3. ASSUME NEW h \in Handlers, DeliverFinish(h) PROVE Queued' = Queued
  BY <1>3, <1>t DEF DeliverFinish, Open, ChannelTypeOK
<1>4. ASSUME NEW h \in Handlers, HubReply(h) PROVE Queued' = Queued
  <2>1. Head(replies[h]).id \in Queued
    BY Zenon, <1>4, NextReplyIsQueued DEF HubReply
  <2> QED BY <1>4, <1>t, <2>1 DEF HubReply, ChannelTypeOK
<1>5. ASSUME NEW h \in Handlers, Deliver(h) PROVE Queued' = Queued
  BY <1>5, <1>1, <1>2, <1>3 DEF Deliver, DeliverQuery, DeliverWrite, DeliverAbort
<1>6. ASSUME NEW h \in Handlers, Connect(h) \/ ReadLoop(h) PROVE Queued' = Queued
  BY Zenon, <1>6, <1>1, <1>4 DEF Connect, ReadLoop, HubEffects
<1>7. ASSUME NEW c \in Commands, BackoffElapses(c) \/ DeadlinePasses(c) \/ NodeStep(c)
      PROVE  Queued' = Queued
  BY <1>7, <1>1 DEF BackoffElapses, DeadlinePasses, NodeStep, NodeDuplicate,
                    NodeApply, NodeReject
<1>8. ASSUME Drop \/ NodeRestart \/ ControllerRestart PROVE Queued' = Queued
  BY <1>8, <1>1 DEF Drop, NodeRestart, ControllerRestart
<1> QED BY <1>5, <1>6, <1>7, <1>8 DEF Transport

\* Inserting a row adds its command to the queued ones.
LEMMA InsertQueues ==
  ASSUME ChannelTypeOK, NEW c \in Commands, InsertRow(c)
  PROVE  c \notin Queued /\ Queued' = Queued \cup {c}
BY DEF ChannelTypeOK, InsertRow, Queued

LEMMA QueuedStays ==
  ASSUME TransportInv, [ChannelNext]_channelVars
  PROVE  Queued \subseteq Queued'
<1>t. ChannelTypeOK
  BY DEF TransportInv, ChannelInv
<1>1. CASE Transport
  BY <1>1, TransportInsertsNothing
<1>2. ASSUME NEW c \in Commands, Enqueue(c) PROVE Queued \subseteq Queued'
  BY <1>2, <1>t, InsertQueues DEF Enqueue
<1>3. ASSUME NEW h \in Handlers, Resync(h) PROVE Queued \subseteq Queued'
  BY <1>3, <1>t, InsertQueues DEF Resync, Queued
<1>4. CASE UNCHANGED channelVars
  BY <1>4 DEF channelVars, tableVars, Queued
<1> QED BY <1>1, <1>2, <1>3, <1>4 DEF ChannelNext, Transport

\* Every step of the channel keeps what is on its way queued.
LEMMA NextOnTheWay ==
  ASSUME TransportInv, [ChannelNext]_channelVars
  PROVE  OnTheWayIsQueued'
<1> USE DEF tableVars, hubVars, socketVars, nodeVars
<1>0. ChannelTypeOK /\ ChannelTypeOK' /\ OnTheWayIsQueued /\ Queued \subseteq Queued'
  BY QueuedStays, NextType DEF TransportInv, ChannelInv
<1>1. ASSUME UNCHANGED <<down, rows, acking, handled, refused>>
      PROVE  OnTheWayIsQueued'
  BY <1>0, <1>1, SeqMonotonic DEF OnTheWayIsQueued
<1>2. down \in Seq(Queued')
  BY <1>0, SeqMonotonic DEF OnTheWayIsQueued
<1>3. ASSUME NEW c \in Commands, Enqueue(c) \/ BackoffElapses(c) \/ DeadlinePasses(c)
      PROVE  OnTheWayIsQueued'
  BY <1>1, <1>3 DEF Enqueue, BackoffElapses, DeadlinePasses
<1>4. ASSUME NEW h \in Handlers, Connect(h) \/ Resync(h) \/ DeliverFinish(h)
      PROVE  OnTheWayIsQueued'
  BY <1>1, <1>4 DEF Connect, Resync, EndResync, DeliverFinish
<1>5. ASSUME NEW h \in Handlers, DeliverQuery(h) PROVE OnTheWayIsQueued'
  <2>1. Due \subseteq Queued
    BY DEF Due, Queued, Open
  <2> QED BY <1>0, <1>2, <1>5, <2>1 DEF DeliverQuery, OnTheWayIsQueued, ChannelTypeOK
<1>6. ASSUME NEW h \in Handlers, DeliverWrite(h) PROVE OnTheWayIsQueued'
  <2>1. First(rows[h]) \in Queued'
    BY <1>0, <1>6, FirstIsAMember DEF DeliverWrite, OnTheWayIsQueued, ChannelTypeOK
  <2>2. down' \in Seq(Queued')
    BY Zenon, <1>2, <1>6, <2>1, AppendProperties DEF DeliverWrite
  <2> QED BY Zenon, <1>0, <1>6, <2>2 DEF DeliverWrite, OnTheWayIsQueued
<1>7. ASSUME NEW h \in Handlers, DeliverAbort(h) \/ DeliverMark(h)
      PROVE  OnTheWayIsQueued'
  <2>1. \A g \in Handlers : rows'[g] \subseteq rows[g]
    <3>1. \E R \in SUBSET rows[h] : rows' = [rows EXCEPT ![h] = R]
      BY <1>7 DEF DeliverAbort, DeliverMark
    <3> QED BY <1>0, <3>1 DEF ChannelTypeOK
  <2>2. UNCHANGED <<down, acking, handled, refused>>
    BY <1>7 DEF DeliverAbort, DeliverMark
  <2> QED BY <1>0, <1>2, <2>1, <2>2 DEF OnTheWayIsQueued
<1>8. ASSUME NEW h \in Handlers, HubReply(h) PROVE OnTheWayIsQueued'
  <2>1. Head(replies[h]).ok => handled[Head(replies[h]).id] > 0
    BY <1>8, NextReplyIsQueued DEF HubReply
  <2>2. \A g \in Handlers : acking'[g] # None => handled'[acking'[g]] > 0
    BY Zenon, <1>0, <1>8, <2>1 DEF HubReply, OnTheWayIsQueued, ChannelTypeOK
  <2>3. UNCHANGED <<down, rows, handled, refused>>
    BY <1>8 DEF HubReply
  <2> QED BY <1>0, <1>2, <2>2, <2>3 DEF OnTheWayIsQueued
<1>9. ASSUME NEW h \in Handlers, HubEffects(h) PROVE OnTheWayIsQueued'
  BY <1>0, <1>2, <1>9 DEF HubEffects, OnTheWayIsQueued, ChannelTypeOK
<1>10. ASSUME NEW c \in Commands, NEW ok \in BOOLEAN, Receive(c, ok)
       PROVE  c \in Queued' /\ down' \in Seq(Queued')
  BY <1>0, <1>10, ReceivedIsQueued, SeqMonotonic
<1>11. ASSUME NEW c \in Commands, NodeDuplicate(c) PROVE OnTheWayIsQueued'
  BY Zenon, <1>0, <1>10, <1>11 DEF NodeDuplicate, OnTheWayIsQueued
<1>12. ASSUME NEW c \in Commands, NodeApply(c) PROVE OnTheWayIsQueued'
  <2>1. c \in Queued' /\ down' \in Seq(Queued')
    BY <1>10, <1>12 DEF NodeApply
  <2>2. handled' = [handled EXCEPT ![c] = @ + 1] /\ UNCHANGED <<rows, acking, refused>>
    BY <1>12 DEF NodeApply
  <2>3. \A d \in Commands : /\ handled[d] > 0 => handled'[d] > 0
                            /\ handled'[d] > 0 => handled[d] > 0 \/ d = c
    BY <1>0, <2>2 DEF ChannelTypeOK
  <2>4. \A d \in Commands : handled'[d] > 0 \/ d \in refused' => d \in Queued'
    BY <1>0, <2>1, <2>2, <2>3 DEF OnTheWayIsQueued
  <2>5. \A h \in Handlers : acking'[h] # None => handled'[acking'[h]] > 0
    BY <1>0, <2>2, <2>3 DEF OnTheWayIsQueued, ChannelTypeOK
  <2> QED BY <1>0, <2>1, <2>2, <2>4, <2>5 DEF OnTheWayIsQueued
<1>13. ASSUME NEW c \in Commands, NodeReject(c) PROVE OnTheWayIsQueued'
  BY Zenon, <1>0, <1>10, <1>13 DEF NodeReject, OnTheWayIsQueued
<1>14. ASSUME CloseSocket PROVE down' \in Seq(Queued')
  BY <1>14, EmptySeq DEF CloseSocket
<1>15. ASSUME Drop \/ NodeRestart PROVE OnTheWayIsQueued'
  BY <1>0, <1>14, <1>15 DEF Drop, NodeRestart, OnTheWayIsQueued
<1>16. ASSUME ControllerRestart PROVE OnTheWayIsQueued'
  BY <1>0, <1>14, <1>16 DEF ControllerRestart, OnTheWayIsQueued
<1>17. CASE UNCHANGED channelVars
  BY <1>1, <1>17 DEF channelVars
<1> QED
  BY <1>3, <1>4, <1>5, <1>6, <1>7, <1>8, <1>9, <1>11, <1>12, <1>13, <1>15, <1>16, <1>17
  DEF ChannelNext, Deliver, ReadLoop, NodeStep

LEMMA InitTransport == ChannelInit => TransportInv
BY InitInv, EmptySeq DEF ChannelInit, TransportInv, OnTheWayIsQueued

LEMMA NextTransport ==
  ASSUME TransportInv, [ChannelNext]_channelVars
  PROVE  TransportInv'
BY NextType, NextInv, NextOnTheWay DEF TransportInv, ChannelInv

-----------------------------------------------------------------------------
(* Certificate rotation.  As long as no rotation has slipped, at most one  *)
(* rotation is under way, the prepared one: the node holds the current     *)
(* serial until it has applied that command and the prepared one after.    *)

RotationInOrder ==
  /\ \A c \in Queued : handled[c] = 0 => next = c
  /\ next = None => nodeCert = serial
  /\ next # None /\ handled[next] = 0 => nodeCert = serial
  /\ next # None /\ handled[next] > 0 => nodeCert = next

RotationInv ==
  /\ TransportInv
  /\ next \in Commands \cup {None}
  /\ slips = {} => RotationInOrder

\* Every step of the rotation is a step of the channel.
LEMMA RotationUsesTheChannel ==
  ASSUME [RotationNext]_rotationVars
  PROVE  [ChannelNext]_channelVars
<1>1. CASE CertificateAges \/ RotateSelect
  BY <1>1 DEF CertificateAges, RotateSelect
<1>2. ASSUME NEW c \in Commands, RotateInsert(c) \/ ApplyRotation(c)
      PROVE  ChannelNext
  BY <1>2 DEF RotateInsert, ApplyRotation, ChannelNext, NodeStep
<1>3. ASSUME NEW h \in Handlers, Promote(h) \/ AdmitCertificate(h) \/ ResyncNothing(h)
      PROVE  ChannelNext
  BY <1>3 DEF Promote, AdmitCertificate, ResyncNothing, ChannelNext, ReadLoop, Resync
<1>4. CASE RotationCrash
  BY <1>4 DEF RotationCrash, ChannelNext
<1>5. CASE UNCHANGED rotationVars
  BY <1>5 DEF rotationVars
<1> QED
  BY <1>1, <1>2, <1>3, <1>4, <1>5 DEF RotationNext, ChannelNext, NodeStep, ReadLoop

\* Slips accumulate: after a step without one, none has happened before.
LEMMA NoSlipBefore ==
  ASSUME NEW kind, NEW happened, Slip(kind, happened), slips' = {}
  PROVE  slips = {} /\ ~happened
BY DEF Slip

\* A step that queues nothing, applies nothing and leaves both serials and the
\* certificate alone keeps the order.
LEMMA QuietRotation ==
  ASSUME RotationInv, Queued' = Queued, UNCHANGED <<handled, serial, next, nodeCert>>
  PROVE  RotationInOrder <=> RotationInOrder'
BY DEF RotationInOrder

\* Every step of the worker, the node and the hub keeps the rotation in order
\* until the first slip.
LEMMA NextRotation ==
  ASSUME RotationInv, [RotationNext]_rotationVars
  PROVE  RotationInv'
<1> USE DEF certVars
<1>0. /\ ChannelTypeOK /\ OnTheWayIsQueued /\ TransportInv
      /\ next \in Commands \cup {None}
      /\ slips = {} => RotationInOrder
  BY DEF RotationInv, TransportInv, ChannelInv
<1>1. TransportInv'
  BY <1>0, RotationUsesTheChannel, NextTransport
<1> SUFFICES next' \in Commands \cup {None} /\ (slips' = {} => RotationInOrder')
  BY <1>1 DEF RotationInv
<1>2. ASSUME Queued' = Queued, UNCHANGED <<handled, serial, next, nodeCert, slips>>
      PROVE  next' \in Commands \cup {None} /\ (slips' = {} => RotationInOrder')
  BY <1>0, <1>2, QuietRotation
<1>3. CASE CertificateAges \/ RotateSelect \/ UNCHANGED rotationVars
  BY <1>2, <1>3 DEF CertificateAges, RotateSelect, rotationVars, channelVars,
                    tableVars, nodeVars, Queued
<1>4. ASSUME NEW c \in Commands, RotateInsert(c)
      PROVE  next' \in Commands \cup {None} /\ (slips' = {} => RotationInOrder')
  <2>1. /\ c \notin Queued /\ Queued' = Queued \cup {c}
        /\ UNCHANGED handled
    BY <1>0, <1>4, InsertQueues DEF RotateInsert, Enqueue, nodeVars
  <2>2. handled[c] = 0
    BY <1>0, <2>1 DEF OnTheWayIsQueued, ChannelTypeOK
  <2>3. next' = c /\ UNCHANGED <<serial, nodeCert>> /\ Slip("replaced", next # None)
    BY <1>4 DEF RotateInsert
  <2>4. ASSUME slips' = {} PROVE RotationInOrder'
    <3>1. slips = {} /\ next = None
      BY <2>3, <2>4, NoSlipBefore
    <3>2. \A d \in Queued : handled[d] # 0
      BY <1>0, <3>1, NoneIsNoCommand DEF RotationInOrder, Queued
    <3>3. \A d \in Queued' : handled'[d] = 0 => next' = d
      BY <2>1, <2>3, <3>2
    <3>4. nodeCert' = serial' /\ next' # None /\ handled'[next'] = 0
      BY <1>0, <2>1, <2>2, <2>3, <3>1, NoneIsNoCommand DEF RotationInOrder
    <3> QED BY <3>3, <3>4 DEF RotationInOrder
  <2> QED BY <2>3, <2>4
<1>5. ASSUME NEW c \in Commands, ApplyRotation(c)
      PROVE  next' \in Commands \cup {None} /\ (slips' = {} => RotationInOrder')
  <2>1. c \in Queued /\ Queued' = Queued
    <3>1. Transport
      BY <1>5 DEF ApplyRotation, Transport, NodeStep
    <3> QED BY <1>0, <1>5, <3>1, ReceivedIsQueued, TransportInsertsNothing
            DEF ApplyRotation, NodeApply
  <2>2. /\ handled' = [handled EXCEPT ![c] = @ + 1]
        /\ nodeCert' = c /\ UNCHANGED <<serial, next>>
        /\ Slip("reapplied", handled[c] > 0)
    BY <1>5 DEF ApplyRotation, NodeApply
  <2>3. ASSUME slips' = {} PROVE RotationInOrder'
    <3>1. RotationInOrder /\ ~(handled[c] > 0)
      BY <1>0, <2>2, <2>3, NoSlipBefore
    <3>2. next = c /\ handled'[c] > 0
      BY <1>0, <2>1, <2>2, <3>1 DEF RotationInOrder, ChannelTypeOK
    <3>3. \A d \in Queued : handled[d] = 0 => d = c
      BY <3>1, <3>2 DEF RotationInOrder
    <3>4. \A d \in Queued' : handled'[d] # 0
      BY <1>0, <2>1, <2>2, <3>2, <3>3 DEF ChannelTypeOK, Queued
    <3> QED BY <1>0, <2>2, <3>2, <3>4, NoneIsNoCommand DEF RotationInOrder
  <2> QED BY <1>0, <2>2, <2>3
<1>6. ASSUME NEW h \in Handlers, Promote(h)
      PROVE  next' \in Commands \cup {None} /\ (slips' = {} => RotationInOrder')
  <2>1. Queued' = Queued
    BY <1>0, <1>6, TransportInsertsNothing DEF Promote, Transport, ReadLoop
  <2>2. /\ acking[h] # None /\ UNCHANGED <<handled, nodeCert>>
        /\ serial' = next /\ next' = None
        /\ Slip("promoted another", next # acking[h])
    BY <1>6 DEF Promote, HubEffects, nodeVars
  <2>3. ASSUME slips' = {} PROVE RotationInOrder'
    <3>1. RotationInOrder /\ next = acking[h]
      BY <1>0, <2>2, <2>3, NoSlipBefore
    <3>2. next # None /\ handled[next] > 0
      BY Zenon, <1>0, <2>2, <3>1 DEF OnTheWayIsQueued
    <3>3. nodeCert = next
      BY <3>1, <3>2 DEF RotationInOrder
    <3>4. \A d \in Queued : handled[d] # 0
      BY <3>1, <3>2 DEF RotationInOrder
    <3> QED BY Zenon, <2>1, <2>2, <3>3, <3>4 DEF RotationInOrder
  <2> QED BY <2>2, <2>3
<1>7. ASSUME NEW h \in Handlers, ResyncNothing(h)
      PROVE  next' \in Commands \cup {None} /\ (slips' = {} => RotationInOrder')
  BY <1>2, <1>7 DEF ResyncNothing, EndResync, nodeVars, Queued
<1>8. ASSUME Transport, UNCHANGED <<handled, serial, next, nodeCert, slips>>
      PROVE  next' \in Commands \cup {None} /\ (slips' = {} => RotationInOrder')
  BY <1>0, <1>2, <1>8, TransportInsertsNothing
<1>9. ASSUME NEW h \in Handlers, AdmitCertificate(h)
      PROVE  next' \in Commands \cup {None} /\ (slips' = {} => RotationInOrder')
  BY Zenon, <1>8, <1>9 DEF AdmitCertificate, Connect, nodeVars, Transport
<1>10. CASE RotationCrash
  BY <1>8, <1>10 DEF RotationCrash, ControllerRestart, nodeVars, Transport
<1>11. ASSUME UNCHANGED <<certVars, slips>>,
              \/ \E c \in Commands : \/ BackoffElapses(c) \/ DeadlinePasses(c)
                                     \/ NodeDuplicate(c) \/ NodeReject(c)
              \/ \E h \in Handlers : Deliver(h) \/ HubReply(h)
              \/ Drop \/ NodeRestart
       PROVE  next' \in Commands \cup {None} /\ (slips' = {} => RotationInOrder')
  <2>1. Transport
    BY <1>11 DEF Transport, NodeStep, ReadLoop
  <2>2. UNCHANGED handled
    BY Zenon, <1>11 DEF BackoffElapses, DeadlinePasses, NodeDuplicate, NodeReject, Deliver,
          DeliverQuery, DeliverWrite, DeliverAbort, DeliverMark, DeliverFinish,
          HubReply, Drop, NodeRestart, nodeVars
  <2> QED BY <1>8, <1>11, <2>1, <2>2
<1> QED
  BY <1>3, <1>4, <1>5, <1>6, <1>7, <1>9, <1>10, <1>11 DEF RotationNext

\* A node keeps a certificate that Connect admits unless a rotation slips: a
\* prepared serial is replaced, an ack promotes another serial than its own, or
\* the node applies a rotation twice.  No interleaving of rotateCertificates,
\* deliver, readLoop and the node, and no loss or restart, is a fourth way.
THEOREM AccessNeedsASlip == RotationSpec => []AccessLostOnlyBySlip
<1>1. RotationInit => RotationInv
  <2> SUFFICES ASSUME RotationInit PROVE RotationInv
    OBVIOUS
  <2>1. TransportInv
    BY InitTransport DEF RotationInit
  <2>2. Queued = {}
    BY DEF RotationInit, ChannelInit, Queued
  <2> QED BY <2>1, <2>2 DEF RotationInit, RotationInv, RotationInOrder
<1>2. RotationInv /\ [RotationNext]_rotationVars => RotationInv'
  BY NextRotation
<1>3. RotationInv => AccessLostOnlyBySlip
  <2> SUFFICES ASSUME RotationInv, slips = {} PROVE nodeCert \in {serial, next}
    BY DEF AccessLostOnlyBySlip, NodeKeepsAccess
  <2>1. next # None => handled[next] \in Nat
    BY DEF RotationInv, TransportInv, ChannelInv, ChannelTypeOK
  <2> QED BY <2>1 DEF RotationInv, RotationInOrder
<1> QED BY <1>1, <1>2, <1>3, PTL DEF RotationSpec

-----------------------------------------------------------------------------
(* Device synchronisation.  Unless a command takes effect after a newer    *)
(* one, the node has what the newest command says that took effect; and    *)
(* no command the node has applied is newer than that.                     *)

NodeFollowsNewest ==
  ~late => nodeDev = IF newest = 0 THEN 0 ELSE payload[newest]

SyncInv ==
  /\ TransportInv
  /\ DOMAIN payload = Commands
  /\ newest \in Queued \cup {0}
  /\ \A c \in Commands : handled[c] > 0 => c <= newest
  /\ NodeFollowsNewest

\* Every step of the device synchronisation is a step of the channel.
LEMMA SyncUsesTheChannel ==
  ASSUME [SyncNext]_syncVars
  PROVE  [ChannelNext]_channelVars
<1>1. CASE Select \/ ProvisionFails \/ Unblock \/ RebindCommit \/ RebindRevokeFails
  BY <1>1 DEF Select, ProvisionFails, Unblock, RebindCommit, RebindRevokeFails
<1>2. ASSUME NEW c \in Commands, Provision(c) \/ Block(c) \/ RebindRevoke(c)
      PROVE  ChannelNext
  BY <1>2 DEF Provision, Block, RebindRevoke, Queue, ChannelNext
<1>3. ASSUME NEW h \in Handlers, AdmitAndRead(h) \/ QueueResync(h)
      PROVE  ChannelNext
  BY <1>3 DEF AdmitAndRead, QueueResync, ChannelNext, Resync
<1>4. ASSUME NEW c \in Commands, Apply(c) \/ Fail(c)
      PROVE  ChannelNext
  BY <1>4 DEF Apply, Fail, ChannelNext, NodeStep
<1>5. CASE SyncCrash
  BY <1>5 DEF SyncCrash, ChannelNext
<1>6. CASE UNCHANGED syncVars
  BY <1>6 DEF syncVars
<1> QED
  BY Zenon, <1>1, <1>2, <1>3, <1>4, <1>5, <1>6 DEF SyncNext, ChannelNext, NodeStep

\* A payload is written with its row, so that of a queued command stays.
LEMMA InsertKeepsNewest ==
  ASSUME SyncInv, NEW c \in Commands, NEW p, InsertRow(c),
         payload' = [payload EXCEPT ![c] = p],
         UNCHANGED <<handled, effectVars>>, TransportInv'
  PROVE  SyncInv'
<1>1. c \notin Queued /\ Queued' = Queued \cup {c}
  BY InsertQueues DEF SyncInv, TransportInv, ChannelInv
<1>2. newest # 0 => payload'[newest] = payload[newest]
  BY <1>1 DEF SyncInv, Queued
<1> QED BY <1>1, <1>2 DEF SyncInv, NodeFollowsNewest, effectVars

\* A queued command that takes effect is the newest one, or is late.
LEMMA EffectKeepsNewest ==
  ASSUME SyncInv, NEW c \in Queued, TakeEffect(c), Queued' = Queued,
         UNCHANGED payload, TransportInv',
         \A d \in Commands : handled'[d] > 0 => handled[d] > 0 \/ d = c
  PROVE  SyncInv'
<1>1. c \in Nat \ {0} /\ newest \in Nat /\ Commands \subseteq Nat \ {0}
  BY CommandsAreNumbered DEF SyncInv, Queued
<1>2. newest' \in Queued' \cup {0} /\ newest <= newest' /\ c <= newest'
  BY <1>1 DEF SyncInv, TakeEffect
<1>3. \A d \in Commands : handled'[d] > 0 => d <= newest'
  BY <1>1, <1>2 DEF SyncInv, TakeEffect
<1>4. NodeFollowsNewest'
  <2> SUFFICES ASSUME ~late'
               PROVE  nodeDev' = IF newest' = 0 THEN 0 ELSE payload'[newest']
    BY DEF NodeFollowsNewest
  <2>1. ~(c < newest)
    BY DEF TakeEffect
  <2>2. newest' = c
    BY <1>1, <2>1 DEF TakeEffect
  <2> QED BY <1>1, <2>2 DEF TakeEffect
<1> QED BY <1>2, <1>3, <1>4 DEF SyncInv

\* Every request, worker, handler and step of the node keeps the node behind the
\* newest command that took effect.
LEMMA NextSync ==
  ASSUME SyncInv, [SyncNext]_syncVars
  PROVE  SyncInv'
<1> USE DEF deviceVars
<1>0. TransportInv /\ ChannelTypeOK
  BY DEF SyncInv, TransportInv, ChannelInv
<1>1. TransportInv'
  BY <1>0, SyncUsesTheChannel, NextTransport
<1>2. ASSUME Queued' = Queued, UNCHANGED <<handled, payload, effectVars>>
      PROVE  SyncInv'
  BY <1>1, <1>2 DEF SyncInv, NodeFollowsNewest, effectVars
<1>3. CASE \/ Select \/ ProvisionFails \/ Unblock \/ RebindCommit \/ RebindRevokeFails
           \/ UNCHANGED syncVars
  BY Zenon, <1>2, <1>3 DEF Select, ProvisionFails, Unblock, RebindCommit, RebindRevokeFails,
                    syncVars, channelVars, tableVars, nodeVars, Queued
<1>4. ASSUME NEW c \in Commands, Provision(c) \/ Block(c) \/ RebindRevoke(c)
      PROVE  SyncInv'
  BY <1>1, <1>4, InsertKeepsNewest
     DEF Provision, Block, RebindRevoke, Queue, Enqueue, nodeVars
<1>5. ASSUME NEW h \in Handlers, QueueResync(h)
      PROVE  SyncInv'
  <2>1. UNCHANGED <<handled, effectVars>>
    BY <1>5 DEF QueueResync, EndResync, nodeVars
  <2>2. CASE UNCHANGED <<status, payload>>
    BY <1>2, <2>1, <2>2 DEF Queued
  <2>3. ASSUME NEW c \in Commands, InsertRow(c),
               payload' = [payload EXCEPT ![c] = resync[h]]
        PROVE  SyncInv'
    BY <1>1, <2>1, <2>3, InsertKeepsNewest
  <2> QED BY <1>5, <2>2, <2>3 DEF QueueResync
<1>6. ASSUME Transport, UNCHANGED <<handled, payload, effectVars>>
      PROVE  SyncInv'
  BY <1>0, <1>2, <1>6, TransportInsertsNothing
<1>7. ASSUME NEW h \in Handlers, AdmitAndRead(h)
      PROVE  SyncInv'
  BY Zenon, <1>6, <1>7 DEF AdmitAndRead, Connect, nodeVars, Transport
<1>8. CASE SyncCrash
  BY <1>6, <1>8 DEF SyncCrash, ControllerRestart, nodeVars, Transport
<1>9. ASSUME NEW c \in Commands, Apply(c)
      PROVE  SyncInv'
  <2>1. c \in Queued /\ Queued' = Queued
    <3>1. Transport
      BY <1>9 DEF Apply, Transport, NodeStep
    <3> QED BY Zenon, <1>0, <1>9, <3>1, ReceivedIsQueued, TransportInsertsNothing
            DEF Apply, NodeApply
  <2>2. \A d \in Commands : handled'[d] > 0 => handled[d] > 0 \/ d = c
    BY <1>0, <1>9 DEF Apply, NodeApply, ChannelTypeOK
  <2> QED BY Zenon, <1>1, <1>9, <2>1, <2>2, EffectKeepsNewest DEF Apply
<1>10. ASSUME NEW c \in Commands, Fail(c)
       PROVE  SyncInv'
  <2>1. c \in Queued /\ Queued' = Queued
    <3>1. Transport
      BY <1>10 DEF Fail, Transport, NodeStep
    <3> QED BY <1>0, <1>10, <3>1, ReceivedIsQueued, TransportInsertsNothing
            DEF Fail, NodeReject
  <2>2. UNCHANGED <<handled, payload>>
    BY <1>10 DEF Fail, NodeReject
  <2>3. CASE TakeEffect(c)
    BY <1>1, <2>1, <2>2, <2>3, EffectKeepsNewest
  <2>4. CASE UNCHANGED effectVars
    BY <1>2, <2>1, <2>2, <2>4
  <2> QED BY <1>10, <2>3, <2>4 DEF Fail
<1>11. ASSUME UNCHANGED <<deviceVars, effectVars>>,
              \/ \E c \in Commands : BackoffElapses(c) \/ DeadlinePasses(c) \/ NodeDuplicate(c)
              \/ \E h \in Handlers : Deliver(h) \/ ReadLoop(h)
              \/ Drop \/ NodeRestart
       PROVE  SyncInv'
  <2>1. Transport
    BY <1>11 DEF Transport, NodeStep
  <2>2. UNCHANGED handled
    BY Zenon, <1>11 DEF BackoffElapses, DeadlinePasses, NodeDuplicate, Deliver,
          DeliverQuery, DeliverWrite, DeliverAbort, DeliverMark, DeliverFinish,
          ReadLoop, HubReply, HubEffects, Drop, NodeRestart, nodeVars
  <2> QED BY <1>6, <1>11, <2>1, <2>2
<1> QED
  BY <1>3, <1>4, <1>5, <1>7, <1>8, <1>9, <1>10, <1>11 DEF SyncNext

\* When the last command queued for a device is acknowledged, the node accepts
\* exactly what that command says, unless an older command took effect after a
\* newer one: whatever deliver repeats, the socket loses, handle leaves half done
\* or a restart forgets.
THEOREM LastQueuedCommandWins == SyncSpec => []LastCommandWins
<1>1. SyncInit => SyncInv
  <2> SUFFICES ASSUME SyncInit PROVE SyncInv
    OBVIOUS
  <2>1. TransportInv
    BY InitTransport DEF SyncInit
  <2>2. \A c \in Commands : handled[c] = 0
    BY DEF SyncInit, ChannelInit
  <2> QED BY <2>1, <2>2 DEF SyncInit, SyncInv, NodeFollowsNewest
<1>2. SyncInv /\ [SyncNext]_syncVars => SyncInv'
  BY NextSync
<1>3. SyncInv => LastCommandWins
  <2> SUFFICES ASSUME SyncInv, NEW c \in Commands, IsLast(c), status[c] = "acked", ~late
               PROVE  nodeDev = payload[c]
    BY DEF LastCommandWins
  <2>1. handled[c] > 0
    BY DEF SyncInv, TransportInv, ChannelInv, SettledForAReason
  <2>2. c <= newest /\ newest \in Queued \cup {0}
    BY <2>1 DEF SyncInv
  <2>3. newest = c
    <3>1. c \in Nat \ {0} /\ newest \in Nat
      BY <2>2, CommandsAreNumbered DEF Queued
    <3>2. newest \in Queued
      BY <2>2, <3>1
    <3>3. ~(newest > c)
      BY <3>2 DEF IsLast, Queued
    <3> QED BY <2>2, <3>1, <3>3
  <2> QED BY <2>3, CommandsAreNumbered DEF SyncInv, NodeFollowsNewest
<1> QED BY <1>1, <1>2, <1>3, PTL DEF SyncSpec

=============================================================================
