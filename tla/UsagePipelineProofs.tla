------------------------- MODULE UsagePipelineProofs -------------------------
(***************************************************************************)
(* Theorems about the usage pipeline, for any devices, connections, limits *)
(* and bounds.                                                             *)
(***************************************************************************)
EXTENDS UsagePipeline, SequenceTheorems, WellFoundedInduction, TLAPS

\* The part of the type invariant that the accounting of events rests on.
AccountingType ==
  /\ conn \in Conns \cup {0}
  /\ live => conn \in Conns
  /\ up \in [Conns -> Seq(SUBSET EventIds)]
  /\ acking \in [Conns -> SUBSET EventIds]
  /\ acks \in Seq(SUBSET EventIds)
  /\ recorded \in SUBSET EventIds
  /\ charges \in [EventIds -> Nat]

\* The hub acknowledges, and has acknowledged, only what it has committed.
AcksAreCommitted ==
  /\ \A n \in Conns : acking[n] \subseteq recorded
  /\ \A i \in 1..Len(acks) : acks[i] \subseteq recorded

AccountingInv ==
  /\ AccountingType
  /\ AcksAreCommitted
  /\ ChargedOnce
  /\ SentIsRecorded

-----------------------------------------------------------------------------

LEMMA InitAccounting == Init => AccountingInv
<1> SUFFICES ASSUME Init PROVE AccountingInv
  OBVIOUS
<1>1. <<>> \in Seq(SUBSET EventIds) /\ Len(<<>>) = 0
  BY EmptySeq
<1>2. AccountingType
  BY <1>1 DEF Init, AccountingType
<1>3. AcksAreCommitted
  BY <1>1 DEF Init, AcksAreCommitted
<1>4. ChargedOnce /\ SentIsRecorded
  BY DEF Init, ChargedOnce, SentIsRecorded
<1> QED BY <1>2, <1>3, <1>4 DEF AccountingInv

\* Recording more events keeps what the node and the acks rely on.
LEMMA RecordingIsMonotone ==
  ASSUME AccountingInv, recorded \subseteq recorded', UNCHANGED <<acks, sent>>
  PROVE  /\ \A i \in 1..Len(acks') : acks'[i] \subseteq recorded'
         /\ SentIsRecorded'
BY DEF AccountingInv, AcksAreCommitted, SentIsRecorded

\* A prefix of a sequence is a sequence over the same set.
LEMMA PrefixIsSeq ==
  ASSUME NEW S, NEW s \in Seq(S), NEW k \in 0..Len(s)
  PROVE  SubSeq(s, 1, k) \in Seq(S)
<1>1. Len(s) \in Nat /\ \A i \in 1..Len(s) : s[i] \in S
  BY LenProperties, ElementOfSeq
<1>2. k \in Int /\ \A i \in 1..k : s[i] \in S
  BY <1>1
<1> QED BY <1>2, SubSeqProperties

\* Every action keeps the accounting of events.
LEMMA NextAccounting ==
  ASSUME AccountingInv, [Next]_vars
  PROVE  AccountingInv'
<1>0. AccountingType /\ AcksAreCommitted /\ ChargedOnce /\ SentIsRecorded
  BY DEF AccountingInv
<1> USE DEF nodeVars, wireVars, hubVars
<1> DEFINE Accounts == <<conn, live, up, acking, acks, recorded, charges, sent>>
<1>1. ASSUME UNCHANGED Accounts
      PROVE  AccountingInv'
  BY <1>1, <1>0 DEF AccountingInv, AccountingType, AcksAreCommitted, ChargedOnce, SentIsRecorded
<1>2. ASSUME NEW d \in Devices, Transfer(d) \/ AddUsage(d) \/ KickSettles(d)
      PROVE  AccountingInv'
  BY <1>1, <1>2 DEF Transfer, AddUsage, KickSettles
<1>3. CASE Fetch \/ CollectorFails \/ Renew
  BY <1>1, <1>3 DEF Fetch, CollectorFails, Renew
<1>4. CASE Dial
  BY <1>0, <1>4 DEF Dial, AccountingInv, AccountingType, AcksAreCommitted, ChargedOnce, SentIsRecorded
<1>5. CASE Drop
  <2>1. conn \in Conns
    BY <1>0, <1>5 DEF Drop, AccountingType
  <2>2. PICK k \in 0..Len(up[conn]) : up' = [up EXCEPT ![conn] = SubSeq(up[conn], 1, k)]
    BY <1>5 DEF Drop
  <2>3. SubSeq(up[conn], 1, k) \in Seq(SUBSET EventIds)
    BY <1>0, <2>1, PrefixIsSeq DEF AccountingType
  <2>4. acks' \in Seq(SUBSET EventIds) /\ Len(acks') = 0
    BY <1>5, EmptySeq DEF Drop
  <2>5. AccountingType'
    BY <1>0, <1>5, <2>1, <2>2, <2>3, <2>4 DEF Drop, AccountingType
  <2>6. AcksAreCommitted'
    BY <1>0, <1>5, <2>4 DEF Drop, AcksAreCommitted
  <2>7. ChargedOnce' /\ SentIsRecorded'
    BY <1>0, <1>5 DEF Drop, ChargedOnce, SentIsRecorded
  <2> QED BY <2>5, <2>6, <2>7 DEF AccountingInv
<1>6. CASE SendBatch
  <2>1. conn \in Conns
    BY <1>0, <1>6 DEF SendBatch, AccountingType
  <2>2. PendingUsage \in SUBSET EventIds
    BY DEF PendingUsage
  <2>3. Append(up[conn], PendingUsage) \in Seq(SUBSET EventIds)
    BY <1>0, <2>1, <2>2, AppendProperties DEF AccountingType
  <2>4. AccountingType'
    BY <1>0, <1>6, <2>1, <2>3 DEF SendBatch, AccountingType
  <2>5. AcksAreCommitted' /\ ChargedOnce' /\ SentIsRecorded'
    BY <1>0, <1>6 DEF SendBatch, AcksAreCommitted, ChargedOnce, SentIsRecorded
  <2> QED BY <2>4, <2>5 DEF AccountingInv
<1>7. ASSUME NEW n \in Conns, HubUsage(n)
      PROVE  AccountingInv'
  <2> DEFINE batch == Head(up[n])
             fresh == batch \ recorded
  <2>1. batch \in SUBSET EventIds /\ Tail(up[n]) \in Seq(SUBSET EventIds)
    BY <1>0, <1>7, HeadTailProperties DEF HubUsage, AccountingType
  <2>2. up' \in [Conns -> Seq(SUBSET EventIds)]
    BY <1>0, <1>7, <2>1 DEF HubUsage, AccountingType
  <2>3. CASE \E e \in batch : events[e].dev \in Local
    BY <1>0, <1>7, <2>2, <2>3
    DEF HubUsage, AccountingInv, AccountingType, AcksAreCommitted, ChargedOnce, SentIsRecorded
  <2>4. CASE ~ \E e \in batch : events[e].dev \in Local
    <3>1. /\ recorded' = recorded \cup fresh
          /\ charges' = [e \in EventIds |-> IF e \in fresh THEN charges[e] + 1 ELSE charges[e]]
          /\ acking' = [acking EXCEPT ![n] = batch]
          /\ UNCHANGED <<conn, live, acks, sent>>
      BY <1>7, <2>4 DEF HubUsage, Charge
    <3> HIDE DEF batch, fresh
    <3>2. recorded' = recorded \cup batch
      BY <3>1 DEF fresh
    <3>3. AccountingType'
      BY <1>0, <2>1, <2>2, <3>1, <3>2 DEF AccountingType
    <3>4. \A m \in Conns : acking'[m] \subseteq recorded'
      BY <1>0, <3>1, <3>2 DEF AccountingType, AcksAreCommitted
    <3>5. ChargedOnce'
      BY <1>0, <3>1 DEF ChargedOnce, AccountingType, fresh
    <3> QED BY <3>1, <3>3, <3>4, <3>5, RecordingIsMonotone DEF AccountingInv, AcksAreCommitted
  <2> QED BY <2>3, <2>4
<1>8. ASSUME NEW n \in Conns, HubAck(n)
      PROVE  AccountingInv'
  <2>1. acking[n] \in SUBSET EventIds /\ acking[n] \subseteq recorded
    BY <1>0 DEF AccountingType, AcksAreCommitted
  <2>2. /\ Append(acks, acking[n]) \in Seq(SUBSET EventIds)
        /\ Len(Append(acks, acking[n])) = Len(acks) + 1
        /\ \A i \in 1..Len(acks) : Append(acks, acking[n])[i] = acks[i]
        /\ Append(acks, acking[n])[Len(acks) + 1] = acking[n]
    BY <1>0, <2>1, AppendProperties DEF AccountingType
  <2>3. Len(acks) \in Nat
    BY <1>0, LenProperties DEF AccountingType
  <2>4. acks' = acks \/ acks' = Append(acks, acking[n])
    BY <1>8 DEF HubAck
  <2>5. AccountingType'
    BY <1>0, <1>8, <2>2, <2>4 DEF HubAck, AccountingType
  <2>6. \A i \in 1..Len(acks') : acks'[i] \subseteq recorded
    <3>1. CASE acks' = acks
      BY <1>0, <3>1 DEF AcksAreCommitted
    <3>2. CASE acks' = Append(acks, acking[n])
      <4> SUFFICES ASSUME NEW i \in 1..(Len(acks) + 1)
                   PROVE  Append(acks, acking[n])[i] \subseteq recorded
        BY <2>2, <3>2
      <4>1. CASE i = Len(acks) + 1
        BY <2>1, <2>2, <4>1
      <4>2. CASE i # Len(acks) + 1
        <5>1. i \in 1..Len(acks)
          BY <2>3, <4>2
        <5> QED BY <1>0, <2>2, <5>1 DEF AcksAreCommitted
      <4> QED BY <4>1, <4>2
    <3> QED BY <2>4, <3>1, <3>2
  <2>7. AcksAreCommitted'
    BY <1>0, <1>8, <2>6 DEF HubAck, AcksAreCommitted, AccountingType
  <2>8. ChargedOnce' /\ SentIsRecorded'
    BY <1>0, <1>8 DEF HubAck, ChargedOnce, SentIsRecorded
  <2> QED BY <2>5, <2>7, <2>8 DEF AccountingInv
<1>9. CASE MarkUsageSent
  <2>1. acks \in Seq(SUBSET EventIds) /\ acks # <<>>
    BY <1>0, <1>9 DEF MarkUsageSent, AccountingType
  <2>2. /\ Tail(acks) \in Seq(SUBSET EventIds)
        /\ Len(Tail(acks)) = Len(acks) - 1
        /\ \A i \in 1..Len(Tail(acks)) : Tail(acks)[i] = acks[i + 1]
    BY <2>1, HeadTailProperties
  <2>3. Len(acks) \in Nat /\ Len(acks) # 0 /\ Head(acks) = acks[1]
    BY <2>1, EmptySeq
  <2>4. AccountingType'
    BY <1>0, <1>9, <2>2 DEF MarkUsageSent, AccountingType
  <2>5. \A i \in 1..Len(acks') : acks'[i] \subseteq recorded
    BY <1>0, <1>9, <2>2, <2>3 DEF MarkUsageSent, AcksAreCommitted
  <2>6. AcksAreCommitted'
    BY <1>0, <1>9, <2>5 DEF MarkUsageSent, AcksAreCommitted
  <2>7. SentIsRecorded'
    BY <1>0, <1>9, <2>3 DEF MarkUsageSent, SentIsRecorded, AcksAreCommitted
  <2>8. ChargedOnce'
    BY <1>0, <1>9 DEF MarkUsageSent, ChargedOnce
  <2> QED BY <2>4, <2>6, <2>7, <2>8 DEF AccountingInv
<1>10. CASE ControllerRestart
  <2>1. <<>> \in Seq(SUBSET EventIds) /\ Len(<<>>) = 0
    BY EmptySeq
  <2>2. AccountingType'
    BY <1>0, <1>10, <2>1 DEF ControllerRestart, AccountingType
  <2>3. AcksAreCommitted'
    BY <1>0, <1>10, <2>1 DEF ControllerRestart, AcksAreCommitted
  <2>4. ChargedOnce' /\ SentIsRecorded'
    BY <1>0, <1>10 DEF ControllerRestart, ChargedOnce, SentIsRecorded
  <2> QED BY <2>2, <2>3, <2>4 DEF AccountingInv
<1>11. CASE UNCHANGED vars
  BY <1>1, <1>11 DEF vars
<1> QED
  BY <1>2, <1>3, <1>4, <1>5, <1>6, <1>7, <1>8, <1>9, <1>10, <1>11 DEF Next

LEMMA AccountingInvariant == Spec => []AccountingInv
<1>1. Init => AccountingInv
  BY InitAccounting
<1>2. AccountingInv /\ [Next]_vars => AccountingInv'
  BY NextAccounting
<1> QED BY <1>1, <1>2, PTL DEF Spec

\* An event is charged to the subscription exactly once, when the controller
\* records it, whatever is sent again, lost or interrupted (NodeHub.usage).
THEOREM UsageIsChargedOnce == Spec => []ChargedOnce
<1>1. AccountingInv => ChargedOnce
  BY DEF AccountingInv
<1> QED BY <1>1, AccountingInvariant, PTL

\* The node stops sending an event only once the controller has recorded it: no
\* stored event is lost between the two databases (usage.ack, MarkUsageSent).
THEOREM SentUsageIsRecorded == Spec => []SentIsRecorded
<1>1. AccountingInv => SentIsRecorded
  BY DEF AccountingInv
<1> QED BY <1>1, AccountingInvariant, PTL

-----------------------------------------------------------------------------
(* Sums.  The steps of a sum are a recursive function; that it exists, and *)
(* every fact about it, is shown with the smallest place that refutes it.  *)

Weights == [EventIds -> Nat]

\* f adds up w place by place.
AddsUp(f, w) ==
  f = [n \in 0..MaxEvents |-> IF n = 0 THEN 0 ELSE f[n - 1] + w[n]]

\* Of the places where a set of them is not empty there is a first one.
LEMMA FirstPlace ==
  ASSUME NEW S \in SUBSET Nat, S # {}
  PROVE  \E m \in S : \A n \in S : m <= n
<1> DEFINE R == OpToRel(<, Nat)
<1>1. IsWellFoundedOn(R, Nat)
  BY NatLessThanWellFounded
<1>2. \E x \in S : \A y \in S : ~(<<y, x>> \in R)
  <2> HIDE DEF R
  <2> QED BY <1>1, WFMin
<1>3. \A x, y \in Nat : y < x => <<y, x>> \in R
  BY DEF OpToRel
<1>4. PICK x \in S : \A y \in S : ~(<<y, x>> \in R)
  BY <1>2
<1>5. \A y \in S : ~(y < x)
  BY <1>3, <1>4
<1> QED BY <1>5

\* The sums of the first places exist, however many places there are.
LEMMA SumsExist ==
  ASSUME NEW w \in Weights
  PROVE  \E f : AddsUp(f, w)
<1> DEFINE Upto(f, k) == f = [n \in 0..k |-> IF n = 0 THEN 0 ELSE f[n - 1] + w[n]]
           Bad == {k \in 0..MaxEvents : ~ \E f : Upto(f, k)}
<1>0. MaxEvents \in Nat
  BY UsageBoundsAreNaturals
<1>1. CASE Bad = {}
  <2>1. MaxEvents \in 0..MaxEvents
    BY <1>0
  <2>2. \E f : Upto(f, MaxEvents)
    BY <1>1, <2>1
  <2> QED BY <2>2 DEF AddsUp
<1>2. CASE Bad # {}
  <2>1. PICK k \in Bad : \A m \in Bad : k <= m
    <3>1. Bad \in SUBSET Nat
      BY <1>0
    <3> HIDE DEF Bad
    <3> QED BY <1>2, <3>1, FirstPlace
  <2>2. k # 0
    <3>1. Upto([n \in 0..0 |-> 0], 0)
      OBVIOUS
    <3> QED BY <3>1
  <2>3. k - 1 \in 0..MaxEvents /\ ~(k <= k - 1) /\ k \in Nat
    BY <1>0, <2>2
  <2>4. PICK f : Upto(f, k - 1)
    BY <2>1, <2>3
  <2> DEFINE g == [n \in 0..k |-> IF n = k THEN f[k - 1] + w[k] ELSE f[n]]
  <2>5. Upto(g, k)
    <3>1. ASSUME NEW n \in 0..k
          PROVE  g[n] = IF n = 0 THEN 0 ELSE g[n - 1] + w[n]
      <4>1. CASE n = k
        <5>1. k - 1 \in 0..k /\ k - 1 # k
          BY <2>2, <2>3
        <5>2. g[k - 1] = f[k - 1]
          BY <5>1
        <5> QED BY <2>2, <4>1, <5>2
      <4>2. CASE n # k
        <5>1. n \in 0..(k - 1)
          BY <2>3, <4>2
        <5>2. f[n] = IF n = 0 THEN 0 ELSE f[n - 1] + w[n]
          BY <2>4, <5>1
        <5>3. n # 0 => n - 1 \in 0..k /\ n - 1 # k
          BY <2>3, <5>1
        <5> QED BY <4>2, <5>2, <5>3
      <4> QED BY <4>1, <4>2
    <3> HIDE DEF g
    <3>2. g = [n \in 0..k |-> g[n]]
      BY DEF g
    <3> QED BY <3>1, <3>2
  <2> QED BY <2>5
<1> QED BY <1>1, <1>2

\* Total is the last of the sums.
LEMMA TotalIsTheLastSum ==
  ASSUME NEW w \in Weights
  PROVE  \E f : AddsUp(f, w) /\ Total(w) = f[MaxEvents]
<1> DEFINE f == CHOOSE g : AddsUp(g, w)
<1>1. AddsUp(f, w)
  BY SumsExist
<1>2. Total(w) = f[MaxEvents]
  BY DEF Total, AddsUp
<1> QED BY <1>1, <1>2

\* The steps of a sum, which are natural numbers.
LEMMA SumSteps ==
  ASSUME NEW w \in Weights, NEW f, AddsUp(f, w)
  PROVE  /\ f[0] = 0
         /\ \A n \in 1..MaxEvents : f[n] = f[n - 1] + w[n]
         /\ \A n \in 0..MaxEvents : f[n] \in Nat
<1>0. MaxEvents \in Nat
  BY UsageBoundsAreNaturals
<1>1. \A n \in 0..MaxEvents : f[n] = IF n = 0 THEN 0 ELSE f[n - 1] + w[n]
  BY DEF AddsUp
<1>2. f[0] = 0
  BY <1>0, <1>1
<1>3. \A n \in 1..MaxEvents : f[n] = f[n - 1] + w[n]
  BY <1>0, <1>1
<1> DEFINE Bad == {n \in 0..MaxEvents : f[n] \notin Nat}
<1>4. ASSUME Bad # {} PROVE FALSE
  <2>1. PICK k \in Bad : \A m \in Bad : k <= m
    <3>1. Bad \in SUBSET Nat
      BY <1>0
    <3> HIDE DEF Bad
    <3> QED BY <1>4, <3>1, FirstPlace
  <2>2. k \in 1..MaxEvents /\ k - 1 \in 0..MaxEvents /\ ~(k <= k - 1)
    BY <1>0, <1>2
  <2>3. f[k - 1] \in Nat /\ w[k] \in Nat
    BY <2>1, <2>2 DEF Weights, EventIds
  <2> QED BY <1>3, <2>2, <2>3
<1> QED BY <1>2, <1>3, <1>4

LEMMA TotalIsNatural == \A w \in Weights : Total(w) \in Nat
<1> SUFFICES ASSUME NEW w \in Weights PROVE Total(w) \in Nat
  OBVIOUS
<1>1. PICK f : AddsUp(f, w) /\ Total(w) = f[MaxEvents]
  BY TotalIsTheLastSum
<1>2. MaxEvents \in 0..MaxEvents
  BY UsageBoundsAreNaturals
<1> QED BY <1>1, <1>2, SumSteps

\* Adding up the events of two loops is adding up both at once.
LEMMA TotalsAdd ==
  ASSUME NEW u \in Weights, NEW v \in Weights, NEW w \in Weights,
         \A e \in EventIds : w[e] = u[e] + v[e]
  PROVE  Total(w) = Total(u) + Total(v)
<1>0. MaxEvents \in Nat
  BY UsageBoundsAreNaturals
<1>1. PICK f : AddsUp(f, u) /\ Total(u) = f[MaxEvents]
  BY TotalIsTheLastSum
<1>2. PICK g : AddsUp(g, v) /\ Total(v) = g[MaxEvents]
  BY TotalIsTheLastSum
<1>3. PICK h : AddsUp(h, w) /\ Total(w) = h[MaxEvents]
  BY TotalIsTheLastSum
<1>4. /\ f[0] = 0 /\ g[0] = 0 /\ h[0] = 0
      /\ \A n \in 1..MaxEvents : /\ f[n] = f[n - 1] + u[n]
                                 /\ g[n] = g[n - 1] + v[n]
                                 /\ h[n] = h[n - 1] + w[n]
      /\ \A n \in 0..MaxEvents : f[n] \in Nat /\ g[n] \in Nat /\ h[n] \in Nat
  BY <1>1, <1>2, <1>3, SumSteps
<1> DEFINE Bad == {n \in 0..MaxEvents : h[n] # f[n] + g[n]}
<1>5. ASSUME Bad # {} PROVE FALSE
  <2>1. PICK k \in Bad : \A m \in Bad : k <= m
    <3>1. Bad \in SUBSET Nat
      BY <1>0
    <3> HIDE DEF Bad
    <3> QED BY <1>5, <3>1, FirstPlace
  <2>2. k \in 1..MaxEvents /\ k - 1 \in 0..MaxEvents /\ ~(k <= k - 1)
    BY <1>0, <1>4
  <2>3. h[k - 1] = f[k - 1] + g[k - 1]
    BY <2>1, <2>2
  <2>4. w[k] = u[k] + v[k] /\ u[k] \in Nat /\ v[k] \in Nat
    BY <2>2 DEF Weights, EventIds
  <2>5. h[k] = f[k] + g[k]
    BY <1>4, <2>2, <2>3, <2>4
  <2> QED BY <2>1, <2>5
<1>6. MaxEvents \in 0..MaxEvents
  BY <1>0
<1> QED BY <1>1, <1>2, <1>3, <1>5, <1>6

\* A loop over a single event, or over none, adds what that event counts.
LEMMA TotalOfOne ==
  ASSUME NEW w \in Weights, NEW i \in EventIds,
         \A e \in EventIds \ {i} : w[e] = 0
  PROVE  Total(w) = w[i]
<1>0. MaxEvents \in Nat
  BY UsageBoundsAreNaturals
<1>1. PICK f : AddsUp(f, w) /\ Total(w) = f[MaxEvents]
  BY TotalIsTheLastSum
<1>2. /\ f[0] = 0
      /\ \A n \in 1..MaxEvents : f[n] = f[n - 1] + w[n]
      /\ \A n \in 0..MaxEvents : f[n] \in Nat
  BY <1>1, SumSteps
<1> DEFINE Bad == {n \in 0..MaxEvents : f[n] # IF n < i THEN 0 ELSE w[i]}
<1>3. i \in 1..MaxEvents /\ w[i] \in Nat
  BY DEF EventIds, Weights
<1>4. ASSUME Bad # {} PROVE FALSE
  <2>1. PICK k \in Bad : \A m \in Bad : k <= m
    <3>1. Bad \in SUBSET Nat
      BY <1>0
    <3> HIDE DEF Bad
    <3> QED BY <1>4, <3>1, FirstPlace
  <2>2. k \in 1..MaxEvents /\ k - 1 \in 0..MaxEvents /\ ~(k <= k - 1)
    BY <1>0, <1>2, <1>3
  <2>3. f[k - 1] = IF k - 1 < i THEN 0 ELSE w[i]
    BY <2>1, <2>2
  <2>4. k # i => w[k] = 0
    BY <2>2 DEF EventIds
  <2>5. f[k] = IF k < i THEN 0 ELSE w[i]
    <3>1. CASE k < i
      BY <1>0, <1>2, <1>3, <2>2, <2>3, <2>4, <3>1
    <3>2. CASE k = i
      BY <1>0, <1>2, <1>3, <2>2, <2>3, <3>2
    <3>3. CASE k > i
      BY <1>0, <1>2, <1>3, <2>2, <2>3, <2>4, <3>3
    <3> QED BY <1>3, <2>2, <3>1, <3>2, <3>3
  <2> QED BY <2>1, <2>5
<1>5. MaxEvents \in 0..MaxEvents /\ ~(MaxEvents < i)
  BY <1>0, <1>3
<1> QED BY <1>1, <1>4, <1>5

\* A loop over nothing adds nothing.
LEMMA TotalOfNothing ==
  ASSUME NEW w \in Weights, \A e \in EventIds : w[e] = 0
  PROVE  Total(w) = 0
<1>1. Total(w) \in Nat
  BY TotalIsNatural
<1>2. Total(w) = Total(w) + Total(w)
  BY TotalsAdd
<1>3. \A t \in Nat : t = t + t => t = 0
  OBVIOUS
<1> QED BY Zenon, <1>1, <1>2, <1>3

-----------------------------------------------------------------------------
(* The bytes of a set of events, ev being the node's table. *)

BytesIn(ev, E) == Total([e \in EventIds |-> IF e \in E THEN ev[e].bytes ELSE 0])

Table == {ev \in Seq(Event) : Len(ev) <= MaxEvents}

\* The events of a table are the first ids, and each counts a natural number.
LEMMA BytesAreWeights ==
  ASSUME NEW ev \in Table, NEW E \in SUBSET (1..Len(ev))
  PROVE  /\ [e \in EventIds |-> IF e \in E THEN ev[e].bytes ELSE 0] \in Weights
         /\ 1..Len(ev) \subseteq EventIds
         /\ \A e \in 1..Len(ev) : ev[e].bytes \in Nat
<1>1. ev \in Seq(Event) /\ Len(ev) \in Nat /\ Len(ev) <= MaxEvents /\ MaxEvents \in Nat
  BY LenProperties, UsageBoundsAreNaturals DEF Table
<1>2. 1..Len(ev) \subseteq EventIds
  BY <1>1 DEF EventIds
<1>3. \A e \in 1..Len(ev) : ev[e] \in Event
  BY <1>1, ElementOfSeq
<1>4. \A e \in 1..Len(ev) : ev[e].bytes \in Nat
  BY <1>3 DEF Event
<1> QED BY <1>2, <1>4 DEF Weights

LEMMA BytesAreNatural ==
  ASSUME NEW ev \in Table, NEW E \in SUBSET (1..Len(ev))
  PROVE  BytesIn(ev, E) \in Nat
BY BytesAreWeights, TotalIsNatural DEF BytesIn

LEMMA BytesOfNothing ==
  ASSUME NEW ev
  PROVE  BytesIn(ev, {}) = 0
<1> DEFINE w == [e \in EventIds |-> IF e \in {} THEN ev[e].bytes ELSE 0]
<1>1. w \in Weights /\ \A e \in EventIds : w[e] = 0
  BY DEF Weights
<1>2. Total(w) = 0
  <2> HIDE DEF w
  <2> QED BY <1>1, TotalOfNothing
<1> QED BY <1>2 DEF BytesIn

LEMMA BytesAdd ==
  ASSUME NEW ev \in Table, NEW E \in SUBSET (1..Len(ev)), NEW F \in SUBSET (1..Len(ev)),
         E \cap F = {}
  PROVE  BytesIn(ev, E \cup F) = BytesIn(ev, E) + BytesIn(ev, F)
<1> DEFINE W(G) == [e \in EventIds |-> IF e \in G THEN ev[e].bytes ELSE 0]
<1>1. W(E) \in Weights /\ W(F) \in Weights /\ W(E \cup F) \in Weights
  BY BytesAreWeights
<1>2. \A e \in 1..Len(ev) : ev[e].bytes \in Nat
  BY BytesAreWeights
<1>3. \A e \in EventIds : W(E \cup F)[e] = W(E)[e] + W(F)[e]
  <2> TAKE e \in EventIds
  <2>1. CASE e \in E
    BY <1>2, <2>1
  <2>2. CASE e \in F
    BY <1>2, <2>2
  <2>3. CASE e \notin E \cup F
    BY <2>3
  <2> QED BY <2>1, <2>2, <2>3
<1>4. Total(W(E \cup F)) = Total(W(E)) + Total(W(F))
  <2> HIDE DEF W
  <2> QED BY <1>1, <1>3, TotalsAdd
<1> QED BY <1>4 DEF BytesIn

LEMMA BytesOfOne ==
  ASSUME NEW ev \in Table, NEW i \in 1..Len(ev)
  PROVE  BytesIn(ev, {i}) = ev[i].bytes
<1> DEFINE w == [e \in EventIds |-> IF e \in {i} THEN ev[e].bytes ELSE 0]
<1>1. w \in Weights /\ i \in EventIds
  BY BytesAreWeights
<1>2. w[i] = ev[i].bytes /\ \A e \in EventIds \ {i} : w[e] = 0
  BY <1>1
<1>3. Total(w) = w[i]
  <2> HIDE DEF w
  <2> QED BY <1>1, <1>2, TotalOfOne
<1> QED BY <1>2, <1>3 DEF BytesIn

\* A new event leaves the sums over the older ones alone, and adds its bytes to
\* those it is in.
LEMMA BytesAfterAppend ==
  ASSUME NEW ev \in Table, NEW x \in Event, Len(ev) < MaxEvents,
         NEW E \in SUBSET (1..Len(ev))
  PROVE  /\ Append(ev, x) \in Table
         /\ BytesIn(Append(ev, x), E) = BytesIn(ev, E)
         /\ BytesIn(Append(ev, x), E \cup {Len(ev) + 1}) = BytesIn(ev, E) + x.bytes
<1> DEFINE more == Append(ev, x)
           i == Len(ev) + 1
<1>1. ev \in Seq(Event) /\ Len(ev) \in Nat /\ MaxEvents \in Nat
  BY LenProperties, UsageBoundsAreNaturals DEF Table
<1>2. /\ more \in Seq(Event) /\ Len(more) = i
      /\ \A e \in 1..Len(ev) : more[e] = ev[e]
      /\ more[i] = x
  BY <1>1, AppendProperties
<1> HIDE DEF more
<1>3. more \in Table
  BY <1>1, <1>2 DEF Table
<1>4. BytesIn(more, E) = BytesIn(ev, E)
  <2>1. [e \in EventIds |-> IF e \in E THEN more[e].bytes ELSE 0]
          = [e \in EventIds |-> IF e \in E THEN ev[e].bytes ELSE 0]
    BY <1>2
  <2> QED BY <2>1 DEF BytesIn
<1>5. i \in 1..Len(more) /\ E \in SUBSET (1..Len(more)) /\ E \cap {i} = {}
  BY <1>1, <1>2
<1>6. BytesIn(more, E \cup {i}) = BytesIn(more, E) + BytesIn(more, {i})
  BY <1>3, <1>5, BytesAdd
<1>7. BytesIn(more, {i}) = x.bytes
  BY <1>2, <1>3, <1>5, BytesOfOne
<1> QED BY <1>3, <1>4, <1>6, <1>7 DEF more

\* A set of events that is not empty has a last one.
LEMMA LastEvent ==
  ASSUME NEW E \in SUBSET EventIds, E # {}
  PROVE  \E f \in E : {g \in E : g <= f} = E
<1> DEFINE Above == {n \in Nat : \A g \in E : g <= n}
<1>0. MaxEvents \in Nat /\ E \subseteq Nat \ {0}
  BY UsageBoundsAreNaturals DEF EventIds
<1>1. MaxEvents \in Above
  BY <1>0 DEF EventIds
<1>2. PICK m \in Above : \A n \in Above : m <= n
  <2>1. Above \in SUBSET Nat /\ Above # {}
    BY <1>1
  <2> HIDE DEF Above
  <2> QED BY <2>1, FirstPlace
<1>3. m \in E
  <2> SUFFICES ASSUME m \notin E PROVE FALSE
    OBVIOUS
  <2>0. PICK h \in E : h \in Nat \ {0} /\ h <= m
    BY <1>0, <1>2
  <2>1. m \in Nat \ {0}
    BY <1>2, <2>0
  <2>2. \A g \in E : g <= m - 1
    BY <1>0, <1>2, <2>1
  <2>3. m - 1 \in Above
    BY <2>1, <2>2
  <2> QED BY <1>2, <2>1, <2>3
<1> QED BY <1>2, <1>3

-----------------------------------------------------------------------------
(* The sums of the pipeline *)

\* Only stored events travel and are recorded, and only recorded ones charged.
SumType ==
  /\ events \in Table
  /\ counter \in [Devices -> Nat] /\ fetched \in [Devices -> Nat]
  /\ carried \in [Devices -> Nat] /\ failures \in Nat
  /\ up \in [Conns -> Seq(SUBSET (1..Len(events)))]
  /\ recorded \in SUBSET (1..Len(events)) /\ charged \in SUBSET recorded

SumInv ==
  /\ AccountingInv
  /\ SumType
  /\ UsedIsTheSum
  /\ ExhaustionIsKicked
  /\ TrafficIsConserved

LEMMA BytesOfEvents == \A E : Bytes(E) = BytesIn(events, E)
BY DEF Bytes, BytesIn

LEMMA BytesOfEventsNext == \A E : BytesIn(events', E) = Bytes(E)'
BY DEF Bytes, BytesIn

\* What the hub does with a batch: all of it or nothing.
LEMMA UsageStep ==
  ASSUME SumInv, NEW n \in Conns, HubUsage(n)
  PROVE  /\ up' = [up EXCEPT ![n] = Tail(up[n])]
         /\ Tail(up[n]) \in Seq(SUBSET (1..Len(events)))
         /\ UNCHANGED nodeVars
         /\ \/ UNCHANGED hubVars
            \/ \E fresh \in SUBSET (1..Len(events)) :
                 fresh \cap recorded = {} /\ Charge(fresh)
<1>1. up[n] \in Seq(SUBSET (1..Len(events))) /\ up[n] # <<>>
  BY DEF SumInv, SumType, HubUsage
<1>2. Head(up[n]) \in SUBSET (1..Len(events)) /\ Tail(up[n]) \in Seq(SUBSET (1..Len(events)))
  BY <1>1, HeadTailProperties
<1>3. UNCHANGED hubVars \/ Charge(Head(up[n]) \ recorded)
  BY DEF HubUsage
<1>4. /\ Head(up[n]) \ recorded \in SUBSET (1..Len(events))
      /\ (Head(up[n]) \ recorded) \cap recorded = {}
  BY <1>2
<1>5. up' = [up EXCEPT ![n] = Tail(up[n])] /\ UNCHANGED nodeVars
  BY DEF HubUsage
<1> QED BY <1>2, <1>3, <1>4, <1>5

LEMMA StoredStaysStored ==
  ASSUME SumInv, NEW d \in Devices, AddUsage(d)
  PROVE  /\ [dev |-> d, bytes |-> fetched[d]] \in Event
         /\ events' = Append(events, [dev |-> d, bytes |-> fetched[d]])
         /\ events' \in Table
         /\ Len(events) \in Nat /\ Len(events') = Len(events) + 1
         /\ 1..Len(events) \subseteq 1..Len(events')
         /\ \A e \in 1..Len(events) : events'[e] = events[e]
         /\ events'[Len(events) + 1].dev = d
<1>1. events \in Table /\ events \in Seq(Event) /\ fetched[d] \in Nat
  BY DEF SumInv, SumType, Table
<1> DEFINE x == [dev |-> d, bytes |-> fetched[d]]
<1>2. x \in Event /\ events' = Append(events, x) /\ Len(events) < MaxEvents
  BY <1>1 DEF AddUsage, Event
<1> HIDE DEF x
<1>3. events' \in Table
  BY <1>1, <1>2, BytesAfterAppend
<1>4. /\ Len(events) \in Nat /\ Len(events') = Len(events) + 1
      /\ \A e \in 1..Len(events) : events'[e] = events[e]
      /\ events'[Len(events) + 1] = x
  BY <1>1, <1>2, LenProperties, AppendProperties
<1>5. 1..Len(events) \subseteq 1..Len(events')
  BY <1>4
<1> QED BY <1>2, <1>3, <1>4, <1>5 DEF x

LEMMA SumTypeStep ==
  ASSUME SumInv, [Next]_vars
  PROVE  SumType'
<1> USE DEF nodeVars, wireVars, hubVars
<1>0. SumType /\ AccountingType
  BY DEF SumInv, AccountingInv
<1>1. ASSUME NEW d \in Devices, Transfer(d) PROVE SumType'
  BY <1>0, <1>1 DEF Transfer, SumType
<1>2. ASSUME NEW d \in Devices, AddUsage(d) PROVE SumType'
  <2>1. events' \in Table /\ 1..Len(events) \subseteq 1..Len(events')
    BY <1>2, StoredStaysStored
  <2>2. fetched' \in [Devices -> Nat]
    BY <1>0, <1>2 DEF AddUsage, SumType
  <2>3. up' \in [Conns -> Seq(SUBSET (1..Len(events')))]
    <3>1. UNCHANGED up
      BY <1>2 DEF AddUsage
    <3>2. ASSUME NEW n \in Conns PROVE up[n] \in Seq(SUBSET (1..Len(events')))
      <4>1. SUBSET (1..Len(events)) \subseteq SUBSET (1..Len(events'))
        BY <2>1
      <4> QED BY <1>0, <4>1, SeqMonotonic DEF SumType
    <3>3. up = [n \in Conns |-> up[n]]
      BY <1>0 DEF SumType
    <3> QED BY <3>1, <3>2, <3>3
  <2>4. recorded' \in SUBSET (1..Len(events')) /\ charged' \in SUBSET recorded'
    BY <1>0, <1>2, <2>1 DEF AddUsage, SumType
  <2> QED BY <1>0, <1>2, <2>1, <2>2, <2>3, <2>4 DEF AddUsage, SumType
<1>3. ASSUME NEW d \in Devices, KickSettles(d) PROVE SumType'
  BY <1>0, <1>3 DEF KickSettles, SumType
<1>4. CASE Fetch
  BY <1>0, <1>4 DEF Fetch, SumType
<1>5. CASE CollectorFails
  BY <1>0, <1>5 DEF CollectorFails, SumType
<1>6. CASE Dial \/ MarkUsageSent
  BY <1>0, <1>6 DEF Dial, MarkUsageSent, SumType
<1>7. CASE Drop
  <2>1. conn \in Conns
    BY <1>0, <1>7 DEF Drop, AccountingType
  <2>2. PICK k \in 0..Len(up[conn]) : up' = [up EXCEPT ![conn] = SubSeq(up[conn], 1, k)]
    BY <1>7 DEF Drop
  <2>3. SubSeq(up[conn], 1, k) \in Seq(SUBSET (1..Len(events)))
    BY <1>0, <2>1, PrefixIsSeq DEF SumType
  <2> QED BY <1>0, <1>7, <2>1, <2>2, <2>3 DEF Drop, SumType
<1>8. CASE SendBatch
  <2>1. conn \in Conns
    BY <1>0, <1>8 DEF SendBatch, AccountingType
  <2>2. PendingUsage \in SUBSET (1..Len(events))
    <3>1. Len(events) \in Nat
      BY <1>0, LenProperties DEF SumType, Table
    <3> QED BY <3>1 DEF PendingUsage, EventIds
  <2>3. Append(up[conn], PendingUsage) \in Seq(SUBSET (1..Len(events)))
    BY <1>0, <2>1, <2>2, AppendProperties DEF SumType
  <2> QED BY <1>0, <1>8, <2>1, <2>3 DEF SendBatch, SumType
<1>9. ASSUME NEW n \in Conns, HubUsage(n) PROVE SumType'
  <2>1. up' \in [Conns -> Seq(SUBSET (1..Len(events)))] /\ UNCHANGED nodeVars
    BY <1>0, <1>9, UsageStep DEF SumType
  <2>2. recorded' \in SUBSET (1..Len(events)) /\ charged' \in SUBSET recorded'
    <3>1. CASE UNCHANGED hubVars
      BY <1>0, <3>1 DEF SumType
    <3>2. ASSUME NEW fresh \in SUBSET (1..Len(events)), Charge(fresh)
          PROVE  recorded' \in SUBSET (1..Len(events)) /\ charged' \in SUBSET recorded'
      BY <1>0, <3>2 DEF SumType, Charge
    <3> QED BY <1>9, <3>1, <3>2, UsageStep
  <2> QED BY <1>0, <2>1, <2>2 DEF SumType
<1>10. ASSUME NEW n \in Conns, HubAck(n) PROVE SumType'
  BY <1>0, <1>10 DEF HubAck, SumType
<1>11. CASE ControllerRestart
  <2>1. <<>> \in Seq(SUBSET (1..Len(events)))
    BY EmptySeq
  <2> QED BY <1>0, <1>11, <2>1 DEF ControllerRestart, SumType
<1>12. CASE Renew
  BY <1>0, <1>12 DEF Renew, SumType
<1>13. CASE UNCHANGED vars
  BY <1>0, <1>13 DEF vars, SumType
<1> QED
  BY <1>1, <1>2, <1>3, <1>4, <1>5, <1>6, <1>7, <1>8, <1>9, <1>10, <1>11, <1>12, <1>13 DEF Next

\* A transaction adds the bytes of what it inserts.
LEMMA ChargeAdds ==
  ASSUME SumInv, NEW fresh \in SUBSET (1..Len(events)), fresh \cap recorded = {},
         Charge(fresh), UNCHANGED nodeVars
  PROVE  UsedIsTheSum' /\ ExhaustionIsKicked'
<1>0. events \in Table /\ charged \in SUBSET (1..Len(events)) /\ charged \cap fresh = {}
  BY DEF SumInv, SumType
<1>1. Bytes(charged \cup fresh) = Bytes(charged) + Bytes(fresh)
  BY <1>0, BytesAdd, BytesOfEvents
<1>2. /\ events' = events /\ charged' = charged \cup fresh
      /\ used' = used + Bytes(fresh)
      /\ kicked' = kicked \cup Exhausting(fresh)
  BY DEF Charge, nodeVars
<1>3. UsedIsTheSum'
  <2>1. Bytes(charged)' = Bytes(charged \cup fresh)
    BY <1>2 DEF Bytes
  <2>2. used = Bytes(charged)
    BY DEF SumInv, UsedIsTheSum
  <2> QED BY <1>1, <1>2, <2>1, <2>2 DEF UsedIsTheSum
<1>4. ASSUME used' >= Quota PROVE kicked' # {}
  <2>1. CASE fresh = {}
    <3>1. Bytes(fresh) = 0
      BY <2>1, BytesOfNothing, BytesOfEvents
    <3>2. used \in Nat
      BY <1>0, BytesAreNatural, BytesOfEvents DEF SumInv, UsedIsTheSum
    <3>3. used >= Quota
      BY <1>2, <1>4, <3>1, <3>2
    <3>4. kicked # {}
      BY <3>3 DEF SumInv, ExhaustionIsKicked
    <3> QED BY <1>2, <3>4
  <2>2. CASE fresh # {}
    <3>1. fresh \in SUBSET EventIds
      BY <1>0, BytesAreWeights
    <3>2. PICK f \in fresh : {g \in fresh : g <= f} = fresh
      BY <2>2, <3>1, LastEvent
    <3>3. used + Bytes({g \in fresh : g <= f}) >= Quota
      BY <1>2, <1>4, <3>2
    <3>4. events[f].dev \in Exhausting(fresh)
      BY <3>3 DEF Exhausting
    <3> QED BY <1>2, <3>4
  <2> QED BY <2>1, <2>2
<1> QED BY <1>3, <1>4 DEF ExhaustionIsKicked

LEMMA UsedStep ==
  ASSUME SumInv, [Next]_vars
  PROVE  UsedIsTheSum' /\ ExhaustionIsKicked'
<1> USE DEF nodeVars, wireVars, hubVars
<1>0. SumType /\ UsedIsTheSum /\ ExhaustionIsKicked
  BY DEF SumInv
<1>1. ASSUME UNCHANGED <<events, used, charged, kicked>>
      PROVE  UsedIsTheSum' /\ ExhaustionIsKicked'
  BY <1>0, <1>1 DEF UsedIsTheSum, ExhaustionIsKicked, Bytes
<1>2. ASSUME NEW d \in Devices, AddUsage(d)
      PROVE  UsedIsTheSum' /\ ExhaustionIsKicked'
  <2> DEFINE x == [dev |-> d, bytes |-> fetched[d]]
  <2>1. x \in Event /\ events' = Append(events, x)
    BY <1>2, StoredStaysStored
  <2>2. /\ events \in Table /\ charged \in SUBSET (1..Len(events)) /\ Len(events) < MaxEvents
        /\ UNCHANGED <<used, charged, kicked>>
    BY <1>0, <1>2 DEF SumType, AddUsage
  <2> HIDE DEF x
  <2>3. BytesIn(events', charged) = BytesIn(events, charged)
    BY <2>1, <2>2, BytesAfterAppend
  <2>4. Bytes(charged)' = Bytes(charged)
    BY <2>2, <2>3, BytesOfEvents DEF Bytes, BytesIn
  <2> QED BY <1>0, <2>2, <2>4 DEF UsedIsTheSum, ExhaustionIsKicked
<1>3. ASSUME NEW n \in Conns, HubUsage(n)
      PROVE  UsedIsTheSum' /\ ExhaustionIsKicked'
  <2>1. CASE UNCHANGED hubVars
    BY <1>1, <1>3, <2>1, UsageStep
  <2>2. ASSUME NEW fresh \in SUBSET (1..Len(events)), fresh \cap recorded = {}, Charge(fresh)
        PROVE  UsedIsTheSum' /\ ExhaustionIsKicked'
    BY <1>3, <2>2, ChargeAdds, UsageStep
  <2> QED BY <1>3, <2>1, <2>2, UsageStep
<1>4. CASE Renew
  <2>1. used' = 0 /\ charged' = {}
    BY <1>4 DEF Renew
  <2>2. Bytes(charged)' = 0
    BY <2>1, BytesOfNothing DEF Bytes, BytesIn
  <2>3. ~(used' >= Quota)
    BY <2>1, UsageBoundsAreNaturals
  <2> QED BY <2>1, <2>2, <2>3 DEF UsedIsTheSum, ExhaustionIsKicked
<1>5. ASSUME NEW d \in Devices, Transfer(d) \/ KickSettles(d)
      PROVE  UsedIsTheSum' /\ ExhaustionIsKicked'
  BY <1>1, <1>5 DEF Transfer, KickSettles
<1>6. CASE Fetch \/ CollectorFails \/ Dial \/ Drop \/ SendBatch \/ MarkUsageSent
  BY <1>1, <1>6 DEF Fetch, CollectorFails, Dial, Drop, SendBatch, MarkUsageSent
<1>7. ASSUME NEW n \in Conns, HubAck(n)
      PROVE  UsedIsTheSum' /\ ExhaustionIsKicked'
  BY <1>1, <1>7 DEF HubAck
<1>8. CASE ControllerRestart
  BY <1>1, <1>8 DEF ControllerRestart
<1>9. CASE UNCHANGED vars
  BY <1>1, <1>9 DEF vars
<1> QED BY <1>2, <1>3, <1>4, <1>5, <1>6, <1>7, <1>8, <1>9 DEF Next

\* The bytes of device d that are stored on the node, and all that are counted.
Stored(d)  == {e \in 1..Len(events) : events[e].dev = d}
Counted(d) == counter[d] + fetched[d] + Bytes(Stored(d))

LEMMA ConservedMeans ==
  TrafficIsConserved <=>
    \A d \in Devices : Counted(d) <= carried[d] /\ (failures = 0 => Counted(d) = carried[d])
BY DEF TrafficIsConserved, Counted, Stored

LEMMA ConservedMeansNext ==
  ASSUME NEW n, n = failures',
         \A d \in Devices : Counted(d)' <= carried'[d] /\ (n = 0 => Counted(d)' = carried'[d])
  PROVE  TrafficIsConserved'
BY DEF TrafficIsConserved, Counted, Stored

LEMMA StoredIsNatural ==
  ASSUME SumInv, NEW d \in Devices
  PROVE  /\ Bytes(Stored(d)) \in Nat
         /\ counter[d] \in Nat /\ fetched[d] \in Nat /\ carried[d] \in Nat
<1>1. events \in Table /\ Stored(d) \in SUBSET (1..Len(events))
  BY DEF SumInv, SumType, Stored
<1>2. Bytes(Stored(d)) \in Nat
  BY <1>1, BytesAreNatural, BytesOfEvents
<1> QED BY <1>2 DEF SumInv, SumType

\* Storing what was read of device d moves its bytes and nobody else's.
LEMMA StoringMoves ==
  ASSUME SumInv, NEW d \in Devices, AddUsage(d), NEW c \in Devices
  PROVE  Counted(c)' = Counted(c)
<1> DEFINE x == [dev |-> d, bytes |-> fetched[d]]
           i == Len(events) + 1
<1>1. /\ x \in Event /\ events' = Append(events, x)
      /\ Len(events) \in Nat /\ Len(events') = i
      /\ \A e \in 1..Len(events) : events'[e] = events[e]
      /\ events'[i].dev = d
  BY StoredStaysStored
<1>2. x.bytes = fetched[d]
  OBVIOUS
<1> HIDE DEF x
<1>3. events \in Table /\ Len(events) < MaxEvents /\ Stored(c) \in SUBSET (1..Len(events))
  BY DEF SumInv, SumType, AddUsage, Stored
<1>4. /\ BytesIn(events', Stored(c)) = Bytes(Stored(c))
      /\ BytesIn(events', Stored(c) \cup {i}) = Bytes(Stored(c)) + x.bytes
  BY <1>1, <1>3, BytesAfterAppend, BytesOfEvents
<1>5. 1..Len(events') = (1..Len(events)) \cup {i}
  BY <1>1
<1>6. Stored(c)' = IF c = d THEN Stored(c) \cup {i} ELSE Stored(c)
  BY <1>1, <1>5 DEF Stored
<1>7. Bytes(Stored(c))' = BytesIn(events', Stored(c)')
  BY DEF Bytes, BytesIn
<1>8. counter' = counter /\ fetched' = [fetched EXCEPT ![d] = 0] /\ fetched \in [Devices -> Nat]
  BY DEF AddUsage, SumInv, SumType
<1>9. Bytes(Stored(c)) \in Nat /\ counter[c] \in Nat /\ fetched[c] \in Nat
  BY StoredIsNatural
<1>10. CASE c = d
  <2>1. Bytes(Stored(c))' = Bytes(Stored(c)) + fetched[c] /\ fetched'[c] = 0
    BY <1>2, <1>4, <1>6, <1>7, <1>8, <1>10
  <2> QED BY <1>8, <1>9, <2>1 DEF Counted
<1>11. CASE c # d
  <2>1. Bytes(Stored(c))' = Bytes(Stored(c)) /\ fetched'[c] = fetched[c]
    BY <1>4, <1>6, <1>7, <1>8, <1>11
  <2> QED BY <1>8, <2>1 DEF Counted
<1> QED BY <1>10, <1>11

LEMMA ConservedStep ==
  ASSUME SumInv, [Next]_vars
  PROVE  TrafficIsConserved'
<1> USE DEF nodeVars, wireVars, hubVars
<1>0. /\ SumType
      /\ \A c \in Devices : Counted(c) <= carried[c] /\ (failures = 0 => Counted(c) = carried[c])
  BY ConservedMeans DEF SumInv
<1>1. ASSUME UNCHANGED <<carried, failures>>, \A c \in Devices : Counted(c)' = Counted(c)
      PROVE  TrafficIsConserved'
  BY <1>0, <1>1, ConservedMeansNext
<1>2. ASSUME UNCHANGED nodeVars PROVE TrafficIsConserved'
  BY <1>2 DEF SumInv, TrafficIsConserved, Bytes
<1>3. ASSUME NEW d \in Devices, Transfer(d) PROVE TrafficIsConserved'
  <2>1. ASSUME NEW c \in Devices
        PROVE  Counted(c)' <= carried'[c] /\ (failures = 0 => Counted(c)' = carried'[c])
    <3>1. Bytes(Stored(c))' = Bytes(Stored(c)) /\ fetched' = fetched
      BY <1>3 DEF Transfer, Bytes, Stored
    <3>2. /\ counter'[c] = IF c = d THEN counter[c] + 1 ELSE counter[c]
          /\ carried'[c] = IF c = d THEN carried[c] + 1 ELSE carried[c]
      BY <1>0, <1>3 DEF Transfer, SumType
    <3>3. Bytes(Stored(c)) \in Nat /\ counter[c] \in Nat /\ fetched[c] \in Nat /\ carried[c] \in Nat
      BY StoredIsNatural
    <3>4. Counted(c)' = IF c = d THEN Counted(c) + 1 ELSE Counted(c)
      <4>1. Counted(c)' = counter'[c] + fetched[c] + Bytes(Stored(c))
        BY <3>1 DEF Counted
      <4>2. CASE c = d
        BY <3>2, <3>3, <4>1, <4>2 DEF Counted
      <4>3. CASE c # d
        BY <3>2, <4>1, <4>3 DEF Counted
      <4> QED BY <4>2, <4>3
    <3>5. Counted(c) \in Nat
      BY <3>3 DEF Counted
    <3> QED BY <1>0, <3>2, <3>3, <3>4, <3>5
  <2> QED BY <1>3, <2>1, ConservedMeansNext DEF Transfer
<1>4. ASSUME NEW d \in Devices, AddUsage(d) PROVE TrafficIsConserved'
  BY <1>1, <1>4, StoringMoves DEF AddUsage
<1>5. CASE Fetch
  <2>1. ASSUME NEW c \in Devices PROVE Counted(c)' = Counted(c)
    <3>1. Bytes(Stored(c))' = Bytes(Stored(c))
      BY <1>5 DEF Fetch, Bytes, Stored
    <3>2. Bytes(Stored(c)) \in Nat /\ counter[c] \in Nat /\ fetched[c] \in Nat
      BY StoredIsNatural
    <3>3. fetched[c] = 0 /\ fetched'[c] = counter[c] /\ counter'[c] = 0
      BY <1>5, <3>2 DEF Fetch, Collecting
    <3> QED BY <3>1, <3>2, <3>3 DEF Counted
  <2> QED BY <1>1, <1>5, <2>1 DEF Fetch
<1>6. CASE CollectorFails
  <2>1. failures' # 0
    BY <1>0, <1>6 DEF CollectorFails, SumType
  <2>2. ASSUME NEW c \in Devices PROVE Counted(c)' <= carried'[c]
    <3>1. Bytes(Stored(c))' = Bytes(Stored(c)) /\ counter' = counter /\ carried' = carried
      BY <1>6 DEF CollectorFails, Bytes, Stored
    <3>2. Bytes(Stored(c)) \in Nat /\ counter[c] \in Nat /\ fetched[c] \in Nat /\ carried[c] \in Nat
      BY StoredIsNatural
    <3>3. fetched'[c] = 0
      BY <1>6 DEF CollectorFails
    <3>4. counter[c] + fetched[c] + Bytes(Stored(c)) <= carried[c]
      BY <1>0 DEF Counted
    <3> QED BY <3>1, <3>2, <3>3, <3>4 DEF Counted
  <2> QED BY <2>1, <2>2, ConservedMeansNext
<1>7. ASSUME NEW d \in Devices, KickSettles(d) PROVE TrafficIsConserved'
  BY <1>2, <1>7 DEF KickSettles
<1>8. CASE Dial \/ Drop \/ SendBatch \/ ControllerRestart \/ Renew
  BY <1>2, <1>8 DEF Dial, Drop, SendBatch, ControllerRestart, Renew
<1>9. CASE MarkUsageSent
  BY <1>9 DEF SumInv, TrafficIsConserved, Bytes, MarkUsageSent
<1>10. ASSUME NEW n \in Conns, HubUsage(n) \/ HubAck(n) PROVE TrafficIsConserved'
  BY <1>2, <1>10 DEF HubUsage, HubAck
<1>11. CASE UNCHANGED vars
  BY <1>2, <1>11 DEF vars
<1> QED
  BY <1>3, <1>4, <1>5, <1>6, <1>7, <1>8, <1>9, <1>10, <1>11 DEF Next

LEMMA InitSums == Init => SumInv
<1> SUFFICES ASSUME Init PROVE SumInv
  OBVIOUS
<1>0. events = <<>> /\ Len(<<>>) = 0 /\ <<>> \in Seq(Event) /\ MaxEvents \in Nat
  BY EmptySeq, UsageBoundsAreNaturals DEF Init
<1>1. SumType
  <2>1. events \in Table
    BY <1>0 DEF Table
  <2>2. <<>> \in Seq(SUBSET (1..Len(events)))
    BY EmptySeq
  <2> QED BY <2>1, <2>2 DEF Init, SumType
<1>2. Bytes({}) = 0
  BY BytesOfNothing, BytesOfEvents
<1>3. UsedIsTheSum
  BY <1>2 DEF Init, UsedIsTheSum
<1>4. ExhaustionIsKicked
  BY UsageBoundsAreNaturals DEF Init, ExhaustionIsKicked
<1>5. TrafficIsConserved
  <2>1. ASSUME NEW d \in Devices PROVE Counted(d) = 0 /\ carried[d] = 0
    <3>1. Stored(d) = {}
      BY <1>0 DEF Stored
    <3>2. Bytes(Stored(d)) = 0
      BY <1>2, <3>1
    <3> QED BY <3>2 DEF Init, Counted
  <2> QED BY <2>1, ConservedMeans
<1> QED BY <1>1, <1>3, <1>4, <1>5, InitAccounting DEF SumInv

LEMMA NextSums == SumInv /\ [Next]_vars => SumInv'
<1> SUFFICES ASSUME SumInv, [Next]_vars PROVE SumInv'
  OBVIOUS
<1>1. AccountingInv'
  BY NextAccounting DEF SumInv
<1> QED BY <1>1, SumTypeStep, UsedStep, ConservedStep DEF SumInv

\* used_bytes is the sum of the events recorded since the last renewal, for any
\* number of events, batches, connections and renewals (NodeHub.usage).
THEOREM UsedBytesAreTheSum == Spec => []UsedIsTheSum
<1>1. SumInv => UsedIsTheSum
  BY DEF SumInv
<1> QED BY <1>1, InitSums, NextSums, PTL DEF Spec

\* Whatever batches bring used_bytes to the quota, a device of the subscription
\* was kicked for it since the last renewal (NodeHub.usage).
THEOREM ExhaustedQuotaIsKicked == Spec => []ExhaustionIsKicked
<1>1. SumInv => ExhaustionIsKicked
  BY DEF SumInv
<1> QED BY <1>1, InitSums, NextSums, PTL DEF Spec

\* The node counts no byte twice, and loses none while Collect succeeds.
THEOREM NodeConservesTraffic == Spec => []TrafficIsConserved
<1>1. SumInv => TrafficIsConserved
  BY DEF SumInv
<1> QED BY <1>1, InitSums, NextSums, PTL DEF Spec

=============================================================================
