-------------------------- MODULE DeviceSlotsProofs --------------------------
(***************************************************************************)
(* The device limit, the trial, the binding and the link of a device hold  *)
(* for any number of users, devices and requests, unless two requests      *)
(* overlapped in the way that `raced` records.  So the overlaps it names   *)
(* are all that the missing locks of these handlers allow.                 *)
(***************************************************************************)
EXTENDS DeviceSlots, FiniteSetTheorems, TLAPS

\* What a request carries from what it has read to what it writes.
Carries(q) ==
  /\ pc[q] \in {"count", "insert"} => dev[q] \in Users /\ read[q] \in Nat
  /\ pc[q] = "insert" => HasRoom(read[q])
  /\ pc[q] = "link" => dev[q] \in Devices /\ read[q] = None
  /\ pc[q] \in {"trial", "bind", "serve"} =>
       dev[q] \in Devices /\ hw[q] \in HWIDs /\ read[q] \in Nat /\ read[q] <= cred[dev[q]]

\* A request that will answer the current credential of a device comes from the
\* hardware the device is bound to.
ServesTheHolder(q) ==
  pc[q] = "serve" /\ read[q] = cred[dev[q]] =>
    <<"bind", dev[q]>> \in raced \/ hw[q] = hwid[dev[q]]

\* The part of the type invariant that the properties rest on.
RowsOK ==
  /\ owner \in [Devices -> Users \cup {None}]
  /\ hwid \in [Devices -> HWIDs \cup {None}] /\ cred \in [Devices -> Nat]
  /\ link \in [Devices -> Requests \cup Devices \cup {None}]
  /\ served \in [Devices -> SUBSET HWIDs]
  /\ given \in [Devices -> SUBSET (Requests \cup Devices)]

RequestsOK ==
  /\ pc \in [Requests -> {"idle", "count", "insert", "link", "trial", "bind", "serve"}]
  /\ dev \in [Requests -> Devices \cup Users \cup {None}]
  /\ hw \in [Requests -> HWIDs \cup {None}]
  /\ read \in [Requests -> Nat \cup {None}]
  /\ DOMAIN trial = Requests

\* One fingerprint per hardware, without counting.
OnePrint ==
  \A h \in HWIDs : \/ <<"trial", h>> \in raced
                   \/ \A p, r \in prints : p[2] = h /\ r[2] = h => p = r

SlotInv ==
  /\ RowsOK /\ RequestsOK
  /\ \A q \in Requests : Carries(q) /\ ServesTheHolder(q)
  /\ LimitUnlessRaced
  /\ OnePrint
  /\ OneHolderUnlessRaced
  /\ LinksWorkUnlessRaced

-----------------------------------------------------------------------------
(* What the steps do *)

\* The steps that write rows.  The others read, decide and answer.
Writes ==
  \/ \E q \in Requests : (\E d \in Devices : Insert(q, d)) \/ StoreLink(q) \/ Bind(q) \/ Serve(q)
  \/ \E d \in Devices : Rebind(d)
  \/ \E u \in Users : Purchase(u)

LEMMA OthersOnlyRead ==
  ASSUME [Next]_vars, ~Writes
  PROVE  UNCHANGED <<rowVars, histVars>>
<1>1. ASSUME NEW q \in Requests, Request(q)
      PROVE  UNCHANGED <<rowVars, histVars>>
  BY <1>1 DEF Writes, Request, Count, Lock, LimitReached, ReadLink, Fetch, CheckTrial,
              BindFails, NoRoute, Answer
<1>2. CASE UNCHANGED vars
  BY <1>2 DEF vars
<1> QED BY <1>1, <1>2 DEF Next, Writes

\* A step is one of a single request, or leaves the requests alone.
LEMMA OneRequestMoves ==
  ASSUME RequestsOK, [Next]_vars
  PROVE  \/ UNCHANGED reqVars
         \/ \E q \in Requests :
              /\ Request(q)
              /\ \A r \in Requests \ {q} :
                   /\ pc'[r] = pc[r] /\ dev'[r] = dev[r]
                   /\ hw'[r] = hw[r] /\ read'[r] = read[r]
<1> DEFINE Alone(q) == \A r \in Requests \ {q} :
                          /\ pc'[r] = pc[r] /\ dev'[r] = dev[r]
                          /\ hw'[r] = hw[r] /\ read'[r] = read[r]
<1>1. ASSUME NEW q \in Requests, NEW s, NEW x, NEW h, NEW n, NEW t, Start(q, s, x, h, n, t)
      PROVE  Alone(q)
  BY <1>1 DEF Start, RequestsOK
<1>2. ASSUME NEW q \in Requests, NEW s, Goto(q, s)
      PROVE  Alone(q)
  BY <1>2 DEF Goto, RequestsOK
<1>3. ASSUME NEW q \in Requests, End(q)
      PROVE  Alone(q)
  BY <1>3 DEF End, RequestsOK
<1>4. ASSUME NEW q \in Requests, Request(q)
      PROVE  Alone(q)
  <2> HIDE DEF Alone
  <2>1. ASSUME NEW u \in Users, Count(q, u) PROVE Alone(q)
    BY <1>1, <2>1 DEF Count
  <2>2. ASSUME NEW d \in Devices, ReadLink(q, d) PROVE Alone(q)
    BY <1>1, <2>2 DEF ReadLink
  <2>3. ASSUME NEW d \in Devices, NEW h \in HWIDs, Fetch(q, d, h) PROVE Alone(q)
    BY <1>1, <2>3 DEF Fetch
  <2>4. CASE Lock(q) \/ Bind(q)
    BY <1>2, <2>4 DEF Lock, Bind
  <2>5. CASE CheckTrial(q)
    BY <1>2, <1>3, <2>5 DEF CheckTrial
  <2>6. CASE \/ LimitReached(q) \/ StoreLink(q) \/ BindFails(q) \/ Serve(q) \/ NoRoute(q)
             \/ \E d \in Devices : Insert(q, d)
    BY <1>3, <2>6 DEF LimitReached, Insert, StoreLink, BindFails, Serve, NoRoute, Answer
  <2> QED BY <1>4, <2>1, <2>2, <2>3, <2>4, <2>5, <2>6 DEF Request
<1> QED BY <1>4 DEF Next, Rebind, Purchase, vars

-----------------------------------------------------------------------------
(* Types *)

LEMMA RowsStep ==
  ASSUME SlotInv, [Next]_vars
  PROVE  RowsOK'
<1>0. RowsOK /\ RequestsOK /\ \A q \in Requests : Carries(q)
  BY DEF SlotInv
<1>1. CASE ~Writes
  BY <1>0, <1>1, OthersOnlyRead DEF RowsOK, rowVars, histVars
<1>2. ASSUME NEW q \in Requests, NEW d \in Devices, Insert(q, d) PROVE RowsOK'
  <2>1. dev[q] \in Users
    BY <1>0, <1>2 DEF Insert, Carries
  <2> QED BY <1>0, <1>2, <2>1 DEF Insert, RowsOK
<1>3. ASSUME NEW q \in Requests, StoreLink(q) PROVE RowsOK'
  <2>1. dev[q] \in Devices
    BY <1>0, <1>3 DEF StoreLink, Carries
  <2> QED BY <1>0, <1>3, <2>1 DEF StoreLink, RowsOK
<1>4. ASSUME NEW q \in Requests, Bind(q) PROVE RowsOK'
  <2>1. dev[q] \in Devices /\ hw[q] \in HWIDs
    BY <1>0, <1>4 DEF Bind, Carries
  <2>2. hwid' = [hwid EXCEPT ![dev[q]] = hw[q]] /\ UNCHANGED <<owner, cred, link, served, given>>
    BY <1>4 DEF Bind
  <2> QED BY <1>0, <2>1, <2>2 DEF RowsOK
<1>5. ASSUME NEW q \in Requests, Serve(q) PROVE RowsOK'
  <2>1. dev[q] \in Devices /\ hw[q] \in HWIDs
    BY <1>0, <1>5 DEF Serve, Carries
  <2>2. served' \in [Devices -> SUBSET HWIDs] /\ UNCHANGED <<owner, hwid, cred, link, given>>
    BY <1>0, <1>5, <2>1 DEF Serve, RowsOK, rowVars
  <2> QED BY <1>0, <2>2 DEF RowsOK
<1>6. ASSUME NEW d \in Devices, Rebind(d) PROVE RowsOK'
  BY <1>0, <1>6 DEF Rebind, RowsOK
<1>7. ASSUME NEW u \in Users, Purchase(u) PROVE RowsOK'
  BY <1>0, <1>7 DEF Purchase, RowsOK, histVars
<1> QED BY <1>1, <1>2, <1>3, <1>4, <1>5, <1>6, <1>7 DEF Writes

LEMMA CountIsNatural == \A u : Cardinality(Of(u)) \in Nat /\ IsFiniteSet(Of(u))
BY DevicesAreFinite, FS_Subset, FS_CardinalityType DEF Of

LEMMA RequestsStep ==
  ASSUME SlotInv, [Next]_vars
  PROVE  RequestsOK'
<1>0. RowsOK /\ RequestsOK
  BY DEF SlotInv
<1> DEFINE Places == {"idle", "count", "insert", "link", "trial", "bind", "serve"}
<1>1. ASSUME NEW q \in Requests, NEW s \in Places, NEW x \in Devices \cup Users,
             NEW h \in HWIDs \cup {None}, NEW n \in Nat \cup {None}, NEW t,
             Start(q, s, x, h, n, t)
      PROVE  RequestsOK'
  BY <1>0, <1>1 DEF Start, RequestsOK
<1>2. ASSUME NEW q \in Requests, NEW s \in Places, Goto(q, s)
      PROVE  RequestsOK'
  BY <1>0, <1>2 DEF Goto, RequestsOK
<1>3. ASSUME NEW q \in Requests, End(q)
      PROVE  RequestsOK'
  BY <1>0, <1>3 DEF End, RequestsOK
<1>4. ASSUME NEW q \in Requests, NEW u \in Users, Count(q, u) PROVE RequestsOK'
  BY <1>1, <1>4, CountIsNatural DEF Count
<1>5. ASSUME NEW q \in Requests, NEW d \in Devices, ReadLink(q, d) PROVE RequestsOK'
  BY <1>1, <1>5 DEF ReadLink, Missing
<1>6. ASSUME NEW q \in Requests, NEW d \in Devices, NEW h \in HWIDs, Fetch(q, d, h)
      PROVE  RequestsOK'
  <2>1. cred[d] \in Nat
    BY <1>0 DEF RowsOK
  <2>2. PICK s \in {"serve", "trial", "bind"} :
               Start(q, s, d, h, cred[d], owner[d] \in pending)
    BY <1>6 DEF Fetch
  <2> QED BY <1>1, <2>1, <2>2
<1>7. ASSUME NEW q \in Requests, Lock(q) \/ Bind(q) \/ CheckTrial(q) PROVE RequestsOK'
  BY <1>2, <1>3, <1>7 DEF Lock, Bind, CheckTrial
<1>8. ASSUME NEW q \in Requests,
             \/ LimitReached(q) \/ StoreLink(q) \/ BindFails(q) \/ Serve(q) \/ NoRoute(q)
             \/ \E d \in Devices : Insert(q, d)
      PROVE  RequestsOK'
  BY <1>3, <1>8 DEF LimitReached, Insert, StoreLink, BindFails, Serve, NoRoute, Answer
<1>9. CASE UNCHANGED reqVars
  BY <1>0, <1>9 DEF reqVars, RequestsOK
<1> QED
  BY <1>4, <1>5, <1>6, <1>7, <1>8, <1>9 DEF Next, Request, Rebind, Purchase, vars

-----------------------------------------------------------------------------
(* What the requests carry *)

\* Credentials are only ever replaced by later ones.
LEMMA CredentialsGrow ==
  ASSUME SlotInv, [Next]_vars
  PROVE  \A d \in Devices : cred[d] \in Nat /\ cred'[d] \in Nat /\ cred[d] <= cred'[d]
<1>0. RowsOK
  BY DEF SlotInv
<1>1. ASSUME NEW e \in Devices, Rebind(e)
      PROVE  \A d \in Devices : cred'[d] \in Nat /\ cred[d] <= cred'[d]
  BY <1>0, <1>1 DEF Rebind, RowsOK
<1>2. CASE UNCHANGED cred
  BY <1>0, <1>2 DEF RowsOK
<1>3. UNCHANGED cred \/ \E d \in Devices : Rebind(d)
  BY OthersOnlyRead DEF Writes, Insert, StoreLink, Bind, Serve, Purchase, rowVars
<1> QED BY <1>0, <1>1, <1>2, <1>3 DEF RowsOK

LEMMA CarriesStep ==
  ASSUME SlotInv, [Next]_vars, NEW r \in Requests
  PROVE  Carries(r)'
<1>0. /\ RowsOK /\ RequestsOK /\ Carries(r)
      /\ \A d \in Devices : cred[d] \in Nat /\ cred'[d] \in Nat /\ cred[d] <= cred'[d]
  BY CredentialsGrow DEF SlotInv
<1>s. ASSUME dev'[r] = dev[r], hw'[r] = hw[r], read'[r] = read[r],
             \/ pc'[r] = pc[r]
             \/ pc[r] = "count" /\ pc'[r] = "insert" /\ HasRoom(read[r])
             \/ pc[r] \in {"trial", "bind"} /\ pc'[r] \in {"bind", "serve"}
      PROVE  Carries(r)'
  BY <1>0, <1>s DEF Carries, HasRoom
<1>e. ASSUME pc'[r] = "idle" PROVE Carries(r)'
  BY <1>e DEF Carries
<1>1. ASSUME End(r) PROVE pc'[r] = "idle"
  BY <1>0, <1>1 DEF End, RequestsOK
<1>2. ASSUME NEW p, Goto(r, p)
      PROVE  pc'[r] = p /\ dev'[r] = dev[r] /\ hw'[r] = hw[r] /\ read'[r] = read[r]
  BY <1>0, <1>2 DEF Goto, RequestsOK
<1>3. ASSUME NEW p, NEW x, NEW h, NEW n, NEW t, Start(r, p, x, h, n, t)
      PROVE  pc'[r] = p /\ dev'[r] = x /\ hw'[r] = h /\ read'[r] = n
  BY <1>0, <1>3 DEF Start, RequestsOK
<1>4. ASSUME NEW u \in Users, Count(r, u) PROVE Carries(r)'
  <2>1. pc'[r] = "count" /\ dev'[r] = u /\ read'[r] = Cardinality(Of(u))
    BY <1>3, <1>4 DEF Count
  <2> QED BY <2>1, CountIsNatural DEF Carries
<1>5. ASSUME NEW d \in Devices, ReadLink(r, d) PROVE Carries(r)'
  <2>1. pc'[r] = "link" /\ dev'[r] = d /\ read'[r] = None
    BY <1>3, <1>5 DEF ReadLink, Missing
  <2> QED BY <2>1 DEF Carries
<1>6. ASSUME NEW d \in Devices, NEW h \in HWIDs, Fetch(r, d, h) PROVE Carries(r)'
  <2>1. PICK p \in {"serve", "trial", "bind"} :
               Start(r, p, d, h, cred[d], owner[d] \in pending)
    BY <1>6 DEF Fetch
  <2>2. pc'[r] = p /\ dev'[r] = d /\ hw'[r] = h /\ read'[r] = cred[d]
    BY <1>3, <2>1
  <2> QED BY <1>0, <2>2 DEF Carries
<1>7. ASSUME Lock(r) PROVE Carries(r)'
  BY <1>2, <1>7, <1>s DEF Lock
<1>8. ASSUME Bind(r) PROVE Carries(r)'
  BY <1>2, <1>8, <1>s DEF Bind
<1>9. ASSUME CheckTrial(r) PROVE Carries(r)'
  BY <1>1, <1>2, <1>9, <1>s, <1>e DEF CheckTrial
<1>10. ASSUME \/ LimitReached(r) \/ StoreLink(r) \/ BindFails(r) \/ Serve(r) \/ NoRoute(r)
              \/ \E d \in Devices : Insert(r, d)
       PROVE  Carries(r)'
  BY <1>1, <1>10, <1>e DEF LimitReached, Insert, StoreLink, BindFails, Serve, NoRoute, Answer
<1>11. ASSUME Request(r) PROVE Carries(r)'
  BY <1>4, <1>5, <1>6, <1>7, <1>8, <1>9, <1>10, <1>11 DEF Request
<1>12. CASE UNCHANGED reqVars
  BY <1>12, <1>s DEF reqVars
<1> QED BY <1>0, <1>11, <1>12, <1>s, OneRequestMoves

-----------------------------------------------------------------------------
(* The limit *)

LEMMA LimitStep ==
  ASSUME SlotInv, [Next]_vars
  PROVE  LimitUnlessRaced'
<1>0. RowsOK /\ LimitUnlessRaced /\ \A q \in Requests : Carries(q)
  BY DEF SlotInv
<1>1. ASSUME UNCHANGED owner, \A u \in Users : <<"slot", u>> \in raced => <<"slot", u>> \in raced'
      PROVE  LimitUnlessRaced'
  BY <1>0, <1>1 DEF LimitUnlessRaced, Of
<1>2. CASE ~Writes
  BY <1>1, <1>2, OthersOnlyRead DEF rowVars, histVars
<1>3. ASSUME NEW q \in Requests, NEW d \in Devices, Insert(q, d) PROVE LimitUnlessRaced'
  <2> DEFINE u == dev[q]
  <2>1. /\ u \in Users /\ u # None /\ owner[d] = None
        /\ owner' = [owner EXCEPT ![d] = u]
        /\ raced \subseteq raced'
        /\ <<"slot", u>> \notin raced' => read[q] = Cardinality(Of(u))
    BY <1>0, <1>3, NoneIsNothing DEF Insert, Carries
  <2>2. HasRoom(read[q])
    BY <1>0, <1>3 DEF Insert, Carries
  <2>3. ASSUME NEW w \in Users, <<"slot", w>> \notin raced'
        PROVE  Cardinality(Of(w)') <= Limit
    <3>1. CASE w = u
      <4>1. Of(w)' = Of(w) \cup {d} /\ d \notin Of(w)
        BY <1>0, <2>1, <3>1 DEF Of, RowsOK
      <4>2. Cardinality(Of(w)') = Cardinality(Of(w)) + 1
        BY <4>1, CountIsNatural, FS_AddElement
      <4>3. Cardinality(Of(w)) < Limit
        BY <2>1, <2>2, <2>3, <3>1 DEF HasRoom
      <4> QED BY <4>2, <4>3, CountIsNatural, LimitIsCounted
    <3>2. CASE w # u
      <4>1. Of(w)' = Of(w)
        BY <1>0, <2>1, <3>2, NoneIsNothing DEF Of, RowsOK
      <4> QED BY <1>0, <2>1, <2>3, <4>1 DEF LimitUnlessRaced
    <3> QED BY <3>1, <3>2
  <2> QED BY <2>3 DEF LimitUnlessRaced
<1>4. ASSUME NEW q \in Requests, StoreLink(q) PROVE LimitUnlessRaced'
  BY <1>1, <1>4 DEF StoreLink
<1>5. ASSUME NEW q \in Requests, Bind(q) PROVE LimitUnlessRaced'
  BY <1>1, <1>5 DEF Bind
<1>6. ASSUME NEW q \in Requests, Serve(q) PROVE LimitUnlessRaced'
  BY <1>1, <1>6 DEF Serve, rowVars
<1>7. ASSUME NEW d \in Devices, Rebind(d) PROVE LimitUnlessRaced'
  BY <1>1, <1>7 DEF Rebind
<1>8. ASSUME NEW u \in Users, Purchase(u) PROVE LimitUnlessRaced'
  BY <1>1, <1>8 DEF Purchase, histVars
<1> QED BY <1>2, <1>3, <1>4, <1>5, <1>6, <1>7, <1>8 DEF Writes

-----------------------------------------------------------------------------
(* The trial *)

LEMMA PrintStep ==
  ASSUME SlotInv, [Next]_vars
  PROVE  OnePrint'
<1>0. OnePrint
  BY DEF SlotInv
<1>1. ASSUME UNCHANGED prints, \A h \in HWIDs : <<"trial", h>> \in raced => <<"trial", h>> \in raced'
      PROVE  OnePrint'
  BY <1>0, <1>1 DEF OnePrint
<1>2. CASE ~Writes
  BY <1>1, <1>2, OthersOnlyRead DEF rowVars, histVars
<1>3. ASSUME NEW q \in Requests, NEW d \in Devices, Insert(q, d) PROVE OnePrint'
  BY <1>1, <1>3 DEF Insert
<1>4. ASSUME NEW q \in Requests, StoreLink(q) PROVE OnePrint'
  BY <1>1, <1>4 DEF StoreLink
<1>5. ASSUME NEW q \in Requests, Bind(q) PROVE OnePrint'
  <2>1. raced \subseteq raced'
    BY <1>5 DEF Bind
  <2>2. CASE ~trial[q]
    <3>1. UNCHANGED prints
      BY <1>5, <2>2 DEF Bind
    <3> QED BY <1>1, <2>1, <3>1
  <2>3. CASE trial[q]
    <3> DEFINE f == Fingerprint(q)
    <3>1. prints' = prints \cup {f} /\ f[2] = hw[q]
      BY <1>5, <2>3 DEF Bind, Fingerprint
    <3>2. <<"trial", hw[q]>> \in raced' \/ FreeTrial(q)
      BY <1>5, <2>3 DEF Bind
    <3>3. FreeTrial(q) => \A p \in prints : p[2] # hw[q]
      BY DEF FreeTrial, Reused
    <3>4. ASSUME NEW h \in HWIDs, <<"trial", h>> \notin raced',
                 NEW p \in prints', NEW r \in prints', p[2] = h, r[2] = h
          PROVE  p = r
      <4> HIDE DEF f
      <4>1. CASE h = hw[q]
        BY <3>1, <3>2, <3>3, <3>4, <4>1
      <4>2. CASE h # hw[q]
        <5>1. p \in prints /\ r \in prints
          BY <3>1, <3>4, <4>2
        <5> QED BY <1>0, <2>1, <3>4, <5>1 DEF OnePrint
      <4> QED BY <4>1, <4>2
    <3> QED BY <3>4 DEF OnePrint
  <2> QED BY <2>2, <2>3
<1>6. ASSUME NEW q \in Requests, Serve(q) PROVE OnePrint'
  BY <1>1, <1>6 DEF Serve, rowVars
<1>7. ASSUME NEW d \in Devices, Rebind(d) PROVE OnePrint'
  BY <1>1, <1>7 DEF Rebind
<1>8. ASSUME NEW u \in Users, Purchase(u) PROVE OnePrint'
  BY <1>1, <1>8 DEF Purchase, histVars
<1> QED BY <1>2, <1>3, <1>4, <1>5, <1>6, <1>7, <1>8 DEF Writes

-----------------------------------------------------------------------------
(* The link *)

LEMMA LinkStep ==
  ASSUME SlotInv, [Next]_vars
  PROVE  LinksWorkUnlessRaced'
<1>0. RowsOK /\ LinksWorkUnlessRaced /\ \A q \in Requests : Carries(q)
  BY DEF SlotInv
<1>1. ASSUME UNCHANGED <<link, given>>,
             \A d \in Devices : <<"link", d>> \in raced => <<"link", d>> \in raced'
      PROVE  LinksWorkUnlessRaced'
  BY <1>0, <1>1 DEF LinksWorkUnlessRaced
<1>2. CASE ~Writes
  BY <1>1, <1>2, OthersOnlyRead DEF rowVars, histVars
<1>3. ASSUME NEW q \in Requests, NEW d \in Devices, Insert(q, d) PROVE LinksWorkUnlessRaced'
  <2>1. /\ link' = [link EXCEPT ![d] = d] /\ given' = [given EXCEPT ![d] = {d}]
        /\ raced \subseteq raced'
    BY <1>3 DEF Insert
  <2> QED BY <1>0, <2>1 DEF LinksWorkUnlessRaced, RowsOK
<1>4. ASSUME NEW q \in Requests, StoreLink(q) PROVE LinksWorkUnlessRaced'
  <2> DEFINE d == dev[q]
  <2>1. /\ d \in Devices /\ read[q] = None /\ raced \subseteq raced'
        /\ link' = [link EXCEPT ![d] = q] /\ given' = [given EXCEPT ![d] = @ \cup {q}]
        /\ link[d] = read[q] \/ <<"link", d>> \in raced'
    BY <1>0, <1>4 DEF StoreLink, Carries
  <2>2. \A e \in Devices : None \notin given[e]
    BY <1>0, NoneIsNothing DEF RowsOK
  <2>3. ASSUME NEW e \in Devices, <<"link", e>> \notin raced'
        PROVE  given'[e] \subseteq {link'[e]}
    <3>1. given[e] \subseteq {link[e]}
      BY <1>0, <2>1, <2>3 DEF LinksWorkUnlessRaced
    <3>2. CASE e = d
      <4>1. given[e] = {}
        BY <2>1, <2>2, <2>3, <3>1, <3>2
      <4> QED BY <1>0, <2>1, <3>2, <4>1 DEF RowsOK
    <3>3. CASE e # d
      BY <1>0, <2>1, <3>1, <3>3 DEF RowsOK
    <3> QED BY <3>2, <3>3
  <2> QED BY <2>3 DEF LinksWorkUnlessRaced
<1>5. ASSUME NEW q \in Requests, Bind(q) PROVE LinksWorkUnlessRaced'
  BY <1>1, <1>5 DEF Bind
<1>6. ASSUME NEW q \in Requests, Serve(q) PROVE LinksWorkUnlessRaced'
  BY <1>1, <1>6 DEF Serve, rowVars
<1>7. ASSUME NEW d \in Devices, Rebind(d) PROVE LinksWorkUnlessRaced'
  BY <1>1, <1>7 DEF Rebind
<1>8. ASSUME NEW u \in Users, Purchase(u) PROVE LinksWorkUnlessRaced'
  BY <1>1, <1>8 DEF Purchase, histVars
<1> QED BY <1>2, <1>3, <1>4, <1>5, <1>6, <1>7, <1>8 DEF Writes

-----------------------------------------------------------------------------
(* The binding *)

\* A binding that overlapped nothing found the device unbound and with the
\* credential the request had read.
LEMMA CleanBinding ==
  ASSUME SlotInv, NEW q \in Requests, Bind(q)
  PROVE  /\ dev[q] \in Devices /\ hw[q] \in HWIDs
         /\ hwid' = [hwid EXCEPT ![dev[q]] = hw[q]]
         /\ raced \subseteq raced'
         /\ UNCHANGED <<cred, served>>
         /\ \/ <<"bind", dev[q]>> \in raced'
            \/ hwid[dev[q]] = None /\ cred[dev[q]] = read[q]
<1>1. Carries(q) /\ pc[q] = "bind"
  BY DEF SlotInv, Bind
<1> QED BY <1>1 DEF Carries, Bind

LEMMA HolderStep ==
  ASSUME SlotInv, [Next]_vars
  PROVE  OneHolderUnlessRaced'
<1>0. /\ RowsOK /\ OneHolderUnlessRaced
      /\ \A q \in Requests : Carries(q) /\ ServesTheHolder(q)
  BY DEF SlotInv
<1>1. ASSUME UNCHANGED <<hwid, served>>,
             \A d \in Devices : <<"bind", d>> \in raced => <<"bind", d>> \in raced'
      PROVE  OneHolderUnlessRaced'
  BY <1>0, <1>1 DEF OneHolderUnlessRaced
<1>2. CASE ~Writes
  BY <1>1, <1>2, OthersOnlyRead DEF rowVars, histVars
<1>3. ASSUME NEW q \in Requests, NEW d \in Devices, Insert(q, d) PROVE OneHolderUnlessRaced'
  BY <1>1, <1>3 DEF Insert
<1>4. ASSUME NEW q \in Requests, StoreLink(q) PROVE OneHolderUnlessRaced'
  BY <1>1, <1>4 DEF StoreLink
<1>5. ASSUME NEW q \in Requests, Bind(q) PROVE OneHolderUnlessRaced'
  <2>1. ASSUME NEW d \in Devices, <<"bind", d>> \notin raced'
        PROVE  served'[d] \subseteq {hwid'[d]}
    <3>1. served[d] \subseteq {hwid[d]} /\ None \notin served[d] /\ served'[d] = served[d]
      BY <1>0, <1>5, <2>1, CleanBinding, NoneIsNothing DEF OneHolderUnlessRaced, RowsOK
    <3>2. CASE d = dev[q]
      <4>1. hwid[d] = None
        BY <1>5, <2>1, <3>2, CleanBinding
      <4> QED BY <3>1, <4>1
    <3>3. CASE d # dev[q]
      <4>1. hwid'[d] = hwid[d]
        BY <1>0, <1>5, <3>3, CleanBinding DEF RowsOK
      <4> QED BY <3>1, <4>1
    <3> QED BY <3>2, <3>3
  <2> QED BY <2>1 DEF OneHolderUnlessRaced
<1>6. ASSUME NEW q \in Requests, Serve(q) PROVE OneHolderUnlessRaced'
  <2> DEFINE d == dev[q]
  <2>1. d \in Devices /\ UNCHANGED <<hwid, raced>>
    BY <1>0, <1>6 DEF Serve, Carries, rowVars
  <2>2. CASE read[q] # cred[d]
    BY <1>1, <1>6, <2>1, <2>2 DEF Serve
  <2>3. CASE read[q] = cred[d]
    <3>1. served' = [served EXCEPT ![d] = @ \cup {hw[q]}]
      BY <1>6, <2>3 DEF Serve
    <3>2. <<"bind", d>> \in raced \/ hw[q] = hwid[d]
      BY <1>0, <1>6, <2>3 DEF Serve, ServesTheHolder
    <3> QED BY <1>0, <2>1, <3>1, <3>2 DEF OneHolderUnlessRaced, RowsOK
  <2> QED BY <2>2, <2>3
<1>7. ASSUME NEW e \in Devices, Rebind(e) PROVE OneHolderUnlessRaced'
  BY <1>0, <1>7 DEF Rebind, OneHolderUnlessRaced, RowsOK
<1>8. ASSUME NEW u \in Users, Purchase(u) PROVE OneHolderUnlessRaced'
  BY <1>1, <1>8 DEF Purchase, histVars
<1> QED BY <1>2, <1>3, <1>4, <1>5, <1>6, <1>7, <1>8 DEF Writes

\* While request r waits with an answer, no step of the others takes the device
\* from its hardware without a trace or a new credential.
LEMMA OthersKeepTheHolder ==
  ASSUME SlotInv, [Next]_vars, NEW r \in Requests,
         pc'[r] = pc[r], dev'[r] = dev[r], hw'[r] = hw[r], read'[r] = read[r]
  PROVE  ServesTheHolder(r)'
<1> DEFINE d == dev[r]
<1> SUFFICES ASSUME pc[r] = "serve", read[r] = cred'[d], <<"bind", d>> \notin raced'
             PROVE  hw[r] = hwid'[d]
  BY DEF ServesTheHolder
<1>0. /\ RowsOK /\ ServesTheHolder(r)
      /\ d \in Devices /\ hw[r] \in HWIDs /\ read[r] \in Nat /\ read[r] <= cred[d]
  BY DEF SlotInv, Carries
<1>1. ASSUME hwid'[d] = hwid[d], cred'[d] = cred[d],
             <<"bind", d>> \in raced => <<"bind", d>> \in raced'
      PROVE  hw[r] = hwid'[d]
  BY <1>0, <1>1 DEF ServesTheHolder
<1>2. CASE ~Writes
  BY <1>1, <1>2, OthersOnlyRead DEF rowVars, histVars
<1>3. ASSUME NEW q \in Requests, NEW e \in Devices, Insert(q, e) PROVE hw[r] = hwid'[d]
  BY <1>1, <1>3 DEF Insert
<1>4. ASSUME NEW q \in Requests, StoreLink(q) PROVE hw[r] = hwid'[d]
  BY <1>1, <1>4 DEF StoreLink
<1>5. ASSUME NEW q \in Requests, Bind(q) PROVE hw[r] = hwid'[d]
  <2>1. CASE dev[q] = d
    <3>1. hwid[d] = None /\ cred[d] = cred'[d] /\ <<"bind", d>> \notin raced
      BY <1>5, <2>1, CleanBinding
    <3>2. hw[r] = None
      BY <1>0, <3>1 DEF ServesTheHolder
    <3> QED BY <1>0, <3>2, NoneIsNothing
  <2>2. CASE dev[q] # d
    <3>1. hwid'[d] = hwid[d] /\ cred'[d] = cred[d]
      BY <1>0, <1>5, <2>2, CleanBinding DEF RowsOK
    <3> QED BY <1>1, <1>5, <3>1, CleanBinding
  <2> QED BY <2>1, <2>2
<1>6. ASSUME NEW q \in Requests, Serve(q) PROVE hw[r] = hwid'[d]
  BY <1>1, <1>6 DEF Serve, rowVars
<1>7. ASSUME NEW e \in Devices, Rebind(e) PROVE hw[r] = hwid'[d]
  <2>1. CASE e = d
    <3>1. cred'[d] = cred[d] + 1 /\ cred[d] \in Nat
      BY <1>0, <1>7, <2>1 DEF Rebind, RowsOK
    <3> QED BY <1>0, <3>1
  <2>2. CASE e # d
    <3>1. hwid'[d] = hwid[d] /\ cred'[d] = cred[d]
      BY <1>0, <1>7, <2>2 DEF Rebind, RowsOK
    <3>2. <<"bind", d>> \in raced => <<"bind", d>> \in raced'
      BY <1>7, <2>2 DEF Rebind
    <3> QED BY <1>1, <3>1, <3>2
  <2> QED BY <2>1, <2>2
<1>8. ASSUME NEW u \in Users, Purchase(u) PROVE hw[r] = hwid'[d]
  BY <1>1, <1>8 DEF Purchase, histVars
<1> QED BY <1>2, <1>3, <1>4, <1>5, <1>6, <1>7, <1>8 DEF Writes

\* A request comes to its answer by a fetch that found the device bound to its
\* hardware, or by binding the device.
LEMMA ServesStep ==
  ASSUME SlotInv, [Next]_vars, NEW r \in Requests
  PROVE  ServesTheHolder(r)'
<1>0. RowsOK /\ RequestsOK
  BY DEF SlotInv
<1>1. ASSUME pc'[r] # "serve" PROVE ServesTheHolder(r)'
  BY <1>1 DEF ServesTheHolder
<1>2. ASSUME End(r) PROVE pc'[r] # "serve"
  BY <1>0, <1>2 DEF End, RequestsOK
<1>3. ASSUME NEW p, Goto(r, p)
      PROVE  pc'[r] = p /\ dev'[r] = dev[r] /\ hw'[r] = hw[r]
  BY <1>0, <1>3 DEF Goto, RequestsOK
<1>4. ASSUME NEW p, NEW x, NEW h, NEW n, NEW t, Start(r, p, x, h, n, t)
      PROVE  pc'[r] = p /\ dev'[r] = x /\ hw'[r] = h
  BY <1>0, <1>4 DEF Start, RequestsOK
<1>5. ASSUME \/ \E u \in Users : Count(r, u)
             \/ \E d \in Devices : ReadLink(r, d)
      PROVE  ServesTheHolder(r)'
  BY <1>1, <1>4, <1>5 DEF Count, ReadLink
<1>6. ASSUME NEW d \in Devices, NEW h \in HWIDs, Fetch(r, d, h)
      PROVE  ServesTheHolder(r)'
  <2>1. CASE hwid[d] = None
    <3>1. PICK p \in {"trial", "bind"} : Start(r, p, d, h, cred[d], owner[d] \in pending)
      BY <1>6, <2>1 DEF Fetch
    <3> QED BY <1>1, <1>4, <3>1
  <2>2. CASE hwid[d] # None
    <3>1. hwid[d] = h /\ UNCHANGED hwid
      BY <1>6, <2>2 DEF Fetch, Accepted, rowVars
    <3>2. dev'[r] = d /\ hw'[r] = h
      BY <1>4, <1>6 DEF Fetch
    <3> QED BY <3>1, <3>2 DEF ServesTheHolder
  <2> QED BY <2>1, <2>2
<1>7. ASSUME Lock(r) \/ CheckTrial(r) PROVE ServesTheHolder(r)'
  BY <1>1, <1>2, <1>3, <1>7 DEF Lock, CheckTrial
<1>8. ASSUME Bind(r) PROVE ServesTheHolder(r)'
  <2>1. dev'[r] = dev[r] /\ hw'[r] = hw[r]
    BY <1>3, <1>8 DEF Bind
  <2>2. hwid'[dev[r]] = hw[r]
    BY <1>0, <1>8, CleanBinding DEF RowsOK
  <2> QED BY <2>1, <2>2 DEF ServesTheHolder
<1>9. ASSUME \/ LimitReached(r) \/ StoreLink(r) \/ BindFails(r) \/ Serve(r) \/ NoRoute(r)
             \/ \E d \in Devices : Insert(r, d)
      PROVE  ServesTheHolder(r)'
  BY <1>1, <1>2, <1>9 DEF LimitReached, Insert, StoreLink, BindFails, Serve, NoRoute, Answer
<1>10. ASSUME Request(r) PROVE ServesTheHolder(r)'
  BY <1>5, <1>6, <1>7, <1>8, <1>9, <1>10 DEF Request
<1>11. CASE UNCHANGED reqVars
  BY <1>11, OthersKeepTheHolder DEF reqVars
<1> QED BY <1>0, <1>10, <1>11, OneRequestMoves, OthersKeepTheHolder

-----------------------------------------------------------------------------
(* The theorems *)

LEMMA InitSlots == Init => SlotInv
<1> SUFFICES ASSUME Init PROVE SlotInv
  OBVIOUS
<1>1. RowsOK
  BY DEF Init, RowsOK
<1>2. RequestsOK
  BY DEF Init, RequestsOK
<1>3. \A q \in Requests : Carries(q) /\ ServesTheHolder(q)
  BY DEF Init, Carries, ServesTheHolder
<1>4. LimitUnlessRaced
  BY DEF Init, LimitUnlessRaced
<1>5. OnePrint /\ OneHolderUnlessRaced /\ LinksWorkUnlessRaced
  BY DEF Init, OnePrint, OneHolderUnlessRaced, LinksWorkUnlessRaced
<1> QED BY <1>1, <1>2, <1>3, <1>4, <1>5 DEF SlotInv

LEMMA SlotInvAlways == Spec => []SlotInv
<1>1. SlotInv /\ [Next]_vars => SlotInv'
  BY RowsStep, RequestsStep, CarriesStep, ServesStep, LimitStep, PrintStep, HolderStep, LinkStep
     DEF SlotInv
<1> QED BY InitSlots, <1>1, PTL DEF Spec

\* No user has more devices than the plan allows unless two createDevice of that
\* user overlapped: the count is taken before the lock is waited for, and that
\* is the only gap.
THEOREM DeviceLimitHolds == Spec => []LimitUnlessRaced
<1>1. SlotInv => LimitUnlessRaced
  BY DEF SlotInv
<1> QED BY SlotInvAlways, <1>1, PTL

\* A piece of hardware gets one trial unless two first fetches from it overlapped
\* between the look at trial_fingerprints and the insert (subscriptionDocument).
THEOREM HardwareHasOneTrial == Spec => []OneTrialUnlessRaced
<1>1. SlotInv => OneTrialUnlessRaced
  <2> SUFFICES ASSUME SlotInv, NEW h \in HWIDs, <<"trial", h>> \notin raced
               PROVE  Cardinality({p \in prints : p[2] = h}) <= 1
    BY DEF OneTrialUnlessRaced
  <2> DEFINE P == {p \in prints : p[2] = h}
  <2>1. \A p, r \in P : p = r
    BY DEF SlotInv, OnePrint
  <2>2. CASE P = {}
    BY <2>2, FS_EmptySet
  <2>3. CASE P # {}
    <3>1. PICK p : p \in P
      BY <2>3
    <3>2. P = {p}
      BY <2>1, <3>1
    <3>3. Cardinality({p}) = 1
      BY FS_Singleton
    <3> QED BY <3>2, <3>3
  <2> QED BY <2>2, <2>3
<1> QED BY SlotInvAlways, <1>1, PTL

\* The credential of a device is answered to no hardware but the one the device
\* is bound to, unless a binding overlapped another or a rebinding: neither a
\* late answer nor a trial in between gives it away (subscriptionDocument,
\* rebindDevice).
THEOREM CredentialHasOneHolder == Spec => []OneHolderUnlessRaced
<1>1. SlotInv => OneHolderUnlessRaced
  BY DEF SlotInv
<1> QED BY SlotInvAlways, <1>1, PTL

\* Every link that was answered is the one stored, unless two requests made the
\* missing link of a device at the same time (createDevice, deviceSubscription).
THEOREM AnsweredLinksWork == Spec => []LinksWorkUnlessRaced
<1>1. SlotInv => LinksWorkUnlessRaced
  BY DEF SlotInv
<1> QED BY SlotInvAlways, <1>1, PTL

=============================================================================
