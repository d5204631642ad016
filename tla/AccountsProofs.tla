--------------------------- MODULE AccountsProofs ---------------------------
(***************************************************************************)
(* Sessions and roles for any number of users, tokens, requests and        *)
(* failures.  The proofs rest on what the requests in flight still hold: a *)
(* session read before a logout, or with the second factor shown, or the   *)
(* outcome of a check.                                                     *)
(***************************************************************************)
EXTENDS Accounts, FiniteSetTheorems, TLAPS

\* The functions of the state have the domains they start with.
Shape ==
  /\ row = [t \in Tokens |-> row[t]] /\ cache = [t \in Tokens |-> cache[t]]
  /\ pc = [q \in Requests |-> pc[q]] /\ tok = [q \in Requests |-> tok[q]]
  /\ ses = [q \in Requests |-> ses[q]]
  /\ \A q \in Requests : pc[q] # "idle" => tok[q] \in Tokens

\* A session that claims a second factor, in Redis or in a request's hands,
\* is one in which a code was accepted.
ClaimsAreProved ==
  /\ \A t \in Tokens : cache[t] # None /\ cache[t].mfa => t \in proved
  /\ \A q \in Requests : ses[q].mfa => pc[q] # "idle" /\ tok[q] \in proved

AdminInv == Shape /\ ClaimsAreProved /\ AdminsAreVerified

\* What a logout that has met nothing relies on: it is alone with its token
\* from its first write on, and afterwards only another logout uses it.
LogoutIsAlone ==
  \A t \in Tokens \ slip :
    /\ t \in out => /\ cache[t] = None /\ row[t] = "revoked"
                    /\ \A p \in Requests : tok[p] = t => pc[p] = "revoke"
    /\ \A q \in Requests : pc[q] = "revoke" /\ tok[q] = t =>
         /\ cache[t] = None /\ row[t] # "none"
         /\ \A p \in Requests \ {q} : tok[p] # t

LogoutInv == Shape /\ out \subseteq Tokens /\ LogoutIsAlone
-----------------------------------------------------------------------------
\* Each step keeps the shape of the state.
LEMMA ShapeStep ==
  ASSUME Shape, [Next]_vars
  PROVE  Shape'
<1> USE DEF Shape
<1>0. None \notin Tokens
  BY NoneIsNothing
<1>1. ASSUME NEW t \in Tokens, Login(t) \/ Evict(t) PROVE Shape'
  BY <1>1 DEF Login, Evict, reqVars
<1>2. ASSUME NEW q \in Requests, NEW t \in Tokens, ReadCache(q, t) PROVE Shape'
  BY <1>2 DEF ReadCache, Goto, sesVars
<1>3. ASSUME NEW q \in Requests, NEW t \in Tokens, ReadRow(q, t) PROVE Shape'
  BY <1>3 DEF ReadRow, Goto, sesVars
<1>4. ASSUME NEW q \in Requests, NEW t \in Tokens, Logout(q, t) PROVE Shape'
  BY <1>4 DEF Logout, Goto
<1>5. ASSUME NEW q \in Requests, Fill(q) PROVE Shape'
  BY <1>5 DEF Fill, Goto
<1>6. ASSUME NEW q \in Requests, Revoke(q) PROVE Shape'
  BY <1>6 DEF Revoke, End, Goto
<1>7. ASSUME NEW q \in Requests, Leave(q) \/ MFASetup(q) \/ Refuse(q) \/ Write(q) PROVE Shape'
  BY <1>7 DEF Leave, MFASetup, Refuse, Write, End, Goto, sesVars
<1>8. ASSUME NEW q \in Requests, MFAVerify(q) PROVE Shape'
  BY <1>8 DEF MFAVerify, Goto, sesVars
<1>9. ASSUME NEW q \in Requests, UpdateCurrentSession(q) PROVE Shape'
  BY <1>9 DEF UpdateCurrentSession, End, Goto
<1>10. ASSUME NEW q \in Requests, NEW j \in Job, Enter(q, j) PROVE Shape'
  BY <1>10 DEF Enter, Goto, sesVars
<1>11. ASSUME NEW q \in Requests, Check(q) \/ DeleteRoles(q) PROVE Shape'
  BY <1>11 DEF Check, DeleteRoles, Goto, sesVars
<1>12. CASE UNCHANGED vars
  BY <1>12 DEF vars, sesVars, reqVars
<1> QED
  BY <1>1, <1>2, <1>3, <1>4, <1>5, <1>6, <1>7, <1>8, <1>9, <1>10, <1>11, <1>12 DEF Next, Request

\* A claim of a second factor is only passed on, or made with a code.
LEMMA ClaimsStep ==
  ASSUME AdminInv, [Next]_vars
  PROVE  ClaimsAreProved' /\ AdminsAreVerified'
<1> DEFINE Goal == ClaimsAreProved' /\ AdminsAreVerified'
<1> USE DEF AdminInv, Shape, ClaimsAreProved, AdminsAreVerified
<1>0. ~NoSession.mfa
  BY DEF NoSession
<1>1. ASSUME NEW t \in Tokens, Login(t) \/ Evict(t) PROVE Goal
  BY <1>1 DEF Login, Evict, reqVars, logVars
<1>2. ASSUME NEW q \in Requests, NEW t \in Tokens, ReadCache(q, t) PROVE Goal
  BY <1>2 DEF ReadCache, Goto, sesVars, logVars
<1>3. ASSUME NEW q \in Requests, NEW t \in Tokens, ReadRow(q, t) PROVE Goal
  <2>1. ~Restored(t).mfa
    BY DEF Restored
  <2> QED  BY <1>3, <2>1 DEF ReadRow, Goto, sesVars
<1>4. ASSUME NEW q \in Requests, NEW t \in Tokens, Logout(q, t) PROVE Goal
  BY <1>4 DEF Logout, Goto
<1>5. ASSUME NEW q \in Requests, Fill(q) PROVE Goal
  BY <1>5 DEF Fill, Goto, logVars
<1>6. ASSUME NEW q \in Requests, Revoke(q) PROVE Goal
  BY <1>0, <1>6 DEF Revoke, End, Goto
<1>7. ASSUME NEW q \in Requests, Leave(q) \/ MFASetup(q) \/ Refuse(q) \/ Write(q) PROVE Goal
  BY <1>0, <1>7 DEF Leave, MFASetup, Refuse, Write, End, Goto, sesVars, logVars
<1>8. ASSUME NEW q \in Requests, MFAVerify(q) PROVE Goal
  BY <1>8 DEF MFAVerify, Goto, sesVars
<1>9. ASSUME NEW q \in Requests, UpdateCurrentSession(q) PROVE Goal
  BY <1>0, <1>9 DEF UpdateCurrentSession, End, Goto, logVars
<1>10. ASSUME NEW q \in Requests, NEW j \in Job, Enter(q, j) PROVE Goal
  BY <1>10 DEF Enter, Allowed, Goto, sesVars, logVars
<1>11. ASSUME NEW q \in Requests, Check(q) \/ DeleteRoles(q) PROVE Goal
  BY <1>11 DEF Check, DeleteRoles, Goto, sesVars, logVars
<1>12. CASE UNCHANGED vars
  BY <1>12 DEF vars, sesVars, reqVars, logVars
<1> QED
  BY <1>1, <1>2, <1>3, <1>4, <1>5, <1>6, <1>7, <1>8, <1>9, <1>10, <1>11, <1>12 DEF Next, Request

(* Whoever administers has shown a second factor in that very session,      *)
(* whatever was evicted from Redis and restored meanwhile (requireRole,     *)
(* readSession, adminMFAVerify).                                            *)
THEOREM AdminsHaveShownACode == Spec => []AdminsAreVerified
<1>1. Init => AdminInv
  <2>1. ~NoSession.mfa
    BY DEF NoSession
  <2> QED  BY <2>1 DEF Init, AdminInv, Shape, ClaimsAreProved, AdminsAreVerified
<1>2. AdminInv /\ [Next]_vars => AdminInv'
  BY ShapeStep, ClaimsStep DEF AdminInv
<1>3. AdminInv => AdminsAreVerified
  BY DEF AdminInv
<1> QED  BY <1>1, <1>2, <1>3, PTL DEF Spec
-----------------------------------------------------------------------------
\* No step lets a request at work in a session meet its logout unnoticed.
LEMMA LogoutStep ==
  ASSUME LogoutInv, [Next]_vars
  PROVE  (out \subseteq Tokens)' /\ LogoutIsAlone'
<1> DEFINE Goal == (out \subseteq Tokens)' /\ LogoutIsAlone'
<1> USE DEF LogoutInv, Shape, LogoutIsAlone
<1> DEFINE Only(q) == \A p \in Requests \ {q} : pc'[p] = pc[p] /\ tok'[p] = tok[p]
<1>0. None \notin Tokens
  BY NoneIsNothing
<1>1. ASSUME NEW t \in Tokens, Login(t) \/ Evict(t) PROVE Goal
  BY <1>1 DEF Login, Evict, reqVars, logVars
<1>2. ASSUME NEW q \in Requests, NEW t \in Tokens, ReadCache(q, t) PROVE Goal
  <2>1. /\ pc'[q] = "session" /\ tok'[q] = t /\ Only(q)
        /\ cache[t] # None /\ UNCHANGED <<cache, row, out, slip>>
    BY <1>2 DEF ReadCache, Goto, sesVars, logVars
  <2> QED  BY <2>1
<1>3. ASSUME NEW q \in Requests, NEW t \in Tokens, ReadRow(q, t) PROVE Goal
  <2>1. /\ pc'[q] = "fill" /\ tok'[q] = t /\ Only(q)
        /\ row[t] = "valid" /\ UNCHANGED <<cache, row, out>> /\ slip \subseteq slip'
        /\ (\E p \in Requests : pc[p] = "revoke" /\ tok[p] = t) => t \in slip'
    BY <1>3 DEF ReadRow, Goto, sesVars
  <2> QED  BY <2>1
<1>4. ASSUME NEW q \in Requests, NEW t \in Tokens, Logout(q, t) PROVE Goal
  <2>1. /\ pc'[q] = "revoke" /\ tok'[q] = t /\ Only(q)
        /\ row[t] # "none" /\ UNCHANGED <<row, out>> /\ slip \subseteq slip'
        /\ \A u \in Tokens \ {t} : cache'[u] = cache[u]
        /\ t \in slip' \/ (cache'[t] = None /\ ~Busy(q, t))
    BY <1>4 DEF Logout, Goto
  <2> QED  BY <2>1 DEF Busy
<1>5. ASSUME NEW q \in Requests, Fill(q) PROVE Goal
  BY <1>5 DEF Fill, Goto, logVars
<1>6. ASSUME NEW q \in Requests, Revoke(q) PROVE Goal
  <2> DEFINE t == tok[q]
  <2>1. /\ t \in Tokens /\ pc[q] = "revoke" /\ tok'[q] = None /\ pc'[q] = "idle" /\ Only(q)
        /\ out' = out \cup {t} /\ UNCHANGED cache /\ slip \subseteq slip'
        /\ \A u \in Tokens \ {t} : row'[u] = row[u]
        /\ t \in slip' \/ (row'[t] = "revoked" /\ ~Busy(q, t))
    BY <1>6 DEF Revoke, End, Goto
  <2> QED  BY <1>0, <2>1 DEF Busy
<1>7. ASSUME NEW q \in Requests, Leave(q) \/ MFASetup(q) \/ Refuse(q) \/ Write(q) PROVE Goal
  BY <1>0, <1>7 DEF Leave, MFASetup, Refuse, Write, End, Goto, sesVars, logVars
<1>8. ASSUME NEW q \in Requests, MFAVerify(q) PROVE Goal
  BY <1>8 DEF MFAVerify, Goto, sesVars
<1>9. ASSUME NEW q \in Requests, UpdateCurrentSession(q) PROVE Goal
  <2>1. /\ tok[q] \in Tokens /\ pc[q] = "update" /\ tok'[q] = None /\ pc'[q] = "idle" /\ Only(q)
        /\ UNCHANGED <<row, out, slip>>
        /\ \A u \in Tokens \ {tok[q]} : cache'[u] = cache[u]
    BY <1>9 DEF UpdateCurrentSession, End, Goto, logVars
  <2> QED  BY <1>0, <2>1
<1>10. ASSUME NEW q \in Requests, NEW j \in Job, Enter(q, j) PROVE Goal
  BY <1>10 DEF Enter, Goto, sesVars, logVars
<1>11. ASSUME NEW q \in Requests, Check(q) \/ DeleteRoles(q) PROVE Goal
  BY <1>11 DEF Check, DeleteRoles, Goto, sesVars, logVars
<1>12. CASE UNCHANGED vars
  BY <1>12 DEF vars, sesVars, reqVars, logVars
<1> QED
  BY <1>1, <1>2, <1>3, <1>4, <1>5, <1>6, <1>7, <1>8, <1>9, <1>10, <1>11, <1>12 DEF Next, Request

(* A logout whose writes succeed and that meets no other request of its     *)
(* session is final: no later read of Redis or of auth_sessions revives it  *)
(* (logout, readSession).                                                   *)
THEOREM LogoutIsFinal == Spec => []LoggedOutUnlessSlipped
<1>1. Init => LogoutInv
  BY DEF Init, LogoutInv, Shape, LogoutIsAlone
<1>2. LogoutInv /\ [Next]_vars => LogoutInv'
  BY ShapeStep, LogoutStep DEF LogoutInv
<1>3. LogoutInv => LoggedOutUnlessSlipped
  BY DEF LogoutInv, LogoutIsAlone, LoggedOutUnlessSlipped
<1> QED  BY <1>1, <1>2, <1>3, PTL DEF Spec
-----------------------------------------------------------------------------
(* Roles *)

RoleShape ==
  /\ roles \in [Users -> SUBSET Roles]
  /\ pc = [q \in Requests |-> pc[q]] /\ tok = [q \in Requests |-> tok[q]]
  /\ job = [q \in Requests |-> job[q]] /\ del = [q \in Requests |-> del[q]]
  /\ fresh \in [Requests -> BOOLEAN] /\ raced \in BOOLEAN
  /\ \A q \in Requests :
      /\ pc[q] \in {"check", "delete", "write"} => job[q] \in Job
      /\ pc[q] = "delete" => job[q].op = "set"

\* An administrator has one role and a blocked user none; somebody is owner.
SoundRoles ==
  /\ \A u \in Users : roles[u] = {} \/ \E r \in Roles : roles[u] = {r}
  /\ \A u \in Users \cap blocked : roles[u] = {}
  /\ Owners # {}

\* As long as nothing has changed, what a request has checked still holds and
\* what it has deleted is all there was.
FreshIsChecked ==
  \A q \in Requests : fresh[q] =>
    /\ pc[q] \in {"delete", "write"} => Checked(q)
    /\ pc[q] = "write" /\ job[q].op = "set" => del[q] = roles[job[q].user]

RoleInv == RoleShape /\ FreshIsChecked /\ (~raced => SoundRoles)

(* More than one owner means another one, whoever is taken away.            *)
LEMMA AnotherOwner ==
  ASSUME NEW u, Cardinality(Owners) > 1
  PROVE  \E w \in Owners : w # u
<1> SUFFICES ASSUME Owners \subseteq {u} PROVE FALSE
  OBVIOUS
<1>1. IsFiniteSet({u}) /\ Cardinality({u}) = 1
  BY FS_Singleton
<1>2. Cardinality(Owners) \in Nat /\ Cardinality(Owners) <= 1
  BY <1>1, FS_Subset, FS_CardinalityType
<1> QED
  BY <1>2

(* Whom a check lets go is not the only owner, if roles are sound: then the *)
(* LIMIT 1 of the query is no choice.                                       *)
LEMMA RemovableLeavesAnOwner ==
  ASSUME SoundRoles, NEW u \in Users, "owner" \in roles[u] => Removable(u)
  PROVE  \E w \in Users : w # u /\ "owner" \in roles[w]
<1>1. CASE "owner" \notin roles[u]
  BY <1>1 DEF SoundRoles, Owners
<1>2. CASE "owner" \in roles[u]
  <2>1. roles[u] = {"owner"}
    BY <1>2 DEF SoundRoles
  <2>2. Cardinality(Owners) > 1
    BY <1>2, <2>1 DEF Removable
  <2> QED
    BY <2>2, AnotherOwner DEF Owners
<1> QED
  BY <1>1, <1>2

(* What was checked holds as long as roles and statuses stay.               *)
LEMMA CheckedStays ==
  ASSUME NEW q \in Requests, Checked(q),
         roles' = roles, blocked' = blocked, job'[q] = job[q], tok'[q] = tok[q]
  PROVE  Checked(q)'
<1>1. Owners' = Owners
  BY DEF Owners
<1>2. \A u : Removable(u)' = Removable(u)
  BY <1>1 DEF Removable
<1> QED
  BY <1>2 DEF Checked, User

\* A request q goes on and changes no role and no status; the others wait.
QuietStep(q) ==
  /\ UNCHANGED <<roles, blocked, raced>>
  /\ pc' = [p \in Requests |-> pc'[p]] /\ tok' = [p \in Requests |-> tok'[p]]
  /\ job' = [p \in Requests |-> job'[p]] /\ del' = [p \in Requests |-> del'[p]]
  /\ fresh' \in [Requests -> BOOLEAN]
  /\ \A p \in Requests \ {q} :
      /\ pc'[p] = pc[p] /\ tok'[p] = tok[p] /\ job'[p] = job[p] /\ del'[p] = del[p]
      /\ fresh'[p] = fresh[p]

LEMMA QuietStepKeepsRoles ==
  ASSUME RoleInv, NEW q, QuietStep(q),
         q \in Requests =>
           /\ pc'[q] \in {"check", "delete", "write"} => job'[q] \in Job
           /\ pc'[q] = "delete" => job'[q].op = "set"
           /\ fresh'[q] /\ pc'[q] \in {"delete", "write"} => Checked(q)'
           /\ fresh'[q] /\ pc'[q] = "write" /\ job'[q].op = "set" =>
                del'[q] = roles[job'[q].user]
  PROVE  RoleInv'
<1> USE DEF RoleInv, QuietStep
<1>1. RoleShape'
  BY DEF RoleShape
<1>2. SoundRoles => SoundRoles'
  BY DEF SoundRoles, Owners
<1>3. FreshIsChecked'
  <2> SUFFICES ASSUME NEW p \in Requests, fresh'[p]
               PROVE  /\ pc'[p] \in {"delete", "write"} => Checked(p)'
                      /\ pc'[p] = "write" /\ job'[p].op = "set" => del'[p] = roles'[job'[p].user]
    BY DEF FreshIsChecked
  <2>1. CASE p = q
    BY <2>1
  <2>2. CASE p # q
    <3>1. fresh[p] /\ pc'[p] = pc[p] /\ job'[p] = job[p] /\ tok'[p] = tok[p] /\ del'[p] = del[p]
      BY <2>2
    <3> QED
      BY <3>1, CheckedStays DEF FreshIsChecked
  <2> QED
    BY <2>1, <2>2
<1> QED
  BY <1>1, <1>2, <1>3

(* A change that nothing has overtaken since its check keeps roles sound.   *)
LEMMA WriteKeepsRolesSound ==
  ASSUME RoleInv, NEW q \in Requests, Write(q), ~raced'
  PROVE  SoundRoles'
<1> DEFINE j == job[q]
           u == job[q].user
<1> USE DEF RoleInv
<1>1. ~raced /\ fresh[q] /\ pc[q] = "write"
  BY DEF Write, RoleShape
<1>2. j \in Job /\ u \in Users /\ SoundRoles /\ Checked(q)
  BY <1>1 DEF RoleShape, FreshIsChecked, Job
<1>3. \A w \in Users \ {u} : roles'[w] = roles[w]
  BY <1>2 DEF Write, RoleShape
<1>4. CASE j.op = "set"
  <2>1. del[q] = roles[u] /\ blocked' = blocked /\ u \notin blocked /\ j.role \in Roles
    BY <1>1, <1>2, <1>4 DEF FreshIsChecked, Write, Checked, Job
  <2>2. roles'[u] = {j.role}
    BY <1>2, <1>4, <2>1 DEF Write, RoleShape
  <2>3. Owners' # {}
    <3>1. CASE j.role = "owner"
      BY <1>2, <2>2, <3>1 DEF Owners
    <3>2. CASE j.role # "owner"
      BY <1>2, <1>3, <1>4, <3>2, RemovableLeavesAnOwner DEF Checked, Owners
    <3> QED
      BY <3>1, <3>2
  <2> QED
    BY <1>2, <1>3, <2>1, <2>2, <2>3 DEF SoundRoles
<1>5. CASE j.op = "remove"
  <2>1. roles'[u] = {} /\ blocked' = blocked
    BY <1>2, <1>5 DEF Write, RoleShape
  <2>2. Owners' # {}
    BY <1>2, <1>3, <1>5, RemovableLeavesAnOwner DEF Checked, Owners
  <2> QED
    BY <1>2, <1>3, <2>1, <2>2 DEF SoundRoles
<1>6. CASE j.op \in {"block", "unblock"}
  <2>1. roles' = roles
    BY <1>2, <1>6 DEF Write, RoleShape
  <2>2. blocked' \subseteq blocked \cup {u} /\ (blocked' \subseteq blocked \/ roles[u] = {})
    BY <1>2, <1>6 DEF Write, Checked
  <2> QED
    BY <1>2, <2>1, <2>2 DEF SoundRoles, Owners
<1> QED
  BY <1>2, <1>4, <1>5, <1>6 DEF Job

LEMMA WriteKeepsRoles ==
  ASSUME RoleInv, NEW q \in Requests, Write(q)
  PROVE  RoleInv'
<1> USE DEF RoleInv
<1>1. job[q] \in Job
  BY DEF RoleShape, Write
<1>2. CASE UNCHANGED <<roles, blocked>>
  <2>1. FreshIsChecked'
    <3> SUFFICES ASSUME NEW p \in Requests, fresh'[p]
                 PROVE  /\ pc'[p] \in {"delete", "write"} => Checked(p)'
                        /\ pc'[p] = "write" /\ job'[p].op = "set" => del'[p] = roles'[job'[p].user]
      BY DEF FreshIsChecked
    <3>1. fresh[p] /\ (p = q => pc'[p] = "idle")
      BY <1>2 DEF Write, End, Goto, RoleShape
    <3>2. p # q => pc'[p] = pc[p] /\ tok'[p] = tok[p] /\ job'[p] = job[p] /\ del'[p] = del[p]
      BY DEF Write, End, Goto, RoleShape
    <3> QED
      BY <1>2, <3>1, <3>2, CheckedStays DEF FreshIsChecked
  <2>2. RoleShape'
    BY <1>2 DEF Write, End, Goto, RoleShape
  <2> QED
    BY <2>1, <2>2, WriteKeepsRolesSound
<1>3. CASE ~UNCHANGED <<roles, blocked>>
  <2>1. fresh' = [p \in Requests |-> FALSE]
    BY <1>3 DEF Write
  <2>2. roles' \in [Users -> SUBSET Roles]
    BY <1>1 DEF Write, RoleShape, Job
  <2>3. RoleShape'
    BY <2>1, <2>2 DEF Write, End, Goto, RoleShape
  <2>4. FreshIsChecked'
    BY <2>1 DEF FreshIsChecked
  <2> QED
    BY <2>3, <2>4, WriteKeepsRolesSound
<1> QED
  BY <1>2, <1>3

LEMMA RoleInvStep == RoleInv /\ [Next]_vars => RoleInv'
<1> SUFFICES ASSUME RoleInv, [Next]_vars PROVE RoleInv'
  OBVIOUS
<1> USE DEF QuietStep
<1>0. RoleShape /\ FreshIsChecked
  BY DEF RoleInv
<1>1. ASSUME NEW t \in Tokens, Login(t) \/ Evict(t) PROVE RoleInv'
  <2>1. \A q : QuietStep(q)
    BY <1>0, <1>1 DEF Login, Evict, reqVars, acctVars, RoleShape
  <2>2. \E q : q \notin Requests
    BY NoSetContainsEverything
  <2> QED
    BY <2>1, <2>2, QuietStepKeepsRoles
<1>2. ASSUME NEW q \in Requests, NEW t \in Tokens,
             ReadCache(q, t) \/ ReadRow(q, t) \/ Logout(q, t)
      PROVE  RoleInv'
  <2>1. QuietStep(q) /\ pc'[q] \in {"session", "fill", "revoke"}
    BY <1>0, <1>2 DEF ReadCache, ReadRow, Logout, Goto, acctVars, RoleShape
  <2> QED
    BY <2>1, QuietStepKeepsRoles
<1>3. ASSUME NEW q \in Requests, Fill(q) \/ MFAVerify(q) PROVE RoleInv'
  <2>1. QuietStep(q) /\ pc'[q] \in {"session", "update"}
    BY <1>0, <1>3 DEF Fill, MFAVerify, Goto, acctVars, RoleShape
  <2> QED
    BY <2>1, QuietStepKeepsRoles
<1>4. ASSUME NEW q \in Requests,
             Revoke(q) \/ Leave(q) \/ MFASetup(q) \/ UpdateCurrentSession(q) \/ Refuse(q)
      PROVE  RoleInv'
  <2>1. QuietStep(q) /\ pc'[q] = "idle"
    BY <1>0, <1>4 DEF Revoke, Leave, MFASetup, UpdateCurrentSession, Refuse, End, Goto, acctVars,
         RoleShape
  <2> QED
    BY <2>1, QuietStepKeepsRoles
<1>5. ASSUME NEW q \in Requests, NEW j \in Job, Enter(q, j) PROVE RoleInv'
  <2>1. QuietStep(q) /\ pc'[q] = "check" /\ job'[q] = j
    BY <1>0, <1>5 DEF Enter, Goto, acctVars, RoleShape
  <2> QED
    BY <2>1, QuietStepKeepsRoles
<1>6. ASSUME NEW q \in Requests, Check(q) PROVE RoleInv'
  <2>1. /\ QuietStep(q) /\ Checked(q) /\ tok'[q] = tok[q]
        /\ job[q] \in Job /\ job'[q] = job[q] /\ del'[q] = del[q]
        /\ pc'[q] = IF job[q].op = "set" THEN "delete" ELSE "write"
    BY <1>0, <1>6 DEF Check, Goto, acctVars, RoleShape
  <2>2. Checked(q)'
    BY <2>1, CheckedStays
  <2> QED
    BY <2>1, <2>2, QuietStepKeepsRoles
<1>7. ASSUME NEW q \in Requests, DeleteRoles(q) PROVE RoleInv'
  <2>1. /\ QuietStep(q) /\ pc[q] = "delete" /\ pc'[q] = "write" /\ tok'[q] = tok[q]
        /\ job[q] \in Job /\ job'[q] = job[q] /\ del'[q] = roles[job[q].user]
        /\ fresh'[q] = fresh[q]
    BY <1>0, <1>7 DEF DeleteRoles, Goto, acctVars, RoleShape
  <2>2. fresh[q] => Checked(q)'
    BY <1>0, <2>1, CheckedStays DEF FreshIsChecked
  <2> QED
    BY <2>1, <2>2, QuietStepKeepsRoles
<1>8. ASSUME NEW q \in Requests, Write(q) PROVE RoleInv'
  BY <1>8, WriteKeepsRoles
<1>9. CASE UNCHANGED vars
  <2>1. \A q : QuietStep(q)
    BY <1>0, <1>9 DEF vars, reqVars, acctVars, RoleShape
  <2>2. \E q : q \notin Requests
    BY NoSetContainsEverything
  <2> QED
    BY <2>1, <2>2, QuietStepKeepsRoles
<1> QED
  BY <1>1, <1>2, <1>3, <1>4, <1>5, <1>6, <1>7, <1>8, <1>9 DEF Next, Request

LEMMA RoleInvAlways == Spec => []RoleInv
<1>1. Init => RoleInv
  <2> SUFFICES ASSUME Init PROVE RoleInv
    OBVIOUS
  <2>1. RoleShape /\ FreshIsChecked
    BY FounderIsAUser DEF Init, RoleShape, FreshIsChecked
  <2>2. SoundRoles
    BY FounderIsAUser DEF Init, SoundRoles, Owners
  <2> QED
    BY <2>1, <2>2 DEF RoleInv
<1> QED
  BY <1>1, RoleInvStep, PTL DEF Spec

(* Somebody stays owner, whoever gives away, takes or loses roles, as long  *)
(* as no two changes overlap (setAdminRole, removeAdminRole).               *)
THEOREM SomebodyStaysOwner == Spec => []OwnerUnlessRaced
<1>1. RoleInv => OwnerUnlessRaced
  BY DEF RoleInv, SoundRoles, OwnerUnlessRaced
<1> QED
  BY <1>1, RoleInvAlways, PTL

(* An administrator has one role and a blocked user none, as long as no two *)
(* changes overlap (setAdminRole, updateUserStatus).                        *)
THEOREM RolesStaySound == Spec => []RolesAreSoundUnlessRaced
<1>1. RoleInv => RolesAreSoundUnlessRaced
  <2> SUFFICES ASSUME RoleInv, ~raced, NEW u \in Users
               PROVE  Cardinality(roles[u]) <= (IF u \in blocked THEN 0 ELSE 1)
    BY DEF RolesAreSoundUnlessRaced
  <2>1. CASE roles[u] = {}
    BY <2>1, FS_EmptySet
  <2>2. CASE roles[u] # {}
    <3>1. u \notin blocked /\ \E r \in Roles : roles[u] = {r}
      BY <2>2 DEF RoleInv, SoundRoles
    <3>2. Cardinality(roles[u]) = 1
      BY <3>1, FS_Singleton
    <3> QED
      BY <3>1, <3>2
  <2> QED
    BY <2>1, <2>2
<1> QED
  BY <1>1, RoleInvAlways, PTL
=============================================================================
