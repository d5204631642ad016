------------------------------ MODULE Accounts ------------------------------
(***************************************************************************)
(* Who is logged in and who administers: sessions, kept in PostgreSQL and  *)
(* cached in Redis (`readSession`, `issueSession`, `logout`), the second   *)
(* factor of administrators (mfa.go), their roles (`setAdminRole`,         *)
(* `removeAdminRole`) and the blocking of users (`updateUserStatus`).      *)
(*                                                                         *)
(* A request runs as a sequence of calls to Redis and to the database, and *)
(* others run between any two of them.                                     *)
(***************************************************************************)
EXTENDS Integers, FiniteSets

CONSTANTS
  Users,
  Founder,     \* the owner the system is set up with
  Tokens,      \* session tokens
  Holder,      \* Holder[t]: who logs in with t
  Requests,    \* requests in flight
  Roles,       \* "owner" and others
  None,
  MaxFaults    \* bound: Redis entries lost and writes of logout that fail

ASSUME FounderIsAUser == Founder \in Users /\ "owner" \in Roles
ASSUME TokensAreHeld == Holder \in [Tokens -> Users]
ASSUME NoneIsNothing == None \notin Users \cup Tokens \cup Roles
ASSUME FaultsAreCounted == MaxFaults \in Nat

VARIABLES
  roles,     \* roles[u]: rows of user_roles; the key is (user, role)
  blocked,   \* users whose status is 'blocked'
  totp,      \* users with a row in admin_totp
  row,       \* row[t]: auth_sessions
  cache,     \* cache[t]: the session in Redis, or None
  pc, tok,   \* of each request: where it is, its token
  ses,       \* the session it has read
  job,       \* what it does to whom
  del,       \* the roles its DELETE has found
  fresh,     \* history: no role or status has changed since it looked
  out,       \* history: tokens whose logout is answered
  slip,      \* history: tokens whose logout met a failure or another request
  proved,    \* history: tokens in which a code was accepted
  raced,     \* history: a change was written that was checked before another
  faults

acctVars == <<roles, blocked, totp>>
sesVars == <<row, cache>>
reqVars == <<pc, tok, ses, job, del>>
logVars == <<out, slip, proved>>
vars == <<acctVars, sesVars, reqVars, fresh, logVars, raced, faults>>

Session == [staff : BOOLEAN, mfa : BOOLEAN]
NoSession == [staff |-> FALSE, mfa |-> FALSE]
Job == [op : {"set"}, user : Users, role : Roles]
       \cup [op : {"remove", "block", "unblock"}, user : Users, role : {None}]

Init ==
  /\ roles = [u \in Users |-> IF u = Founder THEN {"owner"} ELSE {}]
  /\ blocked = {} /\ totp = {}
  /\ row = [t \in Tokens |-> "none"] /\ cache = [t \in Tokens |-> None]
  /\ pc = [q \in Requests |-> "idle"] /\ tok = [q \in Requests |-> None]
  /\ ses = [q \in Requests |-> NoSession] /\ job = [q \in Requests |-> None]
  /\ del = [q \in Requests |-> {}] /\ fresh = [q \in Requests |-> FALSE]
  /\ out = {} /\ slip = {} /\ proved = {} /\ raced = FALSE /\ faults = 0

User(q) == Holder[tok[q]]
Owners == {u \in Users : "owner" \in roles[u]}

\* A request goes on to step s, or ends.
Goto(q, s) == pc' = [pc EXCEPT ![q] = s]
End(q) ==
  /\ Goto(q, "idle")
  /\ tok' = [tok EXCEPT ![q] = None] /\ ses' = [ses EXCEPT ![q] = NoSession]
  /\ job' = [job EXCEPT ![q] = None] /\ del' = [del EXCEPT ![q] = {}]
-----------------------------------------------------------------------------
(* Sessions *)

\* telegramCallback and issueSession.  Nobody has the token before both
\* writes are done.
Login(t) ==
  /\ row[t] = "none"
  /\ row' = [row EXCEPT ![t] = "valid"]
  /\ cache' = [cache EXCEPT ![t] = [staff |-> roles[Holder[t]] # {}, mfa |-> FALSE]]
  /\ UNCHANGED <<acctVars, reqVars, fresh, logVars, raced, faults>>

\* readSession finds the session in Redis ...
ReadCache(q, t) ==
  /\ pc[q] = "idle" /\ cache[t] # None
  /\ Goto(q, "session")
  /\ tok' = [tok EXCEPT ![q] = t] /\ ses' = [ses EXCEPT ![q] = cache[t]]
  /\ UNCHANGED <<acctVars, sesVars, job, del, fresh, logVars, raced, faults>>

\* Mutant: whoever has a second factor has shown it.
RestoredWithMFA(t) == [staff |-> roles[Holder[t]] # {}, mfa |-> Holder[t] \in totp]

\* The session as it is read from the database: the second factor has to be
\* shown again.
Restored(t) ==
  [staff |-> roles[Holder[t]] # {}, mfa |-> FALSE]

\* ... or reads it from the database, if it is not revoked,
ReadRow(q, t) ==
  /\ pc[q] = "idle" /\ cache[t] = None
  /\ row[t] = "valid" /\ Holder[t] \notin blocked
  /\ Goto(q, "fill")
  /\ tok' = [tok EXCEPT ![q] = t] /\ ses' = [ses EXCEPT ![q] = Restored(t)]
  /\ slip' = IF \E p \in Requests : pc[p] = "revoke" /\ tok[p] = t
             THEN slip \cup {t} ELSE slip
  /\ UNCHANGED <<acctVars, sesVars, job, del, fresh, out, proved, raced, faults>>

\* and puts it back into Redis.
Fill(q) ==
  /\ pc[q] = "fill" /\ Goto(q, "session")
  /\ cache' = [cache EXCEPT ![tok[q]] = ses[q]]
  /\ UNCHANGED <<acctVars, row, tok, ses, job, del, fresh, logVars, raced, faults>>

\* Redis restarts or evicts the entry.
Evict(t) ==
  /\ cache[t] # None /\ faults < MaxFaults /\ faults' = faults + 1
  /\ cache' = [cache EXCEPT ![t] = None]
  /\ UNCHANGED <<acctVars, row, reqVars, fresh, logVars, raced>>

\* Some other request is at work in the session t.
Busy(q, t) == \E p \in Requests \ {q} : tok[p] = t

\* Mutant: the row is not revoked.
LogoutCacheOnly(q, t) ==
  /\ pc[q] = "idle" /\ row[t] # "none"
  /\ cache' = [cache EXCEPT ![t] = None] /\ out' = out \cup {t}
  /\ slip' = IF Busy(q, t) THEN slip \cup {t} ELSE slip
  /\ UNCHANGED <<acctVars, row, reqVars, fresh, proved, raced, faults>>

\* logout deletes the entry in Redis; an error is ignored,
Logout(q, t) ==
  /\ pc[q] = "idle" /\ row[t] # "none"
  /\ Goto(q, "revoke") /\ tok' = [tok EXCEPT ![q] = t]
  /\ \/ cache' = [cache EXCEPT ![t] = None] /\ UNCHANGED faults
        /\ slip' = IF Busy(q, t) THEN slip \cup {t} ELSE slip
     \/ faults < MaxFaults /\ faults' = faults + 1
        /\ slip' = slip \cup {t} /\ UNCHANGED cache
  /\ UNCHANGED <<acctVars, row, ses, job, del, fresh, out, proved, raced>>

\* and then revokes the row; an error is ignored.
Revoke(q) ==
  LET t == tok[q] IN
  /\ pc[q] = "revoke" /\ End(q)
  /\ out' = out \cup {t}
  /\ \/ row' = [row EXCEPT ![t] = "revoked"] /\ UNCHANGED faults
        /\ slip' = IF Busy(q, t) THEN slip \cup {t} ELSE slip
     \/ faults < MaxFaults /\ faults' = faults + 1
        /\ slip' = slip \cup {t} /\ UNCHANGED row
  /\ UNCHANGED <<acctVars, cache, fresh, proved, raced>>

\* requireSession stops a blocked user, requireRole whoever may not go on;
\* other requests leave these rows alone.
Leave(q) ==
  /\ pc[q] = "session" /\ End(q)
  /\ UNCHANGED <<acctVars, sesVars, fresh, logVars, raced, faults>>
-----------------------------------------------------------------------------
(* The second factor *)

\* adminMFASetup stores a secret, once.
MFASetup(q) ==
  /\ pc[q] = "session" /\ User(q) \notin blocked /\ ses[q].staff
  /\ User(q) \notin totp /\ totp' = totp \cup {User(q)}
  /\ End(q)
  /\ UNCHANGED <<roles, blocked, sesVars, fresh, logVars, raced, faults>>

\* adminMFAVerify accepts a code,
MFAVerify(q) ==
  /\ pc[q] = "session" /\ User(q) \notin blocked /\ ses[q].staff
  /\ User(q) \in totp /\ Goto(q, "update")
  /\ ses' = [ses EXCEPT ![q].mfa = TRUE]
  /\ proved' = proved \cup {tok[q]}
  /\ UNCHANGED <<acctVars, sesVars, tok, job, del, fresh, out, slip, raced, faults>>

\* and updateCurrentSession writes the session as it was read.
UpdateCurrentSession(q) ==
  /\ pc[q] = "update" /\ End(q)
  /\ cache' = [cache EXCEPT ![tok[q]] = ses[q]]
  /\ UNCHANGED <<acctVars, row, fresh, logVars, raced, faults>>
-----------------------------------------------------------------------------
(* Administration *)

\* requireRole: the role as it is now, the second factor as of the session.
\* Roles are the owner's to change; others may block.
Allowed(q, j) ==
  /\ ses[q].mfa
  /\ \/ User(q) \in Owners
     \/ j.op \in {"block", "unblock"} /\ roles[User(q)] # {}

Enter(q, j) ==
  /\ pc[q] = "session" /\ User(q) \notin blocked /\ Allowed(q, j)
  /\ Goto(q, "check") /\ job' = [job EXCEPT ![q] = j]
  /\ UNCHANGED <<acctVars, sesVars, tok, ses, del, fresh, logVars, raced, faults>>

\* Mutant: the number of owners is not asked for.
RemovableAnyway(u) == TRUE

\* Not the last owner, if `SELECT role ... LIMIT 1`, in whatever order the
\* rows come, says owner.
Removable(u) ==
  \/ \E r \in roles[u] : r # "owner"
  \/ Cardinality(Owners) > 1

\* Mutant: administrators are blocked like anybody else.
CheckedRoleless(q) ==
  LET j == job[q] IN
  \/ j.op = "set" /\ j.user \notin blocked
     /\ ("owner" \in roles[j.user] /\ j.role # "owner" => Removable(j.user))
  \/ j.op = "remove" /\ roles[j.user] # {}
     /\ ("owner" \in roles[j.user] => Removable(j.user))
  \/ j.op = "block" /\ j.user # User(q)
  \/ j.op = "unblock"

\* What the handlers look at before they write.
Checked(q) ==
  LET j == job[q] IN
  \/ j.op = "set" /\ j.user \notin blocked
     /\ ("owner" \in roles[j.user] /\ j.role # "owner" => Removable(j.user))
  \/ j.op = "remove" /\ roles[j.user] # {}
     /\ ("owner" \in roles[j.user] => Removable(j.user))
  \/ j.op = "block" /\ j.user # User(q) /\ roles[j.user] = {}
  \/ j.op = "unblock"

Check(q) ==
  /\ pc[q] = "check" /\ Checked(q)
  /\ Goto(q, IF job[q].op = "set" THEN "delete" ELSE "write")
  /\ fresh' = [fresh EXCEPT ![q] = TRUE]
  /\ UNCHANGED <<acctVars, sesVars, tok, ses, job, del, logVars, raced, faults>>

Refuse(q) ==
  /\ pc[q] = "check" /\ End(q)
  /\ UNCHANGED <<acctVars, sesVars, fresh, logVars, raced, faults>>

\* setAdminRole deletes the rows it sees, waiting for whoever deletes them,
DeleteRoles(q) ==
  /\ pc[q] = "delete" /\ Goto(q, "write")
  /\ del' = [del EXCEPT ![q] = roles[job[q].user]]
  /\ UNCHANGED <<acctVars, sesVars, tok, ses, job, fresh, logVars, raced, faults>>

\* and inserts one, which fails if another request has inserted the same; the
\* others write with one statement.
Write(q) ==
  LET j == job[q]
      others == roles[j.user] \ del[q] IN
  /\ pc[q] = "write" /\ End(q)
  /\ roles' = [roles EXCEPT ![j.user] =
       IF j.op = "set" THEN IF j.role \in others THEN @ ELSE others \cup {j.role}
       ELSE IF j.op = "remove" THEN {} ELSE @]
  /\ blocked' = IF j.op = "block" THEN blocked \cup {j.user}
                ELSE IF j.op = "unblock" THEN blocked \ {j.user} ELSE blocked
  /\ raced' = (raced \/ ~fresh[q])
  /\ fresh' = IF roles' = roles /\ blocked' = blocked THEN fresh
              ELSE [p \in Requests |-> FALSE]
  /\ UNCHANGED <<totp, sesVars, logVars, faults>>
-----------------------------------------------------------------------------
Request(q) ==
  \/ \E t \in Tokens : ReadCache(q, t) \/ ReadRow(q, t) \/ Logout(q, t)
  \/ Fill(q) \/ Revoke(q) \/ Leave(q)
  \/ MFASetup(q) \/ MFAVerify(q) \/ UpdateCurrentSession(q)
  \/ \E j \in Job : Enter(q, j)
  \/ Check(q) \/ Refuse(q) \/ DeleteRoles(q) \/ Write(q)

Next ==
  \/ \E t \in Tokens : Login(t) \/ Evict(t)
  \/ \E q \in Requests : Request(q)

Spec == Init /\ [][Next]_vars
-----------------------------------------------------------------------------
TypeOK ==
  /\ roles \in [Users -> SUBSET Roles] /\ blocked \subseteq Users /\ totp \subseteq Users
  /\ row \in [Tokens -> {"none", "valid", "revoked"}]
  /\ cache \in [Tokens -> Session \cup {None}]
  /\ pc \in [Requests -> {"idle", "fill", "session", "revoke", "update", "check", "delete", "write"}]
  /\ tok \in [Requests -> Tokens \cup {None}] /\ ses \in [Requests -> Session]
  /\ job \in [Requests -> Job \cup {None}] /\ del \in [Requests -> SUBSET Roles]
  /\ fresh \in [Requests -> BOOLEAN] /\ raced \in BOOLEAN /\ faults \in 0..MaxFaults
  /\ out \subseteq Tokens /\ slip \subseteq Tokens /\ proved \subseteq Tokens

(* After a logout is answered its session is gone for good: neither Redis   *)
(* nor the database brings it back.  The exceptions: one of the two writes  *)
(* of the logout failed, or another request of the same session was under   *)
(* way, whose Fill or UpdateCurrentSession may come later (readSession,     *)
(* updateCurrentSession, logout).                                           *)
LoggedOutUnlessSlipped ==
  \A t \in out \ slip : cache[t] = None /\ row[t] = "revoked"

(* Nobody administers in a session in which no code was ever accepted, also *)
(* when the session comes back from the database (requireRole, readSession).*)
AdminsAreVerified ==
  \A q \in Requests : pc[q] \in {"check", "delete", "write"} => tok[q] \in proved

(* There is always an owner, unless two changes of roles overlapped: the    *)
(* number of owners is read before the transaction that removes one         *)
(* (setAdminRole, removeAdminRole).                                         *)
OwnerUnlessRaced == raced \/ Owners # {}

(* A blocked user has no role, and an administrator has one, unless changes *)
(* overlapped (updateUserStatus, setAdminRole).                             *)
RolesAreSoundUnlessRaced ==
  raced \/ \A u \in Users : Cardinality(roles[u]) <= (IF u \in blocked THEN 0 ELSE 1)
=============================================================================
