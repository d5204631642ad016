\* A session of the founder, another user, two requests at a time.
SPECIFICATION Spec
CONSTANTS
  a = a
  b = b
  t1 = t1
  q1 = q1
  q2 = q2
  Users = {a, b}
  Founder = a
  Tokens = {t1}
  Holder <- Holders
  Requests = {q1, q2}
  Roles <- TwoRoles
  None = None
  MaxFaults = 1
INVARIANTS
  LoggedOutUnlessSlipped
  AdminsAreVerified
  OwnerUnlessRaced
  RolesAreSoundUnlessRaced
SYMMETRY Symmetry
CHECK_DEADLOCK FALSE
