\* Two users and two devices, new or one of them old; two requests at a time.
SPECIFICATION Spec
CONSTANTS
  u1 = u1
  u2 = u2
  d1 = d1
  d2 = d2
  h1 = h1
  h2 = h2
  q1 = q1
  q2 = q2
  Users = {u1, u2}
  Devices = {d1, d2}
  HWIDs = {h1, h2}
  Old = {d1}
  Limit = 1
  Requests = {q1, q2}
  None = None
  MaxRebinds = 1
INVARIANTS
  
  
  OneHolderUnlessRaced
  
SYMMETRY Symmetry
CHECK_DEADLOCK FALSE
