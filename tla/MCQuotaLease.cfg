\* Two owners with a device each; quota may run out; one failure.
SPECIFICATION FairSpec
CONSTANTS
  u1 = u1
  u2 = u2
  d1 = d1
  d2 = d2
  r1 = r1
  Users = {u1, u2}
  Devices = {d1, d2}
  Owner <- TwoOwners
  Quota = 2
  LeaseBytes = 1
  Worker = Worker
  Requests = {r1}
  None = None
  MaxLeases = 3
  MaxUse = 3
  MaxFaults = 1
INVARIANTS
  OneActiveLease
PROPERTIES
  GrantsFit
  LeasesAreRenewed
CHECK_DEADLOCK FALSE
