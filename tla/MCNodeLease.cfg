\* One device; commands come late, again, out of order or never.
SPECIFICATION Spec
CONSTANTS
  u1 = u1
  d1 = d1
  r1 = r1
  Users = {u1}
  Devices = {d1}
  Owner <- OneOwner
  Quota = 2
  LeaseBytes = 1
  Worker = Worker
  Requests = {r1}
  None = None
  MaxLeases = 2
  MaxUse = 2
  MaxFaults = 1
  Trials = {}
  MaxQueue = 3
  MaxTraffic = 2
INVARIANTS
  HeldLeaseIsReserved
CHECK_DEADLOCK FALSE
