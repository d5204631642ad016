\* Two devices of one user, two events, a lost connection and a renewal.
SPECIFICATION FairSpec
CONSTANTS
  d1 = d1
  d2 = d2
  Devices <- DeviceSet
  Local = {}
  MaxConns = 2
  MaxTraffic = 2
  MaxEvents = 2
  UsageLimit = 2
  SocketCap = 1
  Quota = 2
  MaxRenewals = 1
  MaxFailures = 1
INVARIANTS
  ChargedOnce
  SentIsRecorded
  UsedIsTheSum
  
  TrafficIsConserved
PROPERTIES
  EveryEventIsRecorded
CHECK_DEADLOCK FALSE
