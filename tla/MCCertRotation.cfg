\* Two rotations in sequence, two faults.
SPECIFICATION RotationSpec
CONSTANTS
  h1 = h1
  Commands = {1, 2}
  Handlers <- OneHandler
  None = None
  BatchLimit = 1
  SeenLimit = 1
  SocketCap = 1
  MaxFaults = 2
CONSTRAINT NoSlipYet
INVARIANTS
  AccessLostOnlyBySlip
CHECK_DEADLOCK FALSE
