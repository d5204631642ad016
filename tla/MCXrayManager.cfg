\* Two devices, three commands, one fault.
SPECIFICATION FairSpec
CONSTANTS
  d1 = d1
  d2 = d2
  Devices = {d1, d2}
  MaxCred = 2
  MaxCommands = 3
  MaxFaults = 1
PROPERTIES
  XrayConverges
INVARIANTS
  BlockedReturnsOnlyByARace
