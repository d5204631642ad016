\* Two commands of any kind, two credentials and one fault.
SPECIFICATION SyncSpec
CONSTANTS
  h1 = h1
  Commands = {1, 2}
  Handlers <- OneHandler
  None = None
  BatchLimit = 1
  SeenLimit = 1
  SocketCap = 1
  MaxFaults = 1
  MaxCred = 2
CONSTRAINT Explored
VIEW View
INVARIANTS
  LastCommandWins
CHECK_DEADLOCK FALSE
