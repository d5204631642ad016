\* One command over two connection handlers, one fault, under fairness.  With
\* SeenLimit 0 the node forgets what it has seen at every command.
SPECIFICATION FairChannelSpec
CONSTANTS
  h1 = h1
  h2 = h2
  Commands = {1}
  Handlers <- HandlerSet
  None = None
  BatchLimit = 1
  SeenLimit = 0
  SocketCap = 2
  MaxFaults = 1
PROPERTY EveryCommandSettles
INVARIANTS
  SettledForAReason
  
CHECK_DEADLOCK FALSE
