\* Two enrollments that may overlap, then two feeds on their way to the node.
SPECIFICATION FairSpec
CONSTANTS
  q1 = q1
  q2 = q2
  Requests = {q1, q2}
  None = None
  MaxTokens = 2
  MaxCerts = 2
  MaxFaults = 1
  Contents <- Lists
  Life = 1
  CommandLife = 2
  MaxTime = 3
  MaxFeeds = 2
CONSTRAINT OneThingAtATime
INVARIANTS
  TypeOK
  ClaimedIsAdmitted
  ClaimedHasKeys
  QuietNodeIsCurrent
  StaleIsReported
  ChosenRulesAreBounded
PROPERTIES
  EndpointIsTemporary
CHECK_DEADLOCK FALSE
