SPECIFICATION Spec
CONSTANTS
  MaxFiles = 2
  MaxRuns = 2
  MaxContainers = 3
CHECK_DEADLOCK FALSE
INVARIANTS
  TypeOK
  HonestExit
  NetworkLeftExplained
PROPERTIES
  StuckNetwork
  Termination
