SPECIFICATION Spec
CONSTANTS
  Timeout = 5
  ConnectTimeout = 5
  ReadTimeout = 30
  MaxSkew = 1
  Debug = TRUE
CHECK_DEADLOCK FALSE
INVARIANTS
  TypeOK
  PollingBounded
  RepeatedOnlyAfterCut
  AnsweredByOwn
PROPERTIES
  Termination
  ImplementsContract
