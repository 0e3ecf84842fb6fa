SPECIFICATION FairSpec
CONSTANTS
  Scenarios <- MCScenarios
  MaxBatches <- MCMaxBatches
  MaxWidth <- MCMaxWidth
  Debug = TRUE
CHECK_DEADLOCK FALSE
INVARIANTS
  TypeOK
  ResultsAreOwn
  BatchBarrier
  KilledQuiet
PROPERTIES
  Termination
  ImplementsContract
