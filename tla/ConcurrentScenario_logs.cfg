SPECIFICATION Spec
CONSTANTS
  Scenarios <- MCScenarios
  MaxBatches <- MCMaxBatches
  MaxWidth <- MCMaxWidth
  Debug = FALSE
CHECK_DEADLOCK FALSE
INVARIANT LogsDumpedOnFailure
