SPECIFICATION Spec
CONSTANTS
  Scenarios <- MCDelayScenarios
  MaxBatches <- MCMaxBatches
  MaxWidth <- MCMaxWidth
  Debug = FALSE
CHECK_DEADLOCK FALSE
INVARIANT DelayHonoured
