SPECIFICATION Spec
CONSTANTS
  Names <- MCNames
  Inputs <- MCInputs
  MaxTests = 2
CHECK_DEADLOCK FALSE
INVARIANTS
  TypeOK
  HonestExit
  SummaryAgrees
  LossContained
PROPERTIES
  AllScenariosRun
