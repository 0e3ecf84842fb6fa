SPECIFICATION RequestSpec
CONSTANTS
  Assertions <- MCAssertions
  MaxLength = 3
  Bodies <- BodyKinds
  Strict = TRUE
  Givens <- MCGivens
CHECK_DEADLOCK FALSE
INVARIANTS
  TypeOK
  PassesIffAllHold
  FailureIsTyped
  PassesAsWritten
