SPECIFICATION Spec
CONSTANT MaxSuites = 3
CHECK_DEADLOCK FALSE
INVARIANTS
  TypeOK
  PreparedIsCleaned
  Bracketed
  NothingSwallowed
