SPECIFICATION Spec
CONSTANT Suites <- MCSuites
CHECK_DEADLOCK FALSE
INVARIANTS
  TypeOK
  JudgedByOwn
  VerdictsDeserved
  InputsExplained
  ExpansionComplete
