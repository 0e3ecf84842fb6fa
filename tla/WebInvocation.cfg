SPECIFICATION Spec
CONSTANT MaxLines = 3
CHECK_DEADLOCK FALSE
INVARIANTS
  TypeOK
  RawExplained
  ResponseEarned
  AllDocumentsKept
PROPERTY ImplementsContract
