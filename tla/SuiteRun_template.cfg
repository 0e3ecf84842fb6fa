SPECIFICATION Spec
CONSTANT Suites <- FullySet
CHECK_DEADLOCK FALSE
INVARIANT TemplateKeysRespected
