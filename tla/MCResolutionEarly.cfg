CONSTANTS
  Programs <- MCPrograms
  Depths = {0, 1, 2}
SPECIFICATION Spec
CHECK_DEADLOCK FALSE
INVARIANTS
  FailureHasCause
