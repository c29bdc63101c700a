CONSTANTS
  Programs <- MCPrograms
  Depths = {0, 1, 2}
SPECIFICATION FairSpec
CHECK_DEADLOCK FALSE
INVARIANTS
  SuccessIsComplete
  ShallowProgramsAreResolved
  AbortHasCulprit
PROPERTIES
  Terminates
