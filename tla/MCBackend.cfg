\* Functions of three levels of statements; seven events of a run are seen.
SPECIFICATION Spec
CHECK_DEADLOCK FALSE
CONSTANTS
  Longest = 7
  Programs <- MCPrograms
  Bytes <- MCBytes
INVARIANTS
  WellFormed
  SameTraces
  EndIsReported
  DeadIsDead
  NameIsLexical
  CalleeIsBest
  TemplateIsBest
  DistinctNames
