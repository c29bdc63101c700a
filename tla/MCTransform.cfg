CONSTANTS
  Programs <- MCPrograms
  Order <- MCOrder
  MaxConversions = 1
SPECIFICATION Spec
CHECK_DEADLOCK FALSE
INVARIANTS
  HasHome
  Restructured
  AbortHasCulprit
PROPERTIES
  InstanceIsWhole
  TreeIsReached
