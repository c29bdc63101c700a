CONSTANTS
  f = f
  g = g
  MaxRev = 1
  MaxLib = 1
  MaxBuilds = 3
  Layouts <- MCLayouts
SPECIFICATION Spec
INVARIANTS
  PlainBuildRepeatsLast
PROPERTIES
  EveryBuildEnds
