CONSTANTS
  f = f
  g = g
  MaxRev = 1
  MaxLib = 1
  MaxBuilds = 2
  Layouts <- MCLayouts
SPECIFICATION Spec
INVARIANTS
  PlainBuildReportsFailure
