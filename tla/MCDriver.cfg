CONSTANTS
  f = f
  g = g
  MaxRev = 2
  MaxLib = 2
  MaxBuilds = 2
  Layouts <- MCLayouts
SPECIFICATION Spec
INVARIANTS
  TypeOK
  InterfaceIsNotAheadOfCode
PROPERTIES
  OldCodeIsExplained
  CleanDirectoryBuildIsExact
  BundleIsExact
SYMMETRY SameFiles
