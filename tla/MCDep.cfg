\* Three files, one bundle, 7296 projects.  The stage ends.
CONSTANTS
  f = f
  g = g
  h = h
  z = z
  nothing = nothing
  Files <- MCFiles
  Asts <- MCAsts
  Projects <- MCProjects
SPECIFICATION Spec
INVARIANTS
  TypeOK
  NoReentry
  FileGraphExact
  TangleGraphSound
  ImportsAreOrdered
PROPERTIES
  Terminates
CHECK_DEADLOCK FALSE
