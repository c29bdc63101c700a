\* An imported bundle and three source tangles, 32 graphs, any leftovers of an
\* earlier build.  The stage returns, so the behaviours end.
CONSTANTS
  z = z
  a = a
  b = b
  c = c
  start = start
  Tangles <- AllTangles
  Bundles <- OneBundle
  Graphs <- OrderedGraphs
SPECIFICATION Spec
INVARIANTS
  TypeOK
  OldAstBlamesDependency
  CleanBuildIsConsistent
PROPERTIES
  LoadedAstIsStable
  ImplementsTopologicalBuild
  Terminates
CHECK_DEADLOCK FALSE
