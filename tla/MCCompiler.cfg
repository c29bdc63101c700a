CONSTANTS
  a = a
  b = b
  lib = lib
  doc = doc
  NoSource = NoSource
  Sources = {a, b}
  Asts = {lib}
  Others = {doc}
  MaxModes = 2
  MaxInputs = 2
SPECIFICATION Spec
CHECK_DEADLOCK FALSE
INVARIANTS
  AstIsComplete
  CodeIsResolved
  FailureKeepsInterface
PROPERTIES
  ImplementsCompilation
