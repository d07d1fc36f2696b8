CONSTANTS
  Kinds     <- MCKinds
  ReadOrder <- MCReadOrder
  Fallible  <- MCNone
  Values    = {0, 1}
  Empty     = 0

SPECIFICATION Spec

INVARIANT FreshAtRest
