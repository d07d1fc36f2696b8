CONSTANTS
  Kinds     <- MCKinds
  ReadOrder <- MCReadOrder
  Fallible  <- MCFallible
  Values    = {0, 1}
  Empty     = 0

SPECIFICATION Spec

INVARIANTS
  TypeOK
  OwnCopyCurrent

PROPERTY
  StaleOnlyByOvertaking
