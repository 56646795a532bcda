SPECIFICATION Spec
CONSTANTS
  BufferSize = 4
  Inputs <- AllInputs
INVARIANTS
  TypeOK
  CutExactly
  ShortLinesWhole
PROPERTY ReaderEnds
CHECK_DEADLOCK FALSE
