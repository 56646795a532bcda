SPECIFICATION Safety
CONSTANTS
  MaxCalls = 2
  MaxArgs = 2
  MaxLines = 2
INVARIANTS
  TypeOK
  LinesComplete
  LinesDelivered
PROPERTY InProgramOrder
CHECK_DEADLOCK FALSE
