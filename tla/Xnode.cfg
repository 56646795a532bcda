SPECIFICATION XnodeSpec
CONSTANTS
  Tasks = {m, w1, w2}
  Jobs = {m, w1, w2}
  Shared = {w1, w2}
  MaxPosted = 1
INVARIANTS
  XnodeTypeOK
  ScriptRunsLast
  FailuresReported
  EndExplained
PROPERTIES
  ReleasedInOrder
  ProcessEnds
CHECK_DEADLOCK FALSE
