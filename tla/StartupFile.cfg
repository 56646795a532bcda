SPECIFICATION Safety
INVARIANTS
  FileRuns
CHECK_DEADLOCK FALSE
