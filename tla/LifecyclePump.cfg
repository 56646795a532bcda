SPECIFICATION Spec
CONSTANTS
  Tasks = {t, m, w1, w2}
  Jobs = {m, w1, w2}
  Shared = {w1, w2}
  MaxPosted = 1
PROPERTY PostedTasksRun
CHECK_DEADLOCK FALSE
