CONSTANTS
  Tasks = {t1}
  NULL = NULL
  Timed = {t1}
  Files = {}
  SqSize = 2
  Started = {TRUE}
  PlainFlag = FALSE
  MaxCalls = 0
  MaxTimed = 2
  StopAfter = {}
SPECIFICATION Spec
CHECK_DEADLOCK FALSE
INVARIANT ResumedOnce
