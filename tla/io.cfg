CONSTANTS
  Tasks = {t1, t2}
  NULL = NULL
  Timed = {t1}
  Files = {t2}
  SqSize = 2
  Started = {TRUE, FALSE}
  PlainFlag = FALSE
  MaxCalls = 2
  MaxTimed = 1
  StopAfter = {0, 1}
SPECIFICATION FairSpec
CHECK_DEADLOCK FALSE
INVARIANTS TypeOK NoDanglingFrame UntimedResumedOnce NoLostRequest
PROPERTIES CallReturns StopEndsIoThreads
