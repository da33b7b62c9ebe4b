CONSTANTS
  Procs = {p1, p2}
  Clients = {c1}
  Tasks = {t1, t2}
  NULL = NULL
  Literal = {}
  MaxIdle = 0
  Garbage = {0}
  MaxAdd = 2
  MaxSuspend = 0
  MaxYield = 0
  MaxSteal = 1
  MaxStop = 1
SPECIFICATION FairSpec
CHECK_DEADLOCK FALSE
PROPERTIES QueuedRuns StopEndsSleeper
