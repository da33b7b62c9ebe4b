CONSTANTS
  Procs = {p1}
  Clients = {c1}
  Tasks = {t1, t2}
  NULL = NULL
  Literal = {}
  MaxIdle = 1
  Garbage = {0}
  MaxAdd = 2
  MaxSuspend = 1
  MaxYield = 1
  MaxSteal = 0
  MaxStop = 0
SPECIFICATION Spec
CHECK_DEADLOCK FALSE
INVARIANT OnePlace
