CONSTANTS
  Procs = {p1, p2}
  Clients = {c1, c2}
  Tasks = {t1, t2}
  NULL = NULL
  Literal = {"plain_status"}
  MaxIdle = 1
  Garbage = {0}
  MaxAdd = 2
  MaxSuspend = 1
  MaxYield = 1
  MaxSteal = 1
  MaxStop = 1
SPECIFICATION Spec
CHECK_DEADLOCK FALSE
SYMMETRY Symmetry
INVARIANTS TypeOK OneContext OnlyYieldForgets NoLostWakeup FaultsExplained OneMoreAfterStop
