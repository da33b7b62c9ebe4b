CONSTANTS
  Pushers = {t1, t2, t3}
  Poppers = {t1, t2, t3}
  Nodes = {n1, n2, n3, n4}
  NULL = NULL
  Junk = {junk}
  MaxPush = 2
  MaxPop = 2
  CountMax = 5
SPECIFICATION Spec
SYMMETRY Symmetry
CHECK_DEADLOCK FALSE
INVARIANTS TypeOK NoUseAfterFree NoNodeLeak FifoOnce RefCountExact
PROPERTY EmptyMeansDrained
