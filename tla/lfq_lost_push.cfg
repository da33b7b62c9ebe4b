CONSTANTS
  Pushers = {t1, t2}
  Poppers = {t3}
  Nodes = {n1, n2, n3, n4}
  NULL = NULL
  Junk = {}
  MaxPush = 2
  MaxPop = 1
  CountMax = 4
SPECIFICATION Spec
SYMMETRY Symmetry
CHECK_DEADLOCK FALSE
INVARIANT NoLostPush
