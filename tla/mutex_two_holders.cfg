CONSTANTS
  Tasks = {t1, t2}
  Readings = {{"lock_test"}}
  MaxCalls = 2
SPECIFICATION Spec
CHECK_DEADLOCK FALSE
INVARIANT MutualExclusion
