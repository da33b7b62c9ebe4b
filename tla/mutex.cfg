CONSTANTS
  Tasks = {t1, t2, t3, t4}
  Readings = {{}, {"lock_test"}, {"try_value"}, {"lock_test", "try_value"}}
  MaxCalls = 6
SPECIFICATION FairSpec
CHECK_DEADLOCK FALSE
INVARIANTS TypeOK HoldersCounted WaitersExact NoStrandedWaiter
PROPERTIES LockReturns IsMutex
