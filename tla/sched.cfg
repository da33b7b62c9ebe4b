CONSTANTS
  N = 3
  Clients = {c1}
  StartBlocks = {TRUE, FALSE}
  MaxAdd = 2
  MaxSpawn = 1
  MaxHog = 2
  MaxStop = 1
SPECIFICATION FairSpec
CHECK_DEADLOCK FALSE
INVARIANTS TypeOK NoTaskLost Evens
PROPERTIES EveryTaskRuns StopEndsStart
