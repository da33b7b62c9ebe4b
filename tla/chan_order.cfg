CONSTANTS
  Senders = {s1, s2, s3}
  Receivers = {r1, r2}
  NULL = NULL
  Capacities = {0, 1, 2}
  Readings = {TRUE, FALSE}
  MaxSend = 9
  MaxRecv = 8
  MayClose = TRUE
SPECIFICATION Spec
CHECK_DEADLOCK FALSE
SYMMETRY Symmetry
INVARIANTS TypeOK FifoExact NoMissedMatch SuspendedIsQueued
PROPERTY HeldForGood
