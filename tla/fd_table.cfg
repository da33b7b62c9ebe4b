CONSTANTS
  Callers = {a, b}
  MaxFd = 2
  Files = {f1, f2, f3}
  NULL = NULL
  Times = {127, 128}
  Unit = 10
  IntMax = 127
  MaxCalls = 4
SPECIFICATION Spec
SYMMETRY Symmetry
CHECK_DEADLOCK FALSE
INVARIANTS TypeOK HookDecision NoStaleEntry TimeoutExact
