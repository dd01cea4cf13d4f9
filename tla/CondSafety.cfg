SPECIFICATION Spec
CONSTANTS
  a = a
  b = b
  d = d
  idle = idle
  Thread = {a, b, d, idle}
  Main = a
  Idle = idle
  Cond = {c1, c2}
  Priority <- MCPriority
  Garbage = {0, 2, 9}
  NoThread = none
  NoCond = nocond
INVARIANTS WaitingOrSignalled
PROPERTIES WaitIsAtomic WakesHighestSleeper
CHECK_DEADLOCK FALSE
