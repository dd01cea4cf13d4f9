SPECIFICATION Spec
CONSTANTS
  Main = main
  Idle = idle
  Thread = {main, idle, a, b}
  Mask = 4
  IntMax = 31
  PRI_MIN = 0
  PRI_DEFAULT = 1
  PRI_MAX = 2
  Nice = {0, 1}
  TIMER_FREQ = 5
  TIME_SLICE = 2
  RECALC = 2
  SleepArg = {1}
SYMMETRY MCSymmetry
INVARIANTS TypeOK ThreadsAccounted ReadyQueueSorted 
CHECK_DEADLOCK FALSE
