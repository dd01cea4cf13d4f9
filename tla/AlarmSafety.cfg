SPECIFICATION Spec
CONSTANTS
  a = a
  b = b
  Main = main
  Idle = idle
  Thread = {main, idle, a, b}
  NoThread = none
  Priority = {1, 2}
  MainPriority = 1
  IdlePriority = 0
  TimeSlice = 2
  SleepArg <- MCSleepArg
  MaxTick = 3
SYMMETRY MCSymmetry
INVARIANTS TypeOK ElemInOneList BlockedAwaitsOne
PROPERTIES DispatchesHighest SleepIsKept
