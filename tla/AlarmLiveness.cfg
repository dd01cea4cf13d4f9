SPECIFICATION FairSpec
CONSTANTS
  a = a
  b = b
  Main = main
  Idle = idle
  Thread = {main, idle, a}
  NoThread = none
  Priority = {1, 2}
  MainPriority = 1
  IdlePriority = 0
  TimeSlice = 2
  SleepArg <- MCSleepArg
  MaxTick = 3
PROPERTIES SleepersWake TopReadyRuns
