SPECIFICATION FairSpec
CONSTANTS
  a = a
  b = b
  Main = main
  Idle = idle
  Thread = {main, idle, a, b}
  NoThread = none
  NoLock = nolock
  Lock = {l}
  Sema = {}
  InitialPriority <- MCInitialPriority
  Priority = {}
  DonationDepth = 8
  InterruptibleAt <- BetweenCalls
  MaxValue = 1
PROPERTY TopGetsLock
CHECK_DEADLOCK FALSE
