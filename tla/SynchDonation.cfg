SPECIFICATION Spec
CONSTANTS
  a = a
  b = b
  Main = main
  Idle = idle
  Thread = {main, idle, a, b}
  NoThread = none
  NoLock = nolock
  Lock = {l, m}
  Sema = {}
  InitialPriority <- MCInitialPriority
  Priority = {0, 3}
  DonationDepth = 8
  InterruptibleAt <- BetweenCalls
  MaxValue = 1
INVARIANTS ReadyQueueSorted  DonationIsExact
CHECK_DEADLOCK FALSE
