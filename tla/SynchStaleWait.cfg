SPECIFICATION Spec
CONSTANTS
  a = a
  b = b
  Main = main
  Idle = idle
  Thread = {main, idle, a, b}
  NoThread = none
  NoLock = nolock
  Lock = {l, m}
  Sema = {}
  InitialPriority <- MCInitialPriority
  Priority = {}
  DonationDepth = 8
  InterruptibleAt <- BetweenCalls
  MaxValue = 1
INVARIANT NoNullHolder
CHECK_DEADLOCK FALSE
