SPECIFICATION Spec
CONSTANTS
  a = a
  b = b
  Main = main
  Idle = idle
  Thread = {main, idle, a, b}
  NoThread = none
  NoLock = nolock
  Lock = {l}
  Sema = {s}
  InitialPriority <- MCInitialPriority
  Priority = {}
  DonationDepth = 8
  InterruptibleAt <- Anywhere
  MaxValue = 1
INVARIANTS TypeOK HolderIsOwner NoLostWakeup ElemInOneList
CHECK_DEADLOCK FALSE
