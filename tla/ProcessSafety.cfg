SPECIFICATION Spec
CONSTANTS
  p1 = p1
  p2 = p2
  p3 = p3
  Main = main
  Proc = {main, p1, p2, p3}
  Caller = {main, p1, p2, p3}
  Writer = {main, p1, p2, p3}
  LoadOutcome = {"loaded", "failed", "aborted"}
  Status <- MCStatus
  MaxTid = 4
  NoProc = noproc
  NoStatus = nostatus
SYMMETRY MCSymmetry
INVARIANTS NoUseAfterFree ReapOnceAfterExit ExecuteAwaitsLoad ActiveDirectoryExists
CHECK_DEADLOCK FALSE
