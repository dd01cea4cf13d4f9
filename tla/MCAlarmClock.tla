----------------------------- MODULE MCAlarmClock -----------------------------
(* AlarmClock on small instances.                                          *)
EXTENDS AlarmClock, TLC

CONSTANTS a, b    \* the pages of the threads that are created

MCSleepArg == {-1, 2}
MCSymmetry == Permutations({a, b})
===============================================================================
