------------------------------- MODULE SleepSpec -------------------------------
(***************************************************************************)
(* What timer_sleep promises its callers, without lists, priorities or a   *)
(* scheduler: a thread that asks to sleep n ticks is never woken before n  *)
(* ticks have passed, and once its time has come it does not outlive the   *)
(* next timer interrupt asleep.                                            *)
(***************************************************************************)
EXTENDS Integers

CONSTANTS Thread, SleepArg, MaxTick

VARIABLES
  clock,      \* timer ticks since boot
  asleep,     \* the threads that sleep
  due,        \* the tick each thread has asked to be woken at
  ringing     \* the timer interrupt is being handled

sleepVars == <<clock, asleep, due, ringing>>

SleepInit ==
  /\ clock = 0
  /\ asleep = {}
  /\ due \in [Thread -> Int]
  /\ ringing = FALSE

\* The caller fixes its deadline by the clock of the call ...
Ask(t) ==
  /\ ~ringing /\ t \notin asleep
  /\ \E n \in SleepArg : due' = [due EXCEPT ![t] = clock + n]
  /\ UNCHANGED <<clock, asleep, ringing>>

\* ... and falls asleep then or later.
Sleep(t) ==
  /\ ~ringing /\ t \notin asleep
  /\ asleep' = asleep \union {t}
  /\ UNCHANGED <<clock, due, ringing>>

Ring ==
  /\ ~ringing
  /\ ringing' = TRUE
  /\ clock' = IF clock < MaxTick THEN clock + 1 ELSE clock
  /\ UNCHANGED <<asleep, due>>

\* No thread wakes early ...
Wake(t) ==
  /\ ringing /\ t \in asleep /\ due[t] <= clock
  /\ asleep' = asleep \ {t}
  /\ UNCHANGED <<clock, due, ringing>>

\* ... and none whose time has come sleeps through an interrupt.
Quiet ==
  /\ ringing /\ \A t \in asleep : due[t] > clock
  /\ ringing' = FALSE
  /\ UNCHANGED <<clock, asleep, due>>

SleepNext ==
  \/ Ring \/ Quiet
  \/ \E t \in Thread : Ask(t) \/ Sleep(t) \/ Wake(t)

SleepSafety == SleepInit /\ [][SleepNext]_sleepVars
================================================================================
