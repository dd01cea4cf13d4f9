------------------------------ MODULE MonitorSpec ------------------------------
(***************************************************************************)
(* What a lock with condition variables promises, without semaphores or    *)
(* lists: a Mesa monitor.  Waiting gives up the lock and begins to wait in *)
(* one step; a signal, sent with the lock held, goes to a thread that waits*)
(* at the time, if there is one; who has a signal takes the lock again.    *)
(***************************************************************************)
CONSTANTS Thread, Cond, NoThread

VARIABLES
  owner,       \* who is in the monitor
  waiting,     \* the threads that wait for each condition
  signalled    \* the threads that have been signalled and are not yet back

monitorVars == <<owner, waiting, signalled>>

MonitorInit ==
  /\ owner = NoThread
  /\ waiting = [c \in Cond |-> {}]
  /\ signalled = {}

Enter(t) ==
  /\ owner = NoThread /\ t \notin signalled /\ \A c \in Cond : t \notin waiting[c]
  /\ owner' = t
  /\ UNCHANGED <<waiting, signalled>>

Exit(t) ==
  /\ owner = t
  /\ owner' = NoThread
  /\ UNCHANGED <<waiting, signalled>>

Wait(t, c) ==
  /\ owner = t
  /\ owner' = NoThread
  /\ waiting' = [waiting EXCEPT ![c] = @ \union {t}]
  /\ UNCHANGED signalled

Signal(t, c, w) ==
  /\ owner = t /\ w \in waiting[c]
  /\ waiting' = [waiting EXCEPT ![c] = @ \ {w}]
  /\ signalled' = signalled \union {w}
  /\ UNCHANGED owner

Return(t) ==
  /\ owner = NoThread /\ t \in signalled
  /\ owner' = t
  /\ signalled' = signalled \ {t}
  /\ UNCHANGED waiting

MonitorNext ==
  \E t \in Thread :
     \/ Enter(t) \/ Exit(t) \/ Return(t)
     \/ \E c \in Cond : Wait(t, c) \/ \E w \in Thread : Signal(t, c, w)

MonitorSafety == MonitorInit /\ [][MonitorNext]_monitorVars
================================================================================
