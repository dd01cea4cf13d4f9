------------------------------- MODULE Conditions -------------------------------
(***************************************************************************)
(* The condition variables of threads/synch.c in hw3.  Each call of        *)
(* cond_wait has a semaphore of its own, waiter, whose list holds at most  *)
(* the calling thread; the waiters of a condition variable are therefore   *)
(* listed here by thread.                                                  *)
(*                                                                         *)
(* The lock is used by what module Synch shows of it: one owner at a time, *)
(* lock_acquire disabled while there is one.  The threads are those of     *)
(* module Threads, of which the idle one makes no such calls; the scheduler*)
(* is a free choice: every order that priorities and interrupts can        *)
(* produce, and more.                                                      *)
(***************************************************************************)
EXTENDS Threads

CONSTANTS
  Cond,
  Priority,      \* the priority of each thread
  Garbage,       \* what compare_sema_priority may read of a semaphore nobody waits for
  NoThread, NoCond

ASSUME ConditionAssumption ==
  /\ NoThread \notin Thread /\ NoCond \notin Cond
  /\ Priority \in [Thread -> Int] /\ Garbage \subseteq Int /\ Garbage # {}

VARIABLES
  holder,        \* the holder of the lock
  waiters,       \* cond->waiters, by thread
  value,         \* the value of the semaphore in each thread's waiter
  arg,           \* the condition variable of the thread's call
  pc             \* where each thread is between two actions

vars == <<holder, waiters, value, arg, pc>>

(* pc: "run"        in its own code, without the lock                      *)
(*     "hold"       in its own code, with the lock                         *)
(*     "queued"     in cond_wait, in the list of waiters                   *)
(*     "down"       in sema_down, not blocked; "asleep" in it, blocked     *)
(*     "acquire"    in the lock_acquire of cond_wait                       *)
(*     "broadcast"  in the loop of cond_broadcast                          *)
PC == {"run", "hold", "queued", "down", "asleep", "acquire", "broadcast"}

Init ==
  /\ holder = NoThread
  /\ waiters = [c \in Cond |-> << >>]
  /\ value = [t \in Thread |-> 0]
  /\ arg = [t \in Thread |-> NoCond]
  /\ pc = [t \in Thread |-> "run"]

Goto(t, place) == pc' = [pc EXCEPT ![t] = place]

\* compare_sema_priority compares the priorities of the first threads in the lists of
\* two semaphores.  Of an empty list it reads the tail as a thread: any number.
SemaPriority == {[t \in Thread |-> IF pc[t] = "asleep" THEN Priority[t] ELSE g[t]] :
                   g \in [Thread -> Garbage]}

LockAcquire(t) ==
  /\ pc[t] = "run" /\ holder = NoThread
  /\ holder' = t
  /\ Goto(t, "hold")
  /\ UNCHANGED <<waiters, value, arg>>

LockRelease(t) ==
  /\ pc[t] = "hold"
  /\ holder' = NoThread
  /\ Goto(t, "run")
  /\ UNCHANGED <<waiters, value, arg>>

--------------------------------------------------------------------------------
(* cond_wait.                                                              *)

CondWait(t) ==
  /\ pc[t] = "hold"
  /\ \E c \in Cond, key \in SemaPriority :
        /\ waiters' = [waiters EXCEPT ![c] = InsertOrdered(@, t, key)]
        /\ arg' = [arg EXCEPT ![t] = c]
  /\ value' = [value EXCEPT ![t] = 0]      \* sema_init
  /\ Goto(t, "queued")
  /\ UNCHANGED holder

WaitRelease(t) ==
  /\ pc[t] = "queued"
  /\ holder' = NoThread
  /\ Goto(t, "down")
  /\ UNCHANGED <<waiters, value, arg>>

\* (Mutant: sema_down forgets to take the unit.)
SemaDownKeepingUnit(t) ==
  /\ pc[t] = "down"
  /\ IF value[t] = 0 THEN Goto(t, "asleep") ELSE Goto(t, "acquire")
  /\ UNCHANGED <<holder, waiters, value, arg>>

SemaDown(t) ==
  /\ pc[t] = "down"
  /\ \/ value[t] = 0 /\ Goto(t, "asleep") /\ UNCHANGED value
     \/ value[t] > 0 /\ Goto(t, "acquire") /\ value' = [value EXCEPT ![t] = @ - 1]
  /\ UNCHANGED <<holder, waiters, arg>>

WaitAcquire(t) ==
  /\ pc[t] = "acquire" /\ holder = NoThread
  /\ holder' = t
  /\ arg' = [arg EXCEPT ![t] = NoCond]
  /\ Goto(t, "hold")
  /\ UNCHANGED <<waiters, value>>

--------------------------------------------------------------------------------
(* cond_signal and cond_broadcast.                                         *)

\* (Mutant: list_front for list_pop_front, the element stays in the list.)
SignalKeepingElem(c) ==
  \E key \in SemaPriority :
     LET w == Head(ListSort(waiters[c], key))
     IN  /\ waiters' = [waiters EXCEPT ![c] = ListSort(@, key)]
         /\ value' = [value EXCEPT ![w] = @ + 1]
         /\ pc' = IF pc[w] = "asleep" THEN [pc EXCEPT ![w] = "down"] ELSE pc

\* (Mutant: thread_unblock for sema_up, a thread that does not sleep yet loses the signal.)
SignalSleeping(c) ==
  \E key \in SemaPriority :
     LET sorted == ListSort(waiters[c], key)
         w == Head(sorted)
     IN  /\ waiters' = [waiters EXCEPT ![c] = Tail(sorted)]
         /\ value' = [value EXCEPT ![w] = IF pc[w] = "asleep" THEN @ + 1 ELSE @]
         /\ pc' = IF pc[w] = "asleep" THEN [pc EXCEPT ![w] = "down"] ELSE pc

\* (Mutant: cond_signal without list_sort, relying on the order of insertion.)
SignalUnsorted(c) ==
  LET w == Head(waiters[c])
  IN  /\ waiters' = [waiters EXCEPT ![c] = Tail(@)]
      /\ value' = [value EXCEPT ![w] = @ + 1]
      /\ pc' = IF pc[w] = "asleep" THEN [pc EXCEPT ![w] = "down"] ELSE pc

\* list_sort, then sema_up of the first waiter, which wakes it if it is asleep.
SignalFirst(c) ==
  \E key \in SemaPriority :
     LET sorted == ListSort(waiters[c], key)
         w == Head(sorted)
     IN  /\ waiters' = [waiters EXCEPT ![c] = Tail(sorted)]
         /\ value' = [value EXCEPT ![w] = @ + 1]
         /\ pc' = IF pc[w] = "asleep" THEN [pc EXCEPT ![w] = "down"] ELSE pc

\* A signal without waiters changes nothing.
CondSignal(t) ==
  /\ pc[t] = "hold"
  /\ \E c \in Cond : waiters[c] # << >> /\ SignalFirst(c)
  /\ UNCHANGED <<holder, arg>>

CondBroadcast(t) ==
  /\ pc[t] = "hold"
  /\ \E c \in Cond : arg' = [arg EXCEPT ![t] = c]
  /\ Goto(t, "broadcast")
  /\ UNCHANGED <<holder, waiters, value>>

BroadcastSignal(t) ==
  /\ pc[t] = "broadcast" /\ waiters[arg[t]] # << >>
  /\ SignalFirst(arg[t])
  /\ UNCHANGED <<holder, arg>>

BroadcastReturn(t) ==
  /\ pc[t] = "broadcast" /\ waiters[arg[t]] = << >>
  /\ arg' = [arg EXCEPT ![t] = NoCond]
  /\ Goto(t, "hold")
  /\ UNCHANGED <<holder, waiters, value>>

Wait(t) == CondWait(t) \/ WaitRelease(t) \/ SemaDown(t) \/ WaitAcquire(t)
Broadcast(t) == CondBroadcast(t) \/ BroadcastSignal(t) \/ BroadcastReturn(t)

Next ==
  \E t \in Thread \ {Idle} :
     LockAcquire(t) \/ LockRelease(t) \/ Wait(t) \/ CondSignal(t) \/ Broadcast(t)

Spec == Init /\ [][Next]_vars

--------------------------------------------------------------------------------
(* Properties.                                                             *)

InWait == {t \in Thread : pc[t] \in {"queued", "down", "asleep"}}

\* Type invariant: every variable stays in its domain.
TypeOK ==
  /\ holder \in Thread \union {NoThread}
  /\ waiters \in [Cond -> Seq(Thread)]
  /\ value \in [Thread -> {0, 1}]
  /\ arg \in [Thread -> Cond \union {NoCond}]
  /\ pc \in [Thread -> PC]

\* The element of a waiter is in the list of its own condition variable, once, until a
\* signal takes it out, and gives the semaphore its one unit: who is in cond_wait can
\* still be signalled or has been, and nobody sleeps on a unit.  A list holds no element
\* of a stack frame that is gone.
WaitingOrSignalled ==
  /\ \A c \in Cond : NoDuplicates(waiters[c])
  /\ \A c \in Cond : ListElems(waiters[c]) = {t \in InWait : arg[t] = c /\ value[t] = 0}
  /\ \A t \in Thread : value[t] = 1 => pc[t] = "down"

\* cond_wait "Atomically releases LOCK and waits for COND to be signaled" (synch.c), although
\* it does so in three steps: the lock, the waiters and the signals are a Mesa monitor.
Monitor == INSTANCE MonitorSpec
  WITH owner <- holder,
       waiting <- [c \in Cond |-> {t \in ListElems(waiters[c]) : pc[t] # "queued"}],
       signalled <- {t \in Thread : pc[t] = "acquire" \/ value[t] = 1}
WaitIsAtomic == Monitor!MonitorSafety

\* cond_signal sorts the waiters by priority (synch.c:414), whatever order the comparisons at
\* their insertion gave them: a sleeper that it wakes is not outranked by a sleeper it leaves.
\* (A waiter that is not asleep yet may be taken for anything.)
WakesHighestSleeper ==
  [][\A c \in Cond : \A w \in ListElems(waiters[c]) \ ListElems(waiters'[c]) :
       \A u \in ListElems(waiters'[c]) :
          pc[w] = "asleep" /\ pc[u] = "asleep" => Priority[u] <= Priority[w]]_vars
================================================================================
