-------------------------------- MODULE Threads --------------------------------
(***************************************************************************)
(* The scheduler of threads/thread.c: the run queue, the status and the    *)
(* priority of the threads, and the functions that change them.            *)
(*                                                                         *)
(* Those functions are called from one another with interrupts disabled    *)
(* (sema_up calls thread_unblock and then yield_to_max, the timer handler  *)
(* wakes any number of threads and may then yield), so each one is an      *)
(* operator from a scheduler state to the next one, and the modules that   *)
(* extend this one compose them in their actions.  A scheduler state s has *)
(*   s.current       running_thread ()                                     *)
(*   s.status        the status of every thread (FREE: no struct thread)   *)
(*   s.ready_list    the run queue, by decreasing priority                 *)
(*   s.priority      the (effective) priority of every thread              *)
(*   s.thread_ticks  timer ticks since the last thread switch              *)
(***************************************************************************)
EXTENDS KernelList

CONSTANTS
  Thread,     \* every page that may hold a struct thread
  Main,       \* initial_thread, whose page is never freed
  Idle        \* idle_thread, scheduled when the run queue is empty

ASSUME ThreadAssumption == Main \in Thread /\ Idle \in Thread /\ Main # Idle

Status == {"RUNNING", "READY", "BLOCKED", "DYING", "FREE"}

SchedState == [current : Thread, status : [Thread -> Status],
               ready_list : Seq(Thread), priority : [Thread -> Int],
               thread_ticks : Nat]

NextThreadToRun(s) == IF s.ready_list = << >> THEN Idle ELSE Head(s.ready_list)

\* (Mutant: thread_schedule_tail without thread_ticks = 0.)
ScheduleKeepingTicks(s) ==
  LET next == NextThreadToRun(s)
  IN  [s EXCEPT
        !.current = next,
        !.status = [t \in Thread |-> IF t = next THEN "RUNNING"
                                     ELSE IF t = s.current /\ t # Main /\ s.status[t] = "DYING"
                                     THEN "FREE" ELSE s.status[t]],
        !.ready_list = IF s.ready_list = << >> THEN << >> ELSE Tail(s.ready_list)]

\* schedule and thread_schedule_tail: take the next thread off the run queue,
\* mark it running, start its time slice, and free the thread switched from if
\* it is dying (except initial_thread).
Schedule(s) ==
  LET next == NextThreadToRun(s)
      prev == s.current
      freed == prev # next /\ s.status[prev] = "DYING" /\ prev # Main
  IN  [s EXCEPT
        !.current = next,
        !.status = [t \in Thread |-> IF t = next THEN "RUNNING"
                                     ELSE IF t = prev /\ freed THEN "FREE"
                                     ELSE s.status[t]],
        !.ready_list = IF s.ready_list = << >> THEN << >> ELSE Tail(s.ready_list),
        !.thread_ticks = 0]

\* (Mutant: thread_unblock with the list_push_back that the code has commented out.)
UnblockAtEnd(s, t) ==
  [s EXCEPT !.ready_list = Append(s.ready_list, t), !.status[t] = "READY"]

\* thread_unblock: queue t by priority; the running thread is not preempted.
Unblock(s, t) ==
  [s EXCEPT !.ready_list = InsertOrdered(s.ready_list, t, s.priority),
            !.status[t] = "READY"]

\* The running thread leaves the CPU with status st.
Leave(s, st) == Schedule([s EXCEPT !.status[s.current] = st])

\* thread_block (and the end of thread_exit, with DYING).
Block(s) == Leave(s, "BLOCKED")

\* (Mutants: thread_yield that queues the idle thread too; that uses list_push_back.)
YieldWithIdle(s) ==
  Leave([s EXCEPT !.ready_list = InsertOrdered(s.ready_list, s.current, s.priority)], "READY")

YieldAtEnd(s) ==
  Leave([s EXCEPT !.ready_list = IF s.current = Idle THEN @ ELSE Append(@, s.current)], "READY")

\* thread_yield: back to the run queue, unless it is the idle thread.
Yield(s) ==
  LET cur == s.current
      queue == IF cur = Idle THEN s.ready_list
               ELSE InsertOrdered(s.ready_list, cur, s.priority)
  IN  Leave([s EXCEPT !.ready_list = queue], "READY")

\* yield_to_max: yield if the first thread of the run queue has a higher priority.
YieldToMax(s) ==
  IF /\ s.ready_list # << >>
     /\ s.priority[s.current] < s.priority[Head(s.ready_list)]
  THEN Yield(s) ELSE s

\* ready_list_sort
ReadyListSort(s) == [s EXCEPT !.ready_list = ListSort(s.ready_list, s.priority)]

\* thread_tick and the end of intr_handler: at the end of its slice the running
\* thread yields on the return from the interrupt.
ThreadTick(s, TimeSlice) ==
  IF s.thread_ticks + 1 >= TimeSlice
  THEN Yield([s EXCEPT !.thread_ticks = @ + 1])
  ELSE [s EXCEPT !.thread_ticks = @ + 1]

--------------------------------------------------------------------------------
(* What every scheduler state must satisfy between two calls.              *)

\* Exactly the running thread has the status RUNNING.
OneRunning(s) == \A t \in Thread : s.status[t] = "RUNNING" <=> t = s.current

\* The run queue holds the ready threads, each once; the idle thread is never
\* in it, whatever its status.
QueueMatchesStatus(s) ==
  /\ NoDuplicates(s.ready_list)
  /\ ListElems(s.ready_list) = {t \in Thread \ {Idle} : s.status[t] = "READY"}

SchedOK(s) == OneRunning(s) /\ QueueMatchesStatus(s)

ReadySorted(s) == SortedBy(s.ready_list, s.priority)
================================================================================
