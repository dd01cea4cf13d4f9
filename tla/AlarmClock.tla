------------------------------- MODULE AlarmClock -------------------------------
(***************************************************************************)
(* threads/thread.c and devices/timer.c (the same in base/ and in hw3/),   *)
(* without locks: threads are created, yield, block, change their priority,*)
(* sleep and exit; the timer interrupt wakes the sleepers and ends time    *)
(* slices.  Kernel threads of a build without USERPROG.                    *)
(*                                                                         *)
(* An action of a thread is what it does from one point where interrupts   *)
(* are enabled to the next, so the timer may interrupt between any two.    *)
(* The interrupt itself runs with interrupts off: from TimerInterrupt to   *)
(* TimerReturn no thread takes a step.  The start is the state thread_start*)
(* leaves: the main thread runs, the idle thread has been scheduled once   *)
(* and has yielded from its sema_up, READY but not in the run queue.       *)
(***************************************************************************)
EXTENDS Threads

CONSTANTS
  Priority,      \* the priorities threads may be given
  MainPriority,  \* PRI_DEFAULT
  IdlePriority,  \* PRI_MIN
  TimeSlice,     \* TIME_SLICE
  SleepArg,      \* the arguments timer_sleep is called with
  MaxTick,       \* bound: ticks stops here
  NoThread       \* no thread

ASSUME AlarmAssumption ==
  /\ Priority \subseteq Int /\ MainPriority \in Priority /\ IdlePriority \in Int
  /\ TimeSlice \in Nat \ {0}
  /\ SleepArg \subseteq Int
  /\ MaxTick \in Nat
  /\ NoThread \notin Thread

VARIABLES
  sched,         \* the scheduler state, see Threads
  ticks,         \* timer ticks since boot
  blocked_list,  \* the sleepers, by wake_tick
  wake_tick,     \* the tick each sleeper is to be woken at
  end,           \* timer_sleep's local variable of that name
  created,       \* thread_create's local variable t
  pc,            \* where each thread is between two actions
  interrupt      \* the timer interrupt handler is running

vars == <<sched, ticks, blocked_list, wake_tick, end, created, pc, interrupt>>
alarmVars == <<blocked_list, wake_tick>>

(* pc: "run"    in its own code                                            *)
(*     "sleep"  in timer_sleep, end computed                               *)
(*     "init"   in thread_create, the new thread initialised               *)
(*     "queued" in thread_create, the new thread in the run queue          *)
(*     "wait"   blocked in thread_block by a synchronisation primitive     *)
(*     "halt"   (idle) waiting for an interrupt in hlt                     *)
PC == {"run", "sleep", "init", "queued", "wait", "halt"}

Init ==
  /\ sched = [current |-> Main,
              status |-> [t \in Thread |-> CASE t = Main -> "RUNNING"
                                             [] t = Idle -> "READY"
                                             [] OTHER -> "FREE"],
              ready_list |-> << >>,
              priority |-> [t \in Thread |-> IF t = Main THEN MainPriority ELSE IdlePriority],
              thread_ticks |-> 0]
  /\ ticks = 0
  /\ blocked_list = << >>
  /\ wake_tick = [t \in Thread |-> 0]
  /\ end = [t \in Thread |-> 0]
  /\ created = [t \in Thread |-> NoThread]
  /\ pc = [t \in Thread |-> "run"]
  /\ interrupt = FALSE

--------------------------------------------------------------------------------
(* Steps of the running thread t.                                          *)

Running(t) == ~interrupt /\ sched.current = t /\ t # Idle

\* timer_sleep reads the clock with interrupts off, and computes end with
\* interrupts on: the thread may be interrupted before it goes to sleep.
\* The guard keeps end within the bounded clock.
TimerSleep(t) ==
  /\ Running(t) /\ pc[t] = "run"
  /\ \E n \in SleepArg :
        /\ ticks + n <= MaxTick
        /\ end' = [end EXCEPT ![t] = ticks + n]
  /\ pc' = [pc EXCEPT ![t] = "sleep"]
  /\ UNCHANGED <<sched, ticks, alarmVars, created, interrupt>>

\* (Mutant: thread_yield_sleep that inserts the thread before it assigns wake_tick.)
ThreadYieldSleepUnassigned(t) ==
  /\ Running(t) /\ pc[t] = "sleep"
  /\ wake_tick' = [wake_tick EXCEPT ![t] = end[t]]
  /\ blocked_list' = InsertOrdered(blocked_list, t, [u \in Thread |-> -wake_tick[u]])
  /\ sched' = Block(sched)
  /\ pc' = [pc EXCEPT ![t] = "run"]
  /\ UNCHANGED <<ticks, end, created, interrupt>>

\* thread_yield_sleep (end)
ThreadYieldSleep(t) ==
  /\ Running(t) /\ pc[t] = "sleep"
  /\ wake_tick' = [wake_tick EXCEPT ![t] = end[t]]
  /\ blocked_list' = InsertOrdered(blocked_list, t, [u \in Thread |-> -wake_tick'[u]])
  /\ sched' = Block(sched)
  /\ pc' = [pc EXCEPT ![t] = "run"]
  /\ UNCHANGED <<ticks, end, created, interrupt>>

ThreadYield(t) ==
  /\ Running(t) /\ pc[t] = "run"
  /\ sched' = Yield(sched)
  /\ UNCHANGED <<ticks, alarmVars, end, created, pc, interrupt>>

\* thread_block, as the synchronisation primitives call it, and thread_unblock
\* of a thread that one of them has blocked.
ThreadBlock(t) ==
  /\ Running(t) /\ pc[t] = "run"
  /\ sched' = Block(sched)
  /\ pc' = [pc EXCEPT ![t] = "wait"]
  /\ UNCHANGED <<ticks, alarmVars, end, created, interrupt>>

ThreadUnblock(t) ==
  /\ Running(t) /\ pc[t] = "run"
  /\ \E u \in Thread :
        /\ pc[u] = "wait"
        /\ sched' = Unblock(sched, u)
        /\ pc' = [pc EXCEPT ![u] = "run"]
  /\ UNCHANGED <<ticks, alarmVars, end, created, interrupt>>

\* thread_set_priority: there are no donations here, so the effective priority
\* is the one set.
ThreadSetPriority(t) ==
  /\ Running(t) /\ pc[t] = "run"
  /\ \E p \in Priority : sched' = YieldToMax([sched EXCEPT !.priority[t] = p])
  /\ UNCHANGED <<ticks, alarmVars, end, created, pc, interrupt>>

\* thread_create: init_thread makes a blocked thread of a free page,
ThreadCreate(t) ==
  /\ Running(t) /\ pc[t] = "run"
  /\ \E u \in Thread, p \in Priority :
        /\ sched.status[u] = "FREE"
        /\ sched' = [sched EXCEPT !.status[u] = "BLOCKED", !.priority[u] = p]
        /\ created' = [created EXCEPT ![t] = u]
        /\ pc' = [pc EXCEPT ![t] = "init", ![u] = "run"]
  /\ UNCHANGED <<ticks, alarmVars, end, interrupt>>

\* then thread_unblock puts it in the run queue,
ThreadCreateUnblock(t) ==
  /\ Running(t) /\ pc[t] = "init"
  /\ sched' = Unblock(sched, created[t])
  /\ pc' = [pc EXCEPT ![t] = "queued"]
  /\ UNCHANGED <<ticks, alarmVars, end, created, interrupt>>

\* and the creator yields if the new thread's priority is the higher.  The new
\* thread may have exited by now: its page, freed, holds anything.
ThreadCreateReturn(t) ==
  /\ Running(t) /\ pc[t] = "queued"
  /\ LET u == created[t]
         higher == IF sched.status[u] = "FREE" THEN BOOLEAN
                   ELSE {sched.priority[u] > sched.priority[t]}
     IN  \E yields \in higher : sched' = IF yields THEN Yield(sched) ELSE sched
  /\ pc' = [pc EXCEPT ![t] = "run"]
  /\ created' = [created EXCEPT ![t] = NoThread]
  /\ UNCHANGED <<ticks, alarmVars, end, interrupt>>

ThreadExit(t) ==
  /\ Running(t) /\ pc[t] = "run"
  /\ sched' = Leave(sched, "DYING")
  /\ UNCHANGED <<ticks, alarmVars, end, created, pc, interrupt>>

\* The loop of idle: thread_block with interrupts off; the next time it is
\* scheduled it halts until an interrupt.
IdleBlock ==
  /\ ~interrupt /\ sched.current = Idle /\ pc[Idle] = "run"
  /\ sched' = Block(sched)
  /\ pc' = [pc EXCEPT ![Idle] = "halt"]
  /\ UNCHANGED <<ticks, alarmVars, end, created, interrupt>>

--------------------------------------------------------------------------------
(* The timer interrupt.                                                    *)

TimerInterrupt ==
  /\ ~interrupt
  /\ interrupt' = TRUE
  /\ ticks' = IF ticks < MaxTick THEN ticks + 1 ELSE ticks
  /\ pc' = IF sched.current = Idle THEN [pc EXCEPT ![Idle] = "run"] ELSE pc
  /\ UNCHANGED <<sched, alarmVars, end, created>>

\* (Mutants: a thread is due one tick after its wake_tick; at its wake_tick only.)
FirstIsLate == blocked_list # << >> /\ wake_tick[Head(blocked_list)] < ticks
FirstIsDueNow == blocked_list # << >> /\ wake_tick[Head(blocked_list)] = ticks

FirstIsDue == blocked_list # << >> /\ wake_tick[Head(blocked_list)] <= ticks

\* (Mutant: the loop goes on from the element after the one that list_remove returns.)
WakeSkippingOne ==
  /\ interrupt /\ FirstIsDue
  /\ blocked_list' = SubSeq(blocked_list, 3, Len(blocked_list))
  /\ sched' = Unblock(sched, Head(blocked_list))
  /\ UNCHANGED <<ticks, wake_tick, end, created, pc, interrupt>>

\* One iteration of the loop of wake_blocked_thread.
WakeBlockedThread ==
  /\ interrupt /\ FirstIsDue
  /\ blocked_list' = Tail(blocked_list)
  /\ sched' = Unblock(sched, Head(blocked_list))
  /\ UNCHANGED <<ticks, wake_tick, end, created, pc, interrupt>>

\* The end of the loop, thread_tick, and the return from the interrupt.
TimerReturn ==
  /\ interrupt /\ ~FirstIsDue
  /\ sched' = ThreadTick(sched, TimeSlice)
  /\ interrupt' = FALSE
  /\ UNCHANGED <<ticks, alarmVars, end, created, pc>>

Timer == TimerInterrupt \/ WakeBlockedThread \/ TimerReturn

Step(t) ==
  \/ TimerSleep(t) \/ ThreadYieldSleep(t)
  \/ ThreadYield(t) \/ ThreadBlock(t) \/ ThreadUnblock(t) \/ ThreadSetPriority(t)
  \/ ThreadCreate(t) \/ ThreadCreateUnblock(t) \/ ThreadCreateReturn(t)
  \/ ThreadExit(t)

Next == Timer \/ IdleBlock \/ \E t \in Thread : Step(t)

Spec == Init /\ [][Next]_vars

\* The timer interrupts for ever, and its handler runs to its end.  Nothing is
\* assumed of the threads: any of them may keep the CPU in its own code.
FairSpec == Spec /\ WF_vars(Timer)

--------------------------------------------------------------------------------
(* Properties.                                                             *)

Sleepers == ListElems(blocked_list)
WakeKey == [t \in Thread |-> -wake_tick[t]]
Creating(t, u) == pc[t] = "init" /\ created[t] = u

\* Type invariant: every variable stays in its domain, and between two interrupts
\* the running thread is within its time slice.
TypeOK ==
  /\ sched \in SchedState /\ sched.thread_ticks < TimeSlice
  /\ ticks \in 0 .. MaxTick
  /\ blocked_list \in Seq(Thread)
  /\ wake_tick \in [Thread -> Int] /\ end \in [Thread -> Int]
  /\ created \in [Thread -> Thread \union {NoThread}]
  /\ pc \in [Thread -> PC]
  /\ interrupt \in BOOLEAN

\* The list element elem of a thread is in one list at a time and in the list
\* its status says (thread.h, the comment on elem): the run queue holds the READY
\* threads and never the idle one (thread.c, the comment on idle), a sleeper is
\* BLOCKED, and no thread is twice in a list.
ElemInOneList ==
  /\ SchedOK(sched)
  /\ NoDuplicates(blocked_list)
  /\ \A t \in Sleepers : sched.status[t] = "BLOCKED" /\ t # Idle

\* No thread is lost: whoever is BLOCKED has exactly one way back, the sleep list,
\* the primitive that blocked it, or the thread_create that is making it (of one
\* creator only); the idle thread needs none.
BlockedAwaitsOne ==
  \A t \in Thread \ {Idle} : sched.status[t] = "BLOCKED" =>
     \/ t \in Sleepers /\ pc[t] = "run" /\ ~\E u \in Thread : Creating(u, t)
     \/ t \notin Sleepers /\ pc[t] = "wait" /\ ~\E u \in Thread : Creating(u, t)
     \/ /\ t \notin Sleepers /\ pc[t] = "run"
        /\ \E u \in Thread : Creating(u, t) /\ \A v \in Thread : Creating(v, t) => v = u

\* The run queue stays in priority order while priorities change and threads come
\* and go, although only list_insert_ordered keeps it so.
ReadyQueueSorted == ReadySorted(sched)

\* The sleep list stays in wake_tick order: wake_blocked_thread relies on it to
\* stop at the first thread that is not due.
SleepListSorted == SortedBy(blocked_list, WakeKey)

\* Whoever is given the CPU outranks, or ranks with, every thread left in the run
\* queue, and the idle thread is given it only when the queue is empty.
DispatchesHighest ==
  [][sched'.current # sched.current =>
       \A t \in ListElems(sched'.ready_list) :
          /\ sched'.current # Idle
          /\ sched'.priority[t] <= sched'.priority[sched'.current]]_vars

\* timer_sleep keeps its promise: no thread wakes before the deadline it computed,
\* and none that is due sleeps through a timer interrupt.
SleepPromise == INSTANCE SleepSpec
  WITH clock <- ticks, asleep <- Sleepers, due <- end, ringing <- interrupt
SleepIsKept == SleepPromise!SleepSafety

\* Every sleeper is woken, whatever the other threads do with the CPU.
SleepersWake == \A t \in Thread : t \in Sleepers ~> t \notin Sleepers

\* Round robin: a ready thread that nobody outranks gets the CPU, unless somebody
\* comes to outrank it, even if no thread ever gives up the CPU.
Outranked(t) == \E u \in Thread \ {t} : /\ sched.status[u] \in {"RUNNING", "READY"}
                                        /\ u # Idle
                                        /\ sched.priority[u] > sched.priority[t]
TopReadyRuns ==
  \A t \in Thread \ {Idle} :
     sched.status[t] = "READY" /\ ~Outranked(t)
        ~> sched.status[t] # "READY" \/ Outranked(t)
================================================================================
