--------------------------------- MODULE Mlfqs ---------------------------------
(***************************************************************************)
(* The scheduler of hw2 under the kernel option -o mlfqs: priorities are   *)
(* computed from recent_cpu and nice, in the timer interrupt (hw2's        *)
(* devices/timer.c) and in thread_set_nice.                                *)
(*                                                                         *)
(* The timer interrupt is one action: it runs with interrupts disabled.    *)
(* Once a second it goes through all_list, and does not advance when it    *)
(* comes to the idle thread: there the handler, and with it the system,    *)
(* stays (stuck).  So the clock needs no bound of its own.                 *)
(*                                                                         *)
(* REFRESH_TOTAL_PRIORITY is 0 and BOOL_REFRESH_PRIORITY 1 in thread.h.    *)
(* The sleep list is always empty: timer_sleep waits by yielding.          *)
(***************************************************************************)
EXTENDS Threads, FixedPoint

CONSTANTS
  PRI_MIN, PRI_DEFAULT, PRI_MAX,
  Nice,          \* the arguments of thread_set_nice
  TIMER_FREQ, TIME_SLICE,
  RECALC,        \* the ticks between two calls of set_priority, 4 in the code
  SleepArg       \* the arguments of timer_sleep

ASSUME MlfqsAssumption ==
  /\ PRI_MIN \in Nat /\ PRI_DEFAULT \in PRI_MIN .. PRI_MAX /\ PRI_MAX \in Nat
  /\ Nice \subseteq Int /\ 0 \in Nice
  /\ TIMER_FREQ \in Nat \ {0} /\ TIME_SLICE \in Nat \ {0} /\ RECALC \in Nat \ {0}
  /\ SleepArg \subseteq Int

\* Every thread takes a page of memory: there are fewer than the largest whole number that a
\* fixed-point number holds.
ASSUME FewThreads == IsFiniteSet(Thread) /\ Cardinality(Thread) * Mask <= IntMax

VARIABLES
  sched,               \* the scheduler's state (module Threads)
  recent_cpu, nice,    \* of struct thread
  all_list,            \* the threads, in the order of their creation
  load_avg, ticks,
  due,                 \* of timer_sleep: start + ticks
  pc,                  \* where each thread is between two actions
  stuck,               \* the timer interrupt does not return any more
  ran                  \* history: the ticks charged to a thread and, before, to its creators

cpuVars == <<recent_cpu, nice, ran>>
vars == <<sched, recent_cpu, nice, all_list, load_avg, ticks, due, pc, stuck, ran>>

(* pc: "run"     in its own code (of the idle thread: about to block)      *)
(*     "nice"    in thread_set_nice, about to call yield_to_max            *)
(*     "sleep"   in the loop of timer_sleep                                *)
(*     "wait"    blocked by a synchronisation primitive                    *)
(*     "halt"    the idle thread, waiting for an interrupt                 *)
PC == {"run", "nice", "sleep", "wait", "halt"}

\* After thread_start: the main thread is running and the idle one has blocked.
Init ==
  /\ sched = [current |-> Main,
              status |-> [t \in Thread |-> CASE t = Main -> "RUNNING" [] t = Idle -> "BLOCKED"
                                             [] OTHER -> "FREE"],
              ready_list |-> << >>,
              priority |-> [t \in Thread |-> IF t = Idle THEN PRI_MIN ELSE PRI_DEFAULT],
              thread_ticks |-> 0]
  /\ recent_cpu = [t \in Thread |-> 0] /\ nice = [t \in Thread |-> 0]
  /\ all_list = <<Main, Idle>>
  /\ load_avg = 0 /\ ticks = 0
  /\ due = [t \in Thread |-> 0]
  /\ pc = [t \in Thread |-> IF t = Idle THEN "halt" ELSE "run"]
  /\ stuck = FALSE
  /\ ran = [t \in Thread |-> 0]

Running(t) == ~stuck /\ sched.current = t /\ t # Idle
Goto(t, place) == pc' = [pc EXCEPT ![t] = place]

--------------------------------------------------------------------------------
(* Priorities.                                                             *)

\* (Mutant: calc_priority without its test for PRI_MIN.)
CalcPriorityUnbounded(cpu, n) ==
  LET result == convert_to_int_to_nearest(
                  substract_fixed_and_fixed(
                    substract_fixed_and_fixed(convert_to_fixed_point(PRI_MAX),
                                              divide_fixed_and_int(cpu, 4)),
                    multiply_fixed_and_int(convert_to_fixed_point(n), 2)))
  IN  IF result > PRI_MAX THEN PRI_MAX ELSE result

CalcPriority(cpu, n) ==
  LET result == convert_to_int_to_nearest(
                  substract_fixed_and_fixed(
                    substract_fixed_and_fixed(convert_to_fixed_point(PRI_MAX),
                                              divide_fixed_and_int(cpu, 4)),
                    multiply_fixed_and_int(convert_to_fixed_point(n), 2)))
  IN  IF result > PRI_MAX THEN PRI_MAX ELSE IF result < PRI_MIN THEN PRI_MIN ELSE result

\* (Mutant: recent_cpu_increase without its test for the idle thread.)
RecentCpuIncreaseOfAny(cpu) ==
  [cpu EXCEPT ![sched.current] = Wrap(@ + add_fixed_and_int(@, 1))]

\* recent_cpu += add_fixed_and_int (recent_cpu, 1), unless the idle thread is running
RecentCpuIncrease(cpu) ==
  IF sched.current = Idle THEN cpu
  ELSE [cpu EXCEPT ![sched.current] = Wrap(@ + add_fixed_and_int(@, 1))]

\* (Mutants: set_priority as REFRESH_TOTAL_PRIORITY has it, and without its test for the
\* idle thread.)
SetPriorityOfAll(s, cpu) ==
  [s EXCEPT !.priority = [t \in Thread |-> IF t \in ListElems(all_list) THEN CalcPriority(cpu[t], nice[t])
                                                                    ELSE @[t]]]
SetPriorityOfIdle(s, cpu) ==
  [s EXCEPT !.priority[s.current] = CalcPriority(cpu[s.current], nice[s.current])]

\* set_priority: that of the running thread alone.
SetPriority(s, cpu) ==
  IF s.current = Idle THEN s
  ELSE [s EXCEPT !.priority[s.current] = CalcPriority(cpu[s.current], nice[s.current])]

CountReadyThreads == Len(sched.ready_list) + (IF sched.current = Idle THEN 0 ELSE 1)

CalcLoadAvg ==
  add_fixed_and_fixed(divide_fixed_and_int(multiply_fixed_and_int(load_avg, 59), 60),
                      divide_fixed_and_int(convert_to_fixed_point(CountReadyThreads), 60))

CalcRecentCpu(load, cpu, n) ==
  LET twice == multiply_fixed_and_int(load, 2)
  IN  add_fixed_and_int(
        multiply_fixed_and_fixed(divide_fixed_and_fixed(twice, add_fixed_and_int(twice, 1)), cpu), n)

\* The threads that the loop of refresh_all_load_avg_recent_cpu_priority gets through: those
\* in front of the idle thread.
Refreshed == LET i == CHOOSE i \in 1 .. Len(all_list) : all_list[i] = Idle
             IN  {all_list[j] : j \in 1 .. i - 1}

--------------------------------------------------------------------------------
(* Steps of the running thread t.                                          *)

\* thread_set_nice, with interrupts off, and the yield_to_max that follows with them on.
ThreadSetNice(t) ==
  /\ Running(t) /\ pc[t] = "run"
  /\ \E n \in Nice :
        /\ nice' = [nice EXCEPT ![t] = n]
        /\ sched' = [sched EXCEPT !.priority[t] = CalcPriority(recent_cpu[t], n)]
  /\ Goto(t, "nice")
  /\ UNCHANGED <<recent_cpu, ran, all_list, load_avg, ticks, due, stuck>>

NiceYield(t) ==
  /\ Running(t) /\ pc[t] = "nice"
  /\ sched' = YieldToMax(sched)
  /\ Goto(t, "run")
  /\ UNCHANGED <<cpuVars, all_list, load_avg, ticks, due, stuck>>

TimerSleep(t) ==
  /\ Running(t) /\ pc[t] = "run"
  /\ \E n \in SleepArg : due' = [due EXCEPT ![t] = ticks + n]
  /\ Goto(t, "sleep")
  /\ UNCHANGED <<sched, cpuVars, all_list, load_avg, ticks, stuck>>

SleepLoop(t) ==
  /\ Running(t) /\ pc[t] = "sleep"
  /\ \/ ticks < due[t] /\ sched' = Yield(sched) /\ UNCHANGED <<pc, due>>
     \/ /\ ticks >= due[t] /\ Goto(t, "run")
        /\ due' = [due EXCEPT ![t] = 0]
        /\ UNCHANGED sched
  /\ UNCHANGED <<cpuVars, all_list, load_avg, ticks, stuck>>

\* thread_create: init_thread takes the recent_cpu and nice of the creator.  (Its separate
\* steps are those of module AlarmClock.)
ThreadCreate(t) ==
  /\ Running(t) /\ pc[t] = "run"
  /\ \E u \in Thread :
        /\ sched.status[u] = "FREE"
        /\ LET s == Unblock([sched EXCEPT !.priority[u] = PRI_DEFAULT], u)
           IN  sched' = IF s.priority[u] > s.priority[t] THEN Yield(s) ELSE s
        /\ all_list' = Append(all_list, u)
        /\ recent_cpu' = [recent_cpu EXCEPT ![u] = recent_cpu[t]]
        /\ nice' = [nice EXCEPT ![u] = nice[t]]
        /\ ran' = [ran EXCEPT ![u] = ran[t]]
        /\ Goto(u, "run")
  /\ UNCHANGED <<load_avg, ticks, due, stuck>>

\* What is in the page of a thread that has exited makes no difference any more.
ThreadExit(t) ==
  /\ Running(t) /\ pc[t] = "run"
  /\ all_list' = ListRemove(all_list, t)
  /\ sched' = [Leave(sched, "DYING") EXCEPT !.priority[t] = PRI_DEFAULT]
  /\ recent_cpu' = [recent_cpu EXCEPT ![t] = 0]
  /\ nice' = [nice EXCEPT ![t] = 0]
  /\ ran' = [ran EXCEPT ![t] = 0]
  /\ UNCHANGED <<load_avg, ticks, due, pc, stuck>>

\* thread_block and thread_unblock, as the synchronisation primitives call them.
ThreadBlock(t) ==
  /\ Running(t) /\ pc[t] = "run"
  /\ sched' = Block(sched)
  /\ Goto(t, "wait")
  /\ UNCHANGED <<cpuVars, all_list, load_avg, ticks, due, stuck>>

ThreadUnblock(t) ==
  /\ Running(t) /\ pc[t] = "run"
  /\ \E u \in Thread : pc[u] = "wait" /\ sched' = Unblock(sched, u) /\ Goto(u, "run")
  /\ UNCHANGED <<cpuVars, all_list, load_avg, ticks, due, stuck>>

IdleBlock ==
  /\ ~stuck /\ sched.current = Idle /\ pc[Idle] = "run"
  /\ sched' = Block(sched)
  /\ Goto(Idle, "halt")
  /\ UNCHANGED <<cpuVars, all_list, load_avg, ticks, due, stuck>>

--------------------------------------------------------------------------------
(* The timer interrupt.                                                    *)

\* A tick that does not end a second: recent_cpu, every RECALC ticks set_priority, thread_tick.
Tick ==
  /\ ~stuck /\ (ticks + 1) % TIMER_FREQ # 0
  /\ ticks' = ticks + 1
  /\ recent_cpu' = RecentCpuIncrease(recent_cpu)
  /\ ran' = IF sched.current = Idle THEN ran ELSE [ran EXCEPT ![sched.current] = @ + 1]
  /\ LET s == IF ticks' % RECALC = 0 THEN SetPriority(sched, recent_cpu') ELSE sched
     IN  sched' = ThreadTick(s, TIME_SLICE)
  /\ pc' = IF sched.current = Idle THEN [pc EXCEPT ![Idle] = "run"] ELSE pc
  /\ UNCHANGED <<nice, all_list, load_avg, due, stuck>>

\* One that does: the loop through all_list, as far as it gets.
SecondTick ==
  /\ ~stuck /\ (ticks + 1) % TIMER_FREQ = 0
  /\ ticks' = ticks + 1
  /\ load_avg' = CalcLoadAvg
  /\ recent_cpu' = LET cpu == RecentCpuIncrease(recent_cpu)
                   IN  [t \in Thread |-> IF t \in Refreshed
                                         THEN CalcRecentCpu(load_avg', cpu[t], nice[t]) ELSE cpu[t]]
  /\ sched' = [sched EXCEPT !.priority =
                 [t \in Thread |-> IF t \in Refreshed THEN CalcPriority(recent_cpu'[t], nice[t])
                                   ELSE @[t]]]
  /\ stuck' = TRUE
  /\ UNCHANGED <<nice, all_list, due, pc, ran>>

Step(t) == \/ ThreadSetNice(t) \/ NiceYield(t) \/ TimerSleep(t) \/ SleepLoop(t)
           \/ ThreadCreate(t) \/ ThreadExit(t) \/ ThreadBlock(t) \/ ThreadUnblock(t)

Next == Tick \/ SecondTick \/ IdleBlock \/ \E t \in Thread : Step(t)

Spec == Init /\ [][Next]_vars

--------------------------------------------------------------------------------
(* Properties.                                                             *)

\* Type invariant: every variable stays in its domain; priorities are between PRI_MIN and
\* PRI_MAX whatever recent_cpu and nice are.
TypeOK ==
  /\ sched \in SchedState /\ sched.priority \in [Thread -> PRI_MIN .. PRI_MAX]
  /\ recent_cpu \in [Thread -> Int32] /\ nice \in [Thread -> Nice]
  /\ all_list \in Seq(Thread)
  /\ load_avg \in Int32 /\ ticks \in 0 .. TIMER_FREQ
  /\ due \in [Thread -> Int]
  /\ pc \in [Thread -> PC]
  /\ stuck \in BOOLEAN
  /\ ran \in [Thread -> Nat]

\* all_list holds every thread that exists, once; the run queue the READY ones, never the
\* idle thread; and the idle thread keeps the lowest priority and is charged for nothing.
ThreadsAccounted ==
  /\ SchedOK(sched)
  /\ NoDuplicates(all_list)
  /\ ListElems(all_list) = {t \in Thread : sched.status[t] \in {"RUNNING", "READY", "BLOCKED"}}
  /\ sched.priority[Idle] = PRI_MIN /\ recent_cpu[Idle] = 0

\* The run queue stays in priority order although priorities are recomputed and nobody sorts
\* it: up to the first second, only the priority of the running thread changes.
ReadyQueueSorted == ~stuck => ReadySorted(sched)

\* The powers of two.
PowerOfTwo[n \in Nat] == IF n = 0 THEN 1 ELSE 2 * PowerOfTwo[n - 1]

\* What the code charges: a tick doubles recent_cpu and adds one, so that after n ticks it is
\* 2^n - 1, until the int overflows and it stays at -1.
RecentCpuDoubles ==
  ~stuck => \A t \in Thread : recent_cpu[t] = Wrap((PowerOfTwo[ran[t]] - 1) * Mask)
================================================================================
