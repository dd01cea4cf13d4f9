--------------------------------- MODULE Synch ---------------------------------
(***************************************************************************)
(* threads/synch.c of hw3: semaphores, locks with nested priority donation,*)
(* and thread_set_priority (threads/thread.c), on the scheduler of module  *)
(* Threads.                                                                *)
(*                                                                         *)
(* sema_down, sema_up and sema_try_down run with interrupts off and are one*)
(* action each (per turn of its loop, for sema_down).  lock_acquire,       *)
(* lock_release and thread_set_priority run with interrupts on: each of    *)
(* their statements that reads or writes shared state is an action, and    *)
(* the timer may preempt the thread between two of them.  A call of        *)
(* set_priority_for_lock_holder, and every list operation, is one action.  *)
(*                                                                         *)
(* A dereference of a NULL holder is a page fault in the kernel, which     *)
(* page_fault answers with exit (-1): the thread ends in process_exit's    *)
(* sema_down (&sema_mem), blocked, with the locks it holds.                *)
(***************************************************************************)
EXTENDS Threads

CONSTANTS
  Lock,             \* the locks
  Sema,             \* the semaphores that are not part of a lock
  InitialPriority,  \* the priority each thread is created with
  Priority,         \* the arguments of thread_set_priority
  DonationDepth,    \* DEFAULT_DEPTH
  InterruptibleAt,  \* the places (pc) at which the timer interrupts a thread
  MaxValue,         \* bound: the value of a semaphore of Sema
  NoThread, NoLock  \* NULL

ASSUME SynchAssumption ==
  /\ Lock \cap Sema = {} /\ NoLock \notin Lock \union Sema
  /\ NoThread \notin Thread
  /\ InitialPriority \in [Thread -> Int] /\ Priority \subseteq Int
  /\ DonationDepth \in Nat \ {0} /\ MaxValue \in Nat

VARIABLES
  sched,                  \* the scheduler state, see Threads
  value, waiters,         \* the semaphores, those of the locks included
  holder,                 \* lock->holder
  initial_priority, donation_list, waiting_for_this_lock,  \* of struct thread
  pc,                     \* where each thread is between two actions
  arg,                    \* the lock or semaphore its current call is about
  locks,                  \* history: the locks it has acquired and not released
  corrupt                 \* a list has been corrupted: the model goes no further

semaVars == <<value, waiters>>
donationVars == <<initial_priority, donation_list, waiting_for_this_lock>>
vars == <<sched, value, waiters, holder, initial_priority, donation_list,
          waiting_for_this_lock, pc, arg, locks, corrupt>>

Semaphore == Lock \union Sema

(* pc: "run"       in its own code                                         *)
(*     "asleep"    in timer_sleep                                          *)
(*     lock_acquire (arg):                                                 *)
(*     "mark"      has found a holder                                      *)
(*     "donate"    has set waiting_for_this_lock                           *)
(*     "propagate" has put itself in the holder's donation list            *)
(*     "down"      in sema_down (also for a semaphore of Sema)             *)
(*     "own"       has downed the lock's semaphore                         *)
(*     lock_release (arg):                                                 *)
(*     "restore"   has removed the donations for the lock                  *)
(*     "clear"     has set its priority without them                       *)
(*     "up"        has reset holder                                        *)
(*     "setprio"   in thread_set_priority, initial_priority set            *)
(*     "fault"     dead in the page fault of a NULL holder                 *)
PC == {"run", "asleep", "mark", "donate", "propagate", "down", "own",
       "restore", "clear", "up", "setprio", "fault"}

\* The main thread runs; the threads it has created sleep; all the locks are free.
Init ==
  /\ sched = [current |-> Main,
              status |-> [t \in Thread |-> CASE t = Main -> "RUNNING"
                                             [] t = Idle -> "READY"
                                             [] OTHER -> "BLOCKED"],
              ready_list |-> << >>,
              priority |-> InitialPriority,
              thread_ticks |-> 0]
  /\ value = [s \in Semaphore |-> IF s \in Lock THEN 1 ELSE 0]
  /\ waiters = [s \in Semaphore |-> << >>]
  /\ holder = [l \in Lock |-> NoThread]
  /\ initial_priority = InitialPriority
  /\ donation_list = [t \in Thread |-> {}]
  /\ waiting_for_this_lock = [t \in Thread |-> NoLock]
  /\ pc = [t \in Thread |-> IF t \in {Main, Idle} THEN "run" ELSE "asleep"]
  /\ arg = [t \in Thread |-> NoLock]
  /\ locks = [t \in Thread |-> {}]
  /\ corrupt = FALSE

At(t, place) == ~corrupt /\ sched.current = t /\ t # Idle /\ pc[t] = place
Goto(t, place) == pc' = [pc EXCEPT ![t] = place]

--------------------------------------------------------------------------------
(* Priorities.                                                             *)

HighestDonation(s, t) ==
  CHOOSE p \in {s.priority[u] : u \in donation_list[t]} :
     \A u \in donation_list[t] : s.priority[u] <= p

\* (Mutant: without ready_list_sort.)
RefreshPriorityUnsorted(s, t) ==
  [s EXCEPT !.priority[t] =
     IF donation_list[t] # {} /\ HighestDonation(s, t) > initial_priority[t]
     THEN HighestDonation(s, t) ELSE initial_priority[t]]

\* The priority of t becomes its initial one or, when higher, that of its highest
\* donor; only then is the run queue sorted again.  (The common part of
\* set_priority_for_lock_holder and change_priority.)
RefreshPriority(s, t) ==
  IF donation_list[t] # {} /\ HighestDonation(s, t) > initial_priority[t]
  THEN ReadyListSort([s EXCEPT !.priority[t] = HighestDonation(s, t)])
  ELSE [s EXCEPT !.priority[t] = initial_priority[t]]

\* One level of set_priority_for_lock_holder, on r = [sched, lock, fault]: refresh
\* the holder of r.lock, and go on with the lock it waits for if that changed
\* its priority.
Donate(r) ==
  LET h == holder[r.lock]
      s == RefreshPriority(r.sched, h)
      nested == donation_list[h] # {} /\ s.priority[h] # r.sched.priority[h]
  IN  IF r.lock = NoLock THEN r
      ELSE IF h = NoThread THEN [r EXCEPT !.lock = NoLock, !.fault = TRUE]
      ELSE [r EXCEPT !.sched = s,
                     !.lock = IF nested THEN waiting_for_this_lock[h] ELSE NoLock]

\* set_priority_for_lock_holder (lock, DEFAULT_DEPTH, DEFAULT_BOOL_DEPTH)
SetPriorityForLockHolder(s, lock) ==
  LET level[n \in 0 .. DonationDepth] ==
        IF n = 0 THEN [sched |-> s, lock |-> lock, fault |-> FALSE] ELSE Donate(level[n - 1])
  IN  level[DonationDepth]

--------------------------------------------------------------------------------
(* Semaphores.                                                             *)

\* (Mutant: a turn of the loop may take a unit without testing the value.)
SemaDownUntested(t, s, next) ==
  \/ /\ value[s] = 0
     /\ waiters' = [waiters EXCEPT ![s] = InsertOrdered(@, t, sched.priority)]
     /\ sched' = Block(sched)
     /\ UNCHANGED <<value, pc>>
  \/ /\ value' = [value EXCEPT ![s] = @ - 1]
     /\ Goto(t, next)
     /\ UNCHANGED <<sched, waiters>>

\* sema_down, one turn of its loop: block in the list of waiters while the value
\* is 0, else take one.
SemaDown(t, s, next) ==
  \/ /\ value[s] = 0
     /\ waiters' = [waiters EXCEPT ![s] = InsertOrdered(@, t, sched.priority)]
     /\ sched' = Block(sched)
     /\ UNCHANGED <<value, pc>>
  \/ /\ value[s] > 0
     /\ value' = [value EXCEPT ![s] = @ - 1]
     /\ Goto(t, next)
     /\ UNCHANGED <<sched, waiters>>

\* (Mutants: sema_up that leaves alone a waiter that does not outrank the running thread;
\* that unblocks a waiter with list_front instead of list_pop_front.)
WokenIfHigher(s) ==
  IF waiters[s] = << >> THEN sched
  ELSE LET t == Head(ListSort(waiters[s], sched.priority))
       IN  IF sched.priority[t] > sched.priority[sched.current] THEN Unblock(sched, t) ELSE sched

WaitingWithFirst(s) == ListSort(waiters[s], sched.priority)

\* What sema_up does before it yields: unblock the waiter of the highest priority.
Woken(s) == IF waiters[s] = << >> THEN sched
            ELSE Unblock(sched, Head(ListSort(waiters[s], sched.priority)))
Waiting(s) == IF waiters[s] = << >> THEN << >>
              ELSE Tail(ListSort(waiters[s], sched.priority))

SemaUp(s) ==
  /\ sched' = YieldToMax(Woken(s))
  /\ waiters' = [waiters EXCEPT ![s] = Waiting(s)]
  /\ value' = [value EXCEPT ![s] = @ + 1]

\* A thread calls sema_down, sema_try_down or sema_up on a semaphore of Sema.
CallSemaDown(t) ==
  /\ At(t, "run")
  /\ \E s \in Sema : arg' = [arg EXCEPT ![t] = s]
  /\ Goto(t, "down")
  /\ UNCHANGED <<sched, semaVars, holder, donationVars, locks, corrupt>>

DownSema(t) ==
  /\ At(t, "down") /\ arg[t] \in Sema
  /\ SemaDown(t, arg[t], "run")
  /\ UNCHANGED <<holder, donationVars, arg, locks, corrupt>>

SemaTryDown(t) ==
  /\ At(t, "run")
  /\ \E s \in Sema : value[s] > 0 /\ value' = [value EXCEPT ![s] = @ - 1]
  /\ UNCHANGED <<sched, waiters, holder, donationVars, pc, arg, locks, corrupt>>

CallSemaUp(t) ==
  /\ At(t, "run")
  /\ \E s \in Sema : value[s] < MaxValue /\ SemaUp(s)
  /\ UNCHANGED <<holder, donationVars, pc, arg, locks, corrupt>>

--------------------------------------------------------------------------------
(* lock_acquire and lock_try_acquire.                                      *)

\* (Mutant: a lock without a holder is taken without sema_down.)
AcquireUnheld(t) ==
  /\ At(t, "run")
  /\ \E l \in Lock \ locks[t] :
        /\ holder[l] # t
        /\ arg' = [arg EXCEPT ![t] = l]
        /\ Goto(t, IF holder[l] # NoThread THEN "mark" ELSE "own")
  /\ UNCHANGED <<sched, semaVars, holder, donationVars, locks, corrupt>>

\* The test of lock->holder.  Its caller does not hold the lock.
Acquire(t) ==
  /\ At(t, "run")
  /\ \E l \in Lock \ locks[t] :
        /\ holder[l] # t                      \* ASSERT
        /\ arg' = [arg EXCEPT ![t] = l]
        /\ Goto(t, IF holder[l] # NoThread THEN "mark" ELSE "down")
  /\ UNCHANGED <<sched, semaVars, holder, donationVars, locks, corrupt>>

Mark(t) ==
  /\ At(t, "mark")
  /\ waiting_for_this_lock' = [waiting_for_this_lock EXCEPT ![t] = arg[t]]
  /\ Goto(t, "donate")
  /\ UNCHANGED <<sched, semaVars, holder, initial_priority, donation_list, arg, locks, corrupt>>

\* The death of thread t in a page fault.
Fault(t) == sched' = Block(sched) /\ Goto(t, "fault")

\* list_insert_ordered into lock->holder->donation_list, with the holder read again.
\* The thread has one donation_elem: if that is still in a list, the insertion
\* corrupts that list.
InsertDonation(t) ==
  /\ At(t, "donate")
  /\ LET h == holder[arg[t]]
     IN  \/ /\ h = NoThread
            /\ Fault(t)
            /\ UNCHANGED <<donation_list, corrupt>>
         \/ /\ h # NoThread
            /\ corrupt' = \E u \in Thread : t \in donation_list[u]
            /\ donation_list' = [donation_list EXCEPT ![h] = @ \union {t}]
            /\ Goto(t, "propagate")
            /\ UNCHANGED sched
  /\ UNCHANGED <<semaVars, holder, initial_priority, waiting_for_this_lock, arg, locks>>

\* (Mutant: lock_acquire without set_priority_for_lock_holder.)
PropagateNothing(t) ==
  /\ At(t, "propagate")
  /\ Goto(t, "down")
  /\ UNCHANGED <<sched, semaVars, holder, donationVars, arg, locks, corrupt>>

Propagate(t) ==
  /\ At(t, "propagate")
  /\ LET r == SetPriorityForLockHolder(sched, arg[t])
     IN  IF r.fault THEN sched' = Block(r.sched) /\ Goto(t, "fault")
         ELSE sched' = r.sched /\ Goto(t, "down")
  /\ UNCHANGED <<semaVars, holder, donationVars, arg, locks, corrupt>>

DownLock(t) ==
  /\ At(t, "down") /\ arg[t] \in Lock
  /\ SemaDown(t, arg[t], "own")
  /\ UNCHANGED <<holder, donationVars, arg, locks, corrupt>>

\* waiting_for_this_lock = NULL; lock->holder = thread_current ()
Own(t) ==
  /\ At(t, "own")
  /\ waiting_for_this_lock' = [waiting_for_this_lock EXCEPT ![t] = NoLock]
  /\ holder' = [holder EXCEPT ![arg[t]] = t]
  /\ locks' = [locks EXCEPT ![t] = @ \union {arg[t]}]
  /\ arg' = [arg EXCEPT ![t] = NoLock]
  /\ Goto(t, "run")
  /\ UNCHANGED <<sched, semaVars, initial_priority, donation_list, corrupt>>

\* lock_try_acquire, when it succeeds: sema_try_down, then the holder is set as in
\* lock_acquire (waiting_for_this_lock is NULL already).
TryAcquire(t) ==
  /\ At(t, "run")
  /\ \E l \in Lock \ locks[t] :
        /\ holder[l] # t                      \* ASSERT
        /\ value[l] > 0
        /\ value' = [value EXCEPT ![l] = @ - 1]
        /\ arg' = [arg EXCEPT ![t] = l]
  /\ Goto(t, "own")
  /\ UNCHANGED <<sched, waiters, holder, donationVars, locks, corrupt>>

--------------------------------------------------------------------------------
(* lock_release.                                                           *)

\* (Mutant: lock_release without lock_remove.)
ReleaseKeepingDonors(t) ==
  /\ At(t, "run")
  /\ \E l \in locks[t] : arg' = [arg EXCEPT ![t] = l]
  /\ Goto(t, "restore")
  /\ UNCHANGED <<sched, semaVars, holder, donationVars, locks, corrupt>>

\* lock_remove: the donors that wait for this lock leave the donation list.
Release(t) ==
  /\ At(t, "run")
  /\ \E l \in locks[t] :
        /\ arg' = [arg EXCEPT ![t] = l]
        /\ donation_list' = [donation_list EXCEPT ![t] =
                               {u \in @ : waiting_for_this_lock[u] # l}]
  /\ Goto(t, "restore")
  /\ UNCHANGED <<sched, semaVars, holder, initial_priority, waiting_for_this_lock, locks, corrupt>>

\* (Mutant: lock_release keeps the donated priority.)
RestoreNothing(t) ==
  /\ At(t, "restore")
  /\ Goto(t, "clear")
  /\ UNCHANGED <<sched, semaVars, holder, donationVars, arg, locks, corrupt>>

Restore(t) ==
  /\ At(t, "restore")
  /\ sched' = SetPriorityForLockHolder(sched, arg[t]).sched
  /\ Goto(t, "clear")
  /\ UNCHANGED <<semaVars, holder, donationVars, arg, locks, corrupt>>

\* (Mutant: lock_release without holder = NULL.)
ClearNothing(t) ==
  /\ At(t, "clear")
  /\ locks' = [locks EXCEPT ![t] = @ \ {arg[t]}]
  /\ Goto(t, "up")
  /\ UNCHANGED <<sched, semaVars, holder, donationVars, arg, corrupt>>

ClearHolder(t) ==
  /\ At(t, "clear")
  /\ holder' = [holder EXCEPT ![arg[t]] = NoThread]
  /\ locks' = [locks EXCEPT ![t] = @ \ {arg[t]}]
  /\ Goto(t, "up")
  /\ UNCHANGED <<sched, semaVars, donationVars, arg, corrupt>>

UpLock(t) ==
  /\ At(t, "up")
  /\ SemaUp(arg[t])
  /\ arg' = [arg EXCEPT ![t] = NoLock]
  /\ Goto(t, "run")
  /\ UNCHANGED <<holder, donationVars, locks, corrupt>>

--------------------------------------------------------------------------------
(* thread_set_priority, and the rest of the threads' life.                 *)

SetInitialPriority(t) ==
  /\ At(t, "run")
  /\ \E p \in Priority : initial_priority' = [initial_priority EXCEPT ![t] = p]
  /\ Goto(t, "setprio")
  /\ UNCHANGED <<sched, semaVars, holder, donation_list, waiting_for_this_lock, arg, locks, corrupt>>

\* change_priority and yield_to_max.  (The running thread waits for no lock here, so
\* change_priority has no donation of its own to pass on.)
ChangePriority(t) ==
  /\ At(t, "setprio")
  /\ sched' = YieldToMax(RefreshPriority(sched, t))
  /\ Goto(t, "run")
  /\ UNCHANGED <<semaVars, holder, donationVars, arg, locks, corrupt>>

\* timer_sleep, without its clock: the timer wakes the thread at any time.
Sleep(t) ==
  /\ At(t, "run")
  /\ sched' = Block(sched)
  /\ Goto(t, "asleep")
  /\ UNCHANGED <<semaVars, holder, donationVars, arg, locks, corrupt>>

IdleBlock ==
  /\ ~corrupt /\ sched.current = Idle /\ sched.ready_list # << >>
  /\ sched' = Block(sched)
  /\ UNCHANGED <<semaVars, holder, donationVars, pc, arg, locks, corrupt>>

--------------------------------------------------------------------------------
(* Interrupts: where the running thread may be interrupted, the timer wakes*)
(* sleepers or ends its time slice, and a device's handler calls sema_up.  *)

Interruptible == /\ ~corrupt
                 /\ sched.current = Idle \/ pc[sched.current] \in InterruptibleAt

TimerWake(u) ==
  /\ Interruptible /\ pc[u] = "asleep"
  /\ sched' = Unblock(sched, u)
  /\ Goto(u, "run")
  /\ UNCHANGED <<semaVars, holder, donationVars, arg, locks, corrupt>>

TimerPreempt ==
  /\ Interruptible /\ sched.current # Idle
  /\ sched' = Yield(sched)
  /\ UNCHANGED <<semaVars, holder, donationVars, pc, arg, locks, corrupt>>

\* thread_yield, called by yield_to_max, asserts that it is not in an interrupt.
HandlerSemaUp ==
  /\ Interruptible
  /\ \E s \in Sema : /\ value[s] < MaxValue /\ SemaUp(s)
                     /\ YieldToMax(Woken(s)) = Woken(s)    \* ASSERT
  /\ UNCHANGED <<holder, donationVars, pc, arg, locks, corrupt>>

LockStep(t) ==
  \/ Acquire(t) \/ Mark(t) \/ InsertDonation(t) \/ Propagate(t) \/ DownLock(t) \/ Own(t)
  \/ TryAcquire(t)
  \/ Release(t) \/ Restore(t) \/ ClearHolder(t) \/ UpLock(t)

SemaStep(t) == CallSemaDown(t) \/ DownSema(t) \/ SemaTryDown(t) \/ CallSemaUp(t)

Step(t) == \/ LockStep(t) \/ SemaStep(t)
           \/ SetInitialPriority(t) \/ ChangePriority(t) \/ Sleep(t)

Next == \/ \E t \in Thread : Step(t) \/ TimerWake(t)
        \/ IdleBlock \/ TimerPreempt \/ HandlerSemaUp

Spec == Init /\ [][Next]_vars

\* The steps inside a call are never put off; the timer wakes the sleepers and ends the
\* slices of threads that stay interruptible; a thread that keeps getting the CPU does
\* not hold a lock for ever.  Nothing makes a thread without a lock give up the CPU.
FairSpec ==
  /\ Spec
  /\ WF_vars(IdleBlock) /\ SF_vars(TimerPreempt)
  /\ \A t \in Thread :
        /\ WF_vars(~(pc[t] = "run") /\ Step(t))
        /\ WF_vars(TimerWake(t)) /\ SF_vars(Release(t))

--------------------------------------------------------------------------------
(* Properties.                                                             *)

\* Type invariant: every variable stays in its domain.
TypeOK ==
  /\ sched \in SchedState
  /\ value \in [Semaphore -> Nat] /\ waiters \in [Semaphore -> Seq(Thread)]
  /\ holder \in [Lock -> Thread \union {NoThread}]
  /\ initial_priority \in [Thread -> Int]
  /\ donation_list \in [Thread -> SUBSET Thread]
  /\ waiting_for_this_lock \in [Thread -> Lock \union {NoLock}]
  /\ pc \in [Thread -> PC]
  /\ arg \in [Thread -> Semaphore \union {NoLock}]
  /\ locks \in [Thread -> SUBSET Lock]
  /\ corrupt \in BOOLEAN

\* "A lock can be held by at most a single thread at any given time" (synch.c, the
\* comment on lock_init): between its lock_acquire and its lock_release.
MutualExclusion ==
  \A t, u \in Thread : t # u => locks[t] \cap locks[u] = {}

\* lock_release asserts lock_held_by_current_thread, lock_acquire its negation; both
\* read holder, which other threads' lock_acquire and lock_release write: it names the
\* owner for as long as there is one, and nobody else.
HolderIsOwner ==
  \A l \in Lock, t \in Thread : holder[l] = t <=> l \in locks[t]

\* The threads that sema_up has woken for s, or that have not tested its value yet.
Contending(s) == {t \in Thread : /\ pc[t] = "down" /\ arg[t] = s
                                 /\ sched.status[t] # "BLOCKED"}

\* No lost wakeup: while threads sleep in sema_down, every unit of the value has a
\* thread awake in sema_down to take it, although wakeups may be overtaken.
NoLostWakeup ==
  \A s \in Semaphore : waiters[s] # << >> => value[s] <= Cardinality(Contending(s))

\* The element elem of a thread is in one list at a time (thread.h): the run queue
\* holds the READY threads, the waiters of a semaphore are BLOCKED in its sema_down,
\* and nobody who is BLOCKED there is missing from its list.
ElemInOneList ==
  /\ SchedOK(sched)
  /\ \A s \in Semaphore :
        /\ NoDuplicates(waiters[s])
        /\ ListElems(waiters[s]) =
             {t \in Thread : pc[t] = "down" /\ arg[t] = s /\ sched.status[t] = "BLOCKED"}

\* The run queue stays in priority order while donations change the priorities of
\* queued threads and releases take them back.
ReadyQueueSorted == ReadySorted(sched)

\* A donation lasts as long as the wait it is for: between calls, a thread is in the
\* donation list of the holder of the lock it waits for, and in no other list.
DonorsWaitForHolder ==
  pc[sched.current] = "run" =>
     \A h \in Thread : \A t \in donation_list[h] :
        /\ waiting_for_this_lock[t] \in Lock
        /\ holder[waiting_for_this_lock[t]] = h

\* Between calls every thread has its own priority or that of its highest donor: what
\* a donor is itself donated later, through whatever chain of locks, is passed on,
\* and it is given back with the lock.
DonationIsExact ==
  pc[sched.current] = "run" =>
     \A t \in Thread : sched.priority[t] =
        IF donation_list[t] # {} /\ HighestDonation(sched, t) > initial_priority[t]
        THEN HighestDonation(sched, t) ELSE initial_priority[t]

\* No unbounded inversion: the thread of the highest priority gets the lock it waits
\* for, even if a thread in the middle never gives up the CPU.
Top == CHOOSE t \in Thread : \A u \in Thread : InitialPriority[u] <= InitialPriority[t]
TopGetsLock ==
  \A l \in Lock : pc[Top] = "down" /\ arg[Top] = l ~> l \in locks[Top]

\* lock_acquire's comment (synch.c:218): the holder is NULL when nobody holds the lock.
\* Whoever goes on to the holder's donation list must find one.
NoNullHolder == \A t \in Thread : pc[t] # "fault"
================================================================================
