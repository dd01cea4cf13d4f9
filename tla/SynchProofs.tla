------------------------------ MODULE SynchProofs ------------------------------
(***************************************************************************)
(* Proofs about Synch, for any set of threads, locks and semaphores and    *)
(* any priorities.  Wherever interrupts may come: the locks exclude each   *)
(* other's owners, lock->holder names the owner, every thread is in the    *)
(* one list its status calls for, and no post of a semaphore is lost.      *)
(* When threads are preempted in their own code only: the donations are    *)
(* exactly those of the waiters, and the run queue is in order.            *)
(***************************************************************************)
EXTENDS Synch, ThreadsProofs

\* The variables the argument is about.
LockTypes ==
  /\ value \in [Semaphore -> Nat]
  /\ holder \in [Lock -> Thread \union {NoThread}]
  /\ pc \in [Thread -> PC]
  /\ arg \in [Thread -> Semaphore \union {NoLock}]
  /\ locks \in [Thread -> SUBSET Lock]

\* The one unit of a lock's semaphore: from the sema_down of lock_acquire to the sema_up of
\* lock_release a thread has it, whatever holder says meanwhile.
HasUnit(t, l) == l \in locks[t] \/ (arg[t] = l /\ pc[t] \in {"own", "up"})

OneUnit ==
  \A l \in Lock :
     /\ value[l] \in {0, 1}
     /\ \A t \in Thread : HasUnit(t, l) => value[l] = 0
     /\ \A t, u \in Thread : HasUnit(t, l) /\ HasUnit(u, l) => t = u

\* What each place in lock_acquire and lock_release says of the lock of the call.
ArgInv ==
  \A t \in Thread :
     /\ pc[t] \in {"mark", "donate", "propagate", "own", "up"} => arg[t] \in Lock
     /\ pc[t] \in {"restore", "clear"} => arg[t] \in Lock /\ arg[t] \in locks[t]
     /\ pc[t] = "up" => arg[t] \notin locks[t]

LockInv == LockTypes /\ OneUnit /\ ArgInv /\ HolderIsOwner

\* All the locks are free at the start.
LEMMA InitLockInv == Init => LockInv
<1> SUFFICES ASSUME Init PROVE LockInv
  OBVIOUS
<1>1. /\ value = [s \in Semaphore |-> IF s \in Lock THEN 1 ELSE 0]
      /\ holder = [l \in Lock |-> NoThread]
      /\ pc = [t \in Thread |-> IF t \in {Main, Idle} THEN "run" ELSE "asleep"]
      /\ arg = [t \in Thread |-> NoLock]
      /\ locks = [t \in Thread |-> {}]
  BY DEF Init
<1>2. LockTypes
  BY <1>1 DEF LockTypes, PC
<1>3. OneUnit
  BY <1>1 DEF OneUnit, HasUnit, Semaphore
<1>4. ArgInv
  BY <1>1 DEF ArgInv
<1>5. HolderIsOwner
  BY <1>1, SynchAssumption DEF HolderIsOwner
<1> QED BY <1>2, <1>3, <1>4, <1>5 DEF LockInv

\* A step that moves no unit of a lock and no owner.
LEMMA KeepUnits ==
  ASSUME LockInv, LockTypes', locks' = locks, holder' = holder,
         \A l \in Lock : value'[l] = value[l],
         \A t \in Thread :
            \/ arg'[t] = arg[t] /\ pc'[t] = pc[t]
            \/ /\ pc[t] \notin {"own", "up"} /\ pc'[t] \notin {"own", "up"}
               /\ pc'[t] \in {"mark", "donate", "propagate"} => arg'[t] \in Lock
               /\ pc'[t] \in {"restore", "clear"} => arg'[t] \in Lock /\ arg'[t] \in locks[t]
  PROVE  LockInv'
<1>1. \A t \in Thread, l \in Lock : HasUnit(t, l)' <=> HasUnit(t, l)
  BY DEF HasUnit
<1>2. OneUnit'
  BY <1>1 DEF LockInv, OneUnit
<1>3. ArgInv'
  BY DEF LockInv, ArgInv
<1>4. HolderIsOwner'
  BY DEF LockInv, HolderIsOwner
<1> QED BY <1>2, <1>3, <1>4 DEF LockInv

\* The steps of lock_acquire up to its sema_down, and those of lock_release before it
\* resets holder.
LEMMA LockKeepingSteps ==
  ASSUME LockInv, NEW t \in Thread,
         \/ Acquire(t) \/ Mark(t) \/ InsertDonation(t) \/ Propagate(t)
         \/ Release(t) \/ Restore(t)
  PROVE  LockInv'
<1> USE DEF semaVars, donationVars, At, Goto, LockTypes
<1>0. LockTypes /\ ArgInv
  BY DEF LockInv
<1>1. CASE Acquire(t)
  <2>1. PICK l \in Lock : /\ arg' = [arg EXCEPT ![t] = l]
                          /\ pc' = [pc EXCEPT ![t] = IF holder[l] # NoThread THEN "mark" ELSE "down"]
    BY <1>1 DEF Acquire
  <2>2. pc[t] = "run" /\ UNCHANGED <<value, holder, locks>>
    BY <1>1 DEF Acquire
  <2>3. LockTypes'
    BY <1>0, <2>1, <2>2 DEF PC, Semaphore
  <2> QED BY <1>0, <2>1, <2>2, <2>3, KeepUnits
<1>2. CASE Mark(t)
  <2>1. /\ pc[t] = "mark" /\ pc' = [pc EXCEPT ![t] = "donate"]
        /\ UNCHANGED <<value, holder, arg, locks>>
    BY <1>2 DEF Mark
  <2>2. LockTypes'
    BY <1>0, <2>1 DEF PC
  <2> QED BY <1>0, <2>1, <2>2, KeepUnits DEF ArgInv
<1>3. CASE InsertDonation(t) \/ Propagate(t)
  <2>1. /\ pc[t] \in {"donate", "propagate"}
        /\ \E place \in {"propagate", "down", "fault"} : pc' = [pc EXCEPT ![t] = place]
        /\ UNCHANGED <<value, holder, arg, locks>>
    BY <1>3 DEF InsertDonation, Propagate, Fault
  <2>2. LockTypes'
    BY <1>0, <2>1 DEF PC
  <2> QED BY <1>0, <2>1, <2>2, KeepUnits DEF ArgInv
<1>4. CASE Release(t)
  <2>1. PICK l \in locks[t] : arg' = [arg EXCEPT ![t] = l]
    BY <1>4 DEF Release
  <2>2. /\ pc[t] = "run" /\ pc' = [pc EXCEPT ![t] = "restore"]
        /\ UNCHANGED <<value, holder, locks>>
    BY <1>4 DEF Release
  <2>3. l \in Lock
    BY <1>0, <2>1
  <2>4. LockTypes'
    BY <1>0, <2>1, <2>2, <2>3 DEF PC, Semaphore
  <2> QED BY <1>0, <2>1, <2>2, <2>3, <2>4, KeepUnits
<1>5. CASE Restore(t)
  <2>1. /\ pc[t] = "restore" /\ pc' = [pc EXCEPT ![t] = "clear"]
        /\ UNCHANGED <<value, holder, arg, locks>>
    BY <1>5 DEF Restore
  <2>2. LockTypes'
    BY <1>0, <2>1 DEF PC
  <2> QED BY <1>0, <2>1, <2>2, KeepUnits DEF ArgInv
<1> QED BY <1>1, <1>2, <1>3, <1>4, <1>5

\* The steps that move the unit of a lock, or its owner.
LEMMA LockMovingSteps ==
  ASSUME LockInv, NEW t \in Thread,
         DownLock(t) \/ TryAcquire(t) \/ Own(t) \/ ClearHolder(t) \/ UpLock(t)
  PROVE  LockInv'
<1> USE DEF semaVars, donationVars, At, Goto, LockTypes
<1>0. LockTypes /\ OneUnit /\ ArgInv /\ HolderIsOwner
  BY DEF LockInv
<1>1. ASSUME NEW l \in Lock, value[l] > 0, value' = [value EXCEPT ![l] = @ - 1],
             pc[t] \in {"down", "run"}, pc' = [pc EXCEPT ![t] = "own"],
             arg' = [arg EXCEPT ![t] = l], UNCHANGED <<holder, locks>>
      PROVE  LockInv'
  <2>1. value[l] = 1 /\ \A u \in Thread : ~HasUnit(u, l)
    BY <1>0, <1>1 DEF OneUnit
  <2>2. /\ value'[l] = 0 /\ \A m \in Lock : m # l => value'[m] = value[m]
        /\ value' \in [Semaphore -> Nat]
    BY <1>0, <1>1, <2>1 DEF Semaphore
  <2>3. LockTypes'
    BY <1>0, <1>1, <2>2 DEF PC, Semaphore
  <2>4. \A u \in Thread, m \in Lock : HasUnit(u, m)' <=> HasUnit(u, m) \/ (u = t /\ m = l)
    BY <1>0, <1>1 DEF HasUnit
  <2>5. OneUnit'
    BY <1>0, <2>1, <2>2, <2>4 DEF OneUnit
  <2>6. ArgInv'
    BY <1>0, <1>1 DEF ArgInv
  <2>7. HolderIsOwner'
    BY <1>0, <1>1 DEF HolderIsOwner
  <2> QED BY <2>3, <2>5, <2>6, <2>7 DEF LockInv
<1>2. CASE DownLock(t)
  <2>1. CASE value[arg[t]] = 0 /\ UNCHANGED <<value, pc>>
    <3>1. UNCHANGED <<holder, arg, locks>>
      BY <1>2 DEF DownLock
    <3> QED BY <1>0, <2>1, <3>1, KeepUnits
  <2>2. CASE /\ value[arg[t]] > 0 /\ value' = [value EXCEPT ![arg[t]] = @ - 1]
             /\ pc' = [pc EXCEPT ![t] = "own"]
    <3>1. /\ arg[t] \in Lock /\ pc[t] = "down" /\ UNCHANGED <<holder, arg, locks>>
          /\ arg = [arg EXCEPT ![t] = arg[t]]
      BY <1>0, <1>2 DEF DownLock
    <3> QED BY <1>1, <2>2, <3>1
  <2> QED BY <1>2, <2>1, <2>2 DEF DownLock, SemaDown
<1>3. CASE TryAcquire(t)
  BY <1>1, <1>3 DEF TryAcquire
<1>4. CASE Own(t)
  <2> DEFINE l == arg[t]
  <2>1. /\ pc[t] = "own" /\ pc' = [pc EXCEPT ![t] = "run"] /\ value' = value
        /\ holder' = [holder EXCEPT ![l] = t]
        /\ locks' = [locks EXCEPT ![t] = @ \union {l}]
        /\ arg' = [arg EXCEPT ![t] = NoLock]
    BY <1>4 DEF Own
  <2>2. l \in Lock /\ HasUnit(t, l)
    BY <1>0, <2>1 DEF ArgInv, HasUnit
  <2>3. \A u \in Thread : u # t => l \notin locks[u]
    BY <1>0, <2>2 DEF OneUnit, HasUnit
  <2> HIDE DEF l
  <2>4. LockTypes'
    BY <1>0, <2>1, <2>2 DEF PC
  <2>5. \A u \in Thread, m \in Lock : HasUnit(u, m)' => HasUnit(u, m)
    BY <1>0, <2>1, <2>2 DEF HasUnit
  <2>6. OneUnit'
    BY <1>0, <2>1, <2>5 DEF OneUnit
  <2>7. ArgInv'
    BY <1>0, <2>1 DEF ArgInv
  <2>8. HolderIsOwner'
    BY <1>0, <2>1, <2>2, <2>3, SynchAssumption DEF HolderIsOwner
  <2> QED BY <2>4, <2>6, <2>7, <2>8 DEF LockInv
<1>5. CASE ClearHolder(t)
  <2> DEFINE l == arg[t]
  <2>1. /\ pc[t] = "clear" /\ pc' = [pc EXCEPT ![t] = "up"] /\ value' = value
        /\ holder' = [holder EXCEPT ![l] = NoThread]
        /\ locks' = [locks EXCEPT ![t] = @ \ {l}] /\ arg' = arg
    BY <1>5 DEF ClearHolder
  <2>2. l \in Lock /\ l \in locks[t] /\ arg[t] = l
    BY <1>0, <2>1 DEF ArgInv
  <2>3. \A u \in Thread : u # t => l \notin locks[u]
    BY <1>0, <2>2 DEF OneUnit, HasUnit
  <2> HIDE DEF l
  <2>4. LockTypes'
    BY <1>0, <2>1, <2>2 DEF PC
  <2>5. \A u \in Thread, m \in Lock : HasUnit(u, m)' => HasUnit(u, m)
    BY <1>0, <2>1, <2>2 DEF HasUnit
  <2>6. OneUnit'
    BY <1>0, <2>1, <2>5 DEF OneUnit
  <2>7. ArgInv'
    BY <1>0, <2>1, <2>2 DEF ArgInv
  <2>8. HolderIsOwner'
    BY <1>0, <2>1, <2>2, <2>3, SynchAssumption DEF HolderIsOwner
  <2> QED BY <2>4, <2>6, <2>7, <2>8 DEF LockInv
<1>6. CASE UpLock(t)
  <2>1. /\ pc[t] = "up" /\ pc' = [pc EXCEPT ![t] = "run"] /\ UNCHANGED <<holder, locks>>
        /\ value' = [value EXCEPT ![arg[t]] = @ + 1]
        /\ arg' = [arg EXCEPT ![t] = NoLock]
    BY <1>6 DEF UpLock, SemaUp
  <2>2. PICK l \in Lock : l = arg[t] /\ l \notin locks[t] /\ HasUnit(t, l)
    BY <1>0, <2>1 DEF ArgInv, HasUnit
  <2>3. value[l] = 0 /\ \A u \in Thread : HasUnit(u, l) => u = t
    BY <1>0, <2>2 DEF OneUnit
  <2>4. /\ value'[l] = 1 /\ \A m \in Lock : m # l => value'[m] = value[m]
        /\ value' \in [Semaphore -> Nat]
    BY <1>0, <2>1, <2>2, <2>3 DEF Semaphore
  <2>5. LockTypes'
    BY <1>0, <2>1, <2>4 DEF PC
  <2>6. \A u \in Thread, m \in Lock : HasUnit(u, m)' => HasUnit(u, m) /\ m # l
    <3>1. pc'[t] = "run" /\ locks' = locks /\ \A u \in Thread : u # t => arg'[u] = arg[u] /\ pc'[u] = pc[u]
      BY <1>0, <2>1
    <3>2. \A m \in Lock : HasUnit(t, m)' => HasUnit(t, m) /\ m # l
      BY <2>2, <3>1 DEF HasUnit
    <3>3. \A u \in Thread, m \in Lock : u # t /\ HasUnit(u, m)' => HasUnit(u, m) /\ m # l
      BY <2>3, <3>1 DEF HasUnit
    <3> QED BY <3>2, <3>3
  <2>7. OneUnit'
    <3>1. \A m \in Lock : value'[m] \in {0, 1}
      BY <1>0, <2>4 DEF OneUnit
    <3> QED BY <1>0, <2>4, <2>6, <3>1 DEF OneUnit
  <2>8. ArgInv' /\ HolderIsOwner'
    BY <1>0, <2>1 DEF ArgInv, HolderIsOwner
  <2> QED BY <2>5, <2>7, <2>8 DEF LockInv
<1> QED BY <1>2, <1>3, <1>4, <1>5, <1>6

\* The semaphores that are not a lock's, priorities, sleeps and interrupts.
LEMMA OtherSteps ==
  ASSUME LockInv,
         \/ \E t \in Thread : \/ SemaStep(t) \/ SetInitialPriority(t) \/ ChangePriority(t)
                              \/ Sleep(t) \/ TimerWake(t)
         \/ IdleBlock \/ TimerPreempt \/ HandlerSemaUp \/ UNCHANGED vars
  PROVE  LockInv'
<1> USE DEF semaVars, donationVars, At, Goto, LockTypes
<1>0. LockTypes /\ \A s \in Sema : s \in Semaphore /\ s \notin Lock
  BY SynchAssumption DEF LockInv, Semaphore
<1>1. CASE UNCHANGED <<value, holder, locks, arg>>
  <2>1. ASSUME NEW t \in Thread, NEW place \in {"run", "asleep", "setprio"},
               pc[t] \in {"run", "asleep", "setprio"}, pc' = [pc EXCEPT ![t] = place]
        PROVE  LockInv'
    <3>1. LockTypes'
      BY <1>0, <1>1, <2>1 DEF PC
    <3> QED BY <1>0, <1>1, <2>1, <3>1, KeepUnits
  <2>2. CASE pc' = pc
    BY <1>0, <1>1, <2>2, KeepUnits
  <2>3. ASSUME NEW t \in Thread, SetInitialPriority(t) \/ ChangePriority(t) \/ Sleep(t) \/ TimerWake(t)
        PROVE  LockInv'
    BY <2>1, <2>3 DEF SetInitialPriority, ChangePriority, Sleep, TimerWake
  <2>4. CASE IdleBlock \/ TimerPreempt \/ UNCHANGED vars
    BY <2>2, <2>4 DEF IdleBlock, TimerPreempt, vars
  <2>5. CASE HandlerSemaUp
    BY <2>2, <2>5 DEF HandlerSemaUp
  <2>6. ASSUME NEW t \in Thread, SemaStep(t) PROVE LockInv'
    <3>1. CASE pc' = pc
      BY <2>2, <3>1
    <3>2. CASE CallSemaDown(t) \/ DownSema(t)
      <4>1. /\ pc[t] \in {"run", "down"}
            /\ \E place \in {"run", "down"} : pc' = [pc EXCEPT ![t] = place]
        BY <1>0, <2>6, <3>2 DEF CallSemaDown, DownSema, SemaDown
      <4>2. LockTypes'
        BY <1>0, <1>1, <4>1 DEF PC
      <4> QED BY <1>0, <1>1, <4>1, <4>2, KeepUnits
    <3> QED BY <2>6, <3>1, <3>2 DEF SemaStep, SemaTryDown, CallSemaUp
  <2> QED BY <2>3, <2>4, <2>5, <2>6
<1>2. ASSUME NEW s \in Sema, NEW n \in Nat, value' = [value EXCEPT ![s] = n],
             UNCHANGED <<holder, locks, arg>>,
             \/ pc' = pc
             \/ \E t \in Thread : pc[t] = "down" /\ pc' = [pc EXCEPT ![t] = "run"]
      PROVE  LockInv'
  <2>1. LockTypes' /\ \A l \in Lock : value'[l] = value[l]
    BY <1>0, <1>2 DEF PC
  <2> QED BY <1>0, <1>2, <2>1, KeepUnits
<1>3. ASSUME NEW t \in Thread, CallSemaDown(t) PROVE LockInv'
  <2>1. PICK s \in Sema : arg' = [arg EXCEPT ![t] = s]
    BY <1>3 DEF CallSemaDown
  <2>2. /\ pc[t] = "run" /\ pc' = [pc EXCEPT ![t] = "down"]
        /\ UNCHANGED <<value, holder, locks>>
    BY <1>3 DEF CallSemaDown
  <2>3. LockTypes'
    BY <1>0, <2>1, <2>2 DEF PC
  <2> QED BY <1>0, <2>1, <2>2, <2>3, KeepUnits
<1>4. ASSUME NEW t \in Thread, DownSema(t) PROVE LockInv'
  <2>1. arg[t] \in Sema /\ pc[t] = "down" /\ UNCHANGED <<holder, locks, arg>>
    BY <1>4 DEF DownSema
  <2>2. CASE UNCHANGED <<value, pc>>
    BY <1>0, <2>1, <2>2, KeepUnits
  <2>3. CASE /\ value[arg[t]] > 0 /\ value' = [value EXCEPT ![arg[t]] = @ - 1]
             /\ pc' = [pc EXCEPT ![t] = "run"]
    <3>1. value[arg[t]] - 1 \in Nat
      BY <1>0, <2>1, <2>3
    <3> QED BY <1>2, <2>1, <2>3, <3>1
  <2> QED BY <1>4, <2>2, <2>3 DEF DownSema, SemaDown
<1>5. ASSUME NEW t \in Thread, SemaTryDown(t) PROVE LockInv'
  <2>1. PICK s \in Sema : value[s] > 0 /\ value' = [value EXCEPT ![s] = @ - 1]
    BY <1>5 DEF SemaTryDown
  <2>2. UNCHANGED <<holder, locks, arg, pc>>
    BY <1>5 DEF SemaTryDown
  <2>3. value[s] - 1 \in Nat
    BY <1>0, <2>1
  <2> QED BY <1>2, <2>1, <2>2, <2>3
<1>6. CASE HandlerSemaUp \/ \E t \in Thread : CallSemaUp(t)
  <2>1. PICK s \in Sema : value' = [value EXCEPT ![s] = @ + 1]
    BY <1>6 DEF HandlerSemaUp, CallSemaUp, SemaUp
  <2>2. UNCHANGED <<holder, locks, arg, pc>>
    BY <1>6 DEF HandlerSemaUp, CallSemaUp
  <2>3. value[s] + 1 \in Nat
    BY <1>0
  <2> QED BY <1>2, <2>1, <2>2, <2>3
<1>7. CASE \/ \E t \in Thread : \/ SetInitialPriority(t) \/ ChangePriority(t)
                                \/ Sleep(t) \/ TimerWake(t)
           \/ IdleBlock \/ TimerPreempt \/ UNCHANGED vars
  BY <1>1, <1>7 DEF SetInitialPriority, ChangePriority, Sleep, TimerWake,
                    IdleBlock, TimerPreempt, vars
<1> QED BY <1>3, <1>4, <1>5, <1>6, <1>7 DEF SemaStep

\* Every step of a thread, of the idle thread and of an interrupt keeps it.
LEMMA NextLockInv == LockInv /\ [Next]_vars => LockInv'
BY LockKeepingSteps, LockMovingSteps, OtherSteps DEF Next, Step, LockStep

\* The accounting of the lock's one unit holds for ever: it is in the semaphore, or with
\* one thread between its sema_down and its sema_up (synch.c, lock_acquire, lock_release).
THEOREM LockInvariant == Spec => []LockInv
BY InitLockInv, NextLockInv, PTL DEF Spec

\* "A lock can be held by at most a single thread at any given time" (synch.c, the comment
\* on lock_init), wherever the threads are interrupted.
THEOREM LocksExclude == Spec => []MutualExclusion
<1>1. LockInv => MutualExclusion
  BY DEF LockInv, LockTypes, OneUnit, HasUnit, MutualExclusion
<1> QED BY <1>1, LockInvariant, PTL

\* lock->holder names the owner for as long as there is one, and nobody else: what the
\* assertions of lock_acquire and lock_release read is true of the calling thread.
THEOREM HolderNamesOwner == Spec => []HolderIsOwner
BY LockInvariant, PTL DEF LockInv

--------------------------------------------------------------------------------
(* The highest donor, and the priority it gives.                           *)

\* A finite list of threads that is not empty has one of the highest priority.
LEMMA HighestExists ==
  ASSUME NEW D, IsFiniteSet(D), D # {}, NEW key, \A x \in D : key[x] \in Int
  PROVE  \E m \in D : \A x \in D : key[x] <= key[m]
<1> DEFINE Above(x) == {y \in D : key[y] > key[x]}
           Counts == {Cardinality(Above(x)) : x \in D}
<1>1. \A x \in D : Above(x) \in SUBSET D /\ IsFiniteSet(Above(x)) /\ Cardinality(Above(x)) \in Nat
  BY FS_Subset, FS_CardinalityType
<1>2. Counts \in SUBSET Nat /\ Counts # {}
  BY <1>1
<1>3. PICK n \in Counts : \A k \in Counts : n <= k
  <2> HIDE DEF Counts
  <2> QED BY <1>2, LeastNatural
<1>4. PICK m \in D : n = Cardinality(Above(m))
  OBVIOUS
<1>5. ASSUME NEW x \in D, key[x] > key[m] PROVE FALSE
  <2>1. Above(x) \in SUBSET Above(m) /\ x \in Above(m) /\ x \notin Above(x)
    BY <1>5
  <2>2. Cardinality(Above(x)) \in Counts
    OBVIOUS
  <2> HIDE DEF Above, Counts
  <2>3. Cardinality(Above(m)) <= Cardinality(Above(x))
    BY <1>3, <1>4, <2>2
  <2>4. Cardinality(Above(x)) <= Cardinality(Above(m))
        /\ (Cardinality(Above(m)) = Cardinality(Above(x)) => Above(m) = Above(x))
    BY <1>1, <2>1, FS_Subset
  <2> QED BY <1>1, <2>1, <2>3, <2>4
<1> QED BY <1>5

\* The priority of t by its own and those of its donors, as set_priority_for_lock_holder and
\* change_priority compute it.
Effective(s, t) ==
  IF donation_list[t] # {} /\ HighestDonation(s, t) > initial_priority[t]
  THEN HighestDonation(s, t) ELSE initial_priority[t]

\* That priority, with D for the donors: no lower than any of these, and that of one of them.
ExactFor(s, t, D) ==
  /\ initial_priority[t] <= s.priority[t]
  /\ \A u \in D : s.priority[u] <= s.priority[t]
  /\ s.priority[t] = initial_priority[t] \/ \E u \in D : s.priority[u] = s.priority[t]

DonorTypes ==
  /\ initial_priority \in [Thread -> Int]
  /\ donation_list \in [Thread -> SUBSET Thread]
  /\ \A t \in Thread : IsFiniteSet(donation_list[t])

LEMMA EffectiveProperties ==
  ASSUME DonorTypes, NEW s \in SchedState, NEW t \in Thread
  PROVE  /\ Effective(s, t) \in Int /\ initial_priority[t] <= Effective(s, t)
         /\ \A u \in donation_list[t] : s.priority[u] <= Effective(s, t)
         /\ \/ Effective(s, t) = initial_priority[t]
            \/ \E u \in donation_list[t] : s.priority[u] = Effective(s, t)
         /\ ExactFor(s, t, donation_list[t]) <=> s.priority[t] = Effective(s, t)
<1> DEFINE D == donation_list[t]
<1>1. /\ D \subseteq Thread /\ IsFiniteSet(D) /\ initial_priority[t] \in Int
      /\ s.priority[t] \in Int /\ \A u \in D : s.priority[u] \in Int
  BY SchedStateType DEF DonorTypes
<1>2. CASE D = {}
  BY <1>1, <1>2 DEF Effective, ExactFor
<1>3. CASE D # {}
  <2> HIDE DEF D
  <2>1. PICK m \in D : \A u \in D : s.priority[u] <= s.priority[m]
    BY <1>1, <1>3, HighestExists
  <2>2. HighestDonation(s, t) = s.priority[m]
    <3>1. \A p \in {s.priority[u] : u \in D} :
             (\A u \in D : s.priority[u] <= p) <=> p = s.priority[m]
      BY <1>1, <2>1
    <3>2. s.priority[m] \in {s.priority[u] : u \in D}
      OBVIOUS
    <3>3. HighestDonation(s, t) = CHOOSE p \in {s.priority[u] : u \in D} :
                                     \A u \in D : s.priority[u] <= p
      BY DEF HighestDonation, D
    <3> QED BY <3>1, <3>2, <3>3
  <2>3. Effective(s, t) = IF s.priority[m] > initial_priority[t]
                          THEN s.priority[m] ELSE initial_priority[t]
    BY <1>3, <2>2 DEF Effective, D
  <2>4. ExactFor(s, t, D) <=> s.priority[t] = Effective(s, t)
    <3> HIDE DEF Effective
    <3> QED BY <1>1, <2>1, <2>3 DEF ExactFor
  <2> HIDE DEF Effective
  <2> QED BY <1>1, <2>1, <2>3, <2>4 DEF D
<1> QED BY <1>2, <1>3

\* One refresh of a priority: nothing but that priority and the order of the queue changes,
\* and the queue is in order unless a queued thread falls back on its initial priority.
LEMMA RefreshProperties ==
  ASSUME DonorTypes, NEW s \in SchedState, SchedOK(s), NEW t \in Thread
  PROVE  LET r == RefreshPriority(s, t) IN
         /\ r \in SchedState /\ SchedOK(r)
         /\ r.current = s.current /\ r.status = s.status /\ r.thread_ticks = s.thread_ticks
         /\ r.priority = [s.priority EXCEPT ![t] = Effective(s, t)]
         /\ /\ ReadySorted(s)
            /\ \/ t \notin ListElems(s.ready_list) \/ Effective(s, t) = s.priority[t]
               \/ Effective(s, t) > initial_priority[t]
            => ReadySorted(r)
<1> DEFINE r == RefreshPriority(s, t)
           p == Effective(s, t)
           s1 == [s EXCEPT !.priority[t] = p]
<1>1. /\ s.current \in Thread /\ s.status \in [Thread -> Status]
      /\ s.ready_list \in Seq(Thread) /\ s.priority \in [Thread -> Int]
      /\ s.thread_ticks \in Nat
  BY SchedStateType
<1>2. p \in Int /\ initial_priority[t] \in Int
  BY EffectiveProperties DEF DonorTypes
<1>3. /\ s1 \in SchedState /\ s1.current = s.current /\ s1.status = s.status
      /\ s1.thread_ticks = s.thread_ticks /\ s1.ready_list = s.ready_list
      /\ s1.priority = [s.priority EXCEPT ![t] = p]
  <2> HIDE DEF p
  <2>1. s1 \in SchedState
    BY <1>2, SchedStateExcept
  <2> QED BY <2>1 DEF SchedState
<1>4. OneRunning(s1) /\ QueueMatchesStatus(s1)
  <2> HIDE DEF s1
  <2> QED BY <1>3 DEF SchedOK, OneRunning, QueueMatchesStatus
<1>5. CASE p > initial_priority[t]
  <2>1. r = ReadyListSort(s1)
    BY <1>2, <1>5 DEF RefreshPriority, Effective
  <2> HIDE DEF s1, p, r
  <2> DEFINE q == ListSort(s1.ready_list, s1.priority)
  <2>2. r = [s1 EXCEPT !.ready_list = q]
    BY <2>1 DEF ReadyListSort
  <2>3. /\ q \in Seq(Thread) /\ ListElems(q) = ListElems(s1.ready_list)
        /\ NoDuplicates(s1.ready_list) => NoDuplicates(q)
        /\ SortedBy(q, s1.priority)
    BY <1>3, SchedStateType, ListSortProperties
  <2> HIDE DEF q
  <2>4. r \in SchedState
    BY <1>3, <2>2, <2>3, SchedStateExcept
  <2>5. /\ r.current = s1.current /\ r.status = s1.status /\ r.thread_ticks = s1.thread_ticks
        /\ r.ready_list = q /\ r.priority = s1.priority
    BY <1>3, <2>2 DEF SchedState
  <2>6. SchedOK(r)
    BY <1>4, <2>3, <2>5 DEF SchedOK, OneRunning, QueueMatchesStatus
  <2>7. ReadySorted(r)
    BY <2>3, <2>5 DEF ReadySorted
  <2> QED BY <1>3, <2>4, <2>5, <2>6, <2>7 DEF r, p
<1>6. CASE ~(p > initial_priority[t])
  <2>1. p = initial_priority[t]
    BY <1>2, <1>6, EffectiveProperties
  <2>2. r = s1
    BY <1>2, <1>6, <2>1 DEF RefreshPriority, Effective
  <2>3. ASSUME ReadySorted(s), t \notin ListElems(s.ready_list) \/ p = s.priority[t]
        PROVE  ReadySorted(s1)
    <3>1. \A y \in ListElems(s.ready_list) : s1.priority[y] = s.priority[y]
      <4> HIDE DEF s1, p
      <4> QED BY <1>1, <1>3, <2>3, ListElemsType
    <3> HIDE DEF s1, p
    <3>2. SortedBy(s.ready_list, s.priority)
      BY <2>3 DEF ReadySorted
    <3>3. SortedBy(s.ready_list, s1.priority)
      BY <3>1, <3>2, SortedByElements
    <3> QED BY <1>3, <3>3 DEF ReadySorted
  <2> HIDE DEF s1, p, r
  <2> QED BY <1>3, <1>4, <1>6, <2>2, <2>3 DEF r, p, SchedOK
<1> QED BY <1>5, <1>6

--------------------------------------------------------------------------------
(* The levels of set_priority_for_lock_holder.                             *)

FirstLevel(s, lock) == [sched |-> s, lock |-> lock, fault |-> FALSE]

Levels(s, lock) ==
  CHOOSE level : level = [n \in 0 .. DonationDepth |->
                            IF n = 0 THEN FirstLevel(s, lock) ELSE Donate(level[n - 1])]

\* The recursive function has a value: there is one on 0 .. m for every m.
LEMMA LevelsDefined ==
  ASSUME NEW s, NEW lock
  PROVE  Levels(s, lock) = [n \in 0 .. DonationDepth |->
                              IF n = 0 THEN FirstLevel(s, lock) ELSE Donate(Levels(s, lock)[n - 1])]
<1> DEFINE Is(f, m) == f = [n \in 0 .. m |-> IF n = 0 THEN FirstLevel(s, lock) ELSE Donate(f[n - 1])]
           Bad == {m \in Nat : ~\E f : Is(f, m)}
<1>1. ASSUME Bad # {} PROVE FALSE
  <2>1. PICK m \in Bad : \A k \in Bad : m <= k
    <3>1. Bad \in SUBSET Nat
      OBVIOUS
    <3> HIDE DEF Bad
    <3> QED BY <1>1, <3>1, LeastNatural
  <2>2. m \in Nat /\ ~\E f : Is(f, m)
    OBVIOUS
  <2>3. CASE m = 0
    <3> DEFINE f == [n \in 0 .. 0 |-> FirstLevel(s, lock)]
    <3>1. Is(f, 0)
      OBVIOUS
    <3> HIDE DEF Is, f
    <3> QED BY <2>2, <2>3, <3>1
  <2>4. CASE m # 0
    <3>1. m - 1 \in Nat /\ m - 1 \notin Bad
      <4> HIDE DEF Bad
      <4> QED BY <2>1, <2>2, <2>4
    <3>2. PICK g : Is(g, m - 1)
      BY <3>1
    <3> DEFINE f == [n \in 0 .. m |-> IF n = m THEN Donate(g[m - 1]) ELSE g[n]]
    <3>3. \A n \in 0 .. m : f[n] = IF n = 0 THEN FirstLevel(s, lock) ELSE Donate(f[n - 1])
      <4> TAKE n \in 0 .. m
      <4>1. CASE n = m
        <5>1. f[n - 1] = g[m - 1] /\ f[n] = Donate(g[m - 1])
          BY <2>2, <2>4, <3>1, <4>1
        <5> HIDE DEF f
        <5> QED BY <2>4, <4>1, <5>1
      <4>2. CASE n # m
        <5>1. n \in 0 .. m - 1 /\ f[n] = g[n] /\ (n # 0 => f[n - 1] = g[n - 1])
          BY <2>2, <4>2
        <5>2. g[n] = IF n = 0 THEN FirstLevel(s, lock) ELSE Donate(g[n - 1])
          BY <3>2, <5>1
        <5> HIDE DEF f
        <5> QED BY <5>1, <5>2
      <4> QED BY <4>1, <4>2
    <3>4. f = [n \in 0 .. m |-> f[n]]
      OBVIOUS
    <3>5. Is(f, m)
      <4> HIDE DEF f
      <4> QED BY <3>3, <3>4
    <3> HIDE DEF f, Is
    <3> QED BY <2>2, <3>5
  <2> QED BY <2>3, <2>4
<1>2. \E f : Is(f, DonationDepth)
  <2>1. DonationDepth \in Nat
    BY SynchAssumption
  <2> QED BY <1>1, <2>1
<1> QED BY <1>2 DEF Levels

\* What holds of the first level, and of each level if it holds of the one before, holds
\* of the last.
LEMMA LevelsInduction ==
  ASSUME NEW s, NEW lock, NEW S, FirstLevel(s, lock) \in S[0],
         \A n \in 0 .. DonationDepth - 1 : \A r \in S[n] : Donate(r) \in S[n + 1]
  PROVE  SetPriorityForLockHolder(s, lock) \in S[DonationDepth]
<1> DEFINE L == Levels(s, lock)
           Bad == {n \in 0 .. DonationDepth : L[n] \notin S[n]}
<1>0. DonationDepth \in Nat
  BY SynchAssumption
<1>1. \A n \in 0 .. DonationDepth : L[n] = IF n = 0 THEN FirstLevel(s, lock) ELSE Donate(L[n - 1])
  <2>1. L = [n \in 0 .. DonationDepth |-> IF n = 0 THEN FirstLevel(s, lock) ELSE Donate(L[n - 1])]
    BY LevelsDefined
  <2> HIDE DEF L
  <2> QED BY <2>1
<1>2. SetPriorityForLockHolder(s, lock) = L[DonationDepth]
  BY DEF SetPriorityForLockHolder, Levels, FirstLevel
<1> HIDE DEF L
<1>3. ASSUME Bad # {} PROVE FALSE
  <2>1. PICK m \in Bad : \A k \in Bad : m <= k
    <3>1. Bad \in SUBSET Nat
      BY <1>0
    <3> HIDE DEF Bad
    <3> QED BY <1>3, <3>1, LeastNatural
  <2>2. m # 0
    BY <1>0, <1>1
  <2>3. m - 1 \in 0 .. DonationDepth - 1 /\ m - 1 \notin Bad
    <3>1. m \in 0 .. DonationDepth
      OBVIOUS
    <3> HIDE DEF Bad
    <3> QED BY <1>0, <2>1, <2>2, <3>1
  <2>4. L[m - 1] \in S[m - 1] /\ m - 1 + 1 = m
    BY <1>0, <2>3
  <2>5. L[m] \in S[m]
    BY <1>1, <2>2, <2>3, <2>4
  <2> QED BY <2>5
<1> QED BY <1>0, <1>2, <1>3

\* A level of the donation: the scheduler's state, the lock it goes on with, and a fault.
Level == [sched : SchedState, lock : Lock \union {NoLock}, fault : BOOLEAN]

DonationTypes ==
  /\ DonorTypes
  /\ holder \in [Lock -> Thread \union {NoThread}]
  /\ waiting_for_this_lock \in [Thread -> Lock \union {NoLock}]

\* One level: nothing when there is no lock to go on with, a fault when it has no holder,
\* else one refresh, and the lock that the holder waits for if its priority has changed.
LEMMA DonateCases ==
  ASSUME DonationTypes, NEW r \in Level, SchedOK(r.sched)
  PROVE  /\ Donate(r) \in Level
         /\ r.lock = NoLock => Donate(r) = r
         /\ r.lock # NoLock /\ holder[r.lock] = NoThread =>
              /\ Donate(r).sched = r.sched /\ Donate(r).lock = NoLock /\ Donate(r).fault = TRUE
         /\ r.lock # NoLock /\ holder[r.lock] # NoThread =>
              LET h == holder[r.lock] IN
              /\ h \in Thread /\ r.lock \in Lock
              /\ Donate(r).sched = RefreshPriority(r.sched, h) /\ Donate(r).fault = r.fault
              /\ Donate(r).lock = IF /\ donation_list[h] # {}
                                     /\ Effective(r.sched, h) # r.sched.priority[h]
                                  THEN waiting_for_this_lock[h] ELSE NoLock
<1>1. /\ r.sched \in SchedState /\ r.lock \in Lock \union {NoLock} /\ r.fault \in BOOLEAN
      /\ NoLock \notin Lock
  BY SynchAssumption DEF Level
<1>2. CASE r.lock = NoLock
  BY <1>2 DEF Donate
<1>3. CASE r.lock # NoLock /\ holder[r.lock] = NoThread
  <2>1. Donate(r) = [r EXCEPT !.lock = NoLock, !.fault = TRUE]
    BY <1>3 DEF Donate
  <2> QED BY <1>3, <2>1 DEF Level
<1>4. CASE r.lock # NoLock /\ holder[r.lock] # NoThread
  <2> DEFINE h == holder[r.lock]
             s == RefreshPriority(r.sched, h)
             next == IF donation_list[h] # {} /\ s.priority[h] # r.sched.priority[h]
                     THEN waiting_for_this_lock[h] ELSE NoLock
  <2>1. Donate(r) = [r EXCEPT !.sched = s, !.lock = next]
    BY <1>4 DEF Donate
  <2>2. h \in Thread /\ r.lock \in Lock
    BY <1>1, <1>4 DEF DonationTypes
  <2> HIDE DEF h
  <2>3. s \in SchedState /\ s.priority = [r.sched.priority EXCEPT ![h] = Effective(r.sched, h)]
    BY <1>1, <2>2, RefreshProperties DEF DonationTypes
  <2>4. s.priority[h] = Effective(r.sched, h)
    BY <1>1, <2>2, <2>3, SchedStateType
  <2>5. next \in Lock \union {NoLock}
    BY <2>2 DEF DonationTypes
  <2> HIDE DEF s, next
  <2>6. /\ Donate(r) \in Level /\ Donate(r).sched = s /\ Donate(r).lock = next
        /\ Donate(r).fault = r.fault
    BY <2>1, <2>3, <2>5 DEF Level
  <2> QED BY <1>4, <2>2, <2>4, <2>6 DEF h, s, next
<1> QED BY <1>2, <1>3, <1>4

\* Whatever a donation does, it changes no status, and takes no thread off the queue or into it.
LEMMA DonationKeepsSched ==
  ASSUME DonationTypes, NEW s \in SchedState, SchedOK(s), NEW lock \in Lock
  PROVE  LET r == SetPriorityForLockHolder(s, lock) IN
         /\ r \in Level /\ SchedOK(r.sched)
         /\ r.sched.current = s.current /\ r.sched.status = s.status
         /\ r.sched.thread_ticks = s.thread_ticks
<1> DEFINE Keeps(r) == /\ SchedOK(r.sched)
                       /\ r.sched.current = s.current /\ r.sched.status = s.status
                       /\ r.sched.thread_ticks = s.thread_ticks
           S == [n \in 0 .. DonationDepth |-> {r \in Level : Keeps(r)}]
<1>0. DonationDepth \in Nat
  BY SynchAssumption
<1>1. FirstLevel(s, lock) \in S[0]
  BY <1>0 DEF FirstLevel, Level
<1>2. ASSUME NEW r \in Level, Keeps(r) PROVE Donate(r) \in Level /\ Keeps(Donate(r))
  <2>1. Donate(r) \in Level
    BY <1>2, DonateCases
  <2>2. CASE r.lock = NoLock \/ holder[r.lock] = NoThread
    <3>1. Donate(r).sched = r.sched
      BY <1>2, <2>2, DonateCases
    <3> QED BY <1>2, <2>1, <3>1
  <2>3. CASE r.lock # NoLock /\ holder[r.lock] # NoThread
    <3>1. PICK h \in Thread : Donate(r).sched = RefreshPriority(r.sched, h)
      BY <1>2, <2>3, DonateCases
    <3>2. PICK q \in SchedState : q = r.sched /\ SchedOK(q)
      BY <1>2 DEF Level
    <3>4. LET x == RefreshPriority(q, h) IN
          /\ SchedOK(x) /\ x.current = q.current /\ x.status = q.status
          /\ x.thread_ticks = q.thread_ticks
      BY <3>2, RefreshProperties DEF DonationTypes
    <3>3. /\ SchedOK(Donate(r).sched) /\ Donate(r).sched.current = r.sched.current
          /\ Donate(r).sched.status = r.sched.status
          /\ Donate(r).sched.thread_ticks = r.sched.thread_ticks
      BY <3>1, <3>2, <3>4
    <3> QED BY <1>2, <2>1, <3>3
  <2> QED BY <2>2, <2>3
<1>3. \A n \in 0 .. DonationDepth - 1 : \A r \in S[n] : Donate(r) \in S[n + 1]
  <2> TAKE n \in 0 .. DonationDepth - 1
  <2> TAKE r \in S[n]
  <2>1. r \in Level /\ Keeps(r) /\ n + 1 \in 0 .. DonationDepth
    BY <1>0
  <2> HIDE DEF Keeps
  <2> QED BY <1>2, <2>1
<1>4. SetPriorityForLockHolder(s, lock) \in S[DonationDepth]
  <2> HIDE DEF S
  <2> QED BY <1>1, <1>3, LevelsInduction
<1> QED BY <1>0, <1>4

--------------------------------------------------------------------------------
(* One list for each thread, and no lost wakeup, wherever the threads are  *)
(* interrupted.                                                            *)

BlockedIn(s) == {t \in Thread \ {Idle} : s.status[t] = "BLOCKED"}

Sound(s) == s \in SchedState /\ SchedOK(s)

\* Who is BLOCKED is where a thread may block, and who must wait there is BLOCKED.
PlaceInv ==
  /\ pc[Idle] = "run"
  /\ \A t \in BlockedIn(sched) : pc[t] \in {"asleep", "down", "fault"}
  /\ \A t \in Thread : pc[t] \in {"asleep", "fault"} => t \in BlockedIn(sched)
  /\ \A t \in Thread : pc[t] = "down" => arg[t] \in Semaphore

FiniteDonors == \A t \in Thread : IsFiniteSet(donation_list[t])

ElemInv == TypeOK /\ LockInv /\ FiniteDonors /\ PlaceInv /\ ElemInOneList

LEMMA RunningIsNotBlocked ==
  ASSUME NEW s, Sound(s)
  PROVE  s.current \in Thread /\ s.current \notin BlockedIn(s)
BY SchedStateType DEF Sound, SchedOK, OneRunning, BlockedIn

\* What the scheduler's functions do to the set of BLOCKED threads and to the order of the queue.
LEMMA BlockIs ==
  ASSUME NEW s, Sound(s)
  PROVE  /\ Sound(Block(s)) /\ Block(s).priority = s.priority
         /\ BlockedIn(Block(s)) = BlockedIn(s) \union ({s.current} \ {Idle})
         /\ ReadySorted(s) => ReadySorted(Block(s))
<1>1. /\ Block(s) = Leave(s, "BLOCKED") /\ s \in SchedState /\ SchedOK(s) /\ s.current \in Thread
  BY SchedStateType DEF Block, Sound
<1>2. LET r == Leave(s, "BLOCKED") IN
         /\ r \in SchedState /\ SchedOK(r) /\ r.priority = s.priority
         /\ \A t \in Thread \ {Idle} :
               r.status[t] = "BLOCKED" <=> t = s.current \/ (t # s.current /\ s.status[t] = "BLOCKED")
         /\ ReadySorted(s) => ReadySorted(r)
  BY <1>1, BlockProperties
<1> QED BY <1>1, <1>2 DEF Sound, BlockedIn

LEMMA YieldIs ==
  ASSUME NEW s, Sound(s)
  PROVE  /\ Sound(Yield(s)) /\ Yield(s).priority = s.priority
         /\ BlockedIn(Yield(s)) = BlockedIn(s)
         /\ ReadySorted(s) => ReadySorted(Yield(s))
<1>1. LET r == Yield(s) IN
         /\ r \in SchedState /\ SchedOK(r) /\ r.priority = s.priority
         /\ \A t \in Thread \ {Idle} : r.status[t] = "BLOCKED" <=> s.status[t] = "BLOCKED"
         /\ ReadySorted(s) => ReadySorted(r)
  BY YieldProperties DEF Sound
<1> QED BY <1>1 DEF Sound, BlockedIn

LEMMA YieldToMaxIs ==
  ASSUME NEW s, Sound(s)
  PROVE  /\ Sound(YieldToMax(s)) /\ YieldToMax(s).priority = s.priority
         /\ BlockedIn(YieldToMax(s)) = BlockedIn(s)
         /\ ReadySorted(s) => ReadySorted(YieldToMax(s))
<1>1. LET r == YieldToMax(s) IN
         /\ r \in SchedState /\ SchedOK(r) /\ r.priority = s.priority
         /\ \A t \in Thread \ {Idle} : r.status[t] = "BLOCKED" <=> s.status[t] = "BLOCKED"
         /\ ReadySorted(s) => ReadySorted(r)
  BY YieldToMaxProperties DEF Sound
<1> QED BY <1>1 DEF Sound, BlockedIn

LEMMA UnblockIs ==
  ASSUME NEW s, Sound(s), NEW t \in BlockedIn(s)
  PROVE  /\ Sound(Unblock(s, t)) /\ Unblock(s, t).priority = s.priority
         /\ BlockedIn(Unblock(s, t)) = BlockedIn(s) \ {t}
         /\ ReadySorted(s) => ReadySorted(Unblock(s, t))
<1>1. t \in Thread \ {Idle} /\ s.status[t] = "BLOCKED" /\ s.status \in [Thread -> Status]
  BY SchedStateType DEF BlockedIn, Sound
<1>2. /\ Unblock(s, t) \in SchedState /\ SchedOK(Unblock(s, t))
      /\ Unblock(s, t).priority = s.priority
      /\ Unblock(s, t).status = [s.status EXCEPT ![t] = "READY"]
      /\ ReadySorted(s) => ReadySorted(Unblock(s, t))
  BY <1>1, UnblockProperties DEF Sound
<1>3. BlockedIn(Unblock(s, t)) = BlockedIn(s) \ {t}
  <2> DEFINE r == Unblock(s, t)
  <2>1. r.status = [s.status EXCEPT ![t] = "READY"]
    BY <1>2
  <2> HIDE DEF r
  <2>2. \A u \in Thread : r.status[u] = "BLOCKED" <=> s.status[u] = "BLOCKED" /\ u # t
    BY <1>1, <2>1
  <2>3. BlockedIn(r) = BlockedIn(s) \ {t}
    BY <2>2 DEF BlockedIn
  <2> QED BY <2>3 DEF r
<1> QED BY <1>2, <1>3 DEF Sound

\* sema_up: whom it wakes was the first of the sorted waiters, BLOCKED, and leaves their list.
LEMMA SemaUpIs ==
  ASSUME TypeOK, PlaceInv, ElemInOneList, NEW s \in Semaphore
  PROVE  \E gone \in SUBSET ListElems(waiters[s]) :
           LET r == YieldToMax(Woken(s)) IN
           /\ Sound(r) /\ r.priority = sched.priority
           /\ BlockedIn(r) = BlockedIn(sched) \ gone
           /\ Waiting(s) \in Seq(Thread) /\ NoDuplicates(Waiting(s))
           /\ ListElems(Waiting(s)) = ListElems(waiters[s]) \ gone
           /\ IF waiters[s] = << >> THEN gone = {} /\ Waiting(s) = << >> ELSE \E u \in Thread : gone = {u}
           /\ ReadySorted(sched) => ReadySorted(r)
<1>1. Sound(sched) /\ waiters[s] \in Seq(Thread) /\ NoDuplicates(waiters[s])
  BY DEF TypeOK, ElemInOneList, Sound
<1>2. ListElems(waiters[s]) \subseteq BlockedIn(sched)
  BY DEF ElemInOneList, PlaceInv, BlockedIn
<1>3. CASE waiters[s] = << >>
  <2>1. Woken(s) = sched /\ Waiting(s) = << >> /\ ListElems(<< >>) = {} /\ NoDuplicates(<< >>)
        /\ << >> \in Seq(Thread)
    BY <1>3 DEF Woken, Waiting, ListElems, NoDuplicates
  <2>2. LET r == YieldToMax(sched) IN
        /\ Sound(r) /\ r.priority = sched.priority /\ BlockedIn(r) = BlockedIn(sched)
        /\ ReadySorted(sched) => ReadySorted(r)
    BY <1>1, YieldToMaxIs
  <2> QED BY <1>3, <2>1, <2>2
<1>4. CASE waiters[s] # << >>
  <2> DEFINE q == ListSort(waiters[s], sched.priority)
             u == Head(q)
             w == Unblock(sched, u)
  <2>1. Woken(s) = w /\ Waiting(s) = Tail(q)
    BY <1>4 DEF Woken, Waiting
  <2>2. /\ q \in Seq(Thread) /\ Len(q) = Len(waiters[s]) /\ ListElems(q) = ListElems(waiters[s])
        /\ NoDuplicates(q)
    <3>1. sched.priority \in [Thread -> Int]
      BY <1>1, SchedStateType DEF Sound
    <3> QED BY <1>1, <3>1, ListSortProperties
  <2>3. q # << >>
    <3>1. Len(waiters[s]) # 0
      BY <1>1, <1>4, EmptySeq
    <3> QED BY <2>2, <3>1
  <2> HIDE DEF q
  <2>4. /\ Tail(q) \in Seq(Thread) /\ u \in Thread /\ u \in ListElems(q) /\ NoDuplicates(Tail(q))
        /\ ListElems(Tail(q)) = ListElems(q) \ {u}
    BY <2>2, <2>3, TailListProperties
  <2> HIDE DEF u
  <2>5. u \in BlockedIn(sched)
    BY <1>2, <2>2, <2>4
  <2>6. /\ Sound(w) /\ w.priority = sched.priority /\ BlockedIn(w) = BlockedIn(sched) \ {u}
        /\ ReadySorted(sched) => ReadySorted(w)
    BY <1>1, <2>5, UnblockIs
  <2> HIDE DEF w
  <2>7. LET r == YieldToMax(w) IN
        /\ Sound(r) /\ r.priority = w.priority /\ BlockedIn(r) = BlockedIn(w)
        /\ ReadySorted(w) => ReadySorted(r)
    BY <2>6, YieldToMaxIs
  <2>8. {u} \in SUBSET ListElems(waiters[s])
    BY <2>2, <2>4
  <2> WITNESS {u} \in SUBSET ListElems(waiters[s])
  <2> QED BY <1>4, <2>1, <2>2, <2>4, <2>6, <2>7
<1> QED BY <1>3, <1>4

\* The steps by what they do to the places where threads wait.  First those that block and
\* wake nobody.
LEMMA ElemsKept ==
  ASSUME PlaceInv, ElemInOneList, Sound(sched'), BlockedIn(sched') = BlockedIn(sched),
         waiters' = waiters,
         \A u \in Thread :
            \/ pc'[u] = pc[u] /\ arg'[u] = arg[u]
            \/ /\ u \notin BlockedIn(sched) /\ u # Idle /\ pc'[u] \notin {"asleep", "fault"}
               /\ pc'[u] = "down" => arg'[u] \in Semaphore
  PROVE  PlaceInv' /\ ElemInOneList'
<1>1. PlaceInv'
  BY ThreadAssumption DEF PlaceInv, BlockedIn
<1>2. ASSUME NEW s \in Semaphore
      PROVE  {t \in Thread : pc'[t] = "down" /\ arg'[t] = s /\ sched'.status[t] = "BLOCKED"} =
             {t \in Thread : pc[t] = "down" /\ arg[t] = s /\ sched.status[t] = "BLOCKED"}
  <2>1. \A t \in Thread : pc'[t] = "down" /\ arg'[t] = s /\ sched'.status[t] = "BLOCKED" <=>
                          pc[t] = "down" /\ arg[t] = s /\ sched.status[t] = "BLOCKED"
    BY <1>1 DEF PlaceInv, BlockedIn
  <2> QED BY <2>1
<1>3. ElemInOneList'
  BY <1>2 DEF ElemInOneList, Sound
<1> QED BY <1>1, <1>3

\* A thread that blocks in no list: timer_sleep, a page fault.
LEMMA ElemsAsleep ==
  ASSUME PlaceInv, ElemInOneList, pc \in [Thread -> PC], Sound(sched'), NEW t \in Thread \ {Idle},
         t \notin BlockedIn(sched), BlockedIn(sched') = BlockedIn(sched) \union {t},
         waiters' = waiters, arg' = arg,
         NEW place \in {"asleep", "fault"}, pc' = [pc EXCEPT ![t] = place]
  PROVE  PlaceInv' /\ ElemInOneList'
<1>1. \A u \in Thread : u # t => pc'[u] = pc[u]
  OBVIOUS
<1>2. pc'[t] = place
  OBVIOUS
<1>3. PlaceInv'
  BY <1>1, <1>2, ThreadAssumption DEF PlaceInv, BlockedIn
<1>4. ASSUME NEW s \in Semaphore
      PROVE  {u \in Thread : pc'[u] = "down" /\ arg'[u] = s /\ sched'.status[u] = "BLOCKED"} =
             {u \in Thread : pc[u] = "down" /\ arg[u] = s /\ sched.status[u] = "BLOCKED"}
  <2>1. \A u \in Thread : pc'[u] = "down" /\ arg'[u] = s /\ sched'.status[u] = "BLOCKED" <=>
                          pc[u] = "down" /\ arg[u] = s /\ sched.status[u] = "BLOCKED"
    BY <1>1, <1>2, <1>3 DEF PlaceInv, BlockedIn
  <2> QED BY <2>1
<1>5. ElemInOneList'
  BY <1>4 DEF ElemInOneList, Sound
<1> QED BY <1>3, <1>5

\* A thread that blocks in sema_down.
LEMMA ElemsQueued ==
  ASSUME TypeOK, PlaceInv, ElemInOneList, Sound(sched'), NEW t \in Thread \ {Idle}, pc[t] = "down",
         t \notin BlockedIn(sched), BlockedIn(sched') = BlockedIn(sched) \union {t},
         waiters' = [waiters EXCEPT ![arg[t]] = InsertOrdered(@, t, sched.priority)],
         arg' = arg, pc' = pc
  PROVE  PlaceInv' /\ ElemInOneList' /\ waiters' \in [Semaphore -> Seq(Thread)]
<1> DEFINE In(s) == {u \in Thread : pc[u] = "down" /\ arg[u] = s /\ sched.status[u] = "BLOCKED"}
           s0 == arg[t]
           q == InsertOrdered(waiters[s0], t, sched.priority)
<1>1. PlaceInv'
  BY ThreadAssumption DEF PlaceInv, BlockedIn
<1>2. s0 \in Semaphore /\ waiters \in [Semaphore -> Seq(Thread)] /\ sched.priority \in [Thread -> Int]
  BY SchedStateType DEF PlaceInv, TypeOK
<1>3. NoDuplicates(waiters[s0]) /\ ListElems(waiters[s0]) = In(s0) /\ t \notin In(s0)
  BY <1>2 DEF ElemInOneList, BlockedIn
<1>4. q \in Seq(Thread) /\ NoDuplicates(q) /\ ListElems(q) = In(s0) \union {t}
  <2> HIDE DEF In, s0
  <2> QED BY <1>2, <1>3, InsertOrderedProperties
<1>5. waiters'[s0] = q /\ \A s \in Semaphore : s # s0 => waiters'[s] = waiters[s]
  BY <1>2
<1>6. waiters' \in [Semaphore -> Seq(Thread)]
  BY <1>2, <1>4
<1>7. ASSUME NEW s \in Semaphore PROVE In(s)' = IF s = s0 THEN In(s) \union {t} ELSE In(s)
  <2>1. \A u \in Thread : sched'.status[u] = "BLOCKED" /\ pc[u] = "down" <=>
                          (sched.status[u] = "BLOCKED" \/ u = t) /\ pc[u] = "down"
    BY DEF PlaceInv, BlockedIn
  <2> QED BY <2>1
<1>8. ElemInOneList'
  <2>1. \A s \in Semaphore : NoDuplicates(waiters'[s]) /\ ListElems(waiters'[s]) = In(s)'
    <3> HIDE DEF q, s0
    <3>1. \A s \in Semaphore : NoDuplicates(waiters[s]) /\ ListElems(waiters[s]) = In(s)
      BY DEF ElemInOneList
    <3> HIDE DEF In
    <3> QED BY <1>4, <1>5, <1>7, <3>1
  <2> QED BY <2>1 DEF ElemInOneList, Sound
<1> QED BY <1>1, <1>6, <1>8

\* sema_up, by a thread or a handler; who calls it goes on in its own code.
LEMMA ElemsWoken ==
  ASSUME TypeOK, PlaceInv, ElemInOneList, NEW s0 \in Semaphore, SemaUp(s0),
         \A u \in Thread :
            \/ pc'[u] = pc[u] /\ arg'[u] = arg[u]
            \/ u \notin BlockedIn(sched) /\ u # Idle /\ pc'[u] = "run"
  PROVE  /\ PlaceInv' /\ ElemInOneList' /\ waiters' \in [Semaphore -> Seq(Thread)]
         /\ Sound(sched') /\ sched'.priority = sched.priority
         /\ ReadySorted(sched) => ReadySorted(sched')
         /\ \E gone \in SUBSET ListElems(waiters[s0]) :
              /\ BlockedIn(sched') = BlockedIn(sched) \ gone
              /\ IF waiters[s0] = << >> THEN gone = {} /\ waiters'[s0] = << >>
                 ELSE \E u \in Thread : gone = {u}
<1> DEFINE In(s) == {u \in Thread : pc[u] = "down" /\ arg[u] = s /\ sched.status[u] = "BLOCKED"}
<1>1. PICK gone \in SUBSET ListElems(waiters[s0]) :
           LET r == YieldToMax(Woken(s0)) IN
           /\ Sound(r) /\ r.priority = sched.priority
           /\ BlockedIn(r) = BlockedIn(sched) \ gone
           /\ Waiting(s0) \in Seq(Thread) /\ NoDuplicates(Waiting(s0))
           /\ ListElems(Waiting(s0)) = ListElems(waiters[s0]) \ gone
           /\ IF waiters[s0] = << >> THEN gone = {} /\ Waiting(s0) = << >> ELSE \E u \in Thread : gone = {u}
           /\ ReadySorted(sched) => ReadySorted(r)
  BY SemaUpIs
<1>2. /\ sched' = YieldToMax(Woken(s0)) /\ waiters \in [Semaphore -> Seq(Thread)]
      /\ waiters' = [waiters EXCEPT ![s0] = Waiting(s0)]
  BY DEF SemaUp, TypeOK
<1>3. waiters'[s0] = Waiting(s0) /\ \A s \in Semaphore : s # s0 => waiters'[s] = waiters[s]
  BY <1>2
<1>4. waiters' \in [Semaphore -> Seq(Thread)]
  BY <1>1, <1>2
<1>5. /\ Sound(sched') /\ sched'.priority = sched.priority
      /\ BlockedIn(sched') = BlockedIn(sched) \ gone
      /\ ReadySorted(sched) => ReadySorted(sched')
  BY <1>1, <1>2
<1>6. \A s \in Semaphore : NoDuplicates(waiters[s]) /\ ListElems(waiters[s]) = In(s)
  BY DEF ElemInOneList
<1>7. \A u \in gone : pc[u] = "down" /\ arg[u] = s0 /\ u \in BlockedIn(sched)
  BY <1>6 DEF PlaceInv, BlockedIn
<1>8. \A u \in Thread : u \in BlockedIn(sched) => pc'[u] = pc[u] /\ arg'[u] = arg[u]
  OBVIOUS
<1>9. PlaceInv'
  BY <1>5, <1>7, ThreadAssumption DEF PlaceInv, BlockedIn
<1>10. ASSUME NEW s \in Semaphore PROVE In(s)' = IF s = s0 THEN In(s) \ gone ELSE In(s)
  <2>1. \A u \in Thread : u \in BlockedIn(sched) => u # Idle /\ sched.status[u] = "BLOCKED"
    BY DEF BlockedIn
  <2>2. \A u \in Thread : u \in In(s) <=> u \in BlockedIn(sched) /\ pc[u] = "down" /\ arg[u] = s
    BY DEF PlaceInv, BlockedIn
  <2>3. \A u \in Thread : u \in In(s)' <=> u \in BlockedIn(sched') /\ pc'[u] = "down" /\ arg'[u] = s
    BY <1>9 DEF PlaceInv, BlockedIn
  <2>4. In(s) \subseteq Thread /\ In(s)' \subseteq Thread
    OBVIOUS
  <2> HIDE DEF In
  <2>5. \A u \in Thread : u \in In(s)' <=> u \in In(s) /\ u \notin gone
    BY <1>5, <1>8, <2>2, <2>3
  <2> QED BY <1>7, <2>2, <2>4, <2>5
<1>11. ElemInOneList'
  <2>1. \A s \in Semaphore : NoDuplicates(waiters'[s]) /\ ListElems(waiters'[s]) = In(s)'
    <3> HIDE DEF In
    <3> QED BY <1>1, <1>3, <1>6, <1>10
  <2> QED BY <1>5, <2>1 DEF ElemInOneList, Sound
<1> QED BY <1>1, <1>3, <1>4, <1>5, <1>9, <1>11

\* What is true of the thread that takes a step.
LEMMA AtIs ==
  ASSUME TypeOK, ElemInOneList, NEW t, NEW place, At(t, place)
  PROVE  /\ t = sched.current /\ t \in Thread \ {Idle} /\ pc[t] = place
         /\ t \notin BlockedIn(sched) /\ Sound(sched)
<1>1. Sound(sched)
  BY DEF TypeOK, ElemInOneList, Sound
<1> QED BY <1>1, RunningIsNotBlocked DEF At

\* The steps of a thread that leave the scheduler and the lists of waiters alone.
LEMMA ElemsOfLocalSteps ==
  ASSUME ElemInv, NEW t \in Thread,
         \/ CallSemaDown(t) \/ SemaTryDown(t) \/ Acquire(t) \/ Mark(t) \/ Own(t) \/ TryAcquire(t)
         \/ Release(t) \/ ClearHolder(t) \/ SetInitialPriority(t)
  PROVE  TypeOK' /\ FiniteDonors' /\ PlaceInv' /\ ElemInOneList'
<1> USE DEF semaVars, donationVars, Goto
<1>0. TypeOK /\ FiniteDonors /\ PlaceInv /\ ElemInOneList /\ LockInv
  BY DEF ElemInv
<1>1. ASSUME NEW place \in PC \ {"asleep", "fault"}, NEW x, UNCHANGED <<sched, waiters>>,
             t \in Thread \ {Idle}, t \notin BlockedIn(sched), Sound(sched),
             pc' = [pc EXCEPT ![t] = place],
             arg' = arg \/ arg' = [arg EXCEPT ![t] = x],
             place = "down" => arg'[t] \in Semaphore
      PROVE  PlaceInv' /\ ElemInOneList' /\ pc' \in [Thread -> PC]
  <2>1. pc \in [Thread -> PC] /\ arg \in [Thread -> Semaphore \union {NoLock}]
    BY <1>0 DEF TypeOK
  <2>2. pc'[t] = place /\ \A u \in Thread : u # t => pc'[u] = pc[u] /\ arg'[u] = arg[u]
    BY <1>1, <2>1
  <2>3. PlaceInv' /\ ElemInOneList'
    BY <1>0, <1>1, <2>2, ElemsKept
  <2> QED BY <1>1, <2>1, <2>3
<1>2. CASE CallSemaDown(t)
  <2>1. PICK s \in Sema : arg' = [arg EXCEPT ![t] = s]
    BY <1>2 DEF CallSemaDown
  <2>2. s \in Semaphore /\ arg'[t] = s
    BY <1>0, <2>1 DEF TypeOK, Semaphore
  <2>3. PlaceInv' /\ ElemInOneList' /\ pc' \in [Thread -> PC]
    BY <1>0, <1>1, <1>2, <2>1, <2>2, AtIs DEF CallSemaDown, PC
  <2>4. TypeOK' /\ FiniteDonors'
    BY <1>0, <1>2, <2>1, <2>2, <2>3 DEF CallSemaDown, TypeOK, FiniteDonors
  <2> QED BY <2>3, <2>4
<1>3. CASE SemaTryDown(t)
  <2>1. PICK s \in Sema : value[s] > 0 /\ value' = [value EXCEPT ![s] = @ - 1]
    BY <1>3 DEF SemaTryDown
  <2>2. value' \in [Semaphore -> Nat]
    BY <1>0, <2>1 DEF TypeOK, Semaphore
  <2>3. PlaceInv' /\ ElemInOneList'
    BY <1>0, <1>3, AtIs, ElemsKept DEF SemaTryDown
  <2>4. TypeOK' /\ FiniteDonors'
    BY <1>0, <1>3, <2>2 DEF SemaTryDown, TypeOK, FiniteDonors
  <2> QED BY <2>3, <2>4
<1>4. CASE Acquire(t)
  <2>1. PICK l \in Lock : arg' = [arg EXCEPT ![t] = l]
    BY <1>4 DEF Acquire
  <2>2. l \in Semaphore /\ arg'[t] = l /\ arg' \in [Thread -> Semaphore \union {NoLock}]
    BY <1>0, <2>1 DEF TypeOK, Semaphore
  <2>3. PICK place \in {"mark", "down"} : pc' = [pc EXCEPT ![t] = place]
    BY <1>4 DEF Acquire
  <2>4. PlaceInv' /\ ElemInOneList' /\ pc' \in [Thread -> PC]
    <3>1. place \in PC \ {"asleep", "fault"} /\ UNCHANGED <<sched, waiters>> /\ At(t, "run")
      BY <1>4 DEF Acquire, PC
    <3> QED BY <1>0, <1>1, <2>1, <2>2, <2>3, <3>1, AtIs
  <2>5. TypeOK' /\ FiniteDonors'
    BY <1>0, <1>4, <2>2, <2>4 DEF Acquire, TypeOK, FiniteDonors
  <2> QED BY <2>4, <2>5
<1>5. CASE Mark(t)
  <2>1. PlaceInv' /\ ElemInOneList' /\ pc' \in [Thread -> PC]
    BY <1>0, <1>1, <1>5, AtIs DEF Mark, PC
  <2>2. arg[t] \in Lock
    BY <1>0, <1>5 DEF Mark, At, LockInv, ArgInv
  <2>3. TypeOK' /\ FiniteDonors'
    BY <1>0, <1>5, <2>1, <2>2 DEF Mark, TypeOK, FiniteDonors
  <2> QED BY <2>1, <2>3
<1>6. CASE Own(t)
  <2>1. PlaceInv' /\ ElemInOneList' /\ pc' \in [Thread -> PC]
    BY <1>0, <1>1, <1>6, AtIs DEF Own, PC
  <2>2. arg[t] \in Lock
    BY <1>0, <1>6 DEF Own, At, LockInv, ArgInv
  <2>3. /\ holder' \in [Lock -> Thread \union {NoThread}] /\ locks' \in [Thread -> SUBSET Lock]
        /\ arg' \in [Thread -> Semaphore \union {NoLock}]
        /\ waiting_for_this_lock' \in [Thread -> Lock \union {NoLock}]
    BY <1>0, <1>6, <2>2 DEF Own, TypeOK
  <2>4. TypeOK' /\ FiniteDonors'
    BY <1>0, <1>6, <2>1, <2>3 DEF Own, TypeOK, FiniteDonors
  <2> QED BY <2>1, <2>4
<1>7. CASE TryAcquire(t)
  <2>1. PICK l \in Lock : /\ value[l] > 0 /\ value' = [value EXCEPT ![l] = @ - 1]
                          /\ arg' = [arg EXCEPT ![t] = l]
    BY <1>7 DEF TryAcquire
  <2>2. /\ value' \in [Semaphore -> Nat] /\ arg' \in [Thread -> Semaphore \union {NoLock}]
    BY <1>0, <2>1 DEF TypeOK, Semaphore
  <2>3. PlaceInv' /\ ElemInOneList' /\ pc' \in [Thread -> PC]
    BY <1>0, <1>1, <1>7, <2>1, AtIs DEF TryAcquire, PC
  <2>4. TypeOK' /\ FiniteDonors'
    BY <1>0, <1>7, <2>2, <2>3 DEF TryAcquire, TypeOK, FiniteDonors
  <2> QED BY <2>3, <2>4
<1>8. CASE Release(t)
  <2>1. PICK l \in locks[t] :
          /\ arg' = [arg EXCEPT ![t] = l]
          /\ donation_list' = [donation_list EXCEPT ![t] = {u \in @ : waiting_for_this_lock[u] # l}]
    BY <1>8 DEF Release
  <2>2. /\ l \in Lock /\ arg' \in [Thread -> Semaphore \union {NoLock}]
        /\ donation_list' \in [Thread -> SUBSET Thread]
    BY <1>0, <2>1 DEF TypeOK, Semaphore
  <2>3. PlaceInv' /\ ElemInOneList' /\ pc' \in [Thread -> PC]
    BY <1>0, <1>1, <1>8, <2>1, AtIs DEF Release, PC
  <2>4. FiniteDonors'
    <3>1. \A u \in Thread : donation_list'[u] \in SUBSET donation_list[u]
      BY <1>0, <2>1 DEF TypeOK
    <3> QED BY <1>0, <3>1, FS_Subset DEF FiniteDonors
  <2>5. TypeOK'
    BY <1>0, <1>8, <2>2, <2>3 DEF Release, TypeOK
  <2> QED BY <2>3, <2>4, <2>5
<1>9. CASE ClearHolder(t)
  <2>1. PlaceInv' /\ ElemInOneList' /\ pc' \in [Thread -> PC]
    BY <1>0, <1>1, <1>9, AtIs DEF ClearHolder, PC
  <2>2. holder' \in [Lock -> Thread \union {NoThread}] /\ locks' \in [Thread -> SUBSET Lock]
    BY <1>0, <1>9 DEF ClearHolder, TypeOK
  <2>3. TypeOK' /\ FiniteDonors'
    BY <1>0, <1>9, <2>1, <2>2 DEF ClearHolder, TypeOK, FiniteDonors
  <2> QED BY <2>1, <2>3
<1>10. CASE SetInitialPriority(t)
  <2>1. PICK p \in Priority : initial_priority' = [initial_priority EXCEPT ![t] = p]
    BY <1>10 DEF SetInitialPriority
  <2>2. initial_priority' \in [Thread -> Int]
    BY <1>0, <2>1, SynchAssumption DEF TypeOK
  <2>3. PlaceInv' /\ ElemInOneList' /\ pc' \in [Thread -> PC]
    BY <1>0, <1>1, <1>10, AtIs DEF SetInitialPriority, PC
  <2>4. TypeOK' /\ FiniteDonors'
    BY <1>0, <1>10, <2>2, <2>3 DEF SetInitialPriority, TypeOK, FiniteDonors
  <2> QED BY <2>3, <2>4
<1> QED BY <1>2, <1>3, <1>4, <1>5, <1>6, <1>7, <1>8, <1>9, <1>10

\* The steps of lock_acquire and lock_release that donate, or change the list of donors.
LEMMA ElemsOfDonatingSteps ==
  ASSUME ElemInv, NEW t \in Thread,
         InsertDonation(t) \/ Propagate(t) \/ Restore(t) \/ ChangePriority(t)
  PROVE  TypeOK' /\ FiniteDonors' /\ PlaceInv' /\ ElemInOneList'
<1> USE DEF semaVars, donationVars, Goto
<1>0. /\ TypeOK /\ FiniteDonors /\ PlaceInv /\ ElemInOneList /\ LockInv
      /\ pc \in [Thread -> PC] /\ DonationTypes
  BY DEF ElemInv, TypeOK, DonationTypes, DonorTypes, FiniteDonors
<1>1. /\ t = sched.current /\ t \in Thread \ {Idle} /\ t \notin BlockedIn(sched) /\ Sound(sched)
      /\ pc[t] \in {"donate", "propagate", "restore", "setprio"}
      /\ pc[t] # "setprio" => arg[t] \in Lock
  BY <1>0, AtIs DEF InsertDonation, Propagate, Restore, ChangePriority, LockInv, ArgInv
<1>2. ASSUME Sound(sched'), BlockedIn(sched') = BlockedIn(sched), UNCHANGED <<waiters, arg>>,
             NEW place \in PC \ {"asleep", "fault"}, pc' = [pc EXCEPT ![t] = place],
             place = "down" => arg[t] \in Lock
      PROVE  PlaceInv' /\ ElemInOneList' /\ pc' \in [Thread -> PC]
  <2>1. pc'[t] = place /\ \A u \in Thread : u # t => pc'[u] = pc[u]
    BY <1>0, <1>2
  <2>2. place = "down" => arg'[t] \in Semaphore
    BY <1>2 DEF Semaphore
  <2>3. PlaceInv' /\ ElemInOneList'
    BY <1>0, <1>1, <1>2, <2>1, <2>2, ElemsKept
  <2> QED BY <1>0, <1>2, <2>3
<1>3. ASSUME NEW s, Sound(s), BlockedIn(s) = BlockedIn(sched), s.current = t, sched' = Block(s),
             UNCHANGED <<waiters, arg>>, pc' = [pc EXCEPT ![t] = "fault"]
      PROVE  PlaceInv' /\ ElemInOneList' /\ pc' \in [Thread -> PC] /\ Sound(sched')
  <2>1. Sound(sched') /\ BlockedIn(sched') = BlockedIn(sched) \union {t}
    BY <1>1, <1>3, BlockIs
  <2>2. PlaceInv' /\ ElemInOneList'
    BY <1>0, <1>1, <1>3, <2>1, ElemsAsleep
  <2> QED BY <1>0, <1>3, <2>1, <2>2 DEF PC
<1>4. CASE InsertDonation(t)
  <2> DEFINE h == holder[arg[t]]
  <2>1. h \in Thread \union {NoThread} /\ UNCHANGED <<waiters, arg>>
    BY <1>0, <1>1, <1>4 DEF InsertDonation, DonationTypes, At
  <2>2. CASE h = NoThread /\ Fault(t) /\ UNCHANGED <<donation_list, corrupt>>
    <3>1. PlaceInv' /\ ElemInOneList' /\ pc' \in [Thread -> PC] /\ Sound(sched')
      BY <1>1, <1>3, <2>1, <2>2 DEF Fault
    <3>2. TypeOK' /\ FiniteDonors'
      BY <1>0, <1>4, <2>2, <3>1 DEF InsertDonation, TypeOK, FiniteDonors, Sound
    <3> QED BY <3>1, <3>2
  <2>3. CASE /\ h # NoThread /\ corrupt' = \E u \in Thread : t \in donation_list[u]
             /\ donation_list' = [donation_list EXCEPT ![h] = @ \union {t}]
             /\ pc' = [pc EXCEPT ![t] = "propagate"] /\ UNCHANGED sched
    <3> HIDE DEF h
    <3>1. PlaceInv' /\ ElemInOneList' /\ pc' \in [Thread -> PC]
      BY <1>1, <1>2, <2>1, <2>3 DEF PC
    <3>2. donation_list' \in [Thread -> SUBSET Thread] /\ corrupt' \in BOOLEAN
      BY <1>0, <2>1, <2>3 DEF TypeOK
    <3>3. \A u \in Thread : donation_list'[u] = IF u = h THEN donation_list[u] \union {t}
                                                ELSE donation_list[u]
      BY <1>0, <2>1, <2>3 DEF TypeOK
    <3>4. \A u \in Thread : IsFiniteSet(donation_list[u]) /\ IsFiniteSet(donation_list[u] \union {t})
      BY <1>0, FS_AddElement DEF FiniteDonors
    <3>5. FiniteDonors'
      BY <3>3, <3>4 DEF FiniteDonors
    <3>6. TypeOK'
      BY <1>0, <1>4, <2>3, <3>1, <3>2 DEF InsertDonation, TypeOK
    <3> QED BY <3>1, <3>5, <3>6
  <2> QED BY <1>4, <2>2, <2>3 DEF InsertDonation
<1>5. CASE Propagate(t) \/ Restore(t)
  <2> DEFINE r == SetPriorityForLockHolder(sched, arg[t])
  <2>1. r \in Level /\ SchedOK(r.sched) /\ r.sched.current = sched.current /\ r.sched.status = sched.status
    <3>1. arg[t] \in Lock /\ sched \in SchedState /\ SchedOK(sched)
      BY <1>0, <1>1, <1>5 DEF Sound, Propagate, Restore, At
    <3> QED BY <1>0, <3>1, DonationKeepsSched
  <2>2. Sound(r.sched) /\ BlockedIn(r.sched) = BlockedIn(sched) /\ r.sched.current = t
    BY <1>1, <2>1 DEF Sound, BlockedIn, Level
  <2>3. UNCHANGED <<value, waiters, holder, donation_list, initial_priority, waiting_for_this_lock,
                    arg, locks, corrupt>>
    BY <1>5 DEF Propagate, Restore
  <2>4. \/ r.fault /\ sched' = Block(r.sched) /\ pc' = [pc EXCEPT ![t] = "fault"]
        \/ /\ sched' = r.sched
           /\ pc' = [pc EXCEPT ![t] = "down"] \/ pc' = [pc EXCEPT ![t] = "clear"]
    BY <1>5 DEF Propagate, Restore
  <2>5. arg[t] \in Lock
    BY <1>0, <1>1, <1>5 DEF Propagate, Restore, At
  <2> HIDE DEF r
  <2>6. PlaceInv' /\ ElemInOneList' /\ pc' \in [Thread -> PC] /\ Sound(sched')
    <3>1. CASE sched' = Block(r.sched) /\ pc' = [pc EXCEPT ![t] = "fault"]
      BY <1>3, <2>2, <2>3, <3>1
    <3>2. CASE sched' = r.sched /\ pc' = [pc EXCEPT ![t] = "down"]
      BY <1>2, <2>2, <2>3, <2>5, <3>2 DEF PC
    <3>3. CASE sched' = r.sched /\ pc' = [pc EXCEPT ![t] = "clear"]
      BY <1>2, <2>2, <2>3, <3>3 DEF PC
    <3> QED BY <2>4, <3>1, <3>2, <3>3
  <2>7. TypeOK' /\ FiniteDonors'
    BY <1>0, <2>3, <2>6 DEF TypeOK, FiniteDonors, Sound
  <2> QED BY <2>6, <2>7
<1>6. CASE ChangePriority(t)
  <2> DEFINE s == RefreshPriority(sched, t)
  <2>1. s \in SchedState /\ SchedOK(s) /\ s.status = sched.status
    BY <1>0, <1>1, RefreshProperties DEF DonationTypes, Sound
  <2> HIDE DEF s
  <2>2. Sound(YieldToMax(s)) /\ BlockedIn(YieldToMax(s)) = BlockedIn(s) /\ BlockedIn(s) = BlockedIn(sched)
    BY <2>1, YieldToMaxIs DEF Sound, BlockedIn
  <2>3. sched' = YieldToMax(s)
    BY <1>6 DEF ChangePriority, s
  <2>4. PlaceInv' /\ ElemInOneList' /\ pc' \in [Thread -> PC]
    BY <1>2, <1>6, <2>2, <2>3 DEF ChangePriority, PC
  <2>5. TypeOK' /\ FiniteDonors'
    BY <1>0, <1>6, <2>2, <2>3, <2>4 DEF ChangePriority, TypeOK, FiniteDonors, Sound
  <2> QED BY <2>4, <2>5
<1> QED BY <1>4, <1>5, <1>6

\* The steps that block or wake: sema_down, sema_up, timer_sleep, the timer.
LEMMA ElemsOfWaitingSteps ==
  ASSUME ElemInv,
         \/ \E t \in Thread : \/ DownSema(t) \/ DownLock(t) \/ CallSemaUp(t) \/ UpLock(t)
                              \/ Sleep(t) \/ TimerWake(t)
         \/ IdleBlock \/ TimerPreempt \/ HandlerSemaUp
  PROVE  TypeOK' /\ FiniteDonors' /\ PlaceInv' /\ ElemInOneList'
<1> USE DEF semaVars, donationVars, Goto
<1>0. /\ TypeOK /\ FiniteDonors /\ PlaceInv /\ ElemInOneList /\ LockInv /\ Sound(sched)
      /\ pc \in [Thread -> PC] /\ value \in [Semaphore -> Nat]
  BY DEF ElemInv, TypeOK, Sound, ElemInOneList
<1>1. ASSUME NEW t \in Thread, DownSema(t) \/ DownLock(t)
      PROVE  TypeOK' /\ FiniteDonors' /\ PlaceInv' /\ ElemInOneList'
  <2>1. /\ t = sched.current /\ t \in Thread \ {Idle} /\ pc[t] = "down" /\ t \notin BlockedIn(sched)
        /\ arg[t] \in Semaphore
        /\ UNCHANGED <<holder, donation_list, initial_priority, waiting_for_this_lock, arg, locks, corrupt>>
        /\ SemaDown(t, arg[t], "run") \/ SemaDown(t, arg[t], "own")
    BY <1>0, <1>1, AtIs DEF DownSema, DownLock, Semaphore
  <2>2. CASE /\ waiters' = [waiters EXCEPT ![arg[t]] = InsertOrdered(@, t, sched.priority)]
             /\ sched' = Block(sched) /\ UNCHANGED <<value, pc>>
    <3>1. Sound(sched') /\ BlockedIn(sched') = BlockedIn(sched) \union {t}
      BY <1>0, <2>1, <2>2, BlockIs
    <3>2. PlaceInv' /\ ElemInOneList' /\ waiters' \in [Semaphore -> Seq(Thread)]
      BY <1>0, <2>1, <2>2, <3>1, ElemsQueued
    <3>3. TypeOK' /\ FiniteDonors'
      BY <1>0, <2>1, <2>2, <3>1, <3>2 DEF TypeOK, FiniteDonors, Sound
    <3> QED BY <3>2, <3>3
  <2>3. CASE /\ value[arg[t]] > 0 /\ value' = [value EXCEPT ![arg[t]] = @ - 1]
             /\ pc' = [pc EXCEPT ![t] = "run"] \/ pc' = [pc EXCEPT ![t] = "own"]
             /\ UNCHANGED <<sched, waiters>>
    <3>1. /\ pc'[t] \in {"run", "own"} /\ \A u \in Thread : u # t => pc'[u] = pc[u]
          /\ pc' \in [Thread -> PC] /\ value' \in [Semaphore -> Nat]
      BY <1>0, <2>1, <2>3 DEF PC
    <3>2. PlaceInv' /\ ElemInOneList'
      BY <1>0, <2>1, <2>3, <3>1, ElemsKept
    <3>3. TypeOK' /\ FiniteDonors'
      BY <1>0, <2>1, <2>3, <3>1 DEF TypeOK, FiniteDonors
    <3> QED BY <3>2, <3>3
  <2> QED BY <2>1, <2>2, <2>3 DEF SemaDown
<1>2. ASSUME NEW s \in Semaphore, SemaUp(s),
             UNCHANGED <<holder, donation_list, initial_priority, waiting_for_this_lock, locks, corrupt>>,
             arg' \in [Thread -> Semaphore \union {NoLock}], pc' \in [Thread -> PC],
             \A u \in Thread :
                \/ pc'[u] = pc[u] /\ arg'[u] = arg[u]
                \/ u \notin BlockedIn(sched) /\ u # Idle /\ pc'[u] = "run"
      PROVE  TypeOK' /\ FiniteDonors' /\ PlaceInv' /\ ElemInOneList'
  <2>1. /\ PlaceInv' /\ ElemInOneList' /\ waiters' \in [Semaphore -> Seq(Thread)] /\ Sound(sched')
    BY <1>0, <1>2, ElemsWoken
  <2>2. value' \in [Semaphore -> Nat]
    BY <1>0, <1>2 DEF SemaUp
  <2>3. TypeOK' /\ FiniteDonors'
    BY <1>0, <1>2, <2>1, <2>2 DEF TypeOK, FiniteDonors, Sound
  <2> QED BY <2>1, <2>3
<1>3. ASSUME NEW t \in Thread, CallSemaUp(t)
      PROVE  TypeOK' /\ FiniteDonors' /\ PlaceInv' /\ ElemInOneList'
  <2>1. PICK s \in Sema : SemaUp(s)
    BY <1>3 DEF CallSemaUp
  <2> QED BY <1>0, <1>2, <1>3, <2>1 DEF CallSemaUp, Semaphore, TypeOK
<1>4. CASE HandlerSemaUp
  <2>1. PICK s \in Sema : SemaUp(s)
    BY <1>4 DEF HandlerSemaUp
  <2> QED BY <1>0, <1>2, <1>4, <2>1 DEF HandlerSemaUp, Semaphore, TypeOK
<1>5. ASSUME NEW t \in Thread, UpLock(t)
      PROVE  TypeOK' /\ FiniteDonors' /\ PlaceInv' /\ ElemInOneList'
  <2>1. /\ t \in Thread \ {Idle} /\ t \notin BlockedIn(sched) /\ arg[t] \in Lock
    BY <1>0, <1>5, AtIs DEF UpLock, At, LockInv, ArgInv
  <2>2. /\ arg' = [arg EXCEPT ![t] = NoLock] /\ pc' = [pc EXCEPT ![t] = "run"]
        /\ arg \in [Thread -> Semaphore \union {NoLock}] /\ SemaUp(arg[t])
    BY <1>0, <1>5 DEF UpLock, TypeOK
  <2>3. arg' \in [Thread -> Semaphore \union {NoLock}] /\ pc' \in [Thread -> PC]
    BY <1>0, <2>2 DEF PC
  <2>4. \A u \in Thread : \/ pc'[u] = pc[u] /\ arg'[u] = arg[u]
                          \/ u \notin BlockedIn(sched) /\ u # Idle /\ pc'[u] = "run"
    BY <1>0, <2>1, <2>2
  <2>5. arg[t] \in Semaphore
    BY <2>1 DEF Semaphore
  <2> QED BY <1>2, <1>5, <2>2, <2>3, <2>4, <2>5 DEF UpLock
<1>6. ASSUME NEW t \in Thread, Sleep(t)
      PROVE  TypeOK' /\ FiniteDonors' /\ PlaceInv' /\ ElemInOneList'
  <2>1. t = sched.current /\ t \in Thread \ {Idle} /\ t \notin BlockedIn(sched)
    BY <1>0, <1>6, AtIs DEF Sleep
  <2>2. Sound(sched') /\ BlockedIn(sched') = BlockedIn(sched) \union {t}
    BY <1>0, <1>6, <2>1, BlockIs DEF Sleep
  <2>3. PlaceInv' /\ ElemInOneList'
    BY <1>0, <1>6, <2>1, <2>2, ElemsAsleep DEF Sleep
  <2>4. TypeOK' /\ FiniteDonors'
    BY <1>0, <1>6, <2>2 DEF Sleep, TypeOK, FiniteDonors, Sound, PC
  <2> QED BY <2>3, <2>4
<1>7. ASSUME NEW u \in Thread, TimerWake(u)
      PROVE  TypeOK' /\ FiniteDonors' /\ PlaceInv' /\ ElemInOneList'
  <2>1. u \in BlockedIn(sched) /\ pc[u] = "asleep" /\ u # Idle
    BY <1>0, <1>7 DEF TimerWake, PlaceInv, BlockedIn
  <2>2. Sound(sched') /\ BlockedIn(sched') = BlockedIn(sched) \ {u}
    BY <1>0, <1>7, <2>1, UnblockIs DEF TimerWake
  <2>3. pc'[u] = "run" /\ \A v \in Thread : v # u => pc'[v] = pc[v]
    BY <1>0, <1>7 DEF TimerWake
  <2>4. UNCHANGED <<waiters, arg>>
    BY <1>7 DEF TimerWake
  <2>5. PlaceInv'
    <3>1. pc'[Idle] = "run"
      BY <1>0, <2>1, <2>3, ThreadAssumption DEF PlaceInv
    <3>2. \A v \in BlockedIn(sched)' : pc'[v] \in {"asleep", "down", "fault"}
      BY <1>0, <2>2, <2>3 DEF PlaceInv, BlockedIn
    <3>3. \A v \in Thread : pc'[v] \in {"asleep", "fault"} => v \in BlockedIn(sched)'
      BY <1>0, <2>2, <2>3 DEF PlaceInv, BlockedIn
    <3>4. \A v \in Thread : pc'[v] = "down" => arg'[v] \in Semaphore
      BY <1>0, <2>3, <2>4 DEF PlaceInv
    <3> QED BY <3>1, <3>2, <3>3, <3>4 DEF PlaceInv
  <2>6. ASSUME NEW s \in Semaphore
        PROVE  {v \in Thread : pc'[v] = "down" /\ arg'[v] = s /\ sched'.status[v] = "BLOCKED"} =
               {v \in Thread : pc[v] = "down" /\ arg[v] = s /\ sched.status[v] = "BLOCKED"}
    <3>1. \A v \in Thread : pc'[v] = "down" /\ arg'[v] = s /\ sched'.status[v] = "BLOCKED" <=>
                            pc[v] = "down" /\ arg[v] = s /\ sched.status[v] = "BLOCKED"
      BY <1>0, <2>1, <2>2, <2>3, <2>4, <2>5 DEF PlaceInv, BlockedIn
    <3> QED BY <3>1
  <2>7. ElemInOneList'
    BY <1>0, <2>2, <2>4, <2>6 DEF ElemInOneList, Sound
  <2>8. TypeOK' /\ FiniteDonors'
    BY <1>0, <1>7, <2>2 DEF TimerWake, TypeOK, FiniteDonors, Sound, PC
  <2> QED BY <2>5, <2>7, <2>8
<1>8. CASE IdleBlock \/ TimerPreempt
  <2>1. Sound(sched') /\ BlockedIn(sched') = BlockedIn(sched)
    <3>1. CASE IdleBlock
      BY <1>0, <3>1, BlockIs DEF IdleBlock
    <3>2. CASE TimerPreempt
      BY <1>0, <3>2, YieldIs DEF TimerPreempt
    <3> QED BY <1>8, <3>1, <3>2
  <2>2. UNCHANGED <<value, waiters, holder, donation_list, initial_priority, waiting_for_this_lock,
                    pc, arg, locks, corrupt>>
    BY <1>8 DEF IdleBlock, TimerPreempt
  <2>3. PlaceInv' /\ ElemInOneList'
    BY <1>0, <2>1, <2>2, ElemsKept
  <2>4. TypeOK' /\ FiniteDonors'
    BY <1>0, <2>1, <2>2 DEF TypeOK, FiniteDonors, Sound
  <2> QED BY <2>3, <2>4
<1> QED BY <1>1, <1>3, <1>4, <1>5, <1>6, <1>7, <1>8

\* The first state: main runs, the threads it has created sleep, nobody waits.
LEMMA InitElemInv == Init => ElemInv
<1> SUFFICES ASSUME Init PROVE ElemInv
  OBVIOUS
<1>1. LockInv
  BY InitLockInv
<1>2. /\ sched = [current |-> Main,
                  status |-> [t \in Thread |-> CASE t = Main -> "RUNNING"
                                                 [] t = Idle -> "READY"
                                                 [] OTHER -> "BLOCKED"],
                  ready_list |-> << >>, priority |-> InitialPriority, thread_ticks |-> 0]
      /\ \A t \in Thread : pc[t] = IF t \in {Main, Idle} THEN "run" ELSE "asleep"
      /\ \A s \in Semaphore : waiters[s] = << >>
  BY DEF Init
<1>3. \A t \in Thread : sched.status[t] = IF t = Main THEN "RUNNING"
                                          ELSE IF t = Idle THEN "READY" ELSE "BLOCKED"
  BY <1>2, ThreadAssumption
<1>4. TypeOK
  <2>1. /\ << >> \in Seq(Thread) /\ pc \in [Thread -> PC]
        /\ \A t \in Thread : sched.status[t] \in Status
    BY <1>2, <1>3 DEF Init, PC, Status
  <2>2. sched \in SchedState
    BY <1>2, <2>1, SynchAssumption, ThreadAssumption DEF SchedState
  <2> QED BY <2>1, <2>2, SynchAssumption DEF Init, TypeOK
<1>5. FiniteDonors
  BY FS_EmptySet DEF Init, FiniteDonors
<1>6. PlaceInv
  BY <1>2, <1>3, ThreadAssumption DEF PlaceInv, BlockedIn
<1>7. ElemInOneList
  <2>1. NoDuplicates(<< >>) /\ ListElems(<< >>) = {} /\ sched.ready_list = << >> /\ sched.current = Main
    BY <1>2 DEF NoDuplicates, ListElems
  <2>2. SchedOK(sched)
    <3>1. OneRunning(sched)
      BY <1>3, <2>1, ThreadAssumption DEF OneRunning
    <3>2. {t \in Thread \ {Idle} : sched.status[t] = "READY"} = {}
      BY <1>3
    <3> QED BY <2>1, <3>1, <3>2 DEF SchedOK, QueueMatchesStatus
  <2>3. \A s \in Semaphore :
           {t \in Thread : pc[t] = "down" /\ arg[t] = s /\ sched.status[t] = "BLOCKED"} = {}
    BY <1>2
  <2> QED BY <1>2, <2>1, <2>2, <2>3 DEF ElemInOneList
<1> QED BY <1>1, <1>4, <1>5, <1>6, <1>7 DEF ElemInv

LEMMA NextElemInv == ElemInv /\ [Next]_vars => ElemInv'
<1> SUFFICES ASSUME ElemInv, [Next]_vars PROVE ElemInv'
  OBVIOUS
<1>1. LockInv'
  BY NextLockInv DEF ElemInv
<1>2. CASE UNCHANGED vars
  <2>1. ElemInv' <=> ElemInv
    BY <1>2 DEF ElemInv, vars, TypeOK, LockInv, LockTypes, OneUnit, ArgInv, HolderIsOwner, HasUnit,
                FiniteDonors, PlaceInv, ElemInOneList
  <2> QED BY <2>1
<1>3. CASE Next
  BY <1>1, <1>3, ElemsOfLocalSteps, ElemsOfDonatingSteps, ElemsOfWaitingSteps
     DEF Next, Step, LockStep, SemaStep, ElemInv
<1> QED BY <1>2, <1>3

LEMMA ElemInvariant == Spec => []ElemInv
BY InitElemInv, NextElemInv, PTL DEF Spec

\* Every variable stays in its domain, wherever the threads are interrupted: no call of a
\* scheduler function finds a thread in a status it does not expect.
THEOREM SynchTypeCorrect == Spec => []TypeOK
BY ElemInvariant, PTL DEF ElemInv

\* The element elem of struct thread is in one list at a time (thread.h): the run queue holds
\* exactly the READY threads, and the waiters of a semaphore are exactly those BLOCKED in its
\* sema_down, whatever locks, semaphores, sleeps and interrupts do in between.
THEOREM ElementInOneList == Spec => []ElemInOneList
BY ElemInvariant, PTL DEF ElemInv

--------------------------------------------------------------------------------
(* No lost wakeup.                                                         *)

InDown(s) == {t \in Thread : pc[t] = "down" /\ arg[t] = s}

Wake(s) ==
  /\ IsFiniteSet(Contending(s))
  /\ waiters[s] # << >> => value[s] <= Cardinality(Contending(s))

WakeInv == \A s \in Semaphore : Wake(s)

LEMMA ContendingIs ==
  ASSUME NEW s
  PROVE  /\ PlaceInv => Contending(s) = InDown(s) \ BlockedIn(sched)
         /\ PlaceInv' => Contending(s)' = InDown(s)' \ BlockedIn(sched')
BY DEF PlaceInv, Contending, InDown, BlockedIn

\* Most steps wake nobody on a semaphore and take nobody out of sema_down: the value does
\* not grow, and at most the thread of the step comes to contend for it.
LEMMA WakeKept ==
  ASSUME PlaceInv, PlaceInv', WakeInv, NEW t \in Thread, pc[t] # "down",
         \A u \in Thread \ {t} : /\ pc'[u] = pc[u] /\ arg'[u] = arg[u]
                                 /\ u \in BlockedIn(sched') <=> u \in BlockedIn(sched),
         waiters' = waiters, value \in [Semaphore -> Nat], value' \in [Semaphore -> Nat],
         \A s \in Semaphore : value'[s] <= value[s]
  PROVE  WakeInv'
<1> SUFFICES ASSUME NEW s \in Semaphore PROVE Wake(s)'
  BY DEF WakeInv
<1>1. Wake(s)
  BY DEF WakeInv
<1> DEFINE C == Contending(s)
           D == Contending(s)'
<1>2. C \subseteq D /\ D \subseteq C \union {t}
  BY ContendingIs DEF InDown
<1> HIDE DEF C, D
<1>3. IsFiniteSet(C) /\ IsFiniteSet(C \union {t})
  BY <1>1, FS_AddElement DEF Wake, C
<1>4. IsFiniteSet(D)
  BY <1>2, <1>3, FS_Subset
<1>5. Cardinality(C) <= Cardinality(D)
  BY <1>2, <1>4, FS_Subset
<1>6. Cardinality(C) \in Nat /\ Cardinality(D) \in Nat
  BY <1>3, <1>4, FS_CardinalityType
<1> QED BY <1>1, <1>4, <1>5, <1>6 DEF Wake, C, D

\* A thread in sema_down that finds a unit takes it and contends no more; one that finds
\* none blocks, and there is no unit to miss.
LEMMA WakeDown ==
  ASSUME TypeOK, PlaceInv, PlaceInv', WakeInv, NEW t \in Thread, pc[t] = "down", t \notin BlockedIn(sched),
         \A u \in Thread \ {t} : /\ pc'[u] = pc[u] /\ arg'[u] = arg[u]
                                 /\ u \in BlockedIn(sched') <=> u \in BlockedIn(sched),
         arg' = arg,
         \/ /\ value[arg[t]] = 0 /\ value' = value /\ pc'[t] = "down"
            /\ t \in BlockedIn(sched')
            /\ \A s \in Semaphore : s # arg[t] => waiters'[s] = waiters[s]
         \/ /\ value[arg[t]] > 0 /\ value' = [value EXCEPT ![arg[t]] = @ - 1]
            /\ waiters' = waiters /\ pc'[t] # "down"
  PROVE  WakeInv'
<1> SUFFICES ASSUME NEW s \in Semaphore PROVE Wake(s)'
  BY DEF WakeInv
<1>1. Wake(s) /\ value \in [Semaphore -> Nat]
  BY DEF WakeInv, TypeOK
<1> DEFINE C == Contending(s)
           D == Contending(s)'
<1>2. CASE s # arg[t]
  <2>1. \A u \in Thread : u \in InDown(s)' <=> u \in InDown(s)
    BY <1>2 DEF InDown
  <2>2. t \notin InDown(s)
    BY <1>2 DEF InDown
  <2>3. C = D
    <3>1. InDown(s) \subseteq Thread /\ InDown(s)' \subseteq Thread
      BY DEF InDown
    <3> QED BY <2>1, <2>2, <3>1, ContendingIs
  <2>4. value'[s] = value[s] /\ waiters'[s] = waiters[s]
    BY <1>1, <1>2
  <2> QED BY <1>1, <2>3, <2>4 DEF Wake
<1>3. CASE s = arg[t]
  <2>1. t \in C /\ D = C \ {t}
    BY <1>3, ContendingIs DEF InDown
  <2> HIDE DEF C, D
  <2>2. IsFiniteSet(C)
    BY <1>1 DEF Wake, C
  <2>3. IsFiniteSet(D) /\ Cardinality(D) = Cardinality(C) - 1 /\ Cardinality(D) \in Nat
        /\ Cardinality(C) \in Nat
    BY <2>1, <2>2, FS_RemoveElement, FS_CardinalityType
  <2>4. value'[s] = 0 \/ (waiters'[s] = waiters[s] /\ value'[s] = value[s] - 1 /\ value[s] \in Nat)
    BY <1>1, <1>3
  <2> QED BY <1>1, <2>3, <2>4 DEF Wake, C, D
<1> QED BY <1>2, <1>3

\* sema_up adds a unit, and someone to take it if anybody waits.
LEMMA WakeUp ==
  ASSUME TypeOK, PlaceInv, PlaceInv', ElemInOneList, WakeInv, NEW s0 \in Semaphore, SemaUp(s0),
         \A u \in Thread :
            \/ pc'[u] = pc[u] /\ arg'[u] = arg[u]
            \/ u \notin BlockedIn(sched) /\ u # Idle /\ pc[u] # "down" /\ pc'[u] = "run"
  PROVE  WakeInv'
<1>1. PICK gone \in SUBSET ListElems(waiters[s0]) :
              /\ BlockedIn(sched') = BlockedIn(sched) \ gone
              /\ IF waiters[s0] = << >> THEN gone = {} /\ waiters'[s0] = << >>
                 ELSE \E u \in Thread : gone = {u}
  BY ElemsWoken
<1>2. \A u \in gone : u \in InDown(s0) /\ u \in BlockedIn(sched)
  BY DEF ElemInOneList, InDown, BlockedIn, PlaceInv
<1> SUFFICES ASSUME NEW s \in Semaphore PROVE Wake(s)'
  BY DEF WakeInv
<1>3. Wake(s) /\ value \in [Semaphore -> Nat] /\ waiters \in [Semaphore -> Seq(Thread)]
  BY DEF WakeInv, TypeOK
<1>4. \A m : InDown(m)' = InDown(m)
  BY DEF InDown, PlaceInv, BlockedIn
<1> DEFINE C == Contending(s)
           D == Contending(s)'
<1>5. CASE s # s0
  <2>1. gone \cap InDown(s) = {}
    BY <1>2, <1>5 DEF InDown
  <2>2. C = D
    <3>1. C = InDown(s) \ BlockedIn(sched) /\ D = InDown(s) \ (BlockedIn(sched) \ gone)
      BY <1>1, <1>4, ContendingIs
    <3> HIDE DEF C, D
    <3> QED BY <2>1, <3>1
  <2>3. value'[s] = value[s] /\ waiters'[s] = waiters[s]
    BY <1>3, <1>5 DEF SemaUp
  <2> QED BY <1>3, <2>2, <2>3 DEF Wake
<1>6. CASE s = s0
  <2>1. D = C \union gone /\ gone \cap C = {} /\ value'[s] = value[s] + 1 /\ value[s] \in Nat
    BY <1>1, <1>2, <1>3, <1>4, <1>6, ContendingIs DEF SemaUp
  <2> HIDE DEF C, D
  <2>2. IsFiniteSet(C) /\ Cardinality(C) \in Nat
    BY <1>3, FS_CardinalityType DEF Wake, C
  <2>3. CASE waiters[s] = << >>
    <3>1. D = C /\ waiters'[s] = << >>
      BY <1>1, <1>6, <2>1, <2>3
    <3> QED BY <2>2, <3>1 DEF Wake, D
  <2>4. CASE waiters[s] # << >>
    <3>1. PICK u \in Thread : gone = {u}
      BY <1>1, <1>6, <2>4
    <3>2. IsFiniteSet(D) /\ Cardinality(D) = Cardinality(C) + 1
      BY <2>1, <2>2, <3>1, FS_AddElement
    <3> QED BY <1>3, <2>1, <2>2, <2>4, <3>2 DEF Wake, C, D
  <2> QED BY <2>3, <2>4
<1> QED BY <1>5, <1>6

\* Who is BLOCKED after the steps that change the scheduler, apart from sema_down and sema_up.
LEMMA BlockedByStep ==
  ASSUME ElemInv, NEW t \in Thread,
         \/ InsertDonation(t) \/ Propagate(t) \/ Restore(t) \/ ChangePriority(t) \/ Sleep(t)
         \/ TimerWake(t) \/ (t = Idle /\ (IdleBlock \/ TimerPreempt))
  PROVE  \A u \in Thread \ {t} : u \in BlockedIn(sched') <=> u \in BlockedIn(sched)
<1>0. TypeOK /\ PlaceInv /\ Sound(sched) /\ LockInv /\ DonationTypes
  BY DEF ElemInv, ElemInOneList, TypeOK, Sound, DonationTypes, DonorTypes, FiniteDonors
<1>1. ASSUME NEW s, Sound(s), BlockedIn(s) = BlockedIn(sched), s.current = t, sched' = Block(s)
      PROVE  \A u \in Thread \ {t} : u \in BlockedIn(sched') <=> u \in BlockedIn(sched)
  BY <1>1, BlockIs
<1>2. CASE InsertDonation(t)
  <2>1. sched' = sched \/ (sched' = Block(sched) /\ sched.current = t)
    BY <1>2 DEF InsertDonation, Fault, At
  <2> QED BY <1>0, <1>1, <2>1
<1>3. CASE Propagate(t) \/ Restore(t)
  <2> DEFINE r == SetPriorityForLockHolder(sched, arg[t])
  <2>1. sched.current = t /\ arg[t] \in Lock
    BY <1>0, <1>3 DEF Propagate, Restore, At, LockInv, ArgInv
  <2>2. Sound(r.sched) /\ BlockedIn(r.sched) = BlockedIn(sched) /\ r.sched.current = t
    <3>1. sched \in SchedState /\ SchedOK(sched)
      BY <1>0 DEF Sound
    <3>2. LET q == SetPriorityForLockHolder(sched, arg[t]) IN
            /\ q \in Level /\ SchedOK(q.sched)
            /\ q.sched.current = sched.current /\ q.sched.status = sched.status
      BY <1>0, <2>1, <3>1, DonationKeepsSched
    <3> HIDE DEF r
    <3>3. /\ r \in Level /\ SchedOK(r.sched)
          /\ r.sched.current = sched.current /\ r.sched.status = sched.status
      BY <3>2 DEF r
    <3> QED BY <2>1, <3>3 DEF Sound, BlockedIn, Level
  <2>3. sched' = r.sched \/ sched' = Block(r.sched)
    BY <1>3 DEF Propagate, Restore
  <2> HIDE DEF r
  <2> QED BY <1>1, <2>2, <2>3
<1>4. CASE ChangePriority(t)
  <2> DEFINE s == RefreshPriority(sched, t)
  <2>1. s \in SchedState /\ SchedOK(s) /\ s.status = sched.status
    BY <1>0, RefreshProperties DEF DonationTypes, Sound
  <2> HIDE DEF s
  <2>2. BlockedIn(YieldToMax(s)) = BlockedIn(s) /\ BlockedIn(s) = BlockedIn(sched)
    BY <2>1, YieldToMaxIs DEF Sound, BlockedIn
  <2> QED BY <1>4, <2>2 DEF ChangePriority, s
<1>5. CASE Sleep(t)
  BY <1>0, <1>1, <1>5 DEF Sleep, At
<1>6. CASE TimerWake(t)
  <2>1. t \in BlockedIn(sched)
    BY <1>0, <1>6 DEF TimerWake, PlaceInv
  <2> QED BY <1>0, <1>6, <2>1, UnblockIs DEF TimerWake
<1>7. CASE t = Idle /\ (IdleBlock \/ TimerPreempt)
  <2>1. CASE IdleBlock
    BY <1>0, <1>1, <1>7, <2>1 DEF IdleBlock
  <2>2. CASE TimerPreempt
    BY <1>0, <2>2, YieldIs DEF TimerPreempt
  <2> QED BY <1>7, <2>1, <2>2
<1> QED BY <1>2, <1>3, <1>4, <1>5, <1>6, <1>7

\* The steps of WakeKept.
LEMMA WakeKeepingSteps ==
  ASSUME ElemInv, PlaceInv', TypeOK', WakeInv, NEW t \in Thread,
         \/ CallSemaDown(t) \/ SemaTryDown(t) \/ Acquire(t) \/ Mark(t) \/ InsertDonation(t)
         \/ Propagate(t) \/ Own(t) \/ TryAcquire(t) \/ Release(t) \/ Restore(t) \/ ClearHolder(t)
         \/ SetInitialPriority(t) \/ ChangePriority(t) \/ Sleep(t) \/ TimerWake(t)
         \/ (t = Idle /\ (IdleBlock \/ TimerPreempt))
  PROVE  WakeInv'
<1> USE DEF semaVars, donationVars
<1>0. /\ PlaceInv /\ pc \in [Thread -> PC] /\ arg \in [Thread -> Semaphore \union {NoLock}]
      /\ value \in [Semaphore -> Nat] /\ value' \in [Semaphore -> Nat]
  BY DEF ElemInv, TypeOK
<1>1. waiters' = waiters
  BY DEF CallSemaDown, SemaTryDown, Acquire, Mark, InsertDonation, Propagate, Own, TryAcquire,
         Release, Restore, ClearHolder, SetInitialPriority, ChangePriority, Sleep, TimerWake,
         IdleBlock, TimerPreempt
<1>2. \A s \in Semaphore : value'[s] <= value[s]
  <2>1. CASE value' = value
    BY <1>0, <2>1
  <2>2. CASE \E l : value' = [value EXCEPT ![l] = @ - 1]
    BY <1>0, <2>2
  <2> QED BY <2>1, <2>2
       DEF CallSemaDown, SemaTryDown, Acquire, Mark, InsertDonation, Propagate, Own, TryAcquire,
           Release, Restore, ClearHolder, SetInitialPriority, ChangePriority, Sleep, TimerWake,
           IdleBlock, TimerPreempt
<1>3. pc[t] # "down"
  BY <1>0 DEF CallSemaDown, SemaTryDown, Acquire, Mark, InsertDonation, Propagate, Own, TryAcquire,
         Release, Restore, ClearHolder, SetInitialPriority, ChangePriority, Sleep, TimerWake, At,
         PlaceInv
<1>4. \A u \in Thread \ {t} : pc'[u] = pc[u] /\ arg'[u] = arg[u]
  BY <1>0 DEF CallSemaDown, SemaTryDown, Acquire, Mark, InsertDonation, Propagate, Own, TryAcquire,
         Release, Restore, ClearHolder, SetInitialPriority, ChangePriority, Sleep, TimerWake,
         IdleBlock, TimerPreempt, Goto, Fault
<1>5. \A u \in Thread \ {t} : u \in BlockedIn(sched') <=> u \in BlockedIn(sched)
  <2>1. CASE sched' = sched
    BY <2>1
  <2> QED BY <2>1, BlockedByStep
       DEF CallSemaDown, SemaTryDown, Acquire, Mark, Own, TryAcquire, Release, ClearHolder,
           SetInitialPriority
<1> QED BY <1>0, <1>1, <1>2, <1>3, <1>4, <1>5, WakeKept

LEMMA WakeMovingSteps ==
  ASSUME ElemInv, PlaceInv', WakeInv,
         \/ \E t \in Thread : DownSema(t) \/ DownLock(t) \/ CallSemaUp(t) \/ UpLock(t)
         \/ HandlerSemaUp
  PROVE  WakeInv'
<1> USE DEF semaVars, donationVars, Goto
<1>0. /\ TypeOK /\ PlaceInv /\ ElemInOneList /\ LockInv /\ Sound(sched)
      /\ pc \in [Thread -> PC] /\ arg \in [Thread -> Semaphore \union {NoLock}]
      /\ waiters \in [Semaphore -> Seq(Thread)] /\ \A s \in Sema : s \in Semaphore
  BY DEF ElemInv, TypeOK, Sound, ElemInOneList, Semaphore
<1>1. ASSUME NEW t \in Thread, DownSema(t) \/ DownLock(t) PROVE WakeInv'
  <2>1. /\ t = sched.current /\ t \in Thread \ {Idle} /\ pc[t] = "down" /\ t \notin BlockedIn(sched)
        /\ arg' = arg
    BY <1>0, <1>1, AtIs DEF DownSema, DownLock
  <2>2. CASE /\ value[arg[t]] = 0 /\ sched' = Block(sched) /\ UNCHANGED <<value, pc>>
             /\ waiters' = [waiters EXCEPT ![arg[t]] = InsertOrdered(@, t, sched.priority)]
    <3>1. BlockedIn(sched') = BlockedIn(sched) \union {t}
      BY <1>0, <2>1, <2>2, BlockIs
    <3>2. \A s \in Semaphore : s # arg[t] => waiters'[s] = waiters[s]
      BY <1>0, <2>2
    <3> QED BY <1>0, <2>1, <2>2, <3>1, <3>2, WakeDown
  <2>3. CASE /\ value[arg[t]] > 0 /\ value' = [value EXCEPT ![arg[t]] = @ - 1]
             /\ pc' = [pc EXCEPT ![t] = "run"] \/ pc' = [pc EXCEPT ![t] = "own"]
             /\ UNCHANGED <<sched, waiters>>
    <3>1. pc'[t] # "down" /\ \A u \in Thread \ {t} : pc'[u] = pc[u]
      BY <1>0, <2>3
    <3> QED BY <1>0, <2>1, <2>3, <3>1, WakeDown
  <2> QED BY <1>1, <2>2, <2>3 DEF DownSema, DownLock, SemaDown
<1>2. ASSUME NEW t \in Thread, CallSemaUp(t) \/ HandlerSemaUp PROVE WakeInv'
  <2>1. PICK s \in Sema : SemaUp(s)
    BY <1>2 DEF CallSemaUp, HandlerSemaUp
  <2>2. pc' = pc /\ arg' = arg
    BY <1>2 DEF CallSemaUp, HandlerSemaUp
  <2> QED BY <1>0, <2>1, <2>2, WakeUp
<1>3. ASSUME NEW t \in Thread, UpLock(t) PROVE WakeInv'
  <2>1. /\ t \in Thread \ {Idle} /\ t \notin BlockedIn(sched) /\ arg[t] \in Lock /\ pc[t] = "up"
    BY <1>0, <1>3, AtIs DEF UpLock, At, LockInv, ArgInv
  <2>2. /\ SemaUp(arg[t]) /\ arg[t] \in Semaphore /\ pc'[t] = "run"
        /\ \A u \in Thread \ {t} : pc'[u] = pc[u] /\ arg'[u] = arg[u]
    BY <1>0, <1>3, <2>1 DEF UpLock, Semaphore
  <2> QED BY <1>0, <2>1, <2>2, WakeUp
<1> QED BY <1>1, <1>2, <1>3, ThreadAssumption

LEMMA InitWakeInv == Init => WakeInv
<1> SUFFICES ASSUME Init, NEW s \in Semaphore PROVE Wake(s)
  BY DEF WakeInv
<1>1. waiters[s] = << >> /\ Contending(s) = {}
  BY DEF Init, Contending
<1> QED BY <1>1, FS_EmptySet DEF Wake

LEMMA NextWakeInv == ElemInv /\ ElemInv' /\ WakeInv /\ [Next]_vars => WakeInv'
<1> SUFFICES ASSUME ElemInv, ElemInv', WakeInv, [Next]_vars PROVE WakeInv'
  OBVIOUS
<1>1. PlaceInv' /\ TypeOK'
  BY DEF ElemInv
<1>2. CASE UNCHANGED vars
  BY <1>2 DEF vars, WakeInv, Wake, Contending
<1>3. CASE Next
  BY <1>1, <1>3, WakeKeepingSteps, WakeMovingSteps, ThreadAssumption
     DEF Next, Step, LockStep, SemaStep
<1> QED BY <1>2, <1>3

\* No wakeup is lost: while threads sleep in sema_down, every unit of the semaphore has a
\* thread awake in sema_down that will test the value, although sema_up unblocks a waiter before
\* it increments the value, and other threads may take the unit first.
THEOREM NoWakeupLost == Spec => []NoLostWakeup
<1>1. WakeInv => NoLostWakeup
  BY DEF WakeInv, Wake, NoLostWakeup
<1> QED BY <1>1, ElemInvariant, InitWakeInv, NextWakeInv, PTL DEF Spec

--------------------------------------------------------------------------------
(* Donation, when the timer interrupts a thread in its own code only.      *)

\* Which lock a thread waits for, by where it is: the lock of its call or none, and never
\* one that it holds.
WaitInv ==
  \A t \in Thread :
     /\ waiting_for_this_lock[t] \in {NoLock, arg[t]}
     /\ pc[t] \notin {"donate", "propagate", "down", "own", "fault"} =>
          waiting_for_this_lock[t] = NoLock
     /\ pc[t] \in {"donate", "propagate"} => waiting_for_this_lock[t] = arg[t]
     /\ pc[t] \in {"mark", "donate", "propagate", "down", "own", "fault"} => arg[t] \notin locks[t]

LEMMA InitWaitInv == Init => WaitInv
BY DEF Init, WaitInv

\* What a step does to the waits of a thread, from the place it was at to the place it goes to.
LEMMA WaitStep ==
  ASSUME WaitInv, NEW t \in Thread,
         \A u \in Thread \ {t} : /\ pc'[u] = pc[u] /\ arg'[u] = arg[u]
                                 /\ waiting_for_this_lock'[u] = waiting_for_this_lock[u]
                                 /\ locks'[u] = locks[u],
         /\ waiting_for_this_lock'[t] \in {NoLock, arg'[t]}
         /\ pc'[t] \notin {"donate", "propagate", "down", "own", "fault"} =>
              waiting_for_this_lock'[t] = NoLock
         /\ pc'[t] \in {"donate", "propagate"} => waiting_for_this_lock'[t] = arg'[t]
         /\ pc'[t] \in {"mark", "donate", "propagate", "down", "own", "fault"} => arg'[t] \notin locks'[t]
  PROVE  WaitInv'
BY DEF WaitInv

LEMMA NextWaitInv == ElemInv /\ WaitInv /\ [Next]_vars => WaitInv'
<1> SUFFICES ASSUME ElemInv, WaitInv, [Next]_vars PROVE WaitInv'
  OBVIOUS
<1> USE DEF semaVars, donationVars, Goto, At
<1>0. /\ pc \in [Thread -> PC] /\ arg \in [Thread -> Semaphore \union {NoLock}]
      /\ waiting_for_this_lock \in [Thread -> Lock \union {NoLock}]
      /\ locks \in [Thread -> SUBSET Lock] /\ ArgInv
      /\ \A s \in Sema : s \notin Lock
  BY SynchAssumption DEF ElemInv, TypeOK, LockInv
<1>1. ASSUME NEW t \in Thread, NEW place, UNCHANGED <<waiting_for_this_lock, arg, locks>>,
             pc' = [pc EXCEPT ![t] = place],
             \/ pc[t] \in {"run", "asleep", "restore", "setprio"}
                /\ place \in {"run", "asleep", "setprio", "clear"}
             \/ pc[t] = "down" /\ place = "own"
             \/ pc[t] = "donate" /\ place \in {"propagate", "fault"}
             \/ pc[t] = "propagate" /\ place \in {"down", "fault"}
      PROVE  WaitInv'
  <2>1. pc'[t] = place /\ \A u \in Thread \ {t} : pc'[u] = pc[u]
    BY <1>0, <1>1
  <2> QED BY <1>0, <1>1, <2>1, WaitStep DEF WaitInv
<1>2. CASE UNCHANGED <<waiting_for_this_lock, arg, locks, pc>>
  BY <1>2 DEF WaitInv
<1>3. ASSUME NEW t \in Thread, DownSema(t) \/ DownLock(t) PROVE WaitInv'
  <2>1. /\ UNCHANGED <<waiting_for_this_lock, arg, locks>> /\ pc[t] = "down"
        /\ \/ pc' = pc
           \/ arg[t] \in Lock /\ pc' = [pc EXCEPT ![t] = "own"]
           \/ arg[t] \in Sema /\ pc' = [pc EXCEPT ![t] = "run"]
    BY <1>3 DEF DownSema, DownLock, SemaDown
  <2>2. CASE arg[t] \in Sema /\ pc' = [pc EXCEPT ![t] = "run"]
    <3>1. waiting_for_this_lock[t] = NoLock
      BY <1>0, <2>2 DEF WaitInv
    <3>2. pc'[t] = "run" /\ \A u \in Thread \ {t} : pc'[u] = pc[u]
      BY <1>0, <2>2
    <3> QED BY <2>1, <3>1, <3>2, WaitStep
  <2> QED BY <1>1, <1>2, <2>1, <2>2
<1>4. ASSUME NEW t \in Thread, CallSemaDown(t) \/ Acquire(t) \/ TryAcquire(t) \/ Release(t)
      PROVE  WaitInv'
  <2>1. PICK x : arg' = [arg EXCEPT ![t] = x] /\ (~Release(t) => x \notin locks[t])
    BY <1>0, <1>4 DEF CallSemaDown, Acquire, TryAcquire, Release
  <2>2. /\ waiting_for_this_lock' = waiting_for_this_lock /\ locks' = locks /\ pc[t] = "run"
        /\ \E place \in {"down", "mark", "own", "restore"} :
              pc' = [pc EXCEPT ![t] = place] /\ (place # "restore" => ~Release(t))
    BY <1>4 DEF CallSemaDown, Acquire, TryAcquire, Release
  <2>3. PICK place \in {"down", "mark", "own", "restore"} :
              pc' = [pc EXCEPT ![t] = place] /\ (place # "restore" => ~Release(t))
    BY <2>2
  <2>4. pc'[t] = place /\ arg'[t] = x
        /\ \A u \in Thread \ {t} : pc'[u] = pc[u] /\ arg'[u] = arg[u]
    BY <1>0, <2>1, <2>3
  <2>5. waiting_for_this_lock[t] = NoLock
    BY <2>2 DEF WaitInv
  <2> QED BY <2>1, <2>2, <2>3, <2>4, <2>5, WaitStep
<1>5. ASSUME NEW t \in Thread, Mark(t) PROVE WaitInv'
  <2>1. pc'[t] = "donate" /\ waiting_for_this_lock'[t] = arg[t] /\ arg[t] \notin locks[t]
        /\ \A u \in Thread \ {t} : pc'[u] = pc[u] /\ waiting_for_this_lock'[u] = waiting_for_this_lock[u]
    BY <1>0, <1>5 DEF Mark, WaitInv
  <2> QED BY <1>5, <2>1, WaitStep DEF Mark
<1>6. ASSUME NEW t \in Thread, Own(t) PROVE WaitInv'
  <2>1. pc'[t] = "run" /\ waiting_for_this_lock'[t] = NoLock
        /\ \A u \in Thread \ {t} : /\ pc'[u] = pc[u] /\ arg'[u] = arg[u] /\ locks'[u] = locks[u]
                                   /\ waiting_for_this_lock'[u] = waiting_for_this_lock[u]
    BY <1>0, <1>6 DEF Own
  <2> QED BY <2>1, WaitStep
<1>7. ASSUME NEW t \in Thread, ClearHolder(t) \/ UpLock(t) PROVE WaitInv'
  <2>1. pc'[t] \in {"up", "run"} /\ pc[t] \in {"clear", "up"}
        /\ waiting_for_this_lock' = waiting_for_this_lock
        /\ \A u \in Thread \ {t} : /\ pc'[u] = pc[u] /\ arg'[u] = arg[u] /\ locks'[u] = locks[u]
    BY <1>0, <1>7 DEF ClearHolder, UpLock
  <2>2. waiting_for_this_lock[t] = NoLock
    BY <2>1 DEF WaitInv
  <2> QED BY <2>1, <2>2, WaitStep
<1>8. ASSUME NEW t \in Thread,
             \/ InsertDonation(t) \/ Propagate(t) \/ Restore(t) \/ SetInitialPriority(t)
             \/ ChangePriority(t) \/ Sleep(t) \/ TimerWake(t)
      PROVE  WaitInv'
  <2>1. UNCHANGED <<waiting_for_this_lock, arg, locks>>
    BY <1>8 DEF InsertDonation, Propagate, Restore, SetInitialPriority, ChangePriority, Sleep, TimerWake
  <2>2. PICK place : /\ pc' = [pc EXCEPT ![t] = place]
                     /\ \/ pc[t] \in {"run", "asleep", "restore", "setprio"}
                           /\ place \in {"run", "asleep", "setprio", "clear"}
                        \/ pc[t] = "donate" /\ place \in {"propagate", "fault"}
                        \/ pc[t] = "propagate" /\ place \in {"down", "fault"}
    <3>1. CASE InsertDonation(t)
      BY <3>1 DEF InsertDonation, Fault
    <3>2. CASE Propagate(t)
      BY <3>2 DEF Propagate
    <3>3. CASE Restore(t) \/ SetInitialPriority(t) \/ ChangePriority(t) \/ Sleep(t) \/ TimerWake(t)
      BY <3>3 DEF Restore, SetInitialPriority, ChangePriority, Sleep, TimerWake
    <3> QED BY <1>8, <3>1, <3>2, <3>3
  <2> QED BY <1>1, <2>1, <2>2
<1>9. CASE \/ IdleBlock \/ TimerPreempt \/ HandlerSemaUp \/ UNCHANGED vars
           \/ \E t \in Thread : SemaTryDown(t) \/ CallSemaUp(t)
  BY <1>2, <1>9 DEF IdleBlock, TimerPreempt, HandlerSemaUp, vars, SemaTryDown, CallSemaUp
<1> QED BY <1>3, <1>4, <1>5, <1>6, <1>7, <1>8, <1>9 DEF Next, Step, LockStep, SemaStep

Uncut == InterruptibleAt \subseteq {"run"}

Quiet == {"run", "asleep", "down", "fault"}

\* Where a thread is that does not run: in its own code, or where it waits.
QuietInv == \A t \in Thread \ {sched.current} : pc[t] \in Quiet

\* The donation lists: a donor is in the list of the holder of the lock it waits for, also while
\* its call, or the holder's, is going on.
ListInv ==
  /\ ~corrupt
  /\ \A h \in Thread : \A t \in donation_list[h] :
        waiting_for_this_lock[t] \in Lock /\ holder[waiting_for_this_lock[t]] = h
  /\ pc[sched.current] \in {"restore", "clear"} =>
        \A h \in Thread : \A t \in donation_list[h] : waiting_for_this_lock[t] # arg[sched.current]
  /\ pc[sched.current] = "donate" => \A h \in Thread : sched.current \notin donation_list[h]

LEMMA InitDonors == Init => QuietInv /\ ListInv
<1> SUFFICES ASSUME Init PROVE QuietInv /\ ListInv
  OBVIOUS
<1>1. /\ \A t \in Thread : pc[t] \in {"run", "asleep"} /\ donation_list[t] = {}
      /\ ~corrupt /\ sched.current = Main
  BY DEF Init
<1> QED BY <1>1, ThreadAssumption DEF QuietInv, Quiet, ListInv

\* A thread is interrupted in its own code only, the idle thread anywhere.
LEMMA InterruptedIsQuiet ==
  ASSUME Uncut, TypeOK, PlaceInv, QuietInv, Interruptible
  PROVE  \A t \in Thread : pc[t] \in Quiet
BY DEF Uncut, Interruptible, QuietInv, Quiet, PlaceInv

\* Who runs after the steps that do not give up the CPU.
LEMMA RunningKept ==
  ASSUME ElemInv, NEW t \in Thread, At(t, pc[t]), Propagate(t) \/ Restore(t)
  PROVE  \/ sched'.current = t
         \/ pc'[t] = "fault"
<1>0. TypeOK /\ Sound(sched) /\ LockInv /\ DonationTypes
  BY DEF ElemInv, ElemInOneList, TypeOK, Sound, DonationTypes, DonorTypes, FiniteDonors
<1> DEFINE r == SetPriorityForLockHolder(sched, arg[t])
<1>1. sched.current = t /\ arg[t] \in Lock /\ pc \in [Thread -> PC]
  BY <1>0 DEF Propagate, Restore, At, LockInv, ArgInv, TypeOK
<1>2. r.sched.current = t
  <2>1. sched \in SchedState /\ SchedOK(sched)
    BY <1>0 DEF Sound
  <2> QED BY <1>0, <1>1, <2>1, DonationKeepsSched
<1>3. sched' = r.sched \/ pc' = [pc EXCEPT ![t] = "fault"]
  BY DEF Propagate, Restore, Goto
<1> HIDE DEF r
<1> QED BY <1>1, <1>2, <1>3

LEMMA NextQuietInv ==
  ASSUME Uncut, ElemInv, QuietInv, [Next]_vars
  PROVE  QuietInv'
<1> USE DEF semaVars, donationVars, Goto
<1>0. /\ TypeOK /\ PlaceInv /\ pc \in [Thread -> PC] /\ sched.current \in Thread
  BY SchedStateType DEF ElemInv, TypeOK
<1>1. ASSUME NEW t \in Thread, At(t, pc[t]), \A u \in Thread \ {t} : pc'[u] = pc[u],
             sched'.current = sched.current \/ pc'[t] \in Quiet
      PROVE  QuietInv'
  BY <1>1 DEF QuietInv, At
<1>2. ASSUME \A t \in Thread : pc'[t] \in Quiet PROVE QuietInv'
  BY <1>2 DEF QuietInv
<1>3. ASSUME NEW t \in Thread,
             \/ CallSemaDown(t) \/ SemaTryDown(t) \/ Acquire(t) \/ Mark(t) \/ Own(t) \/ TryAcquire(t)
             \/ Release(t) \/ ClearHolder(t) \/ SetInitialPriority(t)
      PROVE  QuietInv'
  <2>1. sched' = sched /\ At(t, pc[t]) /\ \A u \in Thread \ {t} : pc'[u] = pc[u]
    BY <1>0, <1>3 DEF CallSemaDown, SemaTryDown, Acquire, Mark, Own, TryAcquire, Release,
                      ClearHolder, SetInitialPriority, At
  <2> QED BY <1>1, <2>1
<1>4. ASSUME NEW t \in Thread,
             \/ DownSema(t) \/ DownLock(t) \/ CallSemaUp(t) \/ UpLock(t) \/ InsertDonation(t)
             \/ ChangePriority(t) \/ Sleep(t)
      PROVE  QuietInv'
  <2>1. At(t, pc[t]) /\ \A u \in Thread \ {t} : pc'[u] = pc[u]
    BY <1>0, <1>4 DEF DownSema, DownLock, SemaDown, CallSemaUp, UpLock, InsertDonation, Fault,
                      ChangePriority, Sleep, At
  <2>2. sched' = sched \/ pc'[t] \in Quiet
    <3>1. CASE DownSema(t) \/ DownLock(t)
      BY <1>0, <3>1 DEF DownSema, DownLock, SemaDown, At, Quiet
    <3>2. CASE InsertDonation(t)
      BY <1>0, <3>2 DEF InsertDonation, Fault, Quiet
    <3>3. CASE CallSemaUp(t) \/ UpLock(t) \/ ChangePriority(t) \/ Sleep(t)
      BY <1>0, <3>3 DEF CallSemaUp, UpLock, ChangePriority, Sleep, At, Quiet
    <3> QED BY <1>4, <3>1, <3>2, <3>3
  <2> QED BY <1>1, <2>1, <2>2
<1>5. ASSUME NEW t \in Thread, Propagate(t) \/ Restore(t) PROVE QuietInv'
  <2>1. At(t, pc[t]) /\ \A u \in Thread \ {t} : pc'[u] = pc[u]
    BY <1>0, <1>5 DEF Propagate, Restore, At
  <2>2. sched'.current = sched.current \/ pc'[t] \in Quiet
    BY <1>5, <2>1, RunningKept DEF At, Quiet
  <2> QED BY <1>1, <2>1, <2>2
<1>6. CASE TimerPreempt \/ HandlerSemaUp \/ \E u \in Thread : TimerWake(u)
  <2>1. \A t \in Thread : pc[t] \in Quiet
    BY <1>0, <1>6, InterruptedIsQuiet DEF TimerPreempt, HandlerSemaUp, TimerWake
  <2>2. \A t \in Thread : pc'[t] = pc[t] \/ pc'[t] = "run"
    BY <1>0, <1>6 DEF TimerPreempt, HandlerSemaUp, TimerWake
  <2> QED BY <1>2, <2>1, <2>2 DEF Quiet
<1>7. CASE IdleBlock
  <2>1. \A t \in Thread : pc'[t] \in Quiet
    BY <1>0, <1>7 DEF IdleBlock, PlaceInv, QuietInv, Quiet
  <2> QED BY <1>2, <2>1
<1>8. CASE UNCHANGED vars
  BY <1>8 DEF vars, QuietInv
<1> QED BY <1>3, <1>4, <1>5, <1>6, <1>7, <1>8 DEF Next, Step, LockStep, SemaStep

\* Who waits for a lock does not hold it.
LEMMA WaitsForAnother ==
  ASSUME ElemInv, WaitInv, NEW t \in Thread, waiting_for_this_lock[t] # NoLock
  PROVE  /\ waiting_for_this_lock[t] \in Lock /\ waiting_for_this_lock[t] = arg[t]
         /\ holder[waiting_for_this_lock[t]] # t
BY DEF ElemInv, TypeOK, LockInv, HolderIsOwner, WaitInv

\* The steps that change no list of donors, no wait and no holder.
LEMMA ListKept ==
  ASSUME QuietInv, QuietInv', ListInv, UNCHANGED <<holder, donation_list, waiting_for_this_lock, corrupt>>,
         NEW t \in Thread, t = sched.current, sched'.current \in Thread,
         \A u \in Thread \ {t} : pc'[u] \in {pc[u], "run"},
         pc'[t] \notin {"restore", "clear", "donate"}
  PROVE  ListInv'
<1>1. pc'[sched'.current] \notin {"restore", "clear", "donate"}
  BY DEF QuietInv, Quiet
<1> QED BY <1>1 DEF ListInv

LEMMA NextListInv ==
  ASSUME Uncut, ElemInv, ElemInv', WaitInv, QuietInv, QuietInv', ListInv, [Next]_vars
  PROVE  ListInv'
<1> USE DEF semaVars, donationVars, Goto
<1>0. /\ TypeOK /\ PlaceInv /\ LockInv /\ pc \in [Thread -> PC] /\ sched.current \in Thread
      /\ sched'.current \in Thread
      /\ arg \in [Thread -> Semaphore \union {NoLock}]
      /\ holder \in [Lock -> Thread \union {NoThread}]
      /\ donation_list \in [Thread -> SUBSET Thread]
      /\ waiting_for_this_lock \in [Thread -> Lock \union {NoLock}]
      /\ NoLock \notin Lock /\ NoThread \notin Thread
  BY SchedStateType, SynchAssumption DEF ElemInv, TypeOK
<1>1. ASSUME NEW t \in Thread,
             \/ CallSemaDown(t) \/ SemaTryDown(t) \/ Acquire(t) \/ TryAcquire(t) \/ SetInitialPriority(t)
             \/ DownSema(t) \/ DownLock(t) \/ CallSemaUp(t) \/ UpLock(t) \/ Propagate(t)
             \/ ChangePriority(t) \/ Sleep(t)
      PROVE  ListInv'
  <2>1. /\ t = sched.current /\ UNCHANGED <<holder, donation_list, waiting_for_this_lock, corrupt>>
        /\ \A u \in Thread \ {t} : pc'[u] = pc[u]
    BY <1>0, <1>1
       DEF CallSemaDown, SemaTryDown, Acquire, TryAcquire, SetInitialPriority, DownSema, DownLock,
           SemaDown, CallSemaUp, UpLock, Propagate, ChangePriority, Sleep, At
  <2>2. pc'[t] \in {"run", "asleep", "mark", "down", "own", "setprio", "fault"}
    BY <1>0, <1>1
       DEF CallSemaDown, SemaTryDown, Acquire, TryAcquire, SetInitialPriority, DownSema, DownLock,
           SemaDown, CallSemaUp, UpLock, Propagate, ChangePriority, Sleep, At
  <2> QED BY <1>0, <2>1, <2>2, ListKept
<1>2. CASE TimerPreempt \/ HandlerSemaUp \/ \E u \in Thread : TimerWake(u)
  <2>1. \A t \in Thread : pc[t] \in Quiet
    BY <1>0, <1>2, InterruptedIsQuiet DEF TimerPreempt, HandlerSemaUp, TimerWake
  <2>2. /\ \A t \in Thread : pc'[t] \in {pc[t], "run"}
        /\ UNCHANGED <<holder, donation_list, waiting_for_this_lock, corrupt>>
    BY <1>0, <1>2 DEF TimerPreempt, HandlerSemaUp, TimerWake
  <2>3. pc'[sched.current] \notin {"restore", "clear", "donate"}
    BY <1>0, <2>1, <2>2 DEF Quiet
  <2> QED BY <1>0, <2>2, <2>3, ListKept
<1>3. CASE IdleBlock
  BY <1>0, <1>3, ListKept DEF IdleBlock, PlaceInv
<1>4. ASSUME NEW t \in Thread, Mark(t) PROVE ListInv'
  <2>1. /\ t = sched.current /\ sched' = sched /\ pc[t] = "mark" /\ pc'[t] = "donate" /\ ~corrupt'
        /\ \A u \in Thread \ {t} : waiting_for_this_lock'[u] = waiting_for_this_lock[u]
        /\ UNCHANGED <<holder, donation_list>>
    BY <1>0, <1>4 DEF Mark, At, ListInv
  <2>2. \A h \in Thread : t \notin donation_list[h]
    BY <1>0, <2>1 DEF WaitInv, ListInv
  <2> QED BY <1>0, <2>1, <2>2 DEF ListInv
<1>5. ASSUME NEW t \in Thread, InsertDonation(t) PROVE ListInv'
  <2>1. t = sched.current /\ pc[t] = "donate" /\ arg[t] \in Lock /\ waiting_for_this_lock[t] = arg[t]
        /\ \A h \in Thread : t \notin donation_list[h]
    BY <1>0, <1>5 DEF InsertDonation, At, LockInv, ArgInv, WaitInv, ListInv
  <2>2. CASE holder[arg[t]] = NoThread /\ Fault(t) /\ UNCHANGED <<donation_list, corrupt>>
    <3>1. pc'[t] = "fault" /\ \A u \in Thread \ {t} : pc'[u] = pc[u]
      BY <1>0, <2>2 DEF Fault
    <3> QED BY <1>0, <1>5, <2>1, <2>2, <3>1, ListKept DEF InsertDonation
  <2>3. CASE /\ holder[arg[t]] # NoThread /\ corrupt' = \E u \in Thread : t \in donation_list[u]
             /\ donation_list' = [donation_list EXCEPT ![holder[arg[t]]] = @ \union {t}]
             /\ pc' = [pc EXCEPT ![t] = "propagate"] /\ UNCHANGED sched
    <3>1. ~corrupt'
      BY <2>1, <2>3
    <3>2. pc'[t] = "propagate" /\ UNCHANGED <<holder, waiting_for_this_lock>>
      BY <1>0, <1>5, <2>3 DEF InsertDonation
    <3>3. \A h \in Thread, u \in Thread :
             u \in donation_list'[h] => u \in donation_list[h] \/ (u = t /\ h = holder[arg[t]])
      BY <1>0, <2>1, <2>3
    <3>4. \A h \in Thread : donation_list'[h] \subseteq Thread
      BY DEF ElemInv, TypeOK
    <3>5. \A h \in Thread : \A u \in donation_list'[h] :
             waiting_for_this_lock'[u] \in Lock /\ holder'[waiting_for_this_lock'[u]] = h
      BY <2>1, <3>2, <3>3, <3>4 DEF ListInv
    <3> QED BY <2>1, <2>3, <3>1, <3>2, <3>5 DEF ListInv
  <2> QED BY <1>5, <2>2, <2>3 DEF InsertDonation
<1>6. ASSUME NEW t \in Thread, Own(t) PROVE ListInv'
  <2>1. /\ t = sched.current /\ sched' = sched /\ pc[t] = "own" /\ pc'[t] = "run" /\ arg[t] \in Lock
        /\ \A u \in Thread \ {t} : waiting_for_this_lock'[u] = waiting_for_this_lock[u]
        /\ \A l \in Lock \ {arg[t]} : holder'[l] = holder[l]
        /\ donation_list' = donation_list /\ ~corrupt'
    BY <1>0, <1>6 DEF Own, At, LockInv, ArgInv, ListInv
  <2>2. holder[arg[t]] \notin Thread
    <3>1. \A u \in Thread : arg[t] \in locks[u] => u = t
      BY <1>0, <2>1 DEF LockInv, OneUnit, HasUnit
    <3>2. arg[t] \notin locks[t]
      BY <2>1 DEF WaitInv
    <3> QED BY <1>0, <2>1, <3>1, <3>2 DEF LockInv, HolderIsOwner
  <2>3. \A h \in Thread : \A u \in donation_list[h] : waiting_for_this_lock[u] # arg[t] /\ u # t
    <3>1. \A h \in Thread : \A u \in donation_list[h] : waiting_for_this_lock[u] # arg[t]
      BY <2>2 DEF ListInv
    <3>2. waiting_for_this_lock[t] \in {NoLock, arg[t]}
      BY DEF WaitInv
    <3> QED BY <1>0, <3>1, <3>2 DEF ListInv
  <2>4. \A h \in Thread : \A u \in donation_list'[h] :
             waiting_for_this_lock'[u] \in Lock /\ holder'[waiting_for_this_lock'[u]] = h
    BY <1>0, <2>1, <2>3 DEF ListInv
  <2> QED BY <2>1, <2>4 DEF ListInv
<1>7. ASSUME NEW t \in Thread, Release(t) PROVE ListInv'
  <2>1. PICK l \in locks[t] :
          /\ arg' = [arg EXCEPT ![t] = l]
          /\ donation_list' = [donation_list EXCEPT ![t] = {u \in @ : waiting_for_this_lock[u] # l}]
    BY <1>7 DEF Release
  <2>2. /\ t = sched.current /\ sched' = sched /\ pc'[t] = "restore" /\ arg'[t] = l /\ ~corrupt'
        /\ UNCHANGED <<holder, waiting_for_this_lock>> /\ l \in Lock /\ holder[l] = t
    BY <1>0, <1>7, <2>1 DEF Release, At, ListInv, LockInv, LockTypes, HolderIsOwner
  <2>3. \A h \in Thread : \A u \in donation_list'[h] :
           u \in donation_list[h] /\ (h = t => waiting_for_this_lock[u] # l)
    BY <1>0, <2>1
  <2> QED BY <2>2, <2>3 DEF ListInv
<1>8. ASSUME NEW t \in Thread, Restore(t) PROVE ListInv'
  <2>1. /\ t = sched.current /\ pc[t] = "restore" /\ pc'[t] = "clear" /\ ~corrupt'
        /\ UNCHANGED <<holder, waiting_for_this_lock, donation_list, arg>>
    BY <1>0, <1>8 DEF Restore, At, ListInv
  <2>2. sched'.current = t
    BY <1>8, <2>1, RunningKept DEF Restore, At
  <2> QED BY <2>1, <2>2 DEF ListInv
<1>9. ASSUME NEW t \in Thread, ClearHolder(t) PROVE ListInv'
  <2>1. /\ t = sched.current /\ sched' = sched /\ pc[t] = "clear" /\ pc'[t] = "up" /\ arg[t] \in Lock
        /\ \A l \in Lock \ {arg[t]} : holder'[l] = holder[l]
        /\ UNCHANGED <<waiting_for_this_lock, donation_list>> /\ ~corrupt'
    BY <1>0, <1>9 DEF ClearHolder, At, LockInv, ArgInv, ListInv
  <2> QED BY <2>1 DEF ListInv
<1>10. CASE UNCHANGED vars
  BY <1>10 DEF vars, ListInv
<1> QED BY <1>1, <1>2, <1>3, <1>4, <1>5, <1>6, <1>7, <1>8, <1>9, <1>10
        DEF Next, Step, LockStep, SemaStep

--------------------------------------------------------------------------------
(* The donated priorities.                                                 *)

Exact(s, t) == ExactFor(s, t, donation_list[t])

\* Every thread has its own priority or that of its highest donor, except the holder between
\* the insertion of a donor and set_priority_for_lock_holder, and the running thread between
\* a change of its donors or of initial_priority and the call that follows.
ExactInv ==
  \A t \in Thread :
     \/ Exact(sched, t)
     \/ t = sched.current /\ pc[t] \in {"restore", "setprio"}
     \/ /\ pc[sched.current] = "propagate" /\ t = holder[arg[sched.current]]
        /\ sched.current \in donation_list[t]
        /\ ExactFor(sched, t, donation_list[t] \ {sched.current})

\* A refresh makes one priority exact, and disturbs only those the thread donates to.
LEMMA RefreshExact ==
  ASSUME DonorTypes, NEW s \in SchedState, SchedOK(s), NEW h \in Thread, h \notin donation_list[h]
  PROVE  LET r == RefreshPriority(s, h) IN
         /\ Exact(r, h) /\ r.priority[h] = Effective(s, h)
         /\ \A u \in Thread \ {h} : r.priority[u] = s.priority[u]
         /\ \A u \in Thread : h \notin donation_list[u] /\ Exact(s, u) => Exact(r, u)
<1> DEFINE r == RefreshPriority(s, h)
           e == Effective(s, h)
<1>1. r \in SchedState /\ r.priority = [s.priority EXCEPT ![h] = e] /\ s.priority \in [Thread -> Int]
  BY RefreshProperties, SchedStateType
<1>2. /\ e \in Int /\ initial_priority[h] <= e /\ \A u \in donation_list[h] : s.priority[u] <= e
      /\ e = initial_priority[h] \/ \E u \in donation_list[h] : s.priority[u] = e
  BY EffectiveProperties
<1> HIDE DEF r, e
<1>3. r.priority[h] = e /\ \A u \in Thread \ {h} : r.priority[u] = s.priority[u]
  BY <1>1
<1>4. \A u \in Thread : donation_list[u] \subseteq Thread
  BY DEF DonorTypes
<1>5. Exact(r, h)
  BY <1>2, <1>3, <1>4 DEF Exact, ExactFor
<1>6. ASSUME NEW u \in Thread, h \notin donation_list[u], Exact(s, u) PROVE Exact(r, u)
  <2>1. CASE u = h
    BY <1>5, <2>1
  <2>2. CASE u # h
    <3>1. r.priority[u] = s.priority[u] /\ \A v \in donation_list[u] : r.priority[v] = s.priority[v]
      BY <1>3, <1>4, <1>6, <2>2
    <3> QED BY <1>6, <3>1 DEF Exact, ExactFor
  <2> QED BY <2>1, <2>2
<1> QED BY <1>3, <1>5, <1>6 DEF r, e

\* The holder h still lacks the priority p of a donor; nothing else is wrong.
Lacks(s, h, p) ==
  /\ initial_priority[h] <= s.priority[h] /\ s.priority[h] < p
  /\ \E u \in donation_list[h] : s.priority[u] = p
  /\ \A u \in donation_list[h] : s.priority[u] <= s.priority[h] \/ s.priority[u] = p

HighEnough(s, p) == {u \in Thread : s.priority[u] >= p}

\* What set_priority_for_lock_holder has reached at level n, on its way to pass on p: what is
\* not exact is the holder of the lock it goes on with, and n + 1 threads have p already.
Passing(r, p, n) ==
  /\ r \in Level /\ Sound(r.sched)
  /\ r.lock # NoLock => Cardinality(HighEnough(r.sched, p)) >= n + 1
  /\ \A t \in Thread : \/ Exact(r.sched, t)
                       \/ r.lock # NoLock /\ t = holder[r.lock] /\ Lacks(r.sched, t, p)

\* The donors as ListInv and WaitInv have them.
Donors ==
  /\ DonationTypes
  /\ \A h \in Thread : \A t \in donation_list[h] :
        waiting_for_this_lock[t] \in Lock /\ holder[waiting_for_this_lock[t]] = h
  /\ \A t \in Thread : waiting_for_this_lock[t] # NoLock => holder[waiting_for_this_lock[t]] # t

LEMMA PassOn ==
  ASSUME Donors, IsFiniteSet(Thread), NEW p \in Int, NEW n \in Nat, NEW r, Passing(r, p, n)
  PROVE  /\ Passing(Donate(r), p, n + 1)
         /\ ReadySorted(r.sched) => ReadySorted(Donate(r).sched)
<1>0. DonationTypes /\ DonorTypes /\ r \in Level /\ Sound(r.sched) /\ SchedOK(r.sched)
  BY DEF Donors, DonationTypes, Passing, Sound
<1>1. CASE r.lock = NoLock
  BY <1>0, <1>1, DonateCases DEF Passing
<1>2. CASE r.lock # NoLock /\ holder[r.lock] = NoThread
  <2>1. Donate(r) \in Level /\ Donate(r).sched = r.sched /\ Donate(r).lock = NoLock
    BY <1>0, <1>2, DonateCases
  <2> QED BY <1>0, <1>2, <2>1, SynchAssumption DEF Passing
<1>3. CASE r.lock # NoLock /\ holder[r.lock] # NoThread
  <2> DEFINE h == holder[r.lock]
             d == Donate(r)
             e == Effective(r.sched, h)
  <2>1. /\ d \in Level /\ h \in Thread /\ r.lock \in Lock
        /\ d.sched = RefreshPriority(r.sched, h)
        /\ d.lock = IF donation_list[h] # {} /\ e # r.sched.priority[h]
                    THEN waiting_for_this_lock[h] ELSE NoLock
    BY <1>0, <1>3, DonateCases
  <2> HIDE DEF h, d, e
  <2>2. h \notin donation_list[h]
    BY <2>1, SynchAssumption DEF Donors
  <2>3. /\ r.sched \in SchedState /\ d.sched \in SchedState
        /\ r.sched.priority \in [Thread -> Int] /\ d.sched.priority \in [Thread -> Int]
        /\ \A u \in Thread : donation_list[u] \subseteq Thread
        /\ initial_priority \in [Thread -> Int]
    BY <1>0, <2>1, SchedStateType DEF Level, DonorTypes
  <2>4. /\ Exact(d.sched, h) /\ d.sched.priority[h] = e
        /\ \A u \in Thread \ {h} : d.sched.priority[u] = r.sched.priority[u]
        /\ \A u \in Thread : h \notin donation_list[u] /\ Exact(r.sched, u) => Exact(d.sched, u)
    BY <1>0, <2>1, <2>2, <2>3, RefreshExact DEF e
  <2>5. /\ Sound(d.sched)
        /\ ReadySorted(r.sched) /\ (e = r.sched.priority[h] \/ e > initial_priority[h])
           => ReadySorted(d.sched)
    <3>1. r.sched \in SchedState /\ SchedOK(r.sched) /\ DonorTypes
      BY <1>0, <2>3
    <3> QED BY <2>1, <2>3, <3>1, RefreshProperties DEF Sound, e
  <2>6. CASE Exact(r.sched, h)
    <3>1. e = r.sched.priority[h] /\ d.lock = NoLock
      BY <1>0, <2>1, <2>3, <2>6, EffectiveProperties DEF Exact, e
    <3>2. \A u \in Thread : d.sched.priority[u] = r.sched.priority[u]
      BY <2>4, <3>1
    <3>3. \A u \in Thread : Exact(r.sched, u)
      BY <2>3, <2>6 DEF Passing, h
    <3>4. \A u \in Thread : Exact(d.sched, u)
      BY <2>3, <3>2, <3>3 DEF Exact, ExactFor
    <3> QED BY <2>1, <2>5, <3>1, <3>4 DEF Passing, d
  <2>7. CASE Lacks(r.sched, h, p)
    <3>1. e = p /\ p > initial_priority[h] /\ p > r.sched.priority[h] /\ donation_list[h] # {}
      <4>1. /\ e \in Int /\ initial_priority[h] <= e /\ \A u \in donation_list[h] : r.sched.priority[u] <= e
            /\ e = initial_priority[h] \/ \E u \in donation_list[h] : r.sched.priority[u] = e
        BY <1>0, <2>1, <2>3, EffectiveProperties DEF e
      <4>2. PICK v \in donation_list[h] : r.sched.priority[v] = p
        BY <2>7 DEF Lacks
      <4>3. /\ initial_priority[h] <= r.sched.priority[h] /\ r.sched.priority[h] < p
            /\ \A u \in donation_list[h] :
                  r.sched.priority[u] <= r.sched.priority[h] \/ r.sched.priority[u] = p
            /\ initial_priority[h] \in Int /\ r.sched.priority[h] \in Int
        BY <2>1, <2>3, <2>7 DEF Lacks
      <4>4. p <= e
        BY <4>1, <4>2
      <4>5. e = p
        BY <4>1, <4>3, <4>4
      <4> QED BY <4>2, <4>3, <4>5
    <3>2. d.lock = waiting_for_this_lock[h]
      BY <2>1, <2>3, <3>1
    <3>3. Cardinality(HighEnough(d.sched, p)) >= n + 1 + 1
      <4> DEFINE H == HighEnough(r.sched, p)
      <4>1. H \subseteq Thread /\ h \notin H /\ HighEnough(d.sched, p) = H \union {h}
        BY <2>1, <2>3, <2>4, <3>1 DEF HighEnough
      <4>2. IsFiniteSet(H) /\ Cardinality(H) \in Nat /\ Cardinality(H) >= n + 1
        BY <1>3, <4>1, FS_Subset, FS_CardinalityType DEF Passing
      <4>3. Cardinality(H \union {h}) = Cardinality(H) + 1
        BY <4>1, <4>2, FS_AddElement
      <4> QED BY <4>1, <4>2, <4>3
    <3>4. ASSUME NEW u \in Thread, ~Exact(d.sched, u)
          PROVE  d.lock # NoLock /\ u = holder[d.lock] /\ Lacks(d.sched, u, p)
      <4>1. u # h /\ Exact(r.sched, u) /\ h \in donation_list[u]
        BY <2>4, <3>4 DEF Passing, h
      <4>2. d.lock # NoLock /\ u = holder[d.lock]
        BY <2>1, <3>2, <4>1, SynchAssumption DEF Donors
      <4>3. /\ d.sched.priority[h] = p /\ d.sched.priority[u] = r.sched.priority[u]
            /\ \A v \in donation_list[u] : v # h => d.sched.priority[v] = r.sched.priority[v]
        BY <2>3, <2>4, <3>1, <4>1
      <4>4. /\ initial_priority[u] <= r.sched.priority[u]
            /\ \A v \in donation_list[u] : r.sched.priority[v] <= r.sched.priority[u]
            /\ \/ r.sched.priority[u] = initial_priority[u]
               \/ \E v \in donation_list[u] : r.sched.priority[v] = r.sched.priority[u]
        BY <4>1 DEF Exact, ExactFor
      <4>5. d.sched.priority[u] < p
        <5> SUFFICES ASSUME ~(d.sched.priority[u] < p) PROVE Exact(d.sched, u)
          BY <3>4
        <5>1. \A v \in donation_list[u] : d.sched.priority[v] <= d.sched.priority[u]
          BY <2>3, <4>3, <4>4
        <5>2. r.sched.priority[h] # r.sched.priority[u]
          BY <2>1, <2>3, <3>1, <4>3
        <5>3. \/ d.sched.priority[u] = initial_priority[u]
              \/ \E v \in donation_list[u] : d.sched.priority[v] = d.sched.priority[u]
          BY <4>3, <4>4, <5>2
        <5> QED BY <4>3, <4>4, <5>1, <5>3 DEF Exact, ExactFor
      <4>6. Lacks(d.sched, u, p)
        BY <4>1, <4>3, <4>4, <4>5 DEF Lacks
      <4> QED BY <4>2, <4>6
    <3> QED BY <2>1, <2>5, <3>1, <3>3, <3>4 DEF Passing, d
  <2> QED BY <2>1, <2>6, <2>7 DEF Passing, h
<1> QED BY <1>1, <1>2, <1>3

\* With no more threads than levels and one, the last level has nobody left to pass it on to.
LEMMA PassedOn ==
  ASSUME Donors, IsFiniteSet(Thread), Cardinality(Thread) <= DonationDepth + 1,
         NEW p \in Int, NEW s, NEW lock \in Lock, Passing(FirstLevel(s, lock), p, 0)
  PROVE  LET r == SetPriorityForLockHolder(s, lock) IN
         /\ \A t \in Thread : Exact(r.sched, t)
         /\ ReadySorted(s) => ReadySorted(r.sched)
<1> DEFINE r == SetPriorityForLockHolder(s, lock)
           S == [n \in 0 .. DonationDepth |->
                   {q \in Level : Passing(q, p, n) /\ (ReadySorted(s) => ReadySorted(q.sched))}]
<1>0. DonationDepth \in Nat
  BY SynchAssumption
<1>1. FirstLevel(s, lock) \in S[0]
  <2>1. FirstLevel(s, lock).sched = s /\ FirstLevel(s, lock) \in Level
    BY DEF FirstLevel, Passing
  <2> QED BY <1>0, <2>1
<1>2. \A n \in 0 .. DonationDepth - 1 : \A q \in S[n] : Donate(q) \in S[n + 1]
  <2> TAKE n \in 0 .. DonationDepth - 1
  <2> TAKE q \in S[n]
  <2>1. /\ Passing(q, p, n) /\ (ReadySorted(s) => ReadySorted(q.sched))
        /\ n \in Nat /\ n + 1 \in 0 .. DonationDepth
    BY <1>0
  <2>2. Passing(Donate(q), p, n + 1) /\ (ReadySorted(q.sched) => ReadySorted(Donate(q).sched))
    BY <2>1, PassOn
  <2>3. Donate(q) \in Level
    BY <2>2 DEF Passing
  <2> QED BY <2>1, <2>2, <2>3
<1>3. r \in S[DonationDepth]
  <2> HIDE DEF S
  <2> QED BY <1>1, <1>2, LevelsInduction
<1> HIDE DEF r
<1>4. Passing(r, p, DonationDepth) /\ (ReadySorted(s) => ReadySorted(r.sched))
  BY <1>0, <1>3
<1>5. ASSUME NEW t \in Thread, ~Exact(r.sched, t) PROVE FALSE
  <2> DEFINE H == HighEnough(r.sched, p)
  <2>1. Lacks(r.sched, t, p) /\ Cardinality(H) >= DonationDepth + 1 /\ r.sched.priority[t] \in Int
    BY <1>4, <1>5, SchedStateType DEF Passing, Sound
  <2>2. H \subseteq Thread /\ t \notin H
    BY <2>1 DEF HighEnough, Lacks
  <2> HIDE DEF H
  <2>3. /\ Cardinality(H) <= Cardinality(Thread) /\ Cardinality(H) \in Nat /\ Cardinality(Thread) \in Nat
        /\ (Cardinality(H) = Cardinality(Thread) => H = Thread)
    BY <2>2, FS_Subset, FS_CardinalityType
  <2> QED BY <1>0, <2>1, <2>2, <2>3
<1> QED BY <1>4, <1>5 DEF r

LEMMA DonorsHold == ElemInv /\ WaitInv /\ ListInv => Donors
<1> SUFFICES ASSUME ElemInv, WaitInv, ListInv PROVE Donors
  OBVIOUS
<1>1. DonationTypes
  BY DEF ElemInv, TypeOK, DonationTypes, DonorTypes, FiniteDonors
<1> QED BY <1>1, WaitsForAnother DEF Donors, ListInv

LEMMA InitExact == Init => ExactInv /\ ReadyQueueSorted
<1> SUFFICES ASSUME Init PROVE ExactInv /\ ReadyQueueSorted
  OBVIOUS
<1>1. /\ sched.priority = InitialPriority /\ initial_priority = InitialPriority
      /\ \A t \in Thread : donation_list[t] = {}
      /\ sched.ready_list = << >>
  BY DEF Init
<1>2. ExactInv
  BY <1>1, SynchAssumption DEF ExactInv, Exact, ExactFor
<1>3. ReadyQueueSorted
  BY <1>1 DEF ReadyQueueSorted, ReadySorted, SortedBy
<1> QED BY <1>2, <1>3

\* The steps that change no priority and no donor.
LEMMA ExactKept ==
  ASSUME ExactInv, ReadyQueueSorted, pc[sched.current] \notin {"restore", "setprio", "propagate"},
         sched'.priority = sched.priority, ReadySorted(sched) => ReadySorted(sched'),
         UNCHANGED <<donation_list, initial_priority>>
  PROVE  ExactInv' /\ ReadyQueueSorted'
<1>1. \A t \in Thread : Exact(sched, t)
  BY DEF ExactInv
<1>2. \A t \in Thread : Exact(sched, t)'
  BY <1>1 DEF Exact, ExactFor
<1> QED BY <1>2 DEF ExactInv, ReadyQueueSorted

LEMMA ExactPlainSteps ==
  ASSUME Uncut, ElemInv, QuietInv, ExactInv, ReadyQueueSorted,
         \/ \E t \in Thread : \/ CallSemaDown(t) \/ DownSema(t) \/ SemaTryDown(t) \/ CallSemaUp(t)
                              \/ Acquire(t) \/ Mark(t) \/ DownLock(t) \/ Own(t) \/ TryAcquire(t)
                              \/ ClearHolder(t) \/ UpLock(t) \/ Sleep(t) \/ TimerWake(t)
                              \/ (InsertDonation(t) /\ Fault(t) /\ donation_list' = donation_list)
         \/ IdleBlock \/ TimerPreempt \/ HandlerSemaUp
  PROVE  ExactInv' /\ ReadyQueueSorted'
<1> USE DEF semaVars, donationVars, Goto
<1>0. /\ TypeOK /\ PlaceInv /\ ElemInOneList /\ LockInv /\ Sound(sched) /\ pc \in [Thread -> PC]
      /\ sched.current \in Thread /\ \A s \in Lock \union Sema : s \in Semaphore
  BY SchedStateType DEF ElemInv, TypeOK, ElemInOneList, Sound, Semaphore
<1>1. pc[sched.current] \notin {"restore", "setprio", "propagate"}
  <2>1. CASE IdleBlock \/ TimerPreempt \/ HandlerSemaUp \/ \E t \in Thread : TimerWake(t)
    <3>1. CASE IdleBlock
      BY <1>0, <3>1 DEF IdleBlock, PlaceInv
    <3>2. CASE Interruptible
      BY <1>0, <3>2, InterruptedIsQuiet DEF Quiet
    <3> QED BY <2>1, <3>1, <3>2 DEF TimerPreempt, HandlerSemaUp, TimerWake
  <2>2. ASSUME NEW t \in Thread,
               \/ CallSemaDown(t) \/ DownSema(t) \/ SemaTryDown(t) \/ CallSemaUp(t)
               \/ Acquire(t) \/ Mark(t) \/ DownLock(t) \/ Own(t) \/ TryAcquire(t)
               \/ ClearHolder(t) \/ UpLock(t) \/ Sleep(t) \/ InsertDonation(t)
        PROVE  pc[sched.current] \notin {"restore", "setprio", "propagate"}
    BY <2>2 DEF CallSemaDown, DownSema, SemaTryDown, CallSemaUp, Acquire, Mark, DownLock, Own,
                TryAcquire, ClearHolder, UpLock, Sleep, InsertDonation, At
  <2> QED BY <2>1, <2>2
<1>2. UNCHANGED <<donation_list, initial_priority>>
  BY DEF CallSemaDown, DownSema, SemaTryDown, CallSemaUp, Acquire, Mark, DownLock, Own,
         TryAcquire, ClearHolder, UpLock, Sleep, InsertDonation, TimerWake, IdleBlock, TimerPreempt,
         HandlerSemaUp
<1>3. sched'.priority = sched.priority /\ (ReadySorted(sched) => ReadySorted(sched'))
  <2>1. CASE sched' = sched
    BY <2>1
  <2>2. CASE sched' = Block(sched)
    BY <1>0, <2>2, BlockIs
  <2>3. CASE sched' = Yield(sched)
    BY <1>0, <2>3, YieldIs
  <2>4. ASSUME NEW s \in Semaphore, SemaUp(s)
        PROVE  sched'.priority = sched.priority /\ (ReadySorted(sched) => ReadySorted(sched'))
    <3>1. \E gone \in SUBSET ListElems(waiters[s]) :
            LET r == YieldToMax(Woken(s)) IN
            r.priority = sched.priority /\ (ReadySorted(sched) => ReadySorted(r))
      BY <1>0, SemaUpIs
    <3> QED BY <2>4, <3>1 DEF SemaUp
  <2>5. ASSUME NEW t \in Thread, TimerWake(t)
        PROVE  sched'.priority = sched.priority /\ (ReadySorted(sched) => ReadySorted(sched'))
    <3>1. t \in BlockedIn(sched)
      BY <1>0, <2>5 DEF TimerWake, PlaceInv
    <3> QED BY <1>0, <2>5, <3>1, UnblockIs DEF TimerWake
  <2>6. CASE IdleBlock \/ TimerPreempt
    BY <2>2, <2>3, <2>6 DEF IdleBlock, TimerPreempt
  <2>7. CASE HandlerSemaUp \/ \E t \in Thread : CallSemaUp(t) \/ UpLock(t)
    <3>1. CASE \E t \in Thread : UpLock(t)
      BY <1>0, <2>4, <3>1 DEF UpLock, At, LockInv, ArgInv
    <3> QED BY <1>0, <2>4, <2>7, <3>1 DEF HandlerSemaUp, CallSemaUp
  <2>8. ASSUME NEW t \in Thread, DownSema(t) \/ DownLock(t) \/ Sleep(t) \/ Fault(t)
        PROVE  sched' = sched \/ sched' = Block(sched)
    BY <2>8 DEF DownSema, DownLock, SemaDown, Sleep, Fault
  <2>9. ASSUME NEW t \in Thread,
               \/ CallSemaDown(t) \/ SemaTryDown(t) \/ Acquire(t) \/ Mark(t) \/ Own(t)
               \/ TryAcquire(t) \/ ClearHolder(t)
        PROVE  sched' = sched
    BY <2>9 DEF CallSemaDown, SemaTryDown, Acquire, Mark, Own, TryAcquire, ClearHolder
  <2> QED BY <2>1, <2>2, <2>5, <2>6, <2>7, <2>8, <2>9
<1> QED BY <1>1, <1>2, <1>3, ExactKept

\* The steps that change the donors or the initial priority of one thread.
LEMMA ExactDonorSteps ==
  ASSUME ElemInv, ElemInv', WaitInv, ListInv, ExactInv, ReadyQueueSorted, NEW t \in Thread,
         \/ Release(t) \/ SetInitialPriority(t)
         \/ (InsertDonation(t) /\ holder[arg[t]] # NoThread /\ ~Fault(t))
  PROVE  ExactInv' /\ ReadyQueueSorted'
<1> USE DEF semaVars, donationVars, Goto
<1>0. /\ pc \in [Thread -> PC] /\ donation_list \in [Thread -> SUBSET Thread]
      /\ initial_priority \in [Thread -> Int] /\ LockInv
      /\ holder \in [Lock -> Thread \union {NoThread}]
  BY DEF ElemInv, TypeOK
<1>1. \A u \in Thread : Exact(sched, u)
  BY DEF ExactInv, Release, SetInitialPriority, InsertDonation, At
<1>2. CASE Release(t) \/ SetInitialPriority(t)
  <2>1. /\ sched' = sched /\ t = sched.current /\ pc'[t] \in {"restore", "setprio"}
        /\ \A u \in Thread \ {t} : /\ donation_list'[u] = donation_list[u]
                                   /\ initial_priority'[u] = initial_priority[u]
    BY <1>0, <1>2 DEF Release, SetInitialPriority, At
  <2>2. \A u \in Thread \ {t} : Exact(sched, u)'
    BY <1>1, <2>1 DEF Exact, ExactFor
  <2> QED BY <2>1, <2>2 DEF ExactInv, ReadyQueueSorted
<1>3. CASE InsertDonation(t) /\ holder[arg[t]] # NoThread /\ ~Fault(t)
  <2>0. PICK h \in Thread : h = holder[arg[t]]
    BY <1>0, <1>3 DEF InsertDonation, At, LockInv, ArgInv
  <2>1. /\ sched' = sched /\ t = sched.current /\ pc[t] = "donate" /\ pc'[t] = "propagate"
        /\ donation_list' = [donation_list EXCEPT ![h] = @ \union {t}]
        /\ UNCHANGED <<initial_priority, holder, arg>>
    BY <1>0, <1>3, <2>0 DEF InsertDonation, At
  <2>2. t \notin donation_list[h]
    BY <2>1 DEF ListInv
  <2>3. /\ \A u \in Thread \ {h} : donation_list'[u] = donation_list[u]
        /\ donation_list'[h] = donation_list[h] \union {t}
        /\ donation_list'[h] \ {t} = donation_list[h]
    BY <1>0, <2>1, <2>2
  <2>4. \A u \in Thread \ {h} : Exact(sched, u)'
    BY <1>1, <2>1, <2>3 DEF Exact, ExactFor
  <2>5. ExactFor(sched, h, donation_list[h])
    BY <1>1, <2>2 DEF Exact
  <2>6. ExactFor(sched, h, donation_list[h] \ {t})'
    BY <2>1, <2>3, <2>5 DEF ExactFor
  <2>7. ExactInv'
    BY <2>0, <2>1, <2>3, <2>4, <2>6 DEF ExactInv
  <2> QED BY <2>1, <2>7 DEF ReadyQueueSorted
<1> QED BY <1>2, <1>3

\* set_priority_for_lock_holder in lock_acquire: the new donor's priority reaches every
\* holder in the chain that starts at its lock.
LEMMA ExactPropagate ==
  ASSUME ElemInv, WaitInv, ListInv, ExactInv, ReadyQueueSorted, NEW t \in Thread, Propagate(t),
         IsFiniteSet(Thread), Cardinality(Thread) <= DonationDepth + 1
  PROVE  ExactInv' /\ ReadyQueueSorted'
<1> DEFINE p == sched.priority[t]
           lock == arg[t]
           r == SetPriorityForLockHolder(sched, lock)
<1>0. /\ Donors /\ Sound(sched) /\ sched.priority \in [Thread -> Int] /\ sched \in SchedState
      /\ initial_priority \in [Thread -> Int] /\ DonationTypes
      /\ \A u \in Thread : donation_list[u] \subseteq Thread
  BY DonorsHold, SchedStateType
     DEF ElemInv, TypeOK, ElemInOneList, Sound, Donors
<1>1. /\ t = sched.current /\ pc[t] = "propagate" /\ lock \in Lock /\ p \in Int
      /\ UNCHANGED <<donation_list, initial_priority>>
  BY <1>0 DEF Propagate, At, ElemInv, LockInv, ArgInv, donationVars
<1>2. Passing(FirstLevel(sched, lock), p, 0)
  <2> DEFINE f == FirstLevel(sched, lock)
             H == HighEnough(sched, p)
  <2>1. f.sched = sched /\ f.lock = lock /\ f \in Level
    BY <1>0, <1>1 DEF FirstLevel, Level
  <2>2. Cardinality(H) >= 0 + 1
    <3>1. t \in H /\ H \subseteq Thread
      BY <1>0, <1>1 DEF HighEnough
    <3> HIDE DEF H
    <3>2. IsFiniteSet(H)
      BY <3>1, FS_Subset
    <3>3. Cardinality(H) \in Nat /\ Cardinality(H) # 0
      BY <3>1, <3>2, FS_CardinalityType, FS_EmptySet
    <3> QED BY <3>3
  <2>3. ASSUME NEW u \in Thread, ~Exact(sched, u)
        PROVE  u = holder[lock] /\ Lacks(sched, u, p)
    <3>1. u = holder[lock] /\ t \in donation_list[u] /\ ExactFor(sched, u, donation_list[u] \ {t})
      BY <1>1, <2>3 DEF ExactInv
    <3>2. ~(p <= sched.priority[u])
      BY <1>0, <2>3, <3>1 DEF Exact, ExactFor
    <3>3. sched.priority[u] \in Int /\ sched.priority[u] < p /\ p = sched.priority[t]
      BY <1>0, <1>1, <3>2
    <3>4. /\ initial_priority[u] <= sched.priority[u]
          /\ \A v \in donation_list[u] \ {t} : sched.priority[v] <= sched.priority[u]
      BY <3>1 DEF ExactFor
    <3> HIDE DEF p
    <3>5. \A v \in donation_list[u] : sched.priority[v] <= sched.priority[u] \/ sched.priority[v] = p
      BY <3>3, <3>4
    <3> QED BY <3>1, <3>3, <3>4, <3>5 DEF Lacks
  <2> HIDE DEF f
  <2> QED BY <1>0, <1>1, <2>1, <2>2, <2>3, SynchAssumption DEF Passing, f
<1>3. (\A u \in Thread : Exact(r.sched, u)) /\ ReadySorted(r.sched)
  BY <1>0, <1>1, <1>2, PassedOn DEF ReadyQueueSorted
<1>4. Sound(r.sched)
  BY <1>0, <1>1, DonationKeepsSched DEF Sound, Level
<1>5. sched' = r.sched \/ sched' = Block(r.sched)
  BY DEF Propagate
<1> HIDE DEF r
<1>6. sched'.priority = r.sched.priority /\ ReadySorted(sched')
  BY <1>3, <1>4, <1>5, BlockIs
<1>7. \A u \in Thread : Exact(sched, u)'
  BY <1>1, <1>3, <1>6 DEF Exact, ExactFor
<1> QED BY <1>6, <1>7 DEF ExactInv, ReadyQueueSorted

\* The running thread gives its donations back: set_priority_for_lock_holder in
\* lock_release, change_priority in thread_set_priority.
LEMMA ExactRestore ==
  ASSUME ElemInv, WaitInv, ListInv, ExactInv, ReadyQueueSorted, NEW t \in Thread,
         Restore(t) \/ ChangePriority(t)
  PROVE  ExactInv' /\ ReadyQueueSorted'
<1> DEFINE q == RefreshPriority(sched, t)
<1>0. /\ Donors /\ DonationTypes /\ DonorTypes /\ Sound(sched) /\ sched \in SchedState
      /\ SchedOK(sched) /\ ElemInOneList /\ LockInv
  BY DonorsHold DEF ElemInv, TypeOK, ElemInOneList, Sound, Donors, DonationTypes
<1>1. /\ t = sched.current /\ pc[t] \in {"restore", "setprio"}
      /\ UNCHANGED <<donation_list, initial_priority>>
      /\ waiting_for_this_lock[t] = NoLock
  BY DEF Restore, ChangePriority, At, donationVars, WaitInv
<1>2. \A h \in Thread : t \notin donation_list[h]
  BY <1>1, SynchAssumption DEF ListInv
<1>3. \A u \in Thread \ {t} : Exact(sched, u)
  BY <1>1 DEF ExactInv
<1>4. t \notin ListElems(sched.ready_list)
  BY <1>0, <1>1, QueuedAreReady DEF SchedOK, OneRunning
<1>5. /\ Sound(q) /\ (\A u \in Thread : Exact(q, u)) /\ ReadySorted(q)
  <2>1. Exact(q, t) /\ \A u \in Thread : t \notin donation_list[u] /\ Exact(sched, u) => Exact(q, u)
    BY <1>0, <1>2, RefreshExact
  <2>2. Sound(q) /\ ReadySorted(q)
    BY <1>0, <1>4, RefreshProperties DEF Sound, ReadyQueueSorted
  <2> HIDE DEF q
  <2> QED BY <1>2, <1>3, <2>1, <2>2
<1>6. CASE Restore(t)
  <2> DEFINE lock == arg[t]
             f == FirstLevel(sched, lock)
             S == [n \in 0 .. DonationDepth |->
                     IF n = 0 THEN {f} ELSE {x \in Level : x.sched = q /\ x.lock = NoLock}]
             r == SetPriorityForLockHolder(sched, lock)
  <2>1. lock \in Lock /\ holder[lock] = t /\ DonationDepth \in Nat \ {0}
    BY <1>0, <1>6, SynchAssumption DEF Restore, At, LockInv, ArgInv, HolderIsOwner
  <2>2. f \in Level /\ f.sched = sched /\ f.lock = lock
    BY <1>0, <2>1 DEF FirstLevel, Level
  <2>3. t # NoThread /\ lock # NoLock
    BY <2>1, SynchAssumption
  <2> HIDE DEF f, q, lock
  <2>4. Donate(f) \in Level /\ Donate(f).sched = q /\ Donate(f).lock = NoLock
    BY <1>0, <1>1, <2>1, <2>2, <2>3, DonateCases DEF q
  <2>5. \A x \in Level : x.sched = q /\ x.lock = NoLock => Donate(x) = x
    BY <1>0, <1>5, DonateCases DEF Sound
  <2>6. \A n \in 0 .. DonationDepth - 1 : \A x \in S[n] : Donate(x) \in S[n + 1]
    <3> TAKE n \in 0 .. DonationDepth - 1
    <3> TAKE x \in S[n]
    <3>1. n + 1 \in 0 .. DonationDepth /\ n + 1 # 0
      BY <2>1
    <3>2. x \in (IF n = 0 THEN {f} ELSE {y \in Level : y.sched = q /\ y.lock = NoLock})
      BY <2>1
    <3> HIDE DEF S
    <3>3. Donate(x) \in {y \in Level : y.sched = q /\ y.lock = NoLock}
      <4>1. CASE x = f
        BY <2>4, <4>1
      <4>2. CASE x \in Level /\ x.sched = q /\ x.lock = NoLock
        BY <2>5, <4>2
      <4> QED BY <3>2, <4>1, <4>2
    <3> USE DEF S
    <3> QED BY <3>1, <3>3
  <2>7. r \in S[DonationDepth]
    <3>1. FirstLevel(sched, lock) \in S[0]
      BY <2>1 DEF f
    <3> HIDE DEF S
    <3> QED BY <2>6, <3>1, LevelsInduction
  <2>8. r.sched = q
    <3> HIDE DEF r
    <3> QED BY <2>1, <2>7
  <2>9. sched' = q
    BY <1>6, <2>8 DEF Restore, lock
  <2>10. \A u \in Thread : Exact(sched, u)'
    BY <1>1, <1>5, <2>9 DEF Exact, ExactFor
  <2> QED BY <1>5, <2>9, <2>10 DEF ExactInv, ReadyQueueSorted
<1>7. CASE ChangePriority(t)
  <2>1. sched' = YieldToMax(q)
    BY <1>7 DEF ChangePriority
  <2> HIDE DEF q
  <2>2. sched'.priority = q.priority /\ ReadySorted(sched')
    BY <1>5, <2>1, YieldToMaxIs
  <2>3. \A u \in Thread : Exact(sched, u)'
    BY <1>1, <1>5, <2>2 DEF Exact, ExactFor
  <2> QED BY <2>2, <2>3 DEF ExactInv, ReadyQueueSorted
<1> QED BY <1>6, <1>7

\* What holds while the timer interrupts threads in their own code only.
DonationInv == ElemInv /\ WaitInv /\ QuietInv /\ ListInv /\ ExactInv /\ ReadyQueueSorted

LEMMA InitDonationInv == Init => DonationInv
BY InitElemInv, InitWaitInv, InitDonors, InitExact DEF DonationInv

LEMMA NextDonationInv ==
  ASSUME Uncut, IsFiniteSet(Thread), Cardinality(Thread) <= DonationDepth + 1,
         DonationInv, [Next]_vars
  PROVE  DonationInv'
<1> USE DEF DonationInv
<1>1. ElemInv'
  BY NextElemInv
<1>2. WaitInv' /\ QuietInv'
  BY NextWaitInv, NextQuietInv
<1>3. ListInv'
  BY <1>1, <1>2, NextListInv
<1>4. ExactInv' /\ ReadyQueueSorted'
  <2>1. ASSUME NEW t \in Thread, InsertDonation(t) PROVE ExactInv' /\ ReadyQueueSorted'
    <3>1. CASE Fault(t) /\ donation_list' = donation_list
      BY <2>1, <3>1, ExactPlainSteps
    <3>2. CASE holder[arg[t]] # NoThread /\ pc' = [pc EXCEPT ![t] = "propagate"]
      <4>1. ~Fault(t)
        BY <3>2 DEF Fault, Goto, ElemInv, TypeOK
      <4> QED BY <1>1, <2>1, <3>2, <4>1, ExactDonorSteps
    <3> QED BY <2>1, <3>1, <3>2 DEF InsertDonation, Goto
  <2>2. CASE UNCHANGED vars
    BY <2>2 DEF vars, ExactInv, Exact, ExactFor, ReadyQueueSorted
  <2>3. CASE Next
    BY <1>1, <2>1, <2>3, ExactPlainSteps, ExactDonorSteps, ExactPropagate, ExactRestore
       DEF Next, Step, LockStep, SemaStep
  <2> QED BY <2>2, <2>3
<1> QED BY <1>1, <1>2, <1>3, <1>4

LEMMA DonationInvariant ==
  ASSUME Uncut, IsFiniteSet(Thread), Cardinality(Thread) <= DonationDepth + 1
  PROVE  Spec => []DonationInv
<1>1. DonationInv /\ [Next]_vars => DonationInv'
  BY NextDonationInv
<1> QED BY <1>1, InitDonationInv, PTL DEF Spec

\* A donation lasts as long as the wait it is for (lock_acquire, lock_remove): between calls a
\* donor is in the list of the holder of the lock it waits for, and in no other, when threads
\* are interrupted in their own code only.
THEOREM DonorsWait ==
  ASSUME InterruptibleAt \subseteq {"run"},
         IsFiniteSet(Thread), Cardinality(Thread) <= DonationDepth + 1
  PROVE  Spec => []DonorsWaitForHolder
<1>1. DonationInv => DonorsWaitForHolder
  BY DEF DonationInv, ListInv, DonorsWaitForHolder
<1>2. Spec => []DonationInv
  BY DonationInvariant DEF Uncut
<1> QED BY <1>1, <1>2, PTL

\* Nested donation is exact: between calls every thread has its own priority or that of its
\* highest donor, whatever chains of locks the threads wait in, as long as the chains are
\* not longer than DEFAULT_DEPTH (there are at most DEFAULT_DEPTH + 1 threads).
THEOREM DonationExact ==
  ASSUME InterruptibleAt \subseteq {"run"},
         IsFiniteSet(Thread), Cardinality(Thread) <= DonationDepth + 1
  PROVE  Spec => []DonationIsExact
<1>1. DonationInv => DonationIsExact
  <2> SUFFICES ASSUME DonationInv, pc[sched.current] = "run", NEW t \in Thread
               PROVE  sched.priority[t] = Effective(sched, t)
    BY DEF DonationIsExact, Effective
  <2>1. DonorTypes /\ sched \in SchedState
    BY DonorsHold DEF DonationInv, Donors, DonationTypes, ElemInv, TypeOK
  <2>2. ExactFor(sched, t, donation_list[t])
    BY DEF DonationInv, ExactInv, Exact
  <2> QED BY <2>1, <2>2, EffectiveProperties
<1>2. Spec => []DonationInv
  BY DonationInvariant DEF Uncut
<1> QED BY <1>1, <1>2, PTL

\* The run queue stays in priority order although the priorities of queued threads change
\* under it: set_priority_for_lock_holder sorts it whenever a donation raises one, and no
\* queued thread loses a donation.
THEOREM QueueStaysSorted ==
  ASSUME InterruptibleAt \subseteq {"run"},
         IsFiniteSet(Thread), Cardinality(Thread) <= DonationDepth + 1
  PROVE  Spec => []ReadyQueueSorted
<1>1. DonationInv => ReadyQueueSorted
  BY DEF DonationInv
<1>2. Spec => []DonationInv
  BY DonationInvariant DEF Uncut
<1> QED BY <1>1, <1>2, PTL
================================================================================
