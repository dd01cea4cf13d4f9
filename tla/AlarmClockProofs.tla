--------------------------- MODULE AlarmClockProofs ---------------------------
(***************************************************************************)
(* Proofs about AlarmClock, for any set of threads and priorities, any     *)
(* time slice and any sleeps: no thread is lost or in two lists, the run   *)
(* queue and the sleep list stay in order, the CPU goes to the thread of   *)
(* the highest priority, and timer_sleep implements SleepSpec.             *)
(***************************************************************************)
EXTENDS AlarmClock, ThreadsProofs

--------------------------------------------------------------------------------
(* The inductive invariant behind ElemInOneList and BlockedAwaitsOne: a    *)
(* thread blocked by a primitive, or being created, is BLOCKED until the   *)
(* action that unblocks it, and the idle thread only runs and halts.       *)

WaitersBlocked == \A t \in Thread : pc[t] = "wait" => sched.status[t] = "BLOCKED"

NewbornBlocked ==
  \A t \in Thread : pc[t] = "init" =>
     /\ created[t] \in Thread \ {Idle}
     /\ sched.status[created[t]] = "BLOCKED"

IdleInv == Idle \notin Dead(sched) /\ pc[Idle] \in {"run", "halt"}

DeadInv == \A t \in Dead(sched) : pc[t] = "run"

AlarmInv == /\ TypeOK /\ ElemInOneList /\ BlockedAwaitsOne
            /\ WaitersBlocked /\ NewbornBlocked /\ IdleInv /\ DeadInv

\* The state that thread_start leaves satisfies the invariant.
LEMMA InitAlarmInv == Init => AlarmInv
<1> SUFFICES ASSUME Init PROVE AlarmInv
  OBVIOUS
<1>0. /\ ticks = 0 /\ blocked_list = << >> /\ interrupt = FALSE
      /\ wake_tick = [t \in Thread |-> 0] /\ end = [t \in Thread |-> 0]
      /\ created = [t \in Thread |-> NoThread] /\ pc = [t \in Thread |-> "run"]
  BY DEF Init
<1>1. /\ sched.current = Main /\ sched.ready_list = << >> /\ sched.thread_ticks = 0
      /\ sched.status = [t \in Thread |-> CASE t = Main -> "RUNNING" [] t = Idle -> "READY"
                                            [] OTHER -> "FREE"]
      /\ sched.priority = [t \in Thread |-> IF t = Main THEN MainPriority ELSE IdlePriority]
  BY DEF Init
<1>2. sched.status[Idle] = "READY" /\ pc[Idle] = "run"
  BY <1>0, <1>1, ThreadAssumption
<1>3. \A t \in Thread : /\ sched.status[t] = "RUNNING" <=> t = Main
                        /\ sched.status[t] = "READY" <=> t = Idle
                        /\ sched.status[t] # "BLOCKED"
  BY <1>1, ThreadAssumption
<1>4. TypeOK
  <2>1. sched.status \in [Thread -> Status]
    BY <1>1 DEF Status
  <2>2. sched.priority \in [Thread -> Int]
    BY <1>1, AlarmAssumption
  <2>3. << >> \in Seq(Thread)
    OBVIOUS
  <2>4. sched \in SchedState
    BY <1>1, <2>1, <2>2, <2>3, ThreadAssumption DEF SchedState, Init
  <2>5. sched.thread_ticks < TimeSlice /\ ticks \in 0 .. MaxTick
    BY <1>0, <1>1, AlarmAssumption
  <2>6. wake_tick \in [Thread -> Int] /\ end \in [Thread -> Int]
    BY <1>0
  <2>7. blocked_list \in Seq(Thread) /\ interrupt \in BOOLEAN
    BY <1>0, <2>3, Zenon
  <2>8. created \in [Thread -> Thread \union {NoThread}] /\ pc \in [Thread -> PC]
    BY <1>0 DEF PC
  <2> QED BY <2>4, <2>5, <2>6, <2>7, <2>8 DEF TypeOK
<1>5. ListElems(<< >>) = {} /\ NoDuplicates(<< >>)
  BY DEF ListElems, NoDuplicates
<1>6. ElemInOneList
  <2>1. OneRunning(sched)
    BY <1>1, <1>3 DEF OneRunning
  <2>2. QueueMatchesStatus(sched)
    BY <1>1, <1>3, <1>5 DEF QueueMatchesStatus
  <2> QED BY <1>0, <1>5, <2>1, <2>2 DEF ElemInOneList, SchedOK, Sleepers
<1>7. BlockedAwaitsOne
  BY <1>3 DEF BlockedAwaitsOne
<1>8. WaitersBlocked /\ NewbornBlocked
  BY <1>0 DEF WaitersBlocked, NewbornBlocked
<1>9. IdleInv
  BY <1>2 DEF IdleInv, Dead
<1>10. DeadInv
  BY <1>0 DEF DeadInv, Dead
<1> QED BY <1>4, <1>6, <1>7, <1>8, <1>9, <1>10 DEF AlarmInv

\* A step that blocks and unblocks nobody, and leaves the sleepers, the threads that wait
\* and the threads that are being created where they are.
LEMMA KeepPlaces ==
  ASSUME AlarmInv, TypeOK', SchedOK(sched)', blocked_list' = blocked_list,
         \A t \in Thread \ {Idle} :
            /\ sched'.status[t] = "BLOCKED" <=> sched.status[t] = "BLOCKED"
            /\ sched.status[t] = "BLOCKED" => pc'[t] = pc[t],
         \A t \in Thread :
            /\ pc'[t] = "init" <=> pc[t] = "init"
            /\ pc[t] = "init" => created'[t] = created[t]
            /\ pc'[t] = "wait" <=> pc[t] = "wait",
         pc'[Idle] \in {"run", "halt"},
         \A t \in Dead(sched)' : pc'[t] = "run" /\ t # Idle
  PROVE  AlarmInv'
<1> USE DEF AlarmInv, Sleepers, Creating
<1>1. ElemInOneList'
  <2>1. Sleepers \subseteq Thread
    BY ListElemsType DEF TypeOK
  <2> QED BY <2>1 DEF ElemInOneList
<1>2. \A t, u \in Thread : Creating(u, t)' <=> Creating(u, t)
  OBVIOUS
<1>3. BlockedAwaitsOne'
  BY <1>2 DEF BlockedAwaitsOne
<1>4. WaitersBlocked'
  BY DEF WaitersBlocked, IdleInv
<1>5. NewbornBlocked'
  BY DEF NewbornBlocked
<1> QED BY <1>1, <1>3, <1>4, <1>5 DEF IdleInv, DeadInv

\* Between two actions of the running thread: it is not blocked, asleep or being created.
LEMMA RunningThread ==
  ASSUME AlarmInv, NEW t \in Thread, Running(t)
  PROVE  /\ sched.current = t /\ t # Idle /\ ~interrupt
         /\ sched.status[t] = "RUNNING" /\ t \notin Sleepers /\ t \notin Dead(sched)
         /\ \A u \in Thread : ~Creating(u, t)
BY DEF AlarmInv, Running, ElemInOneList, SchedOK, OneRunning, NewbornBlocked, Creating, Dead

\* What the type invariant says of the variables, for the steps below.
LEMMA AlarmTypes ==
  ASSUME AlarmInv
  PROVE  /\ sched \in SchedState /\ sched.thread_ticks < TimeSlice
         /\ sched.current \in Thread /\ sched.status \in [Thread -> Status]
         /\ sched.priority \in [Thread -> Int] /\ sched.thread_ticks \in Nat
         /\ SchedOK(sched)
         /\ Idle \notin Dead(sched) /\ \A t \in Dead(sched) : pc[t] = "run"
         /\ ticks \in 0 .. MaxTick
         /\ blocked_list \in Seq(Thread) /\ NoDuplicates(blocked_list)
         /\ Sleepers \subseteq Thread
         /\ wake_tick \in [Thread -> Int] /\ end \in [Thread -> Int]
         /\ created \in [Thread -> Thread \union {NoThread}]
         /\ pc \in [Thread -> PC] /\ interrupt \in BOOLEAN
         /\ Idle \in Thread /\ pc[Idle] \in {"run", "halt"}
BY ThreadAssumption, SchedStateType, ListElemsType
   DEF AlarmInv, TypeOK, ElemInOneList, IdleInv, DeadInv, Sleepers

\* The steps that neither block nor unblock a thread.
LEMMA KeepingSteps ==
  ASSUME AlarmInv, NEW t \in Thread,
         \/ TimerSleep(t) \/ ThreadYield(t) \/ ThreadSetPriority(t)
         \/ ThreadCreateReturn(t) \/ ThreadExit(t)
  PROVE  AlarmInv'
<1>a. /\ sched \in SchedState /\ sched.thread_ticks < TimeSlice
      /\ sched.current \in Thread /\ sched.status \in [Thread -> Status]
      /\ sched.priority \in [Thread -> Int] /\ sched.thread_ticks \in Nat
      /\ SchedOK(sched)
      /\ Idle \notin Dead(sched) /\ \A u \in Dead(sched) : pc[u] = "run"
      /\ ticks \in 0 .. MaxTick /\ blocked_list \in Seq(Thread)
      /\ wake_tick \in [Thread -> Int] /\ end \in [Thread -> Int]
      /\ created \in [Thread -> Thread \union {NoThread}]
      /\ pc \in [Thread -> PC] /\ interrupt \in BOOLEAN
      /\ Idle \in Thread /\ pc[Idle] \in {"run", "halt"}
  BY AlarmTypes
<1>b. Running(t)
  BY DEF TimerSleep, ThreadYield, ThreadSetPriority, ThreadCreateReturn, ThreadExit
<1>c. sched.current = t /\ t # Idle /\ sched.status[t] = "RUNNING" /\ t \notin Dead(sched)
  BY <1>b, RunningThread
<1> USE <1>a, <1>c
<1>1. CASE TimerSleep(t)
  <2> USE <1>1 DEF TimerSleep, alarmVars
  <2>1. TypeOK'
    <3>1. end' \in [Thread -> Int]
      BY AlarmAssumption
    <3> QED BY <3>1 DEF TypeOK, AlarmInv, PC
  <2>2. /\ \A u \in Thread : u # t => pc'[u] = pc[u]
        /\ pc[t] = "run" /\ pc'[t] = "sleep"
    OBVIOUS
  <2>3. sched' = sched /\ blocked_list' = blocked_list /\ created' = created
    OBVIOUS
  <2> QED BY <2>1, <2>2, <2>3, KeepPlaces
<1>2. CASE ThreadYield(t)
  <2> USE <1>2 DEF ThreadYield, alarmVars
  <2>1. /\ sched' \in SchedState /\ SchedOK(sched)' /\ Dead(sched') \subseteq Dead(sched)
        /\ sched'.thread_ticks = 0
        /\ \A u \in Thread \ {Idle} : sched'.status[u] = "BLOCKED" <=> sched.status[u] = "BLOCKED"
    BY YieldProperties
  <2>2. TypeOK'
    BY <2>1, AlarmAssumption DEF TypeOK, AlarmInv
  <2> QED BY <2>1, <2>2, KeepPlaces
<1>3. CASE ThreadSetPriority(t)
  <2> USE <1>3 DEF ThreadSetPriority, alarmVars
  <2>1. PICK p \in Priority : sched' = YieldToMax([sched EXCEPT !.priority[t] = p])
    OBVIOUS
  <2> DEFINE s == [sched EXCEPT !.priority[t] = p]
  <2>2. p \in Int /\ t \in Thread
    BY AlarmAssumption
  <2>3. s \in SchedState
    BY <2>2, SchedStateExcept
  <2>4. /\ s.status = sched.status /\ s.current = sched.current
        /\ s.ready_list = sched.ready_list /\ s.thread_ticks = sched.thread_ticks
    BY DEF SchedState
  <2>5. sched' = YieldToMax(s)
    BY <2>1
  <2> HIDE DEF s
  <2>6. SchedOK(s) /\ Dead(s) = Dead(sched)
    BY <2>4 DEF SchedOK, OneRunning, QueueMatchesStatus, Dead
  <2> DEFINE r == YieldToMax(s)
  <2>7. /\ r \in SchedState /\ SchedOK(r) /\ Dead(r) \subseteq Dead(s)
        /\ r.thread_ticks \in {0, s.thread_ticks}
        /\ \A u \in Thread \ {Idle} : r.status[u] = "BLOCKED" <=> s.status[u] = "BLOCKED"
    BY <2>3, <2>6, YieldToMaxProperties
  <2>8. sched' = r
    BY <2>5
  <2> HIDE DEF r
  <2>9. TypeOK'
    <3>1. sched'.thread_ticks < TimeSlice
      BY <2>4, <2>7, <2>8, AlarmAssumption
    <3> QED BY <2>7, <2>8, <3>1 DEF TypeOK, AlarmInv
  <2> QED BY <2>4, <2>6, <2>7, <2>8, <2>9, KeepPlaces
<1>4. CASE ThreadCreateReturn(t)
  <2> USE <1>4 DEF ThreadCreateReturn, alarmVars
  <2> DEFINE r == Yield(sched)
  <2>1. sched' = sched \/ sched' = r
    OBVIOUS
  <2>2. /\ r \in SchedState /\ SchedOK(r) /\ Dead(r) \subseteq Dead(sched) /\ r.thread_ticks = 0
        /\ \A u \in Thread \ {Idle} : r.status[u] = "BLOCKED" <=> sched.status[u] = "BLOCKED"
    BY YieldProperties
  <2> HIDE DEF r
  <2>3. /\ sched' \in SchedState /\ SchedOK(sched)' /\ Dead(sched') \subseteq Dead(sched)
        /\ sched'.thread_ticks \in {0, sched.thread_ticks}
        /\ \A u \in Thread \ {Idle} : sched'.status[u] = "BLOCKED" <=> sched.status[u] = "BLOCKED"
    <3>1. CASE sched' = sched
      BY <3>1
    <3>2. CASE sched' = r
      BY <2>2, <3>2
    <3> QED BY <2>1, <3>1, <3>2
  <2>4. pc' \in [Thread -> PC]
    BY DEF PC
  <2>5. TypeOK'
    <3>1. sched'.thread_ticks < TimeSlice
      BY <2>3, AlarmAssumption
    <3>2. created' \in [Thread -> Thread \union {NoThread}]
      OBVIOUS
    <3> QED BY <2>3, <2>4, <3>1, <3>2 DEF TypeOK
  <2> QED BY <2>3, <2>5, KeepPlaces
<1>5. CASE ThreadExit(t)
  <2> USE <1>5 DEF ThreadExit, alarmVars
  <2>1. /\ sched' \in SchedState /\ SchedOK(sched)' /\ Dead(sched') \subseteq Dead(sched) \union {t}
        /\ sched'.thread_ticks = 0
        /\ \A u \in Thread \ {Idle} : sched'.status[u] = "BLOCKED" <=> sched.status[u] = "BLOCKED"
    <3> DEFINE r == Leave(sched, "DYING")
    <3>1. /\ r \in SchedState /\ SchedOK(r) /\ r.thread_ticks = 0
          /\ Dead(r) \subseteq Dead(sched) \union {u \in {sched.current} : "DYING" = "DYING"}
          /\ \A u \in Thread \ {Idle} :
                r.status[u] = "BLOCKED" <=> \/ u = sched.current /\ "DYING" = "BLOCKED"
                                            \/ u # sched.current /\ sched.status[u] = "BLOCKED"
      BY BlockProperties, "DYING" \in {"BLOCKED", "DYING"}
    <3>2. sched' = r
      OBVIOUS
    <3> HIDE DEF r
    <3> QED BY <3>1, <3>2
  <2>2. TypeOK'
    BY <2>1, AlarmAssumption DEF TypeOK, AlarmInv
  <2> QED BY <2>1, <2>2, KeepPlaces
<1> QED BY <1>1, <1>2, <1>3, <1>4, <1>5

\* The interrupt, but for the wakeups, and the idle thread.
LEMMA IdleAndTimerSteps ==
  ASSUME AlarmInv, IdleBlock \/ TimerInterrupt \/ TimerReturn
  PROVE  AlarmInv'
<1>a. /\ sched \in SchedState /\ sched.thread_ticks < TimeSlice
      /\ sched.current \in Thread /\ sched.status \in [Thread -> Status]
      /\ sched.priority \in [Thread -> Int] /\ sched.thread_ticks \in Nat
      /\ SchedOK(sched)
      /\ Idle \notin Dead(sched) /\ \A u \in Dead(sched) : pc[u] = "run"
      /\ ticks \in 0 .. MaxTick /\ blocked_list \in Seq(Thread)
      /\ wake_tick \in [Thread -> Int] /\ end \in [Thread -> Int]
      /\ created \in [Thread -> Thread \union {NoThread}]
      /\ pc \in [Thread -> PC] /\ interrupt \in BOOLEAN
      /\ Idle \in Thread /\ pc[Idle] \in {"run", "halt"}
  BY AlarmTypes
<1> USE <1>a
<1>1. CASE IdleBlock
  <2> USE <1>1 DEF IdleBlock, alarmVars
  <2>1. /\ sched' \in SchedState /\ SchedOK(sched)' /\ Dead(sched') \subseteq Dead(sched)
        /\ sched'.thread_ticks = 0
        /\ \A u \in Thread \ {Idle} : sched'.status[u] = "BLOCKED" <=> sched.status[u] = "BLOCKED"
    BY BlockProperties DEF Block
  <2>2. TypeOK'
    BY <2>1, AlarmAssumption DEF TypeOK, AlarmInv, PC
  <2> QED BY <2>1, <2>2, KeepPlaces
<1>2. CASE TimerInterrupt
  <2> USE <1>2 DEF TimerInterrupt, alarmVars
  <2>1. TypeOK'
    BY AlarmAssumption DEF TypeOK, AlarmInv, PC
  <2> QED BY <2>1, KeepPlaces
<1>3. CASE TimerReturn
  <2> USE <1>3 DEF TimerReturn, alarmVars
  <2>1. /\ sched' \in SchedState /\ SchedOK(sched)' /\ Dead(sched') \subseteq Dead(sched)
        /\ sched'.thread_ticks < TimeSlice
        /\ \A u \in Thread \ {Idle} : sched'.status[u] = "BLOCKED" <=> sched.status[u] = "BLOCKED"
    BY AlarmAssumption, ThreadTickProperties
  <2>2. TypeOK'
    BY <2>1 DEF TypeOK, AlarmInv
  <2> QED BY <2>1, <2>2, KeepPlaces
<1> QED BY <1>1, <1>2, <1>3

\* thread_block, as a primitive calls it: the thread waits, in no list.
LEMMA ThreadBlockStep ==
  ASSUME AlarmInv, NEW t \in Thread, ThreadBlock(t)
  PROVE  AlarmInv'
<1> USE DEF ThreadBlock, alarmVars
<1>1. /\ sched.current = t /\ t # Idle /\ sched.status[t] = "RUNNING"
      /\ t \notin Sleepers /\ t \notin Dead(sched) /\ \A u \in Thread : ~Creating(u, t)
  BY RunningThread
<1> DEFINE r == Leave(sched, "BLOCKED")
<1>2. /\ r \in SchedState /\ SchedOK(r) /\ r.thread_ticks = 0
      /\ Dead(r) \subseteq Dead(sched) \union {u \in {sched.current} : "BLOCKED" = "DYING"}
      /\ \A u \in Thread \ {Idle} :
            r.status[u] = "BLOCKED" <=> \/ u = sched.current /\ "BLOCKED" = "BLOCKED"
                                        \/ u # sched.current /\ sched.status[u] = "BLOCKED"
  BY AlarmTypes, BlockProperties, "BLOCKED" \in {"BLOCKED", "DYING"}
<1>3. sched' = r
  BY DEF Block
<1> HIDE DEF r
<1>4. /\ sched' \in SchedState /\ SchedOK(sched)' /\ sched'.thread_ticks = 0
      /\ Dead(sched') \subseteq Dead(sched)
      /\ \A u \in Thread \ {Idle} :
            sched'.status[u] = "BLOCKED" <=> u = t \/ sched.status[u] = "BLOCKED"
  BY <1>1, <1>2, <1>3
<1>5. TypeOK'
  <2>1. pc' \in [Thread -> PC]
    BY AlarmTypes DEF PC
  <2>2. sched'.thread_ticks < TimeSlice
    BY <1>4, AlarmAssumption
  <2> QED BY <1>4, <2>1, <2>2, AlarmTypes DEF TypeOK
<1>6. ElemInOneList'
  BY <1>4, AlarmTypes DEF AlarmInv, ElemInOneList, Sleepers
<1>7. \A u, v \in Thread : Creating(u, v)' <=> Creating(u, v)
  BY AlarmTypes DEF Creating
<1>8. BlockedAwaitsOne'
  <2> SUFFICES ASSUME NEW u \in Thread \ {Idle}, sched'.status[u] = "BLOCKED"
               PROVE  \/ u \in Sleepers /\ pc'[u] = "run" /\ ~\E v \in Thread : Creating(v, u)
                      \/ u \notin Sleepers /\ pc'[u] = "wait" /\ ~\E v \in Thread : Creating(v, u)
                      \/ /\ u \notin Sleepers /\ pc'[u] = "run"
                         /\ \E v \in Thread : Creating(v, u) /\ \A w \in Thread : Creating(w, u) => w = v
    BY <1>7 DEF BlockedAwaitsOne, Sleepers
  <2>1. CASE u = t
    BY <1>1, <2>1, AlarmTypes
  <2>2. CASE u # t
    BY <1>4, <2>2, AlarmTypes DEF AlarmInv, BlockedAwaitsOne
  <2> QED BY <2>1, <2>2
<1>9. WaitersBlocked'
  BY <1>1, <1>4, AlarmTypes DEF AlarmInv, WaitersBlocked
<1>10. NewbornBlocked'
  BY <1>1, <1>4, AlarmTypes DEF AlarmInv, NewbornBlocked
<1>11. IdleInv' /\ DeadInv'
  BY <1>1, <1>4, AlarmTypes DEF AlarmInv, IdleInv, DeadInv
<1> QED BY <1>5, <1>6, <1>8, <1>9, <1>10, <1>11 DEF AlarmInv

\* thread_yield_sleep: the thread enters the sleep list.
LEMMA ThreadYieldSleepStep ==
  ASSUME AlarmInv, NEW t \in Thread, ThreadYieldSleep(t)
  PROVE  AlarmInv' /\ Sleepers' = Sleepers \union {t}
<1> USE DEF ThreadYieldSleep, alarmVars
<1>1. /\ sched.current = t /\ t # Idle /\ sched.status[t] = "RUNNING"
      /\ t \notin Sleepers /\ t \notin Dead(sched) /\ \A u \in Thread : ~Creating(u, t)
  BY RunningThread
<1> DEFINE r == Leave(sched, "BLOCKED")
<1>2. /\ r \in SchedState /\ SchedOK(r) /\ r.thread_ticks = 0
      /\ Dead(r) \subseteq Dead(sched) \union {u \in {sched.current} : "BLOCKED" = "DYING"}
      /\ \A u \in Thread \ {Idle} :
            r.status[u] = "BLOCKED" <=> \/ u = sched.current /\ "BLOCKED" = "BLOCKED"
                                        \/ u # sched.current /\ sched.status[u] = "BLOCKED"
  BY AlarmTypes, BlockProperties, "BLOCKED" \in {"BLOCKED", "DYING"}
<1>3. sched' = r
  BY DEF Block
<1> HIDE DEF r
<1>4. /\ sched' \in SchedState /\ SchedOK(sched)' /\ sched'.thread_ticks = 0
      /\ Dead(sched') \subseteq Dead(sched)
      /\ \A u \in Thread \ {Idle} :
            sched'.status[u] = "BLOCKED" <=> u = t \/ sched.status[u] = "BLOCKED"
  BY <1>1, <1>2, <1>3
<1>5. /\ blocked_list' \in Seq(Thread) /\ NoDuplicates(blocked_list)'
      /\ Sleepers' = Sleepers \union {t}
  <2> DEFINE key == [u \in Thread |-> -wake_tick'[u]]
  <2>1. wake_tick' \in [Thread -> Int]
    BY AlarmTypes
  <2>2. key \in [Thread -> Int]
    BY <2>1
  <2>3. blocked_list' = InsertOrdered(blocked_list, t, key)
    OBVIOUS
  <2> HIDE DEF key
  <2>4. blocked_list \in Seq(Thread) /\ NoDuplicates(blocked_list) /\ t \notin ListElems(blocked_list)
    BY <1>1, AlarmTypes DEF Sleepers
  <2> DEFINE q == InsertOrdered(blocked_list, t, key)
  <2>5. q \in Seq(Thread) /\ NoDuplicates(q) /\ ListElems(q) = ListElems(blocked_list) \union {t}
    BY <2>2, <2>4, InsertOrderedProperties
  <2>6. blocked_list' = q
    BY <2>3
  <2> HIDE DEF q
  <2> QED BY <2>5, <2>6 DEF Sleepers
<1>6. TypeOK'
  <2>1. sched' \in SchedState /\ sched'.thread_ticks < TimeSlice
    BY <1>4, AlarmAssumption
  <2>2. wake_tick' \in [Thread -> Int] /\ pc' \in [Thread -> PC]
    BY AlarmTypes DEF PC
  <2>3. /\ ticks' \in 0 .. MaxTick /\ end' \in [Thread -> Int]
        /\ created' \in [Thread -> Thread \union {NoThread}] /\ interrupt' \in BOOLEAN
    BY AlarmTypes DEF TypeOK
  <2> QED BY <1>5, <2>1, <2>2, <2>3 DEF TypeOK
<1>7. ElemInOneList'
  BY <1>1, <1>4, <1>5, AlarmTypes DEF AlarmInv, ElemInOneList
<1>8. \A u, v \in Thread : Creating(u, v)' <=> Creating(u, v)
  BY AlarmTypes DEF Creating
<1>9. BlockedAwaitsOne'
  <2> SUFFICES ASSUME NEW u \in Thread \ {Idle}, sched'.status[u] = "BLOCKED"
               PROVE  \/ u \in Sleepers' /\ pc'[u] = "run" /\ ~\E v \in Thread : Creating(v, u)
                      \/ u \notin Sleepers' /\ pc'[u] = "wait" /\ ~\E v \in Thread : Creating(v, u)
                      \/ /\ u \notin Sleepers' /\ pc'[u] = "run"
                         /\ \E v \in Thread : Creating(v, u) /\ \A w \in Thread : Creating(w, u) => w = v
    BY <1>8 DEF BlockedAwaitsOne
  <2>1. CASE u = t
    BY <1>1, <1>5, <2>1, AlarmTypes
  <2>2. CASE u # t
    BY <1>4, <1>5, <2>2, AlarmTypes DEF AlarmInv, BlockedAwaitsOne
  <2> QED BY <2>1, <2>2
<1>10. WaitersBlocked' /\ NewbornBlocked'
  BY <1>1, <1>4, AlarmTypes DEF AlarmInv, WaitersBlocked, NewbornBlocked
<1>11. IdleInv' /\ DeadInv'
  BY <1>1, <1>4, AlarmTypes DEF AlarmInv, IdleInv, DeadInv
<1> QED BY <1>5, <1>6, <1>7, <1>9, <1>10, <1>11 DEF AlarmInv

\* thread_unblock of a thread that is BLOCKED, by the step that takes it out of its place.
LEMMA UnblockStep ==
  ASSUME AlarmInv, NEW u \in Thread \ {Idle}, sched.status[u] = "BLOCKED",
         sched' = Unblock(sched, u)
  PROVE  /\ sched' \in SchedState /\ sched'.thread_ticks = sched.thread_ticks
         /\ SchedOK(sched)' /\ Dead(sched') = Dead(sched)
         /\ \A v \in Thread : sched'.status[v] = "BLOCKED" <=> v # u /\ sched.status[v] = "BLOCKED"
<1>1. /\ Unblock(sched, u) \in SchedState /\ SchedOK(Unblock(sched, u))
      /\ Unblock(sched, u).thread_ticks = sched.thread_ticks
      /\ Unblock(sched, u).status = [sched.status EXCEPT ![u] = "READY"]
  BY AlarmTypes, UnblockProperties
<1>2. sched'.status = [sched.status EXCEPT ![u] = "READY"]
  BY <1>1
<1>3. Dead(sched') = Dead(sched)
  BY <1>2, AlarmTypes DEF Dead
<1> QED BY <1>1, <1>2, <1>3, AlarmTypes

\* thread_unblock of a thread that a synchronisation primitive has blocked.
LEMMA ThreadUnblockStep ==
  ASSUME AlarmInv, NEW t \in Thread, ThreadUnblock(t)
  PROVE  AlarmInv'
<1> USE DEF alarmVars
<1>1. PICK u \in Thread : /\ pc[u] = "wait" /\ sched' = Unblock(sched, u)
                          /\ pc' = [pc EXCEPT ![u] = "run"]
  BY DEF ThreadUnblock
<1>0. UNCHANGED <<ticks, alarmVars, end, created, interrupt>>
  BY DEF ThreadUnblock
<1>2. /\ sched.status[u] = "BLOCKED" /\ u # Idle /\ u \notin Sleepers
      /\ ~\E v \in Thread : Creating(v, u)
  BY <1>1, AlarmTypes DEF AlarmInv, WaitersBlocked, BlockedAwaitsOne
<1>3. /\ sched' \in SchedState /\ sched'.thread_ticks = sched.thread_ticks
      /\ SchedOK(sched)' /\ Dead(sched') = Dead(sched)
      /\ \A v \in Thread : sched'.status[v] = "BLOCKED" <=> v # u /\ sched.status[v] = "BLOCKED"
  BY <1>1, <1>2, UnblockStep
<1>4. TypeOK'
  BY <1>0, <1>1, <1>3, AlarmTypes DEF TypeOK, PC
<1>5. ElemInOneList'
  BY <1>0, <1>2, <1>3, AlarmTypes DEF AlarmInv, ElemInOneList, Sleepers
<1>6. \A v, w \in Thread : Creating(v, w)' <=> Creating(v, w)
  BY <1>0, <1>1, AlarmTypes DEF Creating
<1>7. BlockedAwaitsOne'
  BY <1>0, <1>1, <1>3, <1>6, AlarmTypes DEF AlarmInv, BlockedAwaitsOne, Sleepers
<1>8. WaitersBlocked'
  BY <1>1, <1>3, AlarmTypes DEF AlarmInv, WaitersBlocked
<1>9. NewbornBlocked'
  BY <1>0, <1>1, <1>2, <1>3, AlarmTypes DEF AlarmInv, NewbornBlocked, Creating
<1>10. IdleInv' /\ DeadInv'
  <2>1. /\ pc' = [pc EXCEPT ![u] = "run"] /\ pc \in [Thread -> PC]
        /\ Dead(sched') = Dead(sched) /\ Dead(sched) \subseteq Thread
    BY <1>1, <1>3, AlarmTypes DEF Dead
  <2> QED BY <1>2, <2>1, ThreadAssumption DEF AlarmInv, IdleInv, DeadInv
<1> QED BY <1>4, <1>5, <1>7, <1>8, <1>9, <1>10 DEF AlarmInv

\* One turn of wake_blocked_thread: the first sleeper leaves the list.
LEMMA WakeBlockedThreadStep ==
  ASSUME AlarmInv, WakeBlockedThread
  PROVE  /\ AlarmInv'
         /\ Head(blocked_list) \in Sleepers /\ Sleepers' = Sleepers \ {Head(blocked_list)}
<1> USE DEF WakeBlockedThread, FirstIsDue
<1> DEFINE u == Head(blocked_list)
<1>1. /\ blocked_list' \in Seq(Thread) /\ u \in Sleepers
      /\ NoDuplicates(blocked_list)' /\ Sleepers' = Sleepers \ {u}
  BY AlarmTypes, TailListProperties DEF Sleepers
<1>2. /\ u \in Thread \ {Idle} /\ sched.status[u] = "BLOCKED" /\ pc[u] = "run"
      /\ ~\E v \in Thread : Creating(v, u)
  BY <1>1, AlarmTypes DEF AlarmInv, ElemInOneList, BlockedAwaitsOne
<1>0. sched' = Unblock(sched, u)
  OBVIOUS
<1> HIDE DEF u
<1>3. /\ sched' \in SchedState /\ sched'.thread_ticks = sched.thread_ticks
      /\ SchedOK(sched)' /\ Dead(sched') = Dead(sched)
      /\ \A v \in Thread : sched'.status[v] = "BLOCKED" <=> v # u /\ sched.status[v] = "BLOCKED"
  BY <1>0, <1>2, UnblockStep
<1>4. TypeOK'
  BY <1>1, <1>3, AlarmTypes DEF TypeOK
<1>5. ElemInOneList'
  BY <1>1, <1>3, AlarmTypes DEF AlarmInv, ElemInOneList
<1>6. \A v, w \in Thread : Creating(v, w)' <=> Creating(v, w)
  BY DEF Creating
<1>7. BlockedAwaitsOne'
  BY <1>1, <1>3, <1>6 DEF AlarmInv, BlockedAwaitsOne
<1>8. WaitersBlocked'
  BY <1>2, <1>3 DEF AlarmInv, WaitersBlocked
<1>9. NewbornBlocked'
  BY <1>2, <1>3 DEF AlarmInv, NewbornBlocked, Creating
<1>10. IdleInv' /\ DeadInv'
  BY <1>3 DEF AlarmInv, IdleInv, DeadInv
<1> QED BY <1>1, <1>4, <1>5, <1>7, <1>8, <1>9, <1>10 DEF AlarmInv, u

\* thread_create, up to init_thread: a free page becomes a blocked thread.
LEMMA ThreadCreateStep ==
  ASSUME AlarmInv, NEW t \in Thread, ThreadCreate(t)
  PROVE  AlarmInv'
<1> USE DEF alarmVars
<1>1. PICK u \in Thread, p \in Priority :
         /\ sched.status[u] = "FREE"
         /\ sched' = [sched EXCEPT !.status[u] = "BLOCKED", !.priority[u] = p]
         /\ created' = [created EXCEPT ![t] = u]
         /\ pc' = [pc EXCEPT ![t] = "init", ![u] = "run"]
  BY DEF ThreadCreate
<1>2. Running(t) /\ pc[t] = "run" /\ UNCHANGED <<ticks, alarmVars, end, interrupt>>
  BY DEF ThreadCreate
<1>3. /\ sched.current = t /\ t # Idle /\ sched.status[t] = "RUNNING"
      /\ t \notin Sleepers /\ t \notin Dead(sched) /\ \A v \in Thread : ~Creating(v, t)
  BY <1>2, RunningThread
<1>4. /\ u # t /\ u # Idle /\ u \notin Sleepers /\ pc[u] = "run" /\ u \in Dead(sched)
      /\ \A v \in Thread : ~Creating(v, u)
  BY <1>1, <1>3, AlarmTypes DEF AlarmInv, ElemInOneList, NewbornBlocked, Creating, Dead
<1>5. /\ sched' \in SchedState /\ sched'.current = sched.current
      /\ sched'.ready_list = sched.ready_list /\ sched'.thread_ticks = sched.thread_ticks
      /\ \A v \in Thread : sched'.status[v] = IF v = u THEN "BLOCKED" ELSE sched.status[v]
  <2> DEFINE s1 == [sched EXCEPT !.status[u] = "BLOCKED"]
  <2>1. s1 \in SchedState
    BY AlarmTypes, SchedStateExcept DEF Status
  <2>2. /\ s1.current = sched.current /\ s1.ready_list = sched.ready_list
        /\ s1.thread_ticks = sched.thread_ticks
        /\ \A v \in Thread : s1.status[v] = IF v = u THEN "BLOCKED" ELSE sched.status[v]
    BY AlarmTypes DEF SchedState
  <2>3. sched' = [s1 EXCEPT !.priority[u] = p]
    BY <1>1
  <2> HIDE DEF s1
  <2>4. p \in Int
    BY AlarmAssumption
  <2>5. sched' \in SchedState
    BY <2>1, <2>3, <2>4, SchedStateExcept
  <2>6. /\ sched'.current = s1.current /\ sched'.ready_list = s1.ready_list
        /\ sched'.thread_ticks = s1.thread_ticks /\ sched'.status = s1.status
    BY <2>1, <2>3 DEF SchedState
  <2> QED BY <2>2, <2>5, <2>6
<1>6. SchedOK(sched')
  <2>1. OneRunning(sched')
    <3>1. \A v \in Thread : sched.status[v] = "RUNNING" <=> v = sched.current
      BY AlarmTypes DEF SchedOK, OneRunning
    <3>2. sched.status[u] = "FREE"
      BY <1>1
    <3>3. ASSUME NEW v \in Thread PROVE sched'.status[v] = "RUNNING" <=> v = sched'.current
      <4>1. CASE v = u
        BY <1>5, <3>1, <3>2, <4>1
      <4>2. CASE v # u
        BY <1>5, <3>1, <4>2
      <4> QED BY <4>1, <4>2
    <3> QED BY <3>3 DEF OneRunning
  <2>2. QueueMatchesStatus(sched')
    BY <1>1, <1>5, AlarmTypes DEF SchedOK, QueueMatchesStatus
  <2> QED BY <2>1, <2>2 DEF SchedOK
<1>7. /\ pc'[t] = "init" /\ pc'[u] = "run" /\ created'[t] = u
      /\ \A v \in Thread : v \notin {t, u} => pc'[v] = pc[v]
      /\ \A v \in Thread : v # t => created'[v] = created[v]
      /\ pc' \in [Thread -> PC] /\ created' \in [Thread -> Thread \union {NoThread}]
  BY <1>1, <1>4, AlarmTypes DEF PC
<1>8. TypeOK'
  BY <1>2, <1>5, <1>7, AlarmTypes DEF TypeOK
<1>9. Sleepers' = Sleepers
  BY <1>2 DEF Sleepers
<1>10. ElemInOneList'
  BY <1>2, <1>4, <1>5, <1>6, <1>9, AlarmTypes DEF AlarmInv, ElemInOneList
<1>11. \A v, w \in Thread : Creating(v, w)' <=> (v = t /\ w = u) \/ Creating(v, w)
  BY <1>2, <1>4, <1>7 DEF Creating
<1>12. BlockedAwaitsOne'
  <2> SUFFICES ASSUME NEW x \in Thread \ {Idle}, sched'.status[x] = "BLOCKED"
               PROVE  \/ x \in Sleepers /\ pc'[x] = "run" /\ ~\E v \in Thread : Creating(v, x)'
                      \/ x \notin Sleepers /\ pc'[x] = "wait" /\ ~\E v \in Thread : Creating(v, x)'
                      \/ /\ x \notin Sleepers /\ pc'[x] = "run"
                         /\ \E v \in Thread : Creating(v, x)' /\ \A w \in Thread : Creating(w, x)' => w = v
    BY <1>9 DEF BlockedAwaitsOne
  <2>1. CASE x = u
    BY <1>4, <1>7, <1>11, <2>1
  <2>2. CASE x # u
    <3>1. x # t /\ sched.status[x] = "BLOCKED" /\ pc'[x] = pc[x]
      BY <1>3, <1>5, <1>7, <2>2
    <3>2. \A v \in Thread : Creating(v, x)' <=> Creating(v, x)
      BY <1>11, <2>2
    <3> QED BY <3>1, <3>2 DEF AlarmInv, BlockedAwaitsOne
  <2> QED BY <2>1, <2>2
<1>13. WaitersBlocked'
  BY <1>5, <1>7 DEF AlarmInv, WaitersBlocked
<1>14. NewbornBlocked'
  <2> SUFFICES ASSUME NEW v \in Thread, pc'[v] = "init"
               PROVE  created'[v] \in Thread \ {Idle} /\ sched'.status[created'[v]] = "BLOCKED"
    BY DEF NewbornBlocked
  <2>1. CASE v = t
    BY <1>4, <1>5, <1>7, <2>1
  <2>2. CASE v # t
    BY <1>5, <1>7, <2>2 DEF AlarmInv, NewbornBlocked
  <2> QED BY <2>1, <2>2
<1>15. IdleInv' /\ DeadInv'
  <2>1. Dead(sched') = Dead(sched) \ {u}
    BY <1>5 DEF Dead
  <2>2. Dead(sched) \subseteq Thread
    BY DEF Dead
  <2> QED BY <1>3, <1>4, <1>7, <2>1, <2>2, AlarmTypes DEF AlarmInv, IdleInv, DeadInv
<1> QED BY <1>8, <1>10, <1>12, <1>13, <1>14, <1>15, <1>6 DEF AlarmInv

\* thread_create's thread_unblock: the newborn leaves the only place it was in.
LEMMA ThreadCreateUnblockStep ==
  ASSUME AlarmInv, NEW t \in Thread, ThreadCreateUnblock(t)
  PROVE  AlarmInv'
<1> USE DEF alarmVars
<1> DEFINE u == created[t]
<1>1. /\ Running(t) /\ pc[t] = "init" /\ sched' = Unblock(sched, u)
      /\ pc' = [pc EXCEPT ![t] = "queued"]
      /\ UNCHANGED <<ticks, alarmVars, end, created, interrupt>>
  BY DEF ThreadCreateUnblock
<1>2. /\ sched.current = t /\ t # Idle /\ sched.status[t] = "RUNNING"
      /\ t \notin Sleepers /\ t \notin Dead(sched) /\ \A v \in Thread : ~Creating(v, t)
  BY <1>1, RunningThread
<1>3. u \in Thread \ {Idle} /\ sched.status[u] = "BLOCKED" /\ Creating(t, u)
  BY <1>1 DEF AlarmInv, NewbornBlocked, Creating
<1> HIDE DEF u
<1>4. u \notin Sleepers /\ \A v \in Thread : Creating(v, u) => v = t
  BY <1>3 DEF AlarmInv, BlockedAwaitsOne
<1>5. /\ sched' \in SchedState /\ sched'.thread_ticks = sched.thread_ticks
      /\ SchedOK(sched)' /\ Dead(sched') = Dead(sched)
      /\ \A v \in Thread : sched'.status[v] = "BLOCKED" <=> v # u /\ sched.status[v] = "BLOCKED"
  BY <1>1, <1>3, UnblockStep
<1>6. /\ pc'[t] = "queued" /\ \A v \in Thread : v # t => pc'[v] = pc[v]
      /\ pc' \in [Thread -> PC]
  BY <1>1, AlarmTypes DEF PC
<1>7. TypeOK'
  BY <1>1, <1>5, <1>6, AlarmTypes DEF TypeOK
<1>8. ElemInOneList'
  BY <1>1, <1>4, <1>5, AlarmTypes DEF AlarmInv, ElemInOneList, Sleepers
<1>9. \A v, w \in Thread : w # u => (Creating(v, w)' <=> Creating(v, w))
  BY <1>1, <1>6, <1>3 DEF Creating
<1>10. BlockedAwaitsOne'
  <2> SUFFICES ASSUME NEW x \in Thread \ {Idle}, sched'.status[x] = "BLOCKED"
               PROVE  \/ x \in Sleepers /\ pc'[x] = "run" /\ ~\E v \in Thread : Creating(v, x)'
                      \/ x \notin Sleepers /\ pc'[x] = "wait" /\ ~\E v \in Thread : Creating(v, x)'
                      \/ /\ x \notin Sleepers /\ pc'[x] = "run"
                         /\ \E v \in Thread : Creating(v, x)' /\ \A w \in Thread : Creating(w, x)' => w = v
    BY <1>1 DEF BlockedAwaitsOne, Sleepers
  <2>1. x # u /\ x # t /\ sched.status[x] = "BLOCKED" /\ pc'[x] = pc[x]
    BY <1>2, <1>5, <1>6
  <2>2. \A v \in Thread : Creating(v, x)' <=> Creating(v, x)
    BY <1>9, <2>1
  <2> QED BY <2>1, <2>2 DEF AlarmInv, BlockedAwaitsOne
<1>11. WaitersBlocked'
  <2> SUFFICES ASSUME NEW v \in Thread, pc'[v] = "wait" PROVE sched'.status[v] = "BLOCKED"
    BY DEF WaitersBlocked
  <2>1. pc[v] = "wait" /\ sched.status[v] = "BLOCKED"
    BY <1>6 DEF AlarmInv, WaitersBlocked
  <2>2. v # u
    BY <1>3, <1>4, <2>1 DEF AlarmInv, BlockedAwaitsOne
  <2> QED BY <1>5, <2>1, <2>2
<1>12. NewbornBlocked'
  <2> SUFFICES ASSUME NEW v \in Thread, pc'[v] = "init"
               PROVE  created[v] \in Thread \ {Idle} /\ sched'.status[created[v]] = "BLOCKED"
    BY <1>1 DEF NewbornBlocked
  <2>1. v # t /\ pc[v] = "init" /\ created[v] \in Thread \ {Idle} /\ sched.status[created[v]] = "BLOCKED"
    BY <1>6 DEF AlarmInv, NewbornBlocked
  <2>2. created[v] # u
    BY <1>4, <2>1 DEF Creating
  <2> QED BY <1>5, <2>1, <2>2
<1>13. IdleInv' /\ DeadInv'
  <2>1. Dead(sched) \subseteq Thread
    BY DEF Dead
  <2> QED BY <1>2, <1>5, <1>6, <2>1, AlarmTypes DEF AlarmInv, IdleInv, DeadInv
<1> QED BY <1>7, <1>8, <1>10, <1>11, <1>12, <1>13 DEF AlarmInv

\* AlarmInv is inductive.
LEMMA NextAlarmInv == AlarmInv /\ [Next]_vars => AlarmInv'
<1> SUFFICES ASSUME AlarmInv, [Next]_vars PROVE AlarmInv'
  OBVIOUS
<1>1. ASSUME NEW t \in Thread, Step(t) PROVE AlarmInv'
  BY <1>1, KeepingSteps, ThreadBlockStep, ThreadYieldSleepStep, ThreadUnblockStep,
     ThreadCreateStep, ThreadCreateUnblockStep DEF Step
<1>2. CASE Timer \/ IdleBlock
  BY <1>2, IdleAndTimerSteps, WakeBlockedThreadStep DEF Timer
<1>3. CASE UNCHANGED vars
  BY <1>3 DEF vars, AlarmInv, TypeOK, ElemInOneList, BlockedAwaitsOne, WaitersBlocked,
              NewbornBlocked, IdleInv, DeadInv, Sleepers, Creating
<1> QED BY <1>1, <1>2, <1>3 DEF Next

\* The invariant of the list element elem holds for ever: every thread is in the one
\* list that its status and its place in the code call for, whatever calls are made and
\* whenever the timer interrupts them (thread.c and timer.c, every function modelled).
THEOREM AlarmInvariant == Spec => []AlarmInv
BY InitAlarmInv, NextAlarmInv, PTL DEF Spec

\* Every variable stays in its domain, and every slice is shorter than TIME_SLICE.
THEOREM AlarmTypeCorrect == Spec => []TypeOK
BY AlarmInvariant, PTL DEF AlarmInv

\* The one elem of a thread is in one list at a time, the one its status says: the run
\* queue for READY, the sleep list for BLOCKED (thread.h, the comment on elem).
THEOREM ElementsInOneList == Spec => []ElemInOneList
BY AlarmInvariant, PTL DEF AlarmInv

\* No thread is lost: each one that is BLOCKED has one, and only one, way back.
THEOREM NoThreadLost == Spec => []BlockedAwaitsOne
BY AlarmInvariant, PTL DEF AlarmInv

--------------------------------------------------------------------------------
(* The order of the run queue, and who is given the CPU.                   *)

\* What a step owes: a queue in order, and the CPU to the highest of it.
Ordered(s, r) == ReadySorted(r) /\ (r.current # s.current => HighestDispatched(r))

\* The run queue is empty when the scheduler starts.
LEMMA InitReadySorted == Init => ReadyQueueSorted
BY DEF Init, ReadyQueueSorted, ReadySorted, SortedBy

\* A change of the priority of a thread that is not queued leaves the queue in order.
LEMMA PriorityOfUnqueued ==
  ASSUME NEW s \in SchedState, NEW r \in SchedState, ReadySorted(s),
         r.ready_list = s.ready_list, NEW u \in Thread, u \notin ListElems(s.ready_list),
         \A v \in Thread : v # u => r.priority[v] = s.priority[v]
  PROVE  ReadySorted(r)
<1>1. ListElems(s.ready_list) \subseteq Thread
  BY SchedStateType, ListElemsType
<1>2. \A v \in ListElems(s.ready_list) : r.priority[v] = s.priority[v]
  BY <1>1
<1>3. SortedBy(s.ready_list, s.priority)
  BY DEF ReadySorted
<1> QED BY <1>2, <1>3, SortedByElements DEF ReadySorted

\* A step of a thread keeps the run queue in order and dispatches the highest.
LEMMA StepOrdered ==
  ASSUME AlarmInv, ReadyQueueSorted, NEW t \in Thread, Step(t)
  PROVE  Ordered(sched, sched')
<1>0. /\ sched \in SchedState /\ SchedOK(sched) /\ ReadySorted(sched) /\ Running(t)
      /\ sched.current = t /\ sched.status[t] = "RUNNING"
      /\ sched.status \in [Thread -> Status] /\ sched.priority \in [Thread -> Int]
  <2>1. Running(t)
    BY DEF Step, TimerSleep, ThreadYieldSleep, ThreadYield, ThreadBlock, ThreadUnblock,
           ThreadSetPriority, ThreadCreate, ThreadCreateUnblock, ThreadCreateReturn, ThreadExit
  <2> QED BY <2>1, AlarmTypes, RunningThread DEF ReadyQueueSorted
<1>1. CASE sched' = sched
  BY <1>0, <1>1 DEF Ordered
<1>2. CASE sched' = Yield(sched)
  BY <1>0, <1>2, YieldProperties DEF Ordered
<1>3. CASE \E st \in {"BLOCKED", "DYING"} : sched' = Leave(sched, st)
  <2>1. PICK st \in {"BLOCKED", "DYING"} : sched' = Leave(sched, st)
    BY <1>3
  <2> QED BY <1>0, <2>1, BlockProperties DEF Ordered
<1>4. CASE \E u \in Thread \ {Idle} : sched.status[u] = "BLOCKED" /\ sched' = Unblock(sched, u)
  <2>1. PICK u \in Thread \ {Idle} : sched.status[u] = "BLOCKED" /\ sched' = Unblock(sched, u)
    BY <1>4
  <2> QED BY <1>0, <2>1, UnblockProperties DEF Ordered
<1>5. CASE ThreadSetPriority(t)
  <2>1. PICK p \in Priority : sched' = YieldToMax([sched EXCEPT !.priority[t] = p])
    BY <1>5 DEF ThreadSetPriority
  <2> DEFINE s == [sched EXCEPT !.priority[t] = p]
             r == YieldToMax(s)
  <2>2. s \in SchedState
    BY <1>0, AlarmAssumption, SchedStateExcept
  <2>3. /\ s.status = sched.status /\ s.current = sched.current
        /\ s.ready_list = sched.ready_list
        /\ \A v \in Thread : v # t => s.priority[v] = sched.priority[v]
    BY <1>0 DEF SchedState
  <2>4. sched' = r
    BY <2>1
  <2> HIDE DEF s
  <2>5. SchedOK(s)
    BY <1>0, <2>3 DEF SchedOK, OneRunning, QueueMatchesStatus
  <2>6. t \notin ListElems(sched.ready_list)
    BY <1>0 DEF SchedOK, QueueMatchesStatus
  <2>7. ReadySorted(s)
    BY <1>0, <2>2, <2>3, <2>6, PriorityOfUnqueued
  <2>8. ReadySorted(r) /\ (r.current # s.current => HighestDispatched(r))
    BY <2>2, <2>5, <2>7, YieldToMaxProperties
  <2> HIDE DEF r
  <2> QED BY <2>3, <2>4, <2>8 DEF Ordered
<1>6. CASE ThreadCreate(t)
  <2>1. PICK u \in Thread, p \in Priority :
          /\ sched.status[u] = "FREE"
          /\ sched' = [sched EXCEPT !.status[u] = "BLOCKED", !.priority[u] = p]
    BY <1>6 DEF ThreadCreate
  <2>2. sched' \in SchedState
    BY <1>6, ThreadCreateStep DEF AlarmInv, TypeOK
  <2>3. /\ sched'.ready_list = sched.ready_list /\ sched'.current = sched.current
        /\ \A v \in Thread : v # u => sched'.priority[v] = sched.priority[v]
    BY <1>0, <2>1 DEF SchedState
  <2>4. u \notin ListElems(sched.ready_list)
    BY <1>0, <2>1 DEF SchedOK, QueueMatchesStatus
  <2>5. ReadySorted(sched')
    BY <1>0, <2>2, <2>3, <2>4, PriorityOfUnqueued
  <2> QED BY <2>3, <2>5 DEF Ordered
<1>7. CASE TimerSleep(t) \/ ThreadYield(t) \/ ThreadCreateReturn(t)
  BY <1>1, <1>2, <1>7 DEF TimerSleep, ThreadYield, ThreadCreateReturn
<1>8. CASE ThreadYieldSleep(t) \/ ThreadBlock(t) \/ ThreadExit(t)
  BY <1>3, <1>8 DEF ThreadYieldSleep, ThreadBlock, ThreadExit, Block
<1>9. CASE ThreadUnblock(t)
  <2>1. PICK u \in Thread : pc[u] = "wait" /\ sched' = Unblock(sched, u)
    BY <1>9 DEF ThreadUnblock
  <2>2. u # Idle /\ sched.status[u] = "BLOCKED"
    BY <2>1, AlarmTypes DEF AlarmInv, WaitersBlocked
  <2> QED BY <1>4, <2>1, <2>2
<1>10. CASE ThreadCreateUnblock(t)
  BY <1>4, <1>10 DEF ThreadCreateUnblock, AlarmInv, NewbornBlocked
<1> QED BY <1>5, <1>6, <1>7, <1>8, <1>9, <1>10 DEF Step

\* So do the idle thread and the timer interrupt.
LEMMA NextOrdered ==
  ASSUME AlarmInv, ReadyQueueSorted, [Next]_vars
  PROVE  Ordered(sched, sched')
<1>0. sched \in SchedState /\ SchedOK(sched) /\ ReadySorted(sched)
  BY AlarmTypes DEF ReadyQueueSorted
<1>1. CASE sched' = sched
  BY <1>0, <1>1 DEF Ordered
<1>2. CASE IdleBlock
  <2>1. sched' = Leave(sched, "BLOCKED")
    BY <1>2 DEF IdleBlock, Block
  <2> QED BY <1>0, <2>1, BlockProperties DEF Ordered
<1>3. CASE WakeBlockedThread
  <2>1. Head(blocked_list) \in Sleepers /\ sched' = Unblock(sched, Head(blocked_list))
    BY <1>3, WakeBlockedThreadStep DEF WakeBlockedThread
  <2>2. Head(blocked_list) \in Thread \ {Idle} /\ sched.status[Head(blocked_list)] = "BLOCKED"
    BY <2>1, AlarmTypes DEF AlarmInv, ElemInOneList
  <2> QED BY <1>0, <2>1, <2>2, UnblockProperties DEF Ordered
<1>4. CASE TimerReturn
  BY <1>0, <1>4, AlarmAssumption, ThreadTickProperties DEF TimerReturn, Ordered
<1>5. CASE TimerInterrupt \/ UNCHANGED vars
  BY <1>1, <1>5 DEF TimerInterrupt, vars
<1> QED BY <1>2, <1>3, <1>4, <1>5, StepOrdered DEF Next, Timer

\* The run queue is always in priority order, although only list_insert_ordered keeps it so.
THEOREM QueueInOrder == Spec => []ReadyQueueSorted
<1>1. AlarmInv /\ ReadyQueueSorted /\ [Next]_vars => ReadyQueueSorted'
  BY NextOrdered DEF Ordered, ReadyQueueSorted
<1> QED BY <1>1, InitReadySorted, AlarmInvariant, PTL DEF Spec

\* Priority scheduling: whoever is given the CPU outranks, or ranks with, every thread left
\* in the run queue, and the idle thread is given it only when the queue is empty.
THEOREM HighestRuns == Spec => DispatchesHighest
<1>1. AlarmInv /\ ReadyQueueSorted /\ [Next]_vars =>
        [sched'.current # sched.current =>
           \A t \in ListElems(sched'.ready_list) :
              /\ sched'.current # Idle
              /\ sched'.priority[t] <= sched'.priority[sched'.current]]_vars
  BY NextOrdered DEF Ordered, HighestDispatched
<1> QED BY <1>1, AlarmInvariant, QueueInOrder, PTL DEF Spec, DispatchesHighest

--------------------------------------------------------------------------------
(* The sleep list, and what timer_sleep promises.                          *)

\* The sleep list is in order, and each sleeper is to be woken at the tick it asked for.
SleepInv ==
  /\ SleepListSorted
  /\ \A t \in Sleepers : wake_tick[t] = end[t]

\* Nobody sleeps when the scheduler starts.
LEMMA InitSleepInv == Init => SleepInv
BY DEF Init, SleepInv, SleepListSorted, SortedBy, Sleepers, ListElems

\* Every step keeps SleepInv, and is one of SleepSpec or one it does not see.
LEMMA NextSleep ==
  ASSUME AlarmInv, SleepInv, [Next]_vars
  PROVE  SleepInv' /\ [SleepPromise!SleepNext]_(SleepPromise!sleepVars)
<1>0. /\ blocked_list \in Seq(Thread) /\ Sleepers \subseteq Thread /\ ticks \in 0 .. MaxTick
      /\ wake_tick \in [Thread -> Int] /\ end \in [Thread -> Int]
  BY AlarmTypes
<1> USE DEF SleepPromise!sleepVars
<1>1. CASE UNCHANGED <<ticks, blocked_list, wake_tick, end, interrupt>>
  BY <1>1 DEF SleepInv, SleepListSorted, Sleepers, WakeKey
<1>2. ASSUME NEW t \in Thread, TimerSleep(t)
      PROVE  SleepInv' /\ [SleepPromise!SleepNext]_(SleepPromise!sleepVars)
  <2>1. Running(t) /\ t \notin Sleepers /\ ~interrupt
    BY <1>2, RunningThread DEF TimerSleep
  <2>2. /\ \E n \in SleepArg : end' = [end EXCEPT ![t] = ticks + n]
        /\ UNCHANGED <<ticks, blocked_list, wake_tick, interrupt>>
    BY <1>2 DEF TimerSleep, alarmVars
  <2>3. Sleepers' = Sleepers
    BY <2>2 DEF Sleepers
  <2>4. SleepPromise!Ask(t)
    BY <2>1, <2>2, <2>3 DEF SleepPromise!Ask
  <2>5. \A u \in Sleepers : end'[u] = end[u]
    BY <1>0, <2>1, <2>2
  <2>6. SleepInv'
    BY <2>2, <2>3, <2>5 DEF SleepInv, SleepListSorted, WakeKey
  <2> QED BY <2>4, <2>6 DEF SleepPromise!SleepNext
<1>3. ASSUME NEW t \in Thread, ThreadYieldSleep(t)
      PROVE  SleepInv' /\ [SleepPromise!SleepNext]_(SleepPromise!sleepVars)
  <2>1. Running(t) /\ t \notin Sleepers /\ ~interrupt
    BY <1>3, RunningThread DEF ThreadYieldSleep
  <2>2. /\ wake_tick' = [wake_tick EXCEPT ![t] = end[t]]
        /\ blocked_list' = InsertOrdered(blocked_list, t, WakeKey')
        /\ UNCHANGED <<ticks, end, interrupt>>
    BY <1>3 DEF ThreadYieldSleep, WakeKey
  <2>3. Sleepers' = Sleepers \union {t}
    BY <1>3, ThreadYieldSleepStep
  <2>4. SleepPromise!Sleep(t)
    BY <2>1, <2>2, <2>3 DEF SleepPromise!Sleep
  <2>5. /\ WakeKey' \in [Thread -> Int]
        /\ \A u \in Sleepers : WakeKey'[u] = WakeKey[u] /\ wake_tick'[u] = wake_tick[u]
        /\ wake_tick'[t] = end[t]
    BY <1>0, <2>1, <2>2 DEF WakeKey
  <2>6. SortedBy(blocked_list, WakeKey')
    BY <2>5, SortedByElements DEF SleepInv, SleepListSorted, Sleepers
  <2>7. SleepListSorted'
    BY <1>0, <2>2, <2>5, <2>6, InsertOrderedSorted DEF SleepListSorted
  <2>8. \A u \in Sleepers' : wake_tick'[u] = end'[u]
    BY <2>2, <2>3, <2>5 DEF SleepInv
  <2> QED BY <2>4, <2>7, <2>8 DEF SleepInv, SleepPromise!SleepNext
<1>4. CASE TimerInterrupt
  <2>1. SleepPromise!Ring
    BY <1>4 DEF TimerInterrupt, alarmVars, SleepPromise!Ring, Sleepers
  <2>2. SleepInv'
    BY <1>4 DEF TimerInterrupt, alarmVars, SleepInv, SleepListSorted, Sleepers, WakeKey
  <2> QED BY <2>1, <2>2 DEF SleepPromise!SleepNext
<1>5. CASE WakeBlockedThread
  <2> DEFINE u == Head(blocked_list)
  <2>1. /\ interrupt /\ blocked_list # << >> /\ wake_tick[u] <= ticks
        /\ blocked_list' = Tail(blocked_list)
        /\ UNCHANGED <<ticks, wake_tick, end, interrupt>>
    BY <1>5 DEF WakeBlockedThread, FirstIsDue
  <2>2. u \in Sleepers /\ Sleepers' = Sleepers \ {u}
    BY <1>5, WakeBlockedThreadStep
  <2>3. SleepListSorted'
    <3>1. SortedBy(Tail(blocked_list), WakeKey)
      BY <1>0, <2>1, TailListProperties DEF SleepInv, SleepListSorted
    <3> QED BY <2>1, <3>1 DEF SleepListSorted, WakeKey
  <2> HIDE DEF u
  <2>4. wake_tick[u] = end[u]
    BY <2>2 DEF SleepInv
  <2>5. SleepPromise!Wake(u)
    BY <2>1, <2>2, <2>4 DEF SleepPromise!Wake
  <2>6. \A v \in Sleepers' : wake_tick'[v] = end'[v]
    BY <2>1, <2>2 DEF SleepInv
  <2>7. u \in Thread
    BY <1>0, <2>2
  <2> QED BY <2>3, <2>5, <2>6, <2>7 DEF SleepInv, SleepPromise!SleepNext
<1>6. CASE TimerReturn
  <2>1. /\ interrupt /\ interrupt' = FALSE
        /\ blocked_list = << >> \/ ~(wake_tick[Head(blocked_list)] <= ticks)
        /\ UNCHANGED <<ticks, blocked_list, wake_tick, end>>
    BY <1>6 DEF TimerReturn, FirstIsDue, alarmVars
  <2>2. SleepInv'
    BY <2>1 DEF SleepInv, SleepListSorted, Sleepers, WakeKey
  <2>3. \A t \in Sleepers : end[t] > ticks
    <3>1. CASE blocked_list = << >>
      BY <3>1 DEF Sleepers, ListElems
    <3>2. CASE blocked_list # << >>
      <4>1. /\ Head(blocked_list) \in Sleepers
            /\ Sleepers = ListElems(Tail(blocked_list)) \union {Head(blocked_list)}
            /\ \A t \in ListElems(Tail(blocked_list)) : WakeKey[Head(blocked_list)] >= WakeKey[t]
        BY <1>0, <3>2, TailListProperties DEF Sleepers, SleepInv, SleepListSorted
      <4>2. \A t \in Sleepers : wake_tick[t] >= wake_tick[Head(blocked_list)]
        <5>1. \A t \in Sleepers : wake_tick[t] \in Int /\ WakeKey[t] = -wake_tick[t]
          BY <1>0 DEF WakeKey
        <5>2. ASSUME NEW t \in Sleepers PROVE WakeKey[Head(blocked_list)] >= WakeKey[t]
          BY <4>1, <5>1
        <5> QED BY <4>1, <5>1, <5>2
      <4>3. wake_tick[Head(blocked_list)] > ticks
        BY <1>0, <2>1, <3>2, <4>1
      <4>4. \A t \in Sleepers : wake_tick[t] \in Int /\ wake_tick[t] = end[t]
        BY <1>0 DEF SleepInv
      <4> QED BY <1>0, <4>1, <4>2, <4>3, <4>4
    <3> QED BY <3>1, <3>2
  <2>4. SleepPromise!Quiet
    BY <2>1, <2>3 DEF SleepPromise!Quiet, Sleepers
  <2> QED BY <2>2, <2>4 DEF SleepPromise!SleepNext
<1>7. CASE IdleBlock \/ UNCHANGED vars
  BY <1>1, <1>7 DEF IdleBlock, vars, alarmVars
<1>8. ASSUME NEW t \in Thread,
             \/ ThreadYield(t) \/ ThreadBlock(t) \/ ThreadUnblock(t) \/ ThreadSetPriority(t)
             \/ ThreadCreate(t) \/ ThreadCreateUnblock(t) \/ ThreadCreateReturn(t) \/ ThreadExit(t)
      PROVE  SleepInv' /\ [SleepPromise!SleepNext]_(SleepPromise!sleepVars)
  BY <1>1, <1>8 DEF ThreadYield, ThreadBlock, ThreadUnblock, ThreadSetPriority, ThreadCreate,
                    ThreadCreateUnblock, ThreadCreateReturn, ThreadExit, alarmVars
<1> QED BY <1>2, <1>3, <1>4, <1>5, <1>6, <1>7, <1>8 DEF Next, Timer, Step

\* The sleep list is always in wake_tick order, so that wake_blocked_thread may stop at the
\* first thread that is not due.
THEOREM SleepersInOrder == Spec => []SleepListSorted
<1>1. AlarmInv /\ SleepInv /\ [Next]_vars => SleepInv'
  BY NextSleep
<1>2. SleepInv => SleepListSorted
  BY DEF SleepInv
<1> QED BY <1>1, <1>2, InitSleepInv, AlarmInvariant, PTL DEF Spec

\* timer_sleep implements SleepSpec: no thread wakes before the deadline it computed, and
\* none that is due sleeps through a timer interrupt.
THEOREM SleepImplemented == Spec => SleepIsKept
<1>1. AlarmInv /\ SleepInv /\ [Next]_vars =>
        SleepInv' /\ [SleepPromise!SleepNext]_(SleepPromise!sleepVars)
  BY NextSleep
<1>2. Init => SleepPromise!SleepInit
  BY DEF Init, SleepPromise!SleepInit, Sleepers, ListElems
<1> QED BY <1>1, <1>2, InitSleepInv, AlarmInvariant, PTL
        DEF Spec, SleepIsKept, SleepPromise!SleepSafety
===============================================================================
