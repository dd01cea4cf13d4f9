--------------------------- MODULE ConditionsProofs ---------------------------
(***************************************************************************)
(* Proofs about the condition variables of Conditions, for all sets of     *)
(* threads and of condition variables, all priorities, and whatever        *)
(* compare_sema_priority reads of a waiter that is not asleep yet.         *)
(***************************************************************************)
EXTENDS Conditions, ThreadsProofs

\* Who is in cond_wait before lock_release, in cond_signal or in cond_broadcast holds the
\* lock: no signal finds a waiter that has not released it.
HolderInv == \A t \in Thread : pc[t] \in {"hold", "queued", "broadcast"} => holder = t

\* The call of a thread that waits or broadcasts has a condition variable.
ArgInv == \A t \in Thread : t \in InWait \/ pc[t] = "broadcast" => arg[t] \in Cond

\* The inductive invariant.
CondInv == TypeOK /\ WaitingOrSignalled /\ HolderInv /\ ArgInv

LEMMA InitCondInv == Init => CondInv
<1> SUFFICES ASSUME Init PROVE CondInv
  OBVIOUS
<1>1. \A c \in Cond : waiters[c] = << >> /\ Len(waiters[c]) = 0
  BY DEF Init
<1>2. TypeOK
  <2>1. waiters \in [Cond -> Seq(Thread)]
    BY EmptySeq DEF Init
  <2> QED BY <2>1 DEF Init, TypeOK, PC
<1>3. WaitingOrSignalled
  BY <1>1 DEF Init, WaitingOrSignalled, NoDuplicates, ListElems, InWait
<1> QED BY <1>2, <1>3 DEF Init, CondInv, HolderInv, ArgInv, InWait

\* The comparison of two waiters compares numbers; of sleepers, their priorities.
LEMMA SemaPriorityType ==
  ASSUME NEW key \in SemaPriority
  PROVE  key \in [Thread -> Int] /\ \A t \in Thread : pc[t] = "asleep" => key[t] = Priority[t]
BY ConditionAssumption DEF SemaPriority

\* What cond_signal does when there is a waiter: it takes one out of the list, that has
\* released the lock, gives it its unit, and leaves it awake; among sleepers it takes one of
\* the highest priority.
LEMMA SignalEffect ==
  ASSUME CondInv, NEW t \in Thread, pc[t] \in {"hold", "broadcast"},
         NEW c \in Cond, waiters[c] # << >>, SignalFirst(c)
  PROVE  \E w \in Thread, rest \in Seq(Thread) :
            /\ w \in ListElems(waiters[c]) /\ pc[w] \in {"down", "asleep"}
            /\ waiters' = [waiters EXCEPT ![c] = rest]
            /\ value' = [value EXCEPT ![w] = 1]
            /\ pc' = [pc EXCEPT ![w] = "down"]
            /\ NoDuplicates(rest) /\ ListElems(rest) = ListElems(waiters[c]) \ {w}
            /\ \A u \in ListElems(rest) :
                 pc[w] = "asleep" /\ pc[u] = "asleep" => Priority[u] <= Priority[w]
<1> DEFINE s == waiters[c]
<1>1. s \in Seq(Thread) /\ NoDuplicates(s) /\ s # << >>
  BY DEF CondInv, TypeOK, WaitingOrSignalled
<1>2. PICK key \in SemaPriority :
         LET sorted == ListSort(s, key)
             w == Head(sorted)
         IN  /\ waiters' = [waiters EXCEPT ![c] = Tail(sorted)]
             /\ value' = [value EXCEPT ![w] = @ + 1]
             /\ pc' = IF pc[w] = "asleep" THEN [pc EXCEPT ![w] = "down"] ELSE pc
  BY DEF SignalFirst, CondInv, TypeOK
<1> DEFINE sorted == ListSort(s, key)
           w == Head(sorted)
           rest == Tail(sorted)
<1>3. /\ key \in [Thread -> Int]
      /\ \A u \in Thread : pc[u] = "asleep" => key[u] = Priority[u]
  BY SemaPriorityType
<1>4. /\ sorted \in Seq(Thread) /\ Len(sorted) = Len(s) /\ ListElems(sorted) = ListElems(s)
      /\ NoDuplicates(sorted) /\ SortedBy(sorted, key)
  BY <1>1, <1>3, ListSortProperties
<1>5. sorted # << >>
  <2>1. Len(s) # 0
    BY <1>1, EmptySeq
  <2> HIDE DEF sorted
  <2> QED BY <1>4, <2>1, EmptySeq
<1> HIDE DEF sorted
<1>6. /\ rest \in Seq(Thread) /\ w \in Thread /\ w \in ListElems(s)
      /\ NoDuplicates(rest) /\ ListElems(rest) = ListElems(s) \ {w}
      /\ \A y \in ListElems(rest) : key[w] >= key[y]
  BY <1>4, <1>5, TailListProperties
<1>7. /\ waiters' = [waiters EXCEPT ![c] = rest]
      /\ value' = [value EXCEPT ![w] = @ + 1]
      /\ pc' = IF pc[w] = "asleep" THEN [pc EXCEPT ![w] = "down"] ELSE pc
  BY <1>2 DEF sorted
<1> HIDE DEF w, rest
<1>8. w \in InWait /\ value[w] = 0
  BY <1>6 DEF CondInv, WaitingOrSignalled
<1>9. pc[w] \in {"down", "asleep"}
  <2>1. holder = t
    BY DEF CondInv, HolderInv
  <2>2. pc[w] # "queued"
    BY <1>6, <2>1 DEF CondInv, HolderInv
  <2> QED BY <1>8, <2>2 DEF InWait
<1>10. value' = [value EXCEPT ![w] = 1]
  BY <1>6, <1>7, <1>8 DEF CondInv, TypeOK
<1>11. pc' = [pc EXCEPT ![w] = "down"]
  BY <1>6, <1>7, <1>9 DEF CondInv, TypeOK
<1>12. ASSUME NEW u \in ListElems(rest), pc[w] = "asleep", pc[u] = "asleep"
       PROVE  Priority[u] <= Priority[w]
  <2>1. u \in Thread
    BY <1>6, ListElemsType
  <2>2. key[u] = Priority[u] /\ key[w] = Priority[w] /\ key[u] \in Int /\ key[w] \in Int
    BY <1>3, <1>6, <1>12, <2>1
  <2> QED BY <1>6, <1>12, <2>2
<1> QED BY <1>6, <1>7, <1>9, <1>10, <1>11, <1>12

\* A signal keeps the invariant.
LEMMA SignalKeepsInv ==
  ASSUME CondInv, NEW t \in Thread, pc[t] \in {"hold", "broadcast"},
         NEW c \in Cond, waiters[c] # << >>, SignalFirst(c), UNCHANGED <<holder, arg>>
  PROVE  CondInv'
<1>1. PICK w \in Thread, rest \in Seq(Thread) :
         /\ w \in ListElems(waiters[c]) /\ pc[w] \in {"down", "asleep"}
         /\ waiters' = [waiters EXCEPT ![c] = rest]
         /\ value' = [value EXCEPT ![w] = 1]
         /\ pc' = [pc EXCEPT ![w] = "down"]
         /\ NoDuplicates(rest) /\ ListElems(rest) = ListElems(waiters[c]) \ {w}
  BY SignalEffect
<1>2. TypeOK'
  BY <1>1 DEF CondInv, TypeOK, PC
<1>3. InWait' = InWait
  BY <1>1 DEF InWait, CondInv, TypeOK
<1>4. arg[w] = c /\ w \in InWait
  BY <1>1 DEF CondInv, WaitingOrSignalled
<1>5. WaitingOrSignalled'
  <2>1. ASSUME NEW d \in Cond
        PROVE  /\ NoDuplicates(waiters'[d])
               /\ ListElems(waiters'[d]) = {u \in InWait' : arg'[u] = d /\ value'[u] = 0}
    <3>1. CASE d = c
      <4>1. waiters'[d] = rest
        BY <1>1, <3>1 DEF CondInv, TypeOK
      <4>2. {u \in InWait' : arg'[u] = d /\ value'[u] = 0}
              = {u \in InWait : arg[u] = c /\ value[u] = 0} \ {w}
        BY <1>1, <1>3, <3>1 DEF CondInv, TypeOK, InWait
      <4> QED BY <1>1, <4>1, <4>2 DEF CondInv, WaitingOrSignalled
    <3>2. CASE d # c
      <4>1. waiters'[d] = waiters[d]
        BY <1>1, <3>2 DEF CondInv, TypeOK
      <4>2. {u \in InWait' : arg'[u] = d /\ value'[u] = 0}
              = {u \in InWait : arg[u] = d /\ value[u] = 0}
        BY <1>1, <1>3, <1>4, <3>2 DEF CondInv, TypeOK, InWait
      <4> QED BY <4>1, <4>2 DEF CondInv, WaitingOrSignalled
    <3> QED BY <3>1, <3>2
  <2>2. \A u \in Thread : value'[u] = 1 => pc'[u] = "down"
    BY <1>1 DEF CondInv, WaitingOrSignalled, TypeOK
  <2> QED BY <2>1, <2>2 DEF WaitingOrSignalled
<1>6. HolderInv'
  BY <1>1 DEF CondInv, HolderInv, TypeOK
<1>7. ArgInv'
  BY <1>1, <1>3 DEF CondInv, ArgInv, TypeOK
<1> QED BY <1>2, <1>5, <1>6, <1>7 DEF CondInv

\* Every step keeps the invariant: the signals by the lemma above, cond_wait because a
\* thread outside of it is in no list, the others because no list changes.
LEMMA NextCondInv == CondInv /\ [Next]_vars => CondInv'
<1> SUFFICES ASSUME CondInv, [Next]_vars PROVE CondInv'
  OBVIOUS
<1>0. TypeOK /\ WaitingOrSignalled /\ HolderInv /\ ArgInv
  BY DEF CondInv
<1>1. ASSUME NEW t \in Thread, LockAcquire(t) PROVE CondInv'
  <2>1. InWait' = InWait
    BY <1>0, <1>1 DEF LockAcquire, Goto, InWait, TypeOK
  <2>2. TypeOK' /\ HolderInv' /\ ArgInv'
    BY <1>0, <1>1, <2>1, ConditionAssumption DEF LockAcquire, Goto, TypeOK, PC, HolderInv, ArgInv
  <2>3. WaitingOrSignalled'
    BY <1>0, <1>1, <2>1 DEF LockAcquire, Goto, TypeOK, WaitingOrSignalled
  <2> QED BY <2>2, <2>3 DEF CondInv
<1>2. ASSUME NEW t \in Thread, LockRelease(t) PROVE CondInv'
  <2>1. InWait' = InWait
    BY <1>0, <1>2 DEF LockRelease, Goto, InWait, TypeOK
  <2>2. TypeOK' /\ HolderInv' /\ ArgInv'
    BY <1>0, <1>2, <2>1 DEF LockRelease, Goto, TypeOK, PC, HolderInv, ArgInv
  <2>3. WaitingOrSignalled'
    BY <1>0, <1>2, <2>1 DEF LockRelease, Goto, TypeOK, WaitingOrSignalled
  <2> QED BY <2>2, <2>3 DEF CondInv
<1>3. ASSUME NEW t \in Thread, CondWait(t) PROVE CondInv'
  <2>1. PICK c \in Cond, key \in SemaPriority :
          /\ waiters' = [waiters EXCEPT ![c] = InsertOrdered(waiters[c], t, key)]
          /\ arg' = [arg EXCEPT ![t] = c]
    BY <1>0, <1>3 DEF CondWait, TypeOK
  <2>2. /\ value' = [value EXCEPT ![t] = 0] /\ holder' = holder
        /\ pc[t] = "hold" /\ pc' = [pc EXCEPT ![t] = "queued"]
    BY <1>3 DEF CondWait, Goto
  <2> DEFINE longer == InsertOrdered(waiters[c], t, key)
  <2>3. /\ longer \in Seq(Thread) /\ ListElems(longer) = ListElems(waiters[c]) \union {t}
        /\ NoDuplicates(longer)
    <3>1. t \notin ListElems(waiters[c]) /\ waiters[c] \in Seq(Thread) /\ NoDuplicates(waiters[c])
      BY <1>0, <2>2 DEF WaitingOrSignalled, InWait, TypeOK
    <3>2. key \in [Thread -> Int]
      BY SemaPriorityType
    <3> QED BY <3>1, <3>2, InsertOrderedProperties
  <2>4. waiters' = [waiters EXCEPT ![c] = longer]
    BY <2>1
  <2> HIDE DEF longer
  <2>5. InWait' = InWait \union {t} /\ t \notin InWait
    BY <1>0, <2>2 DEF InWait, TypeOK
  <2>6. TypeOK' /\ HolderInv' /\ ArgInv'
    BY <1>0, <2>1, <2>2, <2>3, <2>4, <2>5 DEF TypeOK, PC, HolderInv, ArgInv
  <2>7. ASSUME NEW d \in Cond
        PROVE  /\ NoDuplicates(waiters'[d])
               /\ ListElems(waiters'[d]) = {u \in InWait' : arg'[u] = d /\ value'[u] = 0}
    <3>0. /\ NoDuplicates(waiters[d])
          /\ ListElems(waiters[d]) = {u \in InWait : arg[u] = d /\ value[u] = 0}
      BY <1>0 DEF WaitingOrSignalled
    <3>1. CASE d = c
      <4>1. waiters'[d] = longer
        BY <1>0, <2>4, <3>1 DEF TypeOK
      <4>2. {u \in InWait' : arg'[u] = d /\ value'[u] = 0}
              = {u \in InWait : arg[u] = d /\ value[u] = 0} \union {t}
        BY <1>0, <2>1, <2>2, <2>5, <3>1 DEF TypeOK, InWait
      <4> QED BY <2>3, <3>0, <3>1, <4>1, <4>2
    <3>2. CASE d # c
      <4>1. waiters'[d] = waiters[d]
        BY <1>0, <2>4, <3>2 DEF TypeOK
      <4>2. {u \in InWait' : arg'[u] = d /\ value'[u] = 0}
              = {u \in InWait : arg[u] = d /\ value[u] = 0}
        BY <1>0, <2>1, <2>2, <2>5, <3>2 DEF TypeOK, InWait
      <4> QED BY <3>0, <4>1, <4>2
    <3> QED BY <3>1, <3>2
  <2>8. \A u \in Thread : value'[u] = 1 => pc'[u] = "down"
    BY <1>0, <2>2 DEF WaitingOrSignalled, TypeOK
  <2> QED BY <2>6, <2>7, <2>8 DEF CondInv, WaitingOrSignalled
<1>4. ASSUME NEW t \in Thread, WaitRelease(t) PROVE CondInv'
  <2>1. InWait' = InWait
    BY <1>0, <1>4 DEF WaitRelease, Goto, InWait, TypeOK
  <2>2. TypeOK' /\ HolderInv' /\ ArgInv'
    BY <1>0, <1>4, <2>1 DEF WaitRelease, Goto, TypeOK, PC, HolderInv, ArgInv
  <2>3. WaitingOrSignalled'
    BY <1>0, <1>4, <2>1 DEF WaitRelease, Goto, TypeOK, WaitingOrSignalled
  <2> QED BY <2>2, <2>3 DEF CondInv
<1>5. ASSUME NEW t \in Thread, SemaDown(t) PROVE CondInv'
  <2>1. CASE value[t] = 0
    <3>1. UNCHANGED <<holder, waiters, arg, value>> /\ pc[t] = "down"
          /\ pc' = [pc EXCEPT ![t] = "asleep"]
      BY <1>5, <2>1 DEF SemaDown, Goto
    <3>2. InWait' = InWait
      BY <1>0, <3>1 DEF InWait, TypeOK
    <3>3. TypeOK' /\ HolderInv' /\ ArgInv'
      BY <1>0, <3>1, <3>2 DEF TypeOK, PC, HolderInv, ArgInv
    <3>4. WaitingOrSignalled'
      BY <1>0, <2>1, <3>1, <3>2 DEF TypeOK, WaitingOrSignalled
    <3> QED BY <3>3, <3>4 DEF CondInv
  <2>2. CASE value[t] = 1
    <3>1. /\ UNCHANGED <<holder, waiters, arg>> /\ pc[t] = "down"
          /\ pc' = [pc EXCEPT ![t] = "acquire"] /\ value' = [value EXCEPT ![t] = 0]
      BY <1>0, <1>5, <2>2 DEF SemaDown, Goto, TypeOK
    <3>2. InWait' = InWait \ {t}
      BY <1>0, <3>1 DEF InWait, TypeOK
    <3>3. TypeOK' /\ HolderInv' /\ ArgInv'
      BY <1>0, <3>1, <3>2 DEF TypeOK, PC, HolderInv, ArgInv
    <3>4. \A d \in Cond : {u \in InWait' : arg'[u] = d /\ value'[u] = 0}
                            = {u \in InWait : arg[u] = d /\ value[u] = 0}
      BY <1>0, <2>2, <3>1, <3>2 DEF TypeOK, InWait
    <3>5. WaitingOrSignalled'
      BY <1>0, <3>1, <3>4 DEF TypeOK, WaitingOrSignalled
    <3> QED BY <3>3, <3>5 DEF CondInv
  <2>3. value[t] \in {0, 1}
    BY <1>0 DEF TypeOK
  <2> QED BY <2>1, <2>2, <2>3
<1>6. ASSUME NEW t \in Thread, WaitAcquire(t) PROVE CondInv'
  <2>1. InWait' = InWait /\ t \notin InWait
    BY <1>0, <1>6 DEF WaitAcquire, Goto, InWait, TypeOK
  <2>2. TypeOK' /\ HolderInv' /\ ArgInv'
    BY <1>0, <1>6, <2>1, ConditionAssumption DEF WaitAcquire, Goto, TypeOK, PC, HolderInv, ArgInv
  <2>3. \A d \in Cond : {u \in InWait' : arg'[u] = d /\ value'[u] = 0}
                          = {u \in InWait : arg[u] = d /\ value[u] = 0}
    BY <1>0, <1>6, <2>1 DEF WaitAcquire, TypeOK, InWait
  <2>4. WaitingOrSignalled'
    BY <1>0, <1>6, <2>3 DEF WaitAcquire, Goto, TypeOK, WaitingOrSignalled
  <2> QED BY <2>2, <2>4 DEF CondInv
<1>7. ASSUME NEW t \in Thread, CondSignal(t) PROVE CondInv'
  BY <1>7, SignalKeepsInv DEF CondSignal
<1>8. ASSUME NEW t \in Thread, CondBroadcast(t) PROVE CondInv'
  <2>1. PICK c \in Cond : arg' = [arg EXCEPT ![t] = c]
    BY <1>8 DEF CondBroadcast
  <2>2. UNCHANGED <<holder, waiters, value>> /\ pc[t] = "hold" /\ pc' = [pc EXCEPT ![t] = "broadcast"]
    BY <1>8 DEF CondBroadcast, Goto
  <2>3. InWait' = InWait /\ t \notin InWait
    BY <1>0, <2>2 DEF InWait, TypeOK
  <2>4. TypeOK' /\ HolderInv' /\ ArgInv'
    BY <1>0, <2>1, <2>2, <2>3 DEF TypeOK, PC, HolderInv, ArgInv
  <2>5. \A d \in Cond : {u \in InWait' : arg'[u] = d /\ value'[u] = 0}
                          = {u \in InWait : arg[u] = d /\ value[u] = 0}
    BY <1>0, <2>1, <2>2, <2>3 DEF TypeOK, InWait
  <2>6. WaitingOrSignalled'
    BY <1>0, <2>2, <2>5 DEF TypeOK, WaitingOrSignalled
  <2> QED BY <2>4, <2>6 DEF CondInv
<1>9. ASSUME NEW t \in Thread, BroadcastSignal(t) PROVE CondInv'
  <2>1. arg[t] \in Cond
    BY <1>0, <1>9 DEF BroadcastSignal, ArgInv
  <2> QED BY <1>9, <2>1, SignalKeepsInv DEF BroadcastSignal
<1>10. ASSUME NEW t \in Thread, BroadcastReturn(t) PROVE CondInv'
  <2>1. /\ UNCHANGED <<holder, waiters, value>> /\ pc[t] = "broadcast"
        /\ pc' = [pc EXCEPT ![t] = "hold"] /\ arg' = [arg EXCEPT ![t] = NoCond]
    BY <1>10 DEF BroadcastReturn, Goto
  <2>2. InWait' = InWait /\ t \notin InWait
    BY <1>0, <2>1 DEF InWait, TypeOK
  <2>3. TypeOK' /\ HolderInv' /\ ArgInv'
    BY <1>0, <2>1, <2>2 DEF TypeOK, PC, HolderInv, ArgInv
  <2>4. \A d \in Cond : {u \in InWait' : arg'[u] = d /\ value'[u] = 0}
                          = {u \in InWait : arg[u] = d /\ value[u] = 0}
    BY <1>0, <2>1, <2>2 DEF TypeOK, InWait
  <2>5. WaitingOrSignalled'
    BY <1>0, <2>1, <2>4 DEF TypeOK, WaitingOrSignalled
  <2> QED BY <2>3, <2>5 DEF CondInv
<1>11. CASE UNCHANGED vars
  BY <1>0, <1>11 DEF vars, CondInv, TypeOK, WaitingOrSignalled, HolderInv, ArgInv, InWait
<1> QED BY <1>1, <1>2, <1>3, <1>4, <1>5, <1>6, <1>7, <1>8, <1>9, <1>10, <1>11
        DEF Next, Wait, Broadcast

LEMMA CondInvariant == Spec => []CondInv
BY InitCondInv, NextCondInv, PTL DEF Spec

\* Every variable of the condition variables stays in its domain.
THEOREM CondTypeCorrect == Spec => []TypeOK
<1>1. CondInv => TypeOK
  BY DEF CondInv
<1> QED BY <1>1, CondInvariant, PTL

\* The list of a condition variable is exactly those in cond_wait for it whom no signal has
\* found, each once; nobody sleeps who has been signalled.
THEOREM NobodyForgotten == Spec => []WaitingOrSignalled
<1>1. CondInv => WaitingOrSignalled
  BY DEF CondInv
<1> QED BY <1>1, CondInvariant, PTL

--------------------------------------------------------------------------------
(* cond_signal wakes the highest sleeper.                                  *)

\* The step property of WakesHighestSleeper.
HighestOf(c) ==
  \A w \in ListElems(waiters[c]) \ ListElems(waiters'[c]) :
    \A u \in ListElems(waiters'[c]) :
       pc[w] = "asleep" /\ pc[u] = "asleep" => Priority[u] <= Priority[w]

LEMMA SignalHighest ==
  ASSUME CondInv, NEW t \in Thread, pc[t] \in {"hold", "broadcast"},
         NEW c \in Cond, waiters[c] # << >>, SignalFirst(c), NEW d \in Cond
  PROVE  HighestOf(d)
<1>1. PICK w \in Thread, rest \in Seq(Thread) :
         /\ w \in ListElems(waiters[c])
         /\ waiters' = [waiters EXCEPT ![c] = rest]
         /\ ListElems(rest) = ListElems(waiters[c]) \ {w}
         /\ \A u \in ListElems(rest) :
              pc[w] = "asleep" /\ pc[u] = "asleep" => Priority[u] <= Priority[w]
  BY SignalEffect
<1>2. CASE d = c
  <2>1. waiters'[d] = rest
    BY <1>1, <1>2 DEF CondInv, TypeOK
  <2> QED BY <1>1, <1>2, <2>1 DEF HighestOf
<1>3. CASE d # c
  <2>1. waiters'[d] = waiters[d]
    BY <1>1, <1>3 DEF CondInv, TypeOK
  <2> QED BY <2>1 DEF HighestOf
<1> QED BY <1>2, <1>3

\* Only signals take waiters out of a list: a step that is none keeps those that are there.
LEMMA WaitersStay ==
  ASSUME CondInv, NEW t \in Thread, CondWait(t), NEW d \in Cond
  PROVE  ListElems(waiters[d]) \subseteq ListElems(waiters'[d])
<1>1. PICK c \in Cond, key \in SemaPriority :
        waiters' = [waiters EXCEPT ![c] = InsertOrdered(waiters[c], t, key)]
  BY DEF CondWait, CondInv, TypeOK
<1>2. ListElems(InsertOrdered(waiters[c], t, key)) = ListElems(waiters[c]) \union {t}
  <2>1. waiters[c] \in Seq(Thread) /\ key \in [Thread -> Int]
    BY SemaPriorityType DEF CondInv, TypeOK
  <2> QED BY <2>1, InsertOrderedProperties
<1>3. waiters'[d] = IF d = c THEN InsertOrdered(waiters[c], t, key) ELSE waiters[d]
  BY <1>1 DEF CondInv, TypeOK
<1> QED BY <1>2, <1>3

LEMMA NextHighest == CondInv /\ [Next]_vars => \A d \in Cond : HighestOf(d)
<1> SUFFICES ASSUME CondInv, [Next]_vars, NEW d \in Cond PROVE HighestOf(d)
  OBVIOUS
<1>1. ASSUME NEW t \in Thread, CondSignal(t) PROVE HighestOf(d)
  BY <1>1, SignalHighest DEF CondSignal
<1>2. ASSUME NEW t \in Thread, BroadcastSignal(t) PROVE HighestOf(d)
  <2>1. arg[t] \in Cond
    BY <1>2 DEF BroadcastSignal, ArgInv, CondInv
  <2> QED BY <1>2, <2>1, SignalHighest DEF BroadcastSignal
<1>3. ASSUME NEW t \in Thread, CondWait(t) PROVE HighestOf(d)
  BY <1>3, WaitersStay DEF HighestOf
<1>4. CASE UNCHANGED waiters
  BY <1>4 DEF HighestOf
<1>5. ASSUME NEW t \in Thread,
             \/ LockAcquire(t) \/ LockRelease(t) \/ WaitRelease(t) \/ SemaDown(t)
             \/ WaitAcquire(t) \/ CondBroadcast(t) \/ BroadcastReturn(t)
      PROVE  UNCHANGED waiters
  BY <1>5 DEF LockAcquire, LockRelease, WaitRelease, SemaDown, WaitAcquire, CondBroadcast,
              BroadcastReturn
<1> QED BY <1>1, <1>2, <1>3, <1>4, <1>5 DEF Next, Wait, Broadcast, vars

\* Of two waiters that are asleep cond_signal and cond_broadcast wake the one of the higher
\* priority first, however the insertions have ordered the list.
THEOREM HighestSleeperFirst == Spec => WakesHighestSleeper
<1>1. CondInv /\ [Next]_vars =>
        [\A c \in Cond : \A w \in ListElems(waiters[c]) \ ListElems(waiters'[c]) :
           \A u \in ListElems(waiters'[c]) :
              pc[w] = "asleep" /\ pc[u] = "asleep" => Priority[u] <= Priority[w]]_vars
  BY NextHighest DEF HighestOf
<1> QED BY <1>1, CondInvariant, PTL DEF Spec, WakesHighestSleeper

--------------------------------------------------------------------------------
(* The refinement of MonitorSpec.                                          *)

\* The state of the monitor that a state of the condition variables stands for.
Waiting == [c \in Cond |-> {t \in ListElems(waiters[c]) : pc[t] # "queued"}]
Signalled == {t \in Thread : pc[t] = "acquire" \/ value[t] = 1}

\* A step of the monitor, or none.
MonitorStep == [Monitor!MonitorNext]_<<holder, Waiting, Signalled>>

\* A signal, sent by the holder of the lock, reaches a thread that waits in the monitor.
LEMMA SignalStep ==
  ASSUME CondInv, NEW t \in Thread, pc[t] \in {"hold", "broadcast"},
         NEW c \in Cond, waiters[c] # << >>, SignalFirst(c), UNCHANGED <<holder, arg>>
  PROVE  MonitorStep
<1>1. PICK w \in Thread, rest \in Seq(Thread) :
         /\ w \in ListElems(waiters[c]) /\ pc[w] \in {"down", "asleep"}
         /\ waiters' = [waiters EXCEPT ![c] = rest]
         /\ value' = [value EXCEPT ![w] = 1]
         /\ pc' = [pc EXCEPT ![w] = "down"]
         /\ ListElems(rest) = ListElems(waiters[c]) \ {w}
  BY SignalEffect
<1>2. holder = t
  BY DEF CondInv, HolderInv
<1>3. w \in Waiting[c]
  BY <1>1 DEF Waiting
<1>4. Waiting' = [Waiting EXCEPT ![c] = @ \ {w}]
  <2>1. ASSUME NEW d \in Cond PROVE Waiting'[d] = IF d = c THEN Waiting[c] \ {w} ELSE Waiting[d]
    <3>1. ListElems(waiters'[d]) = IF d = c THEN ListElems(waiters[c]) \ {w} ELSE ListElems(waiters[d])
      BY <1>1 DEF CondInv, TypeOK
    <3>2. \A u \in Thread : pc'[u] # "queued" <=> pc[u] # "queued"
      BY <1>1 DEF CondInv, TypeOK
    <3>3. ListElems(waiters[d]) \subseteq Thread /\ ListElems(waiters[c]) \subseteq Thread
      BY ListElemsType DEF CondInv, TypeOK
    <3> QED BY <3>1, <3>2, <3>3 DEF Waiting
  <2>2. Waiting = [d \in Cond |-> Waiting[d]] /\ Waiting' = [d \in Cond |-> Waiting'[d]]
    BY DEF Waiting
  <2> QED BY <2>1, <2>2
<1>5. Signalled' = Signalled \union {w}
  BY <1>1 DEF Signalled, CondInv, TypeOK
<1>6. Monitor!Signal(t, c, w)
  BY <1>2, <1>3, <1>4, <1>5 DEF Monitor!Signal, Waiting, Signalled
<1> QED BY <1>6 DEF MonitorStep, Monitor!MonitorNext

\* The waiters of the monitor and the signalled threads stay what they are when the lists
\* and the units do, and nobody comes to release the lock or to take it again.
LEMMA MonitorUnchanged ==
  ASSUME CondInv, UNCHANGED <<waiters, value>>,
         \A u \in Thread : (pc'[u] = "queued" <=> pc[u] = "queued")
                            /\ (pc'[u] = "acquire" <=> pc[u] = "acquire")
  PROVE  Waiting' = Waiting /\ Signalled' = Signalled
<1>1. \A d \in Cond : ListElems(waiters[d]) \subseteq Thread
  BY ListElemsType DEF CondInv, TypeOK
<1>2. \A d \in Cond : {u \in ListElems(waiters'[d]) : pc'[u] # "queued"}
                        = {u \in ListElems(waiters[d]) : pc[u] # "queued"}
  BY <1>1
<1> QED BY <1>2 DEF Waiting, Signalled

LEMMA NextMonitor == CondInv /\ [Next]_vars => MonitorStep
<1> SUFFICES ASSUME CondInv, [Next]_vars PROVE MonitorStep
  OBVIOUS
<1>0. TypeOK /\ WaitingOrSignalled /\ HolderInv /\ ArgInv
  BY DEF CondInv
<1>1. \A d \in Cond : ListElems(waiters[d]) = {u \in InWait : arg[u] = d /\ value[u] = 0}
  BY <1>0 DEF WaitingOrSignalled
<1>2. ASSUME NEW t \in Thread, LockAcquire(t) PROVE MonitorStep
  <2>1. Waiting' = Waiting /\ Signalled' = Signalled
    BY <1>0, <1>2, MonitorUnchanged DEF LockAcquire, Goto, TypeOK
  <2>2. t \notin Signalled /\ \A c \in Cond : t \notin Waiting[c]
    BY <1>0, <1>1, <1>2 DEF LockAcquire, Signalled, Waiting, InWait, WaitingOrSignalled
  <2>3. Monitor!Enter(t)
    BY <1>2, <2>1, <2>2 DEF LockAcquire, Monitor!Enter, Waiting, Signalled
  <2> QED BY <2>3 DEF MonitorStep, Monitor!MonitorNext
<1>3. ASSUME NEW t \in Thread, LockRelease(t) PROVE MonitorStep
  <2>1. Waiting' = Waiting /\ Signalled' = Signalled
    BY <1>0, <1>3, MonitorUnchanged DEF LockRelease, Goto, TypeOK
  <2>2. holder = t
    BY <1>0, <1>3 DEF LockRelease, HolderInv
  <2>3. Monitor!Exit(t)
    BY <1>3, <2>1, <2>2 DEF LockRelease, Monitor!Exit, Waiting, Signalled
  <2> QED BY <2>3 DEF MonitorStep, Monitor!MonitorNext
<1>4. ASSUME NEW t \in Thread, CondWait(t) PROVE MonitorStep
  <2>1. PICK c \in Cond, key \in SemaPriority :
          /\ waiters' = [waiters EXCEPT ![c] = InsertOrdered(waiters[c], t, key)]
          /\ value' = [value EXCEPT ![t] = 0]
          /\ pc[t] = "hold" /\ pc' = [pc EXCEPT ![t] = "queued"] /\ holder' = holder
    BY <1>0, <1>4 DEF CondWait, TypeOK, Goto
  <2>2. ListElems(InsertOrdered(waiters[c], t, key)) = ListElems(waiters[c]) \union {t}
    <3>1. waiters[c] \in Seq(Thread) /\ key \in [Thread -> Int]
      BY <1>0, SemaPriorityType DEF TypeOK
    <3> QED BY <3>1, InsertOrderedProperties
  <2>3. \A d \in Cond : ListElems(waiters'[d])
                          = IF d = c THEN ListElems(waiters[c]) \union {t} ELSE ListElems(waiters[d])
    BY <1>0, <2>1, <2>2 DEF TypeOK
  <2>4. \A d \in Cond : t \notin ListElems(waiters[d]) /\ ListElems(waiters[d]) \subseteq Thread
    BY <1>1, <2>1 DEF InWait
  <2>5. \A u \in Thread : u # t => pc'[u] = pc[u]
    BY <1>0, <2>1 DEF TypeOK
  <2>6. \A d \in Cond : {u \in ListElems(waiters'[d]) : pc'[u] # "queued"}
                          = {u \in ListElems(waiters[d]) : pc[u] # "queued"}
    BY <1>0, <2>1, <2>3, <2>4, <2>5 DEF TypeOK
  <2>7. Waiting' = Waiting
    BY <2>6 DEF Waiting
  <2>8. Signalled' = Signalled
    BY <1>0, <2>1 DEF Signalled, TypeOK, WaitingOrSignalled
  <2> QED BY <2>1, <2>7, <2>8 DEF MonitorStep
<1>5. ASSUME NEW t \in Thread, WaitRelease(t) PROVE MonitorStep
  <2>1. /\ UNCHANGED <<waiters, value, arg>> /\ holder' = NoThread
        /\ pc[t] = "queued" /\ pc' = [pc EXCEPT ![t] = "down"]
    BY <1>5 DEF WaitRelease, Goto
  <2>2. holder = t /\ arg[t] \in Cond /\ t \in InWait /\ value[t] = 0
    BY <1>0, <2>1 DEF HolderInv, ArgInv, InWait, WaitingOrSignalled, TypeOK
  <2>3. ASSUME NEW d \in Cond
        PROVE  Waiting'[d] = IF d = arg[t] THEN Waiting[d] \union {t} ELSE Waiting[d]
    <3>1. t \in ListElems(waiters[d]) <=> d = arg[t]
      BY <1>1, <2>2
    <3>2. ListElems(waiters'[d]) = ListElems(waiters[d]) /\ ListElems(waiters[d]) \subseteq Thread
      BY <1>1, <2>1 DEF InWait
    <3>3. pc'[t] = "down" /\ \A u \in Thread : u # t => pc'[u] = pc[u]
      BY <1>0, <2>1 DEF TypeOK
    <3>4. /\ Waiting[d] = {u \in ListElems(waiters[d]) : pc[u] # "queued"}
          /\ Waiting'[d] = {u \in ListElems(waiters'[d]) : pc'[u] # "queued"}
      BY DEF Waiting
    <3> QED BY <2>1, <3>1, <3>2, <3>3, <3>4
  <2>4. Waiting' = [Waiting EXCEPT ![arg[t]] = @ \union {t}]
    <3>1. Waiting = [d \in Cond |-> Waiting[d]] /\ Waiting' = [d \in Cond |-> Waiting'[d]]
      BY DEF Waiting
    <3> QED BY <2>2, <2>3, <3>1
  <2>5. Signalled' = Signalled
    BY <1>0, <2>1 DEF Signalled, TypeOK
  <2>6. PICK c \in Cond : c = arg[t]
    BY <2>2
  <2>7. Monitor!Wait(t, c)
    BY <2>1, <2>2, <2>4, <2>5, <2>6 DEF Monitor!Wait, Waiting, Signalled
  <2> QED BY <2>7 DEF MonitorStep, Monitor!MonitorNext
<1>6. ASSUME NEW t \in Thread, SemaDown(t) PROVE MonitorStep
  <2>1. pc[t] = "down" /\ holder' = holder /\ waiters' = waiters
    BY <1>6 DEF SemaDown
  <2>2. CASE value[t] = 0
    <3>1. Waiting' = Waiting /\ Signalled' = Signalled
      BY <1>0, <1>6, <2>1, <2>2, MonitorUnchanged DEF SemaDown, Goto, TypeOK
    <3> QED BY <2>1, <3>1 DEF MonitorStep
  <2>3. CASE value[t] = 1
    <3>1. pc' = [pc EXCEPT ![t] = "acquire"] /\ value' = [value EXCEPT ![t] = 0]
      BY <1>0, <1>6, <2>3 DEF SemaDown, Goto, TypeOK
    <3>2. \A d \in Cond : t \notin ListElems(waiters[d]) /\ ListElems(waiters[d]) \subseteq Thread
      BY <1>1, <2>3 DEF InWait
    <3>3. \A u \in Thread : u # t => pc'[u] = pc[u] /\ value'[u] = value[u]
      BY <1>0, <3>1 DEF TypeOK
    <3>4. \A d \in Cond : {u \in ListElems(waiters'[d]) : pc'[u] # "queued"}
                            = {u \in ListElems(waiters[d]) : pc[u] # "queued"}
      BY <2>1, <3>2, <3>3
    <3>5. Waiting' = Waiting
      BY <3>4 DEF Waiting
    <3>6. Signalled' = Signalled
      BY <1>0, <2>3, <3>1, <3>3 DEF Signalled, TypeOK
    <3> QED BY <2>1, <3>5, <3>6 DEF MonitorStep
  <2>4. value[t] \in {0, 1}
    BY <1>0 DEF TypeOK
  <2> QED BY <2>2, <2>3, <2>4
<1>7. ASSUME NEW t \in Thread, WaitAcquire(t) PROVE MonitorStep
  <2>1. /\ pc[t] = "acquire" /\ holder = NoThread /\ holder' = t
        /\ UNCHANGED <<waiters, value>> /\ pc' = [pc EXCEPT ![t] = "hold"]
    BY <1>7 DEF WaitAcquire, Goto
  <2>2. value[t] = 0
    BY <1>0, <2>1 DEF WaitingOrSignalled, TypeOK
  <2>3. \A u \in Thread : u # t => pc'[u] = pc[u]
    BY <1>0, <2>1 DEF TypeOK
  <2>4. pc'[t] = "hold"
    BY <1>0, <2>1 DEF TypeOK
  <2>5. \A d \in Cond : {u \in ListElems(waiters'[d]) : pc'[u] # "queued"}
                          = {u \in ListElems(waiters[d]) : pc[u] # "queued"}
    <3>1. \A d \in Cond : ListElems(waiters[d]) \subseteq Thread
      BY ListElemsType, <1>0 DEF TypeOK
    <3> QED BY <2>1, <2>3, <2>4, <3>1
  <2>6. Waiting' = Waiting
    BY <2>5 DEF Waiting
  <2>7. t \in Signalled /\ Signalled' = Signalled \ {t}
    BY <2>1, <2>2, <2>3, <2>4 DEF Signalled
  <2>8. Monitor!Return(t)
    BY <2>1, <2>6, <2>7 DEF Monitor!Return, Waiting, Signalled
  <2> QED BY <2>8 DEF MonitorStep, Monitor!MonitorNext
<1>8. ASSUME NEW t \in Thread, CondSignal(t) PROVE MonitorStep
  BY <1>8, SignalStep DEF CondSignal
<1>9. ASSUME NEW t \in Thread, BroadcastSignal(t) PROVE MonitorStep
  <2>1. arg[t] \in Cond
    BY <1>0, <1>9 DEF BroadcastSignal, ArgInv
  <2> QED BY <1>9, <2>1, SignalStep DEF BroadcastSignal
<1>10. ASSUME NEW t \in Thread, CondBroadcast(t) \/ BroadcastReturn(t) PROVE MonitorStep
  <2>1. UNCHANGED <<holder, waiters, value>>
    BY <1>10 DEF CondBroadcast, BroadcastReturn
  <2>2. Waiting' = Waiting /\ Signalled' = Signalled
    BY <1>0, <1>10, <2>1, MonitorUnchanged DEF CondBroadcast, BroadcastReturn, Goto, TypeOK
  <2> QED BY <2>1, <2>2 DEF MonitorStep
<1>11. CASE UNCHANGED vars
  BY <1>11 DEF vars, MonitorStep, Waiting, Signalled
<1> QED BY <1>2, <1>3, <1>4, <1>5, <1>6, <1>7, <1>8, <1>9, <1>10, <1>11
        DEF Next, Wait, Broadcast

\* cond_wait releases the lock and begins to wait in one step as far as any signal can tell:
\* the condition variables implement a Mesa monitor.
THEOREM WaitImplemented == Spec => WaitIsAtomic
<1>1. CondInv /\ [Next]_vars => [Monitor!MonitorNext]_(Monitor!monitorVars)
  BY NextMonitor DEF MonitorStep, Monitor!monitorVars, Waiting, Signalled
<1>2. Init => Monitor!MonitorInit
  BY DEF Init, Monitor!MonitorInit, ListElems
<1> QED BY <1>1, <1>2, CondInvariant, PTL DEF Spec, WaitIsAtomic, Monitor!MonitorSafety
===============================================================================
