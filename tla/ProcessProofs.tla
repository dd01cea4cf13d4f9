----------------------------- MODULE ProcessProofs -----------------------------
(***************************************************************************)
(* Proofs about the life of processes of module Process, for every set of  *)
(* pages and every number of tids, whoever executes whom and however loads *)
(* end.                                                                    *)
(***************************************************************************)
EXTENDS Process, TLAPS

Starting == {"start", "load", "loaded", "failed"}

\* Types.  No code stores an exit status in struct thread.
TypeInv ==
  /\ current \in Proc \union {NoProc} /\ active \in Proc \union {NoProc}
  /\ pc \in [Proc -> PC]
  /\ tid \in [Proc -> 0 .. MaxTid] /\ next_tid \in 1 .. MaxTid + 1
  /\ parent \in [Proc -> Proc \union {NoProc}] /\ child \in [Proc -> SUBSET Proc]
  /\ exit \in [Proc -> {0}]
  /\ pagedir \in [Proc -> BOOLEAN] /\ dirs \in SUBSET Proc
  /\ exec_lock \in [Proc -> Int] /\ sema_child \in [Proc -> Int] /\ sema_mem \in [Proc -> Int]
  /\ console \in Proc \union {NoProc} /\ panic \in BOOLEAN
  /\ target \in [Proc -> Proc \union {NoProc}] /\ newborn \in [Proc -> Proc \union {NoProc}]
  /\ status \in [Tid -> Int \union {NoStatus}]
  /\ reaps \in [Tid -> Int]

\* Processes have tids of their own, below next_tid; of those above none has been reaped.
TidInv ==
  /\ \A p \in Proc : pc[p] # "free" => tid[p] \in Tid /\ tid[p] < next_tid
  /\ \A p, q \in Proc : pc[p] # "free" /\ pc[q] # "free" /\ tid[p] = tid[q] => p = q
  /\ \A n \in Tid : n >= next_tid => reaps[n] = 0

\* A process on the list of children is there, knows its parent, has not been told to go,
\* and has not been reaped.
TreeInv ==
  \A p \in Proc : pc[p] # "free" => \A c \in child[p] :
     /\ pc[c] \notin {"free", "dying"} /\ parent[c] = p
     /\ sema_mem[c] = 0 /\ reaps[tid[c]] = 0

\* Who waits, waits for a child of its own; who has it reaped, for one that lingers.
TargetInv ==
  \A p \in Proc :
     /\ pc[p] \in {"wait", "reap"} => target[p] \in child[p] \ {p}
     /\ pc[p] \in {"reap", "release"} => target[p] \in Proc /\ pc[target[p]] = "linger"
     /\ pc[p] = "release" =>
          target[p] \notin child[p] /\ parent[target[p]] = p /\ sema_mem[target[p]] = 0

\* Each semaphore is posted once, when its owner is where it is expected.
SemaInv ==
  \A p \in Proc :
     /\ sema_child[p] \in {0, 1} /\ (sema_child[p] = 1 => pc[p] \in {"linger", "dying", "free"})
     /\ sema_mem[p] \in {0, 1} /\ (sema_mem[p] = 1 => pc[p] = "linger")

\* A process that is being loaded has a parent that waits for it, and that nobody has
\* woken; who has been woken was so by its own newborn.
ExecInv ==
  /\ \A c \in Proc : pc[c] \in Starting =>
       parent[c] \in Proc /\ pc[parent[c]] = "execute" /\ newborn[parent[c]] = c
       /\ exec_lock[parent[c]] = 0
  /\ \A p \in Proc :
       /\ exec_lock[p] \in {0, 1}
       /\ exec_lock[p] = 1 => pc[p] = "execute" /\ newborn[p] \in Proc /\ pc[newborn[p]] \notin Starting
       /\ pc[p] = "execute" /\ newborn[p] # NoProc => newborn[p] \in child[p] \ {p}

\* Who exits has a status; a tid is reaped once, after that.
StatusInv ==
  /\ \A p \in Proc : pc[p] \in Exiting => status[tid[p]] # NoStatus
  /\ \A n \in Tid : reaps[n] \in {0, 1} /\ (reaps[n] = 1 => status[n] # NoStatus)

\* The page directory of the running process is active; a page directory is there until
\* its owner has given it up and activated another.
DirInv ==
  /\ current = NoProc => active = NoProc
  /\ current \in Proc =>
       \/ active = PageDirectory(current)
       \/ pc[current] = "unset" /\ active = current
  /\ \A p \in Proc : pc[p] # "free" =>
       /\ pagedir[p] \/ pc[p] \in {"unset", "base"} => p \in dirs
       /\ pagedir[p] => pc[p] \notin {"start", "unset", "base", "post", "linger", "dying"}
       /\ pc[p] \in {"user", "execute", "wait", "reap", "release", "load", "loaded", "print"} =>
            p = Main \/ pagedir[p]
  /\ current \in Proc => pc[current] # "free"

FamilyInv == TidInv /\ TreeInv /\ TargetInv /\ SemaInv /\ ExecInv /\ StatusInv

--------------------------------------------------------------------------------

LEMMA InitProcessInv == Init => TypeInv /\ FamilyInv /\ DirInv
<1> SUFFICES ASSUME Init PROVE TypeInv /\ FamilyInv /\ DirInv
  OBVIOUS
<1> USE ProcessAssumption
<1>1. TypeInv
  <2>1. 1 \in 0 .. MaxTid /\ 0 \in 0 .. MaxTid /\ 2 \in 1 .. MaxTid + 1
    OBVIOUS
  <2>2. /\ current \in Proc \union {NoProc} /\ active \in Proc \union {NoProc}
        /\ pc \in [Proc -> PC] /\ tid \in [Proc -> 0 .. MaxTid] /\ next_tid \in 1 .. MaxTid + 1
    BY <2>1 DEF Init, PC
  <2>3. /\ parent \in [Proc -> Proc \union {NoProc}] /\ child \in [Proc -> SUBSET Proc]
        /\ exit \in [Proc -> {0}] /\ pagedir \in [Proc -> BOOLEAN] /\ dirs \in SUBSET Proc
    BY DEF Init
  <2>4. /\ exec_lock \in [Proc -> Int] /\ sema_child \in [Proc -> Int] /\ sema_mem \in [Proc -> Int]
        /\ target \in [Proc -> Proc \union {NoProc}] /\ newborn \in [Proc -> Proc \union {NoProc}]
    BY DEF Init
  <2>5. status \in [Tid -> Int \union {NoStatus}] /\ reaps \in [Tid -> Int]
    BY DEF Init
  <2>6. console \in Proc \union {NoProc} /\ panic \in BOOLEAN
    BY DEF Init
  <2> QED BY <2>2, <2>3, <2>4, <2>5, <2>6 DEF TypeInv
<1>2. TidInv /\ TreeInv
  BY DEF Init, TidInv, TreeInv, Tid
<1>3. TargetInv /\ SemaInv /\ ExecInv /\ StatusInv
  BY DEF Init, TargetInv, SemaInv, ExecInv, StatusInv, Exiting, Starting
<1>4. DirInv
  BY DEF Init, DirInv, PageDirectory
<1> QED BY <1>1, <1>2, <1>3, <1>4 DEF FamilyInv

--------------------------------------------------------------------------------
(* Types.                                                                  *)

LEMMA RelinquishType ==
  ASSUME NEW p \in Proc, Relinquish(p)
  PROVE  current' \in Proc \union {NoProc} /\ active' \in Proc \union {NoProc}
BY DEF Relinquish, PageDirectory

LEMMA ExitType ==
  ASSUME TypeInv, NEW p \in Proc, NEW st \in Int, Exit(p, st)
  PROVE  /\ pc' \in [Proc -> PC] /\ status' \in [Tid -> Int \union {NoStatus}]
         /\ reaps' = reaps
BY DEF TypeInv, Exit, Goto, PC

LEMMA NextTypeInv == TypeInv /\ FamilyInv /\ [Next]_vars => TypeInv'
<1> SUFFICES ASSUME TypeInv, FamilyInv, [Next]_vars PROVE TypeInv'
  OBVIOUS
<1> USE DEF treeVars, dirVars, semaVars, callVars, consoleVars, histVars, schedVars, At, Goto
<1>1. CASE Switch
  BY <1>1 DEF Switch, TypeInv, PageDirectory
<1>2. ASSUME NEW p \in Proc, Execute(p) PROVE TypeInv'
  <2>1. CASE \E c \in Proc :
           /\ pc[c] = "free"
           /\ pc' = [pc EXCEPT ![p] = "execute", ![c] = "start"]
           /\ tid' = [tid EXCEPT ![c] = next_tid] /\ next_tid' = next_tid + 1
           /\ parent' = [parent EXCEPT ![c] = p]
           /\ child' = [child EXCEPT ![p] = @ \union {c}, ![c] = {}]
           /\ exit' = [exit EXCEPT ![c] = 0]
           /\ pagedir' = [pagedir EXCEPT ![c] = FALSE]
           /\ sema_child' = [sema_child EXCEPT ![c] = 0]
           /\ sema_mem' = [sema_mem EXCEPT ![c] = 0]
           /\ exec_lock' = [exec_lock EXCEPT ![c] = 0]
           /\ newborn' = [newborn EXCEPT ![p] = c]
    <3>1. next_tid <= MaxTid /\ next_tid \in 0 .. MaxTid /\ next_tid + 1 \in 1 .. MaxTid + 1
      BY <1>2, ProcessAssumption DEF Execute, TypeInv
    <3>2. pc' \in [Proc -> PC] /\ tid' \in [Proc -> 0 .. MaxTid] /\ next_tid' \in 1 .. MaxTid + 1
      BY <2>1, <3>1 DEF TypeInv, PC
    <3>3. /\ parent' \in [Proc -> Proc \union {NoProc}] /\ child' \in [Proc -> SUBSET Proc]
          /\ exit' \in [Proc -> {0}] /\ pagedir' \in [Proc -> BOOLEAN]
      BY <2>1 DEF TypeInv
    <3>4. /\ exec_lock' \in [Proc -> Int] /\ sema_child' \in [Proc -> Int]
          /\ sema_mem' \in [Proc -> Int] /\ newborn' \in [Proc -> Proc \union {NoProc}]
      BY <2>1 DEF TypeInv
    <3> QED BY <1>2, <3>2, <3>3, <3>4 DEF Execute, TypeInv
  <2>2. CASE /\ Goto(p, "execute")
             /\ newborn' = [newborn EXCEPT ![p] = NoProc]
             /\ UNCHANGED <<treeVars, pagedir, semaVars>>
    BY <1>2, <2>2 DEF Execute, TypeInv, PC
  <2> QED BY <1>2, <2>1, <2>2 DEF Execute
<1>3. ASSUME NEW p \in Proc, Executed(p) PROVE TypeInv'
  <2>1. /\ exec_lock' = [exec_lock EXCEPT ![p] = exec_lock[p] - 1]
        /\ pc' = [pc EXCEPT ![p] = "user"] /\ UNCHANGED target
    BY <1>3 DEF Executed, Down, TypeInv
  <2> QED BY <1>3, <2>1 DEF Executed, TypeInv, PC
<1>4. ASSUME NEW p \in Proc, CreatePagedir(p) \/ NoPagedir(p) PROVE TypeInv'
  <2>1. CASE CreatePagedir(p)
    BY <2>1 DEF CreatePagedir, TypeInv, PC
  <2>2. CASE NoPagedir(p)
    BY <2>2 DEF NoPagedir, TypeInv, PC
  <2> QED BY <1>4, <2>1, <2>2
<1>5. ASSUME NEW p \in Proc, Load(p) PROVE TypeInv'
  <2>1. pc' \in [Proc -> PC] /\ status' \in [Tid -> Int \union {NoStatus}] /\ reaps' = reaps
    BY <1>5, ExitType DEF Load, TypeInv, PC
  <2> QED BY <1>5, <2>1 DEF Load, TypeInv
<1>6. ASSUME NEW p \in Proc, Started(p) PROVE TypeInv'
  <2>1. pc' \in [Proc -> PC] /\ status' \in [Tid -> Int \union {NoStatus}] /\ reaps' = reaps
    BY <1>6, ExitType DEF Started, TypeInv, PC
  <2>2. exec_lock' \in [Proc -> Int]
    BY <1>6 DEF Started, Up, TypeInv, FamilyInv, ExecInv, Starting
  <2> QED BY <1>6, <2>1, <2>2 DEF Started, TypeInv
<1>7. ASSUME NEW p \in Proc, Wait(p) PROVE TypeInv'
  BY <1>7 DEF Wait, TypeInv, PC
<1>8. ASSUME NEW p \in Proc, WaitDown(p) PROVE TypeInv'
  <2>1. target[p] \in Proc
    BY <1>8 DEF WaitDown, FamilyInv, TargetInv, TypeInv
  <2> QED BY <1>8, <2>1 DEF WaitDown, Down, TypeInv, PC
<1>9. ASSUME NEW p \in Proc, Reap(p) PROVE TypeInv'
  <2>1. target[p] \in Proc /\ tid[target[p]] \in Tid
    BY <1>9 DEF Reap, FamilyInv, TargetInv, TidInv
  <2> QED BY <1>9, <2>1 DEF Reap, TypeInv, PC
<1>10. ASSUME NEW p \in Proc, Release(p) PROVE TypeInv'
  <2>1. target[p] \in Proc
    BY <1>10 DEF Release, FamilyInv, TargetInv
  <2> QED BY <1>10, <2>1 DEF Release, Up, TypeInv, PC
<1>11. ASSUME NEW p \in Proc, UserExit(p) PROVE TypeInv'
  <2>1. pc' \in [Proc -> PC] /\ status' \in [Tid -> Int \union {NoStatus}] /\ reaps' = reaps
    BY <1>11, ExitType, ProcessAssumption DEF UserExit
  <2> QED BY <1>11, <2>1 DEF UserExit, TypeInv
<1>12. ASSUME NEW p \in Proc, UnsetPagedir(p) \/ ActivateBase(p) \/ DestroyPagedir(p) PROVE TypeInv'
  <2>1. CASE UnsetPagedir(p)
    BY <2>1 DEF UnsetPagedir, TypeInv, PC
  <2>2. CASE ActivateBase(p)
    BY <2>2 DEF ActivateBase, TypeInv, PC
  <2>3. CASE DestroyPagedir(p)
    BY <2>3 DEF DestroyPagedir, TypeInv, PC
  <2> QED BY <1>12, <2>1, <2>2, <2>3
<1>13. ASSUME NEW p \in Proc, PostChild(p) PROVE TypeInv'
  BY <1>13 DEF PostChild, Up, TypeInv, PC
<1>14. ASSUME NEW p \in Proc, Die(p) PROVE TypeInv'
  <2>1. /\ sema_mem' \in [Proc -> Int] /\ pc' \in [Proc -> PC]
        /\ current' \in Proc \union {NoProc} /\ active' \in Proc \union {NoProc}
    BY <1>14, RelinquishType DEF Die, Down, TypeInv, PC
  <2> QED BY <1>14, <2>1 DEF Die, TypeInv
<1>15. ASSUME NEW p \in Proc, ScheduleAssert(p) \/ WriteConsole(p) \/ Written(p) PROVE TypeInv'
  BY <1>15 DEF ScheduleAssert, WriteConsole, Written, TypeInv, PC
<1>16. CASE UNCHANGED vars
  BY <1>16 DEF vars, TypeInv
<1> QED BY <1>1, <1>2, <1>3, <1>4, <1>5, <1>6, <1>7, <1>8, <1>9, <1>10, <1>11, <1>12, <1>13, <1>14,
           <1>15, <1>16 DEF Next, Step, Call

--------------------------------------------------------------------------------
(* Page directories.                                                       *)

\* The places at which a process has its page directory, if it ever gets one.
WithPagedir == {"user", "execute", "wait", "reap", "release", "load", "loaded", "print"}
WithoutPagedir == {"start", "unset", "base", "post", "linger", "dying"}

\* A step that leaves the page directories alone, from a place without obligations.
LEMMA DirFrame ==
  ASSUME TypeInv, DirInv, NEW p \in Proc, NEW place, Goto(p, place),
         UNCHANGED <<current, active, pagedir, dirs>>,
         pc[p] \notin {"free", "unset"}, place \notin {"free", "unset", "base"},
         place \in WithPagedir => pc[p] \in WithPagedir,
         place \in WithoutPagedir => pc[p] \in WithoutPagedir
  PROVE  DirInv'
<1>1. pc'[p] = place /\ \A q \in Proc \ {p} : pc'[q] = pc[q]
  BY DEF Goto, TypeInv
<1>2. \A q \in Proc : PageDirectory(q)' = PageDirectory(q)
  BY DEF PageDirectory
<1>3. ASSUME NEW q \in Proc, pc'[q] # "free"
      PROVE  /\ pagedir'[q] \/ pc'[q] \in {"unset", "base"} => q \in dirs'
             /\ pagedir'[q] => pc'[q] \notin {"start", "unset", "base", "post", "linger", "dying"}
             /\ pc'[q] \in {"user", "execute", "wait", "reap", "release", "load", "loaded", "print"}
                  => q = Main \/ pagedir'[q]
  <2>1. CASE q = p
    BY <1>1, <2>1 DEF DirInv, WithPagedir, WithoutPagedir
  <2>2. CASE q # p
    BY <1>1, <1>3, <2>2 DEF DirInv
  <2> QED BY <2>1, <2>2
<1>4. current' \in Proc =>
       \/ active' = PageDirectory(current)'
       \/ pc'[current'] = "unset" /\ active' = current'
  BY <1>1, <1>2 DEF DirInv
<1>5. current' \in Proc => pc'[current'] # "free"
  BY <1>1 DEF DirInv
<1> QED BY <1>3, <1>4, <1>5 DEF DirInv

LEMMA NextDir == TypeInv /\ FamilyInv /\ DirInv /\ [Next]_vars => DirInv'
<1> SUFFICES ASSUME TypeInv, FamilyInv, DirInv, [Next]_vars PROVE DirInv'
  OBVIOUS
<1>0. TypeInv'
  BY NextTypeInv
<1> USE ProcessAssumption
<1>1. CASE Switch
  <2>1. PICK q \in Proc : Runnable(q) /\ current' = q /\ active' = PageDirectory(q)
    BY <1>1 DEF Switch
  <2>2. UNCHANGED <<pc, pagedir, dirs>> /\ PageDirectory(q)' = PageDirectory(q)
    BY <1>1 DEF Switch, dirVars, PageDirectory
  <2> QED BY <2>1, <2>2 DEF DirInv, Runnable
<1>2. ASSUME NEW p \in Proc, Execute(p) PROVE DirInv'
  <2>1. pc[p] = "user" /\ current = p /\ UNCHANGED <<current, active, dirs>>
    BY <1>2 DEF Execute, At, schedVars
  <2>2. CASE \E c \in Proc :
           /\ pc[c] = "free"
           /\ pc' = [pc EXCEPT ![p] = "execute", ![c] = "start"]
           /\ pagedir' = [pagedir EXCEPT ![c] = FALSE]
    <3>1. PICK c \in Proc : /\ pc[c] = "free"
                            /\ pc' = [pc EXCEPT ![p] = "execute", ![c] = "start"]
                            /\ pagedir' = [pagedir EXCEPT ![c] = FALSE]
      BY <2>2
    <3>2. /\ pc'[p] = "execute" /\ pc'[c] = "start" /\ c # p /\ ~pagedir'[c]
          /\ \A q \in Proc \ {c} : pagedir'[q] = pagedir[q]
          /\ \A q \in Proc \ {p, c} : pc'[q] = pc[q]
      BY <2>1, <3>1 DEF TypeInv
    <3>3. PageDirectory(p)' = PageDirectory(p)
      BY <3>2 DEF PageDirectory
    <3>4. ASSUME NEW q \in Proc, pc'[q] # "free"
          PROVE  /\ pagedir'[q] \/ pc'[q] \in {"unset", "base"} => q \in dirs'
                 /\ pagedir'[q] => pc'[q] \notin {"start", "unset", "base", "post", "linger", "dying"}
                 /\ pc'[q] \in {"user", "execute", "wait", "reap", "release", "load", "loaded", "print"}
                      => q = Main \/ pagedir'[q]
      <4>1. CASE q = c
        BY <3>2, <4>1
      <4>2. CASE q = p
        BY <2>1, <3>2, <4>2 DEF DirInv
      <4>3. CASE q \notin {p, c}
        BY <2>1, <3>2, <3>4, <4>3 DEF DirInv
      <4> QED BY <4>1, <4>2, <4>3
    <3>5. active = PageDirectory(p)
      BY <2>1 DEF DirInv
    <3> QED BY <2>1, <3>2, <3>3, <3>4, <3>5 DEF DirInv
  <2>3. CASE Goto(p, "execute") /\ UNCHANGED pagedir
    BY <2>1, <2>3, DirFrame DEF WithPagedir, WithoutPagedir
  <2> QED BY <1>2, <2>2, <2>3 DEF Execute
<1>3. ASSUME NEW p \in Proc, Executed(p) PROVE DirInv'
  <2>1. pc[p] = "execute" /\ \E place \in {"wait", "user"} : Goto(p, place)
    BY <1>3 DEF Executed, At
  <2> QED BY <1>3, <2>1, DirFrame DEF Executed, schedVars, dirVars, WithPagedir, WithoutPagedir
<1>4. ASSUME NEW p \in Proc, CreatePagedir(p) PROVE DirInv'
  <2>1. /\ pc[p] = "start" /\ current = p /\ current' = p /\ active' = p
        /\ pagedir' = [pagedir EXCEPT ![p] = TRUE] /\ dirs' = dirs \union {p}
        /\ pc' = [pc EXCEPT ![p] = "load"]
    BY <1>4 DEF CreatePagedir, At, Goto
  <2>2. /\ pagedir'[p] /\ pc'[p] = "load"
        /\ \A q \in Proc \ {p} : pc'[q] = pc[q] /\ pagedir'[q] = pagedir[q]
    BY <2>1 DEF TypeInv
  <2>3. PageDirectory(p)' = p
    BY <2>2 DEF PageDirectory
  <2> QED BY <2>1, <2>2, <2>3 DEF DirInv
<1>5. ASSUME NEW p \in Proc, NoPagedir(p) PROVE DirInv'
  BY <1>5, DirFrame DEF NoPagedir, At, schedVars, dirVars, WithPagedir, WithoutPagedir
<1>6. ASSUME NEW p \in Proc, Load(p) PROVE DirInv'
  <2>1. pc[p] = "load" /\ \E place \in {"loaded", "failed", "exit"} : Goto(p, place)
    BY <1>6 DEF Load, At, Exit
  <2> QED BY <1>6, <2>1, DirFrame DEF Load, schedVars, dirVars, WithPagedir, WithoutPagedir
<1>7. ASSUME NEW p \in Proc, Started(p) PROVE DirInv'
  <2>1. CASE pc[p] = "loaded" /\ Goto(p, "user")
    BY <1>7, <2>1, DirFrame DEF Started, schedVars, dirVars, WithPagedir, WithoutPagedir
  <2>2. CASE pc[p] = "failed" /\ Goto(p, "exit")
    BY <1>7, <2>2, DirFrame DEF Started, schedVars, dirVars, WithPagedir, WithoutPagedir
  <2> QED BY <1>7, <2>1, <2>2 DEF Started, Exit
<1>8. ASSUME NEW p \in Proc, Wait(p) \/ WaitDown(p) \/ Reap(p) \/ Release(p) PROVE DirInv'
  <2>1. /\ pc[p] \in {"user", "wait", "reap", "release"}
        /\ \E place \in {"wait", "reap", "release", "user"} : Goto(p, place)
    BY <1>8 DEF Wait, WaitDown, Reap, Release, At
  <2>2. UNCHANGED <<current, active, pagedir, dirs>>
    BY <1>8 DEF Wait, WaitDown, Reap, Release, schedVars, dirVars
  <2> QED BY <2>1, <2>2, DirFrame DEF WithPagedir, WithoutPagedir
<1>9. ASSUME NEW p \in Proc, UserExit(p) PROVE DirInv'
  BY <1>9, DirFrame DEF UserExit, Exit, At, schedVars, dirVars, WithPagedir, WithoutPagedir
<1>10. ASSUME NEW p \in Proc, UnsetPagedir(p) PROVE DirInv'
  <2>1. /\ pc[p] = "exit" /\ current = p /\ UNCHANGED <<current, active, dirs>>
        /\ pagedir' = [pagedir EXCEPT ![p] = FALSE]
        /\ pc' = [pc EXCEPT ![p] = IF pagedir[p] THEN "unset" ELSE "post"]
    BY <1>10 DEF UnsetPagedir, At, Goto, schedVars
  <2>2. /\ ~pagedir'[p] /\ pc'[p] = IF pagedir[p] THEN "unset" ELSE "post"
        /\ \A q \in Proc \ {p} : pc'[q] = pc[q] /\ pagedir'[q] = pagedir[q]
    BY <2>1 DEF TypeInv
  <2>3. active = IF pagedir[p] THEN p ELSE NoProc
    BY <2>1 DEF DirInv, PageDirectory
  <2>4. PageDirectory(p)' = NoProc
    BY <2>2 DEF PageDirectory
  <2>5. ASSUME NEW q \in Proc, pc'[q] # "free"
        PROVE  /\ pagedir'[q] \/ pc'[q] \in {"unset", "base"} => q \in dirs'
               /\ pagedir'[q] => pc'[q] \notin {"start", "unset", "base", "post", "linger", "dying"}
               /\ pc'[q] \in {"user", "execute", "wait", "reap", "release", "load", "loaded", "print"}
                    => q = Main \/ pagedir'[q]
    <3>1. CASE q = p
      BY <2>1, <2>2, <3>1 DEF DirInv
    <3>2. CASE q # p
      BY <2>1, <2>2, <2>5, <3>2 DEF DirInv
    <3> QED BY <3>1, <3>2
  <2> QED BY <2>1, <2>2, <2>3, <2>4, <2>5 DEF DirInv
<1>11. ASSUME NEW p \in Proc, ActivateBase(p) PROVE DirInv'
  <2>1. /\ pc[p] = "unset" /\ current = p /\ current' = p /\ active' = NoProc
        /\ UNCHANGED <<pagedir, dirs>> /\ pc' = [pc EXCEPT ![p] = "base"]
    BY <1>11 DEF ActivateBase, At, Goto, dirVars
  <2>2. pc'[p] = "base" /\ \A q \in Proc \ {p} : pc'[q] = pc[q]
    BY <2>1 DEF TypeInv
  <2>3. ~pagedir[p] /\ PageDirectory(p)' = NoProc
    BY <2>1 DEF DirInv, PageDirectory
  <2> QED BY <2>1, <2>2, <2>3 DEF DirInv
<1>12. ASSUME NEW p \in Proc, DestroyPagedir(p) PROVE DirInv'
  <2>1. /\ pc[p] = "base" /\ current = p /\ UNCHANGED <<current, active, pagedir>>
        /\ dirs' = dirs \ {p} /\ pc' = [pc EXCEPT ![p] = "post"]
    BY <1>12 DEF DestroyPagedir, At, Goto, schedVars
  <2>2. pc'[p] = "post" /\ \A q \in Proc \ {p} : pc'[q] = pc[q]
    BY <2>1 DEF TypeInv
  <2>3. ~pagedir[p] /\ PageDirectory(p)' = PageDirectory(p)
    BY <2>1 DEF DirInv, PageDirectory
  <2> QED BY <2>1, <2>2, <2>3 DEF DirInv
<1>13. ASSUME NEW p \in Proc, PostChild(p) PROVE DirInv'
  BY <1>13, DirFrame DEF PostChild, At, schedVars, dirVars, WithPagedir, WithoutPagedir
<1>14. ASSUME NEW p \in Proc, Die(p) PROVE DirInv'
  <2>1. pc[p] = "linger" /\ UNCHANGED <<pagedir, dirs>>
    BY <1>14 DEF Die, At, dirVars
  <2>2. CASE Goto(p, "free") /\ Relinquish(p)
    <3>1. pc'[p] = "free" /\ \A q \in Proc \ {p} : pc'[q] = pc[q]
      BY <2>2 DEF Goto, TypeInv
    <3>2. \/ current' = NoProc /\ active' = NoProc
          \/ current' \in Proc \ {p} /\ Runnable(current') /\ active' = PageDirectory(current')
      BY <2>2 DEF Relinquish
    <3>3. CASE current' = NoProc /\ active' = NoProc
      BY <2>1, <3>1, <3>3 DEF DirInv
    <3>4. ASSUME NEW q \in Proc \ {p}, Runnable(q), current' = q, active' = PageDirectory(q)
          PROVE  DirInv'
      <4>1. pc'[q] # "free" /\ PageDirectory(q)' = PageDirectory(q)
        BY <2>1, <3>1, <3>4 DEF Runnable, PageDirectory
      <4> QED BY <2>1, <3>1, <3>4, <4>1 DEF DirInv
    <3> QED BY <2>2, <3>3, <3>4 DEF Relinquish
  <2>3. CASE Goto(p, "dying") /\ UNCHANGED schedVars
    BY <2>1, <2>3, DirFrame DEF schedVars, WithPagedir, WithoutPagedir
  <2> QED BY <1>14, <2>2, <2>3 DEF Die
<1>15. ASSUME NEW p \in Proc, WriteConsole(p) \/ Written(p) PROVE DirInv'
  <2>1. /\ pc[p] \in {"user", "print"} /\ \E place \in {"user", "print"} : Goto(p, place)
        /\ UNCHANGED <<current, active, pagedir, dirs>>
    BY <1>15 DEF WriteConsole, Written, At, schedVars, dirVars
  <2> QED BY <2>1, DirFrame DEF WithPagedir, WithoutPagedir
<1>16. CASE UNCHANGED <<current, active, pc, pagedir, dirs>>
  BY <1>16 DEF DirInv, PageDirectory
<1>17. ASSUME NEW p \in Proc, ScheduleAssert(p) PROVE UNCHANGED <<current, active, pc, pagedir, dirs>>
  BY <1>17 DEF ScheduleAssert, schedVars, dirVars
<1> QED BY <1>1, <1>2, <1>3, <1>4, <1>5, <1>6, <1>7, <1>8, <1>9, <1>10, <1>11, <1>12, <1>13, <1>14,
           <1>15, <1>16, <1>17 DEF Next, Step, Call, vars

--------------------------------------------------------------------------------
(* Parents and children: what keeps each part of the invariant.            *)

LEMMA Moved ==
  ASSUME TypeInv, NEW p \in Proc, NEW place, Goto(p, place)
  PROVE  pc'[p] = place /\ \A q \in Proc \ {p} : pc'[q] = pc[q]
BY DEF TypeInv, Goto

LEMMA TidFrame ==
  ASSUME TypeInv, TidInv, NEW p \in Proc, NEW place, Goto(p, place), pc[p] # "free",
         UNCHANGED <<tid, next_tid, reaps>>
  PROVE  TidInv'
BY Moved DEF TidInv

LEMMA TreeFrame ==
  ASSUME TypeInv, TreeInv, NEW p \in Proc, NEW place, Goto(p, place), pc[p] # "free",
         place \notin {"free", "dying"}, UNCHANGED <<tid, parent, child, sema_mem, reaps>>
  PROVE  TreeInv'
<1> SUFFICES ASSUME NEW q \in Proc, pc'[q] # "free", NEW c \in child'[q]
             PROVE  /\ pc'[c] \notin {"free", "dying"} /\ parent'[c] = q
                    /\ sema_mem'[c] = 0 /\ reaps'[tid'[c]] = 0
  BY DEF TreeInv
<1>1. pc[q] # "free" /\ c \in child[q] /\ c \in Proc
  BY Moved DEF TypeInv
<1>2. /\ pc[c] \notin {"free", "dying"} /\ parent[c] = q
      /\ sema_mem[c] = 0 /\ reaps[tid[c]] = 0
  BY <1>1 DEF TreeInv
<1> QED BY <1>1, <1>2, Moved

LEMMA TargetFrame ==
  ASSUME TypeInv, TargetInv, NEW p \in Proc, NEW place, Goto(p, place), pc[p] # "linger",
         place \notin {"wait", "reap", "release"}, UNCHANGED <<target, child, parent, sema_mem>>
  PROVE  TargetInv'
<1> SUFFICES ASSUME NEW q \in Proc
             PROVE  /\ pc'[q] \in {"wait", "reap"} => target'[q] \in child'[q] \ {q}
                    /\ pc'[q] \in {"reap", "release"} =>
                         target'[q] \in Proc /\ pc'[target'[q]] = "linger"
                    /\ pc'[q] = "release" =>
                         target'[q] \notin child'[q] /\ parent'[target'[q]] = q
                         /\ sema_mem'[target'[q]] = 0
  BY DEF TargetInv
<1>1. CASE q = p
  BY <1>1, Moved
<1>2. CASE q # p
  <2>1. pc'[q] = pc[q]
    BY <1>2, Moved
  <2>2. pc[q] \in {"reap", "release"} => target[q] # p
    BY DEF TargetInv
  <2> QED BY <2>1, <2>2, Moved DEF TargetInv
<1> QED BY <1>1, <1>2

LEMMA SemaFrame ==
  ASSUME TypeInv, SemaInv, NEW p \in Proc, NEW place, Goto(p, place),
         pc[p] \notin {"linger", "dying", "free"}, UNCHANGED <<sema_child, sema_mem>>
  PROVE  SemaInv'
BY Moved DEF SemaInv

LEMMA ExecFrame ==
  ASSUME TypeInv, ExecInv, NEW p \in Proc, NEW place, Goto(p, place),
         pc[p] # "execute", place # "execute", place \in Starting => pc[p] \in Starting,
         UNCHANGED <<parent, newborn, exec_lock, child>>
  PROVE  ExecInv'
<1>1. ASSUME NEW c \in Proc, pc'[c] \in Starting
      PROVE  parent'[c] \in Proc /\ pc'[parent'[c]] = "execute" /\ newborn'[parent'[c]] = c
             /\ exec_lock'[parent'[c]] = 0
  <2>1. pc[c] \in Starting
    BY <1>1, Moved
  <2> QED BY <2>1, Moved DEF ExecInv
<1>2. ASSUME NEW q \in Proc
      PROVE  /\ exec_lock'[q] \in {0, 1}
             /\ exec_lock'[q] = 1 =>
                  pc'[q] = "execute" /\ newborn'[q] \in Proc /\ pc'[newborn'[q]] \notin Starting
             /\ pc'[q] = "execute" /\ newborn'[q] # NoProc => newborn'[q] \in child'[q] \ {q}
  BY Moved DEF ExecInv
<1> QED BY <1>1, <1>2 DEF ExecInv

LEMMA StatusFrame ==
  ASSUME TypeInv, StatusInv, NEW p \in Proc, NEW place, Goto(p, place),
         UNCHANGED <<tid, reaps>>, \A n \in Tid : status[n] # NoStatus => status'[n] # NoStatus,
         \A q \in Proc : pc[q] \in Exiting => tid[q] \in Tid,
         place \in Exiting => pc[p] \in Exiting \/ status'[tid[p]] # NoStatus
  PROVE  StatusInv'
<1>1. ASSUME NEW q \in Proc, pc'[q] \in Exiting PROVE status'[tid'[q]] # NoStatus
  <2>1. CASE pc[q] \in Exiting
    BY <2>1 DEF StatusInv
  <2>2. CASE pc[q] \notin Exiting
    <3>1. q = p /\ place \in Exiting
      BY <1>1, <2>2, Moved
    <3> QED BY <2>2, <3>1
  <2> QED BY <2>1, <2>2
<1>2. \A n \in Tid : reaps'[n] \in {0, 1} /\ (reaps'[n] = 1 => status'[n] # NoStatus)
  BY DEF StatusInv
<1> QED BY <1>1, <1>2 DEF StatusInv

LEMMA ExitingHasTid ==
  ASSUME TidInv, NEW q \in Proc, pc[q] \in Exiting
  PROVE  tid[q] \in Tid
BY DEF TidInv, Exiting

\* Steps that touch none of the lists and semaphores between parent and child.
LEMMA FamilyFrame ==
  ASSUME TypeInv, FamilyInv, NEW p \in Proc, NEW place, Goto(p, place),
         UNCHANGED <<treeVars, semaVars, callVars, reaps>>,
         pc[p] \notin {"free", "linger", "dying", "execute"},
         place \notin {"free", "dying", "execute", "wait", "reap", "release"},
         place \in Starting => pc[p] \in Starting,
         \A n \in Tid : status[n] # NoStatus => status'[n] # NoStatus,
         place \in Exiting => pc[p] \in Exiting \/ status'[tid[p]] # NoStatus
  PROVE  FamilyInv'
<1>1. TidInv /\ TreeInv /\ TargetInv /\ SemaInv /\ ExecInv /\ StatusInv
  BY DEF FamilyInv
<1>2. /\ UNCHANGED <<tid, next_tid, parent, child, exec_lock, sema_child, sema_mem, target, newborn>>
      /\ UNCHANGED reaps
  BY DEF treeVars, semaVars, callVars
<1>3. TidInv' /\ TreeInv' /\ TargetInv'
  BY <1>1, <1>2, TidFrame, TreeFrame, TargetFrame
<1>4. SemaInv' /\ ExecInv'
  BY <1>1, <1>2, SemaFrame, ExecFrame
<1>5. StatusInv'
  BY <1>1, <1>2, StatusFrame, ExitingHasTid
<1> QED BY <1>3, <1>4, <1>5 DEF FamilyInv

\* exit.
LEMMA ExitStatus ==
  ASSUME TypeInv, TidInv, NEW p \in Proc, pc[p] # "free", NEW st \in Int, Exit(p, st)
  PROVE  /\ Goto(p, "exit") /\ reaps' = reaps /\ status'[tid[p]] # NoStatus
         /\ \A n \in Tid : status[n] # NoStatus => status'[n] # NoStatus
<1>1. tid[p] \in Tid /\ status' = [status EXCEPT ![tid[p]] = st] /\ st # NoStatus
  BY ProcessAssumption DEF TidInv, Exit
<1> QED BY <1>1 DEF Exit, TypeInv

--------------------------------------------------------------------------------
(* Parents and children: the actions.                                      *)

\* process_execute: the new process is the child of the running one, which waits for it.
LEMMA ExecuteFamily ==
  ASSUME TypeInv, FamilyInv, NEW p \in Proc, Execute(p)
  PROVE  FamilyInv'
<1>0. /\ TidInv /\ TreeInv /\ TargetInv /\ SemaInv /\ ExecInv /\ StatusInv
      /\ pc[p] = "user" /\ next_tid <= MaxTid /\ UNCHANGED <<target, status, reaps>>
  BY DEF FamilyInv, Execute, At, histVars
<1>1. exec_lock[p] = 0 /\ \A c \in Proc : pc[c] \in Starting => parent[c] # p
  BY <1>0 DEF ExecInv
<1>2. CASE \E c \in Proc :
           /\ pc[c] = "free"
           /\ pc' = [pc EXCEPT ![p] = "execute", ![c] = "start"]
           /\ tid' = [tid EXCEPT ![c] = next_tid] /\ next_tid' = next_tid + 1
           /\ parent' = [parent EXCEPT ![c] = p]
           /\ child' = [child EXCEPT ![p] = @ \union {c}, ![c] = {}]
           /\ sema_child' = [sema_child EXCEPT ![c] = 0]
           /\ sema_mem' = [sema_mem EXCEPT ![c] = 0]
           /\ exec_lock' = [exec_lock EXCEPT ![c] = 0]
           /\ newborn' = [newborn EXCEPT ![p] = c]
  <2>1. PICK c \in Proc :
           /\ pc[c] = "free"
           /\ pc' = [pc EXCEPT ![p] = "execute", ![c] = "start"]
           /\ tid' = [tid EXCEPT ![c] = next_tid] /\ next_tid' = next_tid + 1
           /\ parent' = [parent EXCEPT ![c] = p]
           /\ child' = [child EXCEPT ![p] = @ \union {c}, ![c] = {}]
           /\ sema_child' = [sema_child EXCEPT ![c] = 0]
           /\ sema_mem' = [sema_mem EXCEPT ![c] = 0]
           /\ exec_lock' = [exec_lock EXCEPT ![c] = 0]
           /\ newborn' = [newborn EXCEPT ![p] = c]
    BY <1>2
  <2>2. c # p /\ next_tid \in Tid
    BY <1>0, <2>1, ProcessAssumption DEF TypeInv, Tid
  <2>3. /\ pc'[p] = "execute" /\ pc'[c] = "start" /\ \A q \in Proc \ {p, c} : pc'[q] = pc[q]
        /\ tid'[c] = next_tid /\ \A q \in Proc \ {c} : tid'[q] = tid[q]
        /\ parent'[c] = p /\ \A q \in Proc \ {c} : parent'[q] = parent[q]
    BY <2>1, <2>2 DEF TypeInv
  <2>4. /\ child'[p] = child[p] \union {c} /\ child'[c] = {}
        /\ \A q \in Proc \ {p, c} : child'[q] = child[q]
        /\ newborn'[p] = c /\ \A q \in Proc \ {p} : newborn'[q] = newborn[q]
    BY <2>1, <2>2 DEF TypeInv
  <2>5. /\ sema_child'[c] = 0 /\ \A q \in Proc \ {c} : sema_child'[q] = sema_child[q]
        /\ sema_mem'[c] = 0 /\ \A q \in Proc \ {c} : sema_mem'[q] = sema_mem[q]
        /\ exec_lock'[c] = 0 /\ \A q \in Proc \ {c} : exec_lock'[q] = exec_lock[q]
    BY <2>1 DEF TypeInv
  <2>6. ASSUME NEW q \in Proc, pc[q] # "free" PROVE c \notin child[q]
    BY <1>0, <2>1, <2>6 DEF TreeInv
  <2>7. TidInv'
    <3>0. /\ next_tid \in Int /\ next_tid' = next_tid + 1
          /\ \A q \in Proc : pc[q] # "free" => tid[q] \in Tid /\ tid[q] \in Int /\ tid[q] < next_tid
      BY <1>0, <2>1, <2>2 DEF TidInv, Tid
    <3>1. ASSUME NEW q \in Proc, pc'[q] # "free" PROVE tid'[q] \in Tid /\ tid'[q] < next_tid'
      <4>1. CASE q = c
        BY <2>2, <2>3, <3>0, <4>1
      <4>2. CASE q # c
        <5>1. pc[q] # "free" /\ tid'[q] = tid[q]
          BY <1>0, <2>3, <3>1, <4>2
        <5> QED BY <3>0, <5>1
      <4> QED BY <4>1, <4>2
    <3>2. ASSUME NEW q \in Proc, NEW r \in Proc, pc'[q] # "free", pc'[r] # "free", tid'[q] = tid'[r]
          PROVE  q = r
      <4>1. ASSUME NEW x \in Proc, pc'[x] # "free", x # c
            PROVE  pc[x] # "free" /\ tid'[x] = tid[x] /\ tid[x] # tid'[c]
        <5>1. pc[x] # "free" /\ tid'[x] = tid[x]
          BY <1>0, <2>3, <4>1
        <5> QED BY <2>3, <3>0, <5>1
      <4> QED BY <1>0, <3>2, <4>1 DEF TidInv
    <3>3. \A n \in Tid : n >= next_tid' => reaps'[n] = 0
      BY <1>0, <2>1, <2>2 DEF TidInv, Tid
    <3> QED BY <3>1, <3>2, <3>3 DEF TidInv
  <2>8. TreeInv'
    <3> SUFFICES ASSUME NEW q \in Proc, pc'[q] # "free", NEW x \in child'[q]
                 PROVE  /\ pc'[x] \notin {"free", "dying"} /\ parent'[x] = q
                        /\ sema_mem'[x] = 0 /\ reaps'[tid'[x]] = 0
      BY DEF TreeInv
    <3>1. CASE x = c
      <4>1. q = p
        BY <2>1, <2>3, <2>4, <2>6, <3>1
      <4>2. reaps[next_tid] = 0
        BY <1>0, <2>2 DEF TidInv, Tid
      <4> QED BY <1>0, <2>3, <2>5, <3>1, <4>1, <4>2
    <3>2. CASE x # c
      <4>1. q # c /\ pc[q] # "free" /\ x \in child[q] /\ x \in Proc
        BY <1>0, <2>3, <2>4, <3>2 DEF TypeInv
      <4>2. /\ pc[x] \notin {"free", "dying"} /\ parent[x] = q
            /\ sema_mem[x] = 0 /\ reaps[tid[x]] = 0
        BY <1>0, <4>1 DEF TreeInv
      <4> QED BY <1>0, <2>3, <2>5, <3>2, <4>1, <4>2
    <3> QED BY <3>1, <3>2
  <2>9. TargetInv'
    <3> SUFFICES ASSUME NEW q \in Proc, pc'[q] \in {"wait", "reap", "release"}
                 PROVE  /\ pc'[q] \in {"wait", "reap"} => target'[q] \in child'[q] \ {q}
                        /\ pc'[q] \in {"reap", "release"} =>
                             target'[q] \in Proc /\ pc'[target'[q]] = "linger"
                        /\ pc'[q] = "release" =>
                             target'[q] \notin child'[q] /\ parent'[target'[q]] = q
                             /\ sema_mem'[target'[q]] = 0
      BY DEF TargetInv
    <3>1. q \notin {p, c} /\ pc'[q] = pc[q] /\ child'[q] = child[q] /\ target'[q] = target[q]
      BY <1>0, <2>3, <2>4
    <3>2. target[q] \in Proc /\ pc[q] \in {"reap", "release"} => target[q] \notin {p, c}
      BY <1>0, <2>1 DEF TargetInv
    <3> QED BY <1>0, <2>3, <2>5, <3>1, <3>2 DEF TargetInv
  <2>10. SemaInv'
    BY <1>0, <2>3, <2>5 DEF SemaInv
  <2>11. ExecInv'
    <3>1. ASSUME NEW x \in Proc, pc'[x] \in Starting
          PROVE  parent'[x] \in Proc /\ pc'[parent'[x]] = "execute" /\ newborn'[parent'[x]] = x
                 /\ exec_lock'[parent'[x]] = 0
      <4>1. CASE x = c
        BY <1>1, <2>2, <2>3, <2>4, <2>5, <4>1
      <4>2. CASE x # c
        <5>1. x # p /\ pc[x] \in Starting
          BY <2>3, <3>1, <4>2 DEF Starting
        <5>2. /\ parent[x] \in Proc /\ pc[parent[x]] = "execute" /\ newborn[parent[x]] = x
              /\ exec_lock[parent[x]] = 0
          BY <1>0, <5>1 DEF ExecInv
        <5>3. parent[x] \notin {p, c}
          BY <1>0, <2>1, <5>2
        <5> QED BY <2>3, <2>4, <2>5, <4>2, <5>2, <5>3
      <4> QED BY <4>1, <4>2
    <3>2. ASSUME NEW q \in Proc
          PROVE  /\ exec_lock'[q] \in {0, 1}
                 /\ exec_lock'[q] = 1 =>
                      pc'[q] = "execute" /\ newborn'[q] \in Proc /\ pc'[newborn'[q]] \notin Starting
                 /\ pc'[q] = "execute" /\ newborn'[q] # NoProc => newborn'[q] \in child'[q] \ {q}
      <4>1. CASE q = p
        BY <1>1, <2>2, <2>4, <2>5, <4>1
      <4>2. CASE q = c
        BY <2>3, <2>5, <4>2
      <4>3. CASE q \notin {p, c}
        <5>1. /\ pc'[q] = pc[q] /\ newborn'[q] = newborn[q] /\ child'[q] = child[q]
              /\ exec_lock'[q] = exec_lock[q]
          BY <2>3, <2>4, <2>5, <4>3
        <5>2. exec_lock[q] = 1 =>
                newborn[q] \in Proc /\ newborn[q] # c /\ pc'[newborn[q]] \notin Starting
          <6> SUFFICES ASSUME exec_lock[q] = 1
                       PROVE  newborn[q] \in Proc /\ newborn[q] # c /\ pc'[newborn[q]] \notin Starting
            OBVIOUS
          <6>1. /\ pc[q] = "execute" /\ newborn[q] \in Proc /\ pc[newborn[q]] \notin Starting
            BY <1>0 DEF ExecInv
          <6>2. newborn[q] \in child[q]
            BY <1>0, <6>1, ProcessAssumption DEF ExecInv
          <6>3. newborn[q] # c
            BY <2>6, <6>1, <6>2
          <6> QED BY <2>3, <6>1, <6>3 DEF Starting
        <5> QED BY <1>0, <5>1, <5>2 DEF ExecInv
      <4> QED BY <4>1, <4>2, <4>3
    <3> QED BY <3>1, <3>2 DEF ExecInv
  <2>12. StatusInv'
    BY <1>0, <2>3 DEF StatusInv, Exiting
  <2> QED BY <2>7, <2>8, <2>9, <2>10, <2>11, <2>12 DEF FamilyInv
<1>3. CASE /\ Goto(p, "execute")
           /\ newborn' = [newborn EXCEPT ![p] = NoProc]
           /\ UNCHANGED <<treeVars, semaVars>>
  <2>1. UNCHANGED <<tid, next_tid, parent, child, exec_lock, sema_child, sema_mem>>
    BY <1>3 DEF treeVars, semaVars
  <2>2. TidInv' /\ TreeInv' /\ TargetInv' /\ SemaInv'
    BY <1>0, <1>3, <2>1, TidFrame, TreeFrame, TargetFrame, SemaFrame
  <2>3. StatusInv'
    BY <1>0, <1>3, <2>1, StatusFrame, ExitingHasTid DEF Exiting
  <2>4. /\ pc'[p] = "execute" /\ newborn'[p] = NoProc
        /\ \A q \in Proc \ {p} : pc'[q] = pc[q] /\ newborn'[q] = newborn[q]
    BY <1>3, Moved DEF TypeInv
  <2>5. ExecInv'
    <3>1. ASSUME NEW x \in Proc, pc'[x] \in Starting
          PROVE  parent'[x] \in Proc /\ pc'[parent'[x]] = "execute" /\ newborn'[parent'[x]] = x
                 /\ exec_lock'[parent'[x]] = 0
      BY <1>0, <1>1, <2>1, <2>4, <3>1 DEF ExecInv, Starting
    <3>2. ASSUME NEW q \in Proc
          PROVE  /\ exec_lock'[q] \in {0, 1}
                 /\ exec_lock'[q] = 1 =>
                      pc'[q] = "execute" /\ newborn'[q] \in Proc /\ pc'[newborn'[q]] \notin Starting
                 /\ pc'[q] = "execute" /\ newborn'[q] # NoProc => newborn'[q] \in child'[q] \ {q}
      BY <1>0, <1>1, <2>1, <2>4 DEF ExecInv, Starting
    <3> QED BY <3>1, <3>2 DEF ExecInv
  <2> QED BY <2>2, <2>3, <2>5 DEF FamilyInv
<1> QED BY <1>2, <1>3 DEF Execute

\* Steps between the calls of the parent, and the console.
LEMMA QuietFamily ==
  ASSUME TypeInv, FamilyInv, NEW p \in Proc,
         \/ CreatePagedir(p) \/ NoPagedir(p) \/ Load(p) \/ UserExit(p) \/ UnsetPagedir(p)
         \/ ActivateBase(p) \/ DestroyPagedir(p) \/ WriteConsole(p) \/ Written(p)
  PROVE  FamilyInv'
<1>1. /\ UNCHANGED <<treeVars, semaVars, callVars>>
      /\ pc[p] \in {"start", "load", "user", "exit", "unset", "base", "print"}
  BY DEF CreatePagedir, NoPagedir, Load, UserExit, UnsetPagedir, ActivateBase, DestroyPagedir,
         WriteConsole, Written, At
<1>2. CASE \E st \in Int : Exit(p, st)
  <2>1. /\ Goto(p, "exit") /\ reaps' = reaps /\ status'[tid[p]] # NoStatus
        /\ \A n \in Tid : status[n] # NoStatus => status'[n] # NoStatus
    BY <1>1, <1>2, ExitStatus DEF FamilyInv
  <2> QED BY <1>1, <2>1, FamilyFrame DEF Starting
<1>3. CASE /\ UNCHANGED histVars
           /\ \E place \in {"load", "failed", "loaded", "unset", "base", "post", "print", "user"} :
                /\ Goto(p, place)
                /\ place \in {"load", "failed", "loaded"} => pc[p] \in {"start", "load"}
                /\ place \in {"unset", "base", "post"} => pc[p] \in {"exit", "unset", "base"}
  <2>1. PICK place \in {"load", "failed", "loaded", "unset", "base", "post", "print", "user"} :
          /\ Goto(p, place)
          /\ place \in {"load", "failed", "loaded"} => pc[p] \in {"start", "load"}
          /\ place \in {"unset", "base", "post"} => pc[p] \in {"exit", "unset", "base"}
    BY <1>3
  <2>2. UNCHANGED reaps /\ \A n \in Tid : status[n] # NoStatus => status'[n] # NoStatus
    BY <1>3 DEF histVars
  <2>3. place \in Starting => pc[p] \in Starting
    BY <2>1 DEF Starting
  <2>4. place \in Exiting => pc[p] \in Exiting
    BY <2>1 DEF Exiting
  <2> QED BY <1>1, <2>1, <2>2, <2>3, <2>4, FamilyFrame
<1>4. CASE Load(p) \/ UserExit(p)
  <2>1. -1 \in Int /\ Status \subseteq Int
    BY ProcessAssumption
  <2> QED BY <1>2, <1>3, <1>4, <2>1 DEF Load, UserExit, At
<1>5. CASE CreatePagedir(p) \/ NoPagedir(p)
  BY <1>3, <1>5 DEF CreatePagedir, NoPagedir, At
<1>6. CASE UnsetPagedir(p)
  BY <1>3, <1>6 DEF UnsetPagedir, At
<1>7. CASE ActivateBase(p) \/ DestroyPagedir(p)
  BY <1>3, <1>7 DEF ActivateBase, DestroyPagedir, At
<1>8. CASE WriteConsole(p) \/ Written(p)
  BY <1>3, <1>8 DEF WriteConsole, Written, At
<1> QED BY <1>4, <1>5, <1>6, <1>7, <1>8

\* The end of process_execute: the unit of exec_lock is taken.
LEMMA ExecutedFamily ==
  ASSUME TypeInv, FamilyInv, NEW p \in Proc, Executed(p)
  PROVE  FamilyInv'
<1>1. /\ TidInv /\ TreeInv /\ TargetInv /\ SemaInv /\ ExecInv /\ StatusInv
      /\ pc[p] = "execute" /\ exec_lock[p] > 0
      /\ UNCHANGED <<tid, next_tid, parent, child, sema_child, sema_mem, newborn, status, reaps>>
  BY DEF FamilyInv, Executed, At, treeVars, histVars
<1>2. Goto(p, "user") /\ UNCHANGED target
  <2>1. \A c \in child[p] : exit[c] = 0
    BY DEF TypeInv
  <2> QED BY <2>1 DEF Executed
<1>3. exec_lock[p] = 1 /\ exec_lock' = [exec_lock EXCEPT ![p] = 0]
  <2>1. exec_lock[p] = 1
    BY <1>1 DEF ExecInv
  <2>2. exec_lock' = [exec_lock EXCEPT ![p] = exec_lock[p] - 1]
    BY DEF Executed, Down
  <2> QED BY <2>1, <2>2
<1>4. TidInv' /\ TreeInv' /\ TargetInv' /\ SemaInv'
  BY <1>1, <1>2, TidFrame, TreeFrame, TargetFrame, SemaFrame
<1>5. StatusInv'
  BY <1>1, <1>2, StatusFrame, ExitingHasTid DEF Exiting
<1>6. /\ pc'[p] = "user" /\ exec_lock'[p] = 0
      /\ \A q \in Proc \ {p} : pc'[q] = pc[q] /\ exec_lock'[q] = exec_lock[q]
  BY <1>2, <1>3, Moved DEF TypeInv
<1>7. ASSUME NEW x \in Proc, pc'[x] \in Starting
      PROVE  parent'[x] \in Proc /\ pc'[parent'[x]] = "execute" /\ newborn'[parent'[x]] = x
             /\ exec_lock'[parent'[x]] = 0
  <2>1. x # p /\ pc[x] \in Starting
    BY <1>6, <1>7 DEF Starting
  <2>2. /\ parent[x] \in Proc /\ pc[parent[x]] = "execute" /\ newborn[parent[x]] = x
        /\ exec_lock[parent[x]] = 0
    BY <1>1, <2>1 DEF ExecInv
  <2>3. parent[x] # p
    BY <1>3, <2>2
  <2> QED BY <1>1, <1>6, <2>2, <2>3
<1>8. ASSUME NEW q \in Proc
      PROVE  /\ exec_lock'[q] \in {0, 1}
             /\ exec_lock'[q] = 1 =>
                  pc'[q] = "execute" /\ newborn'[q] \in Proc /\ pc'[newborn'[q]] \notin Starting
             /\ pc'[q] = "execute" /\ newborn'[q] # NoProc => newborn'[q] \in child'[q] \ {q}
  <2>1. "user" \notin Starting
    BY DEF Starting
  <2> QED BY <1>1, <1>6, <2>1 DEF ExecInv
<1>9. ExecInv'
  BY <1>7, <1>8 DEF ExecInv
<1> QED BY <1>4, <1>5, <1>9 DEF FamilyInv

\* start_process posts exec_lock of the parent, which waits for this process.
LEMMA StartedFamily ==
  ASSUME TypeInv, FamilyInv, NEW p \in Proc, Started(p)
  PROVE  FamilyInv'
<1>1. /\ TidInv /\ TreeInv /\ TargetInv /\ SemaInv /\ ExecInv /\ StatusInv
      /\ pc[p] \in {"loaded", "failed"} /\ exec_lock' = Up(exec_lock, parent[p])
      /\ UNCHANGED <<tid, next_tid, parent, child, sema_child, sema_mem, target, newborn>>
  BY DEF FamilyInv, Started, treeVars, callVars
<1>2. /\ parent[p] \in Proc /\ pc[parent[p]] = "execute" /\ newborn[parent[p]] = p
      /\ exec_lock[parent[p]] = 0
  BY <1>1 DEF ExecInv, Starting
<1>3. PICK place \in {"user", "exit"} :
        /\ Goto(p, place) /\ reaps' = reaps
        /\ \A n \in Tid : status[n] # NoStatus => status'[n] # NoStatus
        /\ place = "exit" => status'[tid[p]] # NoStatus
  <2>1. CASE Exit(p, -1)
    BY <1>1, <2>1, ExitStatus
  <2>2. CASE Goto(p, "user") /\ UNCHANGED histVars
    BY <2>2 DEF histVars
  <2> QED BY <2>1, <2>2 DEF Started
<1>4. TidInv' /\ TreeInv' /\ TargetInv' /\ SemaInv'
  BY <1>1, <1>3, TidFrame, TreeFrame, TargetFrame, SemaFrame
<1>5. StatusInv'
  BY <1>1, <1>3, StatusFrame, ExitingHasTid DEF Exiting
<1>6. /\ pc'[p] = place /\ \A q \in Proc \ {p} : pc'[q] = pc[q]
      /\ exec_lock'[parent[p]] = 1 /\ \A q \in Proc \ {parent[p]} : exec_lock'[q] = exec_lock[q]
      /\ p # parent[p] /\ place \notin Starting
  BY <1>1, <1>2, <1>3, Moved DEF TypeInv, Up, Starting
<1>7. ASSUME NEW x \in Proc, pc'[x] \in Starting
      PROVE  parent'[x] \in Proc /\ pc'[parent'[x]] = "execute" /\ newborn'[parent'[x]] = x
             /\ exec_lock'[parent'[x]] = 0
  <2>1. x # p /\ pc[x] \in Starting
    BY <1>6, <1>7
  <2>2. /\ parent[x] \in Proc /\ pc[parent[x]] = "execute" /\ newborn[parent[x]] = x
        /\ exec_lock[parent[x]] = 0
    BY <1>1, <2>1 DEF ExecInv
  <2>3. parent[x] \notin {p, parent[p]}
    BY <1>1, <1>2, <2>1, <2>2
  <2> QED BY <1>1, <1>6, <2>2, <2>3
<1>8. ASSUME NEW q \in Proc
      PROVE  /\ exec_lock'[q] \in {0, 1}
             /\ exec_lock'[q] = 1 =>
                  pc'[q] = "execute" /\ newborn'[q] \in Proc /\ pc'[newborn'[q]] \notin Starting
             /\ pc'[q] = "execute" /\ newborn'[q] # NoProc => newborn'[q] \in child'[q] \ {q}
  <2>1. CASE q = parent[p]
    BY <1>1, <1>2, <1>6, <2>1 DEF ExecInv
  <2>2. CASE q # parent[p]
    BY <1>1, <1>3, <1>6, <2>2 DEF ExecInv
  <2> QED BY <2>1, <2>2
<1>9. ExecInv'
  BY <1>7, <1>8 DEF ExecInv
<1> QED BY <1>4, <1>5, <1>9 DEF FamilyInv

\* process_wait finds a child.
LEMMA WaitFamily ==
  ASSUME TypeInv, FamilyInv, NEW p \in Proc, Wait(p)
  PROVE  FamilyInv'
<1>1. /\ TidInv /\ TreeInv /\ TargetInv /\ SemaInv /\ ExecInv /\ StatusInv
      /\ pc[p] = "user" /\ Goto(p, "wait")
      /\ UNCHANGED <<tid, next_tid, parent, child, exec_lock, sema_child, sema_mem, newborn>>
      /\ UNCHANGED <<status, reaps>>
  BY DEF FamilyInv, Wait, At, treeVars, semaVars, histVars
<1>2. TidInv' /\ TreeInv' /\ SemaInv'
  BY <1>1, TidFrame, TreeFrame, SemaFrame
<1>3. ExecInv' /\ StatusInv'
  BY <1>1, ExecFrame, StatusFrame, ExitingHasTid DEF Exiting, Starting
<1>4. /\ pc'[p] = "wait" /\ target'[p] \in child[p] \ {p}
      /\ \A q \in Proc \ {p} : pc'[q] = pc[q] /\ target'[q] = target[q]
  BY <1>1, Moved DEF Wait, TypeInv
<1>5. TargetInv'
  <2> SUFFICES ASSUME NEW q \in Proc
               PROVE  /\ pc'[q] \in {"wait", "reap"} => target'[q] \in child'[q] \ {q}
                      /\ pc'[q] \in {"reap", "release"} =>
                           target'[q] \in Proc /\ pc'[target'[q]] = "linger"
                      /\ pc'[q] = "release" =>
                           target'[q] \notin child'[q] /\ parent'[target'[q]] = q
                           /\ sema_mem'[target'[q]] = 0
    BY DEF TargetInv
  <2>1. CASE q = p
    BY <1>1, <1>4, <2>1
  <2>2. CASE q # p
    BY <1>1, <1>4, <2>2 DEF TargetInv
  <2> QED BY <2>1, <2>2
<1> QED BY <1>2, <1>3, <1>5 DEF FamilyInv

\* sema_down (&t->sema_child): the child lingers.
LEMMA WaitDownFamily ==
  ASSUME TypeInv, FamilyInv, NEW p \in Proc, WaitDown(p)
  PROVE  FamilyInv'
<1>1. /\ TidInv /\ TreeInv /\ TargetInv /\ SemaInv /\ ExecInv /\ StatusInv
      /\ pc[p] = "wait" /\ Goto(p, "reap") /\ sema_child[target[p]] > 0
      /\ UNCHANGED <<tid, next_tid, parent, child, exec_lock, sema_mem, target, newborn>>
      /\ UNCHANGED <<status, reaps>>
  BY DEF FamilyInv, WaitDown, At, treeVars, callVars, histVars
<1>2. target[p] \in child[p] \ {p} /\ target[p] \in Proc
  BY <1>1 DEF TargetInv, TypeInv
<1>3. pc[target[p]] = "linger" /\ sema_child[target[p]] = 1
  <2>1. pc[target[p]] \notin {"free", "dying"}
    BY <1>1, <1>2 DEF TreeInv
  <2> QED BY <1>1, <1>2, <2>1 DEF SemaInv
<1>4. TidInv' /\ TreeInv'
  BY <1>1, TidFrame, TreeFrame
<1>5. ExecInv' /\ StatusInv'
  BY <1>1, ExecFrame, StatusFrame, ExitingHasTid DEF Exiting, Starting
<1>6. pc'[p] = "reap" /\ \A q \in Proc \ {p} : pc'[q] = pc[q]
  BY <1>1, Moved
<1>7. sema_child'[target[p]] = 0 /\ \A q \in Proc \ {target[p]} : sema_child'[q] = sema_child[q]
  BY <1>2, <1>3 DEF WaitDown, Down, TypeInv
<1>8. SemaInv'
  BY <1>1, <1>6, <1>7 DEF SemaInv
<1>9. TargetInv'
  <2> SUFFICES ASSUME NEW q \in Proc
               PROVE  /\ pc'[q] \in {"wait", "reap"} => target'[q] \in child'[q] \ {q}
                      /\ pc'[q] \in {"reap", "release"} =>
                           target'[q] \in Proc /\ pc'[target'[q]] = "linger"
                      /\ pc'[q] = "release" =>
                           target'[q] \notin child'[q] /\ parent'[target'[q]] = q
                           /\ sema_mem'[target'[q]] = 0
    BY DEF TargetInv
  <2>1. CASE q = p
    BY <1>1, <1>2, <1>3, <1>6, <2>1
  <2>2. CASE q # p
    BY <1>1, <1>6, <2>2 DEF TargetInv
  <2> QED BY <2>1, <2>2
<1> QED BY <1>4, <1>5, <1>8, <1>9 DEF FamilyInv

\* The child leaves the list; its tid has been reaped.
LEMMA ReapFamily ==
  ASSUME TypeInv, FamilyInv, NEW p \in Proc, Reap(p)
  PROVE  FamilyInv'
<1>1. /\ TidInv /\ TreeInv /\ TargetInv /\ SemaInv /\ ExecInv /\ StatusInv
      /\ pc[p] = "reap" /\ Goto(p, "release")
      /\ UNCHANGED <<tid, next_tid, parent, exec_lock, sema_child, sema_mem, target, newborn, status>>
  BY DEF FamilyInv, Reap, At, semaVars, callVars
<1>2. PICK c \in Proc : c = target[p] /\ c \in child[p] /\ c # p /\ pc[c] = "linger"
  BY <1>1 DEF TargetInv
<1>3. /\ parent[c] = p /\ sema_mem[c] = 0 /\ reaps[tid[c]] = 0 /\ tid[c] \in Tid /\ tid[c] < next_tid
      /\ status[tid[c]] # NoStatus
  BY <1>1, <1>2 DEF TreeInv, TidInv, StatusInv, Exiting
<1>4. /\ pc'[p] = "release" /\ \A q \in Proc \ {p} : pc'[q] = pc[q]
      /\ child'[p] = child[p] \ {c} /\ \A q \in Proc \ {p} : child'[q] = child[q]
      /\ reaps'[tid[c]] = 1 /\ \A n \in Tid \ {tid[c]} : reaps'[n] = reaps[n]
  BY <1>1, <1>2, <1>3, Moved DEF Reap, TypeInv
<1>5. \A q \in Proc : pc'[q] # "free" <=> pc[q] # "free"
  BY <1>1, <1>4
<1>6. TidInv'
  <2>1. ASSUME NEW n \in Tid, n >= next_tid PROVE reaps'[n] = 0
    <3>1. n # tid[c]
      BY <1>3, <2>1 DEF TypeInv, Tid
    <3> QED BY <1>1, <1>4, <2>1, <3>1 DEF TidInv
  <2> QED BY <1>1, <1>5, <2>1 DEF TidInv
<1>7. TreeInv'
  <2> SUFFICES ASSUME NEW q \in Proc, pc'[q] # "free", NEW x \in child'[q]
               PROVE  /\ pc'[x] \notin {"free", "dying"} /\ parent'[x] = q
                      /\ sema_mem'[x] = 0 /\ reaps'[tid'[x]] = 0
    BY DEF TreeInv
  <2>1. pc[q] # "free" /\ x \in child[q] /\ x \in Proc
    BY <1>1, <1>4 DEF TypeInv
  <2>2. /\ pc[x] \notin {"free", "dying"} /\ parent[x] = q
        /\ sema_mem[x] = 0 /\ reaps[tid[x]] = 0
    BY <1>1, <2>1 DEF TreeInv
  <2>3. x # c
    BY <1>3, <1>4, <2>2
  <2>4. tid[x] # tid[c] /\ tid[x] \in Tid
    BY <1>1, <1>2, <2>1, <2>2, <2>3 DEF TidInv
  <2> QED BY <1>1, <1>4, <2>1, <2>2, <2>4
<1>8. TargetInv'
  <2> SUFFICES ASSUME NEW q \in Proc
               PROVE  /\ pc'[q] \in {"wait", "reap"} => target'[q] \in child'[q] \ {q}
                      /\ pc'[q] \in {"reap", "release"} =>
                           target'[q] \in Proc /\ pc'[target'[q]] = "linger"
                      /\ pc'[q] = "release" =>
                           target'[q] \notin child'[q] /\ parent'[target'[q]] = q
                           /\ sema_mem'[target'[q]] = 0
    BY DEF TargetInv
  <2>1. CASE q = p
    BY <1>1, <1>2, <1>3, <1>4, <2>1
  <2>2. CASE q # p
    BY <1>1, <1>4, <2>2 DEF TargetInv
  <2> QED BY <2>1, <2>2
<1>9. SemaInv'
  BY <1>1, SemaFrame
<1>10. ExecInv'
  <2>1. ASSUME NEW x \in Proc, pc'[x] \in Starting
        PROVE  parent'[x] \in Proc /\ pc'[parent'[x]] = "execute" /\ newborn'[parent'[x]] = x
               /\ exec_lock'[parent'[x]] = 0
    <3>1. pc[x] \in Starting
      BY <1>4, <2>1 DEF Starting
    <3> QED BY <1>1, <1>4, <3>1 DEF ExecInv
  <2>2. ASSUME NEW q \in Proc
        PROVE  /\ exec_lock'[q] \in {0, 1}
               /\ exec_lock'[q] = 1 =>
                    pc'[q] = "execute" /\ newborn'[q] \in Proc /\ pc'[newborn'[q]] \notin Starting
               /\ pc'[q] = "execute" /\ newborn'[q] # NoProc => newborn'[q] \in child'[q] \ {q}
    <3>1. "release" \notin Starting
      BY DEF Starting
    <3> QED BY <1>1, <1>4, <3>1 DEF ExecInv
  <2> QED BY <2>1, <2>2 DEF ExecInv
<1>11. StatusInv'
  <2>1. ASSUME NEW q \in Proc, pc'[q] \in Exiting PROVE status'[tid'[q]] # NoStatus
    <3>1. pc[q] \in Exiting
      BY <1>4, <2>1 DEF Exiting
    <3> QED BY <1>1, <3>1 DEF StatusInv
  <2>2. ASSUME NEW n \in Tid
        PROVE  reaps'[n] \in {0, 1} /\ (reaps'[n] = 1 => status'[n] # NoStatus)
    BY <1>1, <1>3, <1>4 DEF StatusInv
  <2> QED BY <2>1, <2>2 DEF StatusInv
<1> QED BY <1>6, <1>7, <1>8, <1>9, <1>10, <1>11 DEF FamilyInv

\* sema_up (&t->sema_mem): the child, on no list any more, may go.
LEMMA ReleaseFamily ==
  ASSUME TypeInv, FamilyInv, NEW p \in Proc, Release(p)
  PROVE  FamilyInv'
<1>1. /\ TidInv /\ TreeInv /\ TargetInv /\ SemaInv /\ ExecInv /\ StatusInv
      /\ pc[p] = "release" /\ Goto(p, "user")
      /\ UNCHANGED <<tid, next_tid, parent, child, exec_lock, sema_child, newborn, status, reaps>>
  BY DEF FamilyInv, Release, At, treeVars, histVars
<1>2. PICK c \in Proc : /\ c = target[p] /\ c \notin child[p] /\ parent[c] = p
                        /\ pc[c] = "linger" /\ sema_mem[c] = 0
  BY <1>1 DEF TargetInv
<1>3. /\ pc'[p] = "user" /\ \A q \in Proc \ {p} : pc'[q] = pc[q] /\ target'[q] = target[q]
      /\ sema_mem'[c] = 1 /\ \A q \in Proc \ {c} : sema_mem'[q] = sema_mem[q]
      /\ c # p
  BY <1>1, <1>2, Moved DEF Release, Up, TypeInv
<1>4. TidInv'
  BY <1>1, TidFrame
<1>5. ExecInv' /\ StatusInv'
  BY <1>1, ExecFrame, StatusFrame, ExitingHasTid DEF Exiting, Starting
<1>6. SemaInv'
  BY <1>1, <1>2, <1>3 DEF SemaInv
<1>7. TreeInv'
  <2> SUFFICES ASSUME NEW q \in Proc, pc'[q] # "free", NEW x \in child'[q]
               PROVE  /\ pc'[x] \notin {"free", "dying"} /\ parent'[x] = q
                      /\ sema_mem'[x] = 0 /\ reaps'[tid'[x]] = 0
    BY DEF TreeInv
  <2>1. pc[q] # "free" /\ x \in child[q] /\ x \in Proc
    BY <1>1, <1>3 DEF TypeInv
  <2>2. /\ pc[x] \notin {"free", "dying"} /\ parent[x] = q
        /\ sema_mem[x] = 0 /\ reaps[tid[x]] = 0
    BY <1>1, <2>1 DEF TreeInv
  <2>3. x # c
    BY <1>2, <2>1, <2>2
  <2> QED BY <1>1, <1>3, <2>1, <2>2, <2>3
<1>8. TargetInv'
  <2> SUFFICES ASSUME NEW q \in Proc
               PROVE  /\ pc'[q] \in {"wait", "reap"} => target'[q] \in child'[q] \ {q}
                      /\ pc'[q] \in {"reap", "release"} =>
                           target'[q] \in Proc /\ pc'[target'[q]] = "linger"
                      /\ pc'[q] = "release" =>
                           target'[q] \notin child'[q] /\ parent'[target'[q]] = q
                           /\ sema_mem'[target'[q]] = 0
    BY DEF TargetInv
  <2>1. CASE q = p
    BY <1>3, <2>1
  <2>2. CASE q # p
    <3>1. pc'[q] = pc[q] /\ target'[q] = target[q]
      BY <1>3, <2>2
    <3>2. pc[q] \in {"reap", "release"} => target[q] \in Proc /\ pc'[target[q]] = "linger"
      BY <1>1, <1>3 DEF TargetInv
    <3>3. pc[q] = "release" =>
            target[q] \notin child[q] /\ parent[target[q]] = q /\ sema_mem'[target[q]] = 0
      <4> SUFFICES ASSUME pc[q] = "release"
                   PROVE  target[q] \notin child[q] /\ parent[target[q]] = q
                          /\ sema_mem'[target[q]] = 0
        OBVIOUS
      <4>1. target[q] \in Proc /\ target[q] \notin child[q] /\ parent[target[q]] = q
            /\ sema_mem[target[q]] = 0
        BY <1>1 DEF TargetInv
      <4>2. target[q] # c
        BY <1>2, <2>2, <4>1
      <4> QED BY <1>3, <4>1, <4>2
    <3>4. pc[q] \in {"wait", "reap"} => target[q] \in child[q] \ {q}
      BY <1>1 DEF TargetInv
    <3> QED BY <1>1, <3>1, <3>2, <3>3, <3>4
  <2> QED BY <2>1, <2>2
<1> QED BY <1>4, <1>5, <1>6, <1>7, <1>8 DEF FamilyInv

\* sema_up (&cur->sema_child).
LEMMA PostChildFamily ==
  ASSUME TypeInv, FamilyInv, NEW p \in Proc, PostChild(p)
  PROVE  FamilyInv'
<1>1. /\ TidInv /\ TreeInv /\ TargetInv /\ SemaInv /\ ExecInv /\ StatusInv
      /\ pc[p] = "post" /\ Goto(p, "linger")
      /\ UNCHANGED <<tid, next_tid, parent, child, exec_lock, sema_mem, target, newborn>>
      /\ UNCHANGED <<status, reaps>>
  BY DEF FamilyInv, PostChild, At, treeVars, callVars, histVars
<1>2. TidInv' /\ TreeInv' /\ TargetInv'
  BY <1>1, TidFrame, TreeFrame, TargetFrame
<1>3. ExecInv' /\ StatusInv'
  BY <1>1, ExecFrame, StatusFrame, ExitingHasTid DEF Exiting, Starting
<1>4. sema_child[p] = 0
  BY <1>1 DEF SemaInv
<1>5. /\ pc'[p] = "linger" /\ sema_child'[p] = 1
      /\ \A q \in Proc \ {p} : pc'[q] = pc[q] /\ sema_child'[q] = sema_child[q]
  BY <1>1, <1>4, Moved DEF PostChild, Up, TypeInv
<1>6. SemaInv'
  BY <1>1, <1>5 DEF SemaInv
<1> QED BY <1>2, <1>3, <1>6 DEF FamilyInv

\* A process goes: it is on no list, and nobody works on it.
LEMMA DieFamily ==
  ASSUME TypeInv, FamilyInv, NEW p \in Proc, Die(p)
  PROVE  FamilyInv'
<1>1. /\ TidInv /\ TreeInv /\ TargetInv /\ SemaInv /\ ExecInv /\ StatusInv
      /\ pc[p] = "linger" /\ sema_mem[p] > 0 /\ sema_mem' = Down(sema_mem, p)
      /\ UNCHANGED <<tid, next_tid, parent, child, exec_lock, sema_child, target, newborn>>
      /\ UNCHANGED <<status, reaps>>
  BY DEF FamilyInv, Die, At, treeVars, callVars, histVars
<1>2. PICK place \in {"free", "dying"} : Goto(p, place)
  BY DEF Die
<1>3. /\ pc'[p] = place /\ \A q \in Proc \ {p} : pc'[q] = pc[q]
      /\ sema_mem[p] = 1 /\ sema_mem'[p] = 0
      /\ \A q \in Proc \ {p} : sema_mem'[q] = sema_mem[q]
  BY <1>1, <1>2, Moved DEF Down, TypeInv, SemaInv
<1>4. \A q \in Proc : pc'[q] # "free" => pc[q] # "free"
  BY <1>1, <1>3
<1>5. TidInv'
  BY <1>1, <1>4 DEF TidInv
<1>6. ExecInv' /\ StatusInv'
  BY <1>1, <1>2, ExecFrame, StatusFrame, ExitingHasTid DEF Exiting, Starting
<1>7. SemaInv'
  BY <1>1, <1>3 DEF SemaInv
<1>8. ASSUME NEW q \in Proc, pc[q] # "free" PROVE p \notin child[q]
  <2>1. sema_mem[p] # 0
    BY <1>3
  <2> QED BY <1>1, <1>8, <2>1 DEF TreeInv
<1>9. TreeInv'
  <2> SUFFICES ASSUME NEW q \in Proc, pc'[q] # "free", NEW x \in child'[q]
               PROVE  /\ pc'[x] \notin {"free", "dying"} /\ parent'[x] = q
                      /\ sema_mem'[x] = 0 /\ reaps'[tid'[x]] = 0
    BY DEF TreeInv
  <2>1. pc[q] # "free" /\ x \in child[q] /\ x \in Proc
    BY <1>1, <1>4 DEF TypeInv
  <2>2. x # p
    BY <1>8, <2>1
  <2> QED BY <1>1, <1>3, <2>1, <2>2 DEF TreeInv
<1>10. TargetInv'
  <2> SUFFICES ASSUME NEW q \in Proc
               PROVE  /\ pc'[q] \in {"wait", "reap"} => target'[q] \in child'[q] \ {q}
                      /\ pc'[q] \in {"reap", "release"} =>
                           target'[q] \in Proc /\ pc'[target'[q]] = "linger"
                      /\ pc'[q] = "release" =>
                           target'[q] \notin child'[q] /\ parent'[target'[q]] = q
                           /\ sema_mem'[target'[q]] = 0
    BY DEF TargetInv
  <2>1. CASE q = p
    BY <1>3, <2>1
  <2>2. CASE q # p
    <3>1. pc'[q] = pc[q]
      BY <1>3, <2>2
    <3>2. pc[q] \in {"wait", "reap"} => target[q] \in child[q] \ {q}
      BY <1>1 DEF TargetInv
    <3>3. pc[q] \in {"reap", "release"} => target[q] # p
      <4>1. CASE pc[q] = "reap"
        BY <1>8, <3>2, <4>1
      <4>2. CASE pc[q] = "release"
        <5>1. sema_mem[target[q]] = 0
          BY <1>1, <4>2 DEF TargetInv
        <5> QED BY <1>3, <5>1
      <4> QED BY <4>1, <4>2
    <3> QED BY <1>1, <1>3, <3>1, <3>2, <3>3 DEF TargetInv
  <2> QED BY <2>1, <2>2
<1> QED BY <1>5, <1>6, <1>7, <1>9, <1>10 DEF FamilyInv

LEMMA NextFamily == TypeInv /\ FamilyInv /\ [Next]_vars => FamilyInv'
<1> SUFFICES ASSUME TypeInv, FamilyInv, [Next]_vars PROVE FamilyInv'
  OBVIOUS
<1>1. CASE UNCHANGED <<pc, treeVars, semaVars, callVars, histVars>>
  BY <1>1 DEF FamilyInv, TidInv, TreeInv, TargetInv, SemaInv, ExecInv, StatusInv,
              treeVars, semaVars, callVars, histVars
<1>2. CASE Switch
  BY <1>1, <1>2 DEF Switch
<1>3. CASE UNCHANGED vars
  BY <1>1, <1>3 DEF vars, treeVars, semaVars, callVars, histVars
<1>4. ASSUME NEW p \in Proc, Step(p) PROVE FamilyInv'
  <2>1. CASE ScheduleAssert(p)
    BY <1>1, <2>1 DEF ScheduleAssert
  <2> QED BY <1>4, <2>1, QuietFamily, ExecutedFamily, StartedFamily, WaitDownFamily, ReapFamily,
             ReleaseFamily, PostChildFamily, DieFamily DEF Step
<1>5. ASSUME NEW p \in Proc, Call(p) PROVE FamilyInv'
  BY <1>5, ExecuteFamily, WaitFamily, QuietFamily DEF Call
<1> QED BY <1>2, <1>3, <1>4, <1>5 DEF Next

--------------------------------------------------------------------------------
(* The theorems.                                                           *)

ProcessInv == TypeInv /\ FamilyInv /\ DirInv

\* The inductive invariant.
THEOREM ProcessInvariant == Spec => []ProcessInv
<1>1. Init => ProcessInv
  BY InitProcessInv DEF ProcessInv
<1>2. ProcessInv /\ [Next]_vars => ProcessInv'
  BY NextTypeInv, NextFamily, NextDir DEF ProcessInv
<1> QED BY <1>1, <1>2, PTL DEF Spec

\* Every variable stays in its domain, and the three semaphores are binary: no post of a
\* semaphore is ever lost on one already posted.
THEOREM ProcessTypeCorrect == Spec => []TypeOK
<1>1. ProcessInv => TypeOK
  <2> SUFFICES ASSUME ProcessInv PROVE TypeOK
    OBVIOUS
  <2>1. /\ exec_lock \in [Proc -> 0 .. 1] /\ sema_child \in [Proc -> 0 .. 1]
        /\ sema_mem \in [Proc -> 0 .. 1]
    BY DEF ProcessInv, TypeInv, FamilyInv, SemaInv, ExecInv
  <2>2. reaps \in [Tid -> Nat]
    BY DEF ProcessInv, TypeInv, FamilyInv, StatusInv
  <2>3. exit \in [Proc -> Int]
    BY DEF ProcessInv, TypeInv
  <2> QED BY <2>1, <2>2, <2>3 DEF ProcessInv, TypeInv, TypeOK
<1> QED BY <1>1, ProcessInvariant, PTL

\* Nobody works on the freed struct thread of a child or of a parent.
THEOREM NoDanglingProcess == Spec => []NoUseAfterFree
<1>1. ProcessInv => NoUseAfterFree
  <2> SUFFICES ASSUME ProcessInv, NEW p \in Proc, pc[p] # "free"
               PROVE  /\ \A c \in child[p] : pc[c] # "free" /\ parent[c] = p
                      /\ pc[p] \in {"wait", "reap", "release"} => pc[target[p]] # "free"
                      /\ pc[p] \in {"start", "load", "loaded", "failed"} => pc[parent[p]] # "free"
    BY DEF NoUseAfterFree
  <2>1. \A c \in child[p] : pc[c] # "free" /\ parent[c] = p
    BY DEF ProcessInv, FamilyInv, TreeInv
  <2>2. pc[p] \in {"wait", "reap", "release"} => pc[target[p]] # "free"
    BY <2>1 DEF ProcessInv, FamilyInv, TargetInv
  <2>3. pc[p] \in {"start", "load", "loaded", "failed"} => pc[parent[p]] # "free"
    BY DEF ProcessInv, FamilyInv, ExecInv, Starting
  <2> QED BY <2>1, <2>2, <2>3
<1> QED BY <1>1, ProcessInvariant, PTL

\* process_wait returns once for a child, after the child's process_exit.
THEOREM ReapedOnce == Spec => []ReapOnceAfterExit
<1>1. ProcessInv => ReapOnceAfterExit
  <2> SUFFICES ASSUME ProcessInv PROVE ReapOnceAfterExit
    OBVIOUS
  <2>1. \A n \in Tid : reaps[n] <= 1 /\ (reaps[n] = 1 => status[n] # NoStatus)
    BY DEF ProcessInv, FamilyInv, StatusInv
  <2>2. \A p \in Proc : pc[p] \in {"reap", "release"} => pc[target[p]] = "linger"
    BY DEF ProcessInv, FamilyInv, TargetInv
  <2> QED BY <2>1, <2>2 DEF ReapOnceAfterExit
<1> QED BY <1>1, ProcessInvariant, PTL

\* process_execute is woken by the child it has created, after that child's load.
THEOREM LoadAwaited == Spec => []ExecuteAwaitsLoad
<1>1. ProcessInv => ExecuteAwaitsLoad
  <2> SUFFICES ASSUME ProcessInv, NEW p \in Proc, pc[p] = "execute", exec_lock[p] > 0
               PROVE  newborn[p] # NoProc /\ pc[newborn[p]] \notin {"start", "load", "loaded", "failed"}
    BY DEF ExecuteAwaitsLoad
  <2>1. exec_lock[p] = 1
    BY DEF ProcessInv, FamilyInv, ExecInv
  <2>2. newborn[p] \in Proc /\ pc[newborn[p]] \notin Starting
    BY <2>1 DEF ProcessInv, FamilyInv, ExecInv
  <2> QED BY <2>2, ProcessAssumption DEF Starting
<1> QED BY <1>1, ProcessInvariant, PTL

\* The CPU never runs on a page directory that has been destroyed, and a process runs its
\* own code on its own page directory.
THEOREM DirectoryThere == Spec => []ActiveDirectoryExists
<1>1. ProcessInv => ActiveDirectoryExists
  <2> SUFFICES ASSUME ProcessInv PROVE ActiveDirectoryExists
    OBVIOUS
  <2>1. active \in dirs \union {NoProc}
    BY DEF ProcessInv, DirInv, TypeInv, PageDirectory
  <2>2. ASSUME NEW p \in Proc \ {Main}, At(p, "user") PROVE active = p
    BY <2>2 DEF ProcessInv, DirInv, TypeInv, PageDirectory, At
  <2> QED BY <2>1, <2>2 DEF ActiveDirectoryExists
<1> QED BY <1>1, ProcessInvariant, PTL
================================================================================
