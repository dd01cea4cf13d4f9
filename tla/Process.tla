-------------------------------- MODULE Process --------------------------------
(***************************************************************************)
(* The life of user processes, userprog/process.c of hw3: process_execute, *)
(* start_process with its load, process_wait, process_exit, the page       *)
(* directories they activate, and the part of init_thread and thread_exit  *)
(* that links a process with its parent.                                   *)
(*                                                                         *)
(* The processes synchronise through three semaphores of struct thread:    *)
(*   exec_lock   of the parent: a child has been loaded, or has failed to  *)
(*   sema_child  of the child:  it has released its resources              *)
(*   sema_mem    of the child:  its parent has read its exit status        *)
(* A sema_down that would block disables the step; all processes have the  *)
(* priority PRI_DEFAULT, so the scheduler may switch to any that is not    *)
(* blocked, at any point where interrupts are enabled.                     *)
(*                                                                         *)
(* printf and putbuf hold the lock of the console while they print.        *)
(***************************************************************************)
EXTENDS Integers, FiniteSets

CONSTANTS
  Proc,          \* every page that may hold a process's struct thread
  Main,          \* the main thread
  Caller,        \* who may call process_execute (see exec in syscall.c)
  Writer,        \* who writes to the console
  LoadOutcome,   \* how load may end, of "loaded", "failed" and "aborted"
  Status,        \* the arguments of exit
  MaxTid,        \* bound: no more tids are allocated
  NoProc,        \* NULL, and the page directory of the kernel
  NoStatus       \* no exit status

ASSUME ProcessAssumption ==
  /\ Main \in Proc /\ Caller \union Writer \subseteq Proc /\ NoProc \notin Proc /\ NoStatus \notin Int
  /\ LoadOutcome \subseteq {"loaded", "failed", "aborted"}
  /\ Status \subseteq Int /\ MaxTid \in Nat \ {0}

VARIABLES
  current, active,     \* the running process; the active page directory
  pc,                  \* where each process is between two actions
  tid, parent, child,  \* of struct thread; child is the list of children
  exit,                \* of struct thread: the exit status process_wait reads (never stored)
  pagedir,             \* of struct thread: its page directory is set
  dirs,                \* the page directories that exist, by their owner
  exec_lock, sema_child, sema_mem,   \* the values of the semaphores
  target,              \* process_wait's local variable t
  newborn,             \* process_execute's local variable tid, as a process
  next_tid,            \* allocate_tid's counter
  console,             \* the holder of the console's lock
  panic,               \* an assertion has failed: the system has stopped
  status,              \* history: how each tid ended
  reaps                \* history: how often process_wait returned for it

schedVars == <<current, active>>
treeVars == <<tid, parent, child, exit, next_tid>>
dirVars == <<pagedir, dirs>>
semaVars == <<exec_lock, sema_child, sema_mem>>
callVars == <<target, newborn>>
consoleVars == <<console, panic>>
histVars == <<status, reaps>>
vars == <<current, active, pc, tid, parent, child, exit, pagedir, dirs, exec_lock, sema_child,
          sema_mem, target, newborn, next_tid, console, panic, status, reaps>>

(* pc: "free"     no struct thread                                         *)
(*     "user"     in its own code                                          *)
(*     "execute"  in process_execute, thread_create done                   *)
(*     "wait"     in process_wait, target found                            *)
(*     "reap"     in process_wait, its child has posted sema_child         *)
(*     "release"  in process_wait, child removed from the list             *)
(*     "start"    in start_process                                         *)
(*     "load"     in load, its page directory created                      *)
(*     "loaded", "failed"  load has returned                               *)
(*     "exit"     in process_exit                                          *)
(*     "unset"    pagedir set to NULL                                      *)
(*     "base"     the base page directory activated                        *)
(*     "post"     page directory destroyed                                 *)
(*     "linger"   sema_child posted                                        *)
(*     "dying"    in thread_exit, blocked by its printf                    *)
(*     "print"    holding the console's lock                               *)
PC == {"free", "user", "execute", "wait", "reap", "release", "start", "load", "loaded",
       "failed", "exit", "unset", "base", "post", "linger", "dying", "print"}
Exiting == {"exit", "unset", "base", "post", "linger", "dying"}

Tid == 1 .. MaxTid

Init ==
  /\ current = Main /\ active = NoProc
  /\ pc = [p \in Proc |-> IF p = Main THEN "user" ELSE "free"]
  /\ tid = [p \in Proc |-> IF p = Main THEN 1 ELSE 0] /\ next_tid = 2
  /\ parent = [p \in Proc |-> IF p = Main THEN Main ELSE NoProc]
  /\ child = [p \in Proc |-> IF p = Main THEN {Main} ELSE {}]
  /\ exit = [p \in Proc |-> 0]
  /\ pagedir = [p \in Proc |-> FALSE] /\ dirs = {}
  /\ exec_lock = [p \in Proc |-> 0]
  /\ sema_child = [p \in Proc |-> 0] /\ sema_mem = [p \in Proc |-> 0]
  /\ target = [p \in Proc |-> NoProc] /\ newborn = [p \in Proc |-> NoProc]
  /\ console = NoProc /\ panic = FALSE
  /\ status = [n \in Tid |-> NoStatus]
  /\ reaps = [n \in Tid |-> 0]

At(p, place) == ~panic /\ current = p /\ pc[p] = place
Goto(p, place) == pc' = [pc EXCEPT ![p] = place]
Up(sema, p) == [sema EXCEPT ![p] = @ + 1]
Down(sema, p) == [sema EXCEPT ![p] = @ - 1]

--------------------------------------------------------------------------------
(* The scheduler.                                                          *)

\* In a sema_down of a semaphore whose value is 0; in the lock_acquire of a lock
\* that is held.
Blocked(p) ==
  \/ pc[p] = "execute" /\ exec_lock[p] = 0
  \/ pc[p] = "wait" /\ sema_child[target[p]] = 0
  \/ pc[p] = "linger" /\ sema_mem[p] = 0
  \/ pc[p] = "dying" /\ console # NoProc

Runnable(p) == pc[p] # "free" /\ ~Blocked(p)

PageDirectory(p) == IF pagedir[p] THEN p ELSE NoProc

\* schedule, and process_activate in thread_schedule_tail.
Switch ==
  /\ ~panic
  /\ \E q \in Proc \ {current} :
        /\ Runnable(q)
        /\ current' = q
        /\ active' = PageDirectory(q)
  /\ UNCHANGED <<pc, treeVars, dirVars, semaVars, callVars, consoleVars, histVars>>

--------------------------------------------------------------------------------
(* process_execute and start_process.                                      *)

\* process_execute up to thread_create, with init_thread: the new process is the last
\* child of the running one.  Without a free page thread_create returns TID_ERROR,
\* which is looked at only after the sema_down that follows.
Execute(p) ==
  /\ At(p, "user") /\ p \in Caller /\ next_tid <= MaxTid
  /\ \/ \E c \in Proc :
           /\ pc[c] = "free"
           /\ pc' = [pc EXCEPT ![p] = "execute", ![c] = "start"]
           /\ tid' = [tid EXCEPT ![c] = next_tid] /\ next_tid' = next_tid + 1
           /\ parent' = [parent EXCEPT ![c] = p]
           /\ child' = [child EXCEPT ![p] = @ \union {c}, ![c] = {}]
           /\ exit' = [exit EXCEPT ![c] = 0]
           /\ pagedir' = [pagedir EXCEPT ![c] = FALSE]
           /\ sema_child' = [sema_child EXCEPT ![c] = 0]
           /\ sema_mem' = [sema_mem EXCEPT ![c] = 0]
           /\ exec_lock' = [exec_lock EXCEPT ![c] = 0]
           /\ newborn' = [newborn EXCEPT ![p] = c]
     \/ /\ \A c \in Proc : pc[c] # "free"
        /\ Goto(p, "execute")
        /\ newborn' = [newborn EXCEPT ![p] = NoProc]
        /\ UNCHANGED <<treeVars, pagedir, semaVars>>
  /\ UNCHANGED <<schedVars, dirs, target, consoleVars, histVars>>

\* (Mutant: process_execute looks at exec_lock and does not take its unit.)
ExecutedKeepingUnit(p) ==
  /\ At(p, "execute") /\ exec_lock[p] > 0
  /\ IF \E c \in child[p] : exit[c] = -1
     THEN Goto(p, "wait") /\ target' = [target EXCEPT ![p] = newborn[p]]
     ELSE Goto(p, "user") /\ UNCHANGED target
  /\ UNCHANGED <<schedVars, treeVars, dirVars, semaVars, newborn, consoleVars, histVars>>

\* sema_down (&exec_lock) and the rest of process_execute: it waits for the new process
\* if one of the children shows an exit status of -1.
Executed(p) ==
  /\ At(p, "execute") /\ exec_lock[p] > 0
  /\ exec_lock' = Down(exec_lock, p)
  /\ IF \E c \in child[p] : exit[c] = -1
     THEN Goto(p, "wait") /\ target' = [target EXCEPT ![p] = newborn[p]]
     ELSE Goto(p, "user") /\ UNCHANGED target
  /\ UNCHANGED <<schedVars, treeVars, dirVars, sema_child, sema_mem, newborn, consoleVars, histVars>>

\* start_process: load creates the page directory and activates it; without memory
\* for one it fails.
CreatePagedir(p) ==
  /\ At(p, "start")
  /\ pagedir' = [pagedir EXCEPT ![p] = TRUE]
  /\ dirs' = dirs \union {p}
  /\ active' = p
  /\ Goto(p, "load")
  /\ UNCHANGED <<current, treeVars, semaVars, callVars, consoleVars, histVars>>

NoPagedir(p) ==
  /\ At(p, "start") /\ "failed" \in LoadOutcome
  /\ Goto(p, "failed")
  /\ UNCHANGED <<schedVars, treeVars, dirVars, semaVars, callVars, consoleVars, histVars>>

Exit(p, st) ==
  /\ status' = [status EXCEPT ![tid[p]] = st]
  /\ Goto(p, "exit")
  /\ UNCHANGED reaps

\* load returns; or it ends in the exit (-1) of validate_segment, or of the page fault
\* that parsing_filename takes when the command line ends in a space.
Load(p) ==
  /\ At(p, "load")
  /\ \/ "loaded" \in LoadOutcome /\ Goto(p, "loaded") /\ UNCHANGED histVars
     \/ "failed" \in LoadOutcome /\ Goto(p, "failed") /\ UNCHANGED histVars
     \/ "aborted" \in LoadOutcome /\ Exit(p, -1)
  /\ UNCHANGED <<schedVars, treeVars, dirVars, semaVars, callVars, consoleVars>>

\* (Mutant: start_process posts exec_lock after its test of success.)
StartedIfLoaded(p) ==
  /\ ~panic /\ current = p /\ pc[p] \in {"loaded", "failed"}
  /\ \/ /\ pc[p] = "loaded" /\ exec_lock' = Up(exec_lock, parent[p])
        /\ Goto(p, "user") /\ UNCHANGED histVars
     \/ pc[p] = "failed" /\ Exit(p, -1) /\ UNCHANGED exec_lock
  /\ UNCHANGED <<schedVars, treeVars, dirVars, sema_child, sema_mem, callVars, consoleVars>>

\* sema_up (&thread_current ()->parent->exec_lock), then the user program or exit (-1).
Started(p) ==
  /\ ~panic /\ current = p /\ pc[p] \in {"loaded", "failed"}
  /\ exec_lock' = Up(exec_lock, parent[p])
  /\ \/ pc[p] = "loaded" /\ Goto(p, "user") /\ UNCHANGED histVars
     \/ pc[p] = "failed" /\ Exit(p, -1)
  /\ UNCHANGED <<schedVars, treeVars, dirVars, sema_child, sema_mem, callVars, consoleVars>>

--------------------------------------------------------------------------------
(* process_wait.                                                           *)

\* A tid that is not that of a child returns -1 at once, and changes nothing.
Wait(p) ==
  /\ At(p, "user")
  /\ \E c \in child[p] \ {p} : target' = [target EXCEPT ![p] = c]
  /\ Goto(p, "wait")
  /\ UNCHANGED <<schedVars, treeVars, dirVars, semaVars, newborn, consoleVars, histVars>>

\* (Mutant: process_wait without sema_down (&t->sema_child).)
WaitNothing(p) ==
  /\ At(p, "wait")
  /\ Goto(p, "reap")
  /\ UNCHANGED <<schedVars, treeVars, dirVars, semaVars, callVars, consoleVars, histVars>>

WaitDown(p) ==
  /\ At(p, "wait") /\ sema_child[target[p]] > 0
  /\ sema_child' = Down(sema_child, target[p])
  /\ Goto(p, "reap")
  /\ UNCHANGED <<schedVars, treeVars, dirVars, exec_lock, sema_mem, callVars, consoleVars, histVars>>

\* exit = t->exit, which is returned to the caller; list_remove (&t->child_e)
Reap(p) ==
  LET c == target[p] IN
  /\ At(p, "reap")
  /\ child' = [child EXCEPT ![p] = @ \ {c}]
  /\ reaps' = [reaps EXCEPT ![tid[c]] = @ + 1]
  /\ Goto(p, "release")
  /\ UNCHANGED <<schedVars, tid, parent, exit, next_tid, dirVars, semaVars, callVars,
                 consoleVars, status>>

\* (Mutant: process_wait without sema_up (&t->sema_mem).)
ReleaseNothing(p) ==
  /\ At(p, "release")
  /\ target' = [target EXCEPT ![p] = NoProc]
  /\ Goto(p, "user")
  /\ UNCHANGED <<schedVars, treeVars, dirVars, semaVars, newborn, consoleVars, histVars>>

Release(p) ==
  /\ At(p, "release")
  /\ sema_mem' = Up(sema_mem, target[p])
  /\ target' = [target EXCEPT ![p] = NoProc]
  /\ Goto(p, "user")
  /\ UNCHANGED <<schedVars, treeVars, dirVars, exec_lock, sema_child, newborn, consoleVars, histVars>>

--------------------------------------------------------------------------------
(* exit, thread_exit and process_exit.                                     *)

\* The exit system call, or the death of the user program in an exception.
UserExit(p) ==
  /\ At(p, "user") /\ p # Main
  /\ \E st \in Status : Exit(p, st)
  /\ UNCHANGED <<schedVars, treeVars, dirVars, semaVars, callVars, consoleVars>>

\* (Mutant: process_exit without cur->pagedir = NULL.)
UnsetNothing(p) ==
  /\ At(p, "exit")
  /\ Goto(p, IF pagedir[p] THEN "unset" ELSE "post")
  /\ UNCHANGED <<schedVars, treeVars, dirVars, semaVars, callVars, consoleVars, histVars>>

\* cur->pagedir = NULL; pagedir_activate (NULL); pagedir_destroy (pd)
UnsetPagedir(p) ==
  /\ At(p, "exit")
  /\ Goto(p, IF pagedir[p] THEN "unset" ELSE "post")
  /\ pagedir' = [pagedir EXCEPT ![p] = FALSE]
  /\ UNCHANGED <<schedVars, treeVars, dirs, semaVars, callVars, consoleVars, histVars>>

ActivateBase(p) ==
  /\ At(p, "unset")
  /\ active' = NoProc
  /\ Goto(p, "base")
  /\ UNCHANGED <<current, treeVars, dirVars, semaVars, callVars, consoleVars, histVars>>

DestroyPagedir(p) ==
  /\ At(p, "base")
  /\ dirs' = dirs \ {p}
  /\ Goto(p, "post")
  /\ UNCHANGED <<schedVars, treeVars, pagedir, semaVars, callVars, consoleVars, histVars>>

\* (Mutant: process_exit without sema_up (&cur->sema_child).)
PostNothing(p) ==
  /\ At(p, "post")
  /\ Goto(p, "linger")
  /\ UNCHANGED <<schedVars, treeVars, dirVars, semaVars, callVars, consoleVars, histVars>>

PostChild(p) ==
  /\ At(p, "post")
  /\ sema_child' = Up(sema_child, p)
  /\ Goto(p, "linger")
  /\ UNCHANGED <<schedVars, treeVars, dirVars, exec_lock, sema_mem, callVars, consoleVars, histVars>>

\* The CPU goes from p to some process that is not blocked, or to the idle thread, whose
\* page directory is the base one.
Relinquish(p) ==
  \/ \E q \in Proc \ {p} : Runnable(q) /\ current' = q /\ active' = PageDirectory(q)
  \/ (\A q \in Proc \ {p} : ~Runnable(q)) /\ current' = NoProc /\ active' = NoProc

\* (Mutant: process_exit without sema_down (&cur->sema_mem).)
DieAtOnce(p) ==
  /\ At(p, "linger")
  /\ Goto(p, "free")
  /\ Relinquish(p)
  /\ UNCHANGED <<treeVars, dirVars, semaVars, callVars, consoleVars, histVars>>

\* sema_down (&cur->sema_mem), and the end of thread_exit: the status DYING, a printf, and
\* schedule, with interrupts off.  The next thread frees the page; but the printf blocks
\* while another process holds the console's lock.
Die(p) ==
  /\ At(p, "linger") /\ sema_mem[p] > 0
  /\ sema_mem' = Down(sema_mem, p)
  /\ \/ console = NoProc /\ Goto(p, "free") /\ Relinquish(p)
     \/ console # NoProc /\ Goto(p, "dying") /\ UNCHANGED schedVars
  /\ UNCHANGED <<treeVars, dirVars, exec_lock, sema_child, callVars, consoleVars, histVars>>

\* When it has had to wait for the console, the thread is RUNNING again after its printf:
\* the assertion of schedule fails.
ScheduleAssert(p) ==
  /\ At(p, "dying") /\ console = NoProc
  /\ panic' = TRUE
  /\ UNCHANGED <<schedVars, pc, treeVars, dirVars, semaVars, callVars, console, histVars>>

--------------------------------------------------------------------------------
(* The console.                                                            *)

\* The write system call on the console, or the main thread's printf.
WriteConsole(p) ==
  /\ At(p, "user") /\ p \in Writer /\ console = NoProc
  /\ console' = p
  /\ Goto(p, "print")
  /\ UNCHANGED <<schedVars, treeVars, dirVars, semaVars, callVars, panic, histVars>>

Written(p) ==
  /\ At(p, "print")
  /\ console' = NoProc
  /\ Goto(p, "user")
  /\ UNCHANGED <<schedVars, treeVars, dirVars, semaVars, callVars, panic, histVars>>

Step(p) ==
  \/ Executed(p) \/ CreatePagedir(p) \/ NoPagedir(p) \/ Load(p) \/ Started(p)
  \/ WaitDown(p) \/ Reap(p) \/ Release(p)
  \/ UnsetPagedir(p) \/ ActivateBase(p) \/ DestroyPagedir(p) \/ PostChild(p) \/ Die(p)
  \/ ScheduleAssert(p) \/ Written(p)

Call(p) == Execute(p) \/ Wait(p) \/ UserExit(p) \/ WriteConsole(p)

Next == Switch \/ \E p \in Proc : Step(p) \/ Call(p)

Spec == Init /\ [][Next]_vars

\* The scheduler is round robin among equal priorities: a process that is not blocked
\* gets the CPU again and again.  Nothing makes a user program exit or call anything.
FairSpec == Spec /\ \A p \in Proc : SF_vars(Step(p)) /\ WF_vars(Switch /\ current' = p)

--------------------------------------------------------------------------------
(* Properties.                                                             *)

\* Type invariant: every variable stays in its domain.
TypeOK ==
  /\ current \in Proc \union {NoProc} /\ active \in Proc \union {NoProc}
  /\ pc \in [Proc -> PC]
  /\ tid \in [Proc -> 0 .. MaxTid] /\ next_tid \in 1 .. MaxTid + 1
  /\ parent \in [Proc -> Proc \union {NoProc}] /\ child \in [Proc -> SUBSET Proc]
  /\ exit \in [Proc -> Int]
  /\ pagedir \in [Proc -> BOOLEAN] /\ dirs \in SUBSET Proc
  /\ exec_lock \in [Proc -> 0 .. 1]
  /\ sema_child \in [Proc -> 0 .. 1] /\ sema_mem \in [Proc -> 0 .. 1]
  /\ console \in Proc \union {NoProc} /\ panic \in BOOLEAN
  /\ target \in [Proc -> Proc \union {NoProc}] /\ newborn \in [Proc -> Proc \union {NoProc}]
  /\ status \in [Tid -> Int \union {NoStatus}]
  /\ reaps \in [Tid -> Nat]

\* No use after free: the threads on a live process's list of children, the child that
\* process_wait works on, and the parent whose exec_lock a starting process will post,
\* have not been freed, whoever exits in which order.
NoUseAfterFree ==
  \A p \in Proc : pc[p] # "free" =>
     /\ \A c \in child[p] : pc[c] # "free" /\ parent[c] = p
     /\ pc[p] \in {"wait", "reap", "release"} => pc[target[p]] # "free"
     /\ pc[p] \in {"start", "load", "loaded", "failed"} => pc[parent[p]] # "free"

\* process_wait returns after the child is past its process_exit, and at most once for
\* each tid.
ReapOnceAfterExit ==
  /\ \A n \in Tid : reaps[n] <= 1 /\ (reaps[n] = 1 => status[n] # NoStatus)
  /\ \A p \in Proc : pc[p] \in {"reap", "release"} => pc[target[p]] = "linger"

\* process_execute returns only after the child it has created has been loaded, or has
\* failed to load: the exec_lock it waits for is posted by that child and no other.
ExecuteAwaitsLoad ==
  \A p \in Proc : pc[p] = "execute" /\ exec_lock[p] > 0 =>
     newborn[p] # NoProc /\ pc[newborn[p]] \notin {"start", "load", "loaded", "failed"}

\* The page directory in use exists (process_exit, "Correct ordering here is crucial"),
\* and a process in its own code runs on its own, whatever the switches meanwhile.
ActiveDirectoryExists ==
  /\ active \in dirs \union {NoProc}
  /\ \A p \in Proc \ {Main} : At(p, "user") => active = p

\* A wait ends: once the child has begun to exit, its parent's process_wait returns.
WaitEnds ==
  \A p \in Proc, c \in Proc :
     pc[p] = "wait" /\ target[p] = c /\ pc[c] \in Exiting ~> pc[p] = "user" /\ c \notin child[p]

\* No zombies: a child whose exit process_wait has seen is freed.
ReapedIsFreed ==
  \A c \in Proc, n \in Tid : tid[c] = n /\ reaps[n] = 1 ~> pc[c] = "free" \/ tid[c] # n

\* process_execute "Returns the new process's thread id, or TID_ERROR if the thread
\* cannot be created": it returns.
ExecuteReturns == \A p \in Proc : pc[p] = "execute" ~> pc[p] # "execute"
================================================================================
