------------------------------- MODULE FileCalls -------------------------------
(***************************************************************************)
(* The file system calls of userprog/syscall.c in hw3: open, close, read,  *)
(* write, filesize, seek, tell, create and remove, the lock f_lock and the *)
(* table of descriptors of each process.                                   *)
(*                                                                         *)
(* The file system is external: a path names an inode; filesys_open        *)
(* allocates a struct file (Handle) for it; an inode whose deny count is   *)
(* positive refuses to be written.  What is in a file is left out.         *)
(*                                                                         *)
(* All processes have the same priority: the scheduler is a free choice    *)
(* among those that do not wait for f_lock.  A buffer or a path given by   *)
(* the user program may lie where nothing is mapped: the page fault taken  *)
(* in the kernel ends the process (page_fault) where it stands.            *)
(***************************************************************************)
EXTENDS Integers, FiniteSets, Functions

CONSTANTS
  Proc,
  Path,          \* names of files
  Inode, Handle, \* inodes, and addresses of struct files
  Fd,            \* the descriptors that open may return, 3 .. 127 in the code
  program,       \* thread_name (): the path of each process's program
  NoProc, NoPath, NoInode, NoHandle

ASSUME FileAssumption ==
  /\ Fd \subseteq Nat \ 0 .. 2
  /\ program \in [Proc -> Path]
  /\ NoProc \notin Proc /\ NoPath \notin Path /\ NoInode \notin Inode /\ NoHandle \notin Handle

VARIABLES
  pc, file, fd, path,    \* where each process is; the variables f, fd and file of its call
  fd_table,              \* of struct thread
  f_lock,                \* the holder of f_lock
  inode, deny_write,     \* of struct file; NoInode while it is not allocated
  deny_cnt,              \* of inodes
  directory,             \* the inode that each path names
  lost,                  \* history: struct files that nothing will close
  own                    \* history: struct files that are their opener's own program

localVars == <<file, fd, path>>
handleVars == <<inode, deny_write, deny_cnt, own>>
vars == <<pc, file, fd, path, fd_table, f_lock, inode, deny_write, deny_cnt, directory, lost, own>>

(* pc: "none"     the program has not been started                         *)
(*     "user"     in its own code                                          *)
(*     "open", "read", "write", "exec"   in the call, before lock_acquire  *)
(*     "opening", "reading", "writing", "executing"   holding f_lock       *)
(*     "install"  in open, the file opened                                 *)
(*     "return", "exit", "put"   about to release f_lock, then to return,  *)
(*                to exit (-1), or to file_write                           *)
(*     "writeout" in write, f_lock released                                *)
(*     "close"    in close, the file closed                                *)
(*     "dead"     in thread_exit or beyond                                 *)
Acquired == [open |-> "opening", read |-> "reading", write |-> "writing", exec |-> "executing"]
Calls == DOMAIN Acquired
Locked == {Acquired[call] : call \in Calls} \union {"install", "return", "exit", "put"}
PC == Calls \union Locked \union {"none", "user", "writeout", "close", "dead"}

\* To read, 2 is as 1, a descriptor that is never open; to write, as 0.
FdArg == Fd \union {0, 1}
NoFiles == [n \in Fd |-> NoHandle]

Init ==
  /\ pc = [p \in Proc |-> "none"]
  /\ file = [p \in Proc |-> NoHandle] /\ fd = [p \in Proc |-> 0] /\ path = [p \in Proc |-> NoPath]
  /\ fd_table = [p \in Proc |-> NoFiles]
  /\ f_lock = NoProc
  /\ inode = [h \in Handle |-> NoInode] /\ deny_write = [h \in Handle |-> FALSE]
  /\ deny_cnt = [i \in Inode |-> 0]
  /\ directory \in [Path -> Inode] /\ IsInjective(directory)
  /\ lost = {} /\ own = {}

At(p, place) == pc[p] = place
Goto(p, place) == pc' = [pc EXCEPT ![p] = place]

\* The variables of a call end with it.
Forget(p) ==
  /\ file' = [file EXCEPT ![p] = NoHandle]
  /\ fd' = [fd EXCEPT ![p] = 0]
  /\ path' = [path EXCEPT ![p] = NoPath]

Return(p) == Goto(p, "user") /\ Forget(p)

\* fd_table[n]; the first three entries are never set.
Entry(p, n) == IF n \in Fd THEN fd_table[p][n] ELSE NoHandle
Entries(p) == {fd_table[p][n] : n \in Fd} \ {NoHandle}

\* exit: process_exit closes no files and releases no locks; the table is freed with
\* struct thread.
Die(p) ==
  /\ Goto(p, "dead") /\ Forget(p)
  /\ fd_table' = [fd_table EXCEPT ![p] = NoFiles]
  /\ lost' = lost \union Entries(p)

--------------------------------------------------------------------------------
(* The file system.                                                        *)

FreeHandles == {h \in Handle : inode[h] = NoInode}
FreeInodes == {i \in Inode : /\ \A n \in Path : directory[n] # i
                             /\ \A h \in Handle : inode[h] # i}

\* filesys_open (n), which returns h or NULL.
Opens(n) == directory[n] # NoInode /\ FreeHandles # {}
FilesysOpen(n, h) ==
  /\ directory[n] # NoInode /\ h \in FreeHandles
  /\ inode' = [inode EXCEPT ![h] = directory[n]]
  /\ UNCHANGED <<deny_write, deny_cnt, own>>

\* It counts once for each struct file; file_close takes it back.
FileDenyWrite(h) ==
  /\ deny_write' = [deny_write EXCEPT ![h] = TRUE]
  /\ deny_cnt' = [deny_cnt EXCEPT ![inode[h]] = IF deny_write[h] THEN @ ELSE @ + 1]
  /\ UNCHANGED inode

\* (Mutant: file_close takes back what file_deny_write did not count.)
FileCloseAllows(h) ==
  /\ inode' = [inode EXCEPT ![h] = NoInode]
  /\ deny_write' = [deny_write EXCEPT ![h] = FALSE]
  /\ deny_cnt' = [deny_cnt EXCEPT ![inode[h]] = @ - 1]
  /\ own' = own \ {h}

FileClose(h) ==
  /\ inode' = [inode EXCEPT ![h] = NoInode]
  /\ deny_write' = [deny_write EXCEPT ![h] = FALSE]
  /\ deny_cnt' = [deny_cnt EXCEPT ![inode[h]] = IF deny_write[h] THEN @ - 1 ELSE @]
  /\ own' = own \ {h}

--------------------------------------------------------------------------------
(* The life of a process.                                                  *)

\* process_execute opens the program to see whether it is there, and does not close it.
\* (load opens and closes it again.)
Execute(p) ==
  /\ At(p, "none")
  /\ \E h \in Handle : FilesysOpen(program[p], h) /\ lost' = lost \union {h}
  /\ Goto(p, "user")
  /\ UNCHANGED <<localVars, fd_table, f_lock, directory>>

Exit(p) ==
  /\ At(p, "user") /\ Die(p)
  /\ UNCHANGED <<f_lock, handleVars, directory>>

\* A page fault on the path or the buffer, in the kernel.
Fault(p) ==
  /\ pc[p] \in {"opening", "reading", "writing", "executing", "writeout"} /\ Die(p)
  /\ UNCHANGED <<f_lock, handleVars, directory>>

--------------------------------------------------------------------------------
(* The calls that take f_lock.                                             *)

\* exec returns at once when it is given a program, and takes the lock when it is given
\* NULL, which process_execute follows into a fault.
Call(p) ==
  /\ At(p, "user")
  /\ \/ Goto(p, "open") /\ \E n \in Path : path' = [path EXCEPT ![p] = n] /\ UNCHANGED fd
     \/ /\ \E call \in {"read", "write"} : Goto(p, call)
        /\ \E n \in FdArg : fd' = [fd EXCEPT ![p] = n]
        /\ UNCHANGED path
     \/ Goto(p, "exec") /\ UNCHANGED <<fd, path>>
  /\ UNCHANGED <<file, fd_table, f_lock, handleVars, directory, lost>>

Acquire(p) ==
  /\ pc[p] \in Calls /\ f_lock = NoProc
  /\ f_lock' = p
  /\ Goto(p, Acquired[pc[p]])
  /\ UNCHANGED <<localVars, fd_table, handleVars, directory, lost>>

\* lock_release, and what follows it.
Release(p) ==
  /\ f_lock' = NoProc
  /\ \/ At(p, "return") /\ Return(p) /\ UNCHANGED <<fd_table, lost>>
     \/ At(p, "put") /\ Goto(p, "writeout") /\ UNCHANGED <<localVars, fd_table, lost>>
     \/ At(p, "exit") /\ Die(p)
  /\ UNCHANGED <<handleVars, directory>>

\* (Mutant: open returns with f_lock when there is no file.)
OpenFileUnreleased(p) ==
  /\ At(p, "opening")
  /\ \/ /\ \E h \in Handle : FilesysOpen(path[p], h) /\ file' = [file EXCEPT ![p] = h]
        /\ Goto(p, "install")
        /\ UNCHANGED <<fd, path>>
     \/ /\ ~Opens(path[p])
        /\ Return(p)
        /\ UNCHANGED handleVars
  /\ UNCHANGED <<fd_table, f_lock, directory, lost>>

OpenFile(p) ==
  /\ At(p, "opening")
  /\ \/ /\ \E h \in Handle : FilesysOpen(path[p], h) /\ file' = [file EXCEPT ![p] = h]
        /\ Goto(p, "install")
     \/ /\ ~Opens(path[p])
        /\ Goto(p, "return")
        /\ UNCHANGED <<file, handleVars>>
  /\ UNCHANGED <<fd, path, fd_table, f_lock, directory, lost>>

\* (Mutant: the test of strcmp is inverted.)
InstallDenyingOthers(p) ==
  LET free == {n \in Fd : fd_table[p][n] = NoHandle} IN
  /\ At(p, "install")
  /\ \/ \E n \in free :
          /\ \A m \in free : n <= m
          /\ fd_table' = [fd_table EXCEPT ![p][n] = file[p]]
          /\ IF path[p] = program[p]
             THEN own' = own \union {file[p]} /\ UNCHANGED <<inode, deny_write, deny_cnt>>
             ELSE FileDenyWrite(file[p]) /\ UNCHANGED own
          /\ UNCHANGED lost
     \/ /\ free = {}
        /\ lost' = lost \union {file[p]}
        /\ UNCHANGED <<fd_table, handleVars>>
  /\ Goto(p, "return")
  /\ UNCHANGED <<localVars, f_lock, directory>>

\* (Mutant: the loop of open does not stop at the first free entry.)
InstallAnywhere(p) ==
  LET free == {n \in Fd : fd_table[p][n] = NoHandle} IN
  /\ At(p, "install")
  /\ \/ \E n \in free :
          /\ fd_table' = [fd_table EXCEPT ![p][n] = file[p]]
          /\ IF path[p] = program[p]
             THEN FileDenyWrite(file[p]) /\ own' = own \union {file[p]}
             ELSE UNCHANGED handleVars
          /\ UNCHANGED lost
     \/ /\ free = {}
        /\ lost' = lost \union {file[p]}
        /\ UNCHANGED <<fd_table, handleVars>>
  /\ Goto(p, "return")
  /\ UNCHANGED <<localVars, f_lock, directory>>

\* The lowest free descriptor; a process that opens its own program denies writes to it.
\* Without a free descriptor the file stays open.
Install(p) ==
  LET free == {n \in Fd : fd_table[p][n] = NoHandle} IN
  /\ At(p, "install")
  /\ \/ \E n \in free :
          /\ \A m \in free : n <= m
          /\ fd_table' = [fd_table EXCEPT ![p][n] = file[p]]
          /\ IF path[p] = program[p]
             THEN FileDenyWrite(file[p]) /\ own' = own \union {file[p]}
             ELSE UNCHANGED handleVars
          /\ UNCHANGED lost
     \/ /\ free = {}
        /\ lost' = lost \union {file[p]}
        /\ UNCHANGED <<fd_table, handleVars>>
  /\ Goto(p, "return")
  /\ UNCHANGED <<localVars, f_lock, directory>>

\* fd 0 is answered from the buffer itself.
Read(p) ==
  /\ At(p, "reading")
  /\ Goto(p, IF fd[p] # 0 /\ Entry(p, fd[p]) = NoHandle THEN "exit" ELSE "return")
  /\ UNCHANGED <<localVars, fd_table, f_lock, handleVars, directory, lost>>

\* fd 1 is the console; fd 0 and 2 return -1.
Write(p) ==
  LET t_file == Entry(p, fd[p]) IN
  /\ At(p, "writing")
  /\ \/ fd[p] <= 2 /\ Goto(p, "return") /\ UNCHANGED <<file, handleVars>>
     \/ fd[p] > 2 /\ t_file = NoHandle /\ Goto(p, "exit") /\ UNCHANGED <<file, handleVars>>
     \/ /\ fd[p] > 2 /\ t_file # NoHandle
        /\ Goto(p, "put")
        /\ file' = [file EXCEPT ![p] = t_file]
        /\ IF deny_write[t_file] THEN FileDenyWrite(t_file) /\ UNCHANGED own
                                 ELSE UNCHANGED handleVars
  /\ UNCHANGED <<fd, path, fd_table, f_lock, directory, lost>>

\* file_write, after lock_release.
WriteOut(p) ==
  /\ At(p, "writeout")
  /\ Return(p)
  /\ UNCHANGED <<fd_table, f_lock, handleVars, directory, lost>>

--------------------------------------------------------------------------------
(* The other calls, which do not.                                          *)

\* (Mutant: close does not call file_close.)
CloseForgetting(p) ==
  /\ At(p, "user")
  /\ \E n \in FdArg :
       \/ Entry(p, n) = NoHandle /\ Die(p) /\ UNCHANGED handleVars
       \/ /\ Entry(p, n) # NoHandle
          /\ fd' = [fd EXCEPT ![p] = n]
          /\ Goto(p, "close")
          /\ UNCHANGED <<file, path, fd_table, lost, handleVars>>
  /\ UNCHANGED <<f_lock, directory>>

\* A descriptor that is not open ends the process.
Close(p) ==
  /\ At(p, "user")
  /\ \E n \in FdArg :
       \/ Entry(p, n) = NoHandle /\ Die(p) /\ UNCHANGED handleVars
       \/ /\ Entry(p, n) # NoHandle
          /\ FileClose(Entry(p, n))
          /\ fd' = [fd EXCEPT ![p] = n]
          /\ Goto(p, "close")
          /\ UNCHANGED <<file, path, fd_table, lost>>
  /\ UNCHANGED <<f_lock, directory>>

\* (Mutant: close leaves its entry in the table.)
ClearNothing(p) ==
  /\ At(p, "close")
  /\ Return(p)
  /\ UNCHANGED <<fd_table, f_lock, handleVars, directory, lost>>

ClearEntry(p) ==
  /\ At(p, "close")
  /\ fd_table' = [fd_table EXCEPT ![p][fd[p]] = NoHandle]
  /\ Return(p)
  /\ UNCHANGED <<f_lock, handleVars, directory, lost>>

\* filesize, seek and tell look at no more than struct file; without one they exit.
Inspect(p) ==
  /\ At(p, "user")
  /\ \E n \in FdArg : Entry(p, n) = NoHandle
  /\ Die(p)
  /\ UNCHANGED <<f_lock, handleVars, directory>>

Create(p) ==
  /\ At(p, "user")
  /\ \E n \in Path :
        /\ directory[n] = NoInode
        /\ \E i \in FreeInodes : directory' = [directory EXCEPT ![n] = i]
  /\ UNCHANGED <<pc, localVars, fd_table, f_lock, handleVars, lost>>

\* An inode that is open lives on without a name.
Remove(p) ==
  /\ At(p, "user")
  /\ \E n \in Path : directory[n] # NoInode /\ directory' = [directory EXCEPT ![n] = NoInode]
  /\ UNCHANGED <<pc, localVars, fd_table, f_lock, handleVars, lost>>

\* What a process does next once it is in a call and not waiting for f_lock.
Continue(p) == \/ Release(p) \/ OpenFile(p) \/ Install(p) \/ Read(p) \/ Write(p)
               \/ WriteOut(p) \/ ClearEntry(p) \/ Fault(p)

Next ==
  \E p \in Proc : \/ Execute(p) \/ Exit(p) \/ Call(p) \/ Acquire(p) \/ Continue(p)
                  \/ Close(p) \/ Inspect(p) \/ Create(p) \/ Remove(p)

Spec == Init /\ [][Next]_vars

--------------------------------------------------------------------------------
(* Properties.                                                             *)

Live == {p \in Proc : pc[p] # "dead"}

\* The entries of p that its own calls may follow: not the one that close is clearing.
Known(p) == {n \in Fd : fd_table[p][n] # NoHandle /\ ~(At(p, "close") /\ fd[p] = n)}

\* Type invariant: every variable stays in its domain.
TypeOK ==
  /\ pc \in [Proc -> PC] /\ fd \in [Proc -> FdArg] /\ path \in [Proc -> Path \union {NoPath}]
  /\ file \in [Proc -> Handle \union {NoHandle}]
  /\ fd_table \in [Proc -> [Fd -> Handle \union {NoHandle}]]
  /\ f_lock \in Proc \union {NoProc}
  /\ inode \in [Handle -> Inode \union {NoInode}] /\ deny_write \in [Handle -> BOOLEAN]
  /\ deny_cnt \in [Inode -> Nat]
  /\ directory \in [Path -> Inode \union {NoInode}]
  /\ lost \in SUBSET Handle /\ own \in SUBSET Handle

\* Between lock_acquire and lock_release a process holds f_lock, alone, and on every path out
\* of open, read and write it has given it back: it is held outside only by a process that
\* died with it.
LockIsGivenBack ==
  /\ \A p \in Proc : pc[p] \in Locked => f_lock = p
  /\ \A p \in Live : f_lock = p => pc[p] \in Locked

\* No call follows a closed struct file: what a live process has in its table is open, and
\* in no other entry of any process; so is the file that open is about to enter or that
\* write writes to after it has given f_lock back.
DescriptorsOpen ==
  /\ \A p \in Live : \A n \in Known(p) :
       /\ inode[fd_table[p][n]] # NoInode
       /\ \A q \in Live : \A m \in Known(q) :
            fd_table[p][n] = fd_table[q][m] => p = q /\ m = n
  /\ \A p \in Live : pc[p] \in {"install", "put", "writeout"} => inode[file[p]] # NoInode
  /\ \A p, q \in Live : At(p, "install") => \A n \in Known(q) : fd_table[q][n] # file[p]

\* Struct files are lost only by process_execute, by an open without a free descriptor, and
\* by the end of a process: all others can still be closed.
FilesAccounted ==
  \A h \in Handle :
    inode[h] # NoInode <=> \/ h \in lost
                           \/ \E p \in Live : At(p, "install") /\ file[p] = h
                           \/ \E p \in Live : \E n \in Known(p) : fd_table[p][n] = h

\* While a process has its own program open, by whatever descriptor, the program's file
\* refuses every write, whatever others open, write and close meanwhile, and whatever
\* other descriptors of the file it closes itself.
OwnProgramDenied ==
  \A p \in Live : \A n \in Known(p) :
     fd_table[p][n] \in own => deny_cnt[inode[fd_table[p][n]]] > 0

\* The calls implement tables of descriptors that are private and atomic.
Descriptors == INSTANCE DescriptorSpec
  WITH table <- [p \in Proc |-> [n \in Fd |->
                  IF p \in Live /\ n \in Known(p) THEN inode[fd_table[p][n]] ELSE NoInode]]
TablesArePrivate == Descriptors!DescriptorSafety
================================================================================
