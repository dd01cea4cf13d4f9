--------------------------- MODULE FileCallsProofs ---------------------------
(***************************************************************************)
(* Proofs about the file calls of FileCalls, for all sets of processes,    *)
(* files and descriptors, whoever faults, exits or dies with f_lock.       *)
(***************************************************************************)
EXTENDS FileCalls, TLAPS, FiniteSetTheorems

\* What each process may follow: its entry n, not being cleared by close, is h.
Knows(p, n, h) == p \in Live /\ n \in Known(p) /\ fd_table[p][n] = h

\* Types, and the variables that a call has set by the time it is where it is.
TypeInv ==
  /\ pc \in [Proc -> PC] /\ fd \in [Proc -> FdArg] /\ path \in [Proc -> Path \union {NoPath}]
  /\ file \in [Proc -> Handle \union {NoHandle}]
  /\ fd_table \in [Proc -> [Fd -> Handle \union {NoHandle}]]
  /\ f_lock \in Proc \union {NoProc}
  /\ inode \in [Handle -> Inode \union {NoInode}] /\ deny_write \in [Handle -> BOOLEAN]
  /\ deny_cnt \in [Inode -> Int]
  /\ directory \in [Path -> Inode \union {NoInode}]
  /\ lost \in SUBSET Handle /\ own \in SUBSET Handle
  /\ \A p \in Proc : pc[p] \in {"open", "opening", "install"} => path[p] \in Path
  /\ \A p \in Proc : pc[p] \in {"install", "put", "writeout"} => file[p] \in Handle

LEMMA InitTypeInv == Init => TypeInv
<1> SUFFICES ASSUME Init PROVE TypeInv
  OBVIOUS
<1> QED BY FileAssumption DEF Init, TypeInv, PC, FdArg, NoFiles

--------------------------------------------------------------------------------
(* Types.                                                                  *)

LEMMA ForgetType ==
  ASSUME TypeInv, NEW p \in Proc, Forget(p)
  PROVE  /\ fd' \in [Proc -> FdArg] /\ path' \in [Proc -> Path \union {NoPath}]
         /\ file' \in [Proc -> Handle \union {NoHandle}]
         /\ \A q \in Proc \ {p} : fd'[q] = fd[q] /\ path'[q] = path[q] /\ file'[q] = file[q]
BY DEF TypeInv, Forget, FdArg

LEMMA DieType ==
  ASSUME TypeInv, NEW p \in Proc, Die(p), UNCHANGED <<handleVars, directory>>,
         f_lock' \in Proc \union {NoProc}
  PROVE  TypeInv'
<1>1. /\ fd' \in [Proc -> FdArg] /\ path' \in [Proc -> Path \union {NoPath}]
      /\ file' \in [Proc -> Handle \union {NoHandle}]
      /\ \A q \in Proc \ {p} : fd'[q] = fd[q] /\ path'[q] = path[q] /\ file'[q] = file[q]
  BY ForgetType DEF Die
<1>2. pc' = [pc EXCEPT ![p] = "dead"] /\ pc' \in [Proc -> PC]
  BY DEF TypeInv, Die, Goto, PC
<1>3. fd_table' \in [Proc -> [Fd -> Handle \union {NoHandle}]]
  BY DEF TypeInv, Die, NoFiles
<1>4. lost' \in SUBSET Handle
  BY DEF TypeInv, Die, Entries
<1> QED BY <1>1, <1>2, <1>3, <1>4 DEF TypeInv, handleVars

LEMMA FilesysOpenType ==
  ASSUME TypeInv, NEW n \in Path, NEW h, FilesysOpen(n, h)
  PROVE  /\ h \in Handle /\ inode[h] = NoInode /\ inode' = [inode EXCEPT ![h] = directory[n]]
         /\ directory[n] \in Inode
         /\ inode' \in [Handle -> Inode \union {NoInode}]
         /\ UNCHANGED <<deny_write, deny_cnt, own>>
BY DEF TypeInv, FilesysOpen, FreeHandles

\* A count that goes up or down is a number again.
LEMMA CountType ==
  ASSUME NEW f \in [Inode -> Int], NEW i, NEW e, i \in Inode => e \in Int
  PROVE  [f EXCEPT ![i] = e] \in [Inode -> Int]
OBVIOUS

LEMMA FileDenyWriteType ==
  ASSUME TypeInv, NEW h \in Handle, FileDenyWrite(h)
  PROVE  /\ inode' = inode /\ deny_write' \in [Handle -> BOOLEAN] /\ deny_cnt' \in [Inode -> Int]
<1>1. /\ inode' = inode /\ deny_write' = [deny_write EXCEPT ![h] = TRUE]
      /\ deny_cnt' = [deny_cnt EXCEPT ![inode[h]] =
                        IF deny_write[h] THEN deny_cnt[inode[h]] ELSE deny_cnt[inode[h]] + 1]
  BY DEF FileDenyWrite
<1>2. deny_cnt \in [Inode -> Int]
  BY DEF TypeInv
<1>3. deny_cnt' \in [Inode -> Int]
  BY <1>1, <1>2, CountType
<1> QED BY <1>1, <1>3 DEF TypeInv

LEMMA FileCloseType ==
  ASSUME TypeInv, NEW h \in Handle, FileClose(h)
  PROVE  /\ inode' = [inode EXCEPT ![h] = NoInode] /\ inode' \in [Handle -> Inode \union {NoInode}]
         /\ deny_write' \in [Handle -> BOOLEAN] /\ deny_cnt' \in [Inode -> Int]
         /\ own' = own \ {h}
<1>1. /\ inode' = [inode EXCEPT ![h] = NoInode] /\ own' = own \ {h}
      /\ deny_write' = [deny_write EXCEPT ![h] = FALSE]
      /\ deny_cnt' = [deny_cnt EXCEPT ![inode[h]] =
                        IF deny_write[h] THEN deny_cnt[inode[h]] - 1 ELSE deny_cnt[inode[h]]]
  BY DEF FileClose
<1>2. deny_cnt \in [Inode -> Int]
  BY DEF TypeInv
<1>3. deny_cnt' \in [Inode -> Int]
  BY <1>1, <1>2, CountType
<1> QED BY <1>1, <1>3 DEF TypeInv

\* fd_table[n] of a descriptor that is open.
LEMMA EntryType ==
  ASSUME TypeInv, NEW p \in Proc, NEW n, Entry(p, n) # NoHandle
  PROVE  n \in Fd /\ Entry(p, n) = fd_table[p][n] /\ Entry(p, n) \in Handle
<1>1. n \in Fd /\ Entry(p, n) = fd_table[p][n]
  BY DEF Entry
<1>2. fd_table[p] \in [Fd -> Handle \union {NoHandle}]
  BY DEF TypeInv
<1> QED BY <1>1, <1>2

LEMMA NextTypeInv == TypeInv /\ [Next]_vars => TypeInv'
<1> SUFFICES ASSUME TypeInv, [Next]_vars PROVE TypeInv'
  OBVIOUS
<1>1. ASSUME NEW p \in Proc, Execute(p) PROVE TypeInv'
  <2>1. PICK h \in Handle : FilesysOpen(program[p], h) /\ lost' = lost \union {h}
    BY <1>1 DEF Execute
  <2>2. program[p] \in Path
    BY FileAssumption
  <2> QED BY <1>1, <2>1, <2>2, FilesysOpenType DEF Execute, TypeInv, Goto, PC, localVars
<1>2. ASSUME NEW p \in Proc, Exit(p) \/ Fault(p) \/ Inspect(p) PROVE TypeInv'
  BY <1>2, DieType DEF Exit, Fault, Inspect, TypeInv
<1>3. ASSUME NEW p \in Proc, Call(p) PROVE TypeInv'
  <2>1. UNCHANGED <<file, fd_table, f_lock, handleVars, directory, lost>>
    BY <1>3 DEF Call
  <2>2. CASE Goto(p, "open") /\ \E n \in Path : path' = [path EXCEPT ![p] = n] /\ UNCHANGED fd
    BY <2>1, <2>2 DEF TypeInv, handleVars, Goto, PC, Calls, Acquired
  <2>3. CASE /\ \E call \in {"read", "write"} : Goto(p, call)
             /\ \E n \in FdArg : fd' = [fd EXCEPT ![p] = n]
             /\ UNCHANGED path
    BY <2>1, <2>3 DEF TypeInv, handleVars, Goto, PC, Calls, Acquired
  <2>4. CASE Goto(p, "exec") /\ UNCHANGED <<fd, path>>
    BY <2>1, <2>4 DEF TypeInv, handleVars, Goto, PC, Calls, Acquired
  <2> QED BY <1>3, <2>2, <2>3, <2>4 DEF Call
<1>4. ASSUME NEW p \in Proc, Acquire(p) PROVE TypeInv'
  <2>1. /\ pc[p] \in {"open", "read", "write", "exec"}
        /\ pc' = [pc EXCEPT ![p] = Acquired[pc[p]]]
        /\ Acquired[pc[p]] \in {"opening", "reading", "writing", "executing"}
        /\ Acquired[pc[p]] = "opening" => pc[p] = "open"
    BY <1>4 DEF Acquire, Goto, Calls, Acquired
  <2>2. {"opening", "reading", "writing", "executing"} \subseteq PC
    BY DEF PC, Locked, Calls, Acquired
  <2>3. UNCHANGED <<file, fd, path, fd_table, handleVars, directory, lost>> /\ f_lock' = p
    BY <1>4 DEF Acquire, localVars
  <2>4. pc' \in [Proc -> PC] /\ \A q \in Proc : q # p => pc'[q] = pc[q]
    BY <2>1, <2>2 DEF TypeInv
  <2>5. pc'[p] = Acquired[pc[p]]
    BY <2>1 DEF TypeInv
  <2> QED BY <2>1, <2>3, <2>4, <2>5 DEF TypeInv, handleVars
<1>5. ASSUME NEW p \in Proc, Release(p) PROVE TypeInv'
  <2>1. f_lock' = NoProc /\ UNCHANGED <<handleVars, directory>>
    BY <1>5 DEF Release
  <2>2. CASE At(p, "return") /\ Return(p) /\ UNCHANGED <<fd_table, lost>>
    BY <2>1, <2>2, ForgetType DEF TypeInv, handleVars, Return, Goto, PC
  <2>3. CASE At(p, "put") /\ Goto(p, "writeout") /\ UNCHANGED <<localVars, fd_table, lost>>
    BY <2>1, <2>3 DEF TypeInv, handleVars, localVars, At, Goto, PC
  <2>4. CASE At(p, "exit") /\ Die(p)
    BY <2>1, <2>4, DieType
  <2> QED BY <1>5, <2>2, <2>3, <2>4 DEF Release
<1>6. ASSUME NEW p \in Proc, OpenFile(p) PROVE TypeInv'
  <2>1. UNCHANGED <<fd, path, fd_table, f_lock, directory, lost>> /\ path[p] \in Path
    BY <1>6 DEF OpenFile, At, TypeInv
  <2>2. CASE /\ \E h \in Handle : FilesysOpen(path[p], h) /\ file' = [file EXCEPT ![p] = h]
             /\ Goto(p, "install")
    <3>1. PICK h \in Handle : FilesysOpen(path[p], h) /\ file' = [file EXCEPT ![p] = h]
      BY <2>2
    <3>2. inode' \in [Handle -> Inode \union {NoInode}] /\ UNCHANGED <<deny_write, deny_cnt, own>>
      BY <2>1, <3>1, FilesysOpenType
    <3> QED BY <2>1, <2>2, <3>1, <3>2 DEF TypeInv, Goto, PC, Locked
  <2>3. CASE Goto(p, "return") /\ UNCHANGED <<file, handleVars>>
    BY <2>1, <2>3 DEF TypeInv, handleVars, Goto, PC, Locked
  <2> QED BY <1>6, <2>2, <2>3 DEF OpenFile
<1>7. ASSUME NEW p \in Proc, Install(p) PROVE TypeInv'
  <2>1. /\ pc[p] = "install" /\ pc' = [pc EXCEPT ![p] = "return"]
        /\ UNCHANGED <<file, fd, path, f_lock, directory>> /\ file[p] \in Handle
    BY <1>7 DEF Install, At, Goto, TypeInv, localVars
  <2>2. CASE \E n \in Fd :
          /\ fd_table' = [fd_table EXCEPT ![p][n] = file[p]]
          /\ IF path[p] = program[p]
             THEN FileDenyWrite(file[p]) /\ own' = own \union {file[p]}
             ELSE UNCHANGED handleVars
          /\ UNCHANGED lost
    <3>1. fd_table' \in [Proc -> [Fd -> Handle \union {NoHandle}]]
      BY <2>1, <2>2 DEF TypeInv
    <3>2. /\ inode' = inode /\ deny_write' \in [Handle -> BOOLEAN] /\ deny_cnt' \in [Inode -> Int]
          /\ own' \in SUBSET Handle
      BY <2>1, <2>2, FileDenyWriteType DEF TypeInv, handleVars
    <3> QED BY <2>1, <2>2, <3>1, <3>2 DEF TypeInv, PC, Locked
  <2>3. CASE lost' = lost \union {file[p]} /\ UNCHANGED <<fd_table, handleVars>>
    BY <2>1, <2>3 DEF TypeInv, handleVars, PC, Locked
  <2> QED BY <1>7, <2>2, <2>3 DEF Install
<1>8. ASSUME NEW p \in Proc, Read(p) PROVE TypeInv'
  BY <1>8 DEF Read, TypeInv, localVars, handleVars, Goto, PC, Locked
<1>9. ASSUME NEW p \in Proc, Write(p) PROVE TypeInv'
  <2>1. UNCHANGED <<fd, path, fd_table, f_lock, directory, lost>> /\ pc[p] = "writing"
    BY <1>9 DEF Write, At
  <2>2. CASE (Goto(p, "return") \/ Goto(p, "exit")) /\ UNCHANGED <<file, handleVars>>
    BY <2>1, <2>2 DEF TypeInv, handleVars, Goto, PC, Locked
  <2>3. CASE LET t_file == Entry(p, fd[p]) IN
             /\ t_file # NoHandle
             /\ Goto(p, "put")
             /\ file' = [file EXCEPT ![p] = t_file]
             /\ IF deny_write[t_file] THEN FileDenyWrite(t_file) /\ UNCHANGED own
                                      ELSE UNCHANGED handleVars
    <3> DEFINE t_file == Entry(p, fd[p])
    <3>1. t_file \in Handle
      BY <2>3, EntryType
    <3> HIDE DEF t_file
    <3>2. /\ inode' = inode /\ deny_write' \in [Handle -> BOOLEAN] /\ deny_cnt' \in [Inode -> Int]
          /\ own' = own
      BY <2>3, <3>1, FileDenyWriteType DEF TypeInv, handleVars, t_file
    <3>3. file' = [file EXCEPT ![p] = t_file] /\ pc' = [pc EXCEPT ![p] = "put"]
      BY <2>3 DEF Goto, t_file
    <3> QED BY <2>1, <3>1, <3>2, <3>3 DEF TypeInv, PC, Locked
  <2> QED BY <1>9, <2>2, <2>3 DEF Write
<1>10. ASSUME NEW p \in Proc, WriteOut(p) PROVE TypeInv'
  BY <1>10, ForgetType DEF WriteOut, TypeInv, handleVars, Return, Goto, PC
<1>11. ASSUME NEW p \in Proc, ClearEntry(p) PROVE TypeInv'
  <2>1. fd_table' \in [Proc -> [Fd -> Handle \union {NoHandle}]]
    BY <1>11 DEF ClearEntry, TypeInv
  <2> QED BY <1>11, <2>1, ForgetType DEF ClearEntry, TypeInv, handleVars, Return, Goto, PC
<1>12. ASSUME NEW p \in Proc, Close(p) PROVE TypeInv'
  <2>1. PICK n \in FdArg :
       \/ Entry(p, n) = NoHandle /\ Die(p) /\ UNCHANGED handleVars
       \/ /\ Entry(p, n) # NoHandle
          /\ FileClose(Entry(p, n))
          /\ fd' = [fd EXCEPT ![p] = n]
          /\ Goto(p, "close")
          /\ UNCHANGED <<file, path, fd_table, lost>>
    BY <1>12 DEF Close
  <2>2. UNCHANGED <<f_lock, directory>> /\ f_lock' \in Proc \union {NoProc}
    BY <1>12 DEF Close, TypeInv
  <2>3. CASE Die(p) /\ UNCHANGED handleVars
    BY <2>2, <2>3, DieType
  <2>4. CASE /\ Entry(p, n) # NoHandle
             /\ FileClose(Entry(p, n))
             /\ fd' = [fd EXCEPT ![p] = n]
             /\ Goto(p, "close")
             /\ UNCHANGED <<file, path, fd_table, lost>>
    <3>1. Entry(p, n) \in Handle
      BY <2>4, EntryType
    <3>2. /\ inode' \in [Handle -> Inode \union {NoInode}]
          /\ deny_write' \in [Handle -> BOOLEAN] /\ deny_cnt' \in [Inode -> Int]
          /\ own' \subseteq own
      BY <2>4, <3>1, FileCloseType
    <3> QED BY <2>2, <2>4, <3>2 DEF TypeInv, Goto, PC
  <2> QED BY <2>1, <2>3, <2>4
<1>13. ASSUME NEW p \in Proc, Create(p) \/ Remove(p) PROVE TypeInv'
  <2>1. directory' \in [Path -> Inode \union {NoInode}]
    BY <1>13 DEF TypeInv, Create, Remove, FreeInodes
  <2>2. UNCHANGED <<pc, localVars, fd_table, f_lock, handleVars, lost>>
    BY <1>13 DEF Create, Remove
  <2> QED BY <2>1, <2>2 DEF TypeInv, localVars, handleVars
<1>14. CASE UNCHANGED vars
  BY <1>14 DEF vars, TypeInv
<1> QED BY <1>1, <1>2, <1>3, <1>4, <1>5, <1>6, <1>7, <1>8, <1>9, <1>10, <1>11, <1>12, <1>13, <1>14
        DEF Next, Continue

--------------------------------------------------------------------------------
(* The lock.                                                               *)

LEMMA InitLock == Init => LockIsGivenBack
BY FileAssumption DEF Init, LockIsGivenBack, Locked, Live, Calls, Acquired

LEMMA LockedPlaces ==
  Locked = {"opening", "reading", "writing", "executing", "install", "return", "exit", "put"}
<1>1. {Acquired[call] : call \in Calls} = {"opening", "reading", "writing", "executing"}
  BY DEF Calls, Acquired
<1> QED BY <1>1 DEF Locked

\* A step that leaves the lock alone keeps its owner in the part of the call that holds it,
\* or ends a process where it stands.
LEMMA LockFrame ==
  ASSUME TypeInv, LockIsGivenBack, NEW p \in Proc, NEW place, Goto(p, place), UNCHANGED f_lock,
         pc[p] # "dead", place = "dead" \/ (place \in Locked <=> pc[p] \in Locked)
  PROVE  LockIsGivenBack'
<1>1. pc'[p] = place /\ \A q \in Proc \ {p} : pc'[q] = pc[q]
  BY DEF Goto, TypeInv
<1>2. "dead" \notin Locked
  BY LockedPlaces
<1>3. ASSUME NEW q \in Proc, pc'[q] \in Locked PROVE f_lock' = q
  BY <1>1, <1>2, <1>3 DEF LockIsGivenBack
<1>4. ASSUME NEW q \in Proc, pc'[q] # "dead", f_lock' = q PROVE pc'[q] \in Locked
  <2>1. pc[q] # "dead" /\ f_lock = q
    BY <1>1, <1>4
  <2>2. pc[q] \in Locked
    BY <2>1 DEF LockIsGivenBack, Live
  <2> QED BY <1>1, <1>4, <2>2
<1> QED BY <1>3, <1>4 DEF LockIsGivenBack, Live

LEMMA NextLock == TypeInv /\ LockIsGivenBack /\ [Next]_vars => LockIsGivenBack'
<1> SUFFICES ASSUME TypeInv, LockIsGivenBack, [Next]_vars PROVE LockIsGivenBack'
  OBVIOUS
<1> USE LockedPlaces
<1>1. ASSUME NEW p \in Proc, Execute(p) PROVE LockIsGivenBack'
  BY <1>1, LockFrame DEF Execute, At
<1>2. ASSUME NEW p \in Proc, Exit(p) \/ Fault(p) \/ Inspect(p) PROVE LockIsGivenBack'
  <2>1. pc[p] # "dead" /\ Goto(p, "dead") /\ UNCHANGED f_lock
    BY <1>2 DEF Exit, Fault, Inspect, Die, At
  <2> QED BY <2>1, LockFrame
<1>3. ASSUME NEW p \in Proc, Call(p) PROVE LockIsGivenBack'
  <2>1. \E place \in {"open", "read", "write", "exec"} : Goto(p, place)
    BY <1>3 DEF Call
  <2> QED BY <1>3, <2>1, LockFrame DEF Call, At
<1>4. ASSUME NEW p \in Proc, Acquire(p) PROVE LockIsGivenBack'
  <2>1. /\ f_lock = NoProc /\ f_lock' = p /\ pc' = [pc EXCEPT ![p] = Acquired[pc[p]]]
        /\ Acquired[pc[p]] \in Locked
    BY <1>4 DEF Acquire, Goto, Locked
  <2>2. pc'[p] \in Locked /\ \A q \in Proc \ {p} : pc'[q] = pc[q]
    BY <2>1 DEF TypeInv
  <2>3. \A q \in Proc : pc[q] \notin Locked
    BY <2>1, FileAssumption DEF LockIsGivenBack
  <2> QED BY <2>1, <2>2, <2>3 DEF LockIsGivenBack, Live
<1>5. ASSUME NEW p \in Proc, Release(p) PROVE LockIsGivenBack'
  <2>1. PICK place \in {"user", "writeout", "dead"} : Goto(p, place)
    BY <1>5 DEF Release, Return, Die
  <2>2. pc[p] \in {"return", "put", "exit"} /\ f_lock' = NoProc
    BY <1>5 DEF Release, At
  <2>3. pc'[p] = place /\ \A q \in Proc \ {p} : pc'[q] = pc[q]
    BY <2>1 DEF Goto, TypeInv
  <2>4. f_lock = p /\ \A q \in Proc \ {p} : pc[q] \notin Locked
    BY <2>2 DEF LockIsGivenBack
  <2> QED BY <2>2, <2>3, <2>4, FileAssumption DEF LockIsGivenBack, Live
<1>6. ASSUME NEW p \in Proc, OpenFile(p) PROVE LockIsGivenBack'
  <2>1. \E place \in {"install", "return"} : Goto(p, place)
    BY <1>6 DEF OpenFile
  <2> QED BY <1>6, <2>1, LockFrame DEF OpenFile, At
<1>7. ASSUME NEW p \in Proc, Install(p) PROVE LockIsGivenBack'
  BY <1>7, LockFrame DEF Install, At
<1>8. ASSUME NEW p \in Proc, Read(p) PROVE LockIsGivenBack'
  BY <1>8, LockFrame DEF Read, At
<1>9. ASSUME NEW p \in Proc, Write(p) PROVE LockIsGivenBack'
  <2>1. \E place \in {"exit", "return", "put"} : Goto(p, place)
    BY <1>9 DEF Write
  <2> QED BY <1>9, <2>1, LockFrame DEF Write, At
<1>10. ASSUME NEW p \in Proc, WriteOut(p) PROVE LockIsGivenBack'
  BY <1>10, LockFrame DEF WriteOut, Return, At
<1>11. ASSUME NEW p \in Proc, ClearEntry(p) PROVE LockIsGivenBack'
  BY <1>11, LockFrame DEF ClearEntry, Return, At
<1>12. ASSUME NEW p \in Proc, Close(p) PROVE LockIsGivenBack'
  <2>1. \E place \in {"close", "dead"} : Goto(p, place)
    BY <1>12 DEF Close, Die
  <2> QED BY <1>12, <2>1, LockFrame DEF Close, At
<1>13. ASSUME NEW p \in Proc, Create(p) \/ Remove(p) PROVE LockIsGivenBack'
  BY <1>13 DEF Create, Remove, LockIsGivenBack, Live
<1>14. CASE UNCHANGED vars
  BY <1>14 DEF vars, LockIsGivenBack, Live
<1> QED BY <1>1, <1>2, <1>3, <1>4, <1>5, <1>6, <1>7, <1>8, <1>9, <1>10, <1>11, <1>12, <1>13, <1>14
        DEF Next, Continue

--------------------------------------------------------------------------------
(* Struct files and descriptors.                                           *)

\* What a descriptor that can be followed, the file that open holds and the file that
\* write writes to are; and that every open struct file is one of these or lost.
HandleInv ==
  /\ \A p \in Proc, n \in Fd, h \in Handle : Knows(p, n, h) => inode[h] # NoInode /\ h \notin lost
  /\ \A p, q \in Proc, n, m \in Fd, h \in Handle :
       Knows(p, n, h) /\ Knows(q, m, h) => p = q /\ n = m
  /\ \A p \in Proc : pc[p] = "install" =>
       /\ inode[file[p]] # NoInode /\ file[p] \notin lost
       /\ \A q \in Proc, n \in Fd : ~Knows(q, n, file[p])
  /\ \A p \in Proc : pc[p] \in {"put", "writeout"} => \E n \in Fd : Knows(p, n, file[p])
  /\ \A h \in Handle : inode[h] # NoInode =>
       \/ h \in lost
       \/ \E p \in Proc : pc[p] = "install" /\ file[p] = h
       \/ \E p \in Proc, n \in Fd : Knows(p, n, h)
  /\ \A h \in lost : inode[h] # NoInode

LEMMA InitHandles == Init => HandleInv
<1>1. Init => \A p \in Proc, n \in Fd : fd_table[p][n] = NoHandle
  BY DEF Init, NoFiles
<1>2. Init => \A p \in Proc, n \in Fd, h \in Handle : ~Knows(p, n, h)
  BY <1>1, FileAssumption DEF Knows, Known
<1> QED BY <1>2 DEF Init, HandleInv

\* A process knows the same as long as its table stays and it neither dies nor is in close.
LEMMA KnowsFrame ==
  ASSUME TypeInv, TypeInv', NEW p \in Proc, UNCHANGED fd_table,
         \A q \in Proc \ {p} : pc'[q] = pc[q] /\ fd'[q] = fd[q],
         pc[p] \notin {"close", "dead"}, pc'[p] \notin {"close", "dead"}
  PROVE  \A q \in Proc, n \in Fd, h \in Handle : Knows(q, n, h)' <=> Knows(q, n, h)
BY DEF Knows, Known, Live, At

\* The end of a process takes what it knows, and no more, to the lost files.
LEMMA DieKnows ==
  ASSUME TypeInv, TypeInv', NEW p \in Proc, Die(p), pc[p] \notin {"close", "dead"}
  PROVE  /\ \A q \in Proc, n \in Fd, h \in Handle : Knows(q, n, h)' <=> q # p /\ Knows(q, n, h)
         /\ \A h \in Handle : h \in lost' <=> h \in lost \/ \E n \in Fd : Knows(p, n, h)
         /\ \A q \in Proc \ {p} : pc'[q] = pc[q] /\ file'[q] = file[q]
         /\ pc'[p] = "dead"
<1>1. /\ pc'[p] = "dead"
      /\ \A q \in Proc \ {p} : /\ pc'[q] = pc[q] /\ file'[q] = file[q] /\ fd'[q] = fd[q]
                               /\ fd_table'[q] = fd_table[q]
  BY DEF Die, Goto, Forget, TypeInv
<1>2. lost' = lost \union ({fd_table[p][n] : n \in Fd} \ {NoHandle})
  BY DEF Die, Entries
<1>3. \A n \in Fd, h \in Handle : Knows(p, n, h) <=> fd_table[p][n] = h
  BY FileAssumption DEF Knows, Known, Live, At
<1>4. \A q \in Proc \ {p}, n \in Fd, h \in Handle : Knows(q, n, h)' <=> Knows(q, n, h)
  BY <1>1 DEF Knows, Known, Live, At
<1>5. \A n \in Fd, h \in Handle : ~Knows(p, n, h)'
  BY <1>1 DEF Knows, Live
<1>6. \A h \in Handle : h \in lost' <=> h \in lost \/ \E n \in Fd : Knows(p, n, h)
  BY <1>2, <1>3, FileAssumption
<1> QED BY <1>1, <1>4, <1>5, <1>6

LEMMA DieHandles ==
  ASSUME TypeInv, TypeInv', HandleInv, NEW p \in Proc, Die(p), UNCHANGED inode,
         pc[p] \notin {"close", "dead", "install"}
  PROVE  HandleInv'
<1>1. /\ \A q \in Proc, n \in Fd, h \in Handle : Knows(q, n, h)' <=> q # p /\ Knows(q, n, h)
      /\ \A h \in Handle : h \in lost' <=> h \in lost \/ \E n \in Fd : Knows(p, n, h)
      /\ \A q \in Proc \ {p} : pc'[q] = pc[q] /\ file'[q] = file[q]
      /\ pc'[p] = "dead"
  BY DieKnows
<1>2. \A q \in Proc : pc[q] \in {"install", "put", "writeout"} => file[q] \in Handle
  BY DEF TypeInv
<1>3. \A h \in lost' : h \in Handle
  BY DEF TypeInv
<1>4. \A q \in Proc, n \in Fd, h \in Handle : Knows(q, n, h)' => inode'[h] # NoInode /\ h \notin lost'
  BY <1>1 DEF HandleInv
<1>5. \A q, r \in Proc, n, m \in Fd, h \in Handle :
         Knows(q, n, h)' /\ Knows(r, m, h)' => q = r /\ n = m
  BY <1>1 DEF HandleInv
<1>6. ASSUME NEW q \in Proc, pc'[q] = "install"
      PROVE  /\ inode'[file'[q]] # NoInode /\ file'[q] \notin lost'
             /\ \A r \in Proc, n \in Fd : ~Knows(r, n, file[q])'
  BY <1>1, <1>2, <1>6 DEF HandleInv
<1>7. \A q \in Proc : pc'[q] \in {"put", "writeout"} => \E n \in Fd : Knows(q, n, file[q])'
  <2> SUFFICES ASSUME NEW q \in Proc, pc'[q] \in {"put", "writeout"}
               PROVE  \E n \in Fd : Knows(q, n, file[q])'
    OBVIOUS
  <2>1. q # p /\ pc[q] = pc'[q] /\ file'[q] = file[q] /\ file[q] \in Handle
    BY <1>1, <1>2
  <2>2. PICK n \in Fd : Knows(q, n, file[q])
    BY <2>1 DEF HandleInv
  <2> QED BY <1>1, <2>1, <2>2
<1>8. \A h \in Handle : inode'[h] # NoInode =>
         \/ h \in lost'
         \/ \E q \in Proc : pc'[q] = "install" /\ file'[q] = h
         \/ \E q \in Proc, n \in Fd : Knows(q, n, h)'
  BY <1>1 DEF HandleInv
<1>9. \A h \in lost' : inode'[h] # NoInode
  BY <1>1, <1>3 DEF HandleInv
<1> QED BY <1>4, <1>5, <1>6, <1>7, <1>8, <1>9 DEF HandleInv

\* A step that opens, closes and loses nothing.
LEMMA QuietHandles ==
  ASSUME TypeInv, TypeInv', HandleInv, UNCHANGED <<inode, lost>>,
         \A q \in Proc, n \in Fd, h \in Handle : Knows(q, n, h)' <=> Knows(q, n, h),
         \A q \in Proc : (pc'[q] = "install" <=> pc[q] = "install")
                         /\ (pc[q] = "install" => file'[q] = file[q]),
         \A q \in Proc : pc'[q] \in {"put", "writeout"} =>
            \E n \in Fd, h \in Handle : h = file'[q] /\ Knows(q, n, h)
  PROVE  HandleInv'
<1>1. \A q \in Proc : pc[q] = "install" => file[q] \in Handle
  BY DEF TypeInv
<1>2. \A q \in Proc, n \in Fd, h \in Handle : Knows(q, n, h)' => inode'[h] # NoInode /\ h \notin lost'
  BY DEF HandleInv
<1>3. \A q, r \in Proc, n, m \in Fd, h \in Handle :
         Knows(q, n, h)' /\ Knows(r, m, h)' => q = r /\ n = m
  BY DEF HandleInv
<1>4. ASSUME NEW q \in Proc, pc'[q] = "install"
      PROVE  /\ inode'[file'[q]] # NoInode /\ file'[q] \notin lost'
             /\ \A r \in Proc, n \in Fd : ~Knows(r, n, file[q])'
  BY <1>1, <1>4 DEF HandleInv
<1>5. \A q \in Proc : pc'[q] \in {"put", "writeout"} => \E n \in Fd : Knows(q, n, file[q])'
  OBVIOUS
<1>6. \A h \in Handle : inode'[h] # NoInode =>
         \/ h \in lost'
         \/ \E q \in Proc : pc'[q] = "install" /\ file'[q] = h
         \/ \E q \in Proc, n \in Fd : Knows(q, n, h)'
  BY DEF HandleInv
<1>7. \A h \in lost' : inode'[h] # NoInode
  BY DEF HandleInv
<1> QED BY <1>2, <1>3, <1>4, <1>5, <1>6, <1>7 DEF HandleInv

LEMMA WriterKnows ==
  ASSUME TypeInv, HandleInv, NEW q \in Proc, pc[q] \in {"put", "writeout"}
  PROVE  \E n \in Fd, h \in Handle : h = file[q] /\ Knows(q, n, h)
<1>1. file[q] \in Handle
  BY DEF TypeInv
<1>2. \E n \in Fd : Knows(q, n, file[q])
  BY DEF HandleInv
<1> QED BY <1>1, <1>2

\* The same for one process that does not go near an install or a write.
LEMMA QuietStep ==
  ASSUME TypeInv, TypeInv', HandleInv, NEW p \in Proc, UNCHANGED <<fd_table, inode, lost>>,
         \A q \in Proc \ {p} : pc'[q] = pc[q] /\ fd'[q] = fd[q] /\ file'[q] = file[q],
         pc[p] \notin {"close", "dead", "install"},
         pc'[p] \notin {"close", "dead", "install", "put", "writeout"}
  PROVE  HandleInv'
<1>1. \A q \in Proc, n \in Fd, h \in Handle : Knows(q, n, h)' <=> Knows(q, n, h)
  BY KnowsFrame
<1>2. \A q \in Proc : pc'[q] \in {"put", "writeout"} =>
        \E n \in Fd, h \in Handle : h = file'[q] /\ Knows(q, n, h)
  BY DEF HandleInv, TypeInv
<1> QED BY <1>1, <1>2, QuietHandles

\* filesys_open gives a struct file that nobody knows, to the lost files or to an open.
LEMMA OpenedHandles ==
  ASSUME TypeInv, TypeInv', HandleInv, NEW p \in Proc, NEW h \in Handle, inode[h] = NoInode,
         inode'[h] # NoInode, \A g \in Handle \ {h} : inode'[g] = inode[g],
         UNCHANGED fd_table,
         \A q \in Proc \ {p} : pc'[q] = pc[q] /\ fd'[q] = fd[q] /\ file'[q] = file[q],
         \/ lost' = lost \union {h} /\ pc[p] = "none" /\ pc'[p] = "user"
         \/ lost' = lost /\ pc[p] = "opening" /\ pc'[p] = "install" /\ file'[p] = h
  PROVE  HandleInv'
<1>1. \A q \in Proc, n \in Fd, g \in Handle : Knows(q, n, g)' <=> Knows(q, n, g)
  BY KnowsFrame
<1>2. h \notin lost /\ (\A q \in Proc, n \in Fd : ~Knows(q, n, h))
      /\ \A q \in Proc : pc[q] = "install" => file[q] # h
  BY DEF HandleInv
<1>3. \A q \in Proc : pc[q] \in {"install", "put", "writeout"} => file[q] \in Handle
  BY DEF TypeInv
<1>4. \A q \in Proc, n \in Fd, g \in Handle : Knows(q, n, g)' => inode'[g] # NoInode /\ g \notin lost'
  BY <1>1, <1>2 DEF HandleInv
<1>5. \A q, r \in Proc, n, m \in Fd, g \in Handle :
         Knows(q, n, g)' /\ Knows(r, m, g)' => q = r /\ n = m
  BY <1>1 DEF HandleInv
<1>6. ASSUME NEW q \in Proc, pc'[q] = "install"
      PROVE  /\ inode'[file'[q]] # NoInode /\ file'[q] \notin lost'
             /\ \A r \in Proc, n \in Fd : ~Knows(r, n, file[q])'
  <2>1. CASE q = p
    BY <1>1, <1>2, <1>6, <2>1
  <2>2. CASE q # p
    BY <1>1, <1>2, <1>3, <1>6, <2>2 DEF HandleInv
  <2> QED BY <2>1, <2>2
<1>7. \A q \in Proc : pc'[q] \in {"put", "writeout"} => \E n \in Fd : Knows(q, n, file[q])'
  <2> SUFFICES ASSUME NEW q \in Proc, pc'[q] \in {"put", "writeout"}
               PROVE  \E n \in Fd : Knows(q, n, file[q])'
    OBVIOUS
  <2>1. q # p /\ pc[q] = pc'[q] /\ file'[q] = file[q] /\ file[q] \in Handle
    BY <1>3
  <2>2. PICK n \in Fd : Knows(q, n, file[q])
    BY <2>1 DEF HandleInv
  <2> QED BY <1>1, <2>1, <2>2
<1>8. ASSUME NEW g \in Handle, inode'[g] # NoInode
      PROVE  \/ g \in lost'
             \/ \E q \in Proc : pc'[q] = "install" /\ file'[q] = g
             \/ \E q \in Proc, n \in Fd : Knows(q, n, g)'
  <2>1. CASE g = h
    BY <2>1
  <2>2. CASE g # h
    <3>1. \/ g \in lost
          \/ \E q \in Proc : pc[q] = "install" /\ file[q] = g
          \/ \E q \in Proc, n \in Fd : Knows(q, n, g)
      BY <1>8, <2>2 DEF HandleInv
    <3> QED BY <1>1, <3>1
  <2> QED BY <2>1, <2>2
<1>9. ASSUME NEW g \in lost' PROVE inode'[g] # NoInode
  <2>1. CASE g = h
    BY <2>1
  <2>2. CASE g # h
    <3>1. g \in lost /\ g \in Handle
      BY <1>9, <2>2 DEF TypeInv
    <3> QED BY <2>2, <3>1 DEF HandleInv
  <2> QED BY <2>1, <2>2
<1> QED BY <1>4, <1>5, <1>6, <1>7, <1>8, <1>9 DEF HandleInv

\* open enters the file that it holds: it alone holds one, since it holds f_lock.
LEMMA InstallHandles ==
  ASSUME TypeInv, TypeInv', HandleInv, LockIsGivenBack, NEW p \in Proc, Install(p)
  PROVE  HandleInv'
<1>1. /\ pc[p] = "install" /\ UNCHANGED <<file, fd, path>> /\ inode' = inode
      /\ pc' = [pc EXCEPT ![p] = "return"]
  BY DEF Install, At, Goto, localVars, handleVars, FileDenyWrite
<1>2. pc'[p] = "return" /\ \A q \in Proc \ {p} : pc'[q] = pc[q]
  BY <1>1 DEF TypeInv
<1>3. /\ file[p] \in Handle /\ inode[file[p]] # NoInode /\ file[p] \notin lost
      /\ \A q \in Proc, n \in Fd : ~Knows(q, n, file[p])
  BY <1>1 DEF TypeInv, HandleInv
<1>4. \A q \in Proc \ {p} : pc[q] # "install"
  BY <1>1, LockedPlaces DEF LockIsGivenBack
<1>5. \A q \in Proc : pc[q] \in {"install", "put", "writeout"} => file[q] \in Handle
  BY DEF TypeInv
<1>6. CASE lost' = lost /\ \E n \in Fd : fd_table[p][n] = NoHandle
                                          /\ fd_table' = [fd_table EXCEPT ![p][n] = file[p]]
  <2>1. PICK n \in Fd : fd_table[p][n] = NoHandle /\ fd_table' = [fd_table EXCEPT ![p][n] = file[p]]
    BY <1>6
  <2>2. /\ fd_table'[p][n] = file[p]
        /\ \A q \in Proc, m \in Fd : q # p \/ m # n => fd_table'[q][m] = fd_table[q][m]
    BY <2>1 DEF TypeInv
  <2>3. \A q \in Proc, m \in Fd, h \in Handle :
          Knows(q, m, h)' <=> Knows(q, m, h) \/ (q = p /\ m = n /\ h = file[p])
    BY <1>1, <1>2, <1>3, <2>1, <2>2, FileAssumption DEF Knows, Known, Live, At
  <2>4. \A q \in Proc, m \in Fd, g \in Handle : Knows(q, m, g)' => inode'[g] # NoInode /\ g \notin lost'
    BY <1>1, <1>3, <1>6, <2>3 DEF HandleInv
  <2>5. \A q, r \in Proc, k, m \in Fd, g \in Handle :
           Knows(q, k, g)' /\ Knows(r, m, g)' => q = r /\ k = m
    BY <1>3, <2>3 DEF HandleInv
  <2>6. \A q \in Proc : pc'[q] \in {"put", "writeout"} => \E m \in Fd : Knows(q, m, file[q])'
    <3> SUFFICES ASSUME NEW q \in Proc, pc'[q] \in {"put", "writeout"}
                 PROVE  \E m \in Fd : Knows(q, m, file[q])'
      OBVIOUS
    <3>1. q # p /\ pc[q] = pc'[q] /\ file'[q] = file[q] /\ file[q] \in Handle
      BY <1>1, <1>2, <1>5
    <3>2. PICK m \in Fd : Knows(q, m, file[q])
      BY <3>1 DEF HandleInv
    <3> QED BY <2>3, <3>1, <3>2
  <2>7. ASSUME NEW g \in Handle, inode'[g] # NoInode
        PROVE  g \in lost' \/ \E q \in Proc, m \in Fd : Knows(q, m, g)'
    <3>1. \/ g \in lost
          \/ \E q \in Proc : pc[q] = "install" /\ file[q] = g
          \/ \E q \in Proc, m \in Fd : Knows(q, m, g)
      BY <1>1, <2>7 DEF HandleInv
    <3> QED BY <1>4, <1>6, <2>3, <3>1
  <2>8. \A g \in lost' : inode'[g] # NoInode
    BY <1>1, <1>6 DEF HandleInv
  <2> QED BY <1>2, <1>4, <2>4, <2>5, <2>6, <2>7, <2>8 DEF HandleInv
<1>7. CASE lost' = lost \union {file[p]} /\ UNCHANGED fd_table
  <2>1. \A q \in Proc, m \in Fd, h \in Handle : Knows(q, m, h)' <=> Knows(q, m, h)
    BY <1>1, <1>2, <1>7, KnowsFrame
  <2>2. \A q \in Proc, m \in Fd, g \in Handle : Knows(q, m, g)' => inode'[g] # NoInode /\ g \notin lost'
    BY <1>1, <1>3, <1>7, <2>1 DEF HandleInv
  <2>3. \A q, r \in Proc, k, m \in Fd, g \in Handle :
           Knows(q, k, g)' /\ Knows(r, m, g)' => q = r /\ k = m
    BY <2>1 DEF HandleInv
  <2>4. \A q \in Proc : pc'[q] \in {"put", "writeout"} => \E m \in Fd : Knows(q, m, file[q])'
    <3> SUFFICES ASSUME NEW q \in Proc, pc'[q] \in {"put", "writeout"}
                 PROVE  \E m \in Fd : Knows(q, m, file[q])'
      OBVIOUS
    <3>1. q # p /\ pc[q] = pc'[q] /\ file'[q] = file[q] /\ file[q] \in Handle
      BY <1>1, <1>2, <1>5
    <3>2. PICK m \in Fd : Knows(q, m, file[q])
      BY <3>1 DEF HandleInv
    <3> QED BY <2>1, <3>1, <3>2
  <2>5. ASSUME NEW g \in Handle, inode'[g] # NoInode
        PROVE  g \in lost' \/ \E q \in Proc, m \in Fd : Knows(q, m, g)'
    <3>1. \/ g \in lost
          \/ \E q \in Proc : pc[q] = "install" /\ file[q] = g
          \/ \E q \in Proc, m \in Fd : Knows(q, m, g)
      BY <1>1, <2>5 DEF HandleInv
    <3> QED BY <1>4, <1>7, <2>1, <3>1
  <2>6. \A g \in lost' : inode'[g] # NoInode
    BY <1>1, <1>3, <1>7 DEF HandleInv
  <2> QED BY <1>2, <1>4, <2>2, <2>3, <2>4, <2>5, <2>6 DEF HandleInv
<1> QED BY <1>6, <1>7 DEF Install

\* file_close in close: the descriptor can no longer be followed, and no other is closed.
LEMMA CloseHandles ==
  ASSUME TypeInv, TypeInv', HandleInv, NEW p \in Proc, pc[p] = "user", NEW n,
         Entry(p, n) # NoHandle, FileClose(Entry(p, n)), fd' = [fd EXCEPT ![p] = n],
         Goto(p, "close"), UNCHANGED <<file, fd_table, lost>>
  PROVE  HandleInv'
<1> DEFINE h == Entry(p, n)
<1>1. n \in Fd /\ h = fd_table[p][n] /\ h \in Handle
  BY EntryType
<1>2. /\ pc'[p] = "close" /\ fd'[p] = n
      /\ \A q \in Proc \ {p} : pc'[q] = pc[q] /\ fd'[q] = fd[q]
  BY <1>1 DEF Goto, TypeInv
<1>3. inode'[h] = NoInode /\ \A g \in Handle \ {h} : inode'[g] = inode[g]
  BY <1>1, FileCloseType DEF TypeInv
<1> HIDE DEF h
<1>4. Knows(p, n, h)
  BY <1>1, FileAssumption DEF Knows, Known, Live, At
<1>5. \A q \in Proc, m \in Fd, g \in Handle :
         Knows(q, m, g)' <=> Knows(q, m, g) /\ ~(q = p /\ m = n)
  BY <1>1, <1>2 DEF Knows, Known, Live, At
<1>6. /\ h \notin lost
      /\ \A q \in Proc : pc[q] = "install" => file[q] # h
      /\ \A q \in Proc, m \in Fd : Knows(q, m, h) => q = p /\ m = n
  BY <1>1, <1>4 DEF HandleInv
<1>7. \A q \in Proc : pc[q] \in {"install", "put", "writeout"} => file[q] \in Handle
  BY DEF TypeInv
<1>8. \A q \in Proc, m \in Fd, g \in Handle : Knows(q, m, g)' => inode'[g] # NoInode /\ g \notin lost'
  BY <1>3, <1>5, <1>6 DEF HandleInv
<1>9. \A q, r \in Proc, k, m \in Fd, g \in Handle :
         Knows(q, k, g)' /\ Knows(r, m, g)' => q = r /\ k = m
  BY <1>5 DEF HandleInv
<1>10. ASSUME NEW q \in Proc, pc'[q] = "install"
       PROVE  /\ inode'[file'[q]] # NoInode /\ file'[q] \notin lost'
              /\ \A r \in Proc, m \in Fd : ~Knows(r, m, file[q])'
  BY <1>2, <1>3, <1>5, <1>6, <1>7, <1>10 DEF HandleInv
<1>11. \A q \in Proc : pc'[q] \in {"put", "writeout"} => \E m \in Fd : Knows(q, m, file[q])'
  <2> SUFFICES ASSUME NEW q \in Proc, pc'[q] \in {"put", "writeout"}
               PROVE  \E m \in Fd : Knows(q, m, file[q])'
    OBVIOUS
  <2>1. q # p /\ pc[q] = pc'[q] /\ file'[q] = file[q] /\ file[q] \in Handle
    BY <1>2, <1>7
  <2>2. PICK m \in Fd : Knows(q, m, file[q])
    BY <2>1 DEF HandleInv
  <2> QED BY <1>5, <2>1, <2>2
<1>12. ASSUME NEW g \in Handle, inode'[g] # NoInode
       PROVE  \/ g \in lost'
              \/ \E q \in Proc : pc'[q] = "install" /\ file'[q] = g
              \/ \E q \in Proc, m \in Fd : Knows(q, m, g)'
  <2>1. g # h /\ inode[g] # NoInode
    BY <1>3, <1>12
  <2>2. \/ g \in lost
        \/ \E q \in Proc : pc[q] = "install" /\ file[q] = g
        \/ \E q \in Proc, m \in Fd : Knows(q, m, g)
    BY <2>1 DEF HandleInv
  <2>3. ASSUME NEW q \in Proc, NEW m \in Fd, Knows(q, m, g) PROVE Knows(q, m, g)'
    <3>1. ~(q = p /\ m = n)
      BY <1>1, <2>1, <2>3 DEF Knows
    <3> QED BY <1>5, <2>3, <3>1
  <2>4. \A q \in Proc : pc[q] = "install" => pc'[q] = "install"
    BY <1>2
  <2> QED BY <2>2, <2>3, <2>4
<1>13. \A g \in lost' : inode'[g] # NoInode
  BY <1>3, <1>6 DEF HandleInv, TypeInv
<1> QED BY <1>8, <1>9, <1>10, <1>11, <1>12, <1>13 DEF HandleInv

LEMMA NextHandles == TypeInv /\ LockIsGivenBack /\ HandleInv /\ [Next]_vars => HandleInv'
<1> SUFFICES ASSUME TypeInv, LockIsGivenBack, HandleInv, [Next]_vars PROVE HandleInv'
  OBVIOUS
<1>0. TypeInv'
  BY NextTypeInv
<1>1. ASSUME NEW p \in Proc, Execute(p) PROVE HandleInv'
  <2>1. PICK h \in Handle : FilesysOpen(program[p], h) /\ lost' = lost \union {h}
    BY <1>1 DEF Execute
  <2>2. /\ inode[h] = NoInode /\ inode'[h] # NoInode
        /\ \A g \in Handle \ {h} : inode'[g] = inode[g]
    BY <2>1, FilesysOpenType, FileAssumption DEF TypeInv
  <2>3. /\ pc[p] = "none" /\ pc'[p] = "user" /\ UNCHANGED <<file, fd, fd_table>>
        /\ \A q \in Proc \ {p} : pc'[q] = pc[q]
    BY <1>1 DEF Execute, At, Goto, localVars, TypeInv
  <2> QED BY <1>0, <2>1, <2>2, <2>3, OpenedHandles
<1>2. ASSUME NEW p \in Proc, Exit(p) \/ Fault(p) \/ Inspect(p) PROVE HandleInv'
  BY <1>0, <1>2, DieHandles DEF Exit, Fault, Inspect, At, handleVars
<1>3. ASSUME NEW p \in Proc, Call(p) PROVE HandleInv'
  <2>1. \E place \in {"open", "read", "write", "exec"} : Goto(p, place)
    BY <1>3 DEF Call
  <2>2. /\ UNCHANGED <<file, fd_table, inode, lost>> /\ pc[p] = "user"
        /\ \A q \in Proc \ {p} : fd'[q] = fd[q]
    BY <1>3 DEF Call, At, handleVars, TypeInv
  <2> QED BY <1>0, <2>1, <2>2, QuietStep DEF Goto, TypeInv
<1>4. ASSUME NEW p \in Proc, Acquire(p) PROVE HandleInv'
  <2>1. \E place \in {"opening", "reading", "writing", "executing"} : Goto(p, place)
    BY <1>4 DEF Acquire, Calls, Acquired
  <2>2. /\ UNCHANGED <<file, fd, fd_table, inode, lost>>
        /\ pc[p] \in {"open", "read", "write", "exec"}
    BY <1>4 DEF Acquire, localVars, handleVars, Calls, Acquired
  <2> QED BY <1>0, <2>1, <2>2, QuietStep DEF Goto, TypeInv
<1>5. ASSUME NEW p \in Proc, Release(p) PROVE HandleInv'
  <2>1. CASE At(p, "return") /\ Return(p) /\ UNCHANGED <<fd_table, lost>>
    <3>1. \A q \in Proc \ {p} : fd'[q] = fd[q] /\ file'[q] = file[q]
      BY <2>1, ForgetType DEF Return
    <3> QED BY <1>0, <1>5, <2>1, <3>1, QuietStep DEF Release, Return, At, Goto, handleVars, TypeInv
  <2>2. CASE At(p, "put") /\ Goto(p, "writeout") /\ UNCHANGED <<localVars, fd_table, lost>>
    <3>1. /\ pc[p] = "put" /\ pc'[p] = "writeout" /\ \A q \in Proc \ {p} : pc'[q] = pc[q]
          /\ UNCHANGED <<file, fd, fd_table, inode, lost>>
      BY <1>5, <2>2 DEF Release, At, Goto, localVars, handleVars, TypeInv
    <3>2. \A q \in Proc, n \in Fd, h \in Handle : Knows(q, n, h)' <=> Knows(q, n, h)
      BY <1>0, <3>1, KnowsFrame
    <3>3. \A q \in Proc : pc'[q] \in {"put", "writeout"} =>
            \E n \in Fd, h \in Handle : h = file'[q] /\ Knows(q, n, h)
      BY <3>1, WriterKnows
    <3> QED BY <1>0, <3>1, <3>2, <3>3, QuietHandles
  <2>3. CASE At(p, "exit") /\ Die(p)
    BY <1>0, <1>5, <2>3, DieHandles DEF Release, At, handleVars
  <2> QED BY <1>5, <2>1, <2>2, <2>3 DEF Release
<1>6. ASSUME NEW p \in Proc, OpenFile(p) PROVE HandleInv'
  <2>1. UNCHANGED <<fd, path, fd_table, lost>> /\ pc[p] = "opening" /\ path[p] \in Path
    BY <1>6 DEF OpenFile, At, TypeInv
  <2>2. CASE /\ \E h \in Handle : FilesysOpen(path[p], h) /\ file' = [file EXCEPT ![p] = h]
             /\ Goto(p, "install")
    <3>1. PICK h \in Handle : FilesysOpen(path[p], h) /\ file' = [file EXCEPT ![p] = h]
      BY <2>2
    <3>2. /\ inode[h] = NoInode /\ inode'[h] # NoInode
          /\ \A g \in Handle \ {h} : inode'[g] = inode[g]
      BY <2>1, <3>1, FilesysOpenType, FileAssumption DEF TypeInv
    <3>3. /\ file'[p] = h /\ pc'[p] = "install"
          /\ \A q \in Proc \ {p} : pc'[q] = pc[q] /\ file'[q] = file[q]
      BY <2>2, <3>1 DEF Goto, TypeInv
    <3> QED BY <1>0, <2>1, <3>2, <3>3, OpenedHandles
  <2>3. CASE Goto(p, "return") /\ UNCHANGED <<file, handleVars>>
    BY <1>0, <2>1, <2>3, QuietStep DEF Goto, handleVars, TypeInv
  <2> QED BY <1>6, <2>2, <2>3 DEF OpenFile
<1>7. ASSUME NEW p \in Proc, Install(p) PROVE HandleInv'
  BY <1>0, <1>7, InstallHandles
<1>8. ASSUME NEW p \in Proc, Read(p) PROVE HandleInv'
  BY <1>0, <1>8, QuietStep DEF Read, At, Goto, localVars, handleVars, TypeInv
<1>9. ASSUME NEW p \in Proc, Write(p) PROVE HandleInv'
  <2>1. UNCHANGED <<fd, path, fd_table, lost>> /\ pc[p] = "writing"
    BY <1>9 DEF Write, At
  <2>2. CASE (Goto(p, "return") \/ Goto(p, "exit")) /\ UNCHANGED <<file, handleVars>>
    BY <1>0, <2>1, <2>2, QuietStep DEF Goto, handleVars, TypeInv
  <2>3. CASE LET t_file == Entry(p, fd[p]) IN
             /\ t_file # NoHandle
             /\ Goto(p, "put")
             /\ file' = [file EXCEPT ![p] = t_file]
             /\ IF deny_write[t_file] THEN FileDenyWrite(t_file) /\ UNCHANGED own
                                      ELSE UNCHANGED handleVars
    <3> DEFINE t_file == Entry(p, fd[p])
    <3>1. fd[p] \in Fd /\ t_file = fd_table[p][fd[p]] /\ t_file \in Handle
      BY <2>3, EntryType
    <3>2. Knows(p, fd[p], t_file)
      BY <2>1, <3>1, FileAssumption DEF Knows, Known, Live, At
    <3> HIDE DEF t_file
    <3>3. /\ inode' = inode /\ file' = [file EXCEPT ![p] = t_file]
          /\ pc' = [pc EXCEPT ![p] = "put"]
      BY <2>3 DEF Goto, t_file, FileDenyWrite, handleVars
    <3>4. /\ file'[p] = t_file /\ pc'[p] = "put"
          /\ \A q \in Proc \ {p} : pc'[q] = pc[q] /\ file'[q] = file[q]
      BY <3>3 DEF TypeInv
    <3>5. \A q \in Proc, n \in Fd, h \in Handle : Knows(q, n, h)' <=> Knows(q, n, h)
      BY <1>0, <2>1, <3>4, KnowsFrame
    <3>6. \A q \in Proc : pc'[q] \in {"put", "writeout"} =>
            \E n \in Fd, h \in Handle : h = file'[q] /\ Knows(q, n, h)
      <4> SUFFICES ASSUME NEW q \in Proc, pc'[q] \in {"put", "writeout"}
                   PROVE  \E n \in Fd, h \in Handle : h = file'[q] /\ Knows(q, n, h)
        OBVIOUS
      <4>1. CASE q = p
        BY <3>1, <3>2, <3>4, <4>1
      <4>2. CASE q # p
        BY <3>4, <4>2, WriterKnows
      <4> QED BY <4>1, <4>2
    <3> QED BY <1>0, <2>1, <3>3, <3>4, <3>5, <3>6, QuietHandles
  <2> QED BY <1>9, <2>2, <2>3 DEF Write
<1>10. ASSUME NEW p \in Proc, WriteOut(p) PROVE HandleInv'
  <2>1. \A q \in Proc \ {p} : fd'[q] = fd[q] /\ file'[q] = file[q]
    BY <1>10, ForgetType DEF WriteOut, Return
  <2> QED BY <1>0, <1>10, <2>1, QuietStep DEF WriteOut, Return, At, Goto, handleVars, TypeInv
<1>11. ASSUME NEW p \in Proc, ClearEntry(p) PROVE HandleInv'
  <2>1. /\ pc[p] = "close" /\ pc'[p] = "user" /\ UNCHANGED <<inode, lost>>
        /\ \A q \in Proc \ {p} : pc'[q] = pc[q] /\ fd'[q] = fd[q] /\ file'[q] = file[q]
    BY <1>11, ForgetType DEF ClearEntry, Return, At, Goto, handleVars, TypeInv
  <2>2. \A q \in Proc, n \in Fd :
          fd_table'[q][n] = IF q = p /\ n = fd[p] THEN NoHandle ELSE fd_table[q][n]
    BY <1>11 DEF ClearEntry, TypeInv
  <2>3. \A q \in Proc, n \in Fd, h \in Handle : Knows(q, n, h)' <=> Knows(q, n, h)
    BY <2>1, <2>2, FileAssumption DEF Knows, Known, Live, At
  <2>4. \A q \in Proc : pc'[q] \in {"put", "writeout"} =>
          \E n \in Fd, h \in Handle : h = file'[q] /\ Knows(q, n, h)
    BY <2>1 DEF HandleInv, TypeInv
  <2> QED BY <1>0, <2>1, <2>3, <2>4, QuietHandles
<1>12. ASSUME NEW p \in Proc, Close(p) PROVE HandleInv'
  <2>1. pc[p] = "user"
    BY <1>12 DEF Close, At
  <2>2. PICK n \in FdArg :
       \/ Entry(p, n) = NoHandle /\ Die(p) /\ UNCHANGED handleVars
       \/ /\ Entry(p, n) # NoHandle
          /\ FileClose(Entry(p, n))
          /\ fd' = [fd EXCEPT ![p] = n]
          /\ Goto(p, "close")
          /\ UNCHANGED <<file, path, fd_table, lost>>
    BY <1>12 DEF Close
  <2>3. CASE Die(p) /\ UNCHANGED handleVars
    BY <1>0, <2>1, <2>3, DieHandles DEF handleVars
  <2>4. CASE /\ Entry(p, n) # NoHandle
             /\ FileClose(Entry(p, n))
             /\ fd' = [fd EXCEPT ![p] = n]
             /\ Goto(p, "close")
             /\ UNCHANGED <<file, path, fd_table, lost>>
    BY <1>0, <2>1, <2>4, CloseHandles
  <2> QED BY <2>2, <2>3, <2>4
<1>13. CASE UNCHANGED <<pc, fd, file, fd_table, inode, lost>>
  BY <1>13 DEF HandleInv, Knows, Known, Live, At
<1>14. ASSUME NEW p \in Proc, Create(p) \/ Remove(p)
       PROVE  UNCHANGED <<pc, fd, file, fd_table, inode, lost>>
  BY <1>14 DEF Create, Remove, localVars, handleVars
<1> QED BY <1>1, <1>2, <1>3, <1>4, <1>5, <1>6, <1>7, <1>8, <1>9, <1>10, <1>11, <1>12, <1>13, <1>14
        DEF Next, Continue, vars

--------------------------------------------------------------------------------
(* Denied writes.                                                          *)

\* The struct files that deny writes to inode i.
Deniers(i) == {h \in Handle : deny_write[h] /\ inode[h] = i}

\* The deny count of an inode is the number of struct files that have denied writes to it
\* and are open; a struct file that is its opener's own program is one of them.
DenyInv ==
  /\ \A h \in Handle : deny_write[h] => inode[h] # NoInode
  /\ \A h \in own : deny_write[h]
  /\ \A i \in Inode : IsFiniteSet(Deniers(i)) /\ deny_cnt[i] = Cardinality(Deniers(i))

LEMMA InitDeny == Init => DenyInv
<1> SUFFICES ASSUME Init PROVE DenyInv
  OBVIOUS
<1>1. \A i \in Inode : Deniers(i) = {}
  BY DEF Init, Deniers
<1> QED BY <1>1, FS_EmptySet DEF Init, DenyInv

LEMMA FilesysOpenDeny ==
  ASSUME TypeInv, DenyInv, NEW n \in Path, NEW h, FilesysOpen(n, h)
  PROVE  DenyInv'
<1>1. /\ h \in Handle /\ inode[h] = NoInode /\ inode' = [inode EXCEPT ![h] = directory[n]]
      /\ directory[n] \in Inode /\ UNCHANGED <<deny_write, deny_cnt, own>>
  BY FilesysOpenType
<1>2. ~deny_write[h] /\ \A g \in Handle \ {h} : inode'[g] = inode[g]
  BY <1>1 DEF DenyInv, TypeInv
<1>3. \A i \in Inode : Deniers(i)' = Deniers(i)
  BY <1>1, <1>2 DEF Deniers
<1> QED BY <1>1, <1>2, <1>3 DEF DenyInv

LEMMA FileDenyWriteDeny ==
  ASSUME TypeInv, DenyInv, NEW h \in Handle, inode[h] # NoInode, FileDenyWrite(h),
         own' \subseteq own \union {h}
  PROVE  DenyInv'
<1>1. /\ inode' = inode /\ deny_write' = [deny_write EXCEPT ![h] = TRUE]
      /\ deny_cnt' = [deny_cnt EXCEPT ![inode[h]] =
                        IF deny_write[h] THEN deny_cnt[inode[h]] ELSE deny_cnt[inode[h]] + 1]
  BY DEF FileDenyWrite
<1>2. inode[h] \in Inode /\ \A g \in Handle : deny_write'[g] <=> deny_write[g] \/ g = h
  BY <1>1 DEF TypeInv
<1>3. \A i \in Inode : deny_cnt'[i] = IF i = inode[h] /\ ~deny_write[h] THEN deny_cnt[i] + 1
                                                                        ELSE deny_cnt[i]
  BY <1>1, <1>2 DEF TypeInv
<1>4. ASSUME NEW i \in Inode
      PROVE  IsFiniteSet(Deniers(i))' /\ deny_cnt'[i] = Cardinality(Deniers(i))'
  <2>0. IsFiniteSet(Deniers(i)) /\ deny_cnt[i] = Cardinality(Deniers(i))
    BY DEF DenyInv
  <2>1. CASE i = inode[h] /\ ~deny_write[h]
    <3>1. Deniers(i)' = Deniers(i) \union {h} /\ h \notin Deniers(i)
      BY <1>1, <1>2, <2>1 DEF Deniers
    <3>2. /\ IsFiniteSet(Deniers(i) \union {h})
          /\ Cardinality(Deniers(i) \union {h}) = Cardinality(Deniers(i)) + 1
      BY <2>0, <3>1, FS_AddElement
    <3> QED BY <1>3, <2>0, <2>1, <3>1, <3>2
  <2>2. CASE ~(i = inode[h] /\ ~deny_write[h])
    <3>1. Deniers(i)' = Deniers(i)
      BY <1>1, <1>2, <2>2 DEF Deniers
    <3> QED BY <1>3, <2>0, <2>2, <3>1
  <2> QED BY <2>1, <2>2
<1>5. \A g \in Handle : deny_write'[g] => inode'[g] # NoInode
  BY <1>1, <1>2 DEF DenyInv
<1>6. \A g \in own' : deny_write'[g]
  BY <1>2 DEF DenyInv, TypeInv
<1> QED BY <1>4, <1>5, <1>6 DEF DenyInv

LEMMA FileCloseDeny ==
  ASSUME TypeInv, DenyInv, NEW h \in Handle, inode[h] # NoInode, FileClose(h)
  PROVE  DenyInv'
<1>1. /\ inode' = [inode EXCEPT ![h] = NoInode] /\ own' = own \ {h}
      /\ deny_write' = [deny_write EXCEPT ![h] = FALSE]
      /\ deny_cnt' = [deny_cnt EXCEPT ![inode[h]] =
                        IF deny_write[h] THEN deny_cnt[inode[h]] - 1 ELSE deny_cnt[inode[h]]]
  BY DEF FileClose
<1>2. /\ inode[h] \in Inode
      /\ \A g \in Handle : deny_write'[g] <=> deny_write[g] /\ g # h
      /\ \A g \in Handle \ {h} : inode'[g] = inode[g]
  BY <1>1 DEF TypeInv
<1>3. \A i \in Inode : deny_cnt'[i] = IF i = inode[h] /\ deny_write[h] THEN deny_cnt[i] - 1
                                                                       ELSE deny_cnt[i]
  BY <1>1, <1>2 DEF TypeInv
<1>4. ASSUME NEW i \in Inode
      PROVE  IsFiniteSet(Deniers(i))' /\ deny_cnt'[i] = Cardinality(Deniers(i))'
  <2>0. IsFiniteSet(Deniers(i)) /\ deny_cnt[i] = Cardinality(Deniers(i))
    BY DEF DenyInv
  <2>1. CASE i = inode[h] /\ deny_write[h]
    <3>1. Deniers(i)' = Deniers(i) \ {h} /\ h \in Deniers(i)
      BY <1>1, <1>2, <2>1 DEF Deniers
    <3>2. /\ IsFiniteSet(Deniers(i) \ {h})
          /\ Cardinality(Deniers(i) \ {h}) = Cardinality(Deniers(i)) - 1
      BY <2>0, <3>1, FS_RemoveElement
    <3> QED BY <1>3, <2>0, <2>1, <3>1, <3>2
  <2>2. CASE ~(i = inode[h] /\ deny_write[h])
    <3>1. Deniers(i)' = Deniers(i)
      BY <1>1, <1>2, <2>2 DEF Deniers
    <3> QED BY <1>3, <2>0, <2>2, <3>1
  <2> QED BY <2>1, <2>2
<1>5. \A g \in Handle : deny_write'[g] => inode'[g] # NoInode
  BY <1>1, <1>2 DEF DenyInv
<1>6. \A g \in own' : deny_write'[g]
  BY <1>1, <1>2 DEF DenyInv, TypeInv
<1> QED BY <1>4, <1>5, <1>6 DEF DenyInv

LEMMA NextDeny == TypeInv /\ HandleInv /\ DenyInv /\ [Next]_vars => DenyInv'
<1> SUFFICES ASSUME TypeInv, HandleInv, DenyInv, [Next]_vars PROVE DenyInv'
  OBVIOUS
<1>1. CASE UNCHANGED handleVars
  BY <1>1 DEF handleVars, DenyInv, Deniers
<1>2. ASSUME NEW p \in Proc, Execute(p) PROVE DenyInv'
  BY <1>2, FilesysOpenDeny, FileAssumption DEF Execute
<1>3. ASSUME NEW p \in Proc, OpenFile(p) PROVE DenyInv'
  <2>1. path[p] \in Path
    BY <1>3 DEF OpenFile, At, TypeInv
  <2> QED BY <1>1, <1>3, <2>1, FilesysOpenDeny DEF OpenFile
<1>4. ASSUME NEW p \in Proc, Install(p) PROVE DenyInv'
  <2>1. file[p] \in Handle /\ inode[file[p]] # NoInode
    BY <1>4 DEF Install, At, TypeInv, HandleInv
  <2>2. CASE FileDenyWrite(file[p]) /\ own' = own \union {file[p]}
    BY <2>1, <2>2, FileDenyWriteDeny
  <2> QED BY <1>1, <1>4, <2>2 DEF Install
<1>5. ASSUME NEW p \in Proc, Write(p) PROVE DenyInv'
  <2> DEFINE t_file == Entry(p, fd[p])
  <2>1. CASE t_file # NoHandle /\ FileDenyWrite(t_file) /\ UNCHANGED own
    <3>1. fd[p] \in Fd /\ t_file = fd_table[p][fd[p]] /\ t_file \in Handle
      BY <2>1, EntryType
    <3>2. Knows(p, fd[p], t_file)
      BY <1>5, <3>1, FileAssumption DEF Write, Knows, Known, Live, At
    <3>3. inode[t_file] # NoInode
      BY <3>1, <3>2 DEF HandleInv
    <3> HIDE DEF t_file
    <3> QED BY <2>1, <3>1, <3>3, FileDenyWriteDeny
  <2>2. UNCHANGED handleVars \/ (t_file # NoHandle /\ FileDenyWrite(t_file) /\ UNCHANGED own)
    BY <1>5 DEF Write
  <2> QED BY <1>1, <2>1, <2>2
<1>6. ASSUME NEW p \in Proc, Close(p) PROVE DenyInv'
  <2>1. PICK n \in FdArg :
          UNCHANGED handleVars \/ (Entry(p, n) # NoHandle /\ FileClose(Entry(p, n)))
    BY <1>6 DEF Close
  <2>2. CASE Entry(p, n) # NoHandle /\ FileClose(Entry(p, n))
    <3>1. n \in Fd /\ Entry(p, n) = fd_table[p][n] /\ Entry(p, n) \in Handle
      BY <2>2, EntryType
    <3>2. Knows(p, n, Entry(p, n))
      BY <1>6, <3>1, FileAssumption DEF Close, Knows, Known, Live, At
    <3>3. inode[Entry(p, n)] # NoInode
      BY <3>1, <3>2 DEF HandleInv
    <3> QED BY <2>2, <3>1, <3>3, FileCloseDeny
  <2> QED BY <1>1, <2>1, <2>2
<1>7. ASSUME NEW p \in Proc,
             \/ Exit(p) \/ Call(p) \/ Acquire(p) \/ Release(p) \/ Read(p) \/ WriteOut(p)
             \/ ClearEntry(p) \/ Fault(p) \/ Inspect(p) \/ Create(p) \/ Remove(p)
      PROVE  UNCHANGED handleVars
  BY <1>7 DEF Exit, Call, Acquire, Release, Read, WriteOut, ClearEntry, Fault, Inspect,
              Create, Remove
<1>8. UNCHANGED vars => UNCHANGED handleVars
  BY DEF vars, handleVars
<1> QED BY <1>1, <1>2, <1>3, <1>4, <1>5, <1>6, <1>7, <1>8 DEF Next, Continue

--------------------------------------------------------------------------------
(* The theorems.                                                           *)

\* The inductive invariant.
FilesInv == TypeInv /\ LockIsGivenBack /\ HandleInv /\ DenyInv

LEMMA FilesInvariant == Spec => []FilesInv
<1>1. Init => FilesInv
  BY InitTypeInv, InitLock, InitHandles, InitDeny DEF FilesInv
<1>2. FilesInv /\ [Next]_vars => FilesInv'
  BY NextTypeInv, NextLock, NextHandles, NextDeny DEF FilesInv
<1> QED BY <1>1, <1>2, PTL DEF Spec

\* Every variable stays in its domain; the deny counts never go below 0.
THEOREM FilesTypeCorrect == Spec => []TypeOK
<1>1. FilesInv => TypeOK
  <2> SUFFICES ASSUME FilesInv PROVE TypeOK
    OBVIOUS
  <2>1. \A i \in Inode : deny_cnt[i] \in Nat
    BY FS_CardinalityType DEF FilesInv, DenyInv
  <2>2. deny_cnt \in [Inode -> Nat]
    BY <2>1 DEF FilesInv, TypeInv
  <2> QED BY <2>2 DEF FilesInv, TypeInv, TypeOK
<1> QED BY <1>1, FilesInvariant, PTL

\* Whoever is between lock_acquire and lock_release of f_lock holds it, alone; outside only
\* the dead hold it.
THEOREM LockGivenBack == Spec => []LockIsGivenBack
<1>1. FilesInv => LockIsGivenBack
  BY DEF FilesInv
<1> QED BY <1>1, FilesInvariant, PTL

\* A known entry is a struct file.
LEMMA KnownHandle ==
  ASSUME TypeInv, NEW p \in Live, NEW n \in Known(p)
  PROVE  /\ p \in Proc /\ n \in Fd /\ fd_table[p][n] \in Handle /\ Knows(p, n, fd_table[p][n])
BY DEF TypeInv, Knows, Known, Live

\* No call follows a struct file that has been closed, and no two descriptors are one.
THEOREM NoDanglingDescriptor == Spec => []DescriptorsOpen
<1>1. FilesInv => DescriptorsOpen
  <2> SUFFICES ASSUME FilesInv PROVE DescriptorsOpen
    OBVIOUS
  <2>1. TypeInv /\ HandleInv
    BY DEF FilesInv
  <2>2. ASSUME NEW p \in Live, NEW n \in Known(p) PROVE inode[fd_table[p][n]] # NoInode
    BY <2>1, KnownHandle DEF HandleInv
  <2>3. ASSUME NEW p \in Live, NEW n \in Known(p), NEW q \in Live, NEW m \in Known(q),
               fd_table[p][n] = fd_table[q][m]
        PROVE  p = q /\ m = n
    <3>1. /\ Knows(p, n, fd_table[p][n]) /\ Knows(q, m, fd_table[p][n])
          /\ fd_table[p][n] \in Handle /\ p \in Proc /\ q \in Proc /\ n \in Fd /\ m \in Fd
      BY <2>1, <2>3, KnownHandle
    <3> QED BY <2>1, <3>1 DEF HandleInv
  <2>4. ASSUME NEW p \in Live, pc[p] \in {"install", "put", "writeout"}
        PROVE  inode[file[p]] # NoInode
    <3>1. CASE pc[p] = "install"
      BY <2>1, <3>1 DEF HandleInv, Live
    <3>2. CASE pc[p] \in {"put", "writeout"}
      BY <2>1, <3>2, WriterKnows DEF HandleInv, Live
    <3> QED BY <2>4, <3>1, <3>2
  <2>5. ASSUME NEW p \in Live, NEW q \in Live, At(p, "install"), NEW n \in Known(q)
        PROVE  fd_table[q][n] # file[p]
    BY <2>1, <2>5, KnownHandle DEF HandleInv, At, Live
  <2> QED BY <2>2, <2>3, <2>4, <2>5 DEF DescriptorsOpen
<1> QED BY <1>1, FilesInvariant, PTL

\* An open struct file that is not lost is the file of one descriptor or of an open: only
\* process_execute, an open without a free descriptor and the end of a process lose files.
THEOREM NoOtherLeak == Spec => []FilesAccounted
<1>1. FilesInv => FilesAccounted
  <2> SUFFICES ASSUME FilesInv, NEW h \in Handle
               PROVE  inode[h] # NoInode <=>
                        \/ h \in lost
                        \/ \E p \in Live : At(p, "install") /\ file[p] = h
                        \/ \E p \in Live : \E n \in Known(p) : fd_table[p][n] = h
    BY DEF FilesAccounted
  <2>1. TypeInv /\ HandleInv
    BY DEF FilesInv
  <2>2. ASSUME NEW p \in Live, NEW n \in Known(p), fd_table[p][n] = h PROVE inode[h] # NoInode
    BY <2>1, <2>2, KnownHandle DEF HandleInv
  <2>3. (\E p \in Proc : pc[p] = "install" /\ file[p] = h)
          <=> \E p \in Live : At(p, "install") /\ file[p] = h
    BY DEF Live, At
  <2>4. ASSUME NEW p \in Proc, NEW n \in Fd, Knows(p, n, h)
        PROVE  p \in Live /\ n \in Known(p) /\ fd_table[p][n] = h
    BY <2>4 DEF Knows
  <2>5. inode[h] # NoInode =>
          \/ h \in lost
          \/ \E p \in Proc : pc[p] = "install" /\ file[p] = h
          \/ \E p \in Proc, n \in Fd : Knows(p, n, h)
    BY <2>1 DEF HandleInv
  <2>6. h \in lost => inode[h] # NoInode
    BY <2>1 DEF HandleInv
  <2>7. ASSUME NEW p \in Live, At(p, "install"), file[p] = h PROVE inode[h] # NoInode
    BY <2>1, <2>7 DEF HandleInv, Live, At
  <2> QED BY <2>2, <2>3, <2>4, <2>5, <2>6, <2>7
<1> QED BY <1>1, FilesInvariant, PTL

\* While a process has its own program open, nobody can write to the program's file.
THEOREM ProgramDenied == Spec => []OwnProgramDenied
<1>1. FilesInv => OwnProgramDenied
  <2> SUFFICES ASSUME FilesInv, NEW p \in Live, NEW n \in Known(p), fd_table[p][n] \in own
               PROVE  deny_cnt[inode[fd_table[p][n]]] > 0
    BY DEF OwnProgramDenied
  <2> DEFINE h == fd_table[p][n]
             i == inode[h]
  <2>1. h \in Handle /\ i \in Inode
    BY KnownHandle DEF FilesInv, TypeInv, HandleInv
  <2>2. deny_write[h]
    BY DEF FilesInv, DenyInv
  <2> HIDE DEF h
  <2>3. h \in Deniers(i)
    BY <2>1, <2>2 DEF Deniers
  <2> HIDE DEF i
  <2>4. IsFiniteSet(Deniers(i)) /\ deny_cnt[i] = Cardinality(Deniers(i))
    BY <2>1 DEF FilesInv, DenyInv
  <2>5. Cardinality(Deniers(i)) \in Nat /\ Cardinality(Deniers(i)) # 0
    BY <2>3, <2>4, FS_CardinalityType, FS_EmptySet
  <2> QED BY <2>4, <2>5 DEF h, i
<1> QED BY <1>1, FilesInvariant, PTL

--------------------------------------------------------------------------------
(* The refinement of DescriptorSpec.                                       *)

\* The tables of descriptors that a state stands for.
Table == [p \in Proc |-> [n \in Fd |->
            IF p \in Live /\ n \in Known(p) THEN inode[fd_table[p][n]] ELSE NoInode]]

TableStep == [Descriptors!DescriptorNext]_Table

LEMMA TableValue ==
  ASSUME TypeInv, NEW q \in Proc, NEW n \in Fd
  PROVE  /\ \A h \in Handle : Knows(q, n, h) => Table[q][n] = inode[h]
         /\ (\A h \in Handle : ~Knows(q, n, h)) => Table[q][n] = NoInode
<1>1. n \in Known(q) => fd_table[q][n] \in Handle
  BY DEF TypeInv, Known
<1> QED BY <1>1 DEF Table, Knows

LEMMA NextTableValue ==
  ASSUME TypeInv', NEW q \in Proc, NEW n \in Fd
  PROVE  /\ \A h \in Handle : Knows(q, n, h)' => Table'[q][n] = inode'[h]
         /\ (\A h \in Handle : ~Knows(q, n, h)') => Table'[q][n] = NoInode
<1>1. n \in Known(q)' => fd_table'[q][n] \in Handle
  BY DEF TypeInv, Known
<1> QED BY <1>1 DEF Table, Knows

LEMMA TableFunction ==
  /\ Table = [q \in Proc |-> [n \in Fd |-> Table[q][n]]]
  /\ Table' = [q \in Proc |-> [n \in Fd |-> Table'[q][n]]]
BY DEF Table

\* The table stays when what each process knows does, and no known file is closed.
LEMMA TableSame ==
  ASSUME TypeInv, TypeInv', HandleInv,
         \A q \in Proc, n \in Fd, h \in Handle : Knows(q, n, h)' <=> Knows(q, n, h),
         \A h \in Handle : inode[h] # NoInode => inode'[h] = inode[h]
  PROVE  Table' = Table
<1>1. ASSUME NEW q \in Proc, NEW n \in Fd PROVE Table'[q][n] = Table[q][n]
  <2>1. CASE \E h \in Handle : Knows(q, n, h)
    <3>1. PICK h \in Handle : Knows(q, n, h)
      BY <2>1
    <3>2. inode'[h] = inode[h]
      BY <3>1 DEF HandleInv
    <3> QED BY <3>1, <3>2, TableValue, NextTableValue
  <2>2. CASE \A h \in Handle : ~Knows(q, n, h)
    BY <2>2, TableValue, NextTableValue
  <2> QED BY <2>1, <2>2
<1> QED BY <1>1, TableFunction

\* The end of a process.
LEMMA TableDie ==
  ASSUME TypeInv, TypeInv', HandleInv, NEW p \in Proc, Die(p), UNCHANGED inode,
         pc[p] \notin {"close", "dead"}
  PROVE  TableStep
<1>1. \A q \in Proc, n \in Fd, h \in Handle : Knows(q, n, h)' <=> q # p /\ Knows(q, n, h)
  BY DieKnows
<1>2. ASSUME NEW q \in Proc, NEW n \in Fd
      PROVE  Table'[q][n] = IF q = p THEN NoInode ELSE Table[q][n]
  <2>1. CASE q = p
    BY <1>1, <2>1, NextTableValue
  <2>2. CASE q # p /\ \E h \in Handle : Knows(q, n, h)
    BY <1>1, <2>2, TableValue, NextTableValue
  <2>3. CASE q # p /\ \A h \in Handle : ~Knows(q, n, h)
    BY <1>1, <2>3, TableValue, NextTableValue
  <2> QED BY <2>1, <2>2, <2>3
<1>3. Table' = [Table EXCEPT ![p] = [n \in Fd |-> NoInode]]
  BY <1>2, TableFunction
<1>4. Descriptors!End(p)
  BY <1>3 DEF Descriptors!End, Descriptors!Closed, Table
<1> QED BY <1>4 DEF TableStep, Descriptors!DescriptorNext

\* open enters its file at the lowest descriptor that is free.
LEMMA TableInstall ==
  ASSUME TypeInv, TypeInv', HandleInv, NEW p \in Proc, Install(p)
  PROVE  TableStep
<1>1. /\ pc[p] = "install" /\ UNCHANGED <<file, fd, path>> /\ inode' = inode
      /\ pc' = [pc EXCEPT ![p] = "return"]
  BY DEF Install, At, Goto, localVars, handleVars, FileDenyWrite
<1>2. pc'[p] = "return" /\ \A q \in Proc \ {p} : pc'[q] = pc[q]
  BY <1>1 DEF TypeInv
<1>3. file[p] \in Handle /\ inode[file[p]] \in Inode
  BY <1>1 DEF TypeInv, HandleInv
<1>4. CASE UNCHANGED fd_table
  <2>1. \A q \in Proc, n \in Fd, h \in Handle : Knows(q, n, h)' <=> Knows(q, n, h)
    BY <1>1, <1>2, <1>4, KnowsFrame
  <2> QED BY <1>1, <2>1, TableSame DEF TableStep
<1>5. CASE \E n \in Fd : /\ fd_table[p][n] = NoHandle
                         /\ \A m \in {k \in Fd : fd_table[p][k] = NoHandle} : n <= m
                         /\ fd_table' = [fd_table EXCEPT ![p][n] = file[p]]
  <2>1. PICK n \in Fd : /\ fd_table[p][n] = NoHandle
                        /\ \A m \in {k \in Fd : fd_table[p][k] = NoHandle} : n <= m
                        /\ fd_table' = [fd_table EXCEPT ![p][n] = file[p]]
    BY <1>5
  <2>2. /\ fd_table'[p][n] = file[p]
        /\ \A q \in Proc, m \in Fd : q # p \/ m # n => fd_table'[q][m] = fd_table[q][m]
    BY <2>1 DEF TypeInv
  <2>3. \A q \in Proc, m \in Fd, h \in Handle :
          Knows(q, m, h)' <=> Knows(q, m, h) \/ (q = p /\ m = n /\ h = file[p])
    BY <1>1, <1>2, <1>3, <2>1, <2>2, FileAssumption DEF Knows, Known, Live, At
  <2>4. \A h \in Handle : ~Knows(p, n, h)
    BY <2>1, FileAssumption DEF Knows
  <2>5. ASSUME NEW q \in Proc, NEW m \in Fd
        PROVE  Table'[q][m] = IF q = p /\ m = n THEN inode[file[p]] ELSE Table[q][m]
    <3>1. CASE q = p /\ m = n
      BY <1>1, <1>3, <2>3, <3>1, NextTableValue
    <3>2. CASE ~(q = p /\ m = n) /\ \E h \in Handle : Knows(q, m, h)
      BY <1>1, <2>3, <3>2, TableValue, NextTableValue
    <3>3. CASE ~(q = p /\ m = n) /\ \A h \in Handle : ~Knows(q, m, h)
      BY <2>3, <3>3, TableValue, NextTableValue
    <3> QED BY <3>1, <3>2, <3>3
  <2>6. Table' = [Table EXCEPT ![p][n] = inode[file[p]]]
    BY <2>5, TableFunction
  <2>7. Table[p][n] = NoInode
    BY <2>4, TableValue
  <2>8. ASSUME NEW lower \in Fd, lower < n PROVE Table[p][lower] # NoInode
    <3>1. fd_table[p][lower] # NoHandle
      BY <2>1, <2>8, FileAssumption
    <3>2. Knows(p, lower, fd_table[p][lower]) /\ fd_table[p][lower] \in Handle
      BY <1>1, <3>1 DEF Knows, Known, Live, At, TypeInv
    <3> QED BY <3>2, TableValue DEF HandleInv
  <2>9. PICK i \in Inode : i = inode[file[p]]
    BY <1>3
  <2>10. Descriptors!Open(p, i)
    BY <2>6, <2>7, <2>8, <2>9 DEF Descriptors!Open, Table
  <2> QED BY <2>10 DEF TableStep, Descriptors!DescriptorNext
<1> QED BY <1>4, <1>5 DEF Install

\* close frees one descriptor, when it closes the struct file.
LEMMA TableClose ==
  ASSUME TypeInv, TypeInv', HandleInv, NEW p \in Proc, pc[p] = "user", NEW n,
         Entry(p, n) # NoHandle, FileClose(Entry(p, n)), fd' = [fd EXCEPT ![p] = n],
         Goto(p, "close"), UNCHANGED <<file, fd_table, lost>>
  PROVE  TableStep
<1> DEFINE h == Entry(p, n)
<1>1. n \in Fd /\ h = fd_table[p][n] /\ h \in Handle
  BY EntryType
<1>2. /\ pc'[p] = "close" /\ fd'[p] = n
      /\ \A q \in Proc \ {p} : pc'[q] = pc[q] /\ fd'[q] = fd[q]
  BY <1>1 DEF Goto, TypeInv
<1>3. inode'[h] = NoInode /\ \A g \in Handle \ {h} : inode'[g] = inode[g]
  BY <1>1, FileCloseType DEF TypeInv
<1> HIDE DEF h
<1>4. Knows(p, n, h) /\ inode[h] # NoInode
  BY <1>1, FileAssumption DEF Knows, Known, Live, At, HandleInv
<1>5. \A q \in Proc, m \in Fd, g \in Handle :
         Knows(q, m, g)' <=> Knows(q, m, g) /\ ~(q = p /\ m = n)
  BY <1>1, <1>2 DEF Knows, Known, Live, At
<1>6. ASSUME NEW q \in Proc, NEW m \in Fd
      PROVE  Table'[q][m] = IF q = p /\ m = n THEN NoInode ELSE Table[q][m]
  <2>1. CASE q = p /\ m = n
    BY <1>5, <2>1, NextTableValue
  <2>2. CASE ~(q = p /\ m = n) /\ \E g \in Handle : Knows(q, m, g)
    <3>1. PICK g \in Handle : Knows(q, m, g)
      BY <2>2
    <3>2. g # h
      BY <1>1, <1>4, <2>2, <3>1 DEF HandleInv
    <3> QED BY <1>3, <1>5, <2>2, <3>1, <3>2, TableValue, NextTableValue
  <2>3. CASE ~(q = p /\ m = n) /\ \A g \in Handle : ~Knows(q, m, g)
    BY <1>5, <2>3, TableValue, NextTableValue
  <2> QED BY <2>1, <2>2, <2>3
<1>7. Table' = [Table EXCEPT ![p][n] = NoInode]
  BY <1>1, <1>6, TableFunction
<1>8. Table[p][n] # NoInode
  BY <1>1, <1>4, TableValue
<1>9. Descriptors!Close(p, n)
  BY <1>7, <1>8 DEF Descriptors!Close, Table
<1> QED BY <1>1, <1>9 DEF TableStep, Descriptors!DescriptorNext

LEMMA NextTable == FilesInv /\ [Next]_vars => TableStep
<1> SUFFICES ASSUME FilesInv, [Next]_vars PROVE TableStep
  OBVIOUS
<1>0. TypeInv /\ TypeInv' /\ HandleInv
  BY NextTypeInv DEF FilesInv
<1>1. ASSUME NEW p \in Proc, UNCHANGED <<fd, fd_table>>,
             \A h \in Handle : inode[h] # NoInode => inode'[h] = inode[h],
             NEW place, Goto(p, place), place \notin {"close", "dead"}, pc[p] \notin {"close", "dead"}
      PROVE  TableStep
  <2>1. pc'[p] = place /\ \A q \in Proc \ {p} : pc'[q] = pc[q]
    BY <1>0, <1>1 DEF Goto, TypeInv
  <2>2. \A q \in Proc, n \in Fd, h \in Handle : Knows(q, n, h)' <=> Knows(q, n, h)
    BY <1>0, <1>1, <2>1, KnowsFrame
  <2> QED BY <1>0, <1>1, <2>2, TableSame DEF TableStep
<1>2. ASSUME NEW p \in Proc, UNCHANGED <<fd_table, inode>>, Return(p), pc[p] \notin {"close", "dead"}
      PROVE  TableStep
  <2>1. pc'[p] = "user" /\ \A q \in Proc \ {p} : pc'[q] = pc[q] /\ fd'[q] = fd[q]
    BY <1>0, <1>2, ForgetType DEF Return, Goto, TypeInv
  <2>2. \A q \in Proc, n \in Fd, h \in Handle : Knows(q, n, h)' <=> Knows(q, n, h)
    BY <1>0, <1>2, <2>1, KnowsFrame
  <2> QED BY <1>0, <1>2, <2>2, TableSame DEF TableStep
<1>3. ASSUME NEW n \in Path, NEW h, FilesysOpen(n, h)
      PROVE  \A g \in Handle : inode[g] # NoInode => inode'[g] = inode[g]
  BY <1>0, <1>3, FilesysOpenType DEF TypeInv
<1>4. ASSUME NEW p \in Proc, Execute(p) PROVE TableStep
  <2>1. \A g \in Handle : inode[g] # NoInode => inode'[g] = inode[g]
    BY <1>3, <1>4, FileAssumption DEF Execute
  <2> QED BY <1>1, <1>4, <2>1 DEF Execute, At, localVars
<1>5. ASSUME NEW p \in Proc, Exit(p) \/ Fault(p) \/ Inspect(p) PROVE TableStep
  BY <1>0, <1>5, TableDie DEF Exit, Fault, Inspect, At, handleVars
<1>6. ASSUME NEW p \in Proc, Call(p) PROVE TableStep
  <2>1. PICK place \in {"open", "read", "write", "exec"} : Goto(p, place)
    BY <1>6 DEF Call
  <2>2. UNCHANGED <<fd_table, inode>> /\ pc[p] = "user" /\ \A q \in Proc \ {p} : fd'[q] = fd[q]
    BY <1>0, <1>6 DEF Call, At, handleVars, TypeInv
  <2>3. pc'[p] = place /\ \A q \in Proc \ {p} : pc'[q] = pc[q]
    BY <1>0, <2>1 DEF Goto, TypeInv
  <2>4. \A q \in Proc, n \in Fd, h \in Handle : Knows(q, n, h)' <=> Knows(q, n, h)
    BY <1>0, <2>2, <2>3, KnowsFrame
  <2> QED BY <1>0, <2>2, <2>4, TableSame DEF TableStep
<1>7. ASSUME NEW p \in Proc, Acquire(p) PROVE TableStep
  <2>1. \E place \in {"opening", "reading", "writing", "executing"} : Goto(p, place)
    BY <1>7 DEF Acquire, Calls, Acquired
  <2>2. UNCHANGED <<fd, fd_table, inode>> /\ pc[p] \in {"open", "read", "write", "exec"}
    BY <1>7 DEF Acquire, localVars, handleVars, Calls, Acquired
  <2> QED BY <1>1, <2>1, <2>2
<1>8. ASSUME NEW p \in Proc, Release(p) PROVE TableStep
  <2>1. UNCHANGED inode
    BY <1>8 DEF Release, handleVars
  <2>2. CASE At(p, "return") /\ Return(p) /\ UNCHANGED <<fd_table, lost>>
    BY <1>2, <2>1, <2>2 DEF At
  <2>3. CASE At(p, "put") /\ Goto(p, "writeout") /\ UNCHANGED <<localVars, fd_table, lost>>
    BY <1>1, <2>1, <2>3 DEF At, localVars
  <2>4. CASE At(p, "exit") /\ Die(p)
    BY <1>0, <2>1, <2>4, TableDie DEF At
  <2> QED BY <1>8, <2>2, <2>3, <2>4 DEF Release
<1>9. ASSUME NEW p \in Proc, OpenFile(p) PROVE TableStep
  <2>1. UNCHANGED <<fd, fd_table>> /\ pc[p] = "opening" /\ path[p] \in Path
    BY <1>0, <1>9 DEF OpenFile, At, TypeInv
  <2>2. \A g \in Handle : inode[g] # NoInode => inode'[g] = inode[g]
    BY <1>3, <1>9, <2>1 DEF OpenFile, handleVars
  <2>3. \E place \in {"install", "return"} : Goto(p, place)
    BY <1>9 DEF OpenFile
  <2> QED BY <1>1, <2>1, <2>2, <2>3
<1>10. ASSUME NEW p \in Proc, Install(p) PROVE TableStep
  BY <1>0, <1>10, TableInstall
<1>11. ASSUME NEW p \in Proc, Read(p) PROVE TableStep
  <2>1. UNCHANGED <<fd, fd_table, inode>> /\ pc[p] = "reading"
    BY <1>11 DEF Read, At, localVars, handleVars
  <2>2. \E place \in {"exit", "return"} : Goto(p, place)
    BY <1>11 DEF Read
  <2> QED BY <1>1, <2>1, <2>2
<1>12. ASSUME NEW p \in Proc, Write(p) PROVE TableStep
  <2>1. UNCHANGED <<fd, fd_table, inode>> /\ pc[p] = "writing"
    BY <1>12 DEF Write, At, handleVars, FileDenyWrite
  <2>2. \E place \in {"exit", "return", "put"} : Goto(p, place)
    BY <1>12 DEF Write
  <2> QED BY <1>1, <2>1, <2>2
<1>13. ASSUME NEW p \in Proc, WriteOut(p) PROVE TableStep
  BY <1>2, <1>13 DEF WriteOut, At, handleVars
<1>14. ASSUME NEW p \in Proc, ClearEntry(p) PROVE TableStep
  <2>1. /\ pc[p] = "close" /\ pc'[p] = "user" /\ UNCHANGED inode
        /\ \A q \in Proc \ {p} : pc'[q] = pc[q] /\ fd'[q] = fd[q]
    BY <1>0, <1>14, ForgetType DEF ClearEntry, Return, At, Goto, handleVars, TypeInv
  <2>2. \A q \in Proc, n \in Fd :
          fd_table'[q][n] = IF q = p /\ n = fd[p] THEN NoHandle ELSE fd_table[q][n]
    BY <1>0, <1>14 DEF ClearEntry, TypeInv
  <2>3. \A q \in Proc, n \in Fd, h \in Handle : Knows(q, n, h)' <=> Knows(q, n, h)
    BY <2>1, <2>2, FileAssumption DEF Knows, Known, Live, At
  <2> QED BY <1>0, <2>1, <2>3, TableSame DEF TableStep
<1>15. ASSUME NEW p \in Proc, Close(p) PROVE TableStep
  <2>1. pc[p] = "user"
    BY <1>15 DEF Close, At
  <2>2. PICK n \in FdArg :
       \/ Entry(p, n) = NoHandle /\ Die(p) /\ UNCHANGED handleVars
       \/ /\ Entry(p, n) # NoHandle
          /\ FileClose(Entry(p, n))
          /\ fd' = [fd EXCEPT ![p] = n]
          /\ Goto(p, "close")
          /\ UNCHANGED <<file, path, fd_table, lost>>
    BY <1>15 DEF Close
  <2>3. CASE Die(p) /\ UNCHANGED handleVars
    BY <1>0, <2>1, <2>3, TableDie DEF handleVars
  <2>4. CASE /\ Entry(p, n) # NoHandle
             /\ FileClose(Entry(p, n))
             /\ fd' = [fd EXCEPT ![p] = n]
             /\ Goto(p, "close")
             /\ UNCHANGED <<file, path, fd_table, lost>>
    BY <1>0, <2>1, <2>4, TableClose
  <2> QED BY <2>2, <2>3, <2>4
<1>16. CASE UNCHANGED <<pc, fd, fd_table, inode>>
  BY <1>16 DEF TableStep, Table, Known, Live, At
<1>17. ASSUME NEW p \in Proc, Create(p) \/ Remove(p)
       PROVE  UNCHANGED <<pc, fd, fd_table, inode>>
  BY <1>17 DEF Create, Remove, localVars, handleVars
<1> QED BY <1>4, <1>5, <1>6, <1>7, <1>8, <1>9, <1>10, <1>11, <1>12, <1>13, <1>14, <1>15, <1>16,
           <1>17 DEF Next, Continue, vars

\* The file calls implement private tables of descriptors, in which open and close are one
\* step each.
THEOREM TablesImplemented == Spec => TablesArePrivate
<1>1. FilesInv /\ [Next]_vars => [Descriptors!DescriptorNext]_Table
  BY NextTable DEF TableStep
<1>2. Init => Descriptors!DescriptorInit
  <2>1. Init => \A p \in Proc : Known(p) = {}
    BY DEF Init, Known, NoFiles
  <2> QED BY <2>1 DEF Descriptors!DescriptorInit, Descriptors!Closed
<1> QED BY <1>1, <1>2, FilesInvariant, PTL
        DEF Spec, TablesArePrivate, Descriptors!DescriptorSafety, Table
===============================================================================
