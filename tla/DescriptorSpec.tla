----------------------------- MODULE DescriptorSpec -----------------------------
(***************************************************************************)
(* What the file calls promise a process, without locks or struct file:    *)
(* a table of its own from descriptors to files, in which open takes the   *)
(* lowest free descriptor and close frees one.  Calls are atomic, and the  *)
(* descriptors of a process end with it.                                   *)
(***************************************************************************)
EXTENDS Integers

CONSTANTS Proc, Fd, Inode, NoInode

VARIABLE table      \* table[p][fd]: the file p knows as fd, or NoInode

Closed == [fd \in Fd |-> NoInode]

DescriptorInit == table = [p \in Proc |-> Closed]

Open(p, i) ==
  \E fd \in Fd :
     /\ table[p][fd] = NoInode /\ \A lower \in Fd : lower < fd => table[p][lower] # NoInode
     /\ table' = [table EXCEPT ![p][fd] = i]

Close(p, fd) ==
  /\ table[p][fd] # NoInode
  /\ table' = [table EXCEPT ![p][fd] = NoInode]

End(p) == table' = [table EXCEPT ![p] = Closed]

DescriptorNext ==
  \E p \in Proc : \/ \E i \in Inode : Open(p, i)
                  \/ \E fd \in Fd : Close(p, fd)
                  \/ End(p)

DescriptorSafety == DescriptorInit /\ [][DescriptorNext]_table
================================================================================
