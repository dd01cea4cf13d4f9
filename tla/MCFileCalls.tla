------------------------------ MODULE MCFileCalls ------------------------------
(* FileCalls on small instances.                                           *)
EXTENDS FileCalls, TLC

CONSTANT prog    \* the program that all processes run

MCProgram == [r \in Proc |-> prog]

Symmetry == Permutations(Proc) \union Permutations(Handle) \union Permutations(Inode)
================================================================================
