------------------------------- MODULE MCProcess -------------------------------
(* Process on small instances.                                             *)
EXTENDS Process, TLC

CONSTANTS p1, p2, p3    \* the pages of the user processes

MCStatus == {-1, 7}
MCSymmetry == Permutations({p1, p2, p3})
================================================================================
