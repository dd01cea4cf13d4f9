-------------------------------- MODULE MCMlfqs --------------------------------
(* Mlfqs on small instances.                                               *)
EXTENDS Mlfqs, TLC

MCSymmetry == Permutations(Thread \ {Main, Idle})
================================================================================
