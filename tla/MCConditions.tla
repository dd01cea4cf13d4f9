------------------------------ MODULE MCConditions ------------------------------
(* Conditions on small instances.                                          *)
EXTENDS Conditions

CONSTANTS a, b, d, idle    \* the threads

MCPriority == [t \in Thread |-> CASE t = a -> 1 [] t = b -> 2 [] t = d -> 3 [] t = idle -> 0]
================================================================================
