-------------------------------- MODULE MCSynch --------------------------------
(* Synch on small instances.                                               *)
EXTENDS Synch

CONSTANTS a, b    \* the threads besides the main and the idle one

\* The main thread is the lowest of the three.
MCInitialPriority == [t \in Thread |-> CASE t = Idle -> 0 [] t = Main -> 1
                                         [] t = a -> 2 [] t = b -> 3]

\* Interrupts may come wherever the code leaves them enabled, ...
Anywhere == PC
\* ... or only between the calls of the synchronisation functions.
BetweenCalls == {"run"}
================================================================================
