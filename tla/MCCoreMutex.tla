---------------------------- MODULE MCCoreMutex ----------------------------
(* Constants of the checked instance of CoreMutex.  All threads start with  *)
(* the same priority, so that threads, and mutexes of a kind, are           *)
(* interchangeable; rtems_task_set_priority makes them different.           *)
EXTENDS CoreMutex

MC_Real == [t \in Threads |-> 2]
MC_Ceiling == [m \in Ceilings |-> 2]
MC_Nest == [m \in Mutexes |-> IF m \in Ceilings THEN 1 ELSE 0]
MC_Symmetry == Permutations(Threads) \cup Permutations(Inheriting)
=============================================================================
