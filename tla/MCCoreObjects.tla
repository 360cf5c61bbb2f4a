---------------------------- MODULE MCCoreObjects ---------------------------
(***************************************************************************)
(* Instances of CoreObjects.                                               *)
(***************************************************************************)
EXTENDS CoreObjects

CONSTANTS t1, t2, t3

\* The discipline of priorities, with two threads of one priority, and that of
\* arrival.
Mixed == (t1 :> 1) @@ (t2 :> 2) @@ (t3 :> 2)
Fifo  == [t \in Threads |-> 1]

\* Message queues have the most states: fewer actors use them.
UsersUp  == [k \in Kinds |-> IF k \in Queues THEN {t1, t2, Isr} ELSE Actors]
UsersSmp == [k \in Kinds |-> IF k \in Queues THEN Threads ELSE Actors]
=============================================================================
