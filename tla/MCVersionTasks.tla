--------------------------- MODULE MCVersionTasks ---------------------------
(* The ways of using the FTS that are looked at. *)
EXTENDS VersionTasks

\* Versions wait to be deleted; there are ids for all of two periods.
MC_Quiet == [ids |-> 4, selfDelete |-> FALSE, preempt |-> FALSE, appTasks |-> 0]

\* Releases interrupt each other, versions delete themselves, ids run out.
MC_Wild == [ids |-> 2, selfDelete |-> TRUE, preempt |-> TRUE, appTasks |-> 1]

MC_Both == {MC_Quiet, MC_Wild}
=============================================================================
