------------------------------- MODULE FtsRm --------------------------------
(***************************************************************************)
(* The FTS together with the period objects it protects: creation with and *)
(* without protection (ratemoncreate.c), deletion (ratemondelete.c), and   *)
(* the calls of rtems_rate_monotonic_period that start no job.             *)
(*                                                                         *)
(* Neither side tells the other much.  A refused registration leaves the   *)
(* period allocated; a deletion leaves its entry in the list, and the id   *)
(* is given out again unchanged; a query of the status, or a call by a     *)
(* thread that does not own the period, passes through the head of         *)
(* rtems_rate_monotonic_period before it is told apart.                    *)
(***************************************************************************)
EXTENDS Fts

CONSTANT MaxDels            \* deletions in a behaviour

ASSUME FtsRmAssumption == MaxDels \in Nat

VARIABLES
    periods,        \* ids of existing periods
    dels,           \* deletions so far
    disturbed       \* periods whose protection the application interfered with

rmvars == <<periods, dels, disturbed>>
allvars == <<vars, rmvars>>

RmInit == Init /\ periods = {} /\ dels = 0 /\ disturbed = {}

\* A period that is new and has no job of an earlier one under way is left in
\* peace so far; an id that is still in the list is not new.
Reused(id) == id \in Registered \/ job[id] # "ended"

\* rtems_rate_monotonic_create_fts.
CreateFts(id, g) ==
    /\ id \notin periods
    /\ periods' = periods \cup {id}
    /\ disturbed' = IF Reused(id) THEN disturbed \cup {id} ELSE disturbed
    /\ IF MayRegister(id, g) THEN Register(id, g) ELSE UNCHANGED vars
    /\ UNCHANGED dels

\* rtems_rate_monotonic_create.
Create(id) ==
    /\ id \notin periods
    /\ periods' = periods \cup {id}
    /\ disturbed' = IF Reused(id) THEN disturbed \cup {id} ELSE disturbed
    /\ UNCHANGED <<vars, dels>>

\* rtems_rate_monotonic_delete; rtems_rate_monotonic_delete_fts does nothing.
Delete(id) ==
    /\ id \in periods
    /\ dels < MaxDels
    /\ dels' = dels + 1
    /\ periods' = periods \ {id}
    /\ UNCHANGED <<vars, disturbed>>

\* rtems_rate_monotonic_period with RTEMS_PERIOD_STATUS, or by a thread that does
\* not own the period: the versions of the current job are deleted with the job
\* undone, and the counters are moved on.
Status(id) ==
    LET undone == job[id] \in {"basic", "detection", "correction"}
    IN  /\ id \in periods \cap Registered
        /\ PeriodHead(id)
        /\ job' = [job EXCEPT ![id] = IF undone THEN "ended" ELSE @]
        /\ IF undone THEN Outcome(id, FALSE) ELSE UNCHANGED hist
        /\ disturbed' = IF undone THEN disturbed \cup {id} ELSE disturbed
        /\ UNCHANGED <<list, slotvars, protected, offs, periods, dels>>

RmNext ==
    \E id \in Ids :
        \/ Create(id) \/ Delete(id) \/ Status(id)
        \/ \E g \in Args : CreateFts(id, g)
        \/ /\ BeginPeriod(id) /\ id \in periods
           /\ UNCHANGED rmvars
        \/ /\ Compensate(id) \/ EndCorrect(id) \/ FaultUndetected(id) \/ FaultDetected(id)
           /\ UNCHANGED rmvars
        \/ /\ SignOff(id)
           /\ disturbed' = Ids
           /\ UNCHANGED <<periods, dels>>
        \/ /\ \E tech \in NewTechs : ChangeTech(id, tech)
           /\ disturbed' = disturbed \cup {id}
           /\ UNCHANGED <<periods, dels>>

RmSpec == RmInit /\ [][RmNext]_allvars

-----------------------------------------------------------------------------
\* A protected period keeps its window whatever is done to the others: they may
\* be created, refused, deleted, created again under the same id, asked for
\* their status in the middle of a job, and change their technique.  Status
\* queries of its own, between its jobs, do not harm it either.
UndisturbedFirm ==
    \A i \in 1 .. Len(list) :
        LET h == hist[list[i].id]
        IN  list[i].id \notin disturbed =>
              Cardinality({n \in 1 .. Len(h) : ~h[n]}) <= list[i].k - list[i].m

\* "If length is zero, then result is set to indicate the current state of the
\* period": asking for the status does not touch the job under way.
StatusIsAQuery ==
    [][\A id \in Ids : Status(id) => job' = job]_allvars
=============================================================================
