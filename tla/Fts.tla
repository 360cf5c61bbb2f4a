-------------------------------- MODULE Fts ---------------------------------
(***************************************************************************)
(* The list of protected periods of rtems/src/fts_t.c and all its entry    *)
(* points: registration, sign-off, change of technique, the head of        *)
(* rtems_rate_monotonic_period, fts_compensate_t and                       *)
(* fault_detection_routine, called for several periods in any order.       *)
(*                                                                         *)
(* The C code keeps parallel arrays indexed by the position in the list.   *)
(* fts_off_t shifts some of them; those are the records of the sequence    *)
(* list.  The others stay where they are; those are functions of the slot. *)
(*                                                                         *)
(* A version is correct unless a fault hits it; a correction version is    *)
(* always correct, a detection version notices every fault, and a version  *)
(* ends before the next period() call of its period (chapter 3 of the      *)
(* report assumes all three).                                              *)
(***************************************************************************)
EXTENDS FtsPattern, Integers, Sequences

CONSTANTS
    Ids,                    \* ids of periods
    Args,                   \* the [m, k, tech, pattern] registered
    P_TASKS,
    PATTERN_PARTITIONS,
    U16,                    \* the uint16_t counters wrap at U16
    MaxOffs,                \* sign-offs in a behaviour
    NewTechs                \* the techniques the application changes to

Techs   == {"NONE", "SRE", "SDR", "DRE", "DDR"}
Dynamic == {"DRE", "DDR"}
Slots   == 1 .. P_TASKS
Parts   == 0 .. PATTERN_PARTITIONS - 1
Phases  == {"ended", "begun", "basic", "detection", "correction"}

NoId == "none"

ASSUME FtsAssumption ==
    /\ P_TASKS \in Nat \ {0} /\ PATTERN_PARTITIONS \in Nat \ {0}
    /\ U16 \in Nat /\ MaxOffs \in Nat /\ NewTechs \subseteq Techs
    /\ NoId \notin Ids
    /\ \A g \in Args : /\ g.m \in Nat /\ g.k \in Nat /\ g.k < U16
                       /\ g.tech \in Techs
                       /\ g.pattern \in PatternTypes
                       /\ PatternDefined(g.pattern, g.m, g.k)

VARIABLES
    list,           \* id, m, k, tech, the pattern bytes and the position in
                    \* them, of the first task_list_index entries
    versions,       \* list.b/d/c by slot: the period they were registered for
    tol_const,      \* tol_counter_const by slot
    tol_temp,       \* tol_counter_temp by slot
    nr_parts,       \* nr_partitions by slot
    partition_index,
    job,            \* by period: what the current job is at
    hist,           \* by period: the outcomes of its last k protected jobs
    protected,      \* periods registered and not signed off by the application
    offs            \* sign-offs so far

slotvars == <<versions, tol_const, nr_parts>>
counters == <<tol_temp, partition_index>>
vars == <<list, slotvars, counters, job, hist, protected, offs>>

Registered == {list[i].id : i \in 1 .. Len(list)}

\* task_in_list_t, for a period in the list.
IndexOf(id) == CHOOSE i \in 1 .. Len(list) :
                  /\ list[i].id = id
                  /\ \A j \in 1 .. i - 1 : list[j].id # id

ZeroCounters == [o |-> [p \in Parts |-> 0], a |-> [p \in Parts |-> 0]]

Init ==
    /\ list = << >>
    /\ versions = [i \in Slots |-> NoId]
    /\ tol_const = [i \in Slots |-> ZeroCounters]
    /\ tol_temp = [i \in Slots |-> ZeroCounters]
    /\ nr_parts = [i \in Slots |-> 0]
    /\ partition_index = [i \in Slots |-> 0]
    /\ job = [id \in Ids |-> "ended"]
    /\ hist = [id \in Ids |-> << >>]
    /\ protected = {}
    /\ offs = 0

\* tol_counter_set adds the "0"s and "1"s of the pattern to whatever the
\* counters hold.
tol_counter_set(c, p, k) ==
    [o |-> [q \in Parts |-> (c.o[q] + CountIn(p, k, q, 0)) % U16],
     a |-> [q \in Parts |-> (c.a[q] + CountIn(p, k, q, 1)) % U16]]

\* tolc_update: the counters of partitions 0 .. n are copied.
tolc_update(t, c, n) ==
    [o |-> [q \in Parts |-> IF q <= n THEN c.o[q] ELSE t.o[q]],
     a |-> [q \in Parts |-> IF q <= n THEN c.a[q] ELSE t.a[q]]]

\* Mutation: the period may be in the list already.
BugMayRegister(id, g) == Len(list) < P_TASKS /\ g.m <= g.k

\* fts_rtems_task_register_t: the list has room and the period is not in it.
MayRegister(id, g) ==
    /\ Len(list) < P_TASKS
    /\ id \notin Registered
    /\ g.m <= g.k

\* Mutation: the versions always go to the first slot.
BugStoreVersions(i, id) == versions' = [versions EXCEPT ![1] = id]

StoreVersions(i, id) == versions' = [versions EXCEPT ![i] = id]

\* Mutation: only the working copy is set.
BugSetCounters(i, g, pat) ==
    LET c == tol_counter_set(tol_const[i], pat, g.k)
        n == nr_partitions(pat, g.k)
    IN  IF g.tech \in Dynamic
        THEN /\ nr_parts' = [nr_parts EXCEPT ![i] = n]
             /\ tol_temp' = [tol_temp EXCEPT ![i] = tolc_update(@, c, n)]
             /\ partition_index' = [partition_index EXCEPT ![i] = 0]
             /\ UNCHANGED tol_const
        ELSE UNCHANGED <<tol_const, nr_parts, counters>>

\* For a dynamic technique: tol_counter_set and tolc_update.
SetCounters(i, g, pat) ==
    LET c == tol_counter_set(tol_const[i], pat, g.k)
        n == nr_partitions(pat, g.k)
    IN  IF g.tech \in Dynamic
        THEN /\ tol_const' = [tol_const EXCEPT ![i] = c]
             /\ nr_parts' = [nr_parts EXCEPT ![i] = n]
             /\ tol_temp' = [tol_temp EXCEPT ![i] = tolc_update(@, c, n)]
             /\ partition_index' = [partition_index EXCEPT ![i] = 0]
        ELSE UNCHANGED <<tol_const, nr_parts, counters>>

Register(id, g) ==
    LET i   == Len(list) + 1
        pat == create_pattern(g.pattern, g.m, g.k)
    IN  /\ MayRegister(id, g)
        /\ list' = Append(list, [id |-> id, m |-> g.m, k |-> g.k, tech |-> g.tech,
                                 pat |-> pat, pos |-> StartPos])
        /\ StoreVersions(i, id)
        /\ SetCounters(i, g, pat)
        /\ hist' = [hist EXCEPT ![id] = << >>]
        /\ protected' = protected \cup {id}
        /\ UNCHANGED <<job, offs>>

\* Mutation: the number of partitions is not looked at.
BugReplenish(i) ==
    LET p == partition_index[i]
    IN  /\ partition_index' = [partition_index EXCEPT ![i] =
                                  IF tol_temp[i].a[p] = 0 THEN p + 1 ELSE p]
        /\ UNCHANGED tol_temp

\* The head of rtems_rate_monotonic_period, for a dynamic technique: replenish
\* the counters after the last partition, or move on to the next one.
Replenish(i) ==
    LET p == partition_index[i]
    IN  \/ /\ tol_temp[i].a[p] = 0 /\ nr_parts[i] = p
           /\ tol_temp' = [tol_temp EXCEPT ![i] =
                              tolc_update(@, tol_const[i], nr_parts[i])]
           /\ partition_index' = [partition_index EXCEPT ![i] = 0]
        \/ /\ tol_temp[i].a[p] = 0 /\ nr_parts[i] # p
           /\ partition_index' = [partition_index EXCEPT ![i] = p + 1]
           /\ UNCHANGED tol_temp
        \/ /\ tol_temp[i].a[p] # 0
           /\ UNCHANGED counters

\* Mutation: the counters are set back at every call.
BugPeriodHead(id) ==
    IF id \in Registered /\ list[IndexOf(id)].tech \in Dynamic
    THEN LET i == IndexOf(id)
         IN  /\ tol_temp' = [tol_temp EXCEPT ![i] =
                                tolc_update(@, tol_const[i], nr_parts[i])]
             /\ partition_index' = [partition_index EXCEPT ![i] = 0]
    ELSE UNCHANGED counters

PeriodHead(id) ==
    IF id \in Registered /\ list[IndexOf(id)].tech \in Dynamic
    THEN Replenish(IndexOf(id))
    ELSE UNCHANGED counters

BeginPeriod(id) ==
    /\ job[id] = "ended"
    /\ job' = [job EXCEPT ![id] = "begun"]
    /\ PeriodHead(id)
    /\ UNCHANGED <<list, slotvars, hist, protected, offs>>

\* static_next_version_t.
StaticVersion(id, i) ==
    LET bit == list[i].pat[BitIndex(list[i].pos)]
    IN  /\ list[i].tech \in {"SRE", "SDR"}
        /\ list' = [list EXCEPT ![i].pos = NextPos(list[i].k, @)]
        /\ job' = [job EXCEPT ![id] =
                      IF bit = 0 THEN "basic"
                      ELSE IF list[i].tech = "SRE" THEN "correction" ELSE "detection"]
        /\ UNCHANGED counters

\* dynamic_next_version_t.
DynamicVersion(id, i) ==
    LET p == partition_index[i]
    IN  /\ list[i].tech \in Dynamic
        /\ \/ /\ tol_temp[i].o[p] > 0
              /\ job' = [job EXCEPT ![id] = "detection"]
              /\ UNCHANGED tol_temp
           \/ /\ tol_temp[i].o[p] = 0
              /\ job' = [job EXCEPT ![id] =
                            IF list[i].tech = "DRE" THEN "correction" ELSE "detection"]
              /\ tol_temp' = [tol_temp EXCEPT ![i].a[p] = (@ + U16 - 1) % U16]
        /\ UNCHANGED <<list, partition_index>>

\* NONE: fts_compensate_t answers BASIC and releases nothing; nor does it
\* release anything for a period that is not in the list.
NoVersion(id) ==
    /\ id \in Registered => list[IndexOf(id)].tech = "NONE"
    /\ job' = [job EXCEPT ![id] = "ended"]
    /\ UNCHANGED <<list, counters>>

\* fts_compensate_t, called when the job of the period is released.
Compensate(id) ==
    /\ job[id] = "begun"
    /\ \/ NoVersion(id)
       \/ id \in Registered /\ StaticVersion(id, IndexOf(id))
       \/ id \in Registered /\ DynamicVersion(id, IndexOf(id))
    /\ UNCHANGED <<slotvars, hist, protected, offs>>

\* The job of a period ended with outcome ok.  Its window is the last k.
Outcome(id, ok) ==
    hist' = IF id \notin Registered THEN hist
            ELSE LET k == list[IndexOf(id)].k
                     h == Append(hist[id], ok)
                 IN  [hist EXCEPT ![id] = IF Len(h) <= k THEN h ELSE Tail(h)]

EndCorrect(id) ==
    /\ job[id] \in {"basic", "detection", "correction"}
    /\ job' = [job EXCEPT ![id] = "ended"]
    /\ Outcome(id, TRUE)
    /\ UNCHANGED <<list, slotvars, counters, protected, offs>>

\* A fault in a basic version goes unnoticed.
FaultUndetected(id) ==
    /\ job[id] = "basic"
    /\ job' = [job EXCEPT ![id] = "ended"]
    /\ Outcome(id, FALSE)
    /\ UNCHANGED <<list, slotvars, counters, protected, offs>>

\* Mutation: the tolerated fault is not counted.
BugCountFault(i, p) == UNCHANGED tol_temp

CountFault(i, p) == tol_temp' = [tol_temp EXCEPT ![i].o[p] = @ - 1]

\* fault_detection_routine(id, FAULT): the correction version is released, or
\* the fault is tolerated.  With NONE and SRE the switch has no case.  For a
\* period not in the list the routine works on element 65535 of the arrays:
\* what it finds there does not correct this job.
FaultDetected(id) ==
    LET i == IndexOf(id)
        p == partition_index[i]
        tech == IF id \in Registered THEN list[i].tech ELSE "NONE"
    IN  /\ job[id] = "detection"
        /\ \/ /\ \/ tech = "SDR"
                 \/ tech \in Dynamic /\ tol_temp[i].o[p] = 0
              /\ job' = [job EXCEPT ![id] = "correction"]
              /\ UNCHANGED <<tol_temp, hist>>
           \/ /\ tech \in Dynamic /\ tol_temp[i].o[p] > 0
              /\ CountFault(i, p)
              /\ job' = [job EXCEPT ![id] = "ended"]
              /\ Outcome(id, FALSE)
           \/ /\ tech \in {"NONE", "SRE"}
              /\ job' = [job EXCEPT ![id] = "ended"]
              /\ Outcome(id, FALSE)
              /\ UNCHANGED tol_temp
        /\ UNCHANGED <<list, slotvars, partition_index, protected, offs>>

\* fts_off_t: when the period is in the list, every entry is replaced by the
\* next one, from the first entry on.
SignOff(id) ==
    /\ offs < MaxOffs
    /\ offs' = offs + 1
    /\ id \in Registered
    /\ list' = Tail(list)
    /\ protected' = protected \ {id}
    /\ UNCHANGED <<slotvars, counters, job, hist>>

\* fts_change_tech_t.
ChangeTech(id, tech) ==
    /\ id \in Registered
    /\ list' = [list EXCEPT ![IndexOf(id)].tech = tech]
    /\ UNCHANGED <<slotvars, counters, job, hist, protected, offs>>

Job(id) ==
    \/ BeginPeriod(id) \/ Compensate(id)
    \/ EndCorrect(id) \/ FaultUndetected(id) \/ FaultDetected(id)

\* The applications register their periods and run them.
Next ==
    \E id \in Ids :
        \/ Job(id)
        \/ \E g \in Args : Register(id, g)

Spec == Init /\ [][Next]_vars

\* With the two entry points that change a registration.
AdminNext ==
    \/ Next
    \/ \E id \in Ids :
          \/ SignOff(id)
          \/ \E tech \in NewTechs : ChangeTech(id, tech)

AdminSpec == Init /\ [][AdminNext]_vars

-----------------------------------------------------------------------------
Counter == [o : [Parts -> 0 .. U16 - 1], a : [Parts -> 0 .. U16 - 1]]

TypeOK ==
    /\ Len(list) \in 0 .. P_TASKS
    /\ \A i \in 1 .. Len(list) : list[i].id \in Ids /\ list[i].tech \in Techs
    /\ versions \in [Slots -> Ids \cup {NoId}]
    /\ tol_const \in [Slots -> Counter] /\ tol_temp \in [Slots -> Counter]
    /\ nr_parts \in [Slots -> Parts] /\ partition_index \in [Slots -> Parts]
    /\ job \in [Ids -> Phases]
    /\ protected \subseteq Ids
    /\ offs \in 0 .. MaxOffs

\* The promise of the report for every registered period at once: of its last
\* k jobs at least m were correct, whatever the technique, whichever jobs the
\* faults hit, and however the jobs of the other periods interleave.
WindowsAreFirm ==
    \A i \in 1 .. Len(list) :
        LET h == hist[list[i].id]
        IN  Cardinality({n \in 1 .. Len(h) : ~h[n]}) <= list[i].k - list[i].m

\* partition_index never runs past nr_partitions, so fts_t.c reads no counter
\* beyond those tolc_update refreshes, whatever sequence of sign-offs, new
\* registrations and changes of technique the slot has seen.
PartitionInRange == \A i \in Slots : partition_index[i] <= nr_parts[i]

\* No period is in the list twice, so task_in_list_t finds the entry that was
\* registered last, sign-offs that shift the list included.
OneEntryPerId ==
    \A i, j \in 1 .. Len(list) : list[i].id = list[j].id => i = j

\* Every job is released by the version functions of its own period: list.b,
\* list.d and list.c at the period's index were stored by its registration.
OwnVersions == \A i \in 1 .. Len(list) : versions[i] = list[i].id

\* The tolerance counters of a registered period are those of its pattern:
\* "Counter o_ij describes the number of 0s in each partition".
CountersFromPattern ==
    \A i \in 1 .. Len(list) :
        list[i].tech \in Dynamic =>
            tol_const[i] = tol_counter_set(ZeroCounters, list[i].pat, list[i].k)

\* The list holds the periods the application registered and did not sign off.
ListIsProtected == Registered = protected
=============================================================================
