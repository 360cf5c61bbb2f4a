---------------------------- MODULE DynamicComp -----------------------------
(***************************************************************************)
(* Dynamic compensation (techniques DRE and DDR) of one protected task, as *)
(* rtems/src/fts_t.c and the head of rtems_rate_monotonic_period run it:   *)
(* every period() call replenishes the tolerance counters or moves to the  *)
(* next partition, the release picks a version from the counters, and the  *)
(* detection version reports its fault before the next period() call.      *)
(*                                                                         *)
(* The counters tol_counter_set derives from the pattern are the constants *)
(* O and A; partitions are numbered 0..NP as in nr_partitions.             *)
(***************************************************************************)
EXTENDS Integers

CONSTANTS
    M, K,       \* the (m,k) constraint
    Tech,       \* "DRE" or "DDR"
    NP,         \* nr_partitions[i]: the index of the last partition
    O, A,       \* tol_counter_const[i]: "0"s and "1"s of each partition
    ZB, JB,     \* "0"s, and bits, of the pattern before each partition
    Z,          \* the position of each "0" in the pattern
    U16         \* 2^16: the counters are uint16_t

Parts == 0 .. NP

\* The counters describe a pattern of K bits of which K - M are "0", and every
\* partition has a "1".
ASSUME PatternAssumption ==
    /\ K \in Nat \ {0} /\ M \in 0 .. K /\ U16 \in Nat /\ K < U16
    /\ Tech \in {"DRE", "DDR"}
    /\ NP \in Nat
    /\ O \in [Parts -> 0 .. K]
    /\ A \in [Parts -> 1 .. K]
    /\ ZB \in [0 .. NP + 1 -> 0 .. K - M] /\ ZB[0] = 0 /\ ZB[NP + 1] = K - M
    /\ JB \in [0 .. NP + 1 -> 0 .. K]     /\ JB[0] = 0 /\ JB[NP + 1] = K
    /\ \A p \in Parts : /\ ZB[p + 1] = ZB[p] + O[p]
                        /\ JB[p + 1] = JB[p] + O[p] + A[p]
    /\ Z \in [0 .. K - M - 1 -> 0 .. K - 1]
    /\ \A p \in Parts : \A n \in 0 .. O[p] - 1 : Z[ZB[p] + n] = JB[p] + n

VARIABLES
    o, a,       \* tol_counter_temp[i]
    pi,         \* partition_index[i]
    phase,      \* what the current job is at
    since       \* the ages of the last incorrect jobs, see MKFirm

vars == <<o, a, pi, phase, since>>

MK == INSTANCE MKFirm

Phases == {"ended", "begun", "tolerant", "detection", "correction"}

\* x-- on a uint16_t
Decrement(x) == IF x = 0 THEN U16 - 1 ELSE x - 1

\* fts_rtems_task_register_t: tol_counter_set and tolc_update.
Init ==
    /\ o = O /\ a = A /\ pi = 0
    /\ phase = "ended"
    /\ MK!Init

\* Mutation: the counters of the last partition are not replenished.
BugReplenishLast ==
    \/ /\ a[pi] = 0 /\ pi # NP
       /\ pi' = pi + 1
       /\ UNCHANGED <<o, a>>
    \/ /\ a[pi] # 0 \/ pi = NP
       /\ UNCHANGED <<o, a, pi>>

\* rtems_rate_monotonic_period: replenish after the last partition, move on
\* after another one, otherwise leave the counters alone.
Replenish ==
    \/ /\ a[pi] = 0 /\ pi = NP
       /\ o' = O /\ a' = A /\ pi' = 0
    \/ /\ a[pi] = 0 /\ pi # NP
       /\ pi' = pi + 1
       /\ UNCHANGED <<o, a>>
    \/ /\ a[pi] # 0
       /\ UNCHANGED <<o, a, pi>>

BeginPeriod ==
    /\ phase = "ended"
    /\ phase' = "begun"
    /\ Replenish
    /\ UNCHANGED since

\* Mutation: >= in place of >.
BugReleaseTolerant ==
    /\ phase = "begun"
    /\ o[pi] >= 0
    /\ phase' = "tolerant"
    /\ UNCHANGED <<o, a, pi, since>>

\* dynamic_next_version_t.
ReleaseTolerant ==
    /\ phase = "begun"
    /\ o[pi] > 0
    /\ phase' = "tolerant"
    /\ UNCHANGED <<o, a, pi, since>>

ReleaseSafe ==
    /\ phase = "begun"
    /\ o[pi] = 0
    /\ a' = [a EXCEPT ![pi] = Decrement(@)]
    /\ phase' = IF Tech = "DRE" THEN "correction" ELSE "detection"
    /\ UNCHANGED <<o, pi, since>>

\* The job ends without a fault, or is a correction version.
EndCorrect ==
    /\ phase \in {"tolerant", "detection", "correction"}
    /\ phase' = "ended"
    /\ MK!JobOK
    /\ UNCHANGED <<o, a, pi>>

\* Mutation: a tolerated fault is not counted.
BugReportFault ==
    /\ phase \in {"tolerant", "detection"}
    /\ \/ /\ o[pi] > 0
          /\ phase' = "ended"
          /\ since' = [n \in 1 .. K - M |->
                          IF n = 1 THEN 1 ELSE MK!Older(since[n - 1])]
          /\ UNCHANGED o
       \/ /\ o[pi] = 0
          /\ phase' = "correction"
          /\ UNCHANGED <<o, since>>
    /\ UNCHANGED <<a, pi>>

\* fault_detection_routine(id, FAULT).  What the fault does to the job follows
\* from the counter the routine reads: tolerated, or corrected by releasing
\* the correction version.
ReportFault ==
    /\ phase \in {"tolerant", "detection"}
    /\ \/ /\ o[pi] > 0
          /\ o' = [o EXCEPT ![pi] = Decrement(@)]
          /\ phase' = "ended"
          /\ since' = [n \in 1 .. K - M |->
                          IF n = 1 THEN 1 ELSE MK!Older(since[n - 1])]
       \/ /\ o[pi] = 0
          /\ phase' = "correction"
          /\ UNCHANGED <<o, since>>
    /\ UNCHANGED <<a, pi>>

Next ==
    \/ BeginPeriod
    \/ ReleaseTolerant \/ ReleaseSafe
    \/ EndCorrect \/ ReportFault

Spec == Init /\ [][Next]_vars

-----------------------------------------------------------------------------
TypeOK ==
    /\ o \in [Parts -> Nat] /\ a \in [Parts -> 0 .. U16 - 1]
    /\ pi \in Parts
    /\ phase \in Phases
    /\ MK!TypeOK

\* The refinement: dynamic compensation keeps the promise of MKFirm.  In
\* particular a tolerated fault (the o branch of fault_detection_routine) comes
\* only when the (K-M)-th last incorrect job is K jobs old.
KeepsMKFirm == MK!Spec

\* A job released when the tolerance of the partition is used up never ends in
\* fault_detection_routine's tolerating branch, and a job released as tolerant
\* never has to be corrected: the counter read at the release is still the one
\* that decides at the report.
ModeIsStable ==
    /\ phase \in {"detection", "correction"} => o[pi] = 0
    /\ phase = "tolerant" => o[pi] > 0

\* The uint16_t counters never wrap below zero: dynamic_next_version_t
\* decrements tol_counter_a only while some of the partition's reliable jobs
\* are left, because period() moved on when the last one was spent.
CountersInRange ==
    \A p \in Parts : o[p] <= O[p] /\ a[p] <= A[p]

\* A partition's reliable jobs start only when its tolerance is used up, and
\* the partitions ahead are untouched.
PartitionsInOrder ==
    /\ \A p \in Parts : a[p] < A[p] => o[p] = 0
    /\ \A p \in Parts : p < pi => o[p] = 0 /\ a[p] = 0
    /\ \A p \in Parts : p > pi => o[p] = O[p] /\ a[p] = A[p]
=============================================================================
