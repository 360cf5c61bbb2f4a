----------------------------- MODULE StaticWalk -----------------------------
(***************************************************************************)
(* Static compensation of one registered task (SRE or SDR): every job      *)
(* reads the pattern bit at curr_pos/bitpos and moves on.  The constraint, *)
(* the pattern type and the pattern are fixed by the registration.         *)
(***************************************************************************)
EXTENDS FtsPattern

CONSTANTS
    MaxK,           \* largest k enumerated
    Types           \* the pattern types enumerated

ASSUME BoundsAssumption == MaxK \in 1 .. 255 /\ Types \subseteq PatternTypes

VARIABLES
    type, m, k,     \* list.pattern[i], list.m[i], list.k[i]
    pattern,        \* the bytes at list.pattern_start[i]
    pos             \* list.curr_pos[i] and list.bitpos[i]

vars == <<type, m, k, pattern, pos>>

\* 0 < m <= k, the constraints the report allows, as far as create_pattern_t
\* is defined on them.
Init ==
    /\ type \in Types
    /\ k \in 1 .. MaxK
    /\ m \in 1 .. k
    /\ PatternDefined(type, m, k)
    /\ pattern = create_pattern(type, m, k)
    /\ pos = StartPos

\* One job: static_next_version_t.
StaticJob ==
    /\ pos' = NextPos(k, pos)
    /\ UNCHANGED <<type, m, k, pattern>>

Next == StaticJob

Spec == Init /\ [][Next]_vars

-----------------------------------------------------------------------------
(* What the bits read by the next k jobs are. *)
Walk == LET w[n \in 0 .. k - 1] == IF n = 0 THEN pos ELSE NextPos(k, w[n - 1])
        IN  w

ReliableJobs == Cardinality({n \in 0 .. k - 1 : pattern[BitIndex(Walk[n])] = 1})

Zeros == {n \in 0 .. k - 1 : pattern[n] = 0}

TypeOK ==
    /\ type \in PatternTypes
    /\ k \in Nat /\ m \in 0 .. k
    /\ pattern \in [0 .. k - 1 -> {0, 1}]
    /\ pos \in [byte : 0 .. EndByte(k), bit : 0 .. BITS - 1]

\* The (m,k) guarantee of the static techniques: wherever the walk over the
\* pattern stands, including across its wrap-around at max_bitpos, at least m
\* of the next k jobs of static_next_version_t are released as reliable.
StaticMKFirm == ReliableJobs >= m

\* The walk of static_next_version_t never reads a bit outside the k bits of
\* the pattern, and from any point it returns to that point after k jobs and
\* not before, so no bit is skipped and none is used twice in a cycle.
WalkIsCyclic ==
    /\ \A n \in 0 .. k - 1 : BitIndex(Walk[n]) = (BitIndex(pos) + n) % k
    /\ NextPos(k, Walk[k - 1]) = pos

\* The tolerance counters tol_counter_set derives from the pattern tolerate no
\* more faults per cycle than the constraint allows, account for every job of
\* the cycle, and give every partition at least one reliable job, without
\* which rtems_rate_monotonic_period would skip the partition's tolerance.
\* The last partition has at most the index that makes PATTERN_PARTITIONS, 16,
\* enough for every k up to 32.
TolCountersSound ==
    LET o == tol_counter_o(pattern, k)
        a == tol_counter_a(pattern, k)
        P == 0 .. nr_partitions(pattern, k)
    IN  /\ Cardinality(Zeros) <= k - m
        /\ nr_partitions(pattern, k) <= (k - 1) \div 2
        /\ \A p \in P : a[p] > 0 /\ (p > 0 => o[p] > 0)
        /\ Cardinality(UNION {{p} \X (1 .. o[p] + a[p]) : p \in P}) = k

\* Definition 1 of the report: a pattern has exactly m "1"s, so that a static
\* technique spends no reliable execution it does not need.
ExactlyMOnes == Cardinality(Zeros) = k - m

=============================================================================
