----------------------------- MODULE FtsProofs ------------------------------
(***************************************************************************)
(* The list of protected periods stays well formed for any number of       *)
(* periods, list entries and partitions, any (m,k) constraints, and any    *)
(* sequence of creations, deletions, sign-offs and changes of technique.   *)
(***************************************************************************)
EXTENDS FtsRm, FiniteSetTheorems, TLAPS

Patterns == UNION {[0 .. k - 1 -> {0, 1}] : k \in Nat}
Position == [byte : Nat, bit : Nat]
Entry == [id : Ids, m : Nat, k : Nat, tech : Techs, pat : Patterns, pos : Position]

\* A list with room for its entries, no two of them for the same period.
WellFormed(l) ==
    /\ l \in Seq(Entry)
    /\ Len(l) <= P_TASKS
    /\ \A i, j \in 1 .. Len(l) : l[i].id = l[j].id => i = j

CounterInv ==
    /\ nr_parts \in [Slots -> Nat]
    /\ partition_index \in [Slots -> Nat]
    /\ PartitionInRange

IInv == WellFormed(list) /\ CounterInv

-----------------------------------------------------------------------------
\* What the entry points do to a list: append, shift, and replace an entry.
LEMMA AppendWellFormed ==
    ASSUME NEW l, WellFormed(l), NEW e \in Entry, Len(l) < P_TASKS,
           \A i \in 1 .. Len(l) : l[i].id # e.id
    PROVE  WellFormed(Append(l, e))
  <1> DEFINE x == Append(l, e)
  <1>1. l \in Seq(Entry) /\ Len(l) \in Nat /\ P_TASKS \in Nat
    BY FtsAssumption DEF WellFormed
  <1>2. x \in Seq(Entry) /\ Len(x) = Len(l) + 1
    BY <1>1
  <1>3. /\ \A i \in 1 .. Len(l) : x[i] = l[i]
        /\ x[Len(l) + 1] = e
    BY <1>1
  <1>4. ASSUME NEW i \in 1 .. Len(x), NEW j \in 1 .. Len(x), x[i].id = x[j].id
        PROVE  i = j
    <2>1. CASE i \in 1 .. Len(l) /\ j \in 1 .. Len(l)
      BY <1>3, <1>4, <2>1 DEF WellFormed
    <2>2. CASE i = Len(l) + 1 /\ j = Len(l) + 1
      BY <2>2
    <2>3. CASE i = Len(l) + 1 /\ j \in 1 .. Len(l)
      BY <1>3, <1>4, <2>3
    <2>4. CASE i \in 1 .. Len(l) /\ j = Len(l) + 1
      BY <1>3, <1>4, <2>4
    <2>5. (i \in 1 .. Len(l) \/ i = Len(l) + 1) /\ (j \in 1 .. Len(l) \/ j = Len(l) + 1)
      BY <1>1, <1>2
    <2>6. QED
      BY <2>1, <2>2, <2>3, <2>4, <2>5
  <1>5. Len(x) <= P_TASKS
    BY <1>1, <1>2
  <1>6. QED
    BY <1>2, <1>4, <1>5 DEF WellFormed

\* What fts_off_t leaves of the list is well formed.
LEMMA TailWellFormed ==
    ASSUME NEW l, WellFormed(l), l # << >>
    PROVE  WellFormed(Tail(l))
  <1> DEFINE x == Tail(l)
  <1>1. l \in Seq(Entry) /\ Len(l) \in Nat /\ P_TASKS \in Nat
    BY FtsAssumption DEF WellFormed
  <1>2. x \in Seq(Entry) /\ Len(x) = Len(l) - 1
    BY <1>1
  <1>3. \A i \in 1 .. Len(x) : i + 1 \in 1 .. Len(l) /\ x[i] = l[i + 1]
    BY <1>1, <1>2
  <1>4. ASSUME NEW i \in 1 .. Len(x), NEW j \in 1 .. Len(x), x[i].id = x[j].id
        PROVE  i = j
    <2>1. i + 1 = j + 1
      BY <1>3, <1>4 DEF WellFormed
    <2>2. QED
      BY <2>1
  <1>5. Len(x) <= P_TASKS
    BY <1>1, <1>2 DEF WellFormed
  <1>6. QED
    BY <1>2, <1>4, <1>5 DEF WellFormed

\* An entry rewritten in place keeps the list well formed.
LEMMA ReplaceWellFormed ==
    ASSUME NEW l, WellFormed(l), NEW n \in 1 .. Len(l),
           NEW e \in Entry, e.id = l[n].id
    PROVE  WellFormed([l EXCEPT ![n] = e])
  <1> DEFINE x == [l EXCEPT ![n] = e]
  <1>1. l \in Seq(Entry) /\ Len(l) \in Nat
    BY DEF WellFormed
  <1>2. x \in Seq(Entry) /\ Len(x) = Len(l)
    BY <1>1
  <1>3. \A i \in 1 .. Len(l) : x[i].id = l[i].id
    BY <1>1
  <1>4. QED
    BY <1>2, <1>3 DEF WellFormed

\* The index task_in_list_t finds is that of the period's one entry.
LEMMA IndexFacts ==
    ASSUME WellFormed(list), NEW id \in Registered
    PROVE  /\ IndexOf(id) \in 1 .. Len(list)
           /\ list[IndexOf(id)].id = id
           /\ IndexOf(id) \in Slots
  <1>1. list \in Seq(Entry) /\ Len(list) \in Nat /\ Len(list) <= P_TASKS /\ P_TASKS \in Nat
    BY FtsAssumption DEF WellFormed
  <1>2. PICK i \in 1 .. Len(list) : list[i].id = id
    BY DEF Registered
  <1>3. \A j \in 1 .. i - 1 : list[j].id # id
    <2>1. SUFFICES ASSUME NEW j \in 1 .. i - 1, list[j].id = id PROVE FALSE
      OBVIOUS
    <2>2. j \in 1 .. Len(list) /\ j # i
      BY <1>1
    <2>3. QED
      BY <1>2, <2>1, <2>2 DEF WellFormed
  <1>4. IndexOf(id) \in 1 .. Len(list) /\ list[IndexOf(id)].id = id
    BY <1>2, <1>3 DEF IndexOf
  <1>5. IndexOf(id) \in Slots
    BY <1>1, <1>4 DEF Slots
  <1>6. QED
    BY <1>4, <1>5

\* static_next_version_t moves to a position.
LEMMA NextPosType ==
    ASSUME NEW k \in Nat, NEW pos \in Position
    PROVE  NextPos(k, pos) \in Position
  BY DEF NextPos, Position, StartPos, BITS, EndByte, MaxBitpos

\* create_pattern_t stores a pattern of k bits.
LEMMA PatternType ==
    ASSUME NEW type, NEW m \in Nat, NEW k \in Nat
    PROVE  create_pattern(type, m, k) \in Patterns
  <1>1. \A n \in 0 .. k - 1 : PatternBit(type, m, k, n) \in {0, 1}
    BY DEF PatternBit, RBit, EBit
  <1>2. create_pattern(type, m, k) \in [0 .. k - 1 -> {0, 1}]
    BY <1>1 DEF create_pattern
  <1>3. QED
    BY <1>2 DEF Patterns

\* tol_counter_set finds a number of partitions.
LEMMA PartitionsType ==
    ASSUME NEW p, NEW k \in Nat
    PROVE  nr_partitions(p, k) \in Nat
  <1> DEFINE S == {j \in 1 .. k - 1 : p[j] = 0 /\ p[j - 1] = 1}
  <1>1. IsFiniteSet(1 .. k - 1)
    BY FS_Interval
  <1>2. IsFiniteSet(S)
    BY <1>1, FS_Subset
  <1>3. Cardinality(S) \in Nat
    BY <1>2, FS_CardinalityType
  <1>4. QED
    BY <1>3 DEF nr_partitions, PartitionOf

-----------------------------------------------------------------------------
\* The constants of the model, as the proofs use them.
LEMMA ConstantFacts ==
    /\ P_TASKS \in Nat
    /\ \A g \in Args : /\ g.m \in Nat /\ g.k \in Nat /\ g.tech \in Techs
                       /\ g.pattern \in PatternTypes
  BY FtsAssumption

\* An entry of the list keeps its period when its technique or its position
\* changes.
LEMMA EntryFacts ==
    ASSUME WellFormed(list), NEW n \in 1 .. Len(list)
    PROVE  /\ list[n] \in Entry
           /\ \A t \in Techs : /\ [list[n] EXCEPT !.tech = t] \in Entry
                               /\ [list[n] EXCEPT !.tech = t].id = list[n].id
           /\ \A q \in Position : /\ [list[n] EXCEPT !.pos = q] \in Entry
                                  /\ [list[n] EXCEPT !.pos = q].id = list[n].id
  <1>1. list[n] \in Entry
    BY DEF WellFormed
  <1>2. QED
    BY <1>1 DEF Entry

\* A slot gets a number of partitions and an index within it.
LEMMA SlotInRange ==
    ASSUME CounterInv, NEW i \in Slots, NEW q \in Nat, NEW n \in Nat, q <= n,
           nr_parts' = [nr_parts EXCEPT ![i] = n],
           partition_index' = [partition_index EXCEPT ![i] = q]
    PROVE  CounterInv'
  <1>1. nr_parts' \in [Slots -> Nat] /\ partition_index' \in [Slots -> Nat]
    BY DEF CounterInv
  <1>2. ASSUME NEW j \in Slots
        PROVE  partition_index'[j] <= nr_parts'[j]
    <2>1. CASE j = i
      BY <2>1 DEF CounterInv
    <2>2. CASE j # i
      BY <2>2 DEF CounterInv, PartitionInRange
    <2>3. QED
      BY <2>1, <2>2
  <1>3. QED
    BY <1>1, <1>2 DEF CounterInv, PartitionInRange

\* Steps that leave partition_index and nr_parts alone.
LEMMA CountersKept ==
    ASSUME IInv, UNCHANGED <<nr_parts, partition_index>>
    PROVE  CounterInv'
  BY DEF IInv, CounterInv, PartitionInRange

\* Steps that leave the list alone.
LEMMA ListKept ==
    ASSUME IInv, UNCHANGED list
    PROVE  WellFormed(list)'
  BY DEF IInv, WellFormed

\* fts_rtems_task_register_t.
LEMMA RegisterKeeps ==
    ASSUME IInv, NEW id \in Ids, NEW g \in Args, Register(id, g)
    PROVE  IInv'
  <1> DEFINE i == Len(list) + 1
             pat == create_pattern(g.pattern, g.m, g.k)
             e == [id |-> id, m |-> g.m, k |-> g.k, tech |-> g.tech,
                   pat |-> pat, pos |-> StartPos]
             n == nr_partitions(pat, g.k)
  <1>1. g.m \in Nat /\ g.k \in Nat /\ g.tech \in Techs
    BY ConstantFacts
  <1>2. pat \in Patterns
    BY <1>1, PatternType
  <1>3. StartPos \in Position
    BY DEF StartPos, Position
  <1>4. e \in Entry
    BY <1>1, <1>2, <1>3 DEF Entry
  <1>5. Len(list) < P_TASKS /\ id \notin Registered /\ list' = Append(list, e)
        /\ SetCounters(i, g, pat)
    BY DEF Register, MayRegister
  <1>6. \A j \in 1 .. Len(list) : list[j].id # e.id
    BY <1>5 DEF Registered
  <1>7. WellFormed(list)'
    <2>1. WellFormed(Append(list, e))
      BY <1>4, <1>5, <1>6, AppendWellFormed DEF IInv
    <2>2. QED
      BY <1>5, <2>1 DEF WellFormed
  <1>8. n \in Nat
    BY <1>1, PartitionsType
  <1>9. CounterInv'
    <2>1. CASE g.tech \in Dynamic
      <3>1. /\ nr_parts' = [nr_parts EXCEPT ![i] = n]
            /\ partition_index' = [partition_index EXCEPT ![i] = 0]
        BY <1>5, <2>1 DEF SetCounters
      <3>2. i \in Slots
        BY <1>5, ConstantFacts DEF Slots, IInv, WellFormed
      <3>3. 0 \in Nat /\ 0 <= n
        BY <1>8
      <3>4. QED
        BY <3>1, <3>2, <3>3, <1>8, SlotInRange DEF IInv
    <2>2. CASE g.tech \notin Dynamic
      BY <1>5, <2>2, CountersKept DEF SetCounters, counters
    <2>3. QED
      BY <2>1, <2>2
  <1>10. QED
    BY <1>7, <1>9 DEF IInv

\* The head of rtems_rate_monotonic_period, for the counters.
LEMMA HeadKeeps ==
    ASSUME IInv, NEW id \in Ids, PeriodHead(id), UNCHANGED nr_parts
    PROVE  CounterInv'
  <1>1. CASE id \in Registered /\ list[IndexOf(id)].tech \in Dynamic
    <2> DEFINE i == IndexOf(id)
    <2>1. i \in Slots
      BY <1>1, IndexFacts DEF IInv
    <2>2. Replenish(i)
      BY <1>1 DEF PeriodHead
    <2>3. partition_index[i] \in Nat /\ nr_parts[i] \in Nat
          /\ partition_index[i] <= nr_parts[i]
      BY <2>1 DEF IInv, CounterInv, PartitionInRange
    <2>4. nr_parts' = [nr_parts EXCEPT ![i] = nr_parts[i]]
      BY <2>1 DEF IInv, CounterInv
    <2>5. CASE partition_index' = [partition_index EXCEPT ![i] = 0]
      <3>1. 0 \in Nat /\ 0 <= nr_parts[i]
        BY <2>3
      <3>2. QED
        BY <2>1, <2>3, <2>4, <2>5, <3>1, SlotInRange DEF IInv
    <2>6. CASE /\ nr_parts[i] # partition_index[i]
               /\ partition_index' = [partition_index EXCEPT ![i] = partition_index[i] + 1]
      <3>1. partition_index[i] + 1 \in Nat /\ partition_index[i] + 1 <= nr_parts[i]
        BY <2>3, <2>6
      <3>2. QED
        BY <2>1, <2>3, <2>4, <2>6, <3>1, SlotInRange DEF IInv
    <2>7. CASE partition_index' = partition_index
      BY <2>7, CountersKept
    <2>8. QED
      BY <2>2, <2>5, <2>6, <2>7 DEF Replenish, counters
  <1>2. CASE ~(id \in Registered /\ list[IndexOf(id)].tech \in Dynamic)
    BY <1>2, CountersKept DEF PeriodHead, counters
  <1>3. QED
    BY <1>1, <1>2

\* fts_compensate_t.
LEMMA CompensateKeeps ==
    ASSUME IInv, NEW id \in Ids, Compensate(id)
    PROVE  IInv'
  <1>1. CASE NoVersion(id)
    <2>1. UNCHANGED list /\ UNCHANGED <<nr_parts, partition_index>>
      BY <1>1 DEF Compensate, NoVersion, slotvars, counters
    <2>2. QED
      BY <2>1, CountersKept, ListKept DEF IInv
  <1>2. CASE id \in Registered /\ StaticVersion(id, IndexOf(id))
    <2> DEFINE i == IndexOf(id)
    <2>1. i \in 1 .. Len(list)
      BY <1>2, IndexFacts DEF IInv
    <2>2. list' = [list EXCEPT ![i].pos = NextPos(list[i].k, @)]
      BY <1>2 DEF StaticVersion
    <2>3. list[i].k \in Nat /\ list[i].pos \in Position
      <3>1. list[i] \in Entry
        BY <2>1, EntryFacts DEF IInv
      <3>2. QED
        BY <3>1 DEF Entry
    <2> DEFINE q == NextPos(list[i].k, list[i].pos)
               e == [list[i] EXCEPT !.pos = q]
    <2>4. q \in Position
      BY <2>3, NextPosType
    <2>5. e \in Entry /\ e.id = list[i].id
      BY <2>1, <2>4, EntryFacts DEF IInv
    <2>6. list' = [list EXCEPT ![i] = e]
      BY <2>2
    <2>7. WellFormed([list EXCEPT ![i] = e])
      BY <2>1, <2>5, ReplaceWellFormed DEF IInv
    <2>8. WellFormed(list)'
      BY <2>6, <2>7 DEF WellFormed
    <2>9. UNCHANGED <<nr_parts, partition_index>>
      BY <1>2 DEF Compensate, StaticVersion, slotvars, counters
    <2>10. QED
      BY <2>8, <2>9, CountersKept DEF IInv
  <1>3. CASE id \in Registered /\ DynamicVersion(id, IndexOf(id))
    <2>1. UNCHANGED list /\ UNCHANGED <<nr_parts, partition_index>>
      BY <1>3 DEF Compensate, DynamicVersion, slotvars
    <2>2. QED
      BY <2>1, CountersKept, ListKept DEF IInv
  <1>4. QED
    BY <1>1, <1>2, <1>3 DEF Compensate

\* fts_off_t.
LEMMA SignOffKeeps ==
    ASSUME IInv, NEW id \in Ids, SignOff(id)
    PROVE  IInv'
  <1>1. list # << >>
    BY DEF SignOff, Registered
  <1>2. list' = Tail(list) /\ UNCHANGED <<nr_parts, partition_index>>
    BY DEF SignOff, slotvars, counters
  <1>3. WellFormed(Tail(list))
    BY <1>1, TailWellFormed DEF IInv
  <1>4. WellFormed(list)'
    BY <1>2, <1>3 DEF WellFormed
  <1>5. QED
    BY <1>2, <1>4, CountersKept DEF IInv

\* fts_change_tech_t.
LEMMA ChangeTechKeeps ==
    ASSUME IInv, NEW id \in Ids, NEW tech \in NewTechs, ChangeTech(id, tech)
    PROVE  IInv'
  <1> DEFINE i == IndexOf(id)
             e == [list[i] EXCEPT !.tech = tech]
  <1>1. i \in 1 .. Len(list)
    BY IndexFacts DEF IInv, ChangeTech
  <1>2. tech \in Techs
    BY FtsAssumption
  <1>3. e \in Entry /\ e.id = list[i].id
    BY <1>1, <1>2, EntryFacts DEF IInv
  <1>4. list' = [list EXCEPT ![i] = e]
    BY DEF ChangeTech
  <1>5. WellFormed([list EXCEPT ![i] = e])
    BY <1>1, <1>3, ReplaceWellFormed DEF IInv
  <1>6. WellFormed(list)'
    BY <1>4, <1>5 DEF WellFormed
  <1>7. UNCHANGED <<nr_parts, partition_index>>
    BY DEF ChangeTech, slotvars, counters
  <1>8. QED
    BY <1>6, <1>7, CountersKept DEF IInv

\* The steps of a job: rtems_rate_monotonic_period, fts_compensate_t, the end
\* of a version, and fault_detection_routine.
LEMMA JobKeeps ==
    ASSUME IInv, NEW id \in Ids, Job(id)
    PROVE  IInv'
  <1>1. CASE BeginPeriod(id)
    BY <1>1, HeadKeeps, ListKept DEF BeginPeriod, slotvars, IInv
  <1>2. CASE Compensate(id)
    BY <1>2, CompensateKeeps
  <1>3. CASE EndCorrect(id)
    BY <1>3, CountersKept, ListKept DEF EndCorrect, slotvars, counters, IInv
  <1>4. CASE FaultUndetected(id)
    BY <1>4, CountersKept, ListKept DEF FaultUndetected, slotvars, counters, IInv
  <1>5. CASE FaultDetected(id)
    BY <1>5, CountersKept, ListKept DEF FaultDetected, slotvars, IInv
  <1>6. QED
    BY <1>1, <1>2, <1>3, <1>4, <1>5 DEF Job

\* The empty list the FTS starts with.
LEMMA InitInv == Init => IInv
  <1>1. SUFFICES ASSUME Init PROVE IInv
    OBVIOUS
  <1>2. WellFormed(list)
    BY <1>1, ConstantFacts DEF Init, WellFormed
  <1>3. CounterInv
    BY <1>1 DEF Init, CounterInv, PartitionInRange
  <1>4. QED
    BY <1>2, <1>3 DEF IInv

\* Steps that do not concern the FTS.
LEMMA UnchangedInv == IInv /\ UNCHANGED vars => IInv'
  BY CountersKept, ListKept DEF vars, slotvars, counters, IInv

\* The steps of the FTS with the period objects around it.
LEMMA RmNextInv == IInv /\ [RmNext]_allvars => IInv'
  <1>1. SUFFICES ASSUME IInv, [RmNext]_allvars PROVE IInv'
    OBVIOUS
  <1>2. CASE UNCHANGED allvars
    BY <1>1, <1>2, UnchangedInv DEF allvars
  <1>3. ASSUME NEW id \in Ids, Create(id) \/ Delete(id)
        PROVE  IInv'
    BY <1>1, <1>3, UnchangedInv DEF Create, Delete
  <1>4. ASSUME NEW id \in Ids, Status(id)
        PROVE  IInv'
    BY <1>1, <1>4, HeadKeeps, ListKept DEF Status, slotvars, IInv
  <1>5. ASSUME NEW id \in Ids, NEW g \in Args, CreateFts(id, g)
        PROVE  IInv'
    BY <1>1, <1>5, RegisterKeeps, UnchangedInv DEF CreateFts
  <1>6. ASSUME NEW id \in Ids,
               BeginPeriod(id) \/ Compensate(id) \/ EndCorrect(id)
                 \/ FaultUndetected(id) \/ FaultDetected(id)
        PROVE  IInv'
    BY <1>1, <1>6, JobKeeps DEF Job
  <1>7. ASSUME NEW id \in Ids, SignOff(id)
        PROVE  IInv'
    BY <1>1, <1>7, SignOffKeeps
  <1>8. ASSUME NEW id \in Ids, NEW tech \in NewTechs, ChangeTech(id, tech)
        PROVE  IInv'
    BY <1>1, <1>8, ChangeTechKeeps
  <1>9. QED
    BY <1>1, <1>2, <1>3, <1>4, <1>5, <1>6, <1>7, <1>8 DEF RmNext

\* However periods are created, refused, deleted, signed off and created again,
\* no period is twice in the list fts_t.c keeps.
THEOREM OneEntry == RmSpec => []OneEntryPerId
  <1>1. RmInit => IInv
    BY InitInv DEF RmInit
  <1>2. IInv => OneEntryPerId
    BY DEF IInv, WellFormed, OneEntryPerId
  <1>3. QED
    BY <1>1, <1>2, RmNextInv, PTL DEF RmSpec

\* In the same behaviours no slot's partition_index passes its nr_partitions.
THEOREM IndexInRange == RmSpec => []PartitionInRange
  <1>1. RmInit => IInv
    BY InitInv DEF RmInit
  <1>2. IInv => PartitionInRange
    BY DEF IInv, CounterInv
  <1>3. QED
    BY <1>1, <1>2, RmNextInv, PTL DEF RmSpec

-----------------------------------------------------------------------------
(***************************************************************************)
(* While nobody signs off, a slot belongs to one period for good.          *)
(***************************************************************************)

\* What tol_const holds in slot i: the counters of the pattern of the period
\* registered there with a dynamic technique, and zeroes otherwise.
ConstantsOf(i) ==
    IF i <= Len(list) /\ list[i].tech \in Dynamic
    THEN tol_counter_set(ZeroCounters, list[i].pat, list[i].k)
    ELSE ZeroCounters

SlotInv ==
    /\ IInv
    /\ offs = 0
    /\ versions \in [Slots -> Ids \cup {NoId}]
    /\ tol_const = [i \in Slots |-> ConstantsOf(i)]
    /\ OwnVersions

\* Steps that leave the registrations alone.
LEMMA SlotsKept ==
    ASSUME SlotInv, IInv', UNCHANGED <<versions, tol_const, offs>>,
           Len(list') = Len(list),
           \A i \in 1 .. Len(list) :
               /\ list'[i].id = list[i].id /\ list'[i].tech = list[i].tech
               /\ list'[i].pat = list[i].pat /\ list'[i].k = list[i].k
    PROVE  SlotInv'
  <1>1. Len(list) \in Nat
    BY DEF SlotInv, IInv, WellFormed
  <1>2. ASSUME NEW i \in Slots
        PROVE  ConstantsOf(i)' = ConstantsOf(i)
    <2>1. CASE i <= Len(list)
      <3>1. i \in 1 .. Len(list)
        BY <1>1, <2>1 DEF Slots
      <3>2. QED
        BY <2>1, <3>1 DEF ConstantsOf
    <2>2. CASE ~(i <= Len(list))
      BY <2>2 DEF ConstantsOf
    <2>3. QED
      BY <2>1, <2>2
  <1>3. tol_const' = [i \in Slots |-> ConstantsOf(i)']
    BY <1>2 DEF SlotInv
  <1>4. OwnVersions'
    BY DEF SlotInv, OwnVersions
  <1>5. QED
    BY <1>3, <1>4 DEF SlotInv

\* fts_rtems_task_register_t fills a slot that was never used.
LEMMA RegisterSlots ==
    ASSUME SlotInv, NEW id \in Ids, NEW g \in Args, Register(id, g)
    PROVE  SlotInv'
  <1> DEFINE i == Len(list) + 1
             pat == create_pattern(g.pattern, g.m, g.k)
             e == [id |-> id, m |-> g.m, k |-> g.k, tech |-> g.tech,
                   pat |-> pat, pos |-> StartPos]
  <1>1. IInv'
    BY RegisterKeeps DEF SlotInv
  <1>2. /\ Len(list) < P_TASKS /\ list' = Append(list, e) /\ offs' = offs
        /\ versions' = [versions EXCEPT ![i] = id] /\ SetCounters(i, g, pat)
    BY DEF Register, MayRegister, StoreVersions
  <1>3. list \in Seq(Entry) /\ Len(list) \in Nat /\ P_TASKS \in Nat
    BY ConstantFacts DEF SlotInv, IInv, WellFormed
  <1>4. i \in Slots
    BY <1>2, <1>3 DEF Slots
  <1>5. /\ Len(list') = i /\ list'[i] = e
        /\ \A j \in 1 .. Len(list) : list'[j] = list[j]
    BY <1>2, <1>3
  <1>6. versions' \in [Slots -> Ids \cup {NoId}]
    BY <1>2, <1>4 DEF SlotInv
  <1>7. OwnVersions'
    <2>1. SUFFICES ASSUME NEW j \in 1 .. i PROVE versions'[j] = list'[j].id
      BY <1>5 DEF OwnVersions
    <2>2. CASE j = i
      BY <1>2, <1>4, <1>5, <2>2 DEF SlotInv
    <2>3. CASE j # i
      <3>1. j \in 1 .. Len(list)
        BY <1>3, <2>3
      <3>2. versions[j] = list[j].id
        BY <3>1 DEF SlotInv, OwnVersions
      <3>3. versions'[j] = versions[j]
        BY <1>2, <2>3 DEF SlotInv
      <3>4. QED
        BY <1>5, <3>1, <3>2, <3>3
    <2>4. QED
      BY <2>2, <2>3
  <1>8. tol_const[i] = ZeroCounters
    BY <1>3, <1>4 DEF SlotInv, ConstantsOf
  <1> DEFINE c == tol_counter_set(tol_const[i], pat, g.k)
             new == IF g.tech \in Dynamic THEN c ELSE ZeroCounters
  <1>9. tol_const' = [tol_const EXCEPT ![i] = new]
    <2>1. CASE g.tech \in Dynamic
      BY <1>2, <2>1 DEF SetCounters
    <2>2. CASE g.tech \notin Dynamic
      <3>1. tol_const' = tol_const
        BY <1>2, <2>2 DEF SetCounters
      <3>2. tol_const = [tol_const EXCEPT ![i] = ZeroCounters]
        BY <1>4, <1>8 DEF SlotInv
      <3>3. QED
        BY <2>2, <3>1, <3>2
    <2>3. QED
      BY <2>1, <2>2
  <1>10. ASSUME NEW j \in Slots
         PROVE  tol_const'[j] = ConstantsOf(j)'
    <2>1. CASE j = i
      <3>1. tol_const'[j] = new
        <4> HIDE DEF new
        <4>1. QED
          BY <1>9, <2>1 DEF SlotInv
      <3>2. ConstantsOf(j)' = IF e.tech \in Dynamic
                              THEN tol_counter_set(ZeroCounters, e.pat, e.k)
                              ELSE ZeroCounters
        <4> HIDE DEF e
        <4>1. Len(list') = j /\ j \in Nat /\ list'[j] = e
          BY <1>3, <1>5, <2>1
        <4>2. QED
          BY <4>1 DEF ConstantsOf
      <3>3. e.tech = g.tech /\ e.pat = pat /\ e.k = g.k
        OBVIOUS
      <3>4. QED
        BY <1>8, <2>1, <3>1, <3>2, <3>3
    <2>2. CASE j # i
      <3>1. tol_const'[j] = tol_const[j]
        BY <1>9, <2>2 DEF SlotInv
      <3>2. tol_const[j] = ConstantsOf(j)
        BY DEF SlotInv
      <3>3. CASE j <= Len(list)
        <4>1. j \in 1 .. Len(list) /\ j <= i
          BY <1>3, <3>3 DEF Slots
        <4>2. QED
          BY <1>5, <3>1, <3>2, <3>3, <4>1 DEF ConstantsOf
      <3>4. CASE ~(j <= Len(list))
        <4>1. ~(j <= i)
          BY <1>3, <2>2, <3>4 DEF Slots
        <4>2. QED
          BY <1>5, <3>1, <3>2, <3>4, <4>1 DEF ConstantsOf
      <3>5. QED
        BY <3>3, <3>4
    <2>3. QED
      BY <2>1, <2>2
  <1>11. tol_const' = [j \in Slots |-> ConstantsOf(j)']
    <2>1. tol_const' = [j \in Slots |-> tol_const'[j]]
      BY <1>9 DEF SlotInv
    <2>2. QED
      BY <2>1, <1>10
  <1>12. QED
    BY <1>1, <1>2, <1>6, <1>7, <1>11 DEF SlotInv

\* A job moves the position in its pattern and nothing else of its entry.
LEMMA JobSlots ==
    ASSUME SlotInv, NEW id \in Ids, Job(id)
    PROVE  SlotInv'
  <1>1. IInv'
    BY JobKeeps DEF SlotInv
  <1>2. CASE UNCHANGED <<list, versions, tol_const, offs>>
    BY <1>1, <1>2, SlotsKept
  <1>3. CASE id \in Registered /\ StaticVersion(id, IndexOf(id)) /\ Compensate(id)
    <2> DEFINE i == IndexOf(id)
               e == [list[i] EXCEPT !.pos = NextPos(list[i].k, list[i].pos)]
    <2>1. WellFormed(list) /\ list \in Seq(Entry)
      BY DEF SlotInv, IInv, WellFormed
    <2>2. i \in 1 .. Len(list)
      BY <1>3, <2>1, IndexFacts
    <2>3. list[i] \in Entry
      BY <2>1, <2>2
    <2>4. list' = [list EXCEPT ![i] = e]
      BY <1>3 DEF StaticVersion
    <2>5. /\ e.id = list[i].id /\ e.tech = list[i].tech
          /\ e.pat = list[i].pat /\ e.k = list[i].k
      BY <2>3 DEF Entry
    <2> HIDE DEF e
    <2>6. Len(list') = Len(list)
      BY <2>1, <2>2, <2>4
    <2>7. ASSUME NEW j \in 1 .. Len(list)
          PROVE  /\ list'[j].id = list[j].id /\ list'[j].tech = list[j].tech
                 /\ list'[j].pat = list[j].pat /\ list'[j].k = list[j].k
      BY <2>1, <2>2, <2>4, <2>5
    <2>8. UNCHANGED <<versions, tol_const, offs>>
      BY <1>3 DEF Compensate, slotvars
    <2>9. QED
      BY <1>1, <2>6, <2>7, <2>8, SlotsKept
  <1>4. CASE BeginPeriod(id)
    BY <1>2, <1>4 DEF BeginPeriod, slotvars
  <1>5. CASE Compensate(id)
    BY <1>2, <1>3, <1>5 DEF Compensate, NoVersion, DynamicVersion, slotvars
  <1>6. CASE EndCorrect(id)
    BY <1>2, <1>6 DEF EndCorrect, slotvars
  <1>7. CASE FaultUndetected(id)
    BY <1>2, <1>7 DEF FaultUndetected, slotvars
  <1>8. CASE FaultDetected(id)
    BY <1>2, <1>8 DEF FaultDetected, slotvars
  <1>9. QED
    BY <1>4, <1>5, <1>6, <1>7, <1>8 DEF Job

\* No slot is in use at the start.
LEMMA InitSlots == Init => SlotInv
  <1>1. SUFFICES ASSUME Init PROVE SlotInv
    OBVIOUS
  <1>2. IInv
    BY <1>1, InitInv
  <1>3. list = << >> /\ offs = 0
    BY <1>1 DEF Init
  <1>4. versions \in [Slots -> Ids \cup {NoId}]
    BY <1>1 DEF Init
  <1>5. \A i \in Slots : ConstantsOf(i) = ZeroCounters
    BY <1>3 DEF ConstantsOf, Slots
  <1>6. tol_const = [i \in Slots |-> ConstantsOf(i)]
    BY <1>1, <1>5 DEF Init
  <1>7. OwnVersions
    BY <1>3 DEF OwnVersions
  <1>8. QED
    BY <1>2, <1>3, <1>4, <1>6, <1>7 DEF SlotInv

\* Every step, while nothing is signed off and no technique changes.
LEMMA NextSlots == SlotInv /\ [Next]_vars => SlotInv'
  <1>1. SUFFICES ASSUME SlotInv, [Next]_vars PROVE SlotInv'
    OBVIOUS
  <1>2. CASE UNCHANGED vars
    <2>1. IInv'
      BY <1>1, <1>2, UnchangedInv DEF SlotInv
    <2>2. QED
      BY <1>1, <1>2, <2>1, SlotsKept DEF vars, slotvars
  <1>3. ASSUME NEW id \in Ids, Job(id)
        PROVE  SlotInv'
    BY <1>1, <1>3, JobSlots
  <1>4. ASSUME NEW id \in Ids, NEW g \in Args, Register(id, g)
        PROVE  SlotInv'
    BY <1>1, <1>4, RegisterSlots
  <1>5. QED
    BY <1>1, <1>2, <1>3, <1>4 DEF Next

\* While no period is signed off, every registered period is released with the
\* version functions of its own registration.
THEOREM OwnVersionsWithoutSignOff == Spec => []OwnVersions
  <1>1. SlotInv => OwnVersions
    BY DEF SlotInv
  <1>2. SlotInv /\ [Next]_vars => SlotInv'
    BY NextSlots
  <1>3. QED
    BY <1>1, <1>2, InitSlots, PTL DEF Spec

\* While no period is signed off and none changes its technique, the counters
\* tol_counter_set accumulates in a slot are those of the pattern registered
\* there, for every pattern and every list length.
THEOREM CountersWithoutSignOff == Spec => []CountersFromPattern
  <1>1. SlotInv => CountersFromPattern
    <2>1. SUFFICES ASSUME SlotInv, NEW i \in 1 .. Len(list), list[i].tech \in Dynamic
                   PROVE  tol_const[i] = tol_counter_set(ZeroCounters, list[i].pat, list[i].k)
      BY DEF CountersFromPattern
    <2>2. i \in Slots /\ i <= Len(list)
      BY <2>1, ConstantFacts DEF SlotInv, IInv, WellFormed, Slots
    <2>3. QED
      BY <2>1, <2>2 DEF SlotInv, ConstantsOf
  <1>2. SlotInv /\ [Next]_vars => SlotInv'
    BY NextSlots
  <1>3. QED
    BY <1>1, <1>2, InitSlots, PTL DEF Spec
=============================================================================
