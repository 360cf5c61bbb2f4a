------------------------- MODULE DynamicCompProofs --------------------------
(***************************************************************************)
(* Dynamic compensation keeps the (m,k) promise, for every constraint,     *)
(* every pattern and both techniques.                                      *)
(***************************************************************************)
EXTENDS DynamicComp, TLAPS

T == K - M

\* How far the current cycle of the pattern is: the tolerances used, and the
\* jobs ended, as if every "0" that was not needed had never been waited for.
ZerosUsed == ZB[pi] + (O[pi] - o[pi])

InFlight == IF phase \in {"detection", "correction"} THEN 1 ELSE 0

JobsDone == JB[pi] + (O[pi] - o[pi]) + (A[pi] - a[pi]) - InFlight

\* When zu tolerances are used and jd jobs ended in the current cycle, the
\* distance in the pattern to the "0" that the n-th last fault used up; it lies
\* in the previous cycle when n exceeds zu.
Distance(zu, jd, n) ==
    IF n <= zu THEN jd - Z[zu - n] ELSE jd + K - Z[zu - n + T]

\* The n-th last incorrect job is at least as old as the distance says.
AgeInv ==
    \A n \in 1 .. T : since[n] = K \/ since[n] >= Distance(ZerosUsed, JobsDone, n)

\* Between the period() call and the release some reliable job is left.
BegunInv == phase = "begun" => a[pi] > 0

IInv ==
    /\ TypeOK
    /\ CountersInRange
    /\ PartitionsInOrder
    /\ ModeIsStable
    /\ BegunInv
    /\ AgeInv

-----------------------------------------------------------------------------
\* The constants as the provers use them: the scalars, and each counter of a
\* partition as the step of the two running totals.
LEMMA ConstFacts ==
    /\ K \in Nat /\ K > 0 /\ M \in Nat /\ M <= K /\ NP \in Nat
    /\ U16 \in Nat /\ K < U16 /\ T \in Nat /\ T <= K /\ T = K - M
  BY PatternAssumption DEF T

\* What the definition of a pattern says of one of its partitions.
LEMMA PartFacts ==
    ASSUME NEW p \in Parts
    PROVE  /\ O[p] \in Nat /\ A[p] \in Nat /\ A[p] > 0 /\ A[p] <= K
           /\ ZB[p] \in Nat /\ ZB[p] + O[p] <= T /\ ZB[p + 1] = ZB[p] + O[p]
           /\ JB[p] \in Nat /\ JB[p + 1] = JB[p] + O[p] + A[p]
  <1>1. p \in 0 .. NP + 1 /\ p + 1 \in 0 .. NP + 1
    BY ConstFacts DEF Parts
  <1>2. O[p] \in 0 .. K /\ A[p] \in 1 .. K
    BY PatternAssumption
  <1>3. ZB[p] \in 0 .. T /\ ZB[p + 1] \in 0 .. T /\ JB[p] \in 0 .. K
    BY <1>1, PatternAssumption DEF T
  <1>4. ZB[p + 1] = ZB[p] + O[p] /\ JB[p + 1] = JB[p] + O[p] + A[p]
    BY PatternAssumption
  <1>5. QED
    BY ConstFacts, <1>2, <1>3, <1>4

\* The "0"s of a partition are its first bits.
LEMMA ZeroFacts ==
    /\ \A z \in 0 .. T - 1 : Z[z] \in Nat
    /\ \A p \in Parts : \A n \in 0 .. O[p] - 1 : Z[ZB[p] + n] = JB[p] + n
  <1>1. \A z \in 0 .. T - 1 : Z[z] \in 0 .. K - 1
    BY PatternAssumption DEF T
  <1>2. \A p \in Parts : \A n \in 0 .. O[p] - 1 : Z[ZB[p] + n] = JB[p] + n
    BY PatternAssumption
  <1>3. QED
    BY <1>1, <1>2, ConstFacts

\* How the distance changes with the progress through the pattern.
LEMMA DistanceGrows ==
    ASSUME NEW zu \in 0 .. T, NEW jd \in Int, NEW d \in Int, NEW n \in 1 .. T
    PROVE  /\ Distance(zu, jd, n) \in Int
           /\ Distance(zu, jd + d, n) = Distance(zu, jd, n) + d
  <1>1. CASE n <= zu
    <2>1. zu - n \in 0 .. T - 1
      BY <1>1, ConstFacts
    <2>2. Z[zu - n] \in Nat
      BY <2>1, ZeroFacts
    <2>3. QED
      BY <1>1, <2>2 DEF Distance
  <1>2. CASE ~(n <= zu)
    <2>1. zu - n + T \in 0 .. T - 1
      BY <1>2, ConstFacts
    <2>2. Z[zu - n + T] \in Nat
      BY <2>1, ZeroFacts
    <2>3. QED
      BY <1>2, <2>2, ConstFacts DEF Distance
  <1>3. QED
    BY <1>1, <1>2

\* A tolerated fault moves the progress on to the next "0" of the pattern.
LEMMA DistanceAfterFault ==
    ASSUME NEW zu \in 0 .. T, zu < T, NEW jd \in Int, NEW n \in 1 .. T, n # 1
    PROVE  Distance(zu + 1, jd + 1, n) = Distance(zu, jd, n - 1) + 1
  <1>1. CASE n - 1 <= zu
    <2>1. n <= zu + 1 /\ (zu + 1) - n = zu - (n - 1) /\ zu - (n - 1) \in 0 .. T - 1
      BY <1>1, ConstFacts
    <2>2. Z[zu - (n - 1)] \in Nat
      BY <2>1, ZeroFacts
    <2>3. Distance(zu + 1, jd + 1, n) = (jd + 1) - Z[zu - (n - 1)]
      <3>1. Distance(zu + 1, jd + 1, n) = (jd + 1) - Z[(zu + 1) - n]
        BY <2>1, Zenon DEF Distance
      <3>2. QED
        BY <2>1, <3>1, Zenon
    <2>4. Distance(zu, jd, n - 1) = jd - Z[zu - (n - 1)]
      BY <1>1 DEF Distance
    <2>5. QED
      BY <2>2, <2>3, <2>4
  <1>2. CASE ~(n - 1 <= zu)
    <2>1. /\ ~(n <= zu + 1) /\ (zu + 1) - n + T = zu - (n - 1) + T
          /\ zu - (n - 1) + T \in 0 .. T - 1
      BY <1>2, ConstFacts
    <2>2. Z[zu - (n - 1) + T] \in Nat
      BY <2>1, ZeroFacts
    <2>3. Distance(zu + 1, jd + 1, n) = (jd + 1) + K - Z[zu - (n - 1) + T]
      BY <2>1 DEF Distance
    <2>4. Distance(zu, jd, n - 1) = jd + K - Z[zu - (n - 1) + T]
      BY <1>2 DEF Distance
    <2>5. QED
      BY <2>2, <2>3, <2>4, ConstFacts
  <1>3. QED
    BY <1>1, <1>2

\* A fault at a "0": the distance to it is one afterwards, and the distance to
\* the same "0" one cycle earlier is K.
LEMMA DistanceAtZero ==
    ASSUME NEW zu \in 0 .. T, zu < T
    PROVE  /\ Z[zu] \in Nat /\ T \in 1 .. T
           /\ Distance(zu + 1, Z[zu] + 1, 1) = 1
           /\ Distance(zu, Z[zu], T) = K
  <1>1. Z[zu] \in Nat
    BY ZeroFacts, ConstFacts
  <1>2. 1 <= zu + 1 /\ (zu + 1) - 1 = zu /\ ~(T <= zu) /\ zu - T + T = zu /\ T \in 1 .. T
    BY ConstFacts
  <1>3. Distance(zu + 1, Z[zu] + 1, 1) = (Z[zu] + 1) - Z[zu]
    <2>1. Distance(zu + 1, Z[zu] + 1, 1) = (Z[zu] + 1) - Z[(zu + 1) - 1]
      BY <1>2, Zenon DEF Distance
    <2>2. QED
      BY <1>2, <2>1, Zenon
  <1>4. Distance(zu, Z[zu], T) = Z[zu] + K - Z[zu]
    BY <1>2 DEF Distance
  <1>5. QED
    BY <1>1, <1>2, <1>3, <1>4, ConstFacts

\* The end of one cycle is the beginning of the next.
LEMMA DistanceWraps ==
    ASSUME NEW n \in 1 .. T
    PROVE  Distance(T, K, n) = Distance(0, 0, n)
  <1>1. n <= T /\ ~(n <= 0) /\ 0 - n + T = T - n /\ T - n \in 0 .. T - 1
    BY ConstFacts
  <1>2. Z[T - n] \in Nat
    BY <1>1, ZeroFacts
  <1>3. Distance(T, K, n) = K - Z[T - n]
    BY <1>1 DEF Distance
  <1>4. Distance(0, 0, n) = 0 + K - Z[T - n]
    BY <1>1 DEF Distance
  <1>5. QED
    BY <1>2, <1>3, <1>4, ConstFacts

\* At registration no job was run and every counter is full.
LEMMA InitIInv == Init => IInv
  <1> SUFFICES ASSUME Init PROVE IInv
    OBVIOUS
  <1> USE DEF Init, MK!Init, MK!Tolerance
  <1>1. 0 \in Parts
    BY ConstFacts DEF Parts
  <1>2. TypeOK
    <2>1. o \in [Parts -> Nat] /\ a \in [Parts -> 0 .. U16 - 1]
      <3>1. O \in [Parts -> 0 .. K] /\ A \in [Parts -> 1 .. K]
        BY PatternAssumption
      <3>2. \A n \in 0 .. K : n \in Nat /\ n \in 0 .. U16 - 1
        BY ConstFacts
      <3>3. QED
        BY <3>1, <3>2
    <2>2. MK!TypeOK
      BY ConstFacts DEF MK!TypeOK, MK!Ages
    <2>3. QED
      BY <1>1, <2>1, <2>2 DEF TypeOK, Phases
  <1>3. CountersInRange
    BY PartFacts DEF CountersInRange
  <1>4. PartitionsInOrder
    BY PartFacts, ConstFacts DEF PartitionsInOrder, Parts
  <1>5. ModeIsStable /\ BegunInv
    BY DEF ModeIsStable, BegunInv
  <1>6. AgeInv
    BY DEF AgeInv, T
  <1>7. QED
    BY <1>2, <1>3, <1>4, <1>5, <1>6 DEF IInv

-----------------------------------------------------------------------------
\* What IInv says of the current partition.
LEMMA CurrentFacts ==
    ASSUME IInv
    PROVE  /\ pi \in Parts /\ pi \in Nat
           /\ o[pi] \in Nat /\ o[pi] <= O[pi] /\ a[pi] \in Nat /\ a[pi] <= A[pi]
           /\ ZerosUsed \in 0 .. T /\ JobsDone \in Int /\ InFlight \in {0, 1}
           /\ \A n \in 1 .. T : since[n] \in 0 .. K
  <1>1. pi \in Parts /\ pi \in Nat
    BY ConstFacts DEF IInv, TypeOK, Parts
  <1>2. o[pi] \in Nat /\ o[pi] <= O[pi] /\ a[pi] \in 0 .. U16 - 1 /\ a[pi] <= A[pi]
    BY <1>1 DEF IInv, TypeOK, CountersInRange
  <1>3. InFlight \in {0, 1}
    BY DEF InFlight
  <1>4. ZerosUsed \in 0 .. T /\ JobsDone \in Int
    BY <1>1, <1>2, <1>3, PartFacts, ConstFacts DEF ZerosUsed, JobsDone
  <1>5. \A n \in 1 .. T : since[n] \in 0 .. K
    BY DEF IInv, TypeOK, MK!TypeOK, MK!Tolerance, MK!Ages, T
  <1>6. QED
    BY <1>1, <1>2, <1>3, <1>4, <1>5, ConstFacts

\* A step that leaves the ages and the progress through the pattern alone
\* keeps the ages old enough.
LEMMA SameProgress ==
    ASSUME AgeInv, UNCHANGED since,
           ZerosUsed' = ZerosUsed, JobsDone' = JobsDone
    PROVE  AgeInv'
  BY DEF AgeInv

\* The head of the period, with the replenishment, keeps the invariant.
LEMMA BeginPeriodKeepsIInv ==
    ASSUME IInv, BeginPeriod
    PROVE  IInv'
  <1> USE DEF BeginPeriod
  <1>1. CASE a[pi] = 0 /\ pi = NP /\ o' = O /\ a' = A /\ pi' = 0
    <2>1. 0 \in Parts /\ NP \in Parts
      BY ConstFacts DEF Parts
    <2>2. TypeOK'
      <3>1. O \in [Parts -> 0 .. K] /\ A \in [Parts -> 1 .. K]
        BY PatternAssumption
      <3>2. \A n \in 0 .. K : n \in Nat /\ n \in 0 .. U16 - 1
        BY ConstFacts
      <3>3. o' \in [Parts -> Nat] /\ a' \in [Parts -> 0 .. U16 - 1]
        BY <1>1, <3>1, <3>2
      <3>4. QED
        BY <1>1, <2>1, <3>3 DEF IInv, TypeOK, Phases, MK!TypeOK
    <2>3. CountersInRange' /\ PartitionsInOrder' /\ ModeIsStable' /\ BegunInv'
      BY <1>1, <2>1, PartFacts, ConstFacts
      DEF CountersInRange, PartitionsInOrder, ModeIsStable, BegunInv, Parts
    <2>4. ZerosUsed = T /\ JobsDone = K
      <3>1. o[pi] = 0
        BY <1>1, <2>1, PartFacts DEF IInv, PartitionsInOrder
      <3>2. InFlight = 0
        BY DEF InFlight
      <3>3. ZB[NP + 1] = T /\ JB[NP + 1] = K
        BY PatternAssumption DEF T
      <3>4. QED
        BY <1>1, <2>1, <3>1, <3>2, <3>3, PartFacts, ConstFacts
        DEF ZerosUsed, JobsDone
    <2>5. ZerosUsed' = 0 /\ JobsDone' = 0
      <3>1. ZB[0] = 0 /\ JB[0] = 0
        BY PatternAssumption
      <3>2. InFlight' = 0
        BY DEF InFlight
      <3>3. QED
        BY <1>1, <2>1, <3>1, <3>2, PartFacts DEF ZerosUsed, JobsDone
    <2>6. AgeInv'
      BY <2>4, <2>5, DistanceWraps DEF IInv, AgeInv
    <2>7. QED
      BY <2>2, <2>3, <2>6 DEF IInv
  <1>2. CASE a[pi] = 0 /\ pi # NP /\ pi' = pi + 1 /\ UNCHANGED <<o, a>>
    <2>1. pi \in Parts /\ pi + 1 \in Parts /\ pi \in Nat
      BY <1>2, ConstFacts DEF IInv, TypeOK, Parts
    <2>2. o[pi] = 0
      BY <1>2, <2>1, PartFacts DEF IInv, PartitionsInOrder
    <2>3. o[pi + 1] = O[pi + 1] /\ a[pi + 1] = A[pi + 1]
      BY <2>1 DEF IInv, PartitionsInOrder
    <2>4. TypeOK' /\ CountersInRange'
      BY <1>2, <2>1 DEF IInv, TypeOK, Phases, MK!TypeOK, CountersInRange
    <2>5. PartitionsInOrder'
      BY <1>2, <2>1, <2>2, ConstFacts DEF IInv, PartitionsInOrder, Parts
    <2>6. ModeIsStable' /\ BegunInv'
      BY <1>2, <2>1, <2>3, PartFacts DEF ModeIsStable, BegunInv
    <2>7. InFlight = 0 /\ InFlight' = 0
      BY DEF InFlight
    <2>8. ZerosUsed' = ZerosUsed /\ JobsDone' = JobsDone
      BY <1>2, <2>1, <2>2, <2>3, <2>7, PartFacts DEF ZerosUsed, JobsDone
    <2>9. AgeInv'
      BY <2>8, SameProgress DEF IInv
    <2>10. QED
      BY <2>4, <2>5, <2>6, <2>9 DEF IInv
  <1>3. CASE a[pi] # 0 /\ UNCHANGED <<o, a, pi>>
    <2>1. TypeOK' /\ CountersInRange' /\ PartitionsInOrder'
      BY <1>3 DEF IInv, TypeOK, Phases, MK!TypeOK, CountersInRange, PartitionsInOrder
    <2>2. ModeIsStable' /\ BegunInv'
      BY <1>3, CurrentFacts DEF ModeIsStable, BegunInv
    <2>3. InFlight = 0 /\ InFlight' = 0
      BY DEF InFlight
    <2>4. ZerosUsed' = ZerosUsed /\ JobsDone' = JobsDone
      BY <1>3, <2>3 DEF ZerosUsed, JobsDone
    <2>5. AgeInv'
      BY <2>4, SameProgress DEF IInv
    <2>6. QED
      BY <2>1, <2>2, <2>5 DEF IInv
  <1>4. QED
    BY <1>1, <1>2, <1>3 DEF Replenish

\* fts_compensate_t, which only reads the counters, keeps the invariant.
LEMMA ReleaseKeepsIInv ==
    ASSUME IInv, ReleaseTolerant \/ ReleaseSafe
    PROVE  IInv'
  <1>1. CASE ReleaseTolerant
    <2> USE <1>1 DEF ReleaseTolerant
    <2>1. TypeOK' /\ CountersInRange' /\ PartitionsInOrder' /\ ModeIsStable' /\ BegunInv'
      BY DEF IInv, TypeOK, Phases, MK!TypeOK, CountersInRange, PartitionsInOrder,
             ModeIsStable, BegunInv
    <2>2. InFlight = 0 /\ InFlight' = 0
      BY DEF InFlight
    <2>3. AgeInv'
      BY <2>2, SameProgress DEF IInv, ZerosUsed, JobsDone
    <2>4. QED
      BY <2>1, <2>3 DEF IInv
  <1>2. CASE ReleaseSafe
    <2> USE <1>2 DEF ReleaseSafe
    <2>1. a[pi] \in Nat /\ a[pi] > 0 /\ a[pi] <= A[pi] /\ pi \in Parts
      BY CurrentFacts DEF IInv, BegunInv
    <2>2. a' = [a EXCEPT ![pi] = a[pi] - 1]
      <3>1. Decrement(a[pi]) = a[pi] - 1
        BY <2>1 DEF Decrement
      <3>2. QED
        BY <3>1
    <2>3. a[pi] - 1 \in 0 .. U16 - 1 /\ a[pi] - 1 \in Nat
      BY <2>1, CurrentFacts, PartFacts, ConstFacts
    <2>4. TypeOK'
      BY <2>2, <2>3 DEF IInv, TypeOK, Phases, MK!TypeOK
    <2>5. a \in [Parts -> 0 .. U16 - 1]
      BY DEF IInv, TypeOK
    <2>6. \A p \in Parts : a'[p] = IF p = pi THEN a[pi] - 1 ELSE a[p]
      BY <2>2, <2>5
    <2>7. CountersInRange'
      BY <2>1, <2>6, PartFacts DEF IInv, CountersInRange
    <2>8. PartitionsInOrder'
      BY <2>1, <2>6, ConstFacts DEF IInv, PartitionsInOrder, Parts
    <2>9. ModeIsStable' /\ BegunInv'
      BY DEF ModeIsStable, BegunInv
    <2>10. InFlight = 0 /\ InFlight' = 1
      BY DEF InFlight
    <2>11. ZerosUsed' = ZerosUsed
      BY DEF ZerosUsed
    <2>12. JobsDone' = JobsDone
      BY <2>1, <2>6, <2>10, CurrentFacts, PartFacts DEF JobsDone
    <2>13. AgeInv'
      BY <2>11, <2>12, SameProgress DEF IInv
    <2>14. QED
      BY <2>4, <2>7, <2>8, <2>9, <2>13 DEF IInv
  <1>3. QED
    BY <1>1, <1>2

\* A job that ends without a fault keeps the invariant.
LEMMA EndCorrectKeepsIInv ==
    ASSUME IInv, EndCorrect
    PROVE  IInv'
  <1> USE DEF EndCorrect, MK!JobOK, MK!Older, MK!Tolerance
  <1>1. \A n \in 1 .. T : since'[n] = IF since[n] < K THEN since[n] + 1 ELSE K
    BY DEF T
  <1>2. MK!TypeOK'
    <2>1. \A n \in 1 .. T : since'[n] \in 0 .. K
      BY <1>1, CurrentFacts, ConstFacts
    <2>2. QED
      BY <2>1 DEF MK!TypeOK, MK!Ages, T
  <1>3. TypeOK' /\ CountersInRange' /\ PartitionsInOrder' /\ ModeIsStable' /\ BegunInv'
    BY <1>2 DEF IInv, TypeOK, Phases, CountersInRange, PartitionsInOrder,
                ModeIsStable, BegunInv
  <1>4. InFlight' = 0 /\ ZerosUsed' = ZerosUsed /\ JobsDone' = JobsDone + InFlight
    <2>1. InFlight' = 0
      BY DEF InFlight
    <2>2. ZerosUsed' = ZerosUsed
      BY DEF ZerosUsed
    <2>3. /\ o[pi] \in Nat /\ a[pi] \in Nat /\ O[pi] \in Nat /\ A[pi] \in Nat
          /\ JB[pi] \in Nat /\ InFlight \in {0, 1}
      BY CurrentFacts, PartFacts
    <2>4. JobsDone' = JobsDone + InFlight
      BY <2>1, <2>3 DEF JobsDone
    <2>5. QED
      BY <2>1, <2>2, <2>4
  <1>5. ASSUME NEW n \in 1 .. T
        PROVE  since'[n] = K \/ since'[n] >= Distance(ZerosUsed', JobsDone', n)
    <2>1. since[n] = K \/ since[n] >= Distance(ZerosUsed, JobsDone, n)
      BY DEF IInv, AgeInv
    <2>2. /\ since[n] \in 0 .. K /\ InFlight \in {0, 1}
          /\ ZerosUsed \in 0 .. T /\ JobsDone \in Int
      BY CurrentFacts
    <2>3. /\ Distance(ZerosUsed, JobsDone, n) \in Int
          /\ Distance(ZerosUsed', JobsDone', n)
                = Distance(ZerosUsed, JobsDone, n) + InFlight
      <3>1. InFlight \in Int
        BY <2>2
      <3>2. /\ Distance(ZerosUsed, JobsDone, n) \in Int
            /\ Distance(ZerosUsed, JobsDone + InFlight, n)
                  = Distance(ZerosUsed, JobsDone, n) + InFlight
        BY <2>2, <3>1, DistanceGrows
      <3>3. QED
        BY <1>4, <3>2, Zenon
    <2>4. QED
      BY <1>1, <2>1, <2>2, <2>3, ConstFacts
  <1>6. AgeInv'
    BY <1>5 DEF AgeInv
  <1>7. QED
    BY <1>3, <1>6 DEF IInv

\* Where a tolerated fault strikes: at a "0" of the pattern, and K jobs or more
\* after the T-th last incorrect job.
LEMMA ToleratedFault ==
    ASSUME IInv, phase \in {"tolerant", "detection"}, o[pi] > 0
    PROVE  /\ T > 0 /\ ZerosUsed < T
           /\ phase = "tolerant" /\ a[pi] = A[pi] /\ InFlight = 0
           /\ JobsDone = Z[ZerosUsed]
           /\ since[T] = K
  <1>1. phase = "tolerant" /\ InFlight = 0
    BY CurrentFacts DEF IInv, ModeIsStable, InFlight
  <1>2. a[pi] = A[pi]
    BY CurrentFacts, PartFacts DEF IInv, PartitionsInOrder
  <1>3. ZerosUsed < T /\ T > 0
    BY CurrentFacts, PartFacts, ConstFacts DEF ZerosUsed
  <1>4. JobsDone = Z[ZerosUsed]
    <2>1. O[pi] - o[pi] \in 0 .. O[pi] - 1
      BY CurrentFacts, PartFacts
    <2>2. Z[ZerosUsed] = JB[pi] + (O[pi] - o[pi])
      BY <2>1, CurrentFacts, ZeroFacts DEF ZerosUsed
    <2>3. QED
      BY <1>1, <1>2, <2>2, CurrentFacts, PartFacts DEF JobsDone
  <1>5. since[T] = K
    <2>1. T \in 1 .. T /\ Distance(ZerosUsed, JobsDone, T) = K
      BY <1>3, <1>4, CurrentFacts, DistanceAtZero
    <2>2. QED
      BY <2>1, CurrentFacts, ConstFacts DEF IInv, AgeInv
  <1>6. QED
    BY <1>1, <1>2, <1>3, <1>4, <1>5

\* fault_detection_routine, which uses up a counter, keeps the invariant.
LEMMA ReportFaultKeepsIInv ==
    ASSUME IInv, ReportFault
    PROVE  IInv'
  <1> USE DEF ReportFault
  <1>1. CASE o[pi] > 0
    <2>1. /\ o' = [o EXCEPT ![pi] = o[pi] - 1] /\ phase' = "ended"
          /\ UNCHANGED <<a, pi>>
      <3>1. o[pi] # 0 /\ Decrement(o[pi]) = o[pi] - 1
        BY <1>1, CurrentFacts DEF Decrement
      <3>2. QED
        BY <1>1, <3>1, CurrentFacts
    <2>2. \A n \in 1 .. T : since'[n] = IF n = 1 THEN 1 ELSE MK!Older(since[n - 1])
      <3>1. since' = [n \in 1 .. K - M |->
                        IF n = 1 THEN 1 ELSE MK!Older(since[n - 1])]
        BY <1>1, CurrentFacts
      <3>2. QED
        BY <3>1 DEF T
    <2>3. /\ T > 0 /\ ZerosUsed < T /\ a[pi] = A[pi] /\ InFlight = 0
          /\ JobsDone = Z[ZerosUsed]
      BY <1>1, ToleratedFault
    <2>4. o \in [Parts -> Nat] /\ pi \in Parts
      BY DEF IInv, TypeOK
    <2>5. \A p \in Parts : o'[p] = IF p = pi THEN o[pi] - 1 ELSE o[p]
      BY <2>1, <2>4
    <2>6. TypeOK'
      <3>1. o' \in [Parts -> Nat]
        BY <1>1, <2>1, <2>4, CurrentFacts
      <3>2. \A n \in 1 .. T : since'[n] \in 0 .. K
        <4>1. ASSUME NEW n \in 1 .. T, n # 1
              PROVE  since[n - 1] \in 0 .. K
          <5>1. n - 1 \in 1 .. T
            BY <4>1, ConstFacts
          <5>2. QED
            BY <5>1, CurrentFacts
        <4>2. QED
          BY <2>2, <4>1, ConstFacts DEF MK!Older
      <3>3. since' = [n \in 1 .. T |-> since'[n]]
        <4>1. since' = [n \in 1 .. K - M |->
                          IF n = 1 THEN 1 ELSE MK!Older(since[n - 1])]
          BY <1>1, CurrentFacts
        <4>2. QED
          BY <4>1 DEF T
      <3>4. MK!TypeOK'
        BY <3>2, <3>3 DEF MK!TypeOK, MK!Tolerance, MK!Ages, T
      <3>5. QED
        BY <2>1, <3>1, <3>4 DEF IInv, TypeOK, Phases
    <2>7. CountersInRange'
      BY <2>1, <2>5, CurrentFacts, PartFacts DEF IInv, CountersInRange
    <2>8. PartitionsInOrder'
      <3>1. PartitionsInOrder /\ pi \in Int /\ a[pi] = A[pi] /\ A[pi] \in Nat
        BY <2>3, <2>4, PartFacts DEF IInv, Parts
      <3>2. ASSUME NEW p \in Parts
            PROVE  /\ a[p] < A[p] => o'[p] = 0
                   /\ p < pi => o'[p] = 0 /\ a[p] = 0
                   /\ p > pi => o'[p] = O[p] /\ a[p] = A[p]
        <4>1. CASE p = pi
          BY <3>1, <4>1
        <4>2. CASE p # pi
          BY <2>5, <3>1, <4>2 DEF PartitionsInOrder
        <4>3. QED
          BY <4>1, <4>2
      <3>3. QED
        BY <2>1, <3>2 DEF PartitionsInOrder
    <2>9. ModeIsStable' /\ BegunInv'
      BY <2>1 DEF ModeIsStable, BegunInv
    <2>10. ZerosUsed' = ZerosUsed + 1 /\ JobsDone' = JobsDone + 1
      <3>1. /\ o[pi] \in Nat /\ a[pi] \in Nat /\ O[pi] \in Nat /\ A[pi] \in Nat
            /\ JB[pi] \in Nat /\ ZB[pi] \in Nat /\ o'[pi] = o[pi] - 1
        BY <2>4, <2>5, CurrentFacts, PartFacts
      <3>2. InFlight' = 0
        BY <2>1 DEF InFlight
      <3>3. ZerosUsed' = ZerosUsed + 1
        BY <2>1, <3>1 DEF ZerosUsed
      <3>4. JobsDone' = JobsDone + 1
        BY <2>1, <2>3, <3>1, <3>2 DEF JobsDone
      <3>5. QED
        BY <3>3, <3>4
    <2>11. ASSUME NEW n \in 1 .. T
           PROVE  since'[n] = K \/ since'[n] >= Distance(ZerosUsed', JobsDone', n)
      <3>1. ZerosUsed \in 0 .. T /\ JobsDone \in Int
        BY CurrentFacts
      <3>2. CASE n = 1
        <4>1. Distance(ZerosUsed', JobsDone', 1) = 1
          BY <2>3, <2>10, <3>1, DistanceAtZero
        <4>2. QED
          BY <2>2, <3>2, <4>1
      <3>3. CASE n # 1
        <4>1. n - 1 \in 1 .. T
          BY <3>3, ConstFacts
        <4>2. /\ since[n - 1] \in 0 .. K
              /\ since[n - 1] = K \/ since[n - 1] >= Distance(ZerosUsed, JobsDone, n - 1)
          BY <4>1, CurrentFacts DEF IInv, AgeInv
        <4>3. Distance(ZerosUsed', JobsDone', n) = Distance(ZerosUsed, JobsDone, n - 1) + 1
          BY <2>3, <2>10, <3>1, <3>3, DistanceAfterFault
        <4>4. Distance(ZerosUsed, JobsDone, n - 1) \in Int
          BY <3>1, <4>1, DistanceGrows
        <4>5. since'[n] = IF since[n - 1] < K THEN since[n - 1] + 1 ELSE K
          BY <2>2, <3>3 DEF MK!Older
        <4>6. QED
          BY <4>2, <4>3, <4>4, <4>5, ConstFacts
      <3>4. QED
        BY <3>2, <3>3
    <2>12. AgeInv'
      BY <2>11 DEF AgeInv
    <2>13. QED
      BY <2>6, <2>7, <2>8, <2>9, <2>12 DEF IInv
  <1>2. CASE ~(o[pi] > 0)
    <2>1. o[pi] = 0
      BY <1>2, CurrentFacts
    <2>2. phase = "detection" /\ phase' = "correction" /\ UNCHANGED <<o, a, pi, since>>
      BY <1>2, <2>1 DEF IInv, ModeIsStable
    <2>3. TypeOK' /\ CountersInRange' /\ PartitionsInOrder' /\ ModeIsStable' /\ BegunInv'
      BY <2>1, <2>2 DEF IInv, TypeOK, Phases, MK!TypeOK, CountersInRange,
                        PartitionsInOrder, ModeIsStable, BegunInv
    <2>4. InFlight' = InFlight
      BY <2>2 DEF InFlight
    <2>5. AgeInv'
      BY <2>2, <2>4, SameProgress DEF IInv, ZerosUsed, JobsDone
    <2>6. QED
      BY <2>3, <2>5 DEF IInv
  <1>3. QED
    BY <1>1, <1>2

\* A step that changes nothing keeps the invariant.
LEMMA StutterKeepsIInv ==
    ASSUME IInv, UNCHANGED vars
    PROVE  IInv'
  BY DEF IInv, vars, TypeOK, MK!TypeOK, CountersInRange, PartitionsInOrder,
         ModeIsStable, BegunInv, AgeInv, ZerosUsed, JobsDone, InFlight

\* The inductive invariant of dynamic compensation.
THEOREM DynamicInductive == Spec => []IInv
  <1>1. Init => IInv
    BY InitIInv
  <1>2. IInv /\ [Next]_vars => IInv'
    BY BeginPeriodKeepsIInv, ReleaseKeepsIInv, EndCorrectKeepsIInv,
       ReportFaultKeepsIInv, StutterKeepsIInv DEF Next
  <1>3. QED
    BY <1>1, <1>2, PTL DEF Spec

\* The variables of dynamic compensation stay in their types: in particular the
\* uint16_t counters of tol_counter_temp and the index into them.
THEOREM DynamicTypeOK == Spec => []TypeOK
  <1>1. IInv => TypeOK
    BY DEF IInv
  <1>2. QED
    BY <1>1, DynamicInductive, PTL

\* dynamic_next_version_t and fault_detection_routine never decrement a counter
\* of zero, so that none wraps around, for any pattern.
THEOREM CountersNeverWrap == Spec => []CountersInRange
  <1>1. IInv => CountersInRange
    BY DEF IInv
  <1>2. QED
    BY <1>1, DynamicInductive, PTL

\* What dynamic_next_version_t decided at the release is what
\* fault_detection_routine finds at the report.
THEOREM ModeStability == Spec => []ModeIsStable
  <1>1. IInv => ModeIsStable
    BY DEF IInv
  <1>2. QED
    BY <1>1, DynamicInductive, PTL

\* The partitions are used in order, each one's tolerance before its reliable
\* jobs.
THEOREM PartitionOrder == Spec => []PartitionsInOrder
  <1>1. IInv => PartitionsInOrder
    BY DEF IInv
  <1>2. QED
    BY <1>1, DynamicInductive, PTL

\* The (m,k) guarantee of the dynamic techniques: for every constraint (M,K),
\* every pattern with K - M "0"s and whichever jobs are hit by faults, any K
\* consecutive jobs have at least M correct ones.
THEOREM DynamicKeepsMKFirm == Spec => KeepsMKFirm
  <1>1. Init => MK!Init
    BY DEF Init
  <1>2. IInv /\ [Next]_vars => [MK!Next]_since
    <2> SUFFICES ASSUME IInv, [Next]_vars PROVE [MK!Next]_since
      OBVIOUS
    <2>1. CASE BeginPeriod \/ ReleaseTolerant \/ ReleaseSafe \/ UNCHANGED vars
      BY <2>1 DEF BeginPeriod, ReleaseTolerant, ReleaseSafe, vars
    <2>2. CASE EndCorrect
      BY <2>2 DEF EndCorrect, MK!Next
    <2>3. CASE ReportFault
      <3>1. CASE o[pi] > 0
        <4>1. T > 0 /\ since[T] = K
          BY <2>3, <3>1, ToleratedFault DEF ReportFault
        <4>2. since' = [n \in 1 .. K - M |->
                          IF n = 1 THEN 1 ELSE MK!Older(since[n - 1])]
          BY <2>3, <3>1, CurrentFacts DEF ReportFault
        <4>3. QED
          BY <4>1, <4>2 DEF MK!Next, MK!JobBad, MK!Tolerance, T
      <3>2. CASE ~(o[pi] > 0)
        BY <2>3, <3>2 DEF ReportFault
      <3>3. QED
        BY <3>1, <3>2
    <2>4. QED
      BY <2>1, <2>2, <2>3 DEF Next
  <1>3. QED
    BY <1>1, <1>2, DynamicInductive, PTL DEF Spec, KeepsMKFirm, MK!Spec
=============================================================================
