------------------------ MODULE RateMonotonicProofs -------------------------
(***************************************************************************)
(* Proofs about RateMonotonic, for any number of threads, periods and      *)
(* processors, as long as a period is deleted only by its owner.           *)
(*                                                                         *)
(* The blocking protocol is correct because of where the wait flags and    *)
(* Wait.return_argument change together; WaitInv says which combinations   *)
(* with the position of the thread in rtems_rate_monotonic_period occur.   *)
(***************************************************************************)
EXTENDS RateMonotonic, TLAPS

Waits == {"intend", "set", "blocked"}

\* What holds of a thread that is, or is not, waiting for a period.
ThreadInv(t) ==
    /\ pc[t] \in Waits => cur[t] \in Periods /\ cur[t] \in open /\ owner[cur[t]] = t
    /\ pc[t] \in {"intend", "set"} => flags[t] \in {INTEND, READY_AGAIN}
    /\ pc[t] = "blocked" => flags[t] \in {BLOCKED, READY_AGAIN}
    /\ pc[t] = "set" \/ (pc[t] = "blocked" /\ flags[t] = BLOCKED) => t \in waiting
    /\ flags[t] \in {INTEND, BLOCKED} <=> return_argument[t] # NULL
    /\ return_argument[t] # NULL =>
          pc[t] \in Waits /\ return_argument[t] = cur[t]

\* The timer of a period someone waits for, and the unblocking of a thread that
\* was made ready while it was blocked.
WakeInv(t) ==
    /\ pc[t] \in Waits /\ flags[t] # READY_AGAIN =>
          cur[t] \in chain \/ isr[cur[t]] = "fired"
    /\ pc[t] = "blocked" /\ flags[t] = READY_AGAIN /\ t \in waiting =>
          isr[cur[t]] \in {"release and unblock", "unblock"}

WaitInv == \A t \in Threads : ThreadInv(t) /\ WakeInv(t)

\* A period that can expire has an owner.
OwnerInv ==
    \A p \in Periods :
        p \in open \/ p \in chain \/ isr[p] # "none" => owner[p] \in Threads

\* The timeout unblocks the owner only while the owner is blocked and knows that
\* it is ready again.
UnblockInv ==
    \A p \in Periods :
        isr[p] \in {"release and unblock", "unblock"} =>
            LET t == owner[p]
            IN  /\ pc[t] = "blocked" /\ flags[t] = READY_AGAIN
                /\ t \in waiting /\ cur[t] = p

IInv ==
    /\ TypeOK /\ ExpiredIsPostponed /\ TimerIsKept
    /\ OwnerInv /\ WaitInv /\ UnblockInv

-----------------------------------------------------------------------------
\* No period exists and no thread waits at first.
LEMMA InitIInv == Init => IInv
  BY MaxAssumption, NullAssumption
  DEF Init, IInv, TypeOK, ExpiredIsPostponed, TimerIsKept, OwnerInv, WaitInv,
      UnblockInv, ThreadInv, WakeInv, Waits, INTEND, BLOCKED, READY_AGAIN

\* A thread that the timeout is going to unblock.
LEMMA UnblockFacts ==
    ASSUME IInv, NEW q \in Periods, isr[q] \in {"release and unblock", "unblock"}
    PROVE  /\ owner[q] \in Threads /\ owner[q] \in waiting /\ q \in open
           /\ pc[owner[q]] = "blocked" /\ flags[owner[q]] = READY_AGAIN
           /\ cur[owner[q]] = q /\ return_argument[owner[q]] = NULL
  <1>1. /\ owner[q] \in Threads /\ owner[q] \in waiting /\ cur[owner[q]] = q
        /\ pc[owner[q]] = "blocked" /\ flags[owner[q]] = READY_AGAIN
    BY DEF IInv, OwnerInv, UnblockInv
  <1>2. ThreadInv(owner[q])
    BY <1>1 DEF IInv, WaitInv
  <1>3. QED
    BY <1>1, <1>2 DEF ThreadInv, Waits, READY_AGAIN, INTEND, BLOCKED

\* The arithmetic of the counters.
LEMMA CounterFacts ==
    /\ UINT32_MAX \in Nat /\ UINT32_MAX > 0
    /\ 0 \in 0 .. UINT32_MAX /\ 0 \in Int /\ -1 \in Int
    /\ \A n \in 0 .. UINT32_MAX : Decrement(n) \in 0 .. UINT32_MAX
    /\ \A n \in 0 .. UINT32_MAX : n # UINT32_MAX => n + 1 \in 0 .. UINT32_MAX /\ n + 1 > 0
    /\ \A n \in Int : Owed(n, 1) \in Int /\ Owed(n, -1) \in Int
  BY MaxAssumption DEF Decrement, Owed

\* rtems_rate_monotonic_create gives a closed period an owner; no one waits for it.
LEMMA CreateKeepsIInv ==
    ASSUME IInv, NEW t \in Threads, NEW p \in Periods, Create(t, p)
    PROVE  IInv'
  <1> USE DEF Create, control, thread, ghosts
  <1>1. TypeOK
    BY DEF IInv
  <1>2. TypeOK'
    BY <1>1 DEF TypeOK, INTEND, BLOCKED, READY_AGAIN
  <1>3. ExpiredIsPostponed'
    BY <1>1, MaxAssumption DEF IInv, TypeOK, ExpiredIsPostponed
  <1>4. TimerIsKept'
    BY <1>1 DEF IInv, TypeOK, TimerIsKept
  <1>5. OwnerInv'
    BY <1>1 DEF IInv, TypeOK, OwnerInv
  <1>6. ASSUME NEW u \in Threads
        PROVE  ThreadInv(u)' /\ WakeInv(u)'
    <2>1. ThreadInv(u) /\ WakeInv(u)
      BY DEF IInv, WaitInv
    <2>2. ThreadInv(u)'
      BY <1>1, <2>1, NullAssumption
      DEF TypeOK, ThreadInv, Waits, INTEND, BLOCKED, READY_AGAIN, Calls
    <2>3. WakeInv(u)'
      BY <1>1, <2>1 DEF TypeOK, ThreadInv, WakeInv, Waits, INTEND, BLOCKED, READY_AGAIN, Calls
    <2>4. QED
      BY <2>2, <2>3
  <1>7. UnblockInv'
    <2>1. ASSUME NEW q \in Periods, isr'[q] \in {"release and unblock", "unblock"}
          PROVE  LET v == owner'[q]
                 IN  /\ pc'[v] = "blocked" /\ flags'[v] = READY_AGAIN
                     /\ v \in waiting' /\ cur'[v] = q
      <3>1. isr[q] \in {"release and unblock", "unblock"}
        BY <2>1
      <3>2. /\ owner[q] \in Threads /\ owner[q] \in waiting /\ q \in open
            /\ cur[owner[q]] = q /\ pc[owner[q]] = "blocked"
            /\ flags[owner[q]] = READY_AGAIN
        BY <3>1, UnblockFacts
      <3>3. owner'[q] = owner[q]
        BY <1>1, <3>2 DEF TypeOK
      <3>4. QED
        BY <3>2, <3>3
    <2>2. QED
      BY <2>1 DEF UnblockInv
  <1>8. QED
    BY <1>2, <1>3, <1>4, <1>5, <1>6, <1>7 DEF IInv, WaitInv

\* The first job: the period becomes active together with its timer.
LEMMA ActivateKeepsIInv ==
    ASSUME IInv, NEW t \in Threads, NEW p \in Periods, Activate(t, p)
    PROVE  IInv'
  <1> USE DEF Activate, BeginPeriod, Restart, control, thread, ghosts
  <1>1. TypeOK
    BY DEF IInv
  <1>2. TypeOK'
    <2>1. postponed_jobs[p] \in 0 .. UINT32_MAX /\ owed[p] \in Int
      BY <1>1 DEF TypeOK
    <2>2. postponed_jobs' \in [Periods -> 0 .. UINT32_MAX]
      BY <1>1, <2>1, CounterFacts DEF TypeOK
    <2>3. owed' \in [Periods -> Int]
      BY <1>1, <2>1, CounterFacts DEF TypeOK
    <2>4. QED
      BY <1>1, <2>2, <2>3 DEF TypeOK, INTEND, BLOCKED, READY_AGAIN
  <1>3. ExpiredIsPostponed'
    BY <1>1, MaxAssumption DEF IInv, TypeOK, ExpiredIsPostponed
  <1>4. TimerIsKept'
    BY <1>1 DEF IInv, TypeOK, TimerIsKept
  <1>5. OwnerInv'
    BY <1>1 DEF IInv, TypeOK, OwnerInv
  <1>6. ASSUME NEW u \in Threads
        PROVE  ThreadInv(u)' /\ WakeInv(u)'
    <2>1. ThreadInv(u) /\ WakeInv(u)
      BY DEF IInv, WaitInv
    <2>2. ThreadInv(u)'
      BY <1>1, <2>1, NullAssumption
      DEF TypeOK, ThreadInv, Waits, INTEND, BLOCKED, READY_AGAIN, Calls
    <2>3. WakeInv(u)'
      BY <1>1, <2>1 DEF TypeOK, ThreadInv, WakeInv, Waits, INTEND, BLOCKED, READY_AGAIN, Calls
    <2>4. QED
      BY <2>2, <2>3
  <1>7. UnblockInv'
    <2>1. ASSUME NEW q \in Periods, isr'[q] \in {"release and unblock", "unblock"}
          PROVE  LET v == owner'[q]
                 IN  /\ pc'[v] = "blocked" /\ flags'[v] = READY_AGAIN
                     /\ v \in waiting' /\ cur'[v] = q
      BY <1>1, <2>1, UnblockFacts DEF TypeOK, INTEND, BLOCKED, READY_AGAIN, Calls
    <2>2. QED
      BY <2>1 DEF UnblockInv
  <1>8. QED
    BY <1>2, <1>3, <1>4, <1>5, <1>6, <1>7 DEF IInv, WaitInv

\* The owner announces that it is going to block, while the timer is set.
LEMMA BlockWhileActiveKeepsIInv ==
    ASSUME IInv, NEW t \in Threads, NEW p \in Periods, BlockWhileActive(t, p)
    PROVE  IInv'
  <1> USE DEF BlockWhileActive, BeginPeriod, control, thread, ghosts
  <1>1. TypeOK
    BY DEF IInv
  <1>2. TypeOK'
    BY <1>1 DEF TypeOK, INTEND, BLOCKED, READY_AGAIN
  <1>3. ExpiredIsPostponed'
    BY <1>1, MaxAssumption DEF IInv, TypeOK, ExpiredIsPostponed
  <1>4. TimerIsKept'
    BY <1>1 DEF IInv, TypeOK, TimerIsKept
  <1>5. OwnerInv'
    BY <1>1 DEF IInv, TypeOK, OwnerInv
  <1>6. ASSUME NEW u \in Threads
        PROVE  ThreadInv(u)' /\ WakeInv(u)'
    <2>1. ThreadInv(u) /\ WakeInv(u)
      BY DEF IInv, WaitInv
    <2>2. ThreadInv(u)'
      BY <1>1, <2>1, NullAssumption
      DEF TypeOK, ThreadInv, Waits, INTEND, BLOCKED, READY_AGAIN, Calls
    <2>3. WakeInv(u)'
      <3>1. p \in chain \/ isr[p] = "fired"
        BY DEF IInv, TimerIsKept
      <3>2. CASE u = t
        BY <1>1, <3>1, <3>2 DEF TypeOK, WakeInv, INTEND, READY_AGAIN
      <3>3. CASE u # t
        BY <1>1, <2>1, <3>3 DEF TypeOK, WakeInv
      <3>4. QED
        BY <3>2, <3>3
    <2>4. QED
      BY <2>2, <2>3
  <1>7. UnblockInv'
    <2>1. ASSUME NEW q \in Periods, isr'[q] \in {"release and unblock", "unblock"}
          PROVE  LET v == owner'[q]
                 IN  /\ pc'[v] = "blocked" /\ flags'[v] = READY_AGAIN
                     /\ v \in waiting' /\ cur'[v] = q
      BY <1>1, <2>1, UnblockFacts DEF TypeOK, INTEND, BLOCKED, READY_AGAIN, Calls
    <2>2. QED
      BY <2>1 DEF UnblockInv
  <1>8. QED
    BY <1>2, <1>3, <1>4, <1>5, <1>6, <1>7 DEF IInv, WaitInv

\* A postponed job is released at once.
LEMMA BlockWhileExpiredKeepsIInv ==
    ASSUME IInv, NEW t \in Threads, NEW p \in Periods, BlockWhileExpired(t, p)
    PROVE  IInv'
  <1> USE DEF BlockWhileExpired, BeginPeriod, control, thread, ghosts
  <1>1. TypeOK
    BY DEF IInv
  <1>2. TypeOK'
    <2>1. postponed_jobs[p] \in 0 .. UINT32_MAX /\ owed[p] \in Int
      BY <1>1 DEF TypeOK
    <2>2. postponed_jobs' \in [Periods -> 0 .. UINT32_MAX]
      BY <1>1, <2>1, CounterFacts DEF TypeOK
    <2>3. owed' \in [Periods -> Int]
      BY <1>1, <2>1, CounterFacts DEF TypeOK
    <2>4. QED
      BY <1>1, <2>2, <2>3 DEF TypeOK, INTEND, BLOCKED, READY_AGAIN
  <1>3. ExpiredIsPostponed'
    BY <1>1, MaxAssumption DEF IInv, TypeOK, ExpiredIsPostponed
  <1>4. TimerIsKept'
    BY <1>1 DEF IInv, TypeOK, TimerIsKept
  <1>5. OwnerInv'
    BY <1>1 DEF IInv, TypeOK, OwnerInv
  <1>6. ASSUME NEW u \in Threads
        PROVE  ThreadInv(u)' /\ WakeInv(u)'
    <2>1. ThreadInv(u) /\ WakeInv(u)
      BY DEF IInv, WaitInv
    <2>2. ThreadInv(u)'
      BY <1>1, <2>1, NullAssumption
      DEF TypeOK, ThreadInv, Waits, INTEND, BLOCKED, READY_AGAIN, Calls
    <2>3. WakeInv(u)'
      BY <1>1, <2>1 DEF TypeOK, ThreadInv, WakeInv, Waits, INTEND, BLOCKED, READY_AGAIN, Calls
    <2>4. QED
      BY <2>2, <2>3
  <1>7. UnblockInv'
    <2>1. ASSUME NEW q \in Periods, isr'[q] \in {"release and unblock", "unblock"}
          PROVE  LET v == owner'[q]
                 IN  /\ pc'[v] = "blocked" /\ flags'[v] = READY_AGAIN
                     /\ v \in waiting' /\ cur'[v] = q
      BY <1>1, <2>1, UnblockFacts DEF TypeOK, INTEND, BLOCKED, READY_AGAIN, Calls
    <2>2. QED
      BY <2>1 DEF UnblockInv
  <1>8. QED
    BY <1>2, <1>3, <1>4, <1>5, <1>6, <1>7 DEF IInv, WaitInv

\* The owner cancels its period: it is not waiting for it.
LEMMA CancelKeepsIInv ==
    ASSUME IInv, NEW t \in Threads, NEW p \in Periods, Cancel(t, p)
    PROVE  IInv'
  <1> USE DEF Cancel, CancelPeriod, control, thread, ghosts
  <1>1. TypeOK
    BY DEF IInv
  <1>2. TypeOK'
    BY <1>1 DEF TypeOK, INTEND, BLOCKED, READY_AGAIN
  <1>3. ExpiredIsPostponed'
    BY <1>1, MaxAssumption DEF IInv, TypeOK, ExpiredIsPostponed
  <1>4. TimerIsKept'
    BY <1>1 DEF IInv, TypeOK, TimerIsKept
  <1>5. OwnerInv'
    BY <1>1 DEF IInv, TypeOK, OwnerInv
  <1>6. ASSUME NEW u \in Threads
        PROVE  ThreadInv(u)' /\ WakeInv(u)'
    <2>1. ThreadInv(u) /\ WakeInv(u)
      BY DEF IInv, WaitInv
    <2>2. ThreadInv(u)'
      BY <1>1, <2>1, NullAssumption
      DEF TypeOK, ThreadInv, Waits, INTEND, BLOCKED, READY_AGAIN, Calls
    <2>3. WakeInv(u)'
      BY <1>1, <2>1 DEF TypeOK, ThreadInv, WakeInv, Waits, INTEND, BLOCKED, READY_AGAIN, Calls
    <2>4. QED
      BY <2>2, <2>3
  <1>7. UnblockInv'
    <2>1. ASSUME NEW q \in Periods, isr'[q] \in {"release and unblock", "unblock"}
          PROVE  LET v == owner'[q]
                 IN  /\ pc'[v] = "blocked" /\ flags'[v] = READY_AGAIN
                     /\ v \in waiting' /\ cur'[v] = q
      BY <1>1, <2>1, UnblockFacts DEF TypeOK, INTEND, BLOCKED, READY_AGAIN, Calls
    <2>2. QED
      BY <2>1 DEF UnblockInv
  <1>8. QED
    BY <1>2, <1>3, <1>4, <1>5, <1>6, <1>7 DEF IInv, WaitInv

\* The owner deletes its period: it is not waiting for it.
LEMMA DeleteKeepsIInv ==
    ASSUME IInv, NEW t \in Threads, NEW p \in Periods, Delete(t, p), ~AnyDelete
    PROVE  IInv'
  <1> USE DEF Delete, CancelPeriod, control, thread, ghosts
  <1>1. TypeOK
    BY DEF IInv
  <1>2. TypeOK'
    BY <1>1 DEF TypeOK, INTEND, BLOCKED, READY_AGAIN
  <1>3. ExpiredIsPostponed'
    BY <1>1, MaxAssumption DEF IInv, TypeOK, ExpiredIsPostponed
  <1>4. TimerIsKept'
    BY <1>1 DEF IInv, TypeOK, TimerIsKept
  <1>5. OwnerInv'
    BY <1>1 DEF IInv, TypeOK, OwnerInv
  <1>6. ASSUME NEW u \in Threads
        PROVE  ThreadInv(u)' /\ WakeInv(u)'
    <2>1. ThreadInv(u) /\ WakeInv(u)
      BY DEF IInv, WaitInv
    <2>2. ThreadInv(u)'
      BY <1>1, <2>1, NullAssumption
      DEF TypeOK, ThreadInv, Waits, INTEND, BLOCKED, READY_AGAIN, Calls
    <2>3. WakeInv(u)'
      BY <1>1, <2>1 DEF TypeOK, ThreadInv, WakeInv, Waits, INTEND, BLOCKED, READY_AGAIN, Calls
    <2>4. QED
      BY <2>2, <2>3
  <1>7. UnblockInv'
    <2>1. ASSUME NEW q \in Periods, isr'[q] \in {"release and unblock", "unblock"}
          PROVE  LET v == owner'[q]
                 IN  /\ pc'[v] = "blocked" /\ flags'[v] = READY_AGAIN
                     /\ v \in waiting' /\ cur'[v] = q
      BY <1>1, <2>1, UnblockFacts DEF TypeOK, INTEND, BLOCKED, READY_AGAIN, Calls
    <2>2. QED
      BY <2>1 DEF UnblockInv
  <1>8. QED
    BY <1>2, <1>3, <1>4, <1>5, <1>6, <1>7 DEF IInv, WaitInv

\* The call of the FTS by the thread touches no part of the protocol.
LEMMA ThreadCompensateKeepsIInv ==
    ASSUME IInv, NEW t \in Threads, ThreadCompensate(t)
    PROVE  IInv'
  <1> USE DEF ThreadCompensate, control, thread, ghosts
  <1>1. TypeOK
    BY DEF IInv
  <1>2. TypeOK'
    BY <1>1 DEF TypeOK, INTEND, BLOCKED, READY_AGAIN
  <1>3. ExpiredIsPostponed'
    BY <1>1, MaxAssumption DEF IInv, TypeOK, ExpiredIsPostponed
  <1>4. TimerIsKept'
    BY <1>1 DEF IInv, TypeOK, TimerIsKept
  <1>5. OwnerInv'
    BY <1>1 DEF IInv, TypeOK, OwnerInv
  <1>6. ASSUME NEW u \in Threads
        PROVE  ThreadInv(u)' /\ WakeInv(u)'
    <2>1. ThreadInv(u) /\ WakeInv(u)
      BY DEF IInv, WaitInv
    <2>2. ThreadInv(u)'
      BY <1>1, <2>1, NullAssumption
      DEF TypeOK, ThreadInv, Waits, INTEND, BLOCKED, READY_AGAIN
    <2>3. WakeInv(u)'
      BY <1>1, <2>1 DEF TypeOK, ThreadInv, WakeInv, Waits, INTEND, BLOCKED, READY_AGAIN
    <2>4. QED
      BY <2>2, <2>3
  <1>7. UnblockInv'
    <2>1. ASSUME NEW q \in Periods, isr'[q] \in {"release and unblock", "unblock"}
          PROVE  LET v == owner'[q]
                 IN  /\ pc'[v] = "blocked" /\ flags'[v] = READY_AGAIN
                     /\ v \in waiting' /\ cur'[v] = q
      BY <1>1, <2>1, UnblockFacts DEF TypeOK, INTEND, BLOCKED, READY_AGAIN
    <2>2. QED
      BY <2>1 DEF UnblockInv
  <1>8. QED
    BY <1>2, <1>3, <1>4, <1>5, <1>6, <1>7 DEF IInv, WaitInv

\* The thread sets its state before it knows whether the timeout came first.
LEMMA SetStateKeepsIInv ==
    ASSUME IInv, NEW t \in Threads, SetState(t)
    PROVE  IInv'
  <1> USE DEF SetState, control, thread, ghosts
  <1>1. TypeOK
    BY DEF IInv
  <1>2. TypeOK'
    BY <1>1 DEF TypeOK, INTEND, BLOCKED, READY_AGAIN
  <1>3. ExpiredIsPostponed'
    BY <1>1, MaxAssumption DEF IInv, TypeOK, ExpiredIsPostponed
  <1>4. TimerIsKept'
    BY <1>1 DEF IInv, TypeOK, TimerIsKept
  <1>5. OwnerInv'
    BY <1>1 DEF IInv, TypeOK, OwnerInv
  <1>6. ASSUME NEW u \in Threads
        PROVE  ThreadInv(u)' /\ WakeInv(u)'
    <2>1. ThreadInv(u) /\ WakeInv(u)
      BY DEF IInv, WaitInv
    <2>2. ThreadInv(u)'
      BY <1>1, <2>1, NullAssumption
      DEF TypeOK, ThreadInv, Waits, INTEND, BLOCKED, READY_AGAIN
    <2>3. WakeInv(u)'
      BY <1>1, <2>1 DEF TypeOK, ThreadInv, WakeInv, Waits, INTEND, BLOCKED, READY_AGAIN
    <2>4. QED
      BY <2>2, <2>3
  <1>7. UnblockInv'
    <2>1. ASSUME NEW q \in Periods, isr'[q] \in {"release and unblock", "unblock"}
          PROVE  LET v == owner'[q]
                 IN  /\ pc'[v] = "blocked" /\ flags'[v] = READY_AGAIN
                     /\ v \in waiting' /\ cur'[v] = q
      BY <1>1, <2>1, UnblockFacts DEF TypeOK, INTEND, BLOCKED, READY_AGAIN
    <2>2. QED
      BY <2>1 DEF UnblockInv
  <1>8. QED
    BY <1>2, <1>3, <1>4, <1>5, <1>6, <1>7 DEF IInv, WaitInv

\* The thread blocks, or finds that the timeout made it ready.
LEMMA TryBlockKeepsIInv ==
    ASSUME IInv, NEW t \in Threads, TryBlock(t)
    PROVE  IInv'
  <1> USE DEF TryBlock, control, thread, ghosts
  <1>1. TypeOK
    BY DEF IInv
  <1>2. TypeOK'
    BY <1>1 DEF TypeOK, INTEND, BLOCKED, READY_AGAIN
  <1>3. ExpiredIsPostponed'
    BY <1>1, MaxAssumption DEF IInv, TypeOK, ExpiredIsPostponed
  <1>4. TimerIsKept'
    BY <1>1 DEF IInv, TypeOK, TimerIsKept
  <1>5. OwnerInv'
    BY <1>1 DEF IInv, TypeOK, OwnerInv
  <1>6. ASSUME NEW u \in Threads
        PROVE  ThreadInv(u)' /\ WakeInv(u)'
    <2>1. ThreadInv(u) /\ WakeInv(u)
      BY DEF IInv, WaitInv
    <2>2. ThreadInv(u)'
      <3>1. CASE u # t
        <4>1. /\ pc'[u] = pc[u] /\ flags'[u] = flags[u] /\ cur' = cur
              /\ u \in waiting' <=> u \in waiting
              /\ UNCHANGED <<return_argument, open, owner>>
          BY <1>1, <3>1 DEF TypeOK
        <4>2. QED
          BY <2>1, <4>1 DEF ThreadInv
      <3>2. CASE u = t /\ flags[t] = INTEND
        <4>1. /\ pc[u] = "set" /\ pc'[u] = "blocked" /\ flags'[u] = BLOCKED
              /\ waiting' = waiting /\ cur' = cur
              /\ UNCHANGED <<return_argument, open, owner>>
          BY <1>1, <3>2 DEF TypeOK
        <4>2. QED
          BY <2>1, <3>2, <4>1 DEF ThreadInv, Waits, INTEND, BLOCKED, READY_AGAIN
      <3>3. CASE u = t /\ flags[t] # INTEND
        BY <1>1, <2>1, <3>3, NullAssumption
        DEF TypeOK, ThreadInv, Waits, INTEND, BLOCKED, READY_AGAIN
      <3>4. QED
        BY <3>1, <3>2, <3>3
    <2>3. WakeInv(u)'
      <3>1. UNCHANGED <<chain, isr, cur>>
        OBVIOUS
      <3>2. CASE u # t
        <4>1. /\ pc'[u] = pc[u] /\ flags'[u] = flags[u]
              /\ u \in waiting' <=> u \in waiting
          BY <1>1, <3>2 DEF TypeOK
        <4>2. QED
          BY <2>1, <3>1, <4>1 DEF WakeInv
      <3>3. CASE u = t /\ flags[t] = INTEND
        <4>1. pc[u] \in Waits /\ flags[u] # READY_AGAIN /\ flags'[u] # READY_AGAIN
          BY <1>1, <3>3 DEF TypeOK, Waits, INTEND, BLOCKED, READY_AGAIN
        <4>2. QED
          BY <2>1, <3>1, <4>1 DEF WakeInv
      <3>4. CASE u = t /\ flags[t] # INTEND
        <4>1. pc'[u] = "run"
          BY <1>1, <3>4 DEF TypeOK
        <4>2. QED
          BY <4>1 DEF WakeInv, Waits
      <3>5. QED
        BY <3>2, <3>3, <3>4
    <2>4. QED
      BY <2>2, <2>3
  <1>7. UnblockInv'
    <2>1. ASSUME NEW q \in Periods, isr'[q] \in {"release and unblock", "unblock"}
          PROVE  LET v == owner'[q]
                 IN  /\ pc'[v] = "blocked" /\ flags'[v] = READY_AGAIN
                     /\ v \in waiting' /\ cur'[v] = q
      <3>1. /\ owner[q] \in Threads /\ owner[q] \in waiting /\ cur[owner[q]] = q
            /\ pc[owner[q]] = "blocked" /\ flags[owner[q]] = READY_AGAIN
        BY <2>1, UnblockFacts
      <3>2. owner[q] # t
        BY <3>1
      <3>3. QED
        BY <1>1, <3>1, <3>2 DEF TypeOK
    <2>2. QED
      BY <2>1 DEF UnblockInv
  <1>8. QED
    BY <1>2, <1>3, <1>4, <1>5, <1>6, <1>7 DEF IInv, WaitInv

\* A thread that was unblocked goes on.
LEMMA WakeKeepsIInv ==
    ASSUME IInv, NEW t \in Threads, Wake(t)
    PROVE  IInv'
  <1> USE DEF Wake, control, thread, ghosts
  <1>1. TypeOK
    BY DEF IInv
  <1>2. TypeOK'
    BY <1>1 DEF TypeOK, INTEND, BLOCKED, READY_AGAIN
  <1>3. ExpiredIsPostponed'
    BY <1>1, MaxAssumption DEF IInv, TypeOK, ExpiredIsPostponed
  <1>4. TimerIsKept'
    BY <1>1 DEF IInv, TypeOK, TimerIsKept
  <1>5. OwnerInv'
    BY <1>1 DEF IInv, TypeOK, OwnerInv
  <1>6. ASSUME NEW u \in Threads
        PROVE  ThreadInv(u)' /\ WakeInv(u)'
    <2>1. ThreadInv(u) /\ WakeInv(u)
      BY DEF IInv, WaitInv
    <2>2. ThreadInv(u)'
      BY <1>1, <2>1, NullAssumption
      DEF TypeOK, ThreadInv, Waits, INTEND, BLOCKED, READY_AGAIN
    <2>3. WakeInv(u)'
      BY <1>1, <2>1 DEF TypeOK, ThreadInv, WakeInv, Waits, INTEND, BLOCKED, READY_AGAIN
    <2>4. QED
      BY <2>2, <2>3
  <1>7. UnblockInv'
    <2>1. ASSUME NEW q \in Periods, isr'[q] \in {"release and unblock", "unblock"}
          PROVE  LET v == owner'[q]
                 IN  /\ pc'[v] = "blocked" /\ flags'[v] = READY_AGAIN
                     /\ v \in waiting' /\ cur'[v] = q
      <3>1. /\ owner[q] \in Threads /\ owner[q] \in waiting /\ cur[owner[q]] = q
            /\ pc[owner[q]] = "blocked" /\ flags[owner[q]] = READY_AGAIN
        BY <2>1, UnblockFacts
      <3>2. owner[q] # t
        BY <3>1
      <3>3. QED
        BY <1>1, <3>1, <3>2 DEF TypeOK
    <2>2. QED
      BY <2>1 DEF UnblockInv
  <1>8. QED
    BY <1>2, <1>3, <1>4, <1>5, <1>6, <1>7 DEF IInv, WaitInv

\* A timer leaves the chain; its timeout is then on its way.
LEMMA TickKeepsIInv ==
    ASSUME IInv, NEW p \in Periods, Tick(p)
    PROVE  IInv'
  <1>0. /\ p \in chain /\ isr[p] = "none"
        /\ chain' = chain \ {p} /\ isr' = [isr EXCEPT ![p] = "fired"]
        /\ owed' = [owed EXCEPT ![p] = Owed(@, 1)]
        /\ UNCHANGED <<open, owner, state, postponed_jobs, pc, cur, waiting, flags,
                       return_argument, hooked, stopped>>
    BY DEF Tick, thread
  <1>1. TypeOK
    BY DEF IInv
  <1>a. isr \in [Periods -> {"none", "fired", "release", "release and unblock", "unblock"}] /\ owed \in [Periods -> Int]
    BY <1>1 DEF TypeOK
  <1>b. /\ isr'[p] = "fired"
        /\ \A q \in Periods : q # p => isr'[q] = isr[q] /\ (q \in chain' <=> q \in chain)
    BY <1>0, <1>a
  <1>2. TypeOK'
    <2>1. isr' \in [Periods -> {"none", "fired", "release", "release and unblock", "unblock"}]
      BY <1>0, <1>a
    <2>2. Owed(owed[p], 1) \in Int
      BY <1>a, CounterFacts
    <2>3. owed' \in [Periods -> Int]
      BY <1>0, <1>a, <2>2
    <2>4. QED
      BY <1>0, <1>1, <2>1, <2>3 DEF TypeOK
  <1>3. ExpiredIsPostponed'
    BY <1>0 DEF IInv, ExpiredIsPostponed
  <1>4. TimerIsKept'
    BY <1>0, <1>b DEF IInv, TimerIsKept
  <1>5. OwnerInv'
    BY <1>0, <1>b DEF IInv, OwnerInv
  <1>6. ASSUME NEW u \in Threads
        PROVE  ThreadInv(u)' /\ WakeInv(u)'
    <2>1. ThreadInv(u) /\ WakeInv(u)
      BY DEF IInv, WaitInv
    <2>2. ThreadInv(u)'
      BY <1>0, <2>1 DEF ThreadInv
    <2>3. WakeInv(u)'
      <3>1. pc[u] \in Waits => cur[u] \in Periods
        BY <2>1 DEF ThreadInv
      <3>2. QED
        BY <1>0, <1>b, <2>1, <3>1 DEF WakeInv, Waits
    <2>4. QED
      BY <2>2, <2>3
  <1>7. UnblockInv'
    <2>1. ASSUME NEW q \in Periods, isr'[q] \in {"release and unblock", "unblock"}
          PROVE  LET v == owner'[q]
                 IN  /\ pc'[v] = "blocked" /\ flags'[v] = READY_AGAIN
                     /\ v \in waiting' /\ cur'[v] = q
      <3>1. isr[q] \in {"release and unblock", "unblock"}
        BY <1>0, <1>b, <2>1
      <3>2. /\ owner[q] \in waiting /\ cur[owner[q]] = q
            /\ pc[owner[q]] = "blocked" /\ flags[owner[q]] = READY_AGAIN
        BY <3>1, UnblockFacts
      <3>3. QED
        BY <1>0, <3>2
    <2>2. QED
      BY <2>1 DEF UnblockInv
  <1>8. QED
    BY <1>2, <1>3, <1>4, <1>5, <1>6, <1>7 DEF IInv, WaitInv

\* The timeout makes the owner ready, and unblocks it only if it is blocked.
LEMMA TimeoutRestartKeepsIInv ==
    ASSUME IInv, NEW p \in Periods, TimeoutRestart(p)
    PROVE  IInv'
  <1> USE DEF TimeoutRestart, EndWait, Restart, control, thread, ghosts
  <1>1. TypeOK
    BY DEF IInv
  <1>2. TypeOK'
    <2>1. postponed_jobs[p] \in 0 .. UINT32_MAX /\ owed[p] \in Int
      BY <1>1 DEF TypeOK
    <2>2. postponed_jobs' \in [Periods -> 0 .. UINT32_MAX]
      BY <1>1, <2>1, CounterFacts DEF TypeOK
    <2>3. owed' \in [Periods -> Int]
      BY <1>1, <2>1, CounterFacts DEF TypeOK
    <2>4. QED
      BY <1>1, <2>2, <2>3 DEF TypeOK, INTEND, BLOCKED, READY_AGAIN
  <1>3. ExpiredIsPostponed'
    BY <1>1, MaxAssumption DEF IInv, TypeOK, ExpiredIsPostponed
  <1>4. TimerIsKept'
    BY <1>1 DEF IInv, TypeOK, TimerIsKept
  <1>5. OwnerInv'
    BY <1>1 DEF IInv, TypeOK, OwnerInv
  <1>6. ASSUME NEW u \in Threads
        PROVE  ThreadInv(u)' /\ WakeInv(u)'
    <2>1. ThreadInv(u) /\ WakeInv(u)
      BY DEF IInv, WaitInv
    <2>2. ThreadInv(u)'
      BY <1>1, <2>1, NullAssumption
      DEF TypeOK, ThreadInv, Waits, INTEND, BLOCKED, READY_AGAIN, OwnerWaits
    <2>3. WakeInv(u)'
      <3>1. owner[p] \in Threads /\ ThreadInv(owner[p])
        BY DEF IInv, OwnerInv, WaitInv
      <3>2. p # NULL /\ cur[owner[p]] = p /\ pc[owner[p]] \in Waits
        BY <3>1, NullAssumption DEF ThreadInv, OwnerWaits
      <3>3. CASE u = owner[p]
        <4>1. flags'[u] = READY_AGAIN /\ cur'[u] = p /\ pc'[u] = pc[u]
          BY <1>1, <3>1, <3>2, <3>3 DEF TypeOK
        <4>2. flags[u] = INTEND => pc[u] # "blocked"
          BY <2>1 DEF ThreadInv, INTEND, BLOCKED, READY_AGAIN
        <4>3. flags[u] # INTEND => isr'[p] = "release and unblock"
          BY <1>1, <3>3 DEF TypeOK
        <4>4. QED
          BY <4>1, <4>2, <4>3 DEF WakeInv
      <3>4. CASE u # owner[p]
        <4>1. pc[u] \in Waits => cur[u] \in Periods /\ cur[u] # p
          BY <2>1, <3>4 DEF ThreadInv
        <4>2. QED
          BY <1>1, <2>1, <3>1, <3>4, <4>1 DEF TypeOK, WakeInv, Waits
      <3>5. QED
        BY <3>3, <3>4
    <2>4. QED
      BY <2>2, <2>3
  <1>7. UnblockInv'
    <2>1. ASSUME NEW q \in Periods, isr'[q] \in {"release and unblock", "unblock"}
          PROVE  LET v == owner'[q]
                 IN  /\ pc'[v] = "blocked" /\ flags'[v] = READY_AGAIN
                     /\ v \in waiting' /\ cur'[v] = q
      <3>1. owner[p] \in Threads /\ ThreadInv(owner[p])
        BY DEF IInv, OwnerInv, WaitInv
      <3>2. p # NULL /\ cur[owner[p]] = p /\ return_argument[owner[p]] # NULL
        BY <3>1, NullAssumption DEF ThreadInv, OwnerWaits
      <3>3. CASE q = p
        <4>1. flags[owner[p]] = BLOCKED
          BY <1>1, <2>1, <3>1, <3>2, <3>3
          DEF TypeOK, ThreadInv, INTEND, BLOCKED, READY_AGAIN
        <4>2. pc[owner[p]] = "blocked" /\ owner[p] \in waiting
          BY <3>1, <3>2, <4>1 DEF ThreadInv, Waits, INTEND, BLOCKED, READY_AGAIN
        <4>3. QED
          BY <1>1, <3>1, <3>2, <3>3, <4>2 DEF TypeOK
      <3>4. CASE q # p
        <4>1. isr[q] \in {"release and unblock", "unblock"}
          BY <1>1, <2>1, <3>4 DEF TypeOK
        <4>2. /\ owner[q] \in Threads /\ owner[q] \in waiting /\ cur[owner[q]] = q
              /\ pc[owner[q]] = "blocked" /\ flags[owner[q]] = READY_AGAIN
          BY <4>1, UnblockFacts
        <4>3. owner[q] # owner[p]
          BY <3>2, <3>4, <4>2
        <4>4. QED
          BY <1>1, <4>2, <4>3 DEF TypeOK
      <3>5. QED
        BY <3>3, <3>4
    <2>2. QED
      BY <2>1 DEF UnblockInv
  <1>8. QED
    BY <1>2, <1>3, <1>4, <1>5, <1>6, <1>7 DEF IInv, WaitInv

\* The timeout of a late owner counts a postponed job before the period is
\* marked as expired.
LEMMA RenewDeadlineKeepsIInv ==
    ASSUME IInv, NEW p \in Periods, RenewDeadline(p)
    PROVE  IInv'
  <1>0. /\ isr[p] = "fired" /\ Postpone(p)
        /\ state' = [state EXCEPT ![p] = "EXPIRED"]
        /\ chain' = chain \cup {p} /\ isr' = [isr EXCEPT ![p] = "none"]
        /\ UNCHANGED <<open, owner, pc, cur, waiting, flags, return_argument, hooked,
                       stopped>>
    BY DEF RenewDeadline, thread
  <1>1. TypeOK
    BY DEF IInv
  <1>a. /\ isr \in [Periods -> {"none", "fired", "release", "release and unblock", "unblock"}] /\ owed \in [Periods -> Int]
        /\ state \in [Periods -> {"INACTIVE", "ACTIVE", "EXPIRED"}]
        /\ postponed_jobs \in [Periods -> 0 .. UINT32_MAX]
    BY <1>1 DEF TypeOK
  <1>b. /\ p \in chain' /\ isr'[p] = "none"
        /\ \A q \in Periods : q # p => /\ isr'[q] = isr[q] /\ state'[q] = state[q]
                                       /\ q \in chain' <=> q \in chain
    BY <1>0, <1>a
  <1>c. /\ postponed_jobs' \in [Periods -> 0 .. UINT32_MAX]
        /\ owed' \in [Periods -> Int]
        /\ postponed_jobs'[p] > 0
        /\ \A q \in Periods : q # p => postponed_jobs'[q] = postponed_jobs[q]
    <2>1. CASE postponed_jobs[p] = UINT32_MAX
      <3>1. owed' = [owed EXCEPT ![p] = -1] /\ postponed_jobs' = postponed_jobs
        BY <1>0, <2>1 DEF Postpone
      <3>2. QED
        BY <1>a, <2>1, <3>1, CounterFacts
    <2>2. CASE postponed_jobs[p] # UINT32_MAX
      <3>1. owed' = owed /\ postponed_jobs' = [postponed_jobs EXCEPT ![p] = @ + 1]
        BY <1>0, <2>2 DEF Postpone
      <3>2. postponed_jobs[p] + 1 \in 0 .. UINT32_MAX /\ postponed_jobs[p] + 1 > 0
        BY <1>a, <2>2, CounterFacts
      <3>3. QED
        BY <1>a, <3>1, <3>2
    <2>3. QED
      BY <2>1, <2>2
  <1>2. TypeOK'
    <2>1. isr' \in [Periods -> {"none", "fired", "release", "release and unblock", "unblock"}] /\ state' \in [Periods -> {"INACTIVE", "ACTIVE", "EXPIRED"}]
      BY <1>0, <1>a
    <2>2. chain' \subseteq Periods
      BY <1>0, <1>1 DEF TypeOK
    <2>3. postponed_jobs' \in [Periods -> 0 .. UINT32_MAX] /\ owed' \in [Periods -> Int]
      BY <1>c
    <2>4. UNCHANGED <<open, owner, pc, cur, waiting, flags, return_argument, hooked, stopped>>
      BY <1>0
    <2>5. QED
      BY <1>1, <2>1, <2>2, <2>3, <2>4 DEF TypeOK
  <1>3. ExpiredIsPostponed'
    BY <1>b, <1>c DEF IInv, ExpiredIsPostponed
  <1>4. TimerIsKept'
    BY <1>0, <1>b DEF IInv, TimerIsKept
  <1>5. OwnerInv'
    BY <1>0, <1>b DEF IInv, OwnerInv
  <1>6. ASSUME NEW u \in Threads
        PROVE  ThreadInv(u)' /\ WakeInv(u)'
    <2>1. ThreadInv(u) /\ WakeInv(u)
      BY DEF IInv, WaitInv
    <2>2. ThreadInv(u)'
      BY <1>0, <2>1 DEF ThreadInv
    <2>3. WakeInv(u)'
      <3>1. pc[u] \in Waits => cur[u] \in Periods
        BY <2>1 DEF ThreadInv
      <3>2. QED
        BY <1>0, <1>b, <2>1, <3>1 DEF WakeInv, Waits
    <2>4. QED
      BY <2>2, <2>3
  <1>7. UnblockInv'
    <2>1. ASSUME NEW q \in Periods, isr'[q] \in {"release and unblock", "unblock"}
          PROVE  LET v == owner'[q]
                 IN  /\ pc'[v] = "blocked" /\ flags'[v] = READY_AGAIN
                     /\ v \in waiting' /\ cur'[v] = q
      <3>1. isr[q] \in {"release and unblock", "unblock"}
        BY <1>0, <1>b, <2>1
      <3>2. /\ owner[q] \in waiting /\ cur[owner[q]] = q
            /\ pc[owner[q]] = "blocked" /\ flags[owner[q]] = READY_AGAIN
        BY <3>1, UnblockFacts
      <3>3. QED
        BY <1>0, <3>2
    <2>2. QED
      BY <2>1 DEF UnblockInv
  <1>8. QED
    BY <1>2, <1>3, <1>4, <1>5, <1>6, <1>7 DEF IInv, WaitInv

\* The call of the FTS by the timeout touches no part of the protocol.
LEMMA IsrCompensateKeepsIInv ==
    ASSUME IInv, NEW p \in Periods, IsrCompensate(p)
    PROVE  IInv'
  <1>0. /\ isr[p] \in {"release", "release and unblock"}
        /\ isr' = [isr EXCEPT ![p] = IF @ = "release" THEN "none" ELSE "unblock"]
        /\ hooked' = hooked \ {p}
        /\ UNCHANGED <<open, owner, state, postponed_jobs, chain, pc, cur, waiting, flags,
                       return_argument, owed, stopped>>
    BY DEF IsrCompensate, control, thread
  <1>1. TypeOK
    BY DEF IInv
  <1>a. isr \in [Periods -> {"none", "fired", "release", "release and unblock", "unblock"}]
    BY <1>1 DEF TypeOK
  <1>b. \A q \in Periods :
           /\ isr[q] = "fired" <=> isr'[q] = "fired"
           /\ isr[q] = "none" => isr'[q] = "none"
           /\ isr'[q] \in {"release and unblock", "unblock"} <=>
                 isr[q] \in {"release and unblock", "unblock"}
    BY <1>0, <1>a
  <1>2. TypeOK'
    <2>1. isr' \in [Periods -> {"none", "fired", "release", "release and unblock", "unblock"}]
      BY <1>0, <1>a
    <2>2. QED
      BY <1>0, <1>1, <2>1 DEF TypeOK
  <1>3. ExpiredIsPostponed'
    BY <1>0 DEF IInv, ExpiredIsPostponed
  <1>4. TimerIsKept'
    BY <1>0, <1>b DEF IInv, TimerIsKept
  <1>5. OwnerInv'
    BY <1>0, <1>b DEF IInv, OwnerInv
  <1>6. ASSUME NEW u \in Threads
        PROVE  ThreadInv(u)' /\ WakeInv(u)'
    <2>1. ThreadInv(u) /\ WakeInv(u)
      BY DEF IInv, WaitInv
    <2>2. ThreadInv(u)'
      BY <1>0, <2>1 DEF ThreadInv
    <2>3. WakeInv(u)'
      <3>1. pc[u] \in Waits => cur[u] \in Periods
        BY <2>1 DEF ThreadInv
      <3>2. QED
        BY <1>0, <1>b, <2>1, <3>1 DEF WakeInv, Waits
    <2>4. QED
      BY <2>2, <2>3
  <1>7. UnblockInv'
    <2>1. ASSUME NEW q \in Periods, isr'[q] \in {"release and unblock", "unblock"}
          PROVE  LET v == owner'[q]
                 IN  /\ pc'[v] = "blocked" /\ flags'[v] = READY_AGAIN
                     /\ v \in waiting' /\ cur'[v] = q
      <3>1. isr[q] \in {"release and unblock", "unblock"}
        BY <1>0, <1>b, <2>1
      <3>2. /\ owner[q] \in waiting /\ cur[owner[q]] = q
            /\ pc[owner[q]] = "blocked" /\ flags[owner[q]] = READY_AGAIN
        BY <3>1, UnblockFacts
      <3>3. QED
        BY <1>0, <3>2
    <2>2. QED
      BY <2>1 DEF UnblockInv
  <1>8. QED
    BY <1>2, <1>3, <1>4, <1>5, <1>6, <1>7 DEF IInv, WaitInv

\* The owner that is unblocked is the one that was made ready.
LEMMA IsrUnblockKeepsIInv ==
    ASSUME IInv, NEW p \in Periods, IsrUnblock(p)
    PROVE  IInv'
  <1> USE DEF IsrUnblock, control, thread, ghosts
  <1>1. TypeOK
    BY DEF IInv
  <1>2. TypeOK'
    BY <1>1 DEF TypeOK, INTEND, BLOCKED, READY_AGAIN
  <1>3. ExpiredIsPostponed'
    BY <1>1, MaxAssumption DEF IInv, TypeOK, ExpiredIsPostponed
  <1>4. TimerIsKept'
    BY <1>1 DEF IInv, TypeOK, TimerIsKept
  <1>5. OwnerInv'
    BY <1>1 DEF IInv, TypeOK, OwnerInv
  <1>6. ASSUME NEW u \in Threads
        PROVE  ThreadInv(u)' /\ WakeInv(u)'
    <2>1. ThreadInv(u) /\ WakeInv(u)
      BY DEF IInv, WaitInv
    <2>2. ThreadInv(u)'
      BY <1>1, <2>1, NullAssumption
      DEF TypeOK, ThreadInv, Waits, INTEND, BLOCKED, READY_AGAIN, IInv, OwnerInv, UnblockInv
    <2>3. WakeInv(u)'
      BY <1>1, <2>1 DEF TypeOK, ThreadInv, WakeInv, Waits, INTEND, BLOCKED, READY_AGAIN
    <2>4. QED
      BY <2>2, <2>3
  <1>7. UnblockInv'
    <2>1. ASSUME NEW q \in Periods, isr'[q] \in {"release and unblock", "unblock"}
          PROVE  LET v == owner'[q]
                 IN  /\ pc'[v] = "blocked" /\ flags'[v] = READY_AGAIN
                     /\ v \in waiting' /\ cur'[v] = q
      <3>1. q # p /\ isr[q] \in {"release and unblock", "unblock"}
        BY <1>1, <2>1 DEF TypeOK
      <3>2. /\ owner[q] \in Threads /\ owner[q] \in waiting /\ cur[owner[q]] = q
            /\ pc[owner[q]] = "blocked" /\ flags[owner[q]] = READY_AGAIN
        BY <3>1, UnblockFacts
      <3>3. owner[q] # owner[p]
        BY <3>1, <3>2, UnblockFacts
      <3>4. QED
        BY <1>1, <3>2, <3>3 DEF TypeOK
    <2>2. QED
      BY <2>1 DEF UnblockInv
  <1>8. QED
    BY <1>2, <1>3, <1>4, <1>5, <1>6, <1>7 DEF IInv, WaitInv

\* A step that changes nothing.
LEMMA StutterKeepsIInv ==
    ASSUME IInv, UNCHANGED vars
    PROVE  IInv'
  BY DEF IInv, TypeOK, ExpiredIsPostponed, TimerIsKept, OwnerInv, WaitInv,
         ThreadInv, WakeInv, UnblockInv, vars, control, thread, ghosts

\* Every step of the threads and of the interrupt keeps the invariant.
LEMMA StepKeepsIInv ==
    ASSUME IInv, Next, ~AnyDelete
    PROVE  IInv'
  <1>1. ASSUME NEW t \in Threads, ThreadStep(t)
        PROVE  IInv'
    BY <1>1, ThreadCompensateKeepsIInv, SetStateKeepsIInv, TryBlockKeepsIInv,
       WakeKeepsIInv DEF ThreadStep
  <1>2. ASSUME NEW t \in Threads, NEW p \in Periods, Call(t, p)
        PROVE  IInv'
    BY <1>2, CreateKeepsIInv, CancelKeepsIInv, DeleteKeepsIInv, ActivateKeepsIInv,
       BlockWhileActiveKeepsIInv, BlockWhileExpiredKeepsIInv DEF Call
  <1>3. ASSUME NEW p \in Periods, Tick(p) \/ Timeout(p)
        PROVE  IInv'
    BY <1>3, TickKeepsIInv, TimeoutRestartKeepsIInv, RenewDeadlineKeepsIInv,
       IsrCompensateKeepsIInv, IsrUnblockKeepsIInv DEF Timeout
  <1>4. QED
    BY <1>1, <1>2, <1>3 DEF Next

-----------------------------------------------------------------------------
\* The inductive invariant of the rate-monotonic manager: on one processor or
\* several, every step of a thread, of the watchdog tick and of
\* _Rate_monotonic_Timeout keeps it, if periods are deleted by their owners.
THEOREM RateMonotonicInductive ==
    ASSUME ~AnyDelete
    PROVE  Spec => []IInv
  <1>1. IInv /\ [Next]_vars => IInv'
    BY StepKeepsIInv, StutterKeepsIInv
  <1>2. QED
    BY <1>1, InitIInv, PTL DEF Spec

\* Every field of a period and of a thread's wait information keeps its type;
\* postponed_jobs stays a uint32_t.
THEOREM RateMonotonicTypeOK ==
    ASSUME ~AnyDelete
    PROVE  Spec => []TypeOK
  <1>1. IInv => TypeOK
    BY DEF IInv
  <1>2. QED
    BY <1>1, RateMonotonicInductive, PTL

\* The comment of rtems_rate_monotonic_period: an expired period has a postponed
\* job, so _Rate_monotonic_Release_postponed_job never decrements zero.
THEOREM PostponedNeverWraps ==
    ASSUME ~AnyDelete
    PROVE  Spec => []ExpiredIsPostponed
  <1>1. IInv => ExpiredIsPostponed
    BY DEF IInv
  <1>2. QED
    BY <1>1, RateMonotonicInductive, PTL

\* A started period never loses its watchdog.
THEOREM TimerNeverLost ==
    ASSUME ~AnyDelete
    PROVE  Spec => []TimerIsKept
  <1>1. IInv => TimerIsKept
    BY DEF IInv
  <1>2. QED
    BY <1>1, RateMonotonicInductive, PTL

\* The assertions on the wait flags in _Rate_monotonic_Timeout and
\* _Rate_monotonic_Block_while_active hold.
THEOREM AssertionsHold ==
    ASSUME ~AnyDelete
    PROVE  Spec => []WaitFlagsAsserted
  <1>1. IInv => WaitFlagsAsserted
    <2> SUFFICES ASSUME IInv PROVE WaitFlagsAsserted
      OBVIOUS
    <2>1. ASSUME NEW p \in Periods, isr[p] = "fired", OwnerWaits(p)
          PROVE  flags[owner[p]] \in {INTEND, BLOCKED}
      <3>1. owner[p] \in Threads /\ ThreadInv(owner[p])
        BY <2>1 DEF IInv, OwnerInv, WaitInv
      <3>2. return_argument[owner[p]] # NULL
        BY <2>1, NullAssumption DEF OwnerWaits
      <3>3. QED
        BY <3>1, <3>2 DEF ThreadInv
    <2>2. ASSUME NEW t \in Threads, pc[t] = "set"
          PROVE  flags[t] \in {INTEND, READY_AGAIN}
      BY <2>2 DEF IInv, WaitInv, ThreadInv
    <2>3. QED
      BY <2>1, <2>2 DEF WaitFlagsAsserted
  <1>2. QED
    BY <1>1, RateMonotonicInductive, PTL

\* No wake-up is lost between the thread that is about to block in
\* _Rate_monotonic_Block_while_active and the timeout of its period.
THEOREM WakeupNeverLost ==
    ASSUME ~AnyDelete
    PROVE  Spec => []NoLostWakeup
  <1>1. IInv => NoLostWakeup
    <2> SUFFICES ASSUME IInv, NEW t \in Threads, pc[t] \in Waits
                 PROVE  IF flags[t] = READY_AGAIN
                        THEN pc[t] = "blocked" /\ t \in waiting =>
                                /\ isr[cur[t]] \in {"release and unblock", "unblock"}
                                /\ owner[cur[t]] = t
                        ELSE /\ return_argument[t] = cur[t] /\ owner[cur[t]] = t
                             /\ cur[t] \in chain \/ isr[cur[t]] = "fired"
      BY DEF NoLostWakeup, Waits
    <2>1. ThreadInv(t) /\ WakeInv(t)
      BY DEF IInv, WaitInv
    <2>2. CASE flags[t] = READY_AGAIN
      BY <2>1, <2>2 DEF ThreadInv, WakeInv
    <2>3. CASE flags[t] # READY_AGAIN
      <3>1. flags[t] \in {INTEND, BLOCKED}
        BY <2>1, <2>3 DEF ThreadInv, Waits
      <3>2. QED
        BY <2>1, <2>3, <3>1 DEF ThreadInv, WakeInv
    <2>4. QED
      BY <2>2, <2>3
  <1>2. QED
    BY <1>1, RateMonotonicInductive, PTL

=============================================================================
