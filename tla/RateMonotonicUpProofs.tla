----------------------- MODULE RateMonotonicUpProofs ------------------------
(***************************************************************************)
(* What holds of the rate-monotonic manager on one processor only, for any *)
(* number of threads and periods: no thread runs while a timeout is being  *)
(* handled, so that no cancellation and no call of the owner comes between *)
(* the expiration of a timer and the end of _Rate_monotonic_Timeout.       *)
(***************************************************************************)
EXTENDS RateMonotonicProofs

\* One timeout is handled at a time.
OneIsr ==
    \A p, q \in Periods : isr[p] # "none" /\ isr[q] # "none" => p = q

\* A period that is not active is off the chain, and its timeout is not running.
StoppedInv ==
    \A p \in Periods :
        /\ p \in stopped =>
              state[p] = "INACTIVE" /\ p \notin chain /\ isr[p] = "none"
        /\ state[p] = "INACTIVE" \/ p \notin open => p \in stopped

\* The job a thread is about to release is that of a period of its own.
ReleaseInv(t) ==
    /\ pc[t] = "compensate" =>
          /\ cur[t] \in Periods /\ cur[t] \in open /\ owner[cur[t]] = t
          /\ cur[t] \in hooked
    /\ return_argument[t] # NULL => cur[t] \in hooked

\* The timeout releases a job while the owner waits and is not to be found
\* waiting again.
IsrReleaseInv(p) ==
    isr[p] \in {"release", "release and unblock"} =>
        /\ p \in hooked
        /\ owner[p] \in Threads /\ pc[owner[p]] \in Waits
        /\ return_argument[owner[p]] = NULL

HookInv ==
    /\ \A t \in Threads : ReleaseInv(t)
    /\ \A p \in Periods : IsrReleaseInv(p)

UInv == OneIsr /\ StoppedInv /\ InsertedOnce /\ JobsAreConserved /\ HookInv

-----------------------------------------------------------------------------
\* Nothing is started at first.
LEMMA InitUInv == Init => UInv
  BY DEF Init, UInv, OneIsr, StoppedInv, InsertedOnce, JobsAreConserved, HookInv,
         ReleaseInv, IsrReleaseInv

\* A thread makes its calls while no timeout is being handled.
LEMMA ThreadsAlone ==
    ASSUME ~SMP, NEW t \in Threads, NEW p \in Periods, Call(t, p)
    PROVE  isr' = isr /\ \A q \in Periods : isr[q] = "none"
  <1>1. Runs(t) /\ isr' = isr
    BY DEF Call, Create, Cancel, Delete, CancelPeriod, Activate, BlockWhileActive,
           BlockWhileExpired, BeginPeriod, Calls, control, thread, ghosts
  <1>2. QED
    BY <1>1 DEF Runs

\* The timeouts come one after the other.
LEMMA OneIsrKept ==
    ASSUME IInv, OneIsr, Next, ~SMP
    PROVE  OneIsr'
  <1>1. ASSUME NEW t \in Threads, NEW p \in Periods, Call(t, p)
        PROVE  OneIsr'
    BY <1>1, ThreadsAlone DEF OneIsr
  <1>2. ASSUME NEW t \in Threads, ThreadStep(t)
        PROVE  OneIsr'
    BY <1>2 DEF OneIsr, ThreadStep, ThreadCompensate, SetState, TryBlock, Wake, control,
                thread, ghosts
  <1>3. ASSUME NEW p \in Periods, Tick(p)
        PROVE  OneIsr'
    <2>1. \A q \in Periods : q # p => isr'[q] = "none"
      BY <1>3 DEF Tick, IInv, TypeOK
    <2>2. QED
      BY <2>1 DEF OneIsr
  <1>4. ASSUME NEW p \in Periods, Timeout(p)
        PROVE  OneIsr'
    <2>1. isr[p] # "none" /\ \A q \in Periods : q # p => isr'[q] = isr[q]
      BY <1>4 DEF Timeout, TimeoutRestart, RenewDeadline, IsrCompensate, IsrUnblock, IInv,
                  TypeOK
    <2>2. QED
      BY <2>1 DEF OneIsr
  <1>5. QED
    BY <1>1, <1>2, <1>3, <1>4 DEF Next

\* A thread stops a period only while its timeout is not running, and the
\* timeout puts back on the chain only a period that was on it.
LEMMA StoppedKept ==
    ASSUME IInv, StoppedInv, Next, ~SMP
    PROVE  StoppedInv'
  <1> USE DEF control, thread, ghosts
  <1>0. TypeOK
    BY DEF IInv
  <1>1. ASSUME NEW t \in Threads, NEW p \in Periods, Call(t, p)
        PROVE  StoppedInv'
    <2>0. isr' = isr /\ \A q \in Periods : isr[q] = "none"
      BY <1>1, ThreadsAlone
    <2>1. CASE Create(t, p)
      BY <1>0, <2>0, <2>1 DEF Create, StoppedInv, TypeOK
    <2>2. CASE Cancel(t, p) \/ Delete(t, p)
      <3>1. CancelPeriod(p) /\ \A q \in Periods : q # p => (q \in open' <=> q \in open)
        BY <2>2 DEF Cancel, Delete
      <3>2. /\ state'[p] = "INACTIVE" /\ p \notin chain' /\ p \in stopped'
            /\ \A q \in Periods : q # p =>
                  /\ state'[q] = state[q]
                  /\ (q \in chain' <=> q \in chain) /\ (q \in stopped' <=> q \in stopped)
        BY <1>0, <3>1 DEF CancelPeriod, TypeOK
      <3>3. QED
        BY <2>0, <3>1, <3>2 DEF StoppedInv
    <2>3. CASE Activate(t, p)
      <3>1. /\ state'[p] = "ACTIVE" /\ p \notin stopped' /\ p \in open /\ open' = open
            /\ \A q \in Periods : q # p =>
                  /\ state'[q] = state[q]
                  /\ (q \in chain' <=> q \in chain) /\ (q \in stopped' <=> q \in stopped)
        BY <1>0, <2>3 DEF Activate, BeginPeriod, Restart, TypeOK
      <3>2. QED
        BY <2>0, <3>1 DEF StoppedInv
    <2>4. CASE BlockWhileActive(t, p)
      BY <2>4 DEF BlockWhileActive, StoppedInv
    <2>5. CASE BlockWhileExpired(t, p)
      BY <1>0, <2>0, <2>5 DEF BlockWhileExpired, BeginPeriod, StoppedInv, TypeOK
    <2>6. QED
      BY <1>1, <2>1, <2>2, <2>3, <2>4, <2>5 DEF Call
  <1>2. ASSUME NEW t \in Threads, ThreadStep(t)
        PROVE  StoppedInv'
    BY <1>2 DEF StoppedInv, ThreadStep, ThreadCompensate, SetState, TryBlock, Wake
  <1>3. ASSUME NEW p \in Periods, Tick(p)
        PROVE  StoppedInv'
    BY <1>0, <1>3 DEF Tick, StoppedInv, TypeOK
  <1>4. ASSUME NEW p \in Periods, Timeout(p)
        PROVE  StoppedInv'
    <2>1. CASE TimeoutRestart(p)
      BY <1>0, <2>1 DEF TimeoutRestart, Restart, StoppedInv, TypeOK
    <2>2. CASE RenewDeadline(p)
      BY <1>0, <2>2 DEF RenewDeadline, StoppedInv, TypeOK
    <2>3. CASE IsrCompensate(p) \/ IsrUnblock(p)
      BY <1>0, <2>3 DEF IsrCompensate, IsrUnblock, StoppedInv, TypeOK
    <2>4. QED
      BY <1>4, <2>1, <2>2, <2>3 DEF Timeout
  <1>5. QED
    BY <1>1, <1>2, <1>3, <1>4 DEF Next

\* _Watchdog_Do_tickle takes the timer off the chain; only the end of the
\* timeout puts it back.
LEMMA InsertedKept ==
    ASSUME IInv, InsertedOnce, Next, ~SMP
    PROVE  InsertedOnce'
  <1> USE DEF control, thread, ghosts
  <1>0. TypeOK
    BY DEF IInv
  <1>1. ASSUME NEW t \in Threads, NEW p \in Periods, Call(t, p)
        PROVE  InsertedOnce'
    BY <1>1, ThreadsAlone DEF InsertedOnce
  <1>2. ASSUME NEW t \in Threads, ThreadStep(t)
        PROVE  InsertedOnce'
    BY <1>2 DEF InsertedOnce, ThreadStep, ThreadCompensate, SetState, TryBlock, Wake
  <1>3. ASSUME NEW p \in Periods, Tick(p)
        PROVE  InsertedOnce'
    BY <1>0, <1>3 DEF Tick, InsertedOnce, TypeOK
  <1>4. ASSUME NEW p \in Periods, Timeout(p)
        PROVE  InsertedOnce'
    <2>1. /\ isr'[p] # "fired"
          /\ \A q \in Periods : q # p =>
                isr'[q] = isr[q] /\ (q \in chain' <=> q \in chain)
      BY <1>0, <1>4 DEF Timeout, TimeoutRestart, Restart, RenewDeadline, IsrCompensate,
                        IsrUnblock, TypeOK
    <2>2. QED
      BY <2>1 DEF InsertedOnce
  <1>5. QED
    BY <1>1, <1>2, <1>3, <1>4 DEF Next

\* The count of one period.
LEMMA JobFacts ==
    ASSUME IInv, JobsAreConserved, NEW p \in Periods
    PROVE  /\ owed[p] \in Int /\ postponed_jobs[p] \in Int
           /\ 0 <= postponed_jobs[p] /\ postponed_jobs[p] <= UINT32_MAX
           /\ state[p] # "INACTIVE" /\ owed[p] # -1 =>
                 /\ isr[p] = "fired" => owed[p] = postponed_jobs[p] + 1
                 /\ isr[p] # "fired" => owed[p] = postponed_jobs[p]
  <1>1. owed[p] \in Int /\ postponed_jobs[p] \in 0 .. UINT32_MAX
    BY DEF IInv, TypeOK
  <1>2. state[p] # "INACTIVE" /\ owed[p] # -1 =>
            owed[p] = postponed_jobs[p] + (IF isr[p] = "fired" THEN 1 ELSE 0)
    BY DEF JobsAreConserved
  <1>3. QED
    BY <1>1, <1>2, MaxAssumption

\* A step that concerns one period keeps the counts when it keeps that of the
\* period.
LEMMA OneJob ==
    ASSUME JobsAreConserved, NEW p \in Periods,
           \A q \in Periods : q # p =>
               /\ state'[q] = state[q] /\ owed'[q] = owed[q]
               /\ postponed_jobs'[q] = postponed_jobs[q] /\ isr'[q] = isr[q],
           state'[p] # "INACTIVE" /\ owed'[p] # -1 =>
               owed'[p] = postponed_jobs'[p] + (IF isr'[p] = "fired" THEN 1 ELSE 0)
    PROVE  JobsAreConserved'
  <1>1. ASSUME NEW q \in Periods, state'[q] # "INACTIVE", owed'[q] # -1
        PROVE  owed'[q] = postponed_jobs'[q] + (IF isr'[q] = "fired" THEN 1 ELSE 0)
    <2>1. CASE q = p
      BY <1>1, <2>1
    <2>2. CASE q # p
      BY <1>1, <2>2 DEF JobsAreConserved
    <2>3. QED
      BY <2>1, <2>2
  <1>2. QED
    BY <1>1 DEF JobsAreConserved

\* An expiration is counted as owed until the timeout releases or postpones its
\* job; a postponed job is owed until a call takes it.
LEMMA JobsKept ==
    ASSUME IInv, StoppedInv, JobsAreConserved, Next, ~SMP
    PROVE  JobsAreConserved'
  <1> USE DEF control, thread, ghosts
  <1>0. TypeOK /\ ExpiredIsPostponed
    BY DEF IInv
  <1>1. ASSUME NEW t \in Threads, NEW p \in Periods, Call(t, p)
        PROVE  JobsAreConserved'
    <2>0. isr' = isr /\ \A q \in Periods : isr[q] = "none"
      BY <1>1, ThreadsAlone
    <2>1. CASE Create(t, p)
      <3>1. state'[p] = "INACTIVE" /\ \A q \in Periods : q # p => state'[q] = state[q]
        BY <1>0, <2>1 DEF Create, TypeOK
      <3>2. QED
        BY <2>0, <2>1, <3>1, OneJob DEF Create
    <2>2. CASE Cancel(t, p) \/ Delete(t, p)
      <3>1. state'[p] = "INACTIVE" /\ \A q \in Periods : q # p => state'[q] = state[q]
        BY <1>0, <2>2 DEF Cancel, Delete, CancelPeriod, TypeOK
      <3>2. owed' = owed /\ postponed_jobs' = postponed_jobs
        BY <2>2 DEF Cancel, Delete, CancelPeriod
      <3>3. QED
        BY <2>0, <3>1, <3>2, OneJob
    <2>3. CASE Activate(t, p)
      <3>1. \A q \in Periods : q # p =>
               /\ state'[q] = state[q] /\ owed'[q] = owed[q]
               /\ postponed_jobs'[q] = postponed_jobs[q]
        BY <1>0, <2>3 DEF Activate, TypeOK
      <3>2. owed'[p] = 0 /\ postponed_jobs'[p] = 0
        BY <1>0, <2>3 DEF Activate, TypeOK
      <3>3. owed'[p] = postponed_jobs'[p] + (IF isr'[p] = "fired" THEN 1 ELSE 0)
        BY <2>0, <3>2
      <3>4. QED
        BY <2>0, <3>1, <3>3, OneJob
    <2>4. CASE BlockWhileActive(t, p)
      BY <2>4 DEF BlockWhileActive, JobsAreConserved
    <2>5. CASE BlockWhileExpired(t, p)
      <3>1. state[p] # "INACTIVE" /\ postponed_jobs[p] > 0
        BY <2>5, <1>0 DEF BlockWhileExpired, ExpiredIsPostponed
      <3>2. /\ postponed_jobs'[p] = Decrement(postponed_jobs[p])
            /\ owed'[p] = Owed(owed[p], -1)
        BY <1>0, <2>5 DEF BlockWhileExpired, TypeOK
      <3>3. \A q \in Periods : q # p =>
               /\ state'[q] = state[q] /\ owed'[q] = owed[q]
               /\ postponed_jobs'[q] = postponed_jobs[q]
        BY <1>0, <2>5 DEF BlockWhileExpired, TypeOK
      <3>4. owed'[p] # -1 =>
               owed'[p] = postponed_jobs'[p] + (IF isr'[p] = "fired" THEN 1 ELSE 0)
        BY <2>0, <3>1, <3>2, JobFacts DEF Owed, Decrement
      <3>5. QED
        BY <2>0, <3>3, <3>4, OneJob
    <2>6. QED
      BY <1>1, <2>1, <2>2, <2>3, <2>4, <2>5 DEF Call
  <1>2. ASSUME NEW t \in Threads, ThreadStep(t)
        PROVE  JobsAreConserved'
    BY <1>2 DEF JobsAreConserved, ThreadStep, ThreadCompensate, SetState, TryBlock, Wake
  <1>3. ASSUME NEW p \in Periods, Tick(p)
        PROVE  JobsAreConserved'
    <2>0. /\ isr[p] = "none" /\ isr' = [isr EXCEPT ![p] = "fired"]
          /\ owed' = [owed EXCEPT ![p] = Owed(owed[p], 1)]
          /\ state' = state /\ postponed_jobs' = postponed_jobs
      BY <1>3 DEF Tick
    <2>1. /\ isr'[p] = "fired" /\ owed'[p] = Owed(owed[p], 1)
          /\ \A q \in Periods : q # p => owed'[q] = owed[q] /\ isr'[q] = isr[q]
      BY <1>0, <2>0 DEF TypeOK
    <2>2. state'[p] # "INACTIVE" /\ owed'[p] # -1 =>
             owed'[p] = postponed_jobs'[p] + (IF isr'[p] = "fired" THEN 1 ELSE 0)
      BY <2>0, <2>1, JobFacts DEF Owed
    <2>3. QED
      BY <2>0, <2>1, <2>2, OneJob
  <1>4. ASSUME NEW p \in Periods, Timeout(p)
        PROVE  JobsAreConserved'
    <2>1. CASE TimeoutRestart(p)
      <3>1. /\ state' = state /\ postponed_jobs' = postponed_jobs
            /\ isr[p] = "fired" /\ isr'[p] # "fired" /\ owed'[p] = Owed(owed[p], -1)
            /\ \A q \in Periods : q # p => owed'[q] = owed[q] /\ isr'[q] = isr[q]
        BY <1>0, <2>1 DEF TimeoutRestart, TypeOK
      <3>2. state'[p] # "INACTIVE" /\ owed'[p] # -1 =>
               owed'[p] = postponed_jobs'[p] + (IF isr'[p] = "fired" THEN 1 ELSE 0)
        BY <3>1, JobFacts DEF Owed
      <3>3. QED
        BY <3>1, <3>2, OneJob
    <2>2. CASE RenewDeadline(p)
      <3>1. state[p] # "INACTIVE" /\ isr[p] = "fired"
        BY <2>2 DEF RenewDeadline, StoppedInv
      <3>2. isr'[p] = "none" /\ \A q \in Periods : q # p =>
               state'[q] = state[q] /\ isr'[q] = isr[q]
        BY <1>0, <2>2 DEF RenewDeadline, TypeOK
      <3>3. CASE owed' = owed /\ postponed_jobs' = [postponed_jobs EXCEPT ![p] = @ + 1]
        <4>1. /\ owed'[p] = owed[p] /\ postponed_jobs'[p] = postponed_jobs[p] + 1
              /\ \A q \in Periods : q # p =>
                    owed'[q] = owed[q] /\ postponed_jobs'[q] = postponed_jobs[q]
          BY <1>0, <3>3 DEF TypeOK
        <4>2. owed'[p] # -1 =>
                 owed'[p] = postponed_jobs'[p] + (IF isr'[p] = "fired" THEN 1 ELSE 0)
          BY <3>1, <3>2, <4>1, JobFacts
        <4>3. QED
          BY <3>2, <4>1, <4>2, OneJob
      <3>4. CASE owed' = [owed EXCEPT ![p] = -1] /\ postponed_jobs' = postponed_jobs
        <4>1. owed'[p] = -1 /\ \A q \in Periods : q # p => owed'[q] = owed[q]
          BY <1>0, <3>4 DEF TypeOK
        <4>2. QED
          BY <3>2, <3>4, <4>1, OneJob
      <3>5. QED
        BY <2>2, <3>3, <3>4 DEF RenewDeadline, Postpone
    <2>3. CASE IsrCompensate(p) \/ IsrUnblock(p)
      BY <1>0, <2>3 DEF IsrCompensate, IsrUnblock, JobsAreConserved, TypeOK
    <2>4. QED
      BY <1>4, <2>1, <2>2, <2>3 DEF Timeout
  <1>5. QED
    BY <1>1, <1>2, <1>3, <1>4 DEF Next

\* While the owner waits for a period, the timeout may release its job; the job
\* a thread releases itself is that of the call it is in.
LEMMA HookKept ==
    ASSUME IInv, OneIsr, HookInv, Next, ~SMP, ~AnyDelete
    PROVE  HookInv'
  <1> USE DEF control, thread, ghosts
  <1>0. TypeOK /\ WaitInv /\ OwnerInv
    BY DEF IInv
  <1>1. ASSUME NEW t \in Threads, NEW p \in Periods, Call(t, p)
        PROVE  HookInv'
    <2>0. isr' = isr /\ \A q \in Periods : isr[q] = "none"
      BY <1>1, ThreadsAlone
    <2>1. \A q \in Periods : IsrReleaseInv(q)'
      BY <2>0 DEF IsrReleaseInv
    <2>2. ASSUME NEW u \in Threads
          PROVE  ReleaseInv(u)'
      <3>1. ReleaseInv(u) /\ ThreadInv(u)
        BY <1>0 DEF HookInv, WaitInv
      <3>2. CASE Create(t, p)
        BY <1>0, <3>1, <3>2 DEF Create, ReleaseInv, TypeOK
      <3>3. CASE Cancel(t, p)
        BY <3>1, <3>3 DEF Cancel, CancelPeriod, ReleaseInv
      <3>4. CASE Delete(t, p) /\ owner[p] = t
        BY <1>0, <3>1, <3>4 DEF Delete, CancelPeriod, Calls, ReleaseInv, TypeOK
      <3>5. CASE Activate(t, p) \/ BlockWhileExpired(t, p)
        <4>1. /\ BeginPeriod(t, p) /\ pc' = [pc EXCEPT ![t] = "compensate"]
              /\ UNCHANGED <<open, owner, return_argument>>
          BY <3>5 DEF Activate, BlockWhileExpired
        <4>2. CASE u = t
          BY <1>0, <4>1, <4>2 DEF BeginPeriod, ReleaseInv, TypeOK
        <4>3. CASE u # t
          BY <1>0, <3>1, <4>1, <4>3 DEF BeginPeriod, ReleaseInv, TypeOK
        <4>4. QED
          BY <4>2, <4>3
      <3>6. CASE BlockWhileActive(t, p)
        BY <1>0, <3>1, <3>6 DEF BlockWhileActive, BeginPeriod, Calls, ReleaseInv, TypeOK
      <3>7. QED
        BY <1>1, <3>2, <3>3, <3>4, <3>5, <3>6 DEF Call, Delete
    <2>3. QED
      BY <2>1, <2>2 DEF HookInv
  <1>2. ASSUME NEW t \in Threads, ThreadStep(t)
        PROVE  HookInv'
    <2>0. isr' = isr /\ open' = open /\ owner' = owner /\ cur' = cur
          /\ return_argument' = return_argument
      BY <1>2 DEF ThreadStep, ThreadCompensate, SetState, TryBlock, Wake
    <2>1. \A q \in Periods : isr[q] = "none"
      BY <1>2 DEF ThreadStep, ThreadCompensate, SetState, TryBlock, Wake, Runs
    <2>2. \A q \in Periods : IsrReleaseInv(q)'
      BY <2>0, <2>1 DEF IsrReleaseInv
    <2>3. ASSUME NEW u \in Threads
          PROVE  ReleaseInv(u)'
      <3>1. ReleaseInv(u) /\ ThreadInv(u) /\ ReleaseInv(t)
        BY <1>0 DEF HookInv, WaitInv
      <3>2. CASE ThreadCompensate(t)
        <4>1. CASE u = t
          <5>1. return_argument[t] = NULL
            BY <3>1, <3>2, <4>1 DEF ThreadCompensate, ThreadInv, Waits
          <5>2. pc'[t] = "run"
            BY <1>0, <3>2 DEF ThreadCompensate, TypeOK
          <5>3. QED
            BY <2>0, <4>1, <5>1, <5>2 DEF ReleaseInv
        <4>2. CASE u # t
          <5>1. pc'[u] = pc[u] /\ hooked' = hooked \ {cur[t]} /\ owner[cur[t]] = t
            BY <1>0, <3>1, <3>2, <4>2 DEF ThreadCompensate, ReleaseInv, TypeOK
          <5>2. return_argument[u] # NULL => owner[cur[u]] = u
            BY <3>1 DEF ThreadInv
          <5>3. QED
            BY <2>0, <3>1, <4>2, <5>1, <5>2 DEF ReleaseInv
        <4>3. QED
          BY <4>1, <4>2
      <3>3. CASE ~ThreadCompensate(t)
        <4>1. hooked' = hooked /\ (pc'[u] = "compensate" => pc[u] = "compensate")
          BY <1>0, <1>2, <3>3 DEF ThreadStep, SetState, TryBlock, Wake, TypeOK
        <4>2. QED
          BY <2>0, <3>1, <4>1 DEF ReleaseInv
      <3>4. QED
        BY <3>2, <3>3
    <2>4. QED
      BY <2>2, <2>3 DEF HookInv
  <1>3. ASSUME NEW p \in Periods, Tick(p)
        PROVE  HookInv'
    <2>1. isr'[p] = "fired" /\ \A q \in Periods : q # p => isr'[q] = isr[q]
      BY <1>0, <1>3 DEF Tick, TypeOK
    <2>2. UNCHANGED <<open, owner, thread, hooked>>
      BY <1>3 DEF Tick
    <2>3. QED
      BY <2>1, <2>2 DEF HookInv, ReleaseInv, IsrReleaseInv
  <1>4. ASSUME NEW p \in Periods, TimeoutRestart(p)
        PROVE  HookInv'
    <2>0. /\ UNCHANGED <<open, owner, pc, cur, hooked>>
          /\ return_argument' = [return_argument EXCEPT ![owner[p]] = NULL]
          /\ isr[p] # "none" /\ return_argument[owner[p]] = p
          /\ \A q \in Periods : q # p => isr'[q] = isr[q]
      BY <1>0, <1>4 DEF TimeoutRestart, OwnerWaits, EndWait, TypeOK
    <2>1. owner[p] \in Threads
      BY <1>0, <2>0 DEF OwnerInv
    <2>2. pc[owner[p]] \in Waits /\ cur[owner[p]] = p /\ p \in hooked
      BY <1>0, <2>0, <2>1, NullAssumption DEF WaitInv, ThreadInv, HookInv, ReleaseInv
    <2>3. \A u \in Threads : ReleaseInv(u)'
      BY <1>0, <2>0, <2>1 DEF HookInv, ReleaseInv, TypeOK
    <2>4. return_argument'[owner[p]] = NULL
      BY <1>0, <2>0, <2>1 DEF TypeOK
    <2>5. ASSUME NEW q \in Periods
          PROVE  IsrReleaseInv(q)'
      <3>1. CASE q = p
        BY <2>0, <2>1, <2>2, <2>4, <3>1 DEF IsrReleaseInv
      <3>2. CASE q # p
        BY <2>0, <3>2 DEF OneIsr, IsrReleaseInv
      <3>3. QED
        BY <3>1, <3>2
    <2>6. QED
      BY <2>3, <2>5 DEF HookInv
  <1>5. ASSUME NEW p \in Periods, RenewDeadline(p)
        PROVE  HookInv'
    <2>1. isr'[p] = "none" /\ \A q \in Periods : q # p => isr'[q] = isr[q]
      BY <1>0, <1>5 DEF RenewDeadline, TypeOK
    <2>2. UNCHANGED <<open, owner, thread, hooked>>
      BY <1>5 DEF RenewDeadline
    <2>3. QED
      BY <2>1, <2>2 DEF HookInv, ReleaseInv, IsrReleaseInv
  <1>6. ASSUME NEW p \in Periods, IsrCompensate(p)
        PROVE  HookInv'
    <2>0. /\ UNCHANGED <<open, owner, thread>> /\ hooked' = hooked \ {p}
          /\ isr[p] \in {"release", "release and unblock"}
          /\ isr'[p] \in {"none", "unblock"}
          /\ \A q \in Periods : q # p => isr'[q] = isr[q]
      BY <1>0, <1>6 DEF IsrCompensate, TypeOK
    <2>1. pc[owner[p]] \in Waits /\ return_argument[owner[p]] = NULL
      BY <2>0 DEF HookInv, IsrReleaseInv
    <2>2. ASSUME NEW u \in Threads
          PROVE  ReleaseInv(u)'
      <3>1. ReleaseInv(u) /\ ThreadInv(u)
        BY <1>0 DEF HookInv, WaitInv
      <3>2. pc[u] = "compensate" => cur[u] # p
        BY <2>1, <3>1 DEF ReleaseInv, Waits
      <3>3. return_argument[u] # NULL => cur[u] # p
        BY <2>1, <3>1 DEF ThreadInv
      <3>4. QED
        BY <2>0, <3>1, <3>2, <3>3 DEF ReleaseInv
    <2>3. ASSUME NEW q \in Periods
          PROVE  IsrReleaseInv(q)'
      BY <2>0 DEF OneIsr, IsrReleaseInv
    <2>4. QED
      BY <2>2, <2>3 DEF HookInv
  <1>7. ASSUME NEW p \in Periods, IsrUnblock(p)
        PROVE  HookInv'
    <2>1. isr'[p] = "none" /\ \A q \in Periods : q # p => isr'[q] = isr[q]
      BY <1>0, <1>7 DEF IsrUnblock, TypeOK
    <2>2. UNCHANGED <<open, owner, pc, cur, return_argument, hooked>>
      BY <1>7 DEF IsrUnblock
    <2>3. QED
      BY <2>1, <2>2 DEF HookInv, ReleaseInv, IsrReleaseInv
  <1>8. QED
    BY <1>1, <1>2, <1>3, <1>4, <1>5, <1>6, <1>7 DEF Next, Timeout

-----------------------------------------------------------------------------
\* The inductive invariant of one processor.
THEOREM UpInductive ==
    ASSUME ~SMP, ~AnyDelete
    PROVE  Spec => []UInv
  <1>1. Init => UInv
    BY InitUInv
  <1>2. IInv /\ UInv /\ [Next]_vars => UInv'
    <2> SUFFICES ASSUME IInv, UInv, [Next]_vars PROVE UInv'
      OBVIOUS
    <2>1. CASE Next
      BY <2>1, OneIsrKept, StoppedKept, InsertedKept, JobsKept, HookKept DEF UInv
    <2>2. CASE UNCHANGED vars
      BY <2>2 DEF UInv, OneIsr, StoppedInv, InsertedOnce, JobsAreConserved, HookInv,
                  ReleaseInv, IsrReleaseInv, vars, control, thread, ghosts
    <2>3. QED
      BY <2>1, <2>2
  <1>3. QED
    BY <1>1, <1>2, RateMonotonicInductive, PTL DEF Spec

\* On one processor a period that was cancelled or deleted is inactive and off
\* the watchdog chain until its owner starts it again.
THEOREM CancelStopsUp ==
    ASSUME ~SMP, ~AnyDelete
    PROVE  Spec => []CancelStops
  <1>1. IInv /\ UInv => CancelStops
    BY DEF IInv, TypeOK, UInv, StoppedInv, CancelStops
  <1>2. QED
    BY <1>1, RateMonotonicInductive, UpInductive, PTL

\* On one processor _Rate_monotonic_Timeout inserts only an inactive watchdog.
THEOREM InsertedOnceUp ==
    ASSUME ~SMP, ~AnyDelete
    PROVE  Spec => []InsertedOnce
  <1>1. UInv => InsertedOnce
    BY DEF UInv
  <1>2. QED
    BY <1>1, UpInductive, PTL

\* On one processor every expiration leads to one job, released by the timeout
\* or postponed and taken by a later call.
THEOREM JobsAreConservedUp ==
    ASSUME ~SMP, ~AnyDelete
    PROVE  Spec => []JobsAreConserved
  <1>1. UInv => JobsAreConserved
    BY DEF UInv
  <1>2. QED
    BY <1>1, UpInductive, PTL

\* On one processor the FTS compensates a job only after the head of
\* rtems_rate_monotonic_period has prepared it.
THEOREM HookBeforeReleaseUp ==
    ASSUME ~SMP, ~AnyDelete
    PROVE  Spec => []HookBeforeRelease
  <1>1. UInv => HookBeforeRelease
    BY DEF UInv, HookInv, ReleaseInv, IsrReleaseInv, HookBeforeRelease
  <1>2. QED
    BY <1>1, UpInductive, PTL

=============================================================================
