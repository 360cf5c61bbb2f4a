--------------------------- MODULE RateMonotonic ----------------------------
(***************************************************************************)
(* The rate-monotonic manager (rtems/src/ratemon*.c): threads that own     *)
(* periods and call rtems_rate_monotonic_period, and the watchdog          *)
(* interrupt that runs _Rate_monotonic_Timeout when a period is over.      *)
(*                                                                         *)
(* What the code does with the period's lock held is one step.  Between    *)
(* steps an interrupt may come; with SMP the threads and the interrupts    *)
(* run on different processors and interleave freely.  Lengths are left    *)
(* out: a timer that is set may expire at any time.                        *)
(***************************************************************************)
EXTENDS Integers

CONSTANTS
    Threads, Periods,
    SMP,                \* RTEMS_SMP
    AnyDelete,          \* periods are also deleted by threads not owning them
    UINT32_MAX          \* postponed_jobs stays there

CONSTANT NULL

ASSUME ModeAssumption == {SMP, AnyDelete} \subseteq BOOLEAN
ASSUME MaxAssumption == UINT32_MAX \in Nat \ {0}
ASSUME NullAssumption == NULL \notin Threads /\ NULL \notin Periods

VARIABLES
    open,           \* the periods that exist
    owner,          \* by period
    state,          \* by period
    postponed_jobs, \* by period
    chain,          \* the periods whose Timer is on the watchdog chain
    isr,            \* by period: what _Rate_monotonic_Timeout is at
    pc,             \* by thread: where in rtems_rate_monotonic_period it is
    cur,            \* by thread: the period it called it for last
    waiting,        \* the threads with STATES_WAITING_FOR_PERIOD
    flags,          \* by thread: Wait.flags
    return_argument,\* by thread: Wait.return_argument
    hooked,         \* the periods whose next job the FTS was told of
    owed,           \* by period: expirations not answered by a release yet,
                    \* -1 when postponed_jobs has lost count
    stopped         \* the periods created, cancelled or deleted, and not
                    \* started since

control == <<open, owner, state, postponed_jobs, chain>>
thread  == <<pc, cur, waiting, flags, return_argument>>
ghosts  == <<hooked, owed, stopped>>
vars == <<control, isr, thread, ghosts>>

INTEND == "INTEND_TO_BLOCK"
BLOCKED == "BLOCKED"
READY_AGAIN == "READY_AGAIN"

Init ==
    /\ open = {}
    /\ owner = [p \in Periods |-> NULL]
    /\ state = [p \in Periods |-> "INACTIVE"]
    /\ postponed_jobs = [p \in Periods |-> 0]
    /\ chain = {}
    /\ isr = [p \in Periods |-> "none"]
    /\ pc = [t \in Threads |-> "run"]
    /\ cur = [t \in Threads |-> NULL]
    /\ waiting = {}
    /\ flags = [t \in Threads |-> "NONE"]
    /\ return_argument = [t \in Threads |-> NULL]
    /\ hooked = {}
    /\ owed = [p \in Periods |-> 0]
    /\ stopped = Periods

\* On one processor a thread runs when no interrupt does, and not while
\* another thread has thread dispatching disabled.
Runs(t) ==
    \/ SMP
    \/ /\ \A p \in Periods : isr[p] = "none"
       /\ \A u \in Threads \ {t} : pc[u] \notin {"intend", "set"}

\* --postponed_jobs, in 32 bits.
Decrement(n) == IF n = 0 THEN UINT32_MAX ELSE n - 1

\* The count of owed jobs changes by d, unless it is lost.
Owed(n, d) == IF n = -1 THEN -1 ELSE n + d

\* The calls of thread t.
Calls(t) == pc[t] = "run" /\ Runs(t)

\* rtems_rate_monotonic_create.
Create(t, p) ==
    /\ Calls(t)
    /\ p \notin open
    /\ open' = open \cup {p}
    /\ owner' = [owner EXCEPT ![p] = t]
    /\ state' = [state EXCEPT ![p] = "INACTIVE"]
    /\ chain' = chain \ {p}
    /\ UNCHANGED <<postponed_jobs, isr, thread, ghosts>>

\* Mutation: only the first job is announced to the FTS.
BugBeginPeriod(t, p) ==
    /\ Calls(t)
    /\ p \in open /\ owner[p] = t
    /\ cur' = [cur EXCEPT ![t] = p]
    /\ hooked' = IF state[p] = "INACTIVE" THEN hooked \cup {p} ELSE hooked

\* rtems_rate_monotonic_period by the owner: the head tells the FTS.
BeginPeriod(t, p) ==
    /\ Calls(t)
    /\ p \in open /\ owner[p] = t
    /\ cur' = [cur EXCEPT ![t] = p]
    /\ hooked' = hooked \cup {p}

\* _Rate_monotonic_Restart.
Restart(p) == chain' = chain \cup {p}

\* Mutation: the postponed jobs of a cancelled period are kept.
BugActivate(t, p) ==
    /\ BeginPeriod(t, p)
    /\ state[p] = "INACTIVE"
    /\ state' = [state EXCEPT ![p] = "ACTIVE"]
    /\ Restart(p)
    /\ pc' = [pc EXCEPT ![t] = "compensate"]
    /\ owed' = [owed EXCEPT ![p] = 0]
    /\ stopped' = stopped \ {p}
    /\ UNCHANGED <<open, owner, postponed_jobs, isr, waiting, flags, return_argument>>

\* _Rate_monotonic_Activate.  The FTS is called when the lock is released.
Activate(t, p) ==
    /\ BeginPeriod(t, p)
    /\ state[p] = "INACTIVE"
    /\ postponed_jobs' = [postponed_jobs EXCEPT ![p] = 0]
    /\ state' = [state EXCEPT ![p] = "ACTIVE"]
    /\ Restart(p)
    /\ pc' = [pc EXCEPT ![t] = "compensate"]
    /\ owed' = [owed EXCEPT ![p] = 0]
    /\ stopped' = stopped \ {p}
    /\ UNCHANGED <<open, owner, isr, waiting, flags, return_argument>>

\* _Rate_monotonic_Block_while_active, up to the release of the lock.
BlockWhileActive(t, p) ==
    /\ BeginPeriod(t, p)
    /\ state[p] = "ACTIVE"
    /\ postponed_jobs[p] = 0
    /\ return_argument' = [return_argument EXCEPT ![t] = p]
    /\ flags' = [flags EXCEPT ![t] = INTEND]
    /\ pc' = [pc EXCEPT ![t] = "intend"]
    /\ UNCHANGED <<control, isr, waiting, owed, stopped>>

\* _Rate_monotonic_Block_while_expired.
BlockWhileExpired(t, p) ==
    /\ BeginPeriod(t, p)
    /\ \/ state[p] = "EXPIRED"
       \/ state[p] = "ACTIVE" /\ postponed_jobs[p] > 0
    /\ state' = [state EXCEPT ![p] = "ACTIVE"]
    /\ postponed_jobs' = [postponed_jobs EXCEPT ![p] = Decrement(@)]
    /\ pc' = [pc EXCEPT ![t] = "compensate"]
    /\ owed' = [owed EXCEPT ![p] = Owed(@, -1)]
    /\ UNCHANGED <<open, owner, chain, isr, waiting, flags, return_argument, stopped>>

\* fts_compensate_t, called by the thread without the lock.
ThreadCompensate(t) ==
    /\ pc[t] = "compensate" /\ Runs(t)
    /\ pc' = [pc EXCEPT ![t] = "run"]
    /\ hooked' = hooked \ {cur[t]}
    /\ UNCHANGED <<control, isr, cur, waiting, flags, return_argument, owed, stopped>>

\* _Thread_Set_state( executing, STATES_WAITING_FOR_PERIOD ).
SetState(t) ==
    /\ pc[t] = "intend" /\ Runs(t)
    /\ waiting' = waiting \cup {t}
    /\ pc' = [pc EXCEPT ![t] = "set"]
    /\ UNCHANGED <<control, isr, cur, flags, return_argument, ghosts>>

\* Mutation: the thread blocks without looking whether the timeout came first.
BugTryBlock(t) ==
    /\ pc[t] = "set" /\ Runs(t)
    /\ pc' = [pc EXCEPT ![t] = "blocked"]
    /\ flags' = [flags EXCEPT ![t] = IF @ = INTEND THEN BLOCKED ELSE @]
    /\ UNCHANGED <<control, isr, cur, waiting, return_argument, ghosts>>

\* The change from INTEND_TO_BLOCK to BLOCKED; when it fails, the timeout came
\* first and the thread unblocks itself.
TryBlock(t) ==
    /\ pc[t] = "set" /\ Runs(t)
    /\ \/ /\ flags[t] = INTEND
          /\ flags' = [flags EXCEPT ![t] = BLOCKED]
          /\ pc' = [pc EXCEPT ![t] = "blocked"]
          /\ UNCHANGED waiting
       \/ /\ flags[t] # INTEND
          /\ waiting' = waiting \ {t}
          /\ pc' = [pc EXCEPT ![t] = "run"]
          /\ UNCHANGED flags
    /\ UNCHANGED <<control, isr, cur, return_argument, ghosts>>

\* The thread is dispatched again.
Wake(t) ==
    /\ pc[t] = "blocked" /\ t \notin waiting /\ Runs(t)
    /\ pc' = [pc EXCEPT ![t] = "run"]
    /\ UNCHANGED <<control, isr, cur, waiting, flags, return_argument, ghosts>>

\* Mutation: the watchdog is not removed.
BugCancelPeriod(p) ==
    /\ state' = [state EXCEPT ![p] = "INACTIVE"]
    /\ stopped' = stopped \cup {p}
    /\ UNCHANGED <<owner, postponed_jobs, chain, isr, thread, hooked, owed>>

\* _Rate_monotonic_Cancel.
CancelPeriod(p) ==
    /\ chain' = chain \ {p}
    /\ state' = [state EXCEPT ![p] = "INACTIVE"]
    /\ stopped' = stopped \cup {p}
    /\ UNCHANGED <<owner, postponed_jobs, isr, thread, hooked, owed>>

\* rtems_rate_monotonic_cancel.
Cancel(t, p) ==
    /\ Calls(t)
    /\ p \in open /\ owner[p] = t
    /\ CancelPeriod(p)
    /\ UNCHANGED open

\* rtems_rate_monotonic_delete.
Delete(t, p) ==
    /\ Calls(t)
    /\ p \in open
    /\ owner[p] = t \/ AnyDelete
    /\ CancelPeriod(p)
    /\ open' = open \ {p}

(***************************************************************************)
(* The watchdog interrupt.                                                 *)
(***************************************************************************)

\* Mutation: the timer stays on the chain while its routine runs.
BugTick(p) ==
    /\ p \in chain
    /\ SMP \/ \A q \in Periods : isr[q] = "none"
    /\ isr[p] = "none"
    /\ isr' = [isr EXCEPT ![p] = "fired"]
    /\ owed' = [owed EXCEPT ![p] = Owed(@, 1)]
    /\ UNCHANGED <<control, thread, hooked, stopped>>

\* _Watchdog_Do_tickle takes the timer off the chain and, without the chain's
\* lock, calls _Rate_monotonic_Timeout.
Tick(p) ==
    /\ p \in chain
    /\ SMP \/ \A q \in Periods : isr[q] = "none"
    /\ isr[p] = "none"
    /\ chain' = chain \ {p}
    /\ isr' = [isr EXCEPT ![p] = "fired"]
    /\ owed' = [owed EXCEPT ![p] = Owed(@, 1)]
    /\ UNCHANGED <<open, owner, state, postponed_jobs, thread, hooked, stopped>>

\* Mutation: an owner that is blocked already is taken to be late.
BugOwnerWaits(p) ==
    /\ flags[owner[p]] = INTEND
    /\ return_argument[owner[p]] = p

\* The owner is waiting, or about to wait, for this period.
OwnerWaits(p) ==
    /\ flags[owner[p]] \in {INTEND, BLOCKED, READY_AGAIN}
    /\ return_argument[owner[p]] = p

EndWait(t) ==
    /\ return_argument' = [return_argument EXCEPT ![t] = NULL]
    /\ flags' = [flags EXCEPT ![t] = READY_AGAIN]

\* _Rate_monotonic_Timeout: the owner gets its next job.
TimeoutRestart(p) ==
    LET t == owner[p]
    IN  /\ isr[p] = "fired"
        /\ OwnerWaits(p)
        /\ EndWait(t)
        /\ isr' = [isr EXCEPT ![p] = IF flags[t] = INTEND THEN "release"
                                     ELSE "release and unblock"]
        /\ Restart(p)
        /\ owed' = [owed EXCEPT ![p] = Owed(@, -1)]
        /\ UNCHANGED <<open, owner, state, postponed_jobs, pc, cur, waiting, hooked, stopped>>

\* postponed_jobs stops at UINT32_MAX.
Postpone(p) ==
    \/ /\ postponed_jobs[p] # UINT32_MAX
       /\ postponed_jobs' = [postponed_jobs EXCEPT ![p] = @ + 1]
       /\ UNCHANGED owed
    \/ /\ postponed_jobs[p] = UINT32_MAX
       /\ owed' = [owed EXCEPT ![p] = -1]
       /\ UNCHANGED postponed_jobs

\* _Rate_monotonic_Renew_deadline: the owner is late, its job is postponed.
RenewDeadline(p) ==
    /\ isr[p] = "fired"
    /\ ~OwnerWaits(p)
    /\ Postpone(p)
    /\ state' = [state EXCEPT ![p] = "EXPIRED"]
    /\ chain' = chain \cup {p}
    /\ isr' = [isr EXCEPT ![p] = "none"]
    /\ UNCHANGED <<open, owner, thread, hooked, stopped>>

\* _Rate_monotonic_Release_job calls the FTS after releasing the lock; the
\* timeout unblocks the owner after that.
IsrCompensate(p) ==
    /\ isr[p] \in {"release", "release and unblock"}
    /\ isr' = [isr EXCEPT ![p] = IF @ = "release" THEN "none" ELSE "unblock"]
    /\ hooked' = hooked \ {p}
    /\ UNCHANGED <<control, thread, owed, stopped>>

IsrUnblock(p) ==
    /\ isr[p] = "unblock"
    /\ isr' = [isr EXCEPT ![p] = "none"]
    /\ waiting' = waiting \ {owner[p]}
    /\ UNCHANGED <<control, pc, cur, flags, return_argument, ghosts>>

Call(t, p) ==
    \/ Create(t, p) \/ Cancel(t, p) \/ Delete(t, p)
    \/ Activate(t, p) \/ BlockWhileActive(t, p) \/ BlockWhileExpired(t, p)

ThreadStep(t) == ThreadCompensate(t) \/ SetState(t) \/ TryBlock(t) \/ Wake(t)

Timeout(p) ==
    TimeoutRestart(p) \/ RenewDeadline(p) \/ IsrCompensate(p) \/ IsrUnblock(p)

Next ==
    \/ \E t \in Threads : ThreadStep(t) \/ \E p \in Periods : Call(t, p)
    \/ \E p \in Periods : Tick(p) \/ Timeout(p)

Spec == Init /\ [][Next]_vars

\* Time passes, so a timer that stays set expires; an interrupt handler
\* finishes; a thread inside the kernel proceeds whenever interrupts leave it
\* the processor time and again.  Nothing is assumed of the calls threads make.
Fairness ==
    /\ \A p \in Periods : SF_vars(Tick(p)) /\ WF_vars(Timeout(p))
    /\ \A t \in Threads : SF_vars(ThreadStep(t))

FairSpec == Spec /\ Fairness

-----------------------------------------------------------------------------
TypeOK ==
    /\ open \subseteq Periods
    /\ owner \in [Periods -> Threads \cup {NULL}]
    /\ state \in [Periods -> {"INACTIVE", "ACTIVE", "EXPIRED"}]
    /\ postponed_jobs \in [Periods -> 0 .. UINT32_MAX]
    /\ chain \subseteq Periods
    /\ isr \in [Periods -> {"none", "fired", "release", "release and unblock", "unblock"}]
    /\ pc \in [Threads -> {"run", "compensate", "intend", "set", "blocked"}]
    /\ cur \in [Threads -> Periods \cup {NULL}]
    /\ waiting \subseteq Threads
    /\ flags \in [Threads -> {"NONE", INTEND, BLOCKED, READY_AGAIN}]
    /\ return_argument \in [Threads -> Periods \cup {NULL}]
    /\ hooked \subseteq Periods
    /\ owed \in [Periods -> Int]
    /\ stopped \subseteq Periods

\* The two assertions on the wait flags: a timeout that finds its owner not
\* INTEND_TO_BLOCK finds it BLOCKED, and an owner that cannot become BLOCKED is
\* READY_AGAIN.
WaitFlagsAsserted ==
    /\ \A p \in Periods :
          isr[p] = "fired" /\ OwnerWaits(p) => flags[owner[p]] \in {INTEND, BLOCKED}
    /\ \A t \in Threads :
          pc[t] = "set" => flags[t] \in {INTEND, READY_AGAIN}

\* "As now this period was already TIMEOUT, there must be at least one
\* postponed job": the decrement of postponed_jobs never wraps.
ExpiredIsPostponed ==
    \A p \in Periods : state[p] = "EXPIRED" => postponed_jobs[p] > 0

\* A period that was started and not cancelled keeps its timer: it is on the
\* watchdog chain, or its timeout is being handled and sets it again.
TimerIsKept ==
    \A p \in Periods : state[p] # "INACTIVE" => p \in chain \/ isr[p] = "fired"

\* A thread waiting for a period is not forgotten.  As long as its flags say
\* that it waits, the period's timeout will find it; once they say READY_AGAIN,
\* it either is about to notice or is about to be unblocked.
NoLostWakeup ==
    \A t \in Threads :
        pc[t] \in {"intend", "set", "blocked"} =>
            LET p == cur[t]
            IN  IF flags[t] = READY_AGAIN
                THEN pc[t] = "blocked" /\ t \in waiting =>
                        isr[p] \in {"release and unblock", "unblock"} /\ owner[p] = t
                ELSE /\ return_argument[t] = p /\ owner[p] = t
                     /\ p \in chain \/ isr[p] = "fired"

\* Every expiration of the timer leads to one job: it is released by the
\* timeout, or postponed and released by a later call, and no job is released
\* twice, as long as postponed_jobs does not saturate.
JobsAreConserved ==
    \A p \in Periods :
        state[p] # "INACTIVE" /\ owed[p] # -1 =>
            owed[p] = postponed_jobs[p] + (IF isr[p] = "fired" THEN 1 ELSE 0)

\* The FTS releases the versions of a job only after the head of
\* rtems_rate_monotonic_period has deleted the versions of the previous one and
\* replenished the counters.
HookBeforeRelease ==
    /\ \A t \in Threads : pc[t] = "compensate" => cur[t] \in hooked
    /\ \A p \in Periods :
          isr[p] \in {"release", "release and unblock"} => p \in hooked

\* _Rate_monotonic_Cancel stops the period: a cancelled or deleted period is
\* inactive and off the watchdog chain until its owner starts it again.
CancelStops ==
    \A p \in stopped : state[p] = "INACTIVE" /\ p \notin chain

\* _Watchdog_Insert asserts that the watchdog is inactive; the two insertions
\* by _Rate_monotonic_Timeout rely on it.
InsertedOnce ==
    \A p \in Periods : isr[p] = "fired" => p \notin chain

\* A thread that waits for its period gets to run again.
BlockedWakes == \A t \in Threads : pc[t] = "blocked" ~> pc[t] = "run"
=============================================================================
