---------------------------- MODULE CoreObjects -----------------------------
(***************************************************************************)
(* The objects threads wait for.  A behaviour is about one object; which   *)
(* one, and whether the build is one for several processors, is fixed by   *)
(* the initial state.                                                      *)
(***************************************************************************)
EXTENDS CoreSemaphore, CoreBarrier, CoreMessageQueue

CONSTANTS
    Builds,         \* the values of smp looked at
    Kinds           \* the kinds of objects looked at

ASSUME ObjectsAssumption ==
    /\ Builds \subseteq BOOLEAN
    /\ Kinds \subseteq Semaphores \cup Barriers \cup Queues
    /\ {UINT32_MAX, MaximumCount, MaxPending, MaxOpen} \subseteq Nat \ {0}
    /\ U32 > MaximumCount
    /\ Messages \subseteq Nat \ {0}
    /\ \A type \in PosixTypes : URGENT_REQUEST < type /\ type < SEND_REQUEST

vars == <<tqvars, semvars, arrived, msgvars>>

Init ==
    /\ smp \in Builds /\ kind \in Kinds
    /\ TQInit /\ SemInit /\ BarInit /\ MsgInit
    /\ kind \notin Semaphores => count = 0

Next ==
    \/ kind \in Semaphores /\ SemNext /\ UNCHANGED <<arrived, msgvars>>
    \/ kind \in Barriers /\ BarNext /\ UNCHANGED <<semvars, msgvars>>
    \/ kind \in Queues /\ MsgNext /\ UNCHANGED <<semvars, arrived>>

Spec == Init /\ [][Next]_vars /\ TQFairness

-----------------------------------------------------------------------------
TypeOK ==
    /\ TQTypeOK
    /\ count \in 0 .. SemMaximum /\ tokens \in Nat
    /\ arrived \in 0 .. U32 - 1
    /\ inactive \in 0 .. MaxPending /\ Len(pending) <= MaxPending
    /\ open \in 0 .. MaxOpen /\ linked \in BOOLEAN
    /\ sending \in [Threads -> BOOLEAN] /\ casting \in [Threads -> BOOLEAN]

\* The doc of number_of_waiting_threads, corebarrier.h: "This element contains
\* the current number of thread waiting for this barrier to be released."
BarrierCountsWaiters == kind \in Barriers => arrived = Len(queue)

\* Nobody waits for an object that is gone: on one processor, and on several
\* for POSIX message queues, whose calls look at open_count under the lock.
GoneIsEmpty == ~alive /\ (smp => kind = "posix") => queue = << >>

\* The blocking protocol implements an atomic wait: the decision of a wait is
\* the return code from the moment the thread leaves the queue until it returns.
Atomic ==
    INSTANCE AtomicWait WITH
        waiters <- queue,
        outcome <- [t \in Threads |->
                       IF pc[t] = "idle" \/ t \in ToSet(queue) THEN "undecided"
                       ELSE code[t]]

\* Every wait is decided as the abstract specification says: once, under the
\* lock, with the first thread served first.
DecidesAtomically == Atomic!AInit /\ [][Atomic!ANext]_(Atomic!avars)

\* And the thread then returns with the decision.
ImplementsAtomicWait == Atomic!ASpec
=============================================================================
