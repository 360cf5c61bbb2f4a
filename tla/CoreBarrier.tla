---------------------------- MODULE CoreBarrier -----------------------------
(***************************************************************************)
(* The barrier of corebarrierwait.c and corebarrierrelease.c, with the     *)
(* Classic API calls that reach it (rtems/src/barrier*.c).                 *)
(***************************************************************************)
EXTENDS ThreadQueue

CONSTANTS
    MaximumCount,   \* threads that trip the automatic release
    U32             \* number_of_waiting_threads wraps at U32

Barriers == {"automatic", "manual"}

VARIABLE arrived    \* number_of_waiting_threads

BarInit == arrived = 0

\* Mutation: the arriving thread is not counted in the comparison.
BugTrips(n) == kind = "automatic" /\ n = MaximumCount + 1

Trips(n) == kind = "automatic" /\ n = MaximumCount

\* rtems_barrier_wait: the thread that trips an automatic barrier does not wait.
BarWait(t, tmo) ==
    LET n == (arrived + 1) % U32
    IN  /\ Calls(t)
        /\ \/ /\ Trips(n)
              /\ arrived' = 0
              /\ Flush(t, "SUCCESSFUL")
           \/ /\ ~Trips(n)
              /\ arrived' = n
              /\ Enqueue(t, tmo)

\* rtems_barrier_release; the filter leaves the return codes alone, which
\* _Thread_queue_Enqueue has set to SUCCESSFUL.
BarRelease(a) ==
    /\ Calls(a)
    /\ arrived' = 0
    /\ Flush(a, "SUCCESSFUL")

\* rtems_barrier_delete.
BarDelete(t) ==
    /\ alive /\ CanCall(t)
    /\ Closes(t)
    /\ arrived' = 0
    /\ Flush(t, "OBJECT_WAS_DELETED")

BarNext ==
    \/ \E t \in Threads :
          \/ \E tmo \in BOOLEAN : BarWait(t, tmo)
          \/ BarDelete(t)
    \/ \E a \in Actors : BarRelease(a)
    \/ (TQStep \/ \E t \in Threads : Return(t)) /\ UNCHANGED arrived

-----------------------------------------------------------------------------
\* An automatic barrier never keeps as many threads as trip it, whichever of
\* them time out meanwhile.
BarrierNeverFull == kind = "automatic" => Len(queue) < MaximumCount
=============================================================================
