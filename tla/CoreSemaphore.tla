--------------------------- MODULE CoreSemaphore ----------------------------
(***************************************************************************)
(* The counting and the simple binary semaphore of coresemimpl.h, with the *)
(* Classic API calls that reach them (rtems/src/sem*.c).                   *)
(***************************************************************************)
EXTENDS ThreadQueue, FiniteSets

CONSTANT UINT32_MAX

Semaphores == {"counting", "binary"}

VARIABLES
    count,          \* the_semaphore->count
    tokens          \* releases accepted minus obtains that returned with one

semvars == <<count, tokens>>

SemInit == count \in {0, 1} /\ tokens = count

\* maximum_count as rtems_semaphore_release passes it.
SemMaximum == IF kind = "binary" THEN 1 ELSE UINT32_MAX

\* rtems_semaphore_obtain.
SemObtain(t, waits, tmo) ==
    /\ Calls(t)
    /\ \/ /\ count # 0
          /\ count' = count - 1
          /\ tokens' = tokens - 1
          /\ UNCHANGED <<queue, wait>>
       \/ /\ count = 0 /\ waits
          /\ Enqueue(t, tmo)
          /\ UNCHANGED semvars

\* Mutation: the count goes up although a thread is served.
BugSemRelease(a) ==
    /\ Calls(a)
    /\ count < SemMaximum
    /\ count' = count + 1
    /\ tokens' = tokens + 1
    /\ IF queue = << >> THEN UNCHANGED <<queue, wait>> ELSE ExtractFirst(a)

\* rtems_semaphore_release; it changes nothing when the maximum is reached.
SemRelease(a) ==
    /\ Calls(a)
    /\ \/ /\ ExtractFirst(a)
          /\ tokens' = tokens + 1
          /\ UNCHANGED count
       \/ /\ queue = << >> /\ count < SemMaximum
          /\ count' = count + 1
          /\ tokens' = tokens + 1
          /\ UNCHANGED <<queue, wait>>

\* Mutation: the filter leaves the return code alone.
BugSemFlush(a) == Calls(a) /\ Flush(a, "SUCCESSFUL") /\ UNCHANGED semvars

\* rtems_semaphore_flush.
SemFlush(a) ==
    /\ Calls(a)
    /\ Flush(a, "UNAVAILABLE")
    /\ UNCHANGED semvars

\* rtems_semaphore_delete.
SemDelete(t) ==
    /\ alive /\ CanCall(t)
    /\ Closes(t)
    /\ Flush(t, "OBJECT_WAS_DELETED")
    /\ UNCHANGED semvars

\* The end of an obtain that waited.
SemReturn(t) ==
    /\ Return(t)
    /\ tokens' = IF code[t] = "SUCCESSFUL" THEN tokens - 1 ELSE tokens
    /\ UNCHANGED count

SemNext ==
    \/ \E t \in Threads :
          \/ \E waits, tmo \in BOOLEAN : SemObtain(t, waits, tmo)
          \/ SemDelete(t) \/ SemReturn(t)
    \/ \E a \in Actors : SemRelease(a) \/ SemFlush(a)
    \/ TQStep /\ UNCHANGED semvars

-----------------------------------------------------------------------------
\* Nobody waits for a semaphore that is available.
NoIdleToken == kind \in Semaphores /\ count > 0 => queue = << >>

\* Every release is obtained once: those not yet obtained are the count and the
\* threads that were served and have not returned.  A timeout or a flush that
\* races with a release neither swallows nor doubles it.
Served == {t \in Threads : /\ pc[t] # "idle" /\ t \notin ToSet(queue)
                           /\ code[t] = "SUCCESSFUL"}

TokensConserved ==
    kind \in Semaphores => tokens = count + Cardinality(Served)
=============================================================================
