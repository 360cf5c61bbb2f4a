----------------------------- MODULE AtomicWait -----------------------------
(***************************************************************************)
(* What a thread queue promises: a thread that waits is decided once, by   *)
(* being granted, flushed or timed out, and then returns with that very    *)
(* decision.  The order is that of the queue.                              *)
(***************************************************************************)
EXTENDS Integers, Sequences, SequencesExt

CONSTANTS Threads, Codes, Prio

Undecided == "undecided"

VARIABLES
    waiters,        \* the threads that wait, first in front
    outcome         \* the decision of a thread that has not yet returned

avars == <<waiters, outcome>>

AInit ==
    /\ waiters = << >>
    /\ outcome = [t \in Threads |-> Undecided]

\* The thread begins to wait, between those that are served before it and those
\* of worse priority.
AWait(t) ==
    /\ t \notin ToSet(waiters) /\ outcome[t] = Undecided
    /\ \E i \in 1 .. Len(waiters) + 1 :
          /\ \A j \in DOMAIN waiters : j < i <=> Prio[waiters[j]] <= Prio[t]
          /\ waiters' = InsertAt(waiters, i, t)
    /\ UNCHANGED outcome

\* The first thread is granted what it waits for.
AGrant ==
    /\ waiters # << >>
    /\ waiters' = Tail(waiters)
    /\ outcome' = [outcome EXCEPT ![Head(waiters)] = "SUCCESSFUL"]

\* All threads are released or sent away.
AFlush(c) ==
    /\ waiters' = << >>
    /\ outcome' = [t \in Threads |-> IF t \in ToSet(waiters) THEN c ELSE outcome[t]]

ATimeout(t) ==
    /\ t \in ToSet(waiters)
    /\ waiters' = SelectSeq(waiters, LAMBDA u : u # t)
    /\ outcome' = [outcome EXCEPT ![t] = "TIMEOUT"]

AReturn(t) ==
    /\ outcome[t] # Undecided
    /\ outcome' = [outcome EXCEPT ![t] = Undecided]
    /\ UNCHANGED waiters

ANext ==
    \/ \E t \in Threads : AWait(t) \/ ATimeout(t) \/ AReturn(t)
    \/ AGrant
    \/ \E c \in Codes \ {"TIMEOUT"} : AFlush(c)

AFairness == \A t \in Threads : WF_avars(AReturn(t))

ASpec == AInit /\ [][ANext]_avars /\ AFairness
=============================================================================
