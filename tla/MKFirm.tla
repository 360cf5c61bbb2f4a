------------------------------- MODULE MKFirm -------------------------------
(***************************************************************************)
(* What the fault-tolerance scheduler promises for one protected task with *)
(* constraint (M,K): of any K consecutive jobs at least M are correct      *)
(* (final_report/chapter2.tex).  Equivalently a job may end incorrectly    *)
(* only when the (K-M)-th most recent incorrect job is at least K jobs old.*)
(* The state is that age, for the last K-M incorrect jobs.                 *)
(***************************************************************************)
EXTENDS Naturals

CONSTANTS M, K

VARIABLE since   \* since[n]: jobs ended since the n-th most recent incorrect
                 \* one, itself included, counted up to K

Tolerance == K - M

Ages == 0 .. K

Older(age) == IF age < K THEN age + 1 ELSE K

Init == since = [n \in 1 .. Tolerance |-> K]

\* A job delivers a correct result: its version was not hit by a fault, or the
\* correction version ran.
JobOK == since' = [n \in 1 .. Tolerance |-> Older(since[n])]

\* A job is left incorrect, the fault being tolerated.
JobBad ==
    /\ Tolerance > 0
    /\ since[Tolerance] = K
    /\ since' = [n \in 1 .. Tolerance |->
                    IF n = 1 THEN 1 ELSE Older(since[n - 1])]

Next == JobOK \/ JobBad

Spec == Init /\ [][Next]_since

TypeOK == since \in [1 .. Tolerance -> Ages]
=============================================================================
