---------------------------- MODULE TimerPromise ----------------------------
(***************************************************************************)
(* What the timer manager promises: the routine of a timer runs once for   *)
(* every time the timer is armed, unless it is disarmed before; it never   *)
(* runs before the interval is over; in the context of the clock tick it   *)
(* runs in the tick that ends the interval, in the context of the server   *)
(* task it runs later, but it does run.                                    *)
(***************************************************************************)
EXTENDS Naturals

CONSTANTS Timers, Intervals

Kinds == {"after", "when"}

VARIABLES
    armed,      \* timers that are to run
    left,       \* by timer: ticks or seconds left
    arming,     \* by timer: [kind, task] of its arming
    runs        \* by timer: runs of its routine, modulo 2

pvars == <<armed, left, arming, runs>>

PInit ==
    /\ armed = {}
    /\ left = [t \in Timers |-> 0]
    /\ arming = [t \in Timers |-> [kind |-> "after", task |-> FALSE]]
    /\ runs = [t \in Timers |-> 0]

Arm(t) ==
    /\ armed' = armed \cup {t}
    /\ \E d \in Intervals : left' = [left EXCEPT ![t] = d]
    /\ \E k \in Kinds, b \in BOOLEAN :
           arming' = [arming EXCEPT ![t] = [kind |-> k, task |-> b]]
    /\ UNCHANGED runs

Disarm(t) ==
    /\ t \in armed
    /\ armed' = armed \ {t}
    /\ left' = [left EXCEPT ![t] = 0]
    /\ arming' = [arming EXCEPT ![t] = [kind |-> "after", task |-> FALSE]]
    /\ UNCHANGED runs

\* A tick, or a second, is over.
Pass(k) ==
    /\ \A t \in armed : arming[t].kind = k /\ ~arming[t].task => left[t] > 0
    /\ left' = [t \in Timers |-> IF t \in armed /\ arming[t].kind = k /\ left[t] > 0
                                 THEN left[t] - 1 ELSE left[t]]
    /\ UNCHANGED <<armed, arming, runs>>

Run(t) ==
    /\ t \in armed /\ left[t] = 0
    /\ armed' = armed \ {t}
    /\ arming' = [arming EXCEPT ![t] = [kind |-> "after", task |-> FALSE]]
    /\ runs' = [runs EXCEPT ![t] = 1 - @]
    /\ UNCHANGED left

PNext ==
    \/ \E t \in Timers : Arm(t) \/ Disarm(t) \/ Run(t)
    \/ \E k \in Kinds : Pass(k)

PSpec == PInit /\ [][PNext]_pvars /\ \A t \in Timers : WF_pvars(Run(t))
=============================================================================
