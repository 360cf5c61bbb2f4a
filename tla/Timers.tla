------------------------------- MODULE Timers -------------------------------
(***************************************************************************)
(* The Classic API timers: rtems/src/timer*.c on the watchdog headers of   *)
(* score/src/watchdog*.c, with the clock tick and the timer server task.   *)
(*                                                                         *)
(* A header is the sequence of its watchdogs in the order of the red-black *)
(* tree; the time of expiry is kept as what is left of it.  An operation   *)
(* on a timer is one step (it holds the lock of the header, and the lock   *)
(* of the server inside it).  The clock tick gives the lock back around    *)
(* every service routine, and the server around every timer routine.       *)
(* Service routines run with interrupts enabled, but no interrupt that     *)
(* nests into the clock tick uses a timer.                                 *)
(***************************************************************************)
EXTENDS Naturals, FiniteSets, Sequences, SequencesExt

CONSTANTS
    Timer,          \* timer control blocks
    Cpus, Boot,     \* processors; a uniprocessor has Boot
    Intervals,      \* ticks or seconds asked for
    Builds          \* values of RTEMS_SMP

None == "none"
Classes == {"dormant", "interval", "interval_task", "tod", "tod_task"}
OnTask  == {"interval_task", "tod_task"}
Clocks  == {"relative", "absolute"}

ASSUME TimersAssumption ==
    /\ Boot \in Cpus /\ Intervals \subseteq Nat \ {0}
    /\ Builds \subseteq BOOLEAN /\ None \notin Timer

VARIABLES
    smp,
    alive,          \* timers created and not deleted
    home,           \* by timer: the processor of its watchdog
    class,          \* by timer: the_class
    state,          \* by timer: scheduled, pending or inactive
    initial,        \* by timer: the interval rtems_timer_reset would use
    left,           \* by timer: expire, less the time now
    header,         \* header[c][k]: the watchdogs of clock k of processor c
    pending,        \* the Pending chain of the server
    server,         \* the server task
    event,          \* RTEMS_EVENT_SYSTEM_SERVER is pending
    tick,           \* by processor: where the clock tick is
    runs,           \* by timer: runs of its routine, modulo 2
    broken          \* a watchdog was put where it must not be

timervars == <<alive, home, class, state, initial, left, header>>
servervars == <<pending, server, event>>
vars == <<smp, timervars, servervars, tick, runs, broken>>

Active == IF smp THEN Cpus ELSE {Boot}
NoTick == [at |-> "idle", clock |-> "relative", timer |-> None, task |-> FALSE]

Init ==
    /\ smp \in Builds
    /\ alive = {}
    /\ home = [t \in Timer |-> Boot]
    /\ class = [t \in Timer |-> "dormant"]
    /\ state = [t \in Timer |-> "inactive"]
    /\ initial = [t \in Timer |-> 0]
    /\ left = [t \in Timer |-> 0]
    /\ header = [c \in Cpus |-> [k \in Clocks |-> << >>]]
    /\ pending = << >>
    /\ server = "none"
    /\ event = FALSE
    /\ tick = [c \in Cpus |-> NoTick]
    /\ runs = [t \in Timer |-> 0]
    /\ broken = FALSE

-----------------------------------------------------------------------------
(* Watchdog headers. *)

\* _Timer_Watchdog_header_index.
ClockOf(cl) == IF cl \in {"tod", "tod_task"} THEN "absolute" ELSE "relative"

Removed(s, t) == SelectSeq(s, LAMBDA u : u # t)

\* Mutation: the descent always goes to the right.
BugPlaced(s, t, d) == Append(s, t)

\* The descent of _Watchdog_Insert: behind every watchdog that expires no later.
Placed(s, t, d) ==
    LET n == Cardinality({i \in 1 .. Len(s) : left[s[i]] <= d})
    IN  SubSeq(s, 1, n) \o <<t>> \o SubSeq(s, n + 1, Len(s))

\* _Watchdog_Insert, into headers h.
Insert(h, t, k, d) == [h EXCEPT ![home[t]][k] = Placed(@, t, d)]

\* Mutation: the header of the relative clock in all cases.
BugTakenOut(t) == [header EXCEPT ![home[t]]["relative"] = Removed(@, t)]

\* The header after _Timer_Cancel: the one of the class the timer was armed with.
TakenOut(t) ==
    IF state[t] = "scheduled"
    THEN [header EXCEPT ![home[t]][ClockOf(class[t])] = Removed(@, t)]
    ELSE header

\* The Pending chain after _Timer_Cancel.
Unpended(t) ==
    IF state[t] = "pending" /\ class[t] \in OnTask THEN Removed(pending, t) ELSE pending

\* The state after _Timer_Cancel.
Cancelled(t) ==
    IF state[t] = "pending" /\ class[t] \notin OnTask THEN "pending" ELSE "inactive"

-----------------------------------------------------------------------------
(* Operations on timers. *)

\* A task, an interrupt service routine or a timer routine calls: on a
\* uniprocessor the clock tick lets nobody in except the routine it calls.
CanCall == smp \/ tick[Boot].at \in {"idle", "routine"}

\* rtems_timer_create.
Create(t) ==
    /\ CanCall /\ t \notin alive
    /\ alive' = alive \cup {t}
    /\ \E c \in Active : home' = [home EXCEPT ![t] = c]
    /\ class' = [class EXCEPT ![t] = "dormant"]
    /\ state' = [state EXCEPT ![t] = "inactive"]
    /\ UNCHANGED <<smp, initial, left, header, servervars, tick, runs, broken>>

\* _Timer_Cancel, _Watchdog_Initialize and _Watchdog_Insert of _Timer_Fire and
\* rtems_timer_reset.
Rearm(t, cl, d) ==
    /\ broken' = (Cancelled(t) # "inactive" \/ t \in ToSet(Unpended(t)))
    /\ header' = Insert(TakenOut(t), t, ClockOf(cl), d)
    /\ pending' = Unpended(t)
    /\ state' = [state EXCEPT ![t] = "scheduled"]
    /\ left' = [left EXCEPT ![t] = d]

\* rtems_timer_fire_after, _fire_when, _server_fire_after, _server_fire_when.
Fire(t, cl, d) ==
    /\ CanCall /\ t \in alive
    /\ cl \in OnTask => server # "none"
    /\ Rearm(t, cl, d)
    /\ class' = [class EXCEPT ![t] = cl]
    /\ initial' = [initial EXCEPT ![t] = IF ClockOf(cl) = "relative" THEN d ELSE 0]
    /\ UNCHANGED <<smp, alive, home, server, event, tick, runs>>

\* rtems_timer_reset.
Reset(t) ==
    /\ CanCall /\ t \in alive
    /\ class[t] \in {"interval", "interval_task"}
    /\ Rearm(t, class[t], initial[t])
    /\ UNCHANGED <<smp, alive, home, class, initial, server, event, tick, runs>>

\* _Timer_Cancel.
CancelTimer(t) ==
    /\ header' = TakenOut(t)
    /\ pending' = Unpended(t)
    /\ state' = [state EXCEPT ![t] = Cancelled(t)]
    /\ left' = [left EXCEPT ![t] = 0]

\* rtems_timer_cancel.
Cancel(t) ==
    /\ CanCall /\ t \in alive
    /\ CancelTimer(t)
    /\ UNCHANGED <<smp, alive, home, class, initial, server, event, tick, runs, broken>>

\* rtems_timer_delete.  The class and the interval of a free control block are
\* not looked at again.
Delete(t) ==
    /\ CanCall /\ t \in alive
    /\ alive' = alive \ {t}
    /\ CancelTimer(t)
    /\ class' = [class EXCEPT ![t] = "dormant"]
    /\ initial' = [initial EXCEPT ![t] = 0]
    /\ UNCHANGED <<smp, home, server, event, tick, runs, broken>>

-----------------------------------------------------------------------------
(* The clock tick. *)

\* The time of clock k of processor c moves on.
Advance(c, k) ==
    left' = [t \in Timer |->
                IF t \in ToSet(header[c][k]) /\ left[t] > 0 THEN left[t] - 1 ELSE left[t]]

\* _Watchdog_Tick begins.
Tick(c) ==
    /\ c \in Active /\ tick[c].at = "idle"
    /\ tick' = [tick EXCEPT ![c] = [NoTick EXCEPT !.at = "loop"]]
    /\ Advance(c, "relative")
    /\ UNCHANGED <<smp, alive, home, class, state, initial, header, servervars, runs, broken>>

Due(c) == LET s == header[c][tick[c].clock]
          IN  s # << >> /\ left[Head(s)] = 0

\* _Watchdog_Do_tickle takes the first watchdog out and gives the lock back.
Expire(c) ==
    LET k == tick[c].clock
        t == Head(header[c][k])
    IN  /\ tick[c].at = "loop" /\ Due(c)
        /\ header' = [header EXCEPT ![c][k] = Tail(@)]
        /\ state' = [state EXCEPT ![t] = "inactive"]
        /\ tick' = [tick EXCEPT ![c] = [at |-> "expired", clock |-> k, timer |-> t,
                                        task |-> class[t] \in OnTask]]
        /\ UNCHANGED <<smp, alive, home, class, initial, left, servervars, runs, broken>>

\* The routine of timer t begins; the runs are counted on a uniprocessor only.
Ran(t) == runs' = IF smp THEN runs ELSE [runs EXCEPT ![t] = 1 - @]

\* _Timer_Routine_adaptor.
RunRoutine(c) ==
    LET t == tick[c].timer
    IN  /\ tick[c].at = "expired" /\ ~tick[c].task
        /\ Ran(t)
        /\ tick' = [tick EXCEPT ![c].at = "routine", ![c].timer = None]
        /\ UNCHANGED <<smp, timervars, servervars, broken>>

\* Mutation: the server is woken up only if it was seen waiting.
BugWakeup == pending = << >> /\ server = "wait"

Wakeup == pending = << >>

\* _Timer_server_Routine_adaptor, to the release of the lock.
Pend(c) ==
    LET t == tick[c].timer
    IN  /\ tick[c].at = "expired" /\ tick[c].task
        /\ broken' = (state[t] # "inactive" \/ t \in ToSet(pending))
        /\ state' = [state EXCEPT ![t] = "pending"]
        /\ pending' = Append(pending, t)
        /\ tick' = [tick EXCEPT ![c].at = IF Wakeup THEN "wakeup" ELSE "loop",
                                ![c].timer = None, ![c].task = FALSE]
        /\ UNCHANGED <<smp, alive, home, class, initial, left, header, server, event, runs>>

\* Its rtems_event_system_send.
Send(c) ==
    /\ tick[c].at = "wakeup"
    /\ tick' = [tick EXCEPT ![c].at = "loop"]
    /\ \/ server = "wait" /\ server' = "body" /\ UNCHANGED event
       \/ server # "wait" /\ event' = TRUE /\ UNCHANGED server
    /\ UNCHANGED <<smp, timervars, pending, runs, broken>>

\* The timer routine called by the clock tick returns.
RoutineReturns(c) ==
    /\ tick[c].at = "routine"
    /\ tick' = [tick EXCEPT ![c].at = "loop"]
    /\ UNCHANGED <<smp, timervars, servervars, runs, broken>>

\* No watchdog of the relative clock has expired: on to the absolute one, on
\* which a second may have passed since the last tick.
ToAbsolute(c) ==
    /\ tick[c].at = "loop" /\ tick[c].clock = "relative" /\ ~Due(c)
    /\ tick' = [tick EXCEPT ![c].clock = "absolute"]
    /\ Advance(c, "absolute") \/ UNCHANGED left
    /\ UNCHANGED <<smp, alive, home, class, state, initial, header, servervars, runs, broken>>

EndTick(c) ==
    /\ tick[c].at = "loop" /\ tick[c].clock = "absolute" /\ ~Due(c)
    /\ tick' = [tick EXCEPT ![c] = NoTick]
    /\ UNCHANGED <<smp, timervars, servervars, runs, broken>>

-----------------------------------------------------------------------------
(* The timer server. *)

\* Tasks run while no clock tick does, or on another processor.
TaskRuns == smp \/ tick[Boot].at = "idle"

\* _Timer_server_Initiate, to the assignment of _Timer_server.
Initiate ==
    /\ TaskRuns /\ server = "none"
    /\ server' = "created"
    /\ UNCHANGED <<smp, timervars, pending, event, tick, runs, broken>>

\* Its rtems_task_start.
StartServer ==
    /\ TaskRuns /\ server = "created"
    /\ server' = "body"
    /\ UNCHANGED <<smp, timervars, pending, event, tick, runs, broken>>

\* _Timer_server_Body takes a timer and calls its routine.
Serve ==
    LET t == Head(pending)
    IN  /\ TaskRuns /\ server = "body" /\ pending # << >>
        /\ broken' = (state[t] # "pending")
        /\ state' = [state EXCEPT ![t] = "inactive"]
        /\ pending' = Tail(pending)
        /\ Ran(t)
        /\ server' = "routine"
        /\ UNCHANGED <<smp, alive, home, class, initial, left, header, event, tick>>

ServerRoutineReturns ==
    /\ TaskRuns /\ server = "routine"
    /\ server' = "body"
    /\ UNCHANGED <<smp, timervars, pending, event, tick, runs, broken>>

\* The chain is empty: the lock is released.
ServerLeaves ==
    /\ TaskRuns /\ server = "body" /\ pending = << >>
    /\ server' = "receive"
    /\ UNCHANGED <<smp, timervars, pending, event, tick, runs, broken>>

\* rtems_event_system_receive.
Receive ==
    /\ TaskRuns /\ server = "receive"
    /\ event' = FALSE
    /\ server' = IF event THEN "body" ELSE "wait"
    /\ UNCHANGED <<smp, timervars, pending, tick, runs, broken>>

-----------------------------------------------------------------------------
TickStep(c) ==
    \/ Tick(c) \/ Expire(c) \/ RunRoutine(c) \/ Pend(c) \/ Send(c)
    \/ RoutineReturns(c) \/ ToAbsolute(c) \/ EndTick(c)

ServerStep ==
    StartServer \/ Serve \/ ServerRoutineReturns \/ ServerLeaves \/ Receive

Call(t) ==
    \/ Create(t) \/ Delete(t) \/ Cancel(t) \/ Reset(t)
    \/ \E cl \in Classes \ {"dormant"}, d \in Intervals : Fire(t, cl, d)

\* A broken chain or tree is the end of what can be said.
Next ==
    /\ ~broken
    /\ \/ \E t \in Timer : Call(t)
       \/ \E c \in Cpus : TickStep(c)
       \/ Initiate \/ ServerStep

\* The clock ticks, routines return, and the clock ticks leave time for the
\* server, the task of the highest priority.
Spec ==
    /\ Init /\ [][Next]_vars
    /\ \A c \in Cpus : WF_vars(~broken /\ TickStep(c))
    /\ SF_vars(~broken /\ ServerStep)

-----------------------------------------------------------------------------
TypeOK ==
    /\ smp \in BOOLEAN /\ alive \subseteq Timer
    /\ home \in [Timer -> Cpus] /\ class \in [Timer -> Classes]
    /\ state \in [Timer -> {"scheduled", "pending", "inactive"}]
    /\ initial \in [Timer -> Intervals \cup {0}] /\ left \in [Timer -> Intervals \cup {0}]
    /\ \A c \in Cpus, k \in Clocks : header[c][k] \in Seq(Timer)
    /\ pending \in Seq(Timer)
    /\ server \in {"none", "created", "body", "routine", "receive", "wait"}
    /\ event \in BOOLEAN /\ broken \in BOOLEAN
    /\ \A c \in Cpus : tick[c].at \in {"idle", "loop", "expired", "wakeup", "routine"}

Places(t) ==
    {<<c, k, i>> \in Cpus \X Clocks \X (1 .. Cardinality(Timer)) :
        i <= Len(header[c][k]) /\ header[c][k][i] = t}

\* The state kept in the node of a watchdog, which decides how _Timer_Cancel gets
\* rid of it, is right: a scheduled one is once in the header of its processor
\* and class, any other is in no header, and on a uniprocessor the pending ones
\* are those of the Pending chain, which their class lets _Timer_Cancel look at.
StateIsPlace ==
    ~broken =>
        \A t \in Timer :
            /\ IF state[t] = "scheduled"
               THEN \E i \in 1 .. Cardinality(Timer) :
                        Places(t) = {<<home[t], ClockOf(class[t]), i>>}
               ELSE Places(t) = {}
            /\ ~smp => /\ state[t] = "pending" <=> t \in ToSet(pending)
                       /\ state[t] = "pending" => t \in alive /\ class[t] \in OnTask

\* The server does not sleep over a timer: while one is on the Pending chain and
\* the server is to wait, the event is pending or a clock tick is about to send
\* it, although only the first timer of the chain sends it, _Timer_Cancel may
\* take that one away, and the server looks before it waits.
NoLostWakeup ==
    pending # << >> /\ server \in {"receive", "wait"} =>
        \/ server = "receive" /\ event
        \/ \E c \in Cpus : tick[c].at = "wakeup"

Armed == IF smp THEN {}
         ELSE {t \in Timer : state[t] # "inactive" \/ tick[Boot].timer = t}

Promise == INSTANCE TimerPromise WITH
    Timers <- Timer,
    armed  <- Armed,
    left   <- [t \in Timer |-> IF t \in Armed THEN left[t] ELSE 0],
    arming <- [t \in Timer |->
                  IF t \in Armed
                  THEN [kind |-> IF ClockOf(class[t]) = "relative" THEN "after" ELSE "when",
                        task |-> class[t] \in OnTask]
                  ELSE [kind |-> "after", task |-> FALSE]],
    runs   <- [t \in Timer |-> IF smp THEN 0 ELSE runs[t]]

\* On a uniprocessor the timers keep the promise of TimerPromise.
KeepsPromise == Promise!PSpec

\* timerserver.c asserts that the watchdog handed to _Timer_server_Routine_adaptor
\* is inactive.
AdaptorFindsInactive ==
    [][\A c \in Cpus : Pend(c) => state[tick[c].timer] = "inactive"]_vars
=============================================================================
