---------------------------- MODULE ThreadQueue -----------------------------
(***************************************************************************)
(* The thread queue of one object and the protocol by which a thread       *)
(* blocks on it: score/src/threadqenqueue.c, threadqflush.c and            *)
(* threadtimeout.c.                                                        *)
(*                                                                         *)
(* A thread puts itself on the queue under the lock of the queue, releases *)
(* the lock, and only then blocks and starts its timer.  In between other  *)
(* processors, or interrupts on the same one, may already have taken it    *)
(* off again; the wait flags tell it so.  What happens under the lock is   *)
(* one step here, and every access after the release is a step of its own. *)
(*                                                                         *)
(* On one processor (smp is FALSE) no thread runs while an interrupt is    *)
(* served or while another thread has disabled thread dispatching.         *)
(***************************************************************************)
EXTENDS Integers, Sequences, SequencesExt

CONSTANTS
    Threads,
    Isr,            \* an interrupt service routine that uses the object
    Prio,           \* priorities, lower is better; all equal is the FIFO order
    Users           \* by kind of object: the actors that use it

Actors == Threads \cup {Isr}

Flags == {"INITIAL", "INTEND_TO_BLOCK", "BLOCKED", "READY_AGAIN"}
Codes == {"SUCCESSFUL", "TIMEOUT", "UNAVAILABLE", "OBJECT_WAS_DELETED"}

ASSUME QueueAssumption ==
    /\ Isr \notin Threads /\ Prio \in [Threads -> Nat]
    /\ \A k \in DOMAIN Users : Users[k] \subseteq Actors

VARIABLES
    smp,            \* built with RTEMS_SMP
    kind,           \* of the object the queue belongs to
    alive,          \* the object exists
    late,           \* actors that looked the object up before it was deleted
    queue,          \* the threads on the queue, first in front
    flags,          \* Wait.flags
    code,           \* Wait.return_code
    blocked,        \* current_state says the thread waits
    watchdog,       \* Timer.Watchdog is scheduled
    timeout,        \* _Thread_Timeout of the thread: "none", "called", "unblock"
    timed,          \* the call of the thread has a timeout
    pc,             \* where in _Thread_queue_Enqueue the thread is
    todo            \* by actor: what is left to do for the threads it took off

object == <<smp, kind, alive, late>>
wait == <<flags, code, blocked, watchdog, timeout, timed, pc, todo>>
tqvars == <<object, queue, wait>>

TQInit ==
    /\ alive = TRUE /\ late = {}
    /\ queue = << >>
    /\ flags = [t \in Threads |-> "INITIAL"]
    /\ code = [t \in Threads |-> "SUCCESSFUL"]
    /\ blocked = [t \in Threads |-> FALSE]
    /\ watchdog = [t \in Threads |-> FALSE]
    /\ timeout = [t \in Threads |-> "none"]
    /\ timed = [t \in Threads |-> FALSE]
    /\ pc = [t \in Threads |-> "idle"]
    /\ todo = [a \in Actors |-> << >>]

-----------------------------------------------------------------------------
\* Who may take a step.

InIsr == todo[Isr] # << >> \/ \E t \in Threads : timeout[t] # "none"

DispatchDisabled(t) ==
    pc[t] \in {"set_state", "set_timer", "try_block"} \/ todo[t] # << >>

MayRun(a) ==
    \/ smp \/ a = Isr
    \/ ~InIsr /\ \A u \in Threads \ {a} : ~DispatchDisabled(u)

CanCall(a) ==
    /\ a \in Users[kind]
    /\ MayRun(a)
    /\ todo[a] = << >>
    /\ a \in Threads => pc[a] = "idle"

\* The actor begins a call of the object it has looked up.
Calls(a) ==
    /\ alive \/ a \in late
    /\ CanCall(a)
    /\ late' = late \ {a}
    /\ UNCHANGED <<smp, kind, alive>>

\* The thread closes the object.  On one processor interrupts are off from the
\* look-up to the lock of the object; on several another processor may be
\* between the two.
Closes(t) ==
    /\ alive' = FALSE
    /\ late' \in IF smp THEN SUBSET {a \in Actors \ {t} : CanCall(a)} ELSE {{}}
    /\ UNCHANGED <<smp, kind>>

-----------------------------------------------------------------------------
\* What is done under the lock of the queue.

\* Mutation: a thread goes in front of those of its priority.
BugEnqueued(q, t) ==
    LET before == SelectSeq(q, LAMBDA u : Prio[u] < Prio[t])
        after  == SelectSeq(q, LAMBDA u : Prio[u] >= Prio[t])
    IN  before \o <<t>> \o after

\* The enqueue operations: behind the threads of better and of equal priority.
Enqueued(q, t) ==
    LET before == SelectSeq(q, LAMBDA u : Prio[u] <= Prio[t])
        after  == SelectSeq(q, LAMBDA u : Prio[u] > Prio[t])
    IN  before \o <<t>> \o after

\* _Thread_queue_Enqueue up to the release of the lock.
Enqueue(t, tmo) ==
    /\ queue' = Enqueued(queue, t)
    /\ code' = [code EXCEPT ![t] = "SUCCESSFUL"]
    /\ flags' = [flags EXCEPT ![t] = "INTEND_TO_BLOCK"]
    /\ timed' = [timed EXCEPT ![t] = tmo]
    /\ pc' = [pc EXCEPT ![t] = "set_state"]
    /\ UNCHANGED <<blocked, watchdog, timeout, todo>>

\* _Thread_Remove_timer_and_unblock of the threads ts, one after the other.
RemoveTimerAndUnblock(ts) ==
    [i \in 1 .. 2 * Len(ts) |->
        [op |-> IF i % 2 = 1 THEN "timer" ELSE "unblock", thread |-> ts[(i + 1) \div 2]]]

\* Mutation: threads that intend to block are unblocked as well.
BugMakeReadyAgain(a, ts) ==
    /\ flags' = [t \in Threads |-> IF t \in ToSet(ts) THEN "READY_AGAIN" ELSE flags[t]]
    /\ todo' = [todo EXCEPT ![a] = RemoveTimerAndUnblock(ts)]

\* Mutation: nobody unblocks the threads.
BugNoUnblock(a, ts) ==
    /\ flags' = [t \in Threads |-> IF t \in ToSet(ts) THEN "READY_AGAIN" ELSE flags[t]]
    /\ UNCHANGED todo

\* _Thread_queue_Make_ready_again: the actor a unblocks those that are blocked;
\* those that only intend to block find out themselves.
MakeReadyAgain(a, ts) ==
    /\ flags' = [t \in Threads |-> IF t \in ToSet(ts) THEN "READY_AGAIN" ELSE flags[t]]
    /\ todo' = [todo EXCEPT ![a] =
          RemoveTimerAndUnblock(SelectSeq(ts, LAMBDA t : flags[t] # "INTEND_TO_BLOCK"))]

\* _Thread_queue_Extract_critical of the first thread.
ExtractFirst(a) ==
    /\ queue # << >>
    /\ queue' = Tail(queue)
    /\ MakeReadyAgain(a, <<Head(queue)>>)
    /\ UNCHANGED <<code, blocked, watchdog, timeout, timed, pc>>

\* _Thread_queue_Flush_critical with a filter that sets the return code c.
Flush(a, c) ==
    /\ queue' = << >>
    /\ code' = [t \in Threads |-> IF t \in ToSet(queue) THEN c ELSE code[t]]
    /\ MakeReadyAgain(a, queue)
    /\ UNCHANGED <<blocked, watchdog, timeout, timed, pc>>

-----------------------------------------------------------------------------
\* The rest of _Thread_queue_Enqueue.

\* Mutation: the timer is started for every wait.
BugSetState(t) ==
    /\ pc[t] = "set_state"
    /\ MayRun(t)
    /\ blocked' = [blocked EXCEPT ![t] = TRUE]
    /\ pc' = [pc EXCEPT ![t] = "set_timer"]
    /\ UNCHANGED <<object, queue, flags, code, watchdog, timeout, timed, todo>>

SetState(t) ==
    /\ pc[t] = "set_state"
    /\ MayRun(t)
    /\ blocked' = [blocked EXCEPT ![t] = TRUE]
    /\ pc' = [pc EXCEPT ![t] = IF timed[t] THEN "set_timer" ELSE "try_block"]
    /\ UNCHANGED <<object, queue, flags, code, watchdog, timeout, timed, todo>>

SetTimer(t) ==
    /\ pc[t] = "set_timer"
    /\ MayRun(t)
    /\ watchdog' = [watchdog EXCEPT ![t] = TRUE]
    /\ pc' = [pc EXCEPT ![t] = "try_block"]
    /\ UNCHANGED <<object, queue, flags, code, blocked, timeout, timed, todo>>

TryBlock(t) ==
    /\ pc[t] = "try_block"
    /\ MayRun(t)
    /\ pc' = [pc EXCEPT ![t] = "wait"]
    /\ \/ /\ flags[t] = "INTEND_TO_BLOCK"
          /\ flags' = [flags EXCEPT ![t] = "BLOCKED"]
          /\ UNCHANGED todo
       \/ /\ flags[t] # "INTEND_TO_BLOCK"
          /\ todo' = [todo EXCEPT ![t] = RemoveTimerAndUnblock(<<t>>)]
          /\ UNCHANGED flags
    /\ UNCHANGED <<object, queue, code, blocked, watchdog, timeout, timed>>

\* _Thread_Timer_remove and _Thread_Unblock.
Todo(a) ==
    /\ todo[a] # << >>
    /\ MayRun(a)
    /\ todo' = [todo EXCEPT ![a] = Tail(@)]
    /\ LET next == Head(todo[a])
       IN  \/ /\ next.op = "timer"
              /\ watchdog' = [watchdog EXCEPT ![next.thread] = FALSE]
              /\ UNCHANGED blocked
           \/ /\ next.op = "unblock"
              /\ blocked' = [blocked EXCEPT ![next.thread] = FALSE]
              /\ UNCHANGED watchdog
    /\ UNCHANGED <<object, queue, flags, code, timeout, timed, pc>>

\* The thread is dispatched again and leaves _Thread_queue_Enqueue.
Return(t) ==
    /\ pc[t] = "wait"
    /\ ~blocked[t]
    /\ todo[t] = << >>
    /\ MayRun(t)
    /\ pc' = [pc EXCEPT ![t] = "idle"]
    /\ timed' = [timed EXCEPT ![t] = FALSE]
    /\ UNCHANGED <<object, queue, flags, code, blocked, watchdog, timeout, todo>>

-----------------------------------------------------------------------------
\* The timer.  The watchdog handler takes an expired watchdog out of its header
\* and calls the routine after it has released the lock of the header.
Expire(t) ==
    /\ watchdog[t]
    /\ timeout[t] = "none"
    /\ watchdog' = [watchdog EXCEPT ![t] = FALSE]
    /\ timeout' = [timeout EXCEPT ![t] = "called"]
    /\ UNCHANGED <<object, queue, flags, code, blocked, timed, pc, todo>>

\* _Thread_Timeout, under the wait lock of the thread.
Timeout(t) ==
    /\ timeout[t] = "called"
    /\ \/ /\ flags[t] = "READY_AGAIN"
          /\ timeout' = [timeout EXCEPT ![t] = "none"]
          /\ UNCHANGED <<queue, code, flags>>
       \/ /\ flags[t] # "READY_AGAIN"
          /\ queue' = SelectSeq(queue, LAMBDA u : u # t)
          /\ code' = [code EXCEPT ![t] = "TIMEOUT"]
          /\ flags' = [flags EXCEPT ![t] = "READY_AGAIN"]
          /\ timeout' = [timeout EXCEPT ![t] =
                            IF flags[t] = "INTEND_TO_BLOCK" THEN "none" ELSE "unblock"]
    /\ UNCHANGED <<object, blocked, watchdog, timed, pc, todo>>

\* _Thread_Timeout, after it has released the lock.
TimeoutUnblock(t) ==
    /\ timeout[t] = "unblock"
    /\ timeout' = [timeout EXCEPT ![t] = "none"]
    /\ blocked' = [blocked EXCEPT ![t] = FALSE]
    /\ UNCHANGED <<object, queue, flags, code, watchdog, timed, pc, todo>>

Block(t) == SetState(t) \/ SetTimer(t) \/ TryBlock(t)
Clock(t) == Expire(t) \/ Timeout(t) \/ TimeoutUnblock(t)

\* The steps that are the same for every object.
TQStep ==
    \/ \E t \in Threads : Block(t) \/ Clock(t)
    \/ \E a \in Actors : Todo(a)

\* Processors keep executing what they began, a timer that runs expires, and
\* threads of better priority do not keep a ready thread off its processor for
\* ever.
TQFairness ==
    /\ \A t \in Threads :
          WF_tqvars(Block(t)) /\ SF_tqvars(Return(t)) /\ WF_tqvars(Clock(t))
    /\ \A a \in Actors : WF_tqvars(Todo(a))

-----------------------------------------------------------------------------
TQTypeOK ==
    /\ smp \in BOOLEAN /\ alive \in BOOLEAN /\ late \subseteq Actors
    /\ queue \in Seq(Threads)
    /\ flags \in [Threads -> Flags] /\ code \in [Threads -> Codes]
    /\ blocked \in [Threads -> BOOLEAN] /\ watchdog \in [Threads -> BOOLEAN]
    /\ timed \in [Threads -> BOOLEAN]
    /\ timeout \in [Threads -> {"none", "called", "unblock"}]
    /\ pc \in [Threads -> {"idle", "set_state", "set_timer", "try_block", "wait"}]
    /\ todo \in [Actors -> Seq([op : {"timer", "unblock"}, thread : Threads])]

\* A thread goes on only when its wait was decided, and no unblocking of this
\* wait is left behind to hit a later one; on one processor no timer is either.
WaitsAreOver ==
    \A t \in Threads :
        /\ pc[t] = "wait" /\ ~blocked[t] /\ todo[t] = << >> =>
              flags[t] = "READY_AGAIN" /\ t \notin ToSet(queue)
        /\ pc[t] \in {"idle", "set_state"} =>
              /\ ~blocked[t] /\ timeout[t] # "unblock"
              /\ \A a \in Actors : \A i \in DOMAIN todo[a] : todo[a][i].thread # t
              /\ ~smp => ~watchdog[t] /\ timeout[t] = "none"

\* The assertion of _Watchdog_Insert: the watchdog of a thread that starts its
\* timer is inactive.
WatchdogInactiveAtInsert ==
    \A t \in Threads : pc[t] = "set_timer" => ~watchdog[t]

\* On one processor a wait without a timeout does not end in a timeout: the
\* timer of an earlier wait of the thread cannot reach it.
TimeoutWasAsked ==
    ~smp => \A t \in Threads : pc[t] # "idle" /\ code[t] = "TIMEOUT" => timed[t]
=============================================================================
