----------------------------- MODULE CoreMutex -----------------------------
(***************************************************************************)
(* The recursive mutexes behind the Classic API semaphores                 *)
(* (_CORE_recursive_mutex and _CORE_ceiling_mutex), and the priority       *)
(* bookkeeping they drive: the priority aggregation of every thread, the   *)
(* aggregation of every wait queue, the propagation of a change along the  *)
(* path of owners, and the set of threads whose place in the scheduler is  *)
(* brought up to date after the thread queue lock is released.             *)
(*                                                                         *)
(* Uniprocessor build.  An operation runs with interrupts disabled up to   *)
(* the release of the thread queue; what it does after that, with thread   *)
(* dispatching disabled, is the action Finish, and only the clock tick     *)
(* (Timeout) comes between the two.  Any thread that is not blocked may    *)
(* make the next call: which of them really runs depends on preemption     *)
(* modes and on blocking elsewhere, which are outside this module.         *)
(* A smaller number is a better priority, as in the core.                  *)
(***************************************************************************)
EXTENDS Integers, Sequences, SequencesExt, FiniteSetsExt

CONSTANTS
  Threads,
  Inheriting,      \* mutexes with SEMAPHORE_VARIANT_MUTEX_INHERIT_PRIORITY
  Ceilings,        \* mutexes with SEMAPHORE_VARIANT_MUTEX_PRIORITY_CEILING
  Prios,           \* the priorities in use
  CeilingPrios,    \* the priorities in use as ceilings
  FirstReal,       \* the priority each thread starts with
  FirstCeiling,    \* the ceiling each ceiling mutex is created with
  MaxNest,         \* bound on nest_level of each mutex
  None

Mutexes == Inheriting \cup Ceilings

ASSUME CoreMutexAssumption ==
  /\ Prios \subseteq Nat /\ MaxNest \in [Mutexes -> Nat]
  /\ FirstReal \in [Threads -> Prios] /\ FirstCeiling \in [Ceilings -> CeilingPrios]
  /\ CeilingPrios \subseteq Prios
  /\ None \notin Threads \cup Mutexes

VARIABLES
  owner,           \* Queue.owner of each mutex
  nest,            \* nest_level
  wq,              \* the waiting threads of each mutex, best first
  waits,           \* Wait.queue of each thread
  value,           \* priority of each priority node
  nodes,           \* the nodes contributing to each thread's aggregation
  prio,            \* the priority of each thread's aggregation
  sched,           \* the priority under which the scheduler files the thread
  blocked,         \* the threads that are not ready
  busy,            \* what the call in progress still has to do
  cleared,         \* threads whose pending update was thrown away
  stale            \* an inheriting mutex was flushed with the wrong operations

vars == <<owner, nest, wq, waits, value, nodes, prio, sched, blocked, busy,
          cleared, stale>>

\* The priority nodes: a thread's real priority, a ceiling, a wait queue.
Real(t) == <<"real", t>>
Ceil(m) == <<"ceiling", m>>
Queue(m) == <<"queue", m>>
Nodes == {Real(t) : t \in Threads} \cup {Ceil(m) : m \in Ceilings}
           \cup {Queue(m) : m \in Inheriting}

\* The node of a wait queue without threads has no meaningful priority.
Unused == Min(Prios)

Init ==
  /\ owner = [m \in Mutexes |-> None]
  /\ nest = [m \in Mutexes |-> 0]
  /\ wq = [m \in Mutexes |-> <<>>]
  /\ waits = [t \in Threads |-> None]
  /\ value = [n \in Nodes |->
               CASE n[1] = "real" -> FirstReal[n[2]]
                 [] n[1] = "ceiling" -> FirstCeiling[n[2]]
                 [] OTHER -> Unused]
  /\ nodes = [t \in Threads |-> {Real(t)}]
  /\ prio = FirstReal
  /\ sched = FirstReal
  /\ blocked = {}
  /\ busy = None
  /\ cleared = {}
  /\ stale = FALSE

-----------------------------------------------------------------------------
(***************************************************************************)
(* Priority actions.  A context (Thread_queue_Context) carries the trees   *)
(* an operation is changing and the threads it has to update.              *)
(***************************************************************************)

Context == [wq |-> wq, value |-> value, nodes |-> nodes, prio |-> prio,
            updates |-> <<>>]

Commit(c) == wq' = c.wq /\ value' = c.value /\ nodes' = c.nodes /\ prio' = c.prio

\* Mutant: a thread that waits for a ceiling mutex keeps its place when its
\* priority changes.
BugPlaced(c, m, t) ==
  LET q == c.wq[m]
      rest == SelectSeq(q, LAMBDA u : u # t)
      before == Cardinality({i \in DOMAIN rest : c.prio[rest[i]] <= c.prio[t]})
  IN  IF m \in Ceilings /\ Contains(q, t) THEN c
      ELSE [c EXCEPT !.wq[m] = InsertAt(rest, before + 1, t)]

\* Red-black trees keyed by priority put a node after its equals.
Placed(c, m, t) ==
  LET rest == SelectSeq(c.wq[m], LAMBDA u : u # t)
      before == Cardinality({i \in DOMAIN rest : c.prio[rest[i]] <= c.prio[t]})
  IN  [c EXCEPT !.wq[m] = InsertAt(rest, before + 1, t)]

\* Mutant: the updates collected on the way are not dropped.
BugKept(updates, saved) == updates

\* _Thread_queue_Context_restore_priority_updates().
Kept(updates, saved) == SubSeq(updates, 1, saved)

\* _Thread_Priority_do_perform_actions() for the_thread, and
\* _Thread_Priority_perform_actions() along the owners while the best waiter
\* of an inheriting mutex changes.  The updates beyond `saved` are those of
\* threads on the way, which are blocked.
RECURSIVE Perform(_, _, _)
Perform(c, t, saved) ==
  LET p == Min({c.value[n] : n \in c.nodes[t]})
      m == waits[t]
      changed == [c EXCEPT !.prio[t] = p, !.updates = Append(@, t)]
      moved == Placed(changed, m, t)
      best == moved.prio[Head(moved.wq[m])]
  IN  IF p = c.prio[t] THEN c
      ELSE IF m = None THEN changed
      ELSE IF m \notin Inheriting \/ best = moved.value[Queue(m)] THEN moved
      ELSE Perform([moved EXCEPT !.value[Queue(m)] = best,
                                 !.updates = Kept(@, saved)],
                   owner[m], saved)

\* _Thread_Priority_apply(): the thread's own update stays in the set.
Apply(c, t) == Perform(c, t, Len(c.updates) + 1)
PriorityAdd(c, t, n) == Apply([c EXCEPT !.nodes[t] = @ \cup {n}], t)
PriorityRemove(c, t, n) == Apply([c EXCEPT !.nodes[t] = @ \ {n}], t)
PriorityChange(c, t, n, p) == Apply([c EXCEPT !.value[n] = p], t)

\* The aggregation of the wait queue of m follows its first thread, and its
\* node in the owner's aggregation with it.
Follow(c, m) ==
  IF c.wq[m] = <<>>
  THEN Perform([c EXCEPT !.nodes[owner[m]] = @ \ {Queue(m)},
                         !.value[Queue(m)] = Unused],
               owner[m], Len(c.updates))
  ELSE Perform([c EXCEPT !.nodes[owner[m]] = @ \cup {Queue(m)},
                         !.value[Queue(m)] = c.prio[Head(c.wq[m])]],
               owner[m], Len(c.updates))

\* The enqueue operation of the wait queue of m.
Enqueued(c, m, t) ==
  LET d == Placed(c, m, t) IN IF m \in Inheriting THEN Follow(d, m) ELSE d

\* The extract operation of the wait queue of m.
Extracted(c, m, t) ==
  LET d == [c EXCEPT !.wq[m] = SelectSeq(@, LAMBDA u : u # t)]
  IN  IF m \in Inheriting THEN Follow(d, m) ELSE d

-----------------------------------------------------------------------------
(***************************************************************************)
(* The calls.                                                              *)
(***************************************************************************)

MayCall(t) == busy = None /\ t \notin blocked /\ ~stale

\* Some thread may make a call whose effect does not depend on the caller.
SomeoneMayCall == busy = None /\ blocked # Threads /\ ~stale

\* The operation leaves the lock with these updates to do and threads to wake.
Leave(updates, wake) ==
  busy' = IF updates = <<>> /\ wake = {} THEN None
          ELSE [updates |-> updates, wake |-> wake]

\* Mutant: the path of owners is not followed.
BugReaches(m, t) == owner[m] = t

\* _Thread_queue_Path_acquire_critical(): following the owners from m leads
\* back to t.
RECURSIVE Reaches(_, _)
Reaches(m, t) ==
  /\ m # None /\ owner[m] # None
  /\ owner[m] = t \/ Reaches(waits[owner[m]], t)

\* The owner takes the mutex once more.
SeizeNested(t, m) ==
  /\ MayCall(t) /\ owner[m] = t /\ nest[m] < MaxNest[m]
  /\ nest' = [nest EXCEPT ![m] = @ + 1]
  /\ UNCHANGED <<owner, wq, waits, value, nodes, prio, sched, blocked, busy,
                 cleared, stale>>

\* A free mutex.  STATUS_MUTEX_CEILING_VIOLATED changes nothing.
SeizeFree(t, m) ==
  LET c == IF m \in Ceilings THEN PriorityAdd(Context, t, Ceil(m)) ELSE Context
  IN  /\ MayCall(t) /\ owner[m] = None
      /\ m \in Ceilings => prio[t] >= value[Ceil(m)]
      /\ owner' = [owner EXCEPT ![m] = t]
      /\ Commit(c) /\ Leave(c.updates, {})
      /\ UNCHANGED <<nest, waits, sched, blocked, cleared, stale>>

\* _CORE_mutex_Seize_slow() of a call that may wait.  STATUS_DEADLOCK, and
\* STATUS_UNAVAILABLE of a call that may not wait, change nothing.
SeizeSlow(t, m) ==
  LET c == Enqueued(Context, m, t)
  IN  /\ MayCall(t) /\ owner[m] \notin {None, t} /\ ~Reaches(m, t)
      /\ waits' = [waits EXCEPT ![t] = m]
      /\ blocked' = blocked \cup {t}
      /\ Commit(c) /\ Leave(c.updates, {})
      /\ UNCHANGED <<owner, nest, sched, cleared, stale>>

\* The owner gives back one of several levels.
SurrenderNested(t, m) ==
  /\ MayCall(t) /\ owner[m] = t /\ nest[m] > 0
  /\ nest' = [nest EXCEPT ![m] = @ - 1]
  /\ UNCHANGED <<owner, wq, waits, value, nodes, prio, sched, blocked, busy,
                 cleared, stale>>

\* Mutant: the queue of the remaining waiters stays with the previous owner.
BugInherited(c, m, t, new) ==
  LET d == [c EXCEPT !.wq[m] = Tail(@)]
  IN  IF d.wq[m] # <<>> THEN d
      ELSE PriorityRemove([d EXCEPT !.value[Queue(m)] = Unused], t, Queue(m))

\* _Thread_queue_Priority_inherit_do_surrender(): the node of the wait queue
\* moves from the previous owner to the new one.
Inherited(c, m, t, new) ==
  LET out == [c EXCEPT !.wq[m] = Tail(@)]
      given == PriorityRemove(out, t, Queue(m))
      taken == [given EXCEPT !.value[Queue(m)] = given.prio[Head(given.wq[m])],
                             !.nodes[new] = @ \cup {Queue(m)}]
      p == Min({taken.value[n] : n \in taken.nodes[new]})
  IN  IF given.wq[m] = <<>>
      THEN [given EXCEPT !.value[Queue(m)] = Unused]
      ELSE IF p = given.prio[new] THEN taken
      ELSE [taken EXCEPT !.prio[new] = p, !.updates = Append(@, new)]

\* _CORE_recursive_mutex_Surrender(), _Thread_queue_Surrender().
Surrender(t, m) ==
  LET new == IF wq[m] = <<>> THEN None ELSE Head(wq[m])
      c == IF new = None THEN Context ELSE Inherited(Context, m, t, new)
  IN  /\ MayCall(t) /\ owner[m] = t /\ nest[m] = 0 /\ m \in Inheriting
      /\ owner' = [owner EXCEPT ![m] = new]
      /\ waits' = [u \in Threads |-> IF u = new THEN None ELSE waits[u]]
      /\ Commit(c) /\ Leave(c.updates, {new} \ {None})
      /\ UNCHANGED <<nest, sched, blocked, cleared, stale>>

\* _CORE_ceiling_mutex_Surrender().  With a new owner the updates collected
\* for both threads are thrown away by _Thread_queue_Extract_locked().
CeilingSurrender(t, m) ==
  LET new == IF wq[m] = <<>> THEN None ELSE Head(wq[m])
      given == PriorityRemove(Context, t, Ceil(m))
      taken == Extracted(PriorityAdd(given, new, Ceil(m)), m, new)
  IN  /\ MayCall(t) /\ owner[m] = t /\ nest[m] = 0 /\ m \in Ceilings
      /\ owner' = [owner EXCEPT ![m] = new]
      /\ waits' = [u \in Threads |-> IF u = new THEN None ELSE waits[u]]
      /\ IF new = None
         THEN Commit(given) /\ Leave(given.updates, {}) /\ UNCHANGED cleared
         ELSE /\ Commit(taken) /\ Leave(<<>>, {new})
              /\ cleared' = cleared \cup ToSet(taken.updates)
      /\ UNCHANGED <<nest, sched, blocked, stale>>

\* rtems_task_set_priority() of the thread u.
TaskSetPriority(u, p) ==
  LET c == PriorityChange(Context, u, Real(u), p)
  IN  /\ SomeoneMayCall /\ value[Real(u)] # p
      /\ Commit(c) /\ Leave(c.updates, {})
      /\ UNCHANGED <<owner, nest, waits, sched, blocked, cleared, stale>>

\* rtems_semaphore_set_priority().
SemaphoreSetPriority(m, p) ==
  LET c == IF owner[m] = None THEN [Context EXCEPT !.value[Ceil(m)] = p]
           ELSE PriorityChange(Context, owner[m], Ceil(m), p)
  IN  /\ SomeoneMayCall /\ value[Ceil(m)] # p
      /\ Commit(c) /\ Leave(c.updates, {})
      /\ UNCHANGED <<owner, nest, waits, sched, blocked, cleared, stale>>

\* rtems_semaphore_flush().  The operations come from the discipline of
\* the semaphore and not from its variant: those of an inheriting mutex leave
\* the node of its wait queue in the owner's aggregation, inside heads that
\* go back to a flushed thread.  Nothing that follows is modelled.
Flush(m) ==
  /\ SomeoneMayCall /\ wq[m] # <<>>
  /\ wq' = [wq EXCEPT ![m] = <<>>]
  /\ waits' = [u \in Threads |-> IF waits[u] = m THEN None ELSE waits[u]]
  /\ Leave(<<>>, ToSet(wq[m]))
  /\ stale' = (m \in Inheriting)
  /\ UNCHANGED <<owner, nest, value, nodes, prio, sched, blocked, cleared>>

-----------------------------------------------------------------------------
(***************************************************************************)
(* The scheduler.                                                          *)
(***************************************************************************)

\* Mutant: only the threads that are woken are filed.
BugFile(updates, wake, p) ==
  /\ sched' = [t \in Threads |-> IF t \in wake THEN p[t] ELSE sched[t]]
  /\ blocked' = blocked \ wake
  /\ cleared' = cleared \ (wake \cup ToSet(updates))

\* The scheduler after _Thread_Priority_update() of these threads and the
\* unblocking of those: a thread is filed under its present priority.
File(updates, wake, p) ==
  /\ sched' = [t \in Threads |->
       IF t \in wake \/ t \in ToSet(updates) \ blocked THEN p[t] ELSE sched[t]]
  /\ blocked' = blocked \ wake
  /\ cleared' = cleared \ (wake \cup ToSet(updates))

\* What the call in progress does before it enables thread dispatching.
Finish ==
  /\ busy # None
  /\ File(busy.updates, busy.wake, prio)
  /\ busy' = None
  /\ UNCHANGED <<owner, nest, wq, waits, value, nodes, prio, stale>>

\* _Thread_Timeout(), in the clock tick.
Timeout(t) ==
  LET m == waits[t]
      c == Extracted(Context, m, t)
  IN  /\ m # None /\ ~stale
      /\ waits' = [waits EXCEPT ![t] = None]
      /\ Commit(c)
      /\ File(c.updates, {t}, c.prio)
      /\ UNCHANGED <<owner, nest, busy, stale>>

Seize(t, m) == SeizeNested(t, m) \/ SeizeFree(t, m) \/ SeizeSlow(t, m)

Next ==
  \/ \E t \in Threads, m \in Mutexes :
       \/ Seize(t, m) \/ SurrenderNested(t, m) \/ Surrender(t, m)
       \/ CeilingSurrender(t, m)
  \/ \E m \in Mutexes : Flush(m)
  \/ \E t \in Threads, p \in Prios : TaskSetPriority(t, p)
  \/ \E m \in Ceilings, p \in CeilingPrios : SemaphoreSetPriority(m, p)
  \/ Finish
  \/ \E t \in Threads : Timeout(t)

Spec == Init /\ [][Next]_vars

-----------------------------------------------------------------------------
(***************************************************************************)
(* Properties.                                                             *)
(***************************************************************************)

\* Types of the state; a queue holds the threads that wait for its mutex.
TypeOK ==
  /\ owner \in [Mutexes -> Threads \cup {None}]
  /\ \A m \in Mutexes : nest[m] \in 0..MaxNest[m]
  /\ \A m \in Mutexes : ToSet(wq[m]) = {t \in Threads : waits[t] = m}
  /\ waits \in [Threads -> Mutexes \cup {None}]
  /\ value \in [Nodes -> Prios] /\ prio \in [Threads -> Prios]
  /\ \A t \in Threads : nodes[t] \subseteq Nodes
  /\ sched \in [Threads -> Prios]
  /\ blocked \subseteq Threads /\ cleared \subseteq Threads /\ stale \in BOOLEAN

\* The threads that wait, directly or through the owners of inheriting
\* mutexes, for t; and t.
RECURSIVE Closure(_)
Closure(S) ==
  LET T == S \cup {u \in Threads : waits[u] \in Inheriting /\ owner[waits[u]] \in S}
  IN  IF T = S THEN S ELSE Closure(T)

\* The priority protocols, as their documentation states them: a thread has
\* the best of its real priority, the ceilings of the mutexes it owns, and
\* the priorities of all threads it keeps waiting on inheriting mutexes.
Protocol(t) ==
  LET S == Closure({t})
  IN  Min({value[Real(u)] : u \in S}
            \cup {value[Ceil(m)] : m \in {x \in Ceilings : owner[x] \in S}})

\* Whatever the order in which threads lock, wait, time out, change their
\* priorities and hand mutexes over, the aggregation that is maintained step
\* by step has the priority the protocols prescribe.
PriorityFollowsProtocol == \A t \in Threads : prio[t] = Protocol(t)

\* The same while no inheriting mutex with waiters was flushed.
PriorityIsInherited == stale \/ PriorityFollowsProtocol

\* The owners at the end of every chain of waits from S.
RECURSIVE Holders(_)
Holders(S) ==
  LET T == S \cup ({owner[waits[u]] : u \in {x \in S : waits[x] # None}} \ {None})
  IN  IF T = S THEN S ELSE Holders(T)

\* No thread waits for itself: the deadlock detection along the owners finds
\* every cycle before it is closed, also after hand-overs and timeouts.
NoWaitCycle ==
  \A t \in Threads : waits[t] # None => t \notin Holders({owner[waits[t]]} \ {None})

\* When dispatching is enabled again, the scheduler files every ready thread
\* under its present priority.
SchedulerIsCurrent ==
  busy = None => \A t \in Threads \ blocked : sched[t] = prio[t]

\* The same but for the threads whose update a ceiling mutex threw away.
SchedulerIsUpdated ==
  busy = None => \A t \in Threads \ (blocked \cup cleared) : sched[t] = prio[t]

\* The set of updates of a thread queue context has room for two threads.
UpdatesFit == busy # None => Len(busy.updates) <= 2

\* A mutex goes to the waiting thread with the best priority at that moment,
\* however the priorities of the waiters changed while they waited.
GoesToBest ==
  [][\A m \in Mutexes :
       owner'[m] \notin {None, owner[m]} /\ wq[m] # <<>> =>
         \A t \in Threads : waits[t] = m => prio[owner'[m]] <= prio[t]]_vars
=============================================================================
