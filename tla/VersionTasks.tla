---------------------------- MODULE VersionTasks ----------------------------
(***************************************************************************)
(* The tasks that execute the versions: release_task creates and starts    *)
(* them (rtems/src/fts_t.c), rtems_rate_monotonic_period deletes those of  *)
(* the previous period, and the version functions of the applications      *)
(* delete themselves.  Task ids come from one pool: a deleted task's id is *)
(* appended to the chain of free ids and given out again unchanged.        *)
(*                                                                         *)
(* release_task is three steps, for it may be interrupted between them and *)
(* uses the global Task_id.  On the single processor the interrupting      *)
(* release_task (of another owner, or of a timeout) finishes first: calls  *)
(* is a stack.                                                             *)
(***************************************************************************)
EXTENDS Naturals, Sequences, FiniteSets

CONSTANTS
    Periods,
    N,              \* the largest number of task ids
    Usages          \* the ways of using the FTS looked at, records of
                    \*  ids: CONFIGURE_MAXIMUM_TASKS left for versions
                    \*  selfDelete: versions end with rtems_task_delete(self)
                    \*  preempt: a release_task may interrupt another one
                    \*  appTasks: tasks of the application at one time

ASSUME VersionAssumption ==
    /\ N \in Nat \ {0}
    /\ Usages \subseteq [ids : 1 .. N, selfDelete : BOOLEAN, preempt : BOOLEAN,
                         appTasks : 0 .. N]

Version == {"BASIC", "DETECTION", "CORRECTION"}
InOrder == <<"BASIC", "DETECTION", "CORRECTION">>
App     == "app"
NoTask  == [creator |-> "none", state |-> "none"]

VARIABLES
    usage,          \* fixed by the initial state
    free,           \* the chain of free task ids
    task,           \* by id: the period it was created for, and its state
    Task_id,        \* by version
    running_id,     \* by period and version
    calls,          \* the release_task calls in progress, innermost first
    stage           \* by period: what its current job is at

vars == <<usage, free, task, Task_id, running_id, calls, stage>>

TaskIds == 1 .. usage.ids              \* an id is never 0

NoIds == [v \in Version |-> 0]

Init ==
    /\ usage \in Usages
    /\ free = [n \in TaskIds |-> n]
    /\ task = [n \in TaskIds |-> NoTask]
    /\ Task_id = NoIds
    /\ running_id = [p \in Periods |-> NoIds]
    /\ calls = << >>
    /\ stage = [p \in Periods |-> "ended"]

Releasing(p) == \E n \in 1 .. Len(calls) : calls[n].p = p

\* A new activity can start in the middle of a release_task only by preemption.
MayRun == calls = << >> \/ usage.preempt

Exists(id) == id # 0 /\ task[id].state # "none"

\* Mutation: the correction version is forgotten.
BugToDelete(p) ==
    SelectSeq(<<running_id[p]["BASIC"], running_id[p]["DETECTION"]>>, Exists)

\* rtems_rate_monotonic_period deletes the tasks of the last period, in the order
\* basic, detection, correction; an id of no task, or one already deleted here,
\* is refused.
ToDelete(p) ==
    LET id(n) == running_id[p][InOrder[n]]
        Deleted(n) == Exists(id(n)) /\ \A j \in 1 .. n - 1 : id(j) # id(n)
        gone == SelectSeq(<<1, 2, 3>>, Deleted)
    IN  [n \in 1 .. Len(gone) |-> id(gone[n])]

ForgetIds(p) == running_id' = [running_id EXCEPT ![p] = NoIds]

DeleteVersions(p) ==
    LET gone == ToDelete(p)
    IN  /\ MayRun /\ ~Releasing(p)
        /\ stage[p] # "begun"
        /\ stage' = [stage EXCEPT ![p] = "begun"]
        /\ free' = free \o gone
        /\ task' = [t \in TaskIds |->
                      IF \E n \in 1 .. Len(gone) : gone[n] = t THEN NoTask ELSE task[t]]
        /\ ForgetIds(p)
        /\ UNCHANGED <<usage, Task_id, calls>>

Call(p, v) == calls' = <<[p |-> p, v |-> v, pc |-> "create"]>> \o calls

\* fts_compensate_t calls release_task for the new job.
ReleaseJob(p, v) ==
    /\ MayRun
    /\ stage[p] = "begun"
    /\ stage' = [stage EXCEPT ![p] = "released"]
    /\ Call(p, v)
    /\ UNCHANGED <<usage, free, task, Task_id, running_id>>

\* fault_detection_routine, called by the running detection version, releases
\* the correction version.
Recover(p) ==
    /\ MayRun /\ ~Releasing(p)
    /\ stage[p] = "released"
    /\ running_id[p]["DETECTION"] # 0
    /\ \E t \in TaskIds : task[t] = [creator |-> p, state |-> "running"]
    /\ stage' = [stage EXCEPT ![p] = "recovered"]
    /\ Call(p, "CORRECTION")
    /\ UNCHANGED <<usage, free, task, Task_id, running_id>>

Continue(pc) == calls' = [calls EXCEPT ![1].pc = pc]

\* release_task: rtems_task_create( ..., &Task_id[ v ] ).  When no id is free
\* the call fails, and Task_id is left alone.
rtems_task_create ==
    /\ calls # << >> /\ Head(calls).pc = "create"
    /\ Continue("note")
    /\ \/ /\ free # << >>
          /\ free' = Tail(free)
          /\ task' = [task EXCEPT ![Head(free)] =
                         [creator |-> Head(calls).p, state |-> "dormant"]]
          /\ Task_id' = [Task_id EXCEPT ![Head(calls).v] = Head(free)]
       \/ /\ free = << >>
          /\ UNCHANGED <<free, task, Task_id>>
    /\ UNCHANGED <<usage, running_id, stage>>

\* Mutation: the id is noted at the index of another period.
BugNoteRunning ==
    /\ calls # << >> /\ Head(calls).pc = "note"
    /\ Continue("start")
    /\ \E p \in Periods \ {Head(calls).p} :
          running_id' = [running_id EXCEPT ![p][Head(calls).v] = Task_id[Head(calls).v]]
    /\ UNCHANGED <<usage, free, task, Task_id, stage>>

\* release_task: running_id[i] = Task_id[ v ].
NoteRunning ==
    /\ calls # << >> /\ Head(calls).pc = "note"
    /\ Continue("start")
    /\ running_id' = [running_id EXCEPT ![Head(calls).p][Head(calls).v] =
                         Task_id[Head(calls).v]]
    /\ UNCHANGED <<usage, free, task, Task_id, stage>>

\* release_task: rtems_task_start( Task_id[ v ], ... ), refused unless the
\* task is dormant.
rtems_task_start ==
    LET id == Task_id[Head(calls).v]
    IN  /\ calls # << >> /\ Head(calls).pc = "start"
        /\ calls' = Tail(calls)
        /\ task' = IF Exists(id) /\ task[id].state = "dormant"
                   THEN [task EXCEPT ![id].state = "running"]
                   ELSE task
        /\ UNCHANGED <<usage, free, Task_id, running_id, stage>>

\* Mutation: the id becomes free and the task stays.
BugVersionEnds(id) ==
    /\ usage.selfDelete /\ MayRun
    /\ task[id].state = "running" /\ task[id].creator \in Periods
    /\ ~Releasing(task[id].creator)
    /\ free' = Append(free, id)
    /\ UNCHANGED <<usage, task, Task_id, running_id, calls, stage>>

\* A version reaches its end: rtems_task_delete( rtems_task_self() ).
VersionEnds(id) ==
    /\ usage.selfDelete /\ MayRun
    /\ task[id].state = "running" /\ task[id].creator \in Periods
    /\ ~Releasing(task[id].creator)
    /\ task' = [task EXCEPT ![id] = NoTask]
    /\ free' = Append(free, id)
    /\ UNCHANGED <<usage, Task_id, running_id, calls, stage>>

\* Tasks of the application, from the same pool.
AppCreates ==
    /\ MayRun
    /\ Cardinality({t \in TaskIds : task[t].creator = App}) < usage.appTasks
    /\ free # << >>
    /\ task' = [task EXCEPT ![Head(free)] = [creator |-> App, state |-> "running"]]
    /\ free' = Tail(free)
    /\ UNCHANGED <<usage, Task_id, running_id, calls, stage>>

AppDeletes(id) ==
    /\ MayRun
    /\ task[id].creator = App
    /\ task' = [task EXCEPT ![id] = NoTask]
    /\ free' = Append(free, id)
    /\ UNCHANGED <<usage, Task_id, running_id, calls, stage>>

Next ==
    \/ \E p \in Periods : DeleteVersions(p) \/ Recover(p)
    \/ \E p \in Periods, v \in Version : ReleaseJob(p, v)
    \/ rtems_task_create \/ NoteRunning \/ rtems_task_start
    \/ AppCreates
    \/ \E id \in TaskIds : VersionEnds(id) \/ AppDeletes(id)

Spec == Init /\ [][Next]_vars

-----------------------------------------------------------------------------
Owners == Periods \cup {App}

TypeOK ==
    /\ free \in UNION {[1 .. n -> TaskIds] : n \in 0 .. usage.ids}
    /\ task \in [TaskIds -> {NoTask} \cup
                            [creator : Owners, state : {"dormant", "running"}]]
    /\ Task_id \in [Version -> 0 .. N]
    /\ running_id \in [Periods -> [Version -> 0 .. N]]
    /\ stage \in [Periods -> {"ended", "begun", "released", "recovered"}]

\* Every task id is either free, once, or the id of one existing task.
PoolIsPartitioned ==
    \A id \in TaskIds :
        LET places == {n \in 1 .. Len(free) : free[n] = id}
        IN  IF Exists(id) THEN places = {} ELSE \E n \in places : places = {n}

\* Versions wait to be deleted, their releases do not interrupt each other, and
\* they are the only users of the pool, which has ids for two of each period.
Quiet ==
    /\ ~usage.selfDelete /\ ~usage.preempt /\ usage.appTasks = 0
    /\ usage.ids >= 2 * Cardinality(Periods)

\* An id that rtems_rate_monotonic_period is going to delete is the id of a
\* version released for this very period, if it is the id of a task at all: no
\* other period's version and no task of the application is deleted by mistake.
DeletesOnlyOwn ==
    Quiet => \A p \in Periods, v \in Version :
        LET id == running_id[p][v]
        IN  Exists(id) => task[id].creator = p

\* "All tasks created within one period need to be deleted at the start of the
\* new period": once rtems_rate_monotonic_period has deleted the versions of a
\* period, none of them is left.
NoVersionLeft ==
    Quiet => \A p \in Periods : stage[p] = "begun" =>
        \A id \in TaskIds : task[id].creator # p
=============================================================================
