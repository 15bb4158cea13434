----------------------------- MODULE Supervisor -----------------------------
(***************************************************************************)
(* AgentExecutionSupervisor: the process-local owner of the asyncio tasks  *)
(* that run agent executions.  A request reserves an execution id, starts  *)
(* a runner under the reservation and awaits it; other calls cancel a      *)
(* Task, an execution with its descendants, or everything.                 *)
(*                                                                         *)
(* No critical section of the supervisor awaits, so `async with self._lock`*)
(* never contends on one event loop and each locked section is one action. *)
(* The gather of a drain and the wake-up of an awaiting caller are steps   *)
(* of their own: anything may run between them.                            *)
(***************************************************************************)
EXTENDS Naturals, FiniteSets

CONSTANTS
    Executions,   \* execution ids
    Tasks,        \* task ids
    Requests,     \* calls that reserve and start; also the runner each starts
    None,
    TaskOf,       \* context.task_id of an execution, or None
    ParentOf      \* context.parent_execution_id of an execution, or None

ASSUME ContextAssumption ==
    /\ None \notin Executions \cup Requests \cup Tasks
    /\ TaskOf \in [Executions -> Tasks \cup {None}]
    /\ ParentOf \in [Executions -> Executions \cup {None}]

VARIABLES
    closing,    \* _closing
    reserved,   \* execution -> request holding its token (_reserved_by_execution)
    handles,    \* execution -> request whose runner is registered (_handles)
    children,   \* _children
    taskIndex,  \* _task_index
    runner,     \* the asyncio task of a request
    cancelled,  \* requests whose asyncio task has been cancel()led
    pc,         \* where the calling coroutine of a request is
    target,     \* the execution a request is for
    caller,     \* the runner inside which the request was made, or None
    drain,      \* runners a draining caller awaits
    shut,       \* shutdown(): up, draining or down
    shutDrain   \* runners shutdown awaits

registry == <<reserved, handles, children, taskIndex>>
requestVars == <<target, caller>>
shutVars == <<closing, shut, shutDrain>>
vars == <<registry, runner, cancelled, pc, requestVars, drain, shutVars>>

----------------------------------------------------------------------------
Live(q) == runner[q] \in {"ready", "running"}

\* asyncio: Task.done().
Done(q) == runner[q] = "ended"

\* Executions registered or reserved whose context names p as parent.
Kids(p) ==
    children[p] \cup {e \in Executions : reserved[e] # None /\ ParentOf[e] = p}

\* _expand_descendants_locked: the least set with R closed under Kids.
Expand(R) ==
    {e \in Executions :
        \A S \in SUBSET Executions :
            R \subseteq S /\ (\A p \in S : Kids(p) \subseteq S) => e \in S}

\* _drop_reservations_for_executions_locked.
Dropped(E) == [e \in Executions |-> IF e \in E THEN None ELSE reserved[e]]

\* The runners _signal_and_cancel_locked finds for E.
RunnersOf(E) == {handles[e] : e \in {x \in E : handles[x] # None}}

\* Mutant: the cancellation event is set but task.cancel() is not called.
CancelSetSignalling(E) ==
    /\ reserved' = Dropped(E)
    /\ UNCHANGED cancelled

\* _drop_reservations_... + _signal_and_cancel_locked, one locked section.
CancelSet(E) ==
    /\ reserved' = Dropped(E)
    /\ cancelled' = cancelled \cup {q \in RunnersOf(E) : ~Done(q)}

\* Mutant: the task index keeps the execution.
ForgetUnindexed(q) ==
    /\ handles' = [handles EXCEPT ![target[q]] = None]
    /\ children' = [p \in Executions |->
                        IF p = ParentOf[target[q]] THEN children[p] \ {target[q]}
                        ELSE children[p]]
    /\ UNCHANGED taskIndex

\* _forget_handle_locked.
Forget(q) ==
    IF handles[target[q]] # q THEN UNCHANGED <<handles, children, taskIndex>>
    ELSE /\ handles' = [handles EXCEPT ![target[q]] = None]
         /\ children' = [p \in Executions |->
                            IF p = ParentOf[target[q]] THEN children[p] \ {target[q]}
                            ELSE children[p]]
         /\ taskIndex' = [t \in Tasks |->
                            IF t = TaskOf[target[q]] THEN taskIndex[t] \ {target[q]}
                            ELSE taskIndex[t]]

----------------------------------------------------------------------------
Init ==
    /\ closing = FALSE
    /\ reserved = [e \in Executions |-> None]
    /\ handles = [e \in Executions |-> None]
    /\ children = [e \in Executions |-> {}]
    /\ taskIndex = [t \in Tasks |-> {}]
    /\ runner = [q \in Requests |-> "none"]
    /\ cancelled = {}
    /\ pc = [q \in Requests |-> "idle"]
    /\ target = [q \in Requests |-> None]
    /\ caller = [q \in Requests |-> None]
    /\ drain = [q \in Requests |-> {}]
    /\ shut = "up"
    /\ shutDrain = {}

Quiesce ==
    /\ ~closing
    /\ closing' = TRUE
    /\ UNCHANGED <<registry, runner, cancelled, pc, requestVars, drain, shut, shutDrain>>

----------------------------------------------------------------------------
(* A request: reserve, start, await *)

\* _ensure_execution_available_locked.
Available(e) ==
    /\ handles[e] # None => Done(handles[e])
    /\ reserved[e] = None

\* The call is made from outside (None), or by the running runner of the
\* execution's parent.
CalledFrom(e) ==
    {None} \cup {q \in Requests : /\ runner[q] = "running" /\ q \notin cancelled
                                  /\ target[q] = ParentOf[e]}

\* A refused reservation raises to its caller and changes nothing.
Reserve(q, e, k) ==
    /\ pc[q] = "idle" /\ k \in CalledFrom(e)
    /\ ~closing
    /\ Available(e)
    /\ reserved' = [reserved EXCEPT ![e] = q]
    /\ pc' = [pc EXCEPT ![q] = "reserved"]
    /\ target' = [target EXCEPT ![q] = e]
    /\ caller' = [caller EXCEPT ![q] = k]
    /\ UNCHANGED <<handles, children, taskIndex, runner, cancelled, drain, shutVars>>

\* release_reserved: the request gives up between reserving and starting; a
\* token that is already gone is ignored.
ReleaseReserved(q) ==
    /\ pc[q] = "reserved"
    /\ reserved' = [e \in Executions |-> IF reserved[e] = q THEN None ELSE reserved[e]]
    /\ pc' = [pc EXCEPT ![q] = "refused"]
    /\ UNCHANGED <<handles, children, taskIndex, runner, cancelled, requestVars, drain, shutVars>>

\* Mutant: a stale token starts a runner all the same.
StartableByAnyone(q) == pc[q] = "reserved"

Startable(q) ==
    /\ pc[q] = "reserved"
    /\ reserved[target[q]] = q
    /\ handles[target[q]] = None

\* Mutant: an execution without a parent is indexed under None.
StartReservedUnguarded(q) ==
    LET e == target[q]
    IN  /\ Startable(q)
        /\ runner' = [runner EXCEPT ![q] = "ready"]
        /\ handles' = [handles EXCEPT ![e] = q]
        /\ taskIndex' = [t \in Tasks |-> IF t = TaskOf[e] THEN taskIndex[t] \cup {e}
                                         ELSE taskIndex[t]]
        /\ children' = [p \in Executions \cup {ParentOf[e]} |->
                            IF p = ParentOf[e] THEN {e} ELSE children[p]]
        /\ reserved' = [reserved EXCEPT ![e] = None]
        /\ pc' = [pc EXCEPT ![q] = "awaiting"]
        /\ UNCHANGED <<cancelled, requestVars, drain, shutVars>>

StartReserved(q) ==
    LET e == target[q]
    IN  /\ Startable(q)
        /\ runner' = [runner EXCEPT ![q] = "ready"]
        /\ handles' = [handles EXCEPT ![e] = q]
        /\ taskIndex' = [t \in Tasks |-> IF t = TaskOf[e] THEN taskIndex[t] \cup {e}
                                         ELSE taskIndex[t]]
        /\ children' = [p \in Executions |-> IF p = ParentOf[e] THEN children[p] \cup {e}
                                             ELSE children[p]]
        /\ reserved' = [reserved EXCEPT ![e] = None]
        /\ pc' = [pc EXCEPT ![q] = "awaiting"]
        /\ UNCHANGED <<cancelled, requestVars, drain, shutVars>>

\* start_reserved raises: the token was dropped by a cancellation, or a handle
\* is registered.  The caller then releases the token.
StartRefused(q) ==
    /\ pc[q] = "reserved" /\ ~Startable(q)
    /\ reserved' = [e \in Executions |-> IF reserved[e] = q THEN None ELSE reserved[e]]
    /\ pc' = [pc EXCEPT ![q] = "refused"]
    /\ UNCHANGED <<handles, children, taskIndex, runner, cancelled, requestVars, drain, shutVars>>

\* run() returns its runner's result or raises its exception.
AwaitReturns(q) ==
    /\ pc[q] = "awaiting" /\ Done(q)
    /\ pc' = [pc EXCEPT ![q] = "returned"]
    /\ UNCHANGED <<registry, runner, cancelled, requestVars, drain, shutVars>>

\* Mutant: the cancelled runners are not awaited.
CancelForUndrained(q, E) ==
    /\ CancelSet(E)
    /\ pc' = [pc EXCEPT ![q] = "draining"]
    /\ UNCHANGED <<handles, children, taskIndex, runner, requestVars, drain, shutVars>>

\* The locked section of cancel_execution called by request q, which then
\* drains what it cancelled.
CancelFor(q, E) ==
    /\ CancelSet(E)
    /\ drain' = [drain EXCEPT ![q] = RunnersOf(E)]
    /\ pc' = [pc EXCEPT ![q] = "draining"]
    /\ UNCHANGED <<handles, children, taskIndex, runner, requestVars, shutVars>>

\* run() sees CancelledError: its caller was cancelled, or its own runner ended
\* in one.  It cancels whatever is registered under the execution id by now.
AwaitCancelled(q) ==
    /\ pc[q] = "awaiting"
    /\ caller[q] = None \/ caller[q] \in cancelled \/ (Done(q) /\ q \in cancelled)
    /\ CancelFor(q, Expand({target[q]}))

\* The resume handoff fails after start: cancel_execution(cascade=False).
HandoffFails(q) ==
    /\ pc[q] = "awaiting" /\ caller[q] = None
    /\ CancelFor(q, {target[q]})

\* A fork, retry, aggregate or resume request answers without awaiting.
Detach(q) ==
    /\ pc[q] = "awaiting" /\ caller[q] = None
    /\ pc' = [pc EXCEPT ![q] = "detached"]
    /\ UNCHANGED <<registry, runner, cancelled, requestVars, drain, shutVars>>

\* _drain: gather(return_exceptions=True) resumes its caller when the last runner
\* has ended, also when the caller is cancelled again in the meantime.
Drained(q) ==
    /\ pc[q] = "draining"
    /\ \A r \in drain[q] : Done(r)
    /\ pc' = [pc EXCEPT ![q] = "returned"]
    /\ drain' = [drain EXCEPT ![q] = {}]
    /\ UNCHANGED <<registry, runner, cancelled, requestVars, shutVars>>

----------------------------------------------------------------------------
(* The runner of a request: _run_owned *)

RunnerStarts(q) ==
    /\ runner[q] = "ready" /\ q \notin cancelled
    /\ runner' = [runner EXCEPT ![q] = "running"]
    /\ UNCHANGED <<registry, cancelled, pc, requestVars, drain, shutVars>>

\* asyncio throws CancelledError into a coroutine that never ran: no try is
\* entered and no finally executed, so the handle stays.
RunnerNeverStarts(q) ==
    /\ runner[q] = "ready" /\ q \in cancelled
    /\ runner' = [runner EXCEPT ![q] = "ended"]
    /\ UNCHANGED <<registry, cancelled, pc, requestVars, drain, shutVars>>

\* A runner that has called run() for a child awaits that call first.
Calls(q) ==
    {c \in Requests : caller[c] = q /\ pc[c] \in {"reserved", "awaiting", "draining"}}

RunnerEnds(q) ==
    /\ runner[q] = "running" /\ Calls(q) = {}
    /\ runner' = [runner EXCEPT ![q] = "ended"]
    /\ Forget(q)
    /\ UNCHANGED <<reserved, cancelled, pc, requestVars, drain, shutVars>>

----------------------------------------------------------------------------
(* Control: cancel_task and shutdown *)

\* Mutant: only what is indexed under the Task, without reservations.
TaskRootsStarted(t) == taskIndex[t]

TaskRoots(t) ==
    taskIndex[t] \cup {e \in Executions : reserved[e] # None /\ TaskOf[e] = t}

\* Its drain blocks only the coordinator that called it.
CancelTask(t) ==
    /\ CancelSet(Expand(TaskRoots(t)))
    /\ UNCHANGED <<handles, children, taskIndex, runner, pc, requestVars, drain, shutVars>>

Owned == {e \in Executions : handles[e] # None \/ reserved[e] # None}

\* With the supervisor already closing and nothing owned, the drain is empty.
ShutdownBegins ==
    /\ shut = "up"
    /\ closing' = TRUE
    /\ CancelSet(Expand(Owned))
    /\ shut' = "draining"
    /\ shutDrain' = RunnersOf(Expand(Owned))
    /\ UNCHANGED <<handles, children, taskIndex, runner, pc, requestVars, drain>>

\* Mutant: no final sweep.
ShutdownReturnsUnswept ==
    /\ shut = "draining"
    /\ \A q \in shutDrain : Done(q)
    /\ shut' = "down"
    /\ UNCHANGED <<registry, closing, shutDrain, runner, cancelled, pc, requestVars, drain>>

\* The final locked sweep forgets every finished runner still registered.
Swept == {e \in Executions : handles[e] # None /\ Done(handles[e])}

ShutdownReturns ==
    /\ shut = "draining"
    /\ \A q \in shutDrain : Done(q)
    /\ shut' = "down"
    /\ handles' = [e \in Executions |-> IF e \in Swept THEN None ELSE handles[e]]
    /\ children' = [p \in Executions |-> children[p] \ {e \in Swept : ParentOf[e] = p}]
    /\ taskIndex' = [t \in Tasks |-> taskIndex[t] \ {e \in Swept : TaskOf[e] = t}]
    /\ reserved' = [e \in Executions |-> None]
    /\ UNCHANGED <<closing, shutDrain, runner, cancelled, pc, requestVars, drain>>

----------------------------------------------------------------------------
Request(q) ==
    \/ \E e \in Executions : \E k \in CalledFrom(e) : Reserve(q, e, k)
    \/ ReleaseReserved(q)
    \/ StartReserved(q)
    \/ StartRefused(q)
    \/ AwaitReturns(q)
    \/ AwaitCancelled(q)
    \/ HandoffFails(q)
    \/ Detach(q)
    \/ Drained(q)

Runner(q) == RunnerStarts(q) \/ RunnerNeverStarts(q) \/ RunnerEnds(q)

Next ==
    \/ Quiesce
    \/ \E q \in Requests : Request(q) \/ Runner(q)
    \/ \E t \in Tasks : CancelTask(t)
    \/ ShutdownBegins
    \/ ShutdownReturns

\* A cancelled runner ends (the runtime re-raises CancelledError after its
\* cleanup), a cancelled or answered caller resumes, and shutdown's drain is
\* resumed once its runners are done: each is one callback in the ready queue
\* of the event loop.  Nothing makes a request arrive or a runner that nobody
\* cancels finish.
Fairness ==
    /\ \A q \in Requests :
        /\ WF_vars(StartReserved(q) \/ StartRefused(q) \/ ReleaseReserved(q))
        /\ WF_vars(AwaitReturns(q) \/ (caller[q] # None /\ AwaitCancelled(q)))
        /\ WF_vars(Drained(q))
        /\ WF_vars(q \in cancelled /\ Runner(q))
    /\ WF_vars(ShutdownReturns)

Spec == Init /\ [][Next]_vars

FairSpec == Spec /\ Fairness

----------------------------------------------------------------------------
(* Properties *)

\* The supervisor's maps and the asyncio tasks have their shapes.
TypeOK ==
    /\ closing \in BOOLEAN
    /\ reserved \in [Executions -> Requests \cup {None}]
    /\ handles \in [Executions -> Requests \cup {None}]
    /\ children \in [Executions -> SUBSET Executions]
    /\ taskIndex \in [Tasks -> SUBSET Executions]
    /\ runner \in [Requests -> {"none", "ready", "running", "ended"}]
    /\ cancelled \in SUBSET Requests
    /\ pc \in [Requests -> {"idle", "reserved", "awaiting", "draining",
                            "returned", "detached", "refused"}]
    /\ target \in [Requests -> Executions \cup {None}]
    /\ caller \in [Requests -> Requests \cup {None}]
    /\ drain \in [Requests -> SUBSET Requests]
    /\ shut \in {"up", "draining", "down"}
    /\ shutDrain \in SUBSET Requests

\* Duplicate exclusion: every live runner is the one registered under its
\* execution, so no execution ever has two and every cancellation can find it.
OneRunner ==
    \A q \in Requests : Live(q) => handles[target[q]] = q

\* The indexes that cancel_task and the cascade of cancel_execution read are
\* exactly the registered executions, through every start, end and sweep.
IndexesExact ==
    /\ \A t \in Tasks :
        taskIndex[t] = {e \in Executions : handles[e] # None /\ TaskOf[e] = t}
    /\ \A p \in Executions :
        children[p] = {e \in Executions : handles[e] # None /\ ParentOf[e] = p}

\* A request that answers after its start has either left its runner running on
\* purpose (detached) or seen it end.
NoAbandonedRunner ==
    \A q \in Requests : pc[q] = "returned" => Done(q)

\* When shutdown returns nothing is registered, reserved or running, and a
\* request that still holds an old token cannot start anything any more.
DownIsQuiet ==
    shut = "down" =>
        /\ \A e \in Executions : handles[e] = None /\ reserved[e] = None
        /\ \A q \in Requests : ~Live(q) /\ ~Startable(q)

\* cancel_task leaves no live runner of the Task, nor of a child of one of its
\* registered executions, without a cancellation, and no reservation of the Task
\* to start later; a root execution of another Task is not touched.
CancelTaskReaches ==
    [][\A t \in Tasks, e \in Executions :
        LET ofTask == TaskOf[e] = t
            ofChild == /\ ParentOf[e] # None
                       /\ TaskOf[ParentOf[e]] = t /\ handles[ParentOf[e]] # None
            unrelated == TaskOf[e] # t /\ ParentOf[e] = None
        IN  CancelTask(t) =>
                /\ (ofTask \/ ofChild) =>
                        /\ reserved'[e] = None
                        /\ handles[e] # None /\ Live(handles[e]) => handles[e] \in cancelled'
                /\ unrelated =>
                        /\ reserved'[e] = reserved[e]
                        /\ handles[e] # None /\ handles[e] \in cancelled'
                                => handles[e] \in cancelled]_vars

\* Shutdown always returns: runners that await runs of their children, callers
\* that drain and shutdown itself never wait for each other in a circle.
ShutdownCompletes == shut = "draining" ~> shut = "down"

\* Every finished runner has removed its own handle, so that the execution can be
\* started again in this process ("All cancelled runner tasks remove their
\* handles in _run_owned.finally").
RunnerForgotten ==
    \A e \in Executions : handles[e] # None => ~Done(handles[e])

=============================================================================
