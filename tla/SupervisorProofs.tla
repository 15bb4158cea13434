-------------------------- MODULE SupervisorProofs --------------------------
(***************************************************************************)
(* Duplicate exclusion, exact cancellation indexes and a quiet shutdown,   *)
(* for any number of executions, Tasks and requests.                       *)
(***************************************************************************)
EXTENDS Supervisor, TLAPS

\* What the registry says about the request it names.
Owners ==
    \A e \in Executions :
        /\ handles[e] # None => target[handles[e]] = e /\ runner[handles[e]] # "none"
        /\ reserved[e] # None => target[reserved[e]] = e /\ pc[reserved[e]] = "reserved"

\* How far a request has come decides whether it has a target and a runner.
Stages ==
    \A q \in Requests :
        /\ runner[q] = "none" <=> pc[q] \in {"idle", "reserved", "refused"}
        /\ pc[q] # "idle" => target[q] \in Executions

\* A draining caller waits for its own runner unless that has ended.
DrainsOwn ==
    \A q \in Requests : pc[q] = "draining" => Done(q) \/ q \in drain[q]

\* Once shutdown has begun nothing is reserved, and it waits for all that is
\* registered.
Closed ==
    /\ shut # "up" => closing /\ \A e \in Executions : reserved[e] = None
    /\ shut = "draining" => \A e \in Executions : handles[e] # None => handles[e] \in shutDrain
    /\ shut = "down" => \A e \in Executions : handles[e] = None

\* The inductive invariant.
IInv ==
    /\ TypeOK /\ OneRunner /\ IndexesExact /\ NoAbandonedRunner
    /\ Owners /\ Stages /\ DrainsOwn /\ Closed

----------------------------------------------------------------------------
\* A cascade contains the executions it starts from.
LEMMA ExpandContains ==
    ASSUME NEW R \in SUBSET Executions
    PROVE  R \subseteq Expand(R) /\ Expand(R) \in SUBSET Executions
BY DEF Expand

\* The runners found for a set of executions are requests.
LEMMA RunnersAreRequests ==
    ASSUME TypeOK, NEW E \in SUBSET Executions
    PROVE  RunnersOf(E) \in SUBSET Requests
BY DEF RunnersOf, TypeOK

\* The supervisor starts empty.
LEMMA InitIInv == Init => IInv
<1> SUFFICES ASSUME Init PROVE IInv
  OBVIOUS
<1> USE ContextAssumption DEF Init
<1>1. TypeOK
  BY Zenon DEF TypeOK
<1>2. OneRunner /\ NoAbandonedRunner /\ DrainsOwn /\ Stages
  BY DEF OneRunner, NoAbandonedRunner, DrainsOwn, Stages, Live
<1>3. IndexesExact
  BY DEF IndexesExact
<1>4. Owners /\ Closed
  BY DEF Owners, Closed
<1> QED
  BY <1>1, <1>2, <1>3, <1>4 DEF IInv

\* quiesce only closes admission.
LEMMA QuiesceStep == IInv /\ Quiesce => IInv'
BY DEF Quiesce, IInv, TypeOK, OneRunner, IndexesExact, NoAbandonedRunner,
    Owners, Stages, DrainsOwn, Closed, Live, Done, registry, requestVars

\* reserve gives the execution to a request that has no runner yet.
LEMMA ReserveStep ==
    ASSUME IInv, NEW q \in Requests, NEW e \in Executions, NEW k \in CalledFrom(e),
           Reserve(q, e, k)
    PROVE  IInv'
<1> USE ContextAssumption DEF IInv, Reserve
<1>1. TypeOK'
  BY DEF TypeOK, CalledFrom, shutVars
<1>2. OneRunner' /\ NoAbandonedRunner' /\ DrainsOwn'
  BY DEF TypeOK, OneRunner, NoAbandonedRunner, DrainsOwn, Stages, Live, Done
<1>3. IndexesExact'
  BY DEF IndexesExact
<1>4. Owners'
  BY DEF TypeOK, Owners, Stages, Available
<1>5. Stages' /\ Closed'
  BY DEF TypeOK, Stages, Closed, shutVars
<1> QED
  BY <1>1, <1>2, <1>3, <1>4, <1>5

\* Giving up a token, or being refused, leaves the request without a runner.
LEMMA ReleaseStep ==
    ASSUME IInv, NEW q \in Requests, ReleaseReserved(q) \/ StartRefused(q)
    PROVE  IInv'
<1> USE ContextAssumption DEF IInv, ReleaseReserved, StartRefused
<1>1. TypeOK'
  BY DEF TypeOK, shutVars, requestVars
<1>2. OneRunner' /\ NoAbandonedRunner' /\ DrainsOwn' /\ IndexesExact'
  BY DEF TypeOK, OneRunner, NoAbandonedRunner, DrainsOwn, IndexesExact, Live, Done, requestVars
<1>3. Owners'
  BY DEF TypeOK, Owners, requestVars
<1>4. Stages' /\ Closed'
  BY DEF TypeOK, Stages, Closed, shutVars, requestVars
<1> QED
  BY <1>1, <1>2, <1>3, <1>4

\* start_reserved registers the runner and both index entries together.
LEMMA StartStep ==
    ASSUME IInv, NEW q \in Requests, StartReserved(q)
    PROVE  IInv'
<1> USE ContextAssumption DEF IInv, StartReserved, Startable
<1>0. target[q] \in Executions /\ runner[q] = "none"
  BY DEF Stages
<1>1. TypeOK'
  BY <1>0 DEF TypeOK, shutVars, requestVars
<1>2. OneRunner' /\ NoAbandonedRunner' /\ DrainsOwn'
  BY <1>0 DEF TypeOK, OneRunner, NoAbandonedRunner, DrainsOwn, Stages, Live, Done, requestVars
<1>3. IndexesExact'
  BY <1>0 DEF TypeOK, IndexesExact
<1>4. Owners'
  BY <1>0 DEF TypeOK, Owners, requestVars
<1>5. Stages'
  BY <1>0 DEF TypeOK, Stages, requestVars
<1>6. Closed'
  BY <1>0 DEF TypeOK, Closed, shutVars
<1> QED
  BY <1>1, <1>2, <1>3, <1>4, <1>5, <1>6

\* A caller that returns has seen its runner end; one that stops waiting moves
\* nothing but itself.
LEMMA CallerStep ==
    ASSUME IInv, NEW q \in Requests,
           AwaitReturns(q) \/ Detach(q) \/ Drained(q)
    PROVE  IInv'
<1> USE ContextAssumption DEF IInv, AwaitReturns, Detach, Drained
<1>1. TypeOK'
  BY SMTT(60) DEF TypeOK, shutVars, requestVars, registry
<1>2. OneRunner' /\ IndexesExact'
  BY DEF OneRunner, IndexesExact, Live, requestVars, registry
<1>3. NoAbandonedRunner' /\ DrainsOwn'
  BY DEF TypeOK, NoAbandonedRunner, DrainsOwn, Done
<1>4. Owners'
  BY DEF TypeOK, Owners, requestVars, registry
<1>5. Stages' /\ Closed'
  BY SMTT(60) DEF TypeOK, Stages, Closed, shutVars, requestVars, registry
<1> QED
  BY <1>1, <1>2, <1>3, <1>4, <1>5

\* A locked cancellation only drops reservations and marks runners.
LEMMA CancelKeeps ==
    ASSUME IInv, NEW E \in SUBSET Executions, CancelSet(E),
           UNCHANGED <<handles, children, taskIndex, runner, target>>
    PROVE  /\ reserved' \in [Executions -> Requests \cup {None}]
           /\ cancelled' \in SUBSET Requests
           /\ OneRunner' /\ IndexesExact'
           /\ \A e \in Executions : reserved'[e] \in {None, reserved[e]}
           /\ \A e \in E : reserved'[e] = None
<1>1. RunnersOf(E) \in SUBSET Requests
  BY RunnersAreRequests DEF IInv
<1>2. /\ reserved' \in [Executions -> Requests \cup {None}]
      /\ \A e \in Executions : reserved'[e] \in {None, reserved[e]}
      /\ \A e \in E : reserved'[e] = None
  BY DEF CancelSet, Dropped, IInv, TypeOK
<1>3. cancelled' \in SUBSET Requests
  BY <1>1 DEF CancelSet, IInv, TypeOK
<1>4. OneRunner' /\ IndexesExact'
  BY DEF IInv, OneRunner, IndexesExact, Live
<1> QED
  BY <1>1, <1>2, <1>3, <1>4

\* cancel_execution by a request that then drains what it cancelled.
LEMMA CancelForStep ==
    ASSUME IInv, NEW q \in Requests, NEW E \in SUBSET Executions,
           target[q] \in E, pc[q] = "awaiting", CancelFor(q, E)
    PROVE  IInv'
<1> USE ContextAssumption DEF IInv
<1>1. RunnersOf(E) \in SUBSET Requests
  BY RunnersAreRequests
<1>2. CancelSet(E) /\ UNCHANGED <<handles, children, taskIndex, runner, target, caller,
                                  closing, shut, shutDrain>>
      /\ drain' = [drain EXCEPT ![q] = RunnersOf(E)]
      /\ pc' = [pc EXCEPT ![q] = "draining"]
  BY DEF CancelFor, requestVars, shutVars
<1>3. /\ reserved' \in [Executions -> Requests \cup {None}]
      /\ cancelled' \in SUBSET Requests
      /\ OneRunner' /\ IndexesExact'
      /\ \A e \in Executions : reserved'[e] \in {None, reserved[e]}
  BY <1>2, CancelKeeps
<1>4. TypeOK'
  BY <1>1, <1>2, <1>3 DEF TypeOK
<1>5. Done(q) \/ q \in RunnersOf(E)
  BY DEF OneRunner, Live, Done, Stages, TypeOK, RunnersOf
<1>6. NoAbandonedRunner' /\ DrainsOwn'
  BY <1>2, <1>5 DEF TypeOK, NoAbandonedRunner, DrainsOwn, Done
<1>7. Owners'
  BY <1>2, <1>3 DEF TypeOK, Owners
<1>8. Stages' /\ Closed'
  BY <1>2, <1>3 DEF TypeOK, Stages, Closed
<1> QED
  BY <1>3, <1>4, <1>6, <1>7, <1>8

\* The two ways a request cancels: with its descendants, or alone.
LEMMA RequestCancelStep ==
    ASSUME IInv, NEW q \in Requests, AwaitCancelled(q) \/ HandoffFails(q)
    PROVE  IInv'
<1>1. pc[q] = "awaiting" /\ target[q] \in Executions
  BY DEF AwaitCancelled, HandoffFails, IInv, Stages
<1>2. CASE AwaitCancelled(q)
  <2>1. target[q] \in Expand({target[q]}) /\ Expand({target[q]}) \in SUBSET Executions
    BY <1>1, ExpandContains
  <2> QED
    BY <1>1, <1>2, <2>1, CancelForStep DEF AwaitCancelled
<1>3. CASE HandoffFails(q)
  BY <1>1, <1>3, CancelForStep DEF HandoffFails
<1> QED
  BY SMTT(60), <1>2, <1>3

\* cancel_task: nobody's stage changes.
LEMMA CancelTaskStep ==
    ASSUME IInv, NEW t \in Tasks, CancelTask(t)
    PROVE  IInv'
<1> USE ContextAssumption DEF IInv
<1> DEFINE E == Expand(TaskRoots(t))
<1>1. E \in SUBSET Executions
  BY ExpandContains DEF TaskRoots, TypeOK
<1>2. CancelSet(E) /\ UNCHANGED <<handles, children, taskIndex, runner, pc, target, caller,
                                  drain, closing, shut, shutDrain>>
  BY SMTT(60) DEF CancelTask, requestVars, shutVars
<1> HIDE DEF E
<1>3. /\ reserved' \in [Executions -> Requests \cup {None}]
      /\ cancelled' \in SUBSET Requests
      /\ OneRunner' /\ IndexesExact'
      /\ \A e \in Executions : reserved'[e] \in {None, reserved[e]}
  BY <1>1, <1>2, CancelKeeps
<1>4. TypeOK'
  BY SMTT(60), <1>2, <1>3 DEF TypeOK
<1>5. NoAbandonedRunner' /\ DrainsOwn' /\ Stages'
  BY <1>2 DEF NoAbandonedRunner, DrainsOwn, Stages, Done
<1>6. Owners' /\ Closed'
  BY <1>2, <1>3 DEF TypeOK, Owners, Closed
<1> QED
  BY <1>3, <1>4, <1>5, <1>6

\* A runner takes its first step, or is cancelled before it.
LEMMA RunnerStep ==
    ASSUME IInv, NEW q \in Requests, RunnerStarts(q) \/ RunnerNeverStarts(q)
    PROVE  IInv'
<1> USE ContextAssumption DEF IInv, RunnerStarts, RunnerNeverStarts
<1>1. TypeOK'
  BY DEF TypeOK, shutVars, requestVars, registry
<1>2. OneRunner' /\ IndexesExact'
  BY DEF TypeOK, OneRunner, IndexesExact, Live, requestVars, registry
<1>3. NoAbandonedRunner' /\ DrainsOwn'
  BY DEF TypeOK, NoAbandonedRunner, DrainsOwn, Done
<1>4. Owners'
  BY SMTT(60) DEF TypeOK, Owners, requestVars, registry
<1>5. Stages' /\ Closed'
  BY DEF TypeOK, Stages, Closed, shutVars, requestVars, registry
<1> QED
  BY SMTT(60), <1>1, <1>2, <1>3, <1>4, <1>5

\* A runner that ends removes its handle and both index entries: it is the one
\* registered.
LEMMA RunnerEndsStep ==
    ASSUME IInv, NEW q \in Requests, RunnerEnds(q)
    PROVE  IInv'
<1> USE ContextAssumption DEF IInv
<1>0. target[q] \in Executions /\ handles[target[q]] = q
  BY DEF RunnerEnds, Stages, OneRunner, Live, TypeOK
<1>1. /\ runner[q] = "running"
      /\ runner' = [runner EXCEPT ![q] = "ended"]
      /\ UNCHANGED <<reserved, cancelled, pc, target, caller, drain, closing, shut, shutDrain>>
      /\ handles' = [handles EXCEPT ![target[q]] = None]
      /\ children' = [p \in Executions |->
                            IF p = ParentOf[target[q]] THEN children[p] \ {target[q]}
                            ELSE children[p]]
      /\ taskIndex' = [t \in Tasks |->
                            IF t = TaskOf[target[q]] THEN taskIndex[t] \ {target[q]}
                            ELSE taskIndex[t]]
  BY SMTT(60), <1>0 DEF RunnerEnds, Forget, requestVars, shutVars
<1>2. TypeOK'
  BY <1>0, <1>1 DEF TypeOK
<1>3. OneRunner'
  BY SMTT(60), <1>0, <1>1 DEF TypeOK, OneRunner, Live, Stages
<1>4. IndexesExact'
  BY <1>0, <1>1 DEF TypeOK, IndexesExact
<1>5. NoAbandonedRunner' /\ DrainsOwn' /\ Stages'
  BY SMTT(60), <1>1 DEF TypeOK, NoAbandonedRunner, DrainsOwn, Stages, Done
<1>6. Owners' /\ Closed'
  BY SMTT(60), <1>0, <1>1 DEF TypeOK, Owners, Closed
<1> QED
  BY <1>2, <1>3, <1>4, <1>5, <1>6

\* Shutdown drops every reservation and awaits every registered runner.
LEMMA ShutdownBeginsStep == IInv /\ ShutdownBegins => IInv'
<1> SUFFICES ASSUME IInv, ShutdownBegins PROVE IInv'
  OBVIOUS
<1> USE ContextAssumption DEF IInv
<1> DEFINE E == Expand(Owned)
<1>1. Owned \subseteq E /\ E \in SUBSET Executions
  BY ExpandContains DEF Owned
<1>2. /\ CancelSet(E)
      /\ UNCHANGED <<handles, children, taskIndex, runner, pc, target, caller, drain>>
      /\ closing' = TRUE /\ shut' = "draining" /\ shutDrain' = RunnersOf(E)
  BY DEF ShutdownBegins, requestVars
<1> HIDE DEF E
<1>3. /\ reserved' \in [Executions -> Requests \cup {None}]
      /\ cancelled' \in SUBSET Requests
      /\ OneRunner' /\ IndexesExact'
      /\ \A e \in Executions : reserved'[e] \in {None, reserved[e]}
      /\ \A e \in E : reserved'[e] = None
  BY <1>1, <1>2, CancelKeeps
<1>4. RunnersOf(E) \in SUBSET Requests
  BY <1>1, RunnersAreRequests
<1>5. TypeOK'
  BY SMTT(60), <1>2, <1>3, <1>4 DEF TypeOK
<1>6. NoAbandonedRunner' /\ DrainsOwn' /\ Stages'
  BY SMTT(60), <1>2 DEF NoAbandonedRunner, DrainsOwn, Stages, Done
<1>7. Owners'
  BY <1>2, <1>3 DEF TypeOK, Owners
<1>8. \A e \in Executions : reserved'[e] = None
  BY <1>1, <1>3 DEF Owned
<1>9. \A e \in Executions : handles[e] # None => handles[e] \in RunnersOf(E)
  BY <1>1 DEF Owned, RunnersOf
<1>10. Closed'
  BY <1>2, <1>8, <1>9 DEF Closed
<1> QED
  BY <1>3, <1>5, <1>6, <1>7, <1>10

\* When its runners are done, the final sweep empties the registry.
LEMMA ShutdownReturnsStep == IInv /\ ShutdownReturns => IInv'
<1> SUFFICES ASSUME IInv, ShutdownReturns PROVE IInv'
  OBVIOUS
<1> USE ContextAssumption DEF IInv
<1>1. \A e \in Executions : handles[e] # None => e \in Swept
  BY DEF ShutdownReturns, Closed, Swept
<1>2. /\ handles' = [e \in Executions |-> None]
      /\ reserved' = [e \in Executions |-> None]
  BY <1>1 DEF ShutdownReturns
<1>3. TypeOK'
  BY SMTT(60), <1>2 DEF ShutdownReturns, TypeOK, requestVars
<1>4. OneRunner'
  BY <1>1, <1>2 DEF ShutdownReturns, OneRunner, Live, Done, Swept, Stages, TypeOK, requestVars
<1>5. IndexesExact'
  <2>1. \A p \in Executions : children'[p] = {}
    BY <1>1 DEF ShutdownReturns, IndexesExact, TypeOK
  <2>2. \A t \in Tasks : taskIndex'[t] = {}
    BY SMTT(60), <1>1 DEF ShutdownReturns, IndexesExact, TypeOK
  <2> QED
    BY <1>2, <2>1, <2>2 DEF IndexesExact
<1>6. NoAbandonedRunner' /\ DrainsOwn' /\ Stages'
  BY SMTT(60) DEF ShutdownReturns, NoAbandonedRunner, DrainsOwn, Stages, Done, requestVars
<1>7. Owners' /\ Closed'
  BY <1>2 DEF ShutdownReturns, Owners, Closed
<1> QED
  BY SMTT(60), <1>3, <1>4, <1>5, <1>6, <1>7

\* Every step of the supervisor, its callers and its runners keeps the invariant.
LEMMA NextIInv == IInv /\ [Next]_vars => IInv'
<1> SUFFICES ASSUME IInv, [Next]_vars PROVE IInv'
  BY SMTT(60)
<1>1. CASE UNCHANGED vars
  BY SMTT(60), <1>1 DEF vars, registry, requestVars, shutVars, IInv, TypeOK, OneRunner, IndexesExact,
      NoAbandonedRunner, Owners, Stages, DrainsOwn, Closed, Live, Done
<1>2. CASE Quiesce
  BY <1>2, QuiesceStep
<1>3. ASSUME NEW q \in Requests, Request(q) PROVE IInv'
  <2>1. ASSUME NEW e \in Executions, NEW k \in CalledFrom(e), Reserve(q, e, k) PROVE IInv'
    BY <2>1, ReserveStep
  <2> QED
    BY <1>3, <2>1, ReleaseStep, StartStep, CallerStep, RequestCancelStep DEF Request
<1>4. ASSUME NEW q \in Requests, Runner(q) PROVE IInv'
  BY <1>4, RunnerStep, RunnerEndsStep DEF Runner
<1>5. ASSUME NEW t \in Tasks, CancelTask(t) PROVE IInv'
  BY <1>5, CancelTaskStep
<1>6. CASE ShutdownBegins
  BY <1>6, ShutdownBeginsStep
<1>7. CASE ShutdownReturns
  BY <1>7, ShutdownReturnsStep
<1> QED
  BY <1>1, <1>2, <1>3, <1>4, <1>5, <1>6, <1>7 DEF Next

\* The registry, its indexes and the runners agree at all times.
THEOREM Inductive == Spec => []IInv
BY InitIInv, NextIInv, PTL DEF Spec

\* The supervisor's maps keep their types.
THEOREM TypeCorrect == Spec => []TypeOK
<1>1. IInv => TypeOK
  BY DEF IInv
<1> QED
  BY <1>1, Inductive, PTL

\* Duplicate exclusion: no execution ever has two live runners, and the live one
\* is registered.
THEOREM DuplicateExclusion == Spec => []OneRunner
<1>1. IInv => OneRunner
  BY DEF IInv
<1> QED
  BY <1>1, Inductive, PTL

\* The task index and the children index are exactly the registered executions.
THEOREM IndexesHold == Spec => []IndexesExact
<1>1. IInv => IndexesExact
  BY DEF IInv
<1> QED
  BY <1>1, Inductive, PTL

\* A run() that returns has seen its runner end.
THEOREM RunsReturnEnded == Spec => []NoAbandonedRunner
<1>1. IInv => NoAbandonedRunner
  BY SMTT(60) DEF IInv
<1> QED
  BY <1>1, Inductive, PTL

\* After shutdown nothing is registered, reserved, running or startable.
THEOREM ShutdownIsQuiet == Spec => []DownIsQuiet
<1>1. IInv => DownIsQuiet
  BY ContextAssumption DEF IInv, TypeOK, OneRunner, Stages, Closed, DownIsQuiet, Startable, Live
<1> QED
  BY <1>1, Inductive, PTL

\* cancel_task finds what it should find, and nothing else.
LEMMA CascadeOfTask ==
    ASSUME IInv, NEW t \in Tasks, NEW e \in Executions
    PROVE  /\ (TaskOf[e] = t \/ (/\ ParentOf[e] # None /\ TaskOf[ParentOf[e]] = t
                                 /\ handles[ParentOf[e]] # None))
                => e \in Expand(TaskRoots(t)) \/ (handles[e] = None /\ reserved[e] = None)
           /\ TaskOf[e] # t /\ ParentOf[e] = None => e \notin Expand(TaskRoots(t))
<1> USE ContextAssumption DEF IInv
<1>1. TaskRoots(t) = {x \in Executions : TaskOf[x] = t /\ (handles[x] # None \/ reserved[x] # None)}
  BY DEF TaskRoots, IndexesExact
<1>2. \A p \in Executions :
        Kids(p) = {x \in Executions : ParentOf[x] = p /\ (handles[x] # None \/ reserved[x] # None)}
  BY DEF Kids, IndexesExact
<1>3. ASSUME handles[e] # None \/ reserved[e] # None, TaskOf[e] = t
      PROVE  e \in Expand(TaskRoots(t))
  BY <1>1, <1>3, ExpandContains
<1>4. ASSUME handles[e] # None \/ reserved[e] # None,
             ParentOf[e] # None, TaskOf[ParentOf[e]] = t, handles[ParentOf[e]] # None
      PROVE  e \in Expand(TaskRoots(t))
  <2>1. ParentOf[e] \in TaskRoots(t) /\ ParentOf[e] \in Executions
    BY <1>1, <1>4
  <2>2. e \in Kids(ParentOf[e])
    BY <1>2, <1>4, <2>1
  <2> QED BY <2>1, <2>2 DEF Expand
<1>5. ASSUME TaskOf[e] # t, ParentOf[e] = None PROVE e \notin Expand(TaskRoots(t))
  <2> DEFINE S == Executions \ {e}
  <2>1. S \in SUBSET Executions /\ e \notin S /\ TaskRoots(t) \subseteq S
    BY <1>1, <1>5
  <2>2. \A p \in S : Kids(p) \subseteq S
    BY <1>2, <1>5
  <2> HIDE DEF S
  <2> QED BY Zenon, <2>1, <2>2 DEF Expand
<1> QED BY ZenonT(60), <1>3, <1>4, <1>5

\* cancel_task drops every reservation and cancels every live runner of the Task
\* and of the registered children of its executions, and leaves a root execution
\* of another Task alone: CancelTaskReaches.
THEOREM CancellationReaches == Spec => CancelTaskReaches
<1> DEFINE Reaches(t, e) ==
      LET ofTask == TaskOf[e] = t
          ofChild == /\ ParentOf[e] # None
                     /\ TaskOf[ParentOf[e]] = t /\ handles[ParentOf[e]] # None
          unrelated == TaskOf[e] # t /\ ParentOf[e] = None
      IN  CancelTask(t) =>
              /\ (ofTask \/ ofChild) =>
                      /\ reserved'[e] = None
                      /\ handles[e] # None /\ Live(handles[e]) => handles[e] \in cancelled'
              /\ unrelated =>
                      /\ reserved'[e] = reserved[e]
                      /\ handles[e] # None /\ handles[e] \in cancelled'
                              => handles[e] \in cancelled
<1>1. ASSUME IInv, NEW t \in Tasks, NEW e \in Executions, CancelTask(t) PROVE Reaches(t, e)
  <2>1. PICK E : E = Expand(TaskRoots(t))
    OBVIOUS
  <2>2. E \in SUBSET Executions
    BY SMTT(60), <2>1 DEF Expand
  <2>3. /\ reserved' = [x \in Executions |-> IF x \in E THEN None ELSE reserved[x]]
        /\ cancelled' = cancelled \cup {q \in {handles[x] : x \in {y \in E : handles[y] # None}} : ~Done(q)}
    BY <1>1, <2>1 DEF CancelTask, CancelSet, Dropped, RunnersOf
  <2>4. /\ (TaskOf[e] = t \/ (/\ ParentOf[e] # None /\ TaskOf[ParentOf[e]] = t
                              /\ handles[ParentOf[e]] # None))
             => e \in E \/ (handles[e] = None /\ reserved[e] = None)
        /\ TaskOf[e] # t /\ ParentOf[e] = None => e \notin E
    BY Zenon, <1>1, <2>1, CascadeOfTask
  <2>5. \A x \in Executions : handles[x] # None /\ handles[x] = handles[e] => x = e
    BY <1>1 DEF IInv, Owners
  <2>6. ASSUME e \in E
        PROVE  /\ reserved'[e] = None
               /\ handles[e] # None /\ Live(handles[e]) => handles[e] \in cancelled'
    BY <2>3, <2>6 DEF Live, Done
  <2>7. ASSUME e \notin E
        PROVE  /\ reserved'[e] = reserved[e]
               /\ handles[e] # None /\ handles[e] \in cancelled' => handles[e] \in cancelled
    BY <2>2, <2>3, <2>5, <2>7
  <2> QED BY Zenon, <2>4, <2>6, <2>7
<1>2. IInv => [\A t \in Tasks, e \in Executions : Reaches(t, e)]_vars
  BY Zenon, <1>1
<1> QED BY <1>2, Inductive, PTL DEF CancelTaskReaches
=============================================================================
