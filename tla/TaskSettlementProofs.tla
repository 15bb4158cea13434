------------------------ MODULE TaskSettlementProofs ------------------------
(*****************************************************************************)
(* For every number of executions, branches and claims and every limit: what *)
(* is settled stays settled.  Every step of TaskExecution has one of seven   *)
(* shapes (StepShape); the results here and in TaskBranchProofs and          *)
(* TaskCapacityProofs look at the shapes only.                               *)
(*****************************************************************************)
EXTENDS TaskExecutionProofs

----------------------------------------------------------------------------
(* The shapes of a step *)

\* Execution e of kind k is inserted at depth d on branch b.
Admission(e, b, k, d) ==
    /\ TaskOpen /\ HasActiveSlot(d) /\ budget.used < MaxTotal
    /\ exec[e].state = "ABSENT" /\ Admits(e, b, k, d)
    /\ \A x \in Branches \ {b} : branch'[x] = branch[x]
    /\ \/ k = "CHILD" /\ branch' = branch /\ task' = task
       \/ /\ k = "ROOT" /\ task' = task
          /\ \A x \in Branches : branch[x].state = "ABSENT"
          /\ branch'[b] = [state |-> "OPEN", head |-> e]
       \/ /\ k = "FORK" /\ task' = RunningTask
          /\ branch[b].state = "ABSENT" /\ OpenBranches # {}
          /\ branch'[b] = [state |-> "OPEN", head |-> e]
       \/ /\ k \in {"RETRY", "AGGREGATE"} /\ task' = RunningTask
          /\ branch[b].state = "OPEN" /\ exec[branch[b].head].state \in ExecTerminal
          /\ k = "AGGREGATE" => MultiBranch(branch)
          /\ branch'[b].state = "OPEN" /\ branch'[b].head = e

\* Execution e stops, or a waiting one times out or runs again.
Movement(e, s, r) ==
    /\ MovesTo(e, s, r) /\ branch' = branch
    /\ \/ exec[e].state = "RUNNING" /\ s \in {"WAITING"} \cup ExecTerminal /\ task' = task
       \/ exec[e].state = "WAITING" /\ s = "TIMEOUT" /\ task' = Reconciled(task, exec', branch)
       \/ /\ exec[e].state = "WAITING" /\ s = "RUNNING"
          /\ TaskOpen /\ HasActiveSlot(exec[e].depth)
          /\ task' = Reconciled(task, exec', branch) \/ (DirectResume /\ task' = task)

\* A dormant head is bound to a runtime.
Activation(e) ==
    /\ Dormant(e) /\ OthersKept(e)
    /\ exec'[e].state = "RUNNING" /\ exec'[e].rev = 2 /\ exec'[e].kind = exec[e].kind
    /\ exec'[e].branch = exec[e].branch
    /\ branch' = branch /\ task' = task

\* Only the Task row changes, if any: it is derived from its heads, started, or,
\* with a single branch, settled by its coordinator.
TaskMove ==
    /\ exec' = exec /\ branch' = branch
    /\ \/ task' = task \/ task' = Reconciled(task, exec, branch)
       \/ TaskOpen /\ task'.status = "RUNNING" /\ task'.output = task.output
       \/ TaskOpen /\ ~MultiBranch(branch)

StepShape ==
    \/ \E e \in Executions, b \in Branches, k \in ExecKind, d \in Nat : Admission(e, b, k, d)
    \/ \E e \in Executions, s \in ExecState, r \in WaitReason \cup {None} : Movement(e, s, r)
    \/ \E e \in Executions : Activation(e)
    \/ CancelTask
    \/ \E b \in Branches : Discard(b)
    \/ \E b \in Branches : Adopt(b)
    \/ TaskMove

\* The Task of an OPEN budget is open.
LEMMA SlotMeansOpen ==
    ASSUME IInv, NEW d, HasActiveSlot(d) PROVE TaskOpen
BY Zenon DEF IInv, TerminalIsClosed, HasActiveSlot

\* start_root_task_scoped_execution, like the other ways to insert an execution,
\* is an admission.
LEMMA RootShape ==
    ASSUME IInv, NEW e \in Executions, NEW b \in Branches, AdmitRoot(e, b)
    PROVE  Admission(e, b, "ROOT", 0)
<1>1. HasActiveSlot(0) /\ budget.used < MaxTotal /\ exec[e].state = "ABSENT"
  BY DEF AdmitRoot, RootEligible, Existing
<1>2. Admits(e, b, "ROOT", 0)
  BY Zenon, AdmittedFacts DEF AdmitRoot, ExecKind, PlannedKind, IInv, TypeOK
<1>3. /\ \A x \in Branches : branch[x].state = "ABSENT"
      /\ branch'[b] = [state |-> "OPEN", head |-> e] /\ task' = task
      /\ \A x \in Branches \ {b} : branch'[x] = branch[x]
  BY DEF AdmitRoot, RootEligible, IInv, TypeOK, BranchType
<1> QED BY ZenonT(60), <1>1, <1>2, <1>3, SlotMeansOpen DEF Admission

\* start_task_scoped_execution of a delegated child.
LEMMA DelegateShape ==
    ASSUME IInv, NEW p \in Executions, NEW e \in Executions, Delegate(p, e)
    PROVE  \E b \in Branches, d \in Nat : Admission(e, b, "CHILD", d)
<1>1. PICK d \in Nat : d = exec[p].depth + 1
  BY DEF IInv, TypeOK, ExecType, ExecRow
<1>2. PICK b \in Branches : b = exec[p].branch
  BY Zenon DEF Delegate, DelegationEligible, OpenBranches
<1>3. HasActiveSlot(d) /\ budget.used < MaxTotal /\ exec[e].state = "ABSENT"
  BY Zenon, <1>1 DEF Delegate, DelegationEligible
<1>4. Admits(e, b, "CHILD", d)
  BY ZenonT(60), <1>1, <1>2, AdmittedFacts DEF Delegate, ExecKind, PlannedKind, IInv, TypeOK
<1>5. branch' = branch /\ task' = task
  BY Zenon DEF Delegate
<1> QED BY ZenonT(60), <1>3, <1>4, <1>5, SlotMeansOpen DEF Admission

\* consume_fork_plan.
LEMMA ForkShape ==
    ASSUME IInv, NEW src \in Executions, NEW e \in Executions, NEW b \in Branches, Fork(src, e, b)
    PROVE  \E d \in Nat : Admission(e, b, "FORK", d)
<1>1. PICK d \in Nat : d = exec[src].depth
  BY DEF IInv, TypeOK, ExecType, ExecRow
<1>2. /\ HasActiveSlot(d) /\ budget.used < MaxTotal /\ exec[e].state = "ABSENT"
      /\ branch[b].state = "ABSENT" /\ OpenBranches # {}
  BY Zenon, <1>1 DEF Fork, ForkEligible, PlanEligible, IsOpenHead
<1>3. Admits(e, b, "FORK", d)
  BY ZenonT(60), <1>1, AdmittedFacts DEF Fork, ExecKind, PlannedKind, IInv, TypeOK
<1>4. /\ branch'[b] = [state |-> "OPEN", head |-> e] /\ task' = RunningTask
      /\ \A x \in Branches \ {b} : branch'[x] = branch[x]
  BY DEF Fork, IInv, TypeOK, BranchType
<1> QED BY ZenonT(60), <1>2, <1>3, <1>4, SlotMeansOpen DEF Admission

\* consume_retry_plan.
LEMMA RetryShape ==
    ASSUME IInv, NEW src \in Executions, NEW e \in Executions, Retry(src, e)
    PROVE  \E b \in Branches, d \in Nat : Admission(e, b, "RETRY", d)
<1>1. PICK d \in Nat : d = exec[src].depth
  BY DEF IInv, TypeOK, ExecType, ExecRow
<1>2. PICK b \in OpenBranches : b = exec[src].branch
  BY Zenon DEF Retry, RetryEligible, IsOpenHead
<1>3. /\ b \in Branches /\ branch[b].state = "OPEN" /\ exec[branch[b].head].state \in ExecTerminal
      /\ HasActiveSlot(d) /\ budget.used < MaxTotal /\ exec[e].state = "ABSENT"
  BY ZenonT(60), <1>1, <1>2 DEF Retry, RetryEligible, PlanEligible, IsOpenHead, OpenBranches, ExecTerminal
<1>4. Admits(e, b, "RETRY", d)
  BY ZenonT(60), <1>1, <1>2, <1>3, AdmittedFacts DEF Retry, ExecKind, PlannedKind, IInv, TypeOK
<1>5. /\ branch'[b].state = "OPEN" /\ branch'[b].head = e /\ task' = RunningTask
      /\ \A x \in Branches \ {b} : branch'[x] = branch[x]
  BY ZenonT(60), <1>2, <1>3 DEF Retry, IInv, TypeOK, BranchType
<1> QED BY ZenonT(60), <1>3, <1>4, <1>5, SlotMeansOpen DEF Admission

\* aggregate_branches.
LEMMA AggregateShape ==
    ASSUME IInv, NEW b \in Branches, NEW e \in Executions, Aggregate(b, e)
    PROVE  \E d \in Nat : Admission(e, b, "AGGREGATE", d)
<1>1. /\ branch[b].state = "OPEN" /\ branch[b].head \in Executions
      /\ exec[branch[b].head].state \in ExecTerminal
  BY SMTT(60), SetsAssumption DEF Aggregate, AggregateEligible, CompletedHead, OpenBranches, BranchType,
     BranchLineage, ExecTerminal, IInv, TypeOK, Lineage
<1>2. PICK d \in Nat : d = exec[branch[b].head].depth
  BY Zenon, <1>1 DEF ExecType, ExecRow, IInv, TypeOK
<1>3. MultiBranch(branch)
  BY Zenon, <1>1 DEF Aggregate, AggregateEligible, CompletedHead, OpenBranches, MultiBranch
<1>4. HasActiveSlot(d) /\ budget.used < MaxTotal /\ exec[e].state = "ABSENT"
  BY Zenon, <1>2 DEF Aggregate, AggregateEligible
<1>5. Admits(e, b, "AGGREGATE", d)
  BY ZenonT(60), <1>2, AdmittedFacts DEF Aggregate, ExecKind, PlannedKind, IInv, TypeOK
<1>6. /\ branch'[b].state = "OPEN" /\ branch'[b].head = e /\ task' = RunningTask
      /\ \A x \in Branches \ {b} : branch'[x] = branch[x]
  BY SMTT(60), <1>1 DEF Aggregate, IInv, TypeOK, BranchType
<1> QED BY ZenonT(60), <1>1, <1>3, <1>4, <1>5, <1>6, SlotMeansOpen DEF Admission

\* finish_task_scoped_execution is a movement, whoever calls it.
LEMMA FinishShape ==
    ASSUME IInv, NEW e \in Executions, NEW s \in {"WAITING"} \cup ExecTerminal,
           NEW r \in WaitReason \cup {None}, NEW o, Finish(e, s, r, o)
    PROVE  Movement(e, s, r)
<1>1. exec[e].state = "RUNNING" /\ branch' = branch /\ task' = task
  BY Zenon DEF Finish, Owns
<1>2. MovesTo(e, s, r)
  BY Zenon, MovedFacts DEF Finish, ExecState, IInv, TypeOK
<1> QED BY Zenon, <1>1, <1>2 DEF Movement

\* So are the finish under a lease and both evacuations of an expired lease.
LEMMA LeaseShape ==
    ASSUME IInv, NEW e \in Executions, FinishRecovered(e) \/ RecoverExpired(e) \/ FailExpired(e)
    PROVE  \E s \in ExecState, r \in WaitReason \cup {None} : Movement(e, s, r)
<1>1. exec[e].state = "RUNNING" /\ branch' = branch /\ task' = task
  BY Zenon DEF FinishRecovered, RecoverExpired, FailExpired, Evacuate, Owns
<1>2. CASE FinishRecovered(e)
  <2>1. MovesTo(e, "COMPLETED", None)
    BY ZenonT(60), <1>2, MovedFacts DEF FinishRecovered, ExecState, ExecTerminal, IInv, TypeOK
  <2> QED BY ZenonT(60), <1>1, <2>1 DEF Movement, ExecState, ExecTerminal
<1>3. CASE RecoverExpired(e)
  <2>1. MovesTo(e, "WAITING", "RECOVERY")
    BY ZenonT(60), <1>3, LeasedFacts DEF RecoverExpired, Evacuate, ExecState, WaitReason, IInv, TypeOK
  <2> QED BY Zenon, <1>1, <2>1 DEF Movement, ExecState, WaitReason
<1>4. CASE FailExpired(e)
  <2>1. MovesTo(e, "FAILED", None)
    BY ZenonT(60), <1>4, LeasedFacts DEF FailExpired, Evacuate, ExecState, ExecTerminal, IInv, TypeOK
  <2> QED BY ZenonT(60), <1>1, <2>1 DEF Movement, ExecState, ExecTerminal
<1> QED BY SMTT(60), <1>2, <1>3, <1>4

\* resume_task_scoped_execution and the wait that is found elapsed.
LEMMA DirectShape ==
    ASSUME IInv, NEW e \in Executions, ResumeDirect(e) \/ ExpireWaiting(e)
    PROVE  \E s \in ExecState : Movement(e, s, None)
<1>1. CASE ResumeDirect(e)
  <2>1. MovesTo(e, "RUNNING", None)
    BY ZenonT(60), <1>1, MovedFacts DEF ResumeDirect, ExecState, IInv, TypeOK
  <2>2. exec[e].state = "WAITING" /\ HasActiveSlot(exec[e].depth) /\ branch' = branch /\ task' = task
    BY Zenon, <1>1 DEF ResumeDirect, ResumeEligible
  <2>3. DirectResume
    BY Zenon, <1>1 DEF ResumeDirect
  <2>4. TaskOpen
    BY ZenonT(60), <2>2, SlotMeansOpen
  <2> QED BY ZenonT(60), <2>1, <2>2, <2>3, <2>4 DEF Movement, ExecState
<1>2. CASE ExpireWaiting(e)
  <2>1. MovesTo(e, "TIMEOUT", None)
    BY ZenonT(60), <1>2, MovedFacts DEF ExpireWaiting, ExecState, ExecTerminal, IInv, TypeOK
  <2>2. /\ exec[e].state = "WAITING" /\ branch' = branch
        /\ task' = Reconciled(task, exec', branch)
    BY Zenon, <1>2 DEF ExpireWaiting
  <2> QED BY ZenonT(60), <2>1, <2>2 DEF Movement, ExecState, ExecTerminal
<1> QED BY SMTT(60), <1>1, <1>2

\* A claim names an execution once it has been planned.
LEMMA ClaimNames ==
    ASSUME IInv, NEW c \in Claims, claim[c].state # "FREE" PROVE claim[c].exec \in Executions
BY Zenon DEF IInv, Lineage, ClaimLineage, Existing

\* The consumptions of a resume claim that change the execution.
LEMMA ConsumeShape ==
    ASSUME IInv, NEW c \in Claims,
           ConsumeWaitExpired(c) \/ ConsumeClaim(c) \/ ConsumeRecoveryClaim(c)
    PROVE  \E e \in Executions, s \in ExecState : Movement(e, s, None)
<1>1. PICK e \in Executions : e = claim[c].exec
  BY Zenon, ClaimNames DEF ConsumeWaitExpired, ConsumeClaim, ConsumeRecoveryClaim, ClaimCurrent
<1>2. /\ exec[e].state = "WAITING" /\ TaskOpen /\ branch' = branch
      /\ task' = Reconciled(task, exec', branch)
  BY Zenon, <1>1 DEF ConsumeWaitExpired, ConsumeClaim, ConsumeRecoveryClaim, ClaimCurrent
<1>3. CASE ConsumeWaitExpired(c)
  <2>1. MovesTo(e, "TIMEOUT", None)
    BY ZenonT(60), <1>1, <1>3, MovedFacts DEF ConsumeWaitExpired, ExecState, ExecTerminal, IInv, TypeOK
  <2> QED BY ZenonT(60), <1>2, <2>1 DEF Movement, ExecState, ExecTerminal
<1>4. CASE ConsumeClaim(c)
  <2>1. MovesTo(e, "RUNNING", None) /\ HasActiveSlot(exec[e].depth)
    BY ZenonT(60), <1>1, <1>4, MovedFacts DEF ConsumeClaim, ResumeEligible, ExecState, IInv, TypeOK
  <2> QED BY ZenonT(60), <1>2, <2>1 DEF Movement, ExecState
<1>5. CASE ConsumeRecoveryClaim(c)
  <2>1. MovesTo(e, "RUNNING", None) /\ HasActiveSlot(exec[e].depth)
    BY ZenonT(60), <1>1, <1>5, LeasedFacts DEF ConsumeRecoveryClaim, ResumeEligible, ExecState, IInv, TypeOK
  <2> QED BY ZenonT(60), <1>2, <2>1 DEF Movement, ExecState
<1> QED BY SMTT(60), <1>3, <1>4, <1>5

\* The single CAS that activates a fork, a retry or an aggregate.
LEMMA ActivateShape ==
    ASSUME IInv, NEW e \in Executions, NEW k, Activate(e, k) PROVE Activation(e)
BY DEF Activate, Activation, OthersKept, Dormant, IInv, TypeOK, ExecType, ExecRow

\* The steps that change no execution and no branch.
LEMMA QuietShape ==
    ASSUME IInv, CoordStart \/ CoordSettle \/ CoordRaises \/ Crash \/ (UNCHANGED vars)
    PROVE  TaskMove
<1>1. exec' = exec /\ branch' = branch
  BY Zenon DEF CoordStart, CoordSettle, CoordRaises, Crash, vars
<1>2. CASE CoordStart
  BY ZenonT(60), <1>1, <1>2 DEF CoordStart, TaskMove, IInv, TypeOK, TaskType
<1>3. CASE CoordSettle
  BY ZenonT(60), <1>1, <1>3 DEF CoordSettle, TaskMove, SettledWaiting, Terminalizes, TaskOpen, TaskTerminal
<1>4. CASE CoordRaises \/ Crash \/ (UNCHANGED vars)
  BY ZenonT(60), <1>1, <1>4 DEF CoordRaises, Crash, vars, TaskMove
<1> QED BY SMTT(60), <1>2, <1>3, <1>4

\* What a runtime does to the rows it owns.
LEMMA RuntimeShape == IInv /\ Runtime => StepShape
<1> SUFFICES ASSUME IInv, Runtime PROVE StepShape
  OBVIOUS
<1>1. CASE \E h \in live, o \in Raised : FinishRaises(h, o)
  BY Zenon, <1>1 DEF FinishRaises, StepShape, TaskMove
<1>2. ASSUME NEW e \in Executions, NEW r \in {"CONNECTION", "AGENT"}, FinishWaiting(e, r)
      PROVE  StepShape
  BY ZenonT(60), <1>2, FinishShape DEF FinishWaiting, StepShape, ExecState, WaitReason
<1>3. ASSUME NEW e \in Executions, NEW s \in ExecTerminal, FinishTerminal(e, s)
      PROVE  StepShape
  BY ZenonT(60), <1>3, FinishShape DEF FinishTerminal, StepShape, ExecState
<1>4. ASSUME NEW e \in Executions, NEW p \in Executions, Delegate(p, e) PROVE StepShape
  BY ZenonT(60), <1>4, DelegateShape DEF StepShape, ExecKind
<1>5. ASSUME NEW e \in Executions, Reconcile(e) \/ (\E o \in Raised : ReconcileRaises(e, o))
      PROVE  StepShape
  BY Zenon, <1>5 DEF Reconcile, ReconcileRaises, StepShape, TaskMove
<1>6. ASSUME NEW e \in Executions, FinishRecovered(e) \/ ResumeDirect(e) \/ ExpireWaiting(e)
      PROVE  StepShape
  BY ZenonT(60), <1>6, LeaseShape, DirectShape DEF StepShape
<1> QED BY ZenonT(60), <1>1, <1>2, <1>3, <1>4, <1>5, <1>6 DEF Runtime

\* Every step has one of the seven shapes.
LEMMA EveryStepShaped == IInv /\ [Next]_vars => StepShape
<1> SUFFICES ASSUME IInv, [Next]_vars PROVE StepShape
  OBVIOUS
<1>1. CASE Coordinator
  <2>1. ASSUME NEW e \in Executions, NEW b \in Branches, AdmitRoot(e, b) PROVE StepShape
    BY ZenonT(60), <2>1, RootShape DEF StepShape, ExecKind
  <2>2. ASSUME NEW o \in Raised, AdmitFail(o) PROVE StepShape
    BY Zenon, <2>2 DEF AdmitFail, StepShape, TaskMove
  <2> QED BY ZenonT(60), <1>1, <2>1, <2>2, QuietShape DEF Coordinator, StepShape
<1>2. CASE Runtime
  BY SMTT(60), <1>2, RuntimeShape
<1>3. CASE Resume
  <2>1. PICK c \in Claims :
          \/ \E e \in Executions : PlanResume(c, e)
          \/ CreateClaim(c) \/ ExpireClaim(c) \/ RejectClaim(c) \/ ConsumeWaitExpired(c)
          \/ ConsumeClaim(c) \/ RecoverClaimedResume(c) \/ ConsumeRecoveryClaim(c)
    BY Zenon, <1>3 DEF Resume
  <2>2. CASE \/ \E e \in Executions : PlanResume(c, e)
             \/ CreateClaim(c) \/ ExpireClaim(c) \/ RejectClaim(c)
    BY Zenon, <2>2 DEF PlanResume, CreateClaim, ExpireClaim, RejectClaim, StepShape, TaskMove
  <2>3. CASE ConsumeWaitExpired(c) \/ ConsumeClaim(c) \/ ConsumeRecoveryClaim(c)
    BY ZenonT(60), <2>3, ConsumeShape DEF StepShape
  <2>4. CASE RecoverClaimedResume(c)
    <3>1. claim[c].exec \in Executions
      BY ZenonT(60), <2>4, ClaimNames DEF RecoverClaimedResume
    <3> QED BY ZenonT(60), <2>4, <3>1, FinishShape DEF RecoverClaimedResume, StepShape, ExecState, WaitReason
  <2> QED BY SMTT(60), <2>1, <2>2, <2>3, <2>4
<1>4. CASE Sweep
  BY ZenonT(60), <1>4, LeaseShape DEF Sweep, StepShape
<1>5. CASE ControlPlane
  BY ZenonT(60), <1>5, ForkShape, RetryShape, AggregateShape, ActivateShape
     DEF ControlPlane, ActivateFork, ActivateRetry, ActivateAggregate, StepShape, ExecKind, PlannedKind
<1>6. CASE Resolution
  BY Zenon, <1>6 DEF Resolution, StepShape
<1>7. CASE Crash \/ (UNCHANGED vars)
  BY ZenonT(60), <1>7, QuietShape DEF StepShape
<1> QED BY ZenonT(60), <1>1, <1>2, <1>3, <1>4, <1>5, <1>6, <1>7 DEF Next

\* The plans leave the Task RUNNING.
LEMMA RunningTaskShown == ASSUME TaskType PROVE RunningTask.status = "RUNNING"
BY DEF RunningTask, TaskType

----------------------------------------------------------------------------
(* What is settled stays settled *)

\* A reconciliation leaves a terminal Task alone and otherwise changes only its
\* activity.
LEMMA ReconciledKeeps ==
    ASSUME NEW ex, NEW br
    PROVE  /\ ~TaskOpen => Reconciled(task, ex, br) = task
           /\ TaskOpen /\ TaskType => /\ Reconciled(task, ex, br).status \notin TaskTerminal
                                      /\ Reconciled(task, ex, br).output = task.output
BY Zenon DEF Reconciled, TaskOpen, TaskTerminal, TaskType

\* The dormant executions a resolution settles are dormant.
LEMMA SettlesDormant ==
    ASSUME IInv, NEW B, exec' = CancelledDormant(DormantHeads(B))
    PROVE  Cancels(DormantHeads(B)) /\ \A e \in DormantHeads(B) : e \in Executions /\ Dormant(e)
<1>1. DormantHeads(B) \in SUBSET Executions /\ \A e \in DormantHeads(B) : Dormant(e)
  BY Zenon DEF DormantHeads
<1> QED BY ZenonT(60), <1>1, CancelledFacts DEF IInv, TypeOK

\* The Task row: a terminal one never changes.
TaskKept == ~TaskOpen => task' = task

\* The execution rows: a terminal one never changes, revisions never go back,
\* an existing one keeps its branch, kind and depth.
ExecKept ==
    \A e \in Executions :
        /\ exec[e].state \in ExecTerminal => exec'[e] = exec[e]
        /\ exec'[e].rev >= exec[e].rev
        /\ exec[e].state # "ABSENT" => /\ exec'[e].branch = exec[e].branch
                                       /\ exec'[e].kind = exec[e].kind

\* The branch rows: a resolved one never changes, an OPEN one stays or is
\* resolved, and a new one is opened only for an open Task.
BranchKept ==
    \A b \in Branches :
        /\ branch[b].state \notin {"ABSENT", "OPEN"} => branch'[b] = branch[b]
        /\ branch'[b].state = "ABSENT" => branch[b].state = "ABSENT"
        /\ branch'[b].state = "OPEN" => branch[b].state = "OPEN" \/ TaskOpen

\* The claim rows: a settled one never changes.
ClaimKept ==
    \A c \in Claims : claim[c].state \in {"CONSUMED", "REJECTED", "EXPIRED"} => claim'[c] = claim[c]

\* Losers of a race for the Task row find it terminal and leave it.
LEMMA TaskKeptStep == IInv /\ StepShape => TaskKept
<1> SUFFICES ASSUME IInv, StepShape, ~TaskOpen PROVE task' = task
  BY DEF TaskKept
<1>1. CASE \E e \in Executions, b \in Branches, k \in ExecKind, d \in Nat : Admission(e, b, k, d)
  BY ZenonT(60), <1>1 DEF Admission
<1>2. CASE \E e \in Executions, s \in ExecState, r \in WaitReason \cup {None} : Movement(e, s, r)
  BY Zenon, <1>2, ReconciledKeeps DEF Movement
<1>3. CASE (\E e \in Executions : Activation(e)) \/ TaskMove
  BY ZenonT(60), <1>3, ReconciledKeeps DEF Activation, TaskMove
<1>4. CASE CancelTask
  <2>1. task.status = "CANCELLED" /\ task' = [task EXCEPT !.status = "CANCELLED"]
    BY Zenon, <1>4 DEF CancelTask, TaskOpen, TaskTerminal
  <2> QED BY SMTT(60), <2>1 DEF IInv, TypeOK, TaskType
<1>5. CASE \E b \in Branches : Discard(b) \/ Adopt(b)
  BY ZenonT(60), <1>5 DEF Discard, DiscardEligible, Adopt, AdoptEligible
<1> QED BY ZenonT(60), <1>1, <1>2, <1>3, <1>4, <1>5 DEF StepShape

\* The executions of a resolution: only dormant ones change.
LEMMA CancelsKeeps ==
    ASSUME IInv, NEW B, exec' = CancelledDormant(DormantHeads(B)) PROVE ExecKept
<1> DEFINE D == DormantHeads(B)
<1>1. Cancels(D) /\ \A e \in D : e \in Executions /\ Dormant(e)
  BY Zenon, SettlesDormant
<1> SUFFICES ASSUME NEW e \in Executions
             PROVE  /\ exec[e].state \in ExecTerminal => exec'[e] = exec[e]
                    /\ exec'[e].rev >= exec[e].rev
                    /\ exec[e].state # "ABSENT" => /\ exec'[e].branch = exec[e].branch
                                                   /\ exec'[e].kind = exec[e].kind
  BY Zenon DEF ExecKept
<1>2. exec[e].rev \in Nat
  BY SMTT(60) DEF IInv, TypeOK, ExecType, ExecRow
<1>3. CASE e \in D
  BY SMTT(60), <1>1, <1>2, <1>3 DEF Cancels, Dormant, ExecTerminal
<1>4. CASE e \notin D
  <2>1. exec'[e] = exec[e]
    BY ZenonT(60), <1>1, <1>4 DEF Cancels
  <2> QED BY SMTT(60), <1>2, <2>1
<1> QED BY SMTT(60), <1>3, <1>4

\* Compare-and-set on the revision: nothing writes a terminal execution again.
LEMMA ExecKeptStep == IInv /\ StepShape => ExecKept
<1> SUFFICES ASSUME IInv, StepShape PROVE ExecKept
  BY SMTT(60)
<1>1. \A e \in Executions : exec[e].rev \in Nat /\ (exec[e].state = "ABSENT" => exec[e].rev = 0)
  BY SMTT(60) DEF IInv, TypeOK, Lineage, ExecType, ExecRow, ExecLineage, NoExec
<1>2. ASSUME NEW e \in Executions, NEW b \in Branches, NEW k \in ExecKind, NEW d \in Nat,
             Admission(e, b, k, d)
      PROVE  ExecKept
  <2>1. exec[e].state = "ABSENT" /\ exec'[e].rev = 1 /\ OthersKept(e)
    BY ZenonT(60), <1>2 DEF Admission, Admits
  <2> QED BY SMTT(60), <1>1, <2>1 DEF OthersKept, ExecKept, ExecTerminal
<1>3. ASSUME NEW e \in Executions, NEW s \in ExecState, NEW r \in WaitReason \cup {None},
             Movement(e, s, r)
      PROVE  ExecKept
  <2>1. /\ exec[e].state \in {"RUNNING", "WAITING"} /\ exec'[e].rev = exec[e].rev + 1
        /\ OthersKept(e) /\ exec'[e].branch = exec[e].branch /\ exec'[e].kind = exec[e].kind
    BY ZenonT(60), <1>3 DEF Movement, MovesTo
  <2> QED BY SMTT(60), <1>1, <2>1 DEF OthersKept, ExecKept, ExecTerminal
<1>4. ASSUME NEW e \in Executions, Activation(e) PROVE ExecKept
  BY SMTT(60), <1>1, <1>4 DEF Activation, Dormant, OthersKept, ExecKept, ExecTerminal
<1>5. CASE CancelTask
  BY ZenonT(60), <1>5, CancelsKeeps DEF CancelTask
<1>6. CASE \E b \in Branches : Discard(b) \/ Adopt(b)
  BY ZenonT(60), <1>6, CancelsKeeps DEF Discard, Adopt
<1>7. CASE TaskMove
  BY SMTT(60), <1>1, <1>7 DEF TaskMove, ExecKept
<1> QED BY ZenonT(60), <1>2, <1>3, <1>4, <1>5, <1>6, <1>7 DEF StepShape

\* Forks open new branches, resolutions close OPEN ones, and that is all.
LEMMA BranchKeptStep == IInv /\ StepShape => BranchKept
<1> SUFFICES ASSUME IInv, StepShape PROVE BranchKept
  BY SMTT(60)
<1>1. CASE branch' = branch
  BY Zenon, <1>1 DEF BranchKept
<1>2. ASSUME NEW e \in Executions, NEW b \in Branches, NEW k \in ExecKind, NEW d \in Nat,
             Admission(e, b, k, d)
      PROVE  BranchKept
  <2>1. CASE branch' = branch
    BY ZenonT(60), <2>1 DEF BranchKept
  <2>2. CASE branch' # branch
    <3>1. /\ TaskOpen /\ branch[b].state \in {"ABSENT", "OPEN"} /\ branch'[b].state = "OPEN"
          /\ \A x \in Branches \ {b} : branch'[x] = branch[x]
      BY SMTT(60), <1>2, <2>2 DEF Admission
    <3> QED BY SMTT(60), <3>1 DEF BranchKept
  <2> QED BY SMTT(60), <2>1, <2>2
<1>3. CASE \E e \in Executions, s \in ExecState, r \in WaitReason \cup {None} : Movement(e, s, r)
  BY ZenonT(60), <1>1, <1>3 DEF Movement
<1>4. CASE (\E e \in Executions : Activation(e)) \/ CancelTask \/ TaskMove
  BY ZenonT(60), <1>1, <1>4 DEF Activation, CancelTask, TaskMove
<1>5. ASSUME NEW b \in Branches, Discard(b) PROVE BranchKept
  BY SMTT(60), <1>5 DEF Discard, DiscardEligible, OpenBranches, BranchKept, IInv, TypeOK, BranchType
<1>6. ASSUME NEW b \in Branches, Adopt(b) PROVE BranchKept
  <2>1. branch[b].state = "OPEN"
    BY ZenonT(60), <1>6 DEF Adopt, AdoptEligible, CompletedHead, OpenBranches
  <2>2. ASSUME NEW x \in Branches
        PROVE  /\ x = b => branch'[x] = [branch[x] EXCEPT !.state = "ADOPTED"]
               /\ x # b /\ branch[x].state = "OPEN"
                    => branch'[x] = [branch[x] EXCEPT !.state = "SUPERSEDED"]
               /\ x # b /\ branch[x].state # "OPEN" => branch'[x] = branch[x]
    BY Zenon, <1>6 DEF Adopt, OpenBranches
  <2>3. \A x \in Branches : branch[x].state = "OPEN" => branch'[x].state \in {"ADOPTED", "SUPERSEDED"}
    <3> SUFFICES ASSUME NEW x \in Branches, branch[x].state = "OPEN"
                 PROVE  branch'[x].state \in {"ADOPTED", "SUPERSEDED"}
      OBVIOUS
    <3>1. branch[x] \in [state : BranchState, head : Executions \cup {None}]
      BY Zenon DEF IInv, TypeOK, BranchType
    <3>2. /\ [branch[x] EXCEPT !.state = "ADOPTED"].state = "ADOPTED"
          /\ [branch[x] EXCEPT !.state = "SUPERSEDED"].state = "SUPERSEDED"
      BY SMTT(60), <3>1
    <3>3. \/ branch'[x] = [branch[x] EXCEPT !.state = "ADOPTED"]
          \/ branch'[x] = [branch[x] EXCEPT !.state = "SUPERSEDED"]
      BY Zenon, <2>2
    <3> QED BY ZenonT(60), <3>2, <3>3
  <2> QED BY ZenonT(60), <2>1, <2>2, <2>3 DEF BranchKept
<1> QED BY ZenonT(60), <1>2, <1>3, <1>4, <1>5, <1>6 DEF StepShape

\* Every write to a claim is conditional on PLANNED or CREATED.
LEMMA ClaimKeptStep == IInv /\ [Next]_vars => ClaimKept
<1> SUFFICES ASSUME IInv, [Next]_vars PROVE ClaimKept
  OBVIOUS
<1>1. CASE claim' = claim
  BY Zenon, <1>1 DEF ClaimKept
<1>2. CASE claim' = RejectedCreated
  BY ZenonT(60), <1>2 DEF RejectedCreated, ClaimKept
<1>3. CASE Coordinator
  BY ZenonT(60), <1>1, <1>2, <1>3
     DEF Coordinator, CoordStart, AdmitRoot, AdmitFail, CoordSettle, CoordRaises
<1>4. CASE Runtime
  BY ZenonT(60), <1>1, <1>4
     DEF Runtime, FinishRaises, Delegate, FinishWaiting, FinishTerminal, Finish, Reconcile,
         ReconcileRaises, FinishRecovered, ResumeDirect, ExpireWaiting
<1>5. ASSUME NEW c \in Claims, claim[c].state \in {"FREE", "PLANNED", "CREATED"},
             \A x \in Claims \ {c} : claim'[x] = claim[x]
      PROVE  ClaimKept
  BY SMTT(60), <1>5 DEF ClaimKept
<1>6. ASSUME NEW c \in Claims,
             \/ \E e \in Executions : PlanResume(c, e)
             \/ CreateClaim(c) \/ ExpireClaim(c) \/ RejectClaim(c) \/ ConsumeWaitExpired(c)
             \/ ConsumeClaim(c) \/ ConsumeRecoveryClaim(c)
      PROVE  ClaimKept
  <2>1. claim[c].state \in {"FREE", "PLANNED", "CREATED"}
    BY ZenonT(60), <1>6 DEF PlanResume, CreateClaim, ExpireClaim, RejectClaim, ConsumeWaitExpired, ConsumeClaim,
       ConsumeRecoveryClaim, ClaimCurrent
  <2>2. \A x \in Claims \ {c} : claim'[x] = claim[x]
    BY ZenonT(60), <1>6 DEF PlanResume, CreateClaim, ExpireClaim, RejectClaim, ConsumeWaitExpired, ConsumeClaim,
       ConsumeRecoveryClaim, IInv, TypeOK, ClaimType
  <2> QED BY ZenonT(60), <1>5, <2>1, <2>2
<1>7. CASE Resume
  BY ZenonT(60), <1>1, <1>6, <1>7 DEF Resume, RecoverClaimedResume, Finish
<1>8. CASE Sweep \/ ControlPlane \/ Crash \/ (UNCHANGED vars)
  BY ZenonT(60), <1>1, <1>8
     DEF Sweep, RecoverExpired, FailExpired, Evacuate, ControlPlane, Fork, Retry, Aggregate, Activate,
         ActivateFork, ActivateRetry, ActivateAggregate, Crash, vars
<1>9. CASE Resolution
  BY ZenonT(60), <1>1, <1>2, <1>9 DEF Resolution, CancelTask, Discard, Adopt
<1> QED BY ZenonT(60), <1>3, <1>4, <1>7, <1>8, <1>9 DEF Next

\* What is settled stays settled: a terminal Task keeps status and output, a
\* terminal execution and a resolved branch never change, claims only advance,
\* revisions never go back, however late the loser of a race commits.
THEOREM SettlementFinal == Spec => SettledForever
<1>1. ASSUME IInv, [Next]_vars
      PROVE  [/\ ~TaskOpen => task' = task
              /\ \A e \in Executions : /\ exec[e].state \in ExecTerminal => exec'[e] = exec[e]
                                       /\ exec'[e].rev >= exec[e].rev
              /\ \A b \in Branches : branch[b].state \notin {"ABSENT", "OPEN"}
                                        => branch'[b] = branch[b]
              /\ \A c \in Claims : claim[c].state \in {"CONSUMED", "REJECTED", "EXPIRED"}
                                        => claim'[c] = claim[c]]_vars
  <2>1. TaskKept /\ ExecKept /\ BranchKept /\ ClaimKept
    BY ZenonT(60), <1>1, EveryStepShaped, TaskKeptStep, ExecKeptStep, BranchKeptStep, ClaimKeptStep
  <2> QED BY ZenonT(60), <2>1 DEF TaskKept, ExecKept, BranchKept, ClaimKept
<1> QED BY <1>1, Inductive, PTL DEF Spec, SettledForever

=============================================================================
