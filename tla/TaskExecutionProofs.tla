------------------------- MODULE TaskExecutionProofs -------------------------
(***************************************************************************)
(* For every number of executions, branches and claims and every limit:    *)
(* the type invariant, the exactness of the TaskBudget counters, the       *)
(* limits, the terminal/closed coupling, the fencing of stale holders and  *)
(* the uniqueness of claim consumption.                                    *)
(***************************************************************************)
EXTENDS TaskExecutionSteps

----------------------------------------------------------------------------
(* Activation, admissions and the coordinator keep the invariant *)

\* Activation advances a dormant head from revision 1 to 2; nothing starts or
\* stops, and the new holder is the only one.
LEMMA ActivateStep ==
    ASSUME NEW e \in Executions, NEW k PROVE IInv /\ Activate(e, k) => IInv'
<1> SUFFICES ASSUME IInv, Activate(e, k) PROVE IInv'
  OBVIOUS
<1> USE DEF IInv, TypeOK, Lineage
<1>1. exec[e].state = "RUNNING" /\ exec[e].rev = 1
  BY DEF Activate, Dormant
<1>2. /\ ExecType' /\ OthersKept(e)
      /\ exec'[e].rev = 2 /\ exec'[e].state = exec[e].state /\ exec'[e].reason = exec[e].reason
      /\ exec'[e].branch = exec[e].branch /\ exec'[e].depth = exec[e].depth
  BY SMTT(60) DEF Activate, ExecType, ExecRow, OthersKept
<1>3. Advances
  BY SMTT(60), <1>1, <1>2 DEF Advances, OthersKept
<1>4. \A x \in Executions : /\ exec'[x].state = exec[x].state /\ exec'[x].branch = exec[x].branch
                            /\ exec'[x].depth = exec[x].depth /\ exec'[x].reason = exec[x].reason
                            /\ exec'[x].rev >= exec[x].rev
                            /\ exec'[x].state = "ABSENT" => exec'[x] = exec[x]
  BY SMTT(60), <1>1, <1>2 DEF OthersKept, ExecType, ExecRow
<1>5. ExecLineage' /\ BranchLineage'
  <2>1. branch' = branch
    BY SMTT(60) DEF Activate
  <2>2. ExecLineage'
    BY SMTT(60), <1>2, <1>4, <2>1 DEF ExecLineage, ExecType, ExecRow
  <2>3. BranchLineage'
    BY SMTT(60), <1>4, <2>1, SetsAssumption DEF BranchLineage, BranchType
  <2> QED BY SMTT(60), <2>2, <2>3
<1>6. ActiveCapacityExact'
  BY SMTT(60), <1>4, SameRunning DEF Activate
<1>7. AdmissionAccountingExact' /\ BudgetType' /\ BudgetBounded'
  <2>1. branch' = branch /\ budget' = budget
    BY Zenon DEF Activate
  <2>2. Existing' = Existing /\ OpenBranches' = OpenBranches
    BY SMTT(60), <1>4, <2>1 DEF Existing, OpenBranches
  <2>3. BudgetType' /\ BudgetBounded'
    BY Zenon, <2>1 DEF BudgetType, BudgetBounded
  <2> QED BY SMTT(60), <2>1, <2>2, <2>3, AccountingSame
<1>8. TaskType' /\ BranchType' /\ ClaimType' /\ TerminalIsClosed'
  BY Zenon DEF Activate, TaskType, BranchType, ClaimType, TerminalIsClosed, TaskOpen
<1>9. ClaimTargetsKept /\ NoneNewlyConsumed
  BY DEF Activate, ClaimTargetsKept, NoneNewlyConsumed
<1>10. ClaimLineage' /\ ConsumedOnce'
  BY ZenonT(60), <1>2, <1>3, <1>9, ClaimLineageKept, ConsumedOnceKept
<1>11. SingleWriter'
  <2>1. \A h \in live' : h \in live \/ h = <<e, 2>>
    BY DEF Activate
  <2>2. ~Dormant(e)'
    BY SMTT(60), <1>2 DEF Dormant
  <2> QED BY SMTT(60), <1>1, <1>2, <1>3, <2>1, <2>2, SingleWriterKept
<1>12. CoordType' /\ CoordLineage' /\ HolderType'
  BY DEF Activate, CoordType, CoordLineage, HolderType
<1> QED BY ZenonT(60), <1>2, <1>5, <1>6, <1>7, <1>8, <1>10, <1>11, <1>12

\* Showing the Task RUNNING keeps its row well formed and open.
LEMMA RunningTaskFacts ==
    ASSUME TaskType, TaskOpen, task' = RunningTask
    PROVE  TaskKeptOpen
BY Zenon DEF TaskKeptOpen, TaskType, TaskStatus, TaskTerminal, TaskOpen, RunningTask

\* consume_fork_plan keeps the invariant.
LEMMA ForkStep ==
    ASSUME NEW src \in Executions, NEW e \in Executions, NEW b \in Branches
    PROVE  IInv /\ Fork(src, e, b) => IInv'
<1> SUFFICES ASSUME IInv, Fork(src, e, b) PROVE IInv'
  BY SMTT(60)
<1> USE DEF IInv, TypeOK, Lineage
<1>1. PICK d \in Nat : d = exec[src].depth
  BY SMTT(60) DEF ExecType, ExecRow
<1>2. /\ HasActiveSlot(d) /\ budget.used < MaxTotal /\ budget.branches < MaxBranches /\ TaskOpen
      /\ exec[e].state = "ABSENT" /\ branch[b].state = "ABSENT"
  BY SMTT(60), <1>1 DEF Fork, ForkEligible, PlanEligible, TaskOpen, TaskTerminal
<1>3. Admits(e, b, "FORK", d) /\ "FORK" \in ExecKind
  BY ZenonT(60), <1>1, AdmittedFacts DEF Fork, ExecKind, PlannedKind
<1>4. Charges(d, 1)
  BY ZenonT(60), <1>1, ChargedFacts DEF Fork
<1>5. /\ BranchType' /\ \A x \in Branches \ {b} : branch'[x] = branch[x]
      /\ branch'[b].state = "OPEN" /\ branch'[b].head = e
  BY SMTT(60) DEF Fork, BranchType, BranchState
<1>6. TaskKeptOpen /\ claim' = claim /\ live' = live
  BY SMTT(60), <1>2, RunningTaskFacts DEF Fork
<1>7. RowsInv' /\ live' \in SUBSET (Executions \X Nat)
  BY SMTT(60), <1>2, <1>3, <1>4, <1>5, <1>6, AdmitStep
<1>8. CoordType' /\ CoordLineage' /\ HolderType'
  BY DEF Fork, CoordType, CoordLineage, HolderType
<1> QED BY ZenonT(60), <1>7, <1>8, RowsAndCall

\* consume_retry_plan keeps the invariant.
LEMMA RetryStep ==
    ASSUME NEW src \in Executions, NEW e \in Executions
    PROVE  IInv /\ Retry(src, e) => IInv'
<1> SUFFICES ASSUME IInv, Retry(src, e) PROVE IInv'
  OBVIOUS
<1> USE DEF IInv, TypeOK, Lineage
<1>1. PICK d \in Nat : d = exec[src].depth
  BY DEF ExecType, ExecRow
<1>2. PICK b \in OpenBranches : b = exec[src].branch
  BY Zenon DEF Retry, RetryEligible, IsOpenHead
<1>3. b \in Branches /\ branch[b].state = "OPEN"
  BY Zenon DEF OpenBranches
<1>4. /\ HasActiveSlot(d) /\ budget.used < MaxTotal /\ TaskOpen /\ exec[e].state = "ABSENT"
  BY Zenon, <1>1 DEF Retry, RetryEligible, PlanEligible, TaskOpen, TaskTerminal
<1>5. Admits(e, b, "RETRY", d) /\ "RETRY" \in ExecKind
  BY ZenonT(60), <1>1, <1>2, <1>3, AdmittedFacts DEF Retry, ExecKind, PlannedKind
<1>6. Charges(d, 0)
  BY Zenon, <1>1, ChargedFacts DEF Retry
<1>7. /\ BranchType' /\ \A x \in Branches \ {b} : branch'[x] = branch[x]
      /\ branch'[b].state = "OPEN" /\ branch'[b].head = e
  BY ZenonT(60), <1>2, <1>3 DEF Retry, BranchType
<1>8. TaskKeptOpen /\ claim' = claim /\ live' = live
  BY ZenonT(60), <1>4, RunningTaskFacts DEF Retry
<1>9. RowsInv' /\ live' \in SUBSET (Executions \X Nat)
  BY SMTT(60), <1>3, <1>4, <1>5, <1>6, <1>7, <1>8, AdmitStep
<1>10. CoordType' /\ CoordLineage' /\ HolderType'
  BY DEF Retry, CoordType, CoordLineage, HolderType
<1> QED BY ZenonT(60), <1>9, <1>10, RowsAndCall

\* aggregate_branches keeps the invariant.
LEMMA AggregateStep ==
    ASSUME NEW b \in Branches, NEW e \in Executions
    PROVE  IInv /\ Aggregate(b, e) => IInv'
<1> SUFFICES ASSUME IInv, Aggregate(b, e) PROVE IInv'
  BY SMTT(60)
<1> USE DEF IInv, TypeOK, Lineage
<1>1. b \in OpenBranches /\ branch[b].state = "OPEN" /\ branch[b].head \in Executions
  BY SMTT(60), SetsAssumption DEF Aggregate, AggregateEligible, CompletedHead, OpenBranches, BranchType,
     BranchLineage
<1>2. PICK d \in Nat : d = exec[branch[b].head].depth
  BY Zenon, <1>1 DEF ExecType, ExecRow
<1>3. /\ HasActiveSlot(d) /\ budget.used < MaxTotal /\ TaskOpen /\ exec[e].state = "ABSENT"
  BY Zenon, <1>2 DEF Aggregate, AggregateEligible
<1>4. Admits(e, b, "AGGREGATE", d) /\ "AGGREGATE" \in ExecKind
  BY Zenon, <1>2, AdmittedFacts DEF Aggregate, ExecKind, PlannedKind
<1>5. Charges(d, 0)
  BY ZenonT(60), <1>2, ChargedFacts DEF Aggregate
<1>6. /\ BranchType' /\ \A x \in Branches \ {b} : branch'[x] = branch[x]
      /\ branch'[b].state = "OPEN" /\ branch'[b].head = e
  BY SMTT(60), <1>1 DEF Aggregate, BranchType
<1>7. TaskKeptOpen /\ claim' = claim /\ live' = live
  BY ZenonT(60), <1>3, RunningTaskFacts DEF Aggregate
<1>8. RowsInv' /\ live' \in SUBSET (Executions \X Nat)
  BY SMTT(60), <1>1, <1>3, <1>4, <1>5, <1>6, <1>7, AdmitStep
<1>9. CoordType' /\ CoordLineage' /\ HolderType'
  BY ZenonT(60) DEF Aggregate, CoordType, CoordLineage, HolderType
<1> QED BY ZenonT(60), <1>8, <1>9, RowsAndCall

\* start_task_scoped_execution keeps the invariant.
LEMMA DelegateStep ==
    ASSUME NEW p \in Executions, NEW e \in Executions
    PROVE  IInv /\ Delegate(p, e) => IInv'
<1> SUFFICES ASSUME IInv, Delegate(p, e) PROVE IInv'
  OBVIOUS
<1> USE DEF IInv, TypeOK, Lineage
<1>1. PICK d \in Nat : d = exec[p].depth + 1
  BY DEF ExecType, ExecRow
<1>2. PICK b \in OpenBranches : b = exec[p].branch
  BY Zenon DEF Delegate, DelegationEligible
<1>3. b \in Branches /\ branch[b].state = "OPEN"
  BY Zenon DEF OpenBranches
<1>4. /\ HasActiveSlot(d) /\ budget.used < MaxTotal /\ exec[e].state = "ABSENT"
  BY Zenon, <1>1 DEF Delegate, DelegationEligible
<1>5. Admits(e, b, "CHILD", d) /\ "CHILD" \in ExecKind /\ "CHILD" \notin PlannedKind
  BY ZenonT(60), <1>1, <1>2, <1>3, AdmittedFacts DEF Delegate, ExecKind, PlannedKind
<1>6. Charges(d, 0)
  BY ZenonT(60), <1>1, ChargedFacts DEF Delegate
<1>7. /\ BranchType' /\ branch' = branch /\ TaskKeptOpen /\ claim' = claim
      /\ live' = live \cup {<<e, 1>>}
  BY ZenonT(60) DEF Delegate, BranchType, TaskKeptOpen, TaskType
<1>8. RowsInv' /\ live' \in SUBSET (Executions \X Nat)
  BY SMTT(60), <1>3, <1>4, <1>5, <1>6, <1>7, AdmitStep
<1>9. CoordType' /\ CoordLineage' /\ HolderType'
  BY Zenon, <1>8 DEF Delegate, CoordType, CoordLineage, HolderType
<1> QED BY ZenonT(60), <1>8, <1>9, RowsAndCall

\* start_root_task_scoped_execution keeps the invariant.
LEMMA AdmitRootStep ==
    ASSUME NEW e \in Executions, NEW b \in Branches
    PROVE  IInv /\ AdmitRoot(e, b) => IInv'
<1> SUFFICES ASSUME IInv, AdmitRoot(e, b) PROVE IInv'
  BY SMTT(60)
<1> USE DEF IInv, TypeOK, Lineage
<1>1. /\ HasActiveSlot(0) /\ budget.used < MaxTotal /\ budget.branches < MaxBranches
      /\ exec[e].state = "ABSENT" /\ branch[b].state = "ABSENT"
  BY DEF AdmitRoot, RootEligible, Existing
<1>2. Admits(e, b, "ROOT", 0) /\ "ROOT" \in ExecKind /\ "ROOT" \notin PlannedKind
  BY ZenonT(60), AdmittedFacts DEF AdmitRoot, ExecKind, PlannedKind
<1>3. Charges(0, 1)
  BY SMTT(60), ChargedFacts DEF AdmitRoot
<1>4. /\ BranchType' /\ \A x \in Branches \ {b} : branch'[x] = branch[x]
      /\ branch'[b].state = "OPEN" /\ branch'[b].head = e
  BY SMTT(60) DEF AdmitRoot, BranchType, BranchState
<1>5. TaskKeptOpen /\ claim' = claim /\ live' = live \cup {<<e, 1>>}
  BY SMTT(60) DEF AdmitRoot, TaskKeptOpen, TaskType
<1>6. RowsInv' /\ live' \in SUBSET (Executions \X Nat)
  BY SMTT(60), <1>1, <1>2, <1>3, <1>4, <1>5, AdmitStep
<1>7. CoordType' /\ CoordLineage' /\ HolderType'
  BY ZenonT(60), <1>6 DEF AdmitRoot, CoordType, CoordLineage, HolderType
<1> QED BY ZenonT(60), <1>6, <1>7, RowsAndCall

\* Steps that leave budget, branches, executions and claims alone.
LEMMA TaskOnlyStep ==
    ASSUME IInv, UNCHANGED <<budget, branch, exec, claim>>, TaskKeptOpen,
           live' \in SUBSET live, CoordType', CoordLineage', due' \in SUBSET Executions
    PROVE  IInv'
<1> USE DEF IInv, TypeOK, Lineage
<1>1. TaskType' /\ BudgetType' /\ BranchType' /\ ExecType' /\ ClaimType' /\ HolderType'
  BY Zenon DEF TaskKeptOpen, BudgetType, BranchType, ExecType, ClaimType, HolderType
<1>2. ExecLineage' /\ BranchLineage' /\ ClaimLineage' /\ ConsumedOnce'
  BY ZenonT(60) DEF ExecLineage, BranchLineage, ClaimLineage, Existing, ConsumedOnce
<1>3. ActiveCapacityExact' /\ AdmissionAccountingExact' /\ BudgetBounded'
  BY Zenon DEF ActiveCapacityExact, AdmissionAccountingExact, BudgetBounded, Running, RunningDelegated,
         Delegated, Existing, OpenBranches
<1>4. TerminalIsClosed'
  BY Zenon, ClosedKept
<1>5. SingleWriter'
  BY Zenon DEF SingleWriter, Dormant
<1> QED BY ZenonT(60), <1>1, <1>2, <1>3, <1>4, <1>5

\* transition_task to RUNNING keeps the invariant.
LEMMA CoordStartStep == IInv /\ CoordStart => IInv'
<1> SUFFICES ASSUME IInv, CoordStart PROVE IInv'
  OBVIOUS
<1> USE DEF IInv, TypeOK, Lineage
<1>1. TaskKeptOpen
  BY Zenon DEF CoordStart, TaskKeptOpen, TaskType, TaskStatus, TaskTerminal, TaskOpen
<1>2. CoordType' /\ CoordLineage'
  BY DEF CoordStart, NoCall, CoordType, CoordLineage
<1> QED BY ZenonT(60), <1>1, <1>2, TaskOnlyStep DEF CoordStart, HolderType

\* An execute_task call that fails before admission keeps the invariant.
LEMMA AdmitFailStep ==
    ASSUME NEW o \in Raised PROVE IInv /\ AdmitFail(o) => IInv'
<1> SUFFICES ASSUME IInv, AdmitFail(o) PROVE IInv'
  OBVIOUS
<1> USE DEF IInv, TypeOK, Lineage
<1>1. o \in CallOutcome /\ o # None /\ o # "WAITING"
  BY SMTT(60), NoneAssumption DEF CallOutcome, Raised
<1>2. CoordType' /\ CoordLineage'
  BY Zenon, <1>1 DEF AdmitFail, CoordType, CoordLineage
<1>3. TaskKeptOpen
  BY DEF AdmitFail, TaskKeptOpen, TaskType
<1> QED BY ZenonT(60), <1>2, <1>3, TaskOnlyStep DEF AdmitFail, HolderType

\* A finish that raises keeps the invariant.
LEMMA FinishRaisesStep ==
    ASSUME NEW h \in live, NEW o \in Raised PROVE IInv /\ FinishRaises(h, o) => IInv'
<1> SUFFICES ASSUME IInv, FinishRaises(h, o) PROVE IInv'
  OBVIOUS
<1> USE DEF IInv, TypeOK, Lineage
<1>1. CoordType' /\ CoordLineage'
  <2>1. o \in CallOutcome /\ o # "WAITING"
    BY DEF CallOutcome, Raised
  <2> QED BY ZenonT(60), <2>1, ObserveFacts DEF FinishRaises
<1>2. TaskKeptOpen
  BY Zenon DEF FinishRaises, TaskKeptOpen, TaskType
<1> QED BY ZenonT(60), <1>1, <1>2, TaskOnlyStep DEF FinishRaises, HolderType

\* reconcile_multibranch_task_activity keeps the invariant.
LEMMA ReconcileActionStep ==
    ASSUME NEW e \in Executions PROVE IInv /\ Reconcile(e) => IInv'
<1> SUFFICES ASSUME IInv, Reconcile(e) PROVE IInv'
  BY SMTT(60)
<1> USE DEF IInv, TypeOK, Lineage
<1>1. /\ ExecType' /\ ExecLineage' /\ branch' = branch /\ exec' = exec
      /\ task' = Reconciled(task, exec', branch)
  BY DEF Reconcile, ExecType, ExecLineage
<1>2. TaskKeptOpen
  BY ZenonT(60), <1>1, ReconcileStep
<1>3. CoordType' /\ CoordLineage'
  BY DEF Reconcile, Returning, CoordType, CoordLineage
<1> QED BY ZenonT(60), <1>2, <1>3, TaskOnlyStep DEF Reconcile, HolderType

\* A reconciliation that raises keeps the invariant.
LEMMA ReconcileRaisesStep ==
    ASSUME NEW e \in Executions, NEW o \in Raised
    PROVE  IInv /\ ReconcileRaises(e, o) => IInv'
<1> SUFFICES ASSUME IInv, ReconcileRaises(e, o) PROVE IInv'
  OBVIOUS
<1> USE DEF IInv, TypeOK, Lineage
<1>1. o \in CallOutcome /\ o # None /\ o # "WAITING"
  BY SMTT(60), NoneAssumption DEF CallOutcome, Raised
<1>2. CoordType' /\ CoordLineage'
  BY Zenon, <1>1 DEF ReconcileRaises, Returning, CoordType, CoordLineage
<1>3. TaskKeptOpen
  BY DEF ReconcileRaises, TaskKeptOpen, TaskType
<1> QED BY ZenonT(60), <1>2, <1>3, TaskOnlyStep DEF ReconcileRaises, HolderType

\* A settling transaction that raises keeps the invariant.
LEMMA CoordRaisesStep == IInv /\ CoordRaises => IInv'
<1> SUFFICES ASSUME IInv, CoordRaises PROVE IInv'
  OBVIOUS
<1> USE DEF IInv, TypeOK, Lineage
<1>1. CoordType' /\ CoordLineage'
  BY Zenon DEF CoordRaises, NoCall, CoordType, CoordLineage
<1>2. TaskKeptOpen
  BY Zenon DEF CoordRaises, TaskKeptOpen, TaskType
<1> QED BY ZenonT(60), <1>1, <1>2, TaskOnlyStep DEF CoordRaises, HolderType

\* Losing every process keeps the invariant: it is about durable rows.
LEMMA CrashStep == IInv /\ Crash => IInv'
<1> SUFFICES ASSUME IInv, Crash PROVE IInv'
  OBVIOUS
<1> USE DEF IInv, TypeOK, Lineage
<1>1. CoordType' /\ CoordLineage'
  BY Zenon DEF Crash, NoCall, CoordType, CoordLineage
<1>2. TaskKeptOpen
  BY Zenon DEF Crash, TaskKeptOpen, TaskType
<1> QED BY ZenonT(60), <1>1, <1>2, TaskOnlyStep DEF Crash

\* terminalize_task and transition_task to WAITING keep the invariant.
LEMMA CoordSettleStep == IInv /\ CoordSettle => IInv'
<1> SUFFICES ASSUME IInv, CoordSettle PROVE IInv'
  OBVIOUS
<1> USE DEF IInv, TypeOK, Lineage
<1>1. /\ CoordType' /\ CoordLineage' /\ HolderType' /\ BranchType' /\ ExecType'
      /\ ExecLineage' /\ BranchLineage' /\ Existing' = Existing /\ OpenBranches' = OpenBranches
      /\ live' = live /\ due' = due /\ branch' = branch /\ exec' = exec
  BY SMTT(60) DEF CoordSettle, NoCall, CoordType, CoordLineage, HolderType, BranchType, ExecType, ExecLineage,
     BranchLineage, Existing, OpenBranches
<1>2. coord.outcome \in CallOutcome /\ (coord.outcome = "WAITING" => coord.reason \in WaitReason)
  BY SMTT(60) DEF CoordSettle, CoordType, CoordLineage
<1>3. CASE coord.outcome = "WAITING" \/ ~Terminalizes
  <2>1. budget' = budget /\ claim' = claim
    BY SMTT(60), <1>3 DEF CoordSettle
  <2>2. \/ task' = task \/ task' = Reconciled(task, exec', branch)
        \/ /\ task.status = "RUNNING" /\ coord.outcome = "WAITING"
           /\ task' = [task EXCEPT !.status = "WAITING", !.reasons = {coord.reason}]
    BY ZenonT(60), <1>1, <1>3 DEF CoordSettle, SettledWaiting
  <2>3. CASE task' = task \/ task' = Reconciled(task, exec', branch)
    BY ZenonT(60), <1>1, <2>1, <2>3, ReconcileStep, TaskOnlyStep DEF HolderType
  <2>4. CASE /\ task.status = "RUNNING" /\ coord.outcome = "WAITING"
             /\ task' = [task EXCEPT !.status = "WAITING", !.reasons = {coord.reason}]
    <3>1. TaskKeptOpen
      BY ZenonT(60), <1>2, <2>4 DEF TaskKeptOpen, TaskType, TaskStatus, TaskTerminal
    <3> QED BY ZenonT(60), <1>1, <2>1, <3>1, TaskOnlyStep DEF HolderType
  <2> QED BY SMTT(60), <2>2, <2>3, <2>4
<1>4. CASE coord.outcome # "WAITING" /\ Terminalizes
  <2>1. /\ budget' = [budget EXCEPT !.state = "CLOSED"] /\ claim' = RejectedCreated
        /\ task' = [task EXCEPT !.status = coord.outcome, !.reasons = {},
                        !.output = IF coord.outcome = "COMPLETED" THEN coord.exec ELSE None]
    BY SMTT(60), <1>4 DEF CoordSettle
  <2>2. coord.outcome \in TaskTerminal /\ coord.exec \in Executions \cup {None}
    BY ZenonT(60), <1>2, <1>4 DEF CallOutcome, TaskTerminal, CoordType
  <2>3. TaskType' /\ task'.status \in TaskTerminal
    <3>1. PICK o \in Executions \cup {None} :
            o = IF coord.outcome = "COMPLETED" THEN coord.exec ELSE None
      BY SMTT(60), <2>2
    <3> DEFINE row == [status : TaskStatus, reasons : SUBSET WaitReason,
                       output : Executions \cup {None}]
               t == [task EXCEPT !.status = coord.outcome, !.reasons = {}]
    <3>2. t \in row /\ t.status = coord.outcome
      BY Zenon, <2>2 DEF TaskType, TaskStatus
    <3>3. task' = [t EXCEPT !.output = o]
      BY SMTT(60), <2>1, <3>1
    <3> HIDE DEF t
    <3> QED BY SMTT(60), <2>2, <3>2, <3>3 DEF TaskType
  <2>4. /\ BudgetType' /\ BudgetBounded' /\ ActiveCapacityExact' /\ AdmissionAccountingExact'
        /\ budget'.state = "CLOSED"
    BY SMTT(60), <1>1, <2>1 DEF BudgetType, BudgetBounded, ActiveCapacityExact, AdmissionAccountingExact,
       Running, RunningDelegated, Delegated
  <2>5. /\ ClaimType' /\ ClaimTargetsKept /\ NoneNewlyConsumed
        /\ \A c \in Claims : claim'[c].state # "CREATED"
    BY SMTT(60), <2>1, RejectedFacts
  <2>6. Advances
    BY Zenon, <1>1 DEF Advances
  <2>7. ClaimLineage' /\ ConsumedOnce' /\ SingleWriter'
    BY ZenonT(60), <1>1, <2>5, <2>6, ClaimLineageKept, ConsumedOnceKept, SingleWriterKept
  <2>8. TerminalIsClosed'
    BY ZenonT(60), <2>3, <2>4, <2>5 DEF TerminalIsClosed, TaskOpen
  <2> QED BY ZenonT(60), <1>1, <2>3, <2>4, <2>5, <2>7, <2>8
<1> QED BY ZenonT(60), <1>3, <1>4

----------------------------------------------------------------------------
(* The theorems *)

\* create_task_with_budget establishes the invariant.
LEMMA InitIInv == Init => IInv
<1> SUFFICES ASSUME Init PROVE IInv
  OBVIOUS
<1> USE DEF Init
<1>1. TaskType /\ BudgetType /\ CoordType /\ HolderType
  BY Zenon DEF TaskType, TaskStatus, BudgetType, NoCall, CoordType, HolderType
<1>2. BranchType /\ ClaimType
  BY Zenon DEF BranchType, BranchState, ClaimType, ClaimState
<1>3. ExecType
  BY Zenon DEF ExecType, ExecRow, NoExec, ExecState, ExecKind
<1>4. ExecLineage /\ BranchLineage /\ ClaimLineage /\ CoordLineage
  BY Zenon DEF ExecLineage, NoExec, BranchLineage, ClaimLineage, NoCall, CoordLineage
<1>5. Running = {} /\ RunningDelegated = {} /\ Existing = {} /\ OpenBranches = {}
  BY Zenon DEF Running, RunningDelegated, Existing, OpenBranches, NoExec
<1>6. ActiveCapacityExact /\ AdmissionAccountingExact
  BY ZenonT(60), <1>5, FS_EmptySet DEF ActiveCapacityExact, AdmissionAccountingExact
<1>7. BudgetBounded
  BY SMTT(60), LimitsAssumption DEF BudgetBounded
<1>8. TerminalIsClosed /\ SingleWriter /\ ConsumedOnce
  BY Zenon DEF TerminalIsClosed, TaskOpen, TaskTerminal, SingleWriter, ConsumedOnce
<1> QED BY ZenonT(60), <1>1, <1>2, <1>3, <1>4, <1>6, <1>7, <1>8 DEF IInv, TypeOK, Lineage

\* A rolled back transaction keeps the invariant.
LEMMA StutterStep == IInv /\ UNCHANGED vars => IInv'
<1> SUFFICES ASSUME IInv, UNCHANGED vars PROVE IInv'
  OBVIOUS
<1>1. TaskKeptOpen /\ CoordType' /\ CoordLineage'
  BY Zenon DEF IInv, TypeOK, Lineage, vars, TaskKeptOpen, TaskType, CoordType, CoordLineage
<1> QED BY ZenonT(60), <1>1, TaskOnlyStep DEF IInv, TypeOK, vars, HolderType

\* Every step of a runtime keeps the invariant.
LEMMA RuntimeStep == IInv /\ Runtime => IInv'
<1> SUFFICES ASSUME IInv, Runtime PROVE IInv'
  OBVIOUS
<1>1. CASE \E h \in live, o \in Raised : FinishRaises(h, o)
  BY ZenonT(60), <1>1, FinishRaisesStep
<1>2. ASSUME NEW e \in Executions, NEW r \in {"CONNECTION", "AGENT"}, FinishWaiting(e, r)
      PROVE  IInv'
  <2>1. r \in WaitReason \cup {None} /\ r # None /\ "WAITING" \in CallOutcome
    BY SMTT(60), NoneAssumption DEF WaitReason, CallOutcome
  <2> QED BY ZenonT(60), <1>2, <2>1, FinishStep DEF FinishWaiting
<1>3. ASSUME NEW e \in Executions, NEW s \in ExecTerminal, FinishTerminal(e, s)
      PROVE  IInv'
  <2>1. PICK o \in Outcome(s) : Finish(e, s, None, o)
    BY Zenon, <1>3 DEF FinishTerminal
  <2>2. o \in CallOutcome /\ o # "WAITING" /\ s # "WAITING"
    BY SMTT(60), <2>1 DEF Outcome, CallOutcome, ExecTerminal
  <2> QED BY ZenonT(60), <2>1, <2>2, FinishStep
<1>4. ASSUME NEW e \in Executions,
             \/ \E p \in Executions : Delegate(p, e)
             \/ \E o \in Raised : ReconcileRaises(e, o)
             \/ Reconcile(e) \/ FinishRecovered(e) \/ ResumeDirect(e) \/ ExpireWaiting(e)
      PROVE  IInv'
  BY ZenonT(60), <1>4, DelegateStep, ReconcileActionStep, ReconcileRaisesStep, FinishRecoveredStep, ResumeDirectStep,
     ExpireWaitingStep
<1> QED BY ZenonT(60), <1>1, <1>2, <1>3, <1>4 DEF Runtime

\* Every step of the recovery sweep keeps the invariant.
LEMMA SweepStep == IInv /\ Sweep => IInv'
<1> SUFFICES ASSUME IInv, NEW e \in Executions, RecoverExpired(e) \/ FailExpired(e) PROVE IInv'
  BY DEF Sweep
<1>1. "RECOVERY" \in WaitReason /\ "RECOVERY" # None
  BY SMTT(60), NoneAssumption DEF WaitReason
<1> QED BY ZenonT(60), <1>1, EvacuateStep DEF RecoverExpired, FailExpired

\* Every step keeps the invariant.
LEMMA NextIInv == IInv /\ [Next]_vars => IInv'
<1> SUFFICES ASSUME IInv, [Next]_vars PROVE IInv'
  OBVIOUS
<1>1. CASE Coordinator
  BY ZenonT(60), <1>1, CoordStartStep, AdmitRootStep, AdmitFailStep, CoordSettleStep,
     CoordRaisesStep DEF Coordinator
<1>2. CASE Runtime
  BY SMTT(60), <1>2, RuntimeStep
<1>3. CASE Resume
  BY ZenonT(60), <1>3, PlanResumeStep, ConsumeWaitExpiredStep, ResumeSteps DEF Resume
<1>4. CASE Sweep
  BY SMTT(60), <1>4, SweepStep
<1>5. CASE ControlPlane
  BY ZenonT(60), <1>5, ForkStep, RetryStep, AggregateStep, ActivateStep
     DEF ControlPlane, ActivateFork, ActivateRetry, ActivateAggregate
<1>6. CASE Resolution
  BY ZenonT(60), <1>6, CancelTaskStep, DiscardStep, AdoptStep DEF Resolution
<1>7. CASE Crash
  BY SMTT(60), <1>7, CrashStep
<1>8. CASE UNCHANGED vars
  BY SMTT(60), <1>8, StutterStep
<1> QED BY ZenonT(60), <1>1, <1>2, <1>3, <1>4, <1>5, <1>6, <1>7, <1>8 DEF Next

\* Every unit of work of the Task services keeps the inductive invariant.
THEOREM Inductive == Spec => []IInv
BY InitIInv, NextIInv, PTL DEF Spec

\* Rows keep the shape their tables give them; no counter goes below zero.
THEOREM TypeCorrect == Spec => []TypeOK
<1>1. IInv => TypeOK
  BY SMTT(60) DEF IInv
<1> QED BY <1>1, Inductive, PTL

\* active_executions and active_parallel_agents equal the executions that run,
\* however finishes, resumes, sweeps, activations and cancellations interleave.
THEOREM CapacityExact == Spec => []ActiveCapacityExact
<1>1. IInv => ActiveCapacityExact
  BY SMTT(60) DEF IInv
<1> QED BY <1>1, Inductive, PTL

\* used_executions and active_branches equal the rows they count.
THEOREM AccountingExact == Spec => []AdmissionAccountingExact
<1>1. IInv => AdmissionAccountingExact
  BY SMTT(60) DEF IInv
<1> QED BY <1>1, Inductive, PTL

\* No limit of the TaskBudget is ever exceeded by the rows it limits.
THEOREM LimitsRespected == Spec => []WithinLimits
<1>1. IInv => WithinLimits
  BY ZenonT(60) DEF IInv, WithinLimits, BudgetBounded, ActiveCapacityExact, AdmissionAccountingExact
<1> QED BY <1>1, Inductive, PTL

\* A terminal Task has a CLOSED budget and no claim left to consume.
THEOREM TerminalClosed == Spec => []TerminalIsClosed
<1>1. IInv => TerminalIsClosed
  BY SMTT(60) DEF IInv
<1> QED BY <1>1, Inductive, PTL

\* A runtime whose revision was taken over cannot write any more.
THEOREM StaleHoldersFenced == Spec => []SingleWriter
<1>1. IInv => SingleWriter
  BY SMTT(60) DEF IInv
<1> QED BY <1>1, Inductive, PTL

\* No two claims are consumed for one revision of an execution.
THEOREM ClaimsConsumedOnce == Spec => []ConsumedOnce
<1>1. IInv => ConsumedOnce
  BY SMTT(60) DEF IInv
<1> QED BY <1>1, Inductive, PTL

\* Executions, branches, claims and the coordinator refer to each other soundly.
THEOREM LineageHolds == Spec => []Lineage
<1>1. IInv => Lineage
  BY DEF IInv
<1> QED BY <1>1, Inductive, PTL
=============================================================================
