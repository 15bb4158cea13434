------------------------- MODULE TaskCapacityProofs -------------------------
(*****************************************************************************)
(* For every number of executions and every limit: the counters of a         *)
(* TaskBudget, and all that charges and releases them, implement the         *)
(* capacity contract of TaskCapacity.                                        *)
(*****************************************************************************)
EXTENDS TaskSettlementProofs

\* The contract's phases, read off the execution rows.
phases == [e \in Executions |-> Phase(e)]

\* A phase is a coarser execution state.
LEMMA PhaseFacts ==
    ASSUME NEW e \in Executions
    PROVE  /\ phases[e] = "new" <=> exec[e].state = "ABSENT"
           /\ phases[e] = "running" <=> exec[e].state = "RUNNING"
           /\ phases[e] = "waiting" <=> exec[e].state = "WAITING"
           /\ phases[e] = "done" <=> exec[e].state \notin {"ABSENT", "RUNNING", "WAITING"}
BY SMTT(60) DEF phases, Phase

\* The same after the step; an unchanged state keeps its phase.
LEMMA PhaseNext ==
    ASSUME NEW e \in Executions
    PROVE  /\ phases'[e] = "new" <=> exec'[e].state = "ABSENT"
           /\ phases'[e] = "running" <=> exec'[e].state = "RUNNING"
           /\ phases'[e] = "waiting" <=> exec'[e].state = "WAITING"
           /\ phases'[e] = "done" <=> exec'[e].state \notin {"ABSENT", "RUNNING", "WAITING"}
           /\ exec'[e].state = exec[e].state => phases'[e] = phases[e]
BY SMTT(60) DEF phases, Phase

\* The counters of the budget count the contract's phases.
LEMMA CountersCount ==
    ASSUME IInv
    PROVE  /\ budget.active = Cardinality({e \in Executions : phases[e] = "running"})
           /\ budget.used = Cardinality(Executions \ {e \in Executions : phases[e] = "new"})
<1>1. Running = {e \in Executions : phases[e] = "running"}
  BY ZenonT(60), PhaseFacts DEF Running
<1>2. Existing = Executions \ {e \in Executions : phases[e] = "new"}
  BY ZenonT(60), PhaseFacts DEF Existing
<1> QED BY ZenonT(60), <1>1, <1>2 DEF IInv, ActiveCapacityExact, AdmissionAccountingExact

\* The contract counts as this module does.
LEMMA SameCardinality == ASSUME NEW S PROVE Capacity!Cardinality(S) = Cardinality(S)
BY Zenon DEF Capacity!Cardinality, Cardinality

\* A step that changes one execution's phase is an update of that phase.
LEMMA OnePhase ==
    ASSUME NEW e \in Executions, OthersKept(e), NEW p, phases'[e] = p
    PROVE  phases' = [phases EXCEPT ![e] = p]
<1>1. \A x \in Executions : x # e => phases'[x] = phases[x]
  BY ZenonT(60), PhaseNext DEF OthersKept
<1> QED BY ZenonT(60), <1>1 DEF phases

\* A step that ends the executions of D, and perhaps the Task, settles D.
LEMMA SettleStep ==
    ASSUME NEW D \in SUBSET Executions,
           \A e \in D : phases[e] \in {"running", "waiting"} /\ phases'[e] = "done",
           \A e \in Executions \ D : phases'[e] = phases[e],
           TaskOpen' => TaskOpen
    PROVE  Capacity!Settle(D)
<1>1. phases' = [e \in Executions |-> IF e \in D THEN "done" ELSE phases[e]]
  BY Zenon DEF phases
<1>2. TaskOpen \in BOOLEAN /\ TaskOpen' \in BOOLEAN
  BY SMTT(60) DEF TaskOpen
<1>3. TaskOpen' \in {TaskOpen, FALSE}
  BY ZenonT(60), <1>2
<1> QED BY ZenonT(60), <1>1, <1>3 DEF Capacity!Settle, phases

\* Cancelling dormant admissions settles them.
LEMMA CancelledSettle ==
    ASSUME IInv, NEW B, exec' = CancelledDormant(DormantHeads(B)), TaskOpen' => TaskOpen
    PROVE  Capacity!CapacityNext
<1> DEFINE D == DormantHeads(B)
<1>1. Cancels(D) /\ \A e \in D : e \in Executions /\ Dormant(e)
  BY ZenonT(60), SettlesDormant
<1> HIDE DEF D
<1>2. ASSUME NEW e \in D PROVE phases[e] \in {"running", "waiting"} /\ phases'[e] = "done"
  <2>1. e \in Executions /\ exec[e].state = "RUNNING" /\ exec'[e].state = "CANCELLED"
    BY ZenonT(60), <1>1, <1>2 DEF Cancels, Dormant
  <2> QED BY ZenonT(60), <2>1, PhaseFacts, PhaseNext
<1>3. \A e \in Executions \ D : phases'[e] = phases[e]
  BY ZenonT(60), <1>1, PhaseNext DEF Cancels
<1>4. D \in SUBSET Executions
  BY ZenonT(60), <1>1
<1>5. Capacity!Settle(D)
  BY ZenonT(60), <1>2, <1>3, <1>4, SettleStep
<1> QED BY ZenonT(60), <1>4, <1>5 DEF Capacity!CapacityNext

\* A step that moves no execution settles nobody.
LEMMA QuietSettle ==
    ASSUME \A e \in Executions : exec'[e].state = exec[e].state, TaskOpen' => TaskOpen
    PROVE  Capacity!CapacityNext
<1>1. Capacity!Settle({})
  <2>1. \A e \in Executions \ {} : phases'[e] = phases[e]
    BY ZenonT(60), PhaseNext
  <2> QED BY SMTT(60), <2>1, SettleStep
<1> QED BY ZenonT(60), <1>1 DEF Capacity!CapacityNext

\* The Task is reopened by no step.
LEMMA NeverReopened == IInv /\ StepShape => (TaskOpen' => TaskOpen)
BY ZenonT(60), TaskKeptStep DEF TaskKept, TaskOpen

\* An admission that found a slot is an admission of the contract.
LEMMA AdmitsContract ==
    ASSUME IInv, NEW e \in Executions, NEW b \in Branches, NEW k \in ExecKind, NEW d \in Nat,
           Admission(e, b, k, d)
    PROVE  Capacity!CapacityNext
<1>1. /\ TaskOpen /\ budget.active < MaxActive /\ budget.used < MaxTotal
      /\ exec[e].state = "ABSENT" /\ exec'[e].state = "RUNNING" /\ OthersKept(e)
  BY Zenon DEF Admission, Admits, HasActiveSlot
<1>2. phases[e] = "new" /\ phases'[e] = "running"
  BY ZenonT(60), <1>1, PhaseFacts, PhaseNext
<1>3. phases' = [phases EXCEPT ![e] = "running"]
  BY ZenonT(60), <1>1, <1>2, OnePhase
<1>4. TaskOpen' = TaskOpen
  <2>1. task' = task \/ task' = RunningTask
    BY Zenon DEF Admission
  <2>2. TaskOpen'
    <3>1. CASE task' = task
      BY ZenonT(60), <1>1, <3>1 DEF TaskOpen
    <3>2. CASE task' = RunningTask
      BY ZenonT(60), <3>2, RunningTaskShown DEF IInv, TypeOK, TaskOpen, TaskTerminal
    <3> QED BY SMTT(60), <2>1, <3>1, <3>2
  <2> QED BY SMTT(60), <1>1, <2>2 DEF TaskOpen
<1>5. /\ Cardinality({x \in Executions : phases[x] = "running"}) < MaxActive
      /\ Cardinality(Executions \ {x \in Executions : phases[x] = "new"}) < MaxTotal
  BY ZenonT(60), <1>1, CountersCount
<1>6. Capacity!Admit(e)
  <2>1. /\ Capacity!In("running") = {x \in Executions : phases[x] = "running"}
        /\ Capacity!In("new") = {x \in Executions : phases[x] = "new"}
    BY DEF Capacity!In, phases
  <2>2. /\ Capacity!Cardinality(Capacity!In("running")) < MaxActive
        /\ Capacity!Cardinality(Executions \ Capacity!In("new")) < MaxTotal
    BY ZenonT(60), <1>5, <2>1, SameCardinality
  <2> QED BY ZenonT(60), <1>1, <1>2, <1>3, <1>4, <2>2 DEF Capacity!Admit, phases
<1> QED BY ZenonT(60), <1>6 DEF Capacity!CapacityNext

\* A finish parks or settles, a resume that found a slot restarts.
LEMMA MovesContract ==
    ASSUME IInv, NEW e \in Executions, NEW s \in ExecState, NEW r \in WaitReason \cup {None},
           Movement(e, s, r)
    PROVE  Capacity!CapacityNext
<1>1. exec'[e].state = s /\ OthersKept(e)
  BY Zenon DEF Movement, MovesTo
<1>2. TaskOpen' = TaskOpen
  <2>1. task' = task \/ task' = Reconciled(task, exec', branch)
    BY ZenonT(60) DEF Movement
  <2>2. TaskOpen' <=> TaskOpen
    BY ZenonT(60), <2>1, ReconciledKeeps DEF TaskOpen, IInv, TypeOK
  <2> QED BY SMTT(60), <2>2 DEF TaskOpen
<1>3. CASE exec[e].state = "RUNNING" /\ s = "WAITING"
  <2>1. phases[e] = "running" /\ phases'[e] = "waiting"
    BY ZenonT(60), <1>1, <1>3, PhaseFacts, PhaseNext
  <2>2. phases' = [phases EXCEPT ![e] = "waiting"]
    BY ZenonT(60), <1>1, <2>1, OnePhase
  <2>3. Capacity!Park(e)
    BY ZenonT(60), <1>2, <2>1, <2>2 DEF Capacity!Park, phases
  <2> QED BY ZenonT(60), <2>3 DEF Capacity!CapacityNext
<1>4. CASE exec[e].state \in {"RUNNING", "WAITING"} /\ s \in ExecTerminal
  <2>1. phases[e] \in {"running", "waiting"} /\ phases'[e] = "done"
    BY SMTT(60), <1>1, <1>4, PhaseFacts, PhaseNext DEF ExecTerminal
  <2>2. \A x \in Executions \ {e} : phases'[x] = phases[x]
    BY ZenonT(60), <1>1, PhaseNext DEF OthersKept
  <2>3. Capacity!Settle({e})
    BY SMTT(60), <1>2, <2>1, <2>2, SettleStep
  <2> QED BY SMTT(60), <2>3 DEF Capacity!CapacityNext
<1>5. CASE exec[e].state = "WAITING" /\ s = "RUNNING" /\ TaskOpen /\ HasActiveSlot(exec[e].depth)
  <2>1. phases[e] = "waiting" /\ phases'[e] = "running"
    BY ZenonT(60), <1>1, <1>5, PhaseFacts, PhaseNext
  <2>2. phases' = [phases EXCEPT ![e] = "running"]
    BY ZenonT(60), <1>1, <2>1, OnePhase
  <2>3. Cardinality({x \in Executions : phases[x] = "running"}) < MaxActive
    BY ZenonT(60), <1>5, CountersCount DEF HasActiveSlot
  <2>4. Capacity!Restart(e)
    <3>1. Capacity!In("running") = {x \in Executions : phases[x] = "running"}
      BY SMTT(60) DEF Capacity!In, phases
    <3>2. Capacity!Cardinality(Capacity!In("running")) < MaxActive
      BY ZenonT(60), <2>3, <3>1, SameCardinality
    <3> QED BY ZenonT(60), <1>2, <1>5, <2>1, <2>2, <3>2 DEF Capacity!Restart, phases
  <2> QED BY ZenonT(60), <2>4 DEF Capacity!CapacityNext
<1> QED BY ZenonT(60), <1>3, <1>4, <1>5 DEF Movement, ExecTerminal

\* Every step of the rows, counters, claims and runtimes is a step of the
\* counter-free contract or changes nothing the contract sees.
LEMMA StepContract == IInv /\ StepShape => Capacity!CapacityNext
<1> SUFFICES ASSUME IInv, StepShape PROVE Capacity!CapacityNext
  OBVIOUS
<1>1. TaskOpen' => TaskOpen
  BY ZenonT(60), NeverReopened
<1>2. CASE \E e \in Executions : Activation(e)
  <2>1. \A x \in Executions : exec'[x].state = exec[x].state
    BY ZenonT(60), <1>2 DEF Activation, Dormant, OthersKept
  <2> QED BY ZenonT(60), <1>1, <2>1, QuietSettle
<1>3. CASE TaskMove
  <2>1. \A x \in Executions : exec'[x].state = exec[x].state
    BY ZenonT(60), <1>3 DEF TaskMove
  <2> QED BY ZenonT(60), <1>1, <2>1, QuietSettle
<1>4. CASE CancelTask
  BY ZenonT(60), <1>1, <1>4, CancelledSettle DEF CancelTask
<1>5. CASE \E b \in Branches : Discard(b)
  BY ZenonT(60), <1>1, <1>5, CancelledSettle DEF Discard
<1>6. CASE \E b \in Branches : Adopt(b)
  BY ZenonT(60), <1>1, <1>6, CancelledSettle DEF Adopt
<1> QED BY ZenonT(60), <1>2, <1>3, <1>4, <1>5, <1>6, AdmitsContract, MovesContract DEF StepShape

\* The counters, locks, plans, claims and leases implement the capacity contract
\* of a TaskBudget, for every number of executions and every limit.
THEOREM CapacityRefined == Spec => ImplementsCapacity
<1>1. Init => Capacity!CapacityInit
  <2> SUFFICES ASSUME Init PROVE Capacity!CapacityInit
    OBVIOUS
  <2>1. \A e \in Executions : Phase(e) = "new"
    BY SMTT(60) DEF Init, NoExec, Phase
  <2>2. TaskOpen = TRUE
    BY SMTT(60) DEF Init, TaskOpen, TaskTerminal
  <2> QED BY SMTT(60), <2>1, <2>2 DEF Capacity!CapacityInit
<1>2. IInv /\ [Next]_vars => [Capacity!CapacityNext]_(Capacity!capacityVars)
  BY ZenonT(60), EveryStepShaped, StepContract
<1> QED BY <1>1, <1>2, Inductive, PTL DEF Spec, ImplementsCapacity, Capacity!CapacitySpec

=============================================================================
