------------------------- MODULE TaskExecutionSteps -------------------------
(***************************************************************************)
(* The inductive invariant of TaskExecution.  First what its steps have in *)
(* common: what a step does to the rows pointwise, how the counters follow *)
(* the sets of rows they count, and what each part of the invariant needs  *)
(* of a step.  Then the resolutions, the ends of executions, the sweeps and*)
(* the resumes, which keep the invariant.                                  *)
(***************************************************************************)
EXTENDS TaskExecution, FiniteSetTheorems, TLAPS

\* The budget counters stay within the configured limits.
BudgetBounded ==
    /\ budget.used <= MaxTotal
    /\ budget.active <= MaxActive
    /\ budget.parallel <= MaxParallel
    /\ budget.branches <= MaxBranches

\* The inductive invariant.
IInv ==
    /\ TypeOK
    /\ Lineage
    /\ ActiveCapacityExact
    /\ AdmissionAccountingExact
    /\ BudgetBounded
    /\ TerminalIsClosed
    /\ SingleWriter
    /\ ConsumedOnce

----------------------------------------------------------------------------
(* What a step does to the execution rows, pointwise *)

OthersKept(e) == \A x \in Executions : x # e => exec'[x] = exec[x]

\* Execution e moves to state s with wait reason r, one revision further.
MovesTo(e, s, r) ==
    /\ ExecType'
    /\ OthersKept(e)
    /\ exec'[e].state = s /\ exec'[e].reason = r
    /\ exec'[e].rev = exec[e].rev + 1
    /\ exec'[e].branch = exec[e].branch /\ exec'[e].kind = exec[e].kind
    /\ exec'[e].depth = exec[e].depth

\* Execution e is inserted RUNNING at revision 1.
Admits(e, b, k, d) ==
    /\ ExecType'
    /\ OthersKept(e)
    /\ exec'[e].state = "RUNNING" /\ exec'[e].reason = None /\ exec'[e].rev = 1
    /\ exec'[e].branch = b /\ exec'[e].kind = k /\ exec'[e].depth = d

\* The executions of D are cancelled.
Cancels(D) ==
    /\ ExecType'
    /\ \A x \in Executions \ D : exec'[x] = exec[x]
    /\ \A x \in D : /\ exec'[x].state = "CANCELLED" /\ exec'[x].rev = 2
                    /\ exec'[x].reason = exec[x].reason
                    /\ exec'[x].branch = exec[x].branch
                    /\ exec'[x].kind = exec[x].kind
                    /\ exec'[x].depth = exec[x].depth

\* Every row is kept or moves to a later revision, and no row disappears.
Advances ==
    \A x \in Executions :
        \/ exec'[x] = exec[x]
        \/ exec'[x].rev > exec[x].rev /\ exec'[x].state # "ABSENT"

\* A compare-and-set moves one execution row to its next revision and no other row.
LEMMA MovedFacts ==
    ASSUME ExecType, NEW e \in Executions, NEW s \in ExecState,
           NEW r \in WaitReason \cup {None}, exec' = Moved(e, s, r)
    PROVE  MovesTo(e, s, r)
BY DEF Moved, ExecType, ExecRow, MovesTo, OthersKept

\* The same when the transition also takes or drops the execution's lease.
LEMMA LeasedFacts ==
    ASSUME ExecType, NEW e \in Executions, NEW s \in ExecState,
           NEW r \in WaitReason \cup {None}, NEW l \in BOOLEAN,
           exec' = [Moved(e, s, r) EXCEPT ![e].leased = l]
    PROVE  MovesTo(e, s, r)
BY DEF Moved, ExecType, ExecRow, MovesTo, OthersKept

\* An admission inserts one RUNNING row at revision 1.
LEMMA AdmittedFacts ==
    ASSUME ExecType, NEW e \in Executions, NEW b \in Branches,
           NEW k \in ExecKind, NEW d \in Nat,
           exec' = [exec EXCEPT ![e] = Admitted(b, k, d)]
    PROVE  Admits(e, b, k, d)
BY DEF Admitted, ExecType, ExecRow, ExecState, Admits, OthersKept

\* Pre-activation cancellation touches exactly the dormant rows it was given.
LEMMA CancelledFacts ==
    ASSUME ExecType, NEW D \in SUBSET Executions, exec' = CancelledDormant(D)
    PROVE  Cancels(D)
<1>1. \A x \in Executions \ D : exec'[x] = exec[x]
  BY Zenon DEF CancelledDormant
<1>2. ASSUME NEW x \in D
      PROVE  /\ exec'[x] \in ExecRow
             /\ exec'[x].state = "CANCELLED" /\ exec'[x].rev = 2
             /\ exec'[x].reason = exec[x].reason
             /\ exec'[x].branch = exec[x].branch
             /\ exec'[x].kind = exec[x].kind
             /\ exec'[x].depth = exec[x].depth
  <2> DEFINE row == [exec[x] EXCEPT !.state = "CANCELLED"]
  <2>1. exec[x] \in ExecRow
    BY DEF ExecType
  <2>2. /\ row \in ExecRow
        /\ row.state = "CANCELLED"
        /\ row.reason = exec[x].reason /\ row.branch = exec[x].branch
        /\ row.kind = exec[x].kind /\ row.depth = exec[x].depth
    BY <2>1 DEF ExecRow, ExecState, ExecTerminal
  <2>3. exec'[x] = [row EXCEPT !.rev = 2]
    BY Zenon DEF CancelledDormant
  <2> HIDE DEF row
  <2> QED
    BY <2>2, <2>3 DEF ExecRow
<1>3. exec' = [x \in Executions |-> exec'[x]]
  BY Zenon DEF CancelledDormant
<1>4. \A x \in Executions : exec'[x] \in ExecRow
  BY <1>1, <1>2 DEF ExecType
<1> QED
  BY <1>1, <1>2, <1>3, <1>4 DEF Cancels, ExecType

\* The wait reasons the reconciliation collects are reasons.
WaitersHaveReasons(ex, br) ==
    \A b \in Branches : br[b].state = "OPEN" /\ ex[br[b].head].state = "WAITING"
        => ex[br[b].head].reason \in WaitReason

\* Reconciliation yields a well-formed Task row and neither makes nor touches
\* a terminal one.
LEMMA ReconciledFacts ==
    ASSUME TaskType, NEW ex, NEW br, WaitersHaveReasons(ex, br)
    PROVE  /\ Reconciled(task, ex, br) \in
                [status : TaskStatus, reasons : SUBSET WaitReason, output : Executions \cup {None}]
           /\ task.status \in TaskTerminal <=> Reconciled(task, ex, br).status \in TaskTerminal
           /\ task.status \in TaskTerminal => Reconciled(task, ex, br) = task
<1> DEFINE heads == OpenHeads(br)
           reasons == {ex[h].reason : h \in {x \in heads : ex[x].state = "WAITING"}}
           r == Reconciled(task, ex, br)
<1>1. reasons \subseteq WaitReason
  BY DEF OpenHeads, WaitersHaveReasons
<1>2. \/ r = task
      \/ /\ task.status \notin TaskTerminal
         /\ \/ r = [task EXCEPT !.status = "RUNNING", !.reasons = {}]
            \/ r = [task EXCEPT !.status = "WAITING", !.reasons = reasons]
  BY DEF Reconciled
<1> HIDE DEF reasons, r
<1>3. /\ r \in [status : TaskStatus, reasons : SUBSET WaitReason, output : Executions \cup {None}]
      /\ task.status \in TaskTerminal <=> r.status \in TaskTerminal
      /\ task.status \in TaskTerminal => r = task
  BY Zenon, <1>1, <1>2 DEF TaskType, TaskStatus, TaskTerminal
<1> QED BY <1>3 DEF r

----------------------------------------------------------------------------
(* Counting *)

\* The sets the counters are compared with are finite.
LEMMA FiniteExecSets ==
    /\ IsFiniteSet(Running) /\ IsFiniteSet(RunningDelegated) /\ IsFiniteSet(Existing)
    /\ IsFiniteSet(OpenBranches)
<1>1. /\ Running \in SUBSET Executions /\ RunningDelegated \in SUBSET Executions
      /\ Existing \in SUBSET Executions /\ OpenBranches \in SUBSET Branches
  BY DEF Running, RunningDelegated, Existing, OpenBranches
<1> QED BY <1>1, FS_Subset, SetsAssumption

\* One execution starts to run and one slot is taken.
LEMMA StartOne ==
    ASSUME ActiveCapacityExact, BudgetType, NEW e \in Executions,
           exec[e].state # "RUNNING", exec'[e].state = "RUNNING", OthersKept(e),
           budget'.active = budget.active + 1,
           budget'.parallel = budget.parallel + Weight(exec'[e].depth)
    PROVE  ActiveCapacityExact'
<1>1. Running' = Running \cup {e} /\ e \notin Running
  BY DEF Running, OthersKept
<1>2. Cardinality(Running') = Cardinality(Running) + 1
  BY Zenon, <1>1, FiniteExecSets, FS_AddElement
<1>3. CASE exec'[e].depth > 0
  <2>1. RunningDelegated' = RunningDelegated \cup {e} /\ e \notin RunningDelegated
    BY <1>1, <1>3 DEF RunningDelegated, Delegated, Running, OthersKept
  <2>2. Cardinality(RunningDelegated') = Cardinality(RunningDelegated) + 1
    BY Zenon, <2>1, FiniteExecSets, FS_AddElement
  <2> QED BY SMTT(60), <1>2, <1>3, <2>2 DEF ActiveCapacityExact, Weight
<1>4. CASE ~(exec'[e].depth > 0)
  <2>1. RunningDelegated' = RunningDelegated
    BY <1>1, <1>4 DEF RunningDelegated, Delegated, Running, OthersKept
  <2> QED BY SMTT(60), <1>2, <1>4, <2>1 DEF ActiveCapacityExact, Weight, BudgetType
<1> QED BY SMTT(60), <1>3, <1>4

\* One execution stops running; its slot exists and is given back.
LEMMA StopOne ==
    ASSUME ActiveCapacityExact, BudgetType, NEW e \in Executions,
           exec[e].state = "RUNNING", exec'[e].state # "RUNNING", OthersKept(e),
           budget'.active = budget.active - 1,
           budget'.parallel = budget.parallel - Weight(exec[e].depth)
    PROVE  ActiveCapacityExact' /\ budget'.active \in Nat /\ budget'.parallel \in Nat
<1>1. Running' = Running \ {e} /\ e \in Running
  BY DEF Running, OthersKept
<1>2. /\ Cardinality(Running') = Cardinality(Running) - 1
      /\ Cardinality(Running') \in Nat
  BY SMTT(60), <1>1, FiniteExecSets, FS_RemoveElement, FS_CardinalityType
<1>3. CASE exec[e].depth > 0
  <2>1. RunningDelegated' = RunningDelegated \ {e} /\ e \in RunningDelegated
    BY SMTT(60), <1>1, <1>3 DEF RunningDelegated, Delegated, Running, OthersKept
  <2>2. /\ Cardinality(RunningDelegated') = Cardinality(RunningDelegated) - 1
        /\ Cardinality(RunningDelegated') \in Nat
    BY SMTT(60), <2>1, FiniteExecSets, FS_RemoveElement, FS_CardinalityType
  <2> QED BY SMTT(60), <1>2, <1>3, <2>2 DEF ActiveCapacityExact, Weight
<1>4. CASE ~(exec[e].depth > 0)
  <2>1. RunningDelegated' = RunningDelegated
    BY <1>1, <1>4 DEF RunningDelegated, Delegated, Running, OthersKept
  <2> QED BY SMTT(60), <1>2, <1>4, <2>1 DEF ActiveCapacityExact, Weight, BudgetType
<1> QED BY <1>3, <1>4

\* A set of running executions stops; all their slots are given back.
LEMMA StopSet ==
    ASSUME ActiveCapacityExact, BudgetType, NEW D \in SUBSET Running, Cancels(D),
           budget'.active = budget.active - Cardinality(D),
           budget'.parallel = budget.parallel - Cardinality({e \in D : Delegated(e)})
    PROVE  ActiveCapacityExact' /\ budget'.active \in Nat /\ budget'.parallel \in Nat
<1> DEFINE DD == {e \in D : Delegated(e)}
<1>1. /\ Running' = Running \ D /\ Running \cap D = D
      /\ RunningDelegated' = RunningDelegated \ DD /\ RunningDelegated \cap DD = DD
  BY DEF Running, RunningDelegated, Delegated, Cancels
<1> HIDE DEF DD
<1>2. IsFiniteSet(Running') /\ Cardinality(Running') = Cardinality(Running) - Cardinality(D)
  <2>1. /\ IsFiniteSet(Running \ D)
        /\ Cardinality(Running \ D) = Cardinality(Running) - Cardinality(Running \cap D)
    BY Zenon, FiniteExecSets, FS_Difference
  <2> QED BY <1>1, <2>1
<1>3. /\ IsFiniteSet(RunningDelegated')
      /\ Cardinality(RunningDelegated') = Cardinality(RunningDelegated) - Cardinality(DD)
  <2>1. /\ IsFiniteSet(RunningDelegated \ DD)
        /\ Cardinality(RunningDelegated \ DD)
                = Cardinality(RunningDelegated) - Cardinality(RunningDelegated \cap DD)
    BY Zenon, FiniteExecSets, FS_Difference
  <2> QED BY <1>1, <2>1
<1>4. Cardinality(Running') \in Nat /\ Cardinality(RunningDelegated') \in Nat
  BY SMTT(60), <1>2, <1>3, FS_CardinalityType
<1> QED BY SMTT(60), <1>2, <1>3, <1>4 DEF ActiveCapacityExact, DD

\* Nothing starts or stops.
LEMMA SameRunning ==
    ASSUME ActiveCapacityExact,
           \A x \in Executions : /\ exec'[x].state = "RUNNING" <=> exec[x].state = "RUNNING"
                                 /\ exec'[x].depth = exec[x].depth,
           budget'.active = budget.active, budget'.parallel = budget.parallel
    PROVE  ActiveCapacityExact'
<1>1. Running' = Running /\ RunningDelegated' = RunningDelegated
  BY DEF Running, RunningDelegated, Delegated
<1> QED BY <1>1 DEF ActiveCapacityExact

\* An execution takes one parallel slot if it is delegated and none otherwise.
LEMMA WeightFacts ==
    \A d \in Nat : Weight(d) \in Nat /\ (d > 0 => Weight(d) = 1) /\ (~(d > 0) => Weight(d) = 0)
BY DEF Weight

\* Taking a slot adds one to active and the weight to parallel, nothing else.
LEMMA AcquiredFacts ==
    ASSUME BudgetType, NEW d \in Nat
    PROVE  /\ Acquired(budget, d) \in [state : {"OPEN", "CLOSED"}, used : Nat, active : Nat,
                                       parallel : Nat, branches : Nat]
           /\ Acquired(budget, d).active = budget.active + 1
           /\ Acquired(budget, d).parallel = budget.parallel + Weight(d)
           /\ Acquired(budget, d).used = budget.used
           /\ Acquired(budget, d).branches = budget.branches
           /\ Acquired(budget, d).state = budget.state
<1>1. PICK w \in Nat : w = Weight(d)
  BY WeightFacts
<1> DEFINE row == [state : {"OPEN", "CLOSED"}, used : Nat, active : Nat,
                   parallel : Nat, branches : Nat]
           m == [budget EXCEPT !.active = @ + 1]
<1>2. Acquired(budget, d) = [m EXCEPT !.parallel = @ + w]
  BY <1>1 DEF Acquired
<1>3. /\ m \in row /\ m.active = budget.active + 1 /\ m.parallel = budget.parallel
      /\ m.used = budget.used /\ m.branches = budget.branches /\ m.state = budget.state
  BY DEF BudgetType
<1> HIDE DEF m
<1>4. /\ Acquired(budget, d) \in row
      /\ Acquired(budget, d).active = m.active /\ Acquired(budget, d).parallel = m.parallel + w
      /\ Acquired(budget, d).used = m.used /\ Acquired(budget, d).branches = m.branches
      /\ Acquired(budget, d).state = m.state
  BY SMTT(60), <1>2, <1>3
<1> QED BY SMTT(60), <1>1, <1>3, <1>4

----------------------------------------------------------------------------
(* What each part of the invariant needs of a step *)

\* One execution moving on its branch keeps the rows' references intact.
LEMMA MoveLineage ==
    ASSUME TypeOK, ExecLineage, BranchLineage, NEW e \in Executions, exec[e].state # "ABSENT",
           NEW s \in ExecState \ {"ABSENT"}, NEW r, s = "WAITING" <=> r # None,
           MovesTo(e, s, r), branch' = branch
    PROVE  /\ ExecLineage' /\ BranchLineage' /\ Advances
           /\ Existing' = Existing /\ OpenBranches' = OpenBranches
<1> USE DEF MovesTo, OthersKept
<1>1. \A x \in Executions : /\ exec'[x].branch = exec[x].branch
                            /\ exec'[x].state = "ABSENT" <=> exec[x].state = "ABSENT"
                            /\ exec'[x].state = "ABSENT" => exec'[x] = exec[x]
                            /\ exec'[x].rev >= exec[x].rev
  BY SMTT(60) DEF TypeOK, ExecType, ExecRow
<1>2. ExecLineage'
  BY SMTT(60), <1>1 DEF ExecLineage, TypeOK, ExecType, ExecRow
<1>3. BranchLineage'
  BY SMTT(60), <1>1, SetsAssumption DEF BranchLineage, TypeOK, BranchType
<1>4. Advances
  BY DEF Advances, TypeOK, ExecType, ExecRow
<1>5. Existing' = Existing /\ OpenBranches' = OpenBranches
  BY <1>1 DEF Existing, OpenBranches
<1> QED BY SMTT(60), <1>2, <1>3, <1>4, <1>5

\* The revision of a row never goes back.
LEMMA RevisionsGrow ==
    ASSUME ExecType, ExecType', Advances
    PROVE  \A x \in Executions : exec'[x].rev >= exec[x].rev
BY DEF ExecType, ExecRow, Advances

\* Claims keep what they were planned against.
ClaimTargetsKept ==
    \A c \in Claims : /\ claim'[c].exec = claim[c].exec /\ claim'[c].rev = claim[c].rev
                      /\ claim[c].state = "FREE" => claim'[c].state = "FREE"
                      /\ claim'[c].state = "FREE" => claim[c].state = "FREE"

NoneNewlyConsumed ==
    \A c \in Claims : claim'[c].state = "CONSUMED" => claim[c].state = "CONSUMED"

\* Claims still point at revisions that existed when revisions only grow.
LEMMA ClaimLineageKept ==
    ASSUME TypeOK, ExecType', ClaimLineage, Advances, ClaimTargetsKept
    PROVE  ClaimLineage'
BY DEF ClaimLineage, Advances, ClaimTargetsKept, Existing, TypeOK, ExecType, ExecRow, ClaimType

\* Consumed claims stay distinct when no claim becomes CONSUMED.
LEMMA ConsumedOnceKept ==
    ASSUME TypeOK, ExecType', ClaimLineage, ConsumedOnce, Advances, ClaimTargetsKept,
           NoneNewlyConsumed
    PROVE  ConsumedOnce'
<1>1. \A c \in Claims : claim'[c].state = "CONSUMED" =>
        claim[c].exec \in Executions /\ exec'[claim[c].exec].rev >= exec[claim[c].exec].rev
  BY SMTT(60) DEF ClaimLineage, Advances, NoneNewlyConsumed, Existing, TypeOK, ExecType, ExecRow
<1> QED BY SMTT(60), <1>1 DEF ConsumedOnce, ClaimTargetsKept, NoneNewlyConsumed, TypeOK, ExecType, ExecRow,
                    ClaimType

\* A new holder holds the current revision of an execution that runs.
LEMMA SingleWriterKept ==
    ASSUME TypeOK, ExecType', SingleWriter, Advances,
           \A h \in live' : \/ h \in live
                            \/ /\ h[1] \in Executions /\ h[2] = exec'[h[1]].rev
                               /\ exec'[h[1]].state = "RUNNING" /\ ~Dormant(h[1])'
    PROVE  SingleWriter'
<1> SUFFICES ASSUME NEW h \in live'
             PROVE  /\ h[2] <= exec'[h[1]].rev
                    /\ h[2] = exec'[h[1]].rev => exec'[h[1]].state = "RUNNING" /\ ~Dormant(h[1])'
  BY DEF SingleWriter
<1>1. CASE h \in live
  <2>1. h[1] \in Executions /\ h[2] \in Nat
    BY SMTT(60), <1>1 DEF TypeOK, HolderType
  <2>2. CASE exec'[h[1]] = exec[h[1]]
    BY SMTT(60), <1>1, <2>1, <2>2 DEF SingleWriter, Dormant
  <2>3. CASE exec'[h[1]].rev > exec[h[1]].rev
    BY SMTT(60), <1>1, <2>1, <2>3 DEF SingleWriter, TypeOK, ExecType, ExecRow
  <2> QED BY SMTT(60), <2>1, <2>2, <2>3 DEF Advances
<1>2. CASE h \notin live
  <2>1. h[1] \in Executions /\ h[2] = exec'[h[1]].rev
    BY <1>2
  <2> QED BY SMTT(60), <1>2, <2>1 DEF ExecType, ExecRow
<1> QED BY SMTT(60), <1>1, <1>2

\* The admission counters stay exact when no row is inserted or resolved.
LEMMA AccountingSame ==
    ASSUME AdmissionAccountingExact, Existing' = Existing, OpenBranches' = OpenBranches,
           budget'.used = budget.used, budget'.branches = budget.branches
    PROVE  AdmissionAccountingExact'
BY DEF AdmissionAccountingExact

\* The Task row is a well-formed row that is terminal only if it was.
TaskKeptOpen ==
    /\ TaskType'
    /\ task'.status \in TaskTerminal <=> task.status \in TaskTerminal

\* Deriving the Task's activity never ends or reopens the Task.
LEMMA ReconcileStep ==
    ASSUME TypeOK, ExecType', ExecLineage', BranchLineage, branch' = branch,
           task' = Reconciled(task, exec', branch) \/ task' = task
    PROVE  TaskKeptOpen
<1>1. WaitersHaveReasons(exec', branch)
  BY SetsAssumption DEF WaitersHaveReasons, TypeOK, BranchType, BranchLineage, ExecLineage,
     ExecType, ExecRow
<1>2. Reconciled(task, exec', branch) \in
         [status : TaskStatus, reasons : SUBSET WaitReason, output : Executions \cup {None}]
  BY SMTT(60), <1>1, ReconciledFacts DEF TypeOK
<1>3. task.status \in TaskTerminal <=> Reconciled(task, exec', branch).status \in TaskTerminal
  BY SMTT(60), <1>1, ReconciledFacts DEF TypeOK
<1> QED BY SMTT(60), <1>2, <1>3 DEF TaskKeptOpen, TaskType, TypeOK

\* Budget and Task stay closed together when neither changes phase.
LEMMA ClosedKept ==
    ASSUME TerminalIsClosed, TaskKeptOpen, budget'.state = budget.state,
           \A c \in Claims : claim'[c].state = "CREATED" => claim[c].state = "CREATED" \/ TaskOpen
    PROVE  TerminalIsClosed'
BY DEF TerminalIsClosed, TaskKeptOpen, TaskOpen

\* The parts of the invariant about the rows (not the in-memory call state).
RowsInv ==
    /\ TaskType /\ BudgetType /\ BranchType /\ ExecType /\ ClaimType
    /\ ExecLineage /\ BranchLineage /\ ClaimLineage
    /\ ActiveCapacityExact /\ AdmissionAccountingExact /\ BudgetBounded
    /\ TerminalIsClosed /\ SingleWriter /\ ConsumedOnce

\* The invariant is the part about the rows and the part about the coordinator's call.
LEMMA RowsAndCall ==
    /\ IInv <=> RowsInv /\ CoordType /\ HolderType /\ CoordLineage
    /\ IInv' <=> RowsInv' /\ CoordType' /\ HolderType' /\ CoordLineage'
BY DEF IInv, RowsInv, TypeOK, Lineage

\* A RUNNING execution leaves its slot (finish, evacuation).
LEMMA StopStep ==
    ASSUME IInv, NEW e \in Executions, exec[e].state = "RUNNING",
           NEW s \in {"WAITING"} \cup ExecTerminal, NEW r, s = "WAITING" <=> r # None,
           MovesTo(e, s, r), budget' = Released(budget, exec[e].depth),
           UNCHANGED <<task, branch, claim>>, live' \in SUBSET live
    PROVE  RowsInv'
<1> USE DEF IInv, TypeOK, Lineage
<1>1. s \in ExecState \ {"ABSENT"} /\ s # "RUNNING" /\ exec[e].state # "ABSENT" /\ ExecType'
  BY SMTT(60) DEF ExecState, ExecTerminal, MovesTo
<1>2. /\ ExecLineage' /\ BranchLineage' /\ Advances
      /\ Existing' = Existing /\ OpenBranches' = OpenBranches
  BY SMTT(60), <1>1, MoveLineage
<1>3. /\ budget'.active = budget.active - 1
      /\ budget'.parallel = budget.parallel - Weight(exec[e].depth)
      /\ budget'.used = budget.used /\ budget'.branches = budget.branches
      /\ budget'.state = budget.state
  BY DEF Released, BudgetType
<1>4. ActiveCapacityExact' /\ budget'.active \in Nat /\ budget'.parallel \in Nat
  BY Zenon, <1>1, <1>3, StopOne DEF MovesTo
<1>5. BudgetType'
  BY Zenon, <1>4 DEF Released, BudgetType
<1>6. BudgetBounded'
  BY SMTT(60), <1>3, <1>4, LimitsAssumption DEF BudgetBounded, BudgetType, Weight
<1>7. AdmissionAccountingExact'
  BY Zenon, <1>2, <1>3, AccountingSame
<1>8. TaskKeptOpen /\ TaskType' /\ BranchType' /\ ClaimType'
  BY Zenon DEF TaskKeptOpen, TaskType, BranchType, ClaimType
<1>9. TerminalIsClosed'
  BY Zenon, <1>3, <1>8, ClosedKept
<1>10. ClaimTargetsKept /\ NoneNewlyConsumed
  BY SMTT(60) DEF ClaimTargetsKept, NoneNewlyConsumed
<1>11. ClaimLineage' /\ ConsumedOnce'
  BY SMTT(60), <1>1, <1>2, <1>10, ClaimLineageKept, ConsumedOnceKept
<1>12. SingleWriter'
  BY SMTT(60), <1>1, <1>2, SingleWriterKept
<1> QED BY ZenonT(60), <1>1, <1>2, <1>4, <1>5, <1>6, <1>7, <1>8, <1>9, <1>11, <1>12 DEF RowsInv

\* A WAITING execution takes a slot again (any resume); the claim that led to
\* it, if any, is consumed in the same step.
LEMMA ResumeStep ==
    ASSUME IInv, NEW e \in Executions, ResumeEligible(e),
           MovesTo(e, "RUNNING", None), budget' = Acquired(budget, exec[e].depth),
           branch' = branch, task' = Reconciled(task, exec', branch) \/ task' = task,
           live' = live \cup {<<e, exec[e].rev + 1>>}, ClaimType', ClaimTargetsKept,
           \A c \in Claims : claim'[c].state = "CREATED" => claim[c].state = "CREATED",
           ConsumedOnce'
    PROVE  RowsInv' /\ live' \in SUBSET (Executions \X Nat)
<1> USE DEF IInv, TypeOK, Lineage
<1>1. /\ exec[e].state = "WAITING" /\ ExecType' /\ exec[e].rev \in Nat /\ exec[e].rev >= 1
      /\ "RUNNING" \in ExecState \ {"ABSENT"}
  BY Zenon DEF ResumeEligible, MovesTo, ExecLineage, ExecType, ExecRow, ExecState
<1>2. /\ ExecLineage' /\ BranchLineage' /\ Advances
      /\ Existing' = Existing /\ OpenBranches' = OpenBranches
  BY Zenon, <1>1, MoveLineage
<1>3. /\ budget'.active = budget.active + 1
      /\ budget'.parallel = budget.parallel + Weight(exec[e].depth)
      /\ budget'.used = budget.used /\ budget'.branches = budget.branches
      /\ budget'.state = budget.state
  BY DEF Acquired, BudgetType
<1>4. ActiveCapacityExact'
  BY ZenonT(60), <1>1, <1>3, StartOne DEF MovesTo
<1>5. exec[e].depth \in Nat
  BY Zenon DEF ExecType, ExecRow
<1>6. BudgetType'
  BY ZenonT(60), <1>5, AcquiredFacts DEF BudgetType
<1>7. BudgetBounded'
  BY SMTT(60), <1>3, <1>5, LimitsAssumption DEF BudgetBounded, BudgetType, Weight, ResumeEligible, HasActiveSlot
<1>8. AdmissionAccountingExact'
  BY Zenon, <1>2, <1>3, AccountingSame
<1>9. TaskKeptOpen /\ TaskType' /\ BranchType'
  BY Zenon, <1>1, <1>2, ReconcileStep DEF TaskKeptOpen, BranchType
<1>10. TerminalIsClosed'
  BY Zenon, <1>3, <1>9, ClosedKept
<1>11. ClaimLineage'
  BY ZenonT(60), <1>1, <1>2, ClaimLineageKept
<1>12. SingleWriter'
  <2>1. \A h \in live' : \/ h \in live
                         \/ h = <<e, exec[e].rev + 1>>
    BY ZenonT(60)
  <2>2. ~Dormant(e)' /\ exec'[e].rev = exec[e].rev + 1 /\ exec'[e].state = "RUNNING"
    BY SMTT(60), <1>1 DEF Dormant, MovesTo
  <2> QED BY SMTT(60), <1>1, <1>2, <2>1, <2>2, SingleWriterKept
<1>13. live' \in SUBSET (Executions \X Nat)
  BY <1>1 DEF HolderType
<1> QED BY ZenonT(60), <1>1, <1>2, <1>4, <1>6, <1>7, <1>8, <1>9, <1>10, <1>11, <1>12, <1>13 DEF RowsInv

\* A WAITING execution times out without ever holding a slot.
LEMMA WaitExpiredStep ==
    ASSUME IInv, NEW e \in Executions, exec[e].state = "WAITING",
           MovesTo(e, "TIMEOUT", None), budget' = budget, branch' = branch,
           task' = Reconciled(task, exec', branch), live' = live, ClaimType',
           ClaimTargetsKept, NoneNewlyConsumed,
           \A c \in Claims : claim'[c].state = "CREATED" => claim[c].state = "CREATED"
    PROVE  RowsInv'
<1> USE DEF IInv, TypeOK, Lineage
<1>1. ExecType' /\ "TIMEOUT" \in ExecState \ {"ABSENT"}
  BY Zenon DEF MovesTo, ExecState, ExecTerminal
<1>2. /\ ExecLineage' /\ BranchLineage' /\ Advances
      /\ Existing' = Existing /\ OpenBranches' = OpenBranches
  BY Zenon, <1>1, MoveLineage
<1>3. ActiveCapacityExact'
  BY Zenon, SameRunning DEF MovesTo, OthersKept
<1>4. AdmissionAccountingExact' /\ BudgetType' /\ BudgetBounded'
  BY Zenon, <1>2, AccountingSame DEF BudgetType, BudgetBounded
<1>5. TaskKeptOpen /\ TaskType' /\ BranchType'
  BY Zenon, <1>1, <1>2, ReconcileStep DEF TaskKeptOpen, BranchType
<1>6. TerminalIsClosed'
  BY Zenon, <1>5, ClosedKept
<1>7. ClaimLineage' /\ ConsumedOnce'
  BY Zenon, <1>1, <1>2, ClaimLineageKept, ConsumedOnceKept
<1>8. SingleWriter'
  BY ZenonT(60), <1>1, <1>2, SingleWriterKept
<1> QED BY ZenonT(60), <1>1, <1>2, <1>3, <1>4, <1>5, <1>6, <1>7, <1>8 DEF RowsInv

----------------------------------------------------------------------------
(* Admissions *)

\* The budget is charged for an execution at depth d and n new branches.
Charges(d, n) ==
    /\ BudgetType'
    /\ budget'.used = budget.used + 1 /\ budget'.active = budget.active + 1
    /\ budget'.parallel = budget.parallel + Weight(d)
    /\ budget'.branches = budget.branches + n /\ budget'.state = budget.state

\* An admission charges one total and one active execution.
LEMMA ChargedFacts ==
    ASSUME BudgetType, NEW d \in Nat
    PROVE  /\ budget' = Charged(budget, d) => Charges(d, 0)
           /\ budget' = [Charged(budget, d) EXCEPT !.branches = @ + 1] => Charges(d, 1)
<1> DEFINE row == [state : {"OPEN", "CLOSED"}, used : Nat, active : Nat,
                   parallel : Nat, branches : Nat]
           a == Acquired(budget, d)
           c == Charged(budget, d)
           f == [c EXCEPT !.branches = @ + 1]
<1>1. Weight(d) \in Nat
  BY SMTT(60), WeightFacts
<1>2. /\ a \in row /\ a.active = budget.active + 1 /\ a.used = budget.used
      /\ a.parallel = budget.parallel + Weight(d)
      /\ a.branches = budget.branches /\ a.state = budget.state
  BY AcquiredFacts
<1>3. c = [a EXCEPT !.used = @ + 1]
  BY DEF Charged
<1> HIDE DEF a, c
<1>4. /\ c \in row /\ c.active = a.active /\ c.used = a.used + 1 /\ c.parallel = a.parallel
      /\ c.branches = a.branches /\ c.state = a.state
  BY SMTT(60), <1>2, <1>3
<1>5. /\ f \in row /\ f.active = c.active /\ f.used = c.used /\ f.parallel = c.parallel
      /\ f.branches = c.branches + 1 /\ f.state = c.state
  BY SMTT(60), <1>4
<1> HIDE DEF f
<1>6. budget' = c => Charges(d, 0)
  BY SMTT(60), <1>2, <1>4 DEF Charges, BudgetType
<1>7. budget' = f => Charges(d, 1)
  BY SMTT(60), <1>2, <1>4, <1>5 DEF Charges, BudgetType
<1> QED BY SMTT(60), <1>6, <1>7 DEF c, f

\* An admission charges the budget within its limits.
LEMMA ChargedBounded ==
    ASSUME BudgetType, NEW d \in Nat, HasActiveSlot(d), budget.used < MaxTotal, BudgetBounded,
           NEW n \in {0, 1}, n = 1 => budget.branches < MaxBranches, Charges(d, n)
    PROVE  BudgetBounded'
BY SMTT(60), LimitsAssumption, WeightFacts DEF Charges, BudgetBounded, BudgetType, HasActiveSlot

\* After an admission the head of every branch is a row on that branch.
LEMMA HeadsOnTheirBranch ==
    ASSUME ExecType, BranchType, BranchLineage, NEW e \in Executions, exec[e] = NoExec,
           NEW b \in Branches, OthersKept(e), exec'[e].branch = b, exec'[e].state = "RUNNING",
           \A x \in Branches \ {b} : branch'[x] = branch[x], branch'[b].state = "OPEN",
           \/ branch'[b].head = e
           \/ branch[b].state # "ABSENT" /\ branch'[b] = branch[b]
    PROVE  BranchLineage'
<1>1. exec[e].state = "ABSENT" /\ None \notin Executions
  BY SetsAssumption DEF NoExec
<1>2. ASSUME NEW x \in Branches, branch[x].state # "ABSENT"
      PROVE  branch[x].head \in Executions \ {e}
  <2>1. branch[x].head # None /\ exec[branch[x].head].state # "ABSENT"
    BY Zenon, <1>2 DEF BranchLineage
  <2>2. branch[x].head \in Executions \cup {None}
    BY SMTT(60), <1>2 DEF BranchType
  <2> QED BY Zenon, <1>1, <2>1, <2>2
<1>3. ASSUME NEW x \in Branches, branch'[x] = branch[x]
      PROVE  /\ branch'[x].state = "ABSENT" <=> branch'[x].head = None
             /\ branch'[x].state # "ABSENT" => /\ exec'[branch'[x].head].branch = x
                                               /\ exec'[branch'[x].head].state # "ABSENT"
  <2>1. branch[x].state # "ABSENT" => exec'[branch[x].head] = exec[branch[x].head]
    BY Zenon, <1>2 DEF OthersKept
  <2> QED BY SMTT(60), <1>3, <2>1 DEF BranchLineage
<1>4. branch'[b].head = e =>
        /\ branch'[b].state # "ABSENT" /\ branch'[b].head # None
        /\ exec'[branch'[b].head].branch = b /\ exec'[branch'[b].head].state # "ABSENT"
  BY SMTT(60), <1>1
<1> SUFFICES ASSUME NEW x \in Branches
             PROVE  /\ branch'[x].state = "ABSENT" <=> branch'[x].head = None
                    /\ branch'[x].state # "ABSENT" => /\ exec'[branch'[x].head].branch = x
                                                      /\ exec'[branch'[x].head].state # "ABSENT"
  BY DEF BranchLineage
<1>5. CASE branch'[x] = branch[x]
  BY Zenon, <1>3, <1>5
<1>6. CASE x = b /\ branch'[b].head = e
  BY Zenon, <1>4, <1>6
<1> QED BY ZenonT(60), <1>5, <1>6

\* Every admission: a row is inserted on branch b, b becomes or stays OPEN with
\* a head on b, the other branches are kept.
LEMMA AdmitStep ==
    ASSUME IInv, NEW e \in Executions, exec[e].state = "ABSENT",
           NEW b \in Branches, NEW k \in ExecKind, NEW d \in Nat, NEW n \in {0, 1},
           Admits(e, b, k, d), Charges(d, n),
           HasActiveSlot(d), budget.used < MaxTotal, n = 1 => budget.branches < MaxBranches,
           n = 1 <=> branch[b].state = "ABSENT", n = 0 => b \in OpenBranches,
           BranchType', \A x \in Branches \ {b} : branch'[x] = branch[x],
           branch'[b].state = "OPEN",
           branch'[b].head = e \/ (n = 0 /\ branch'[b] = branch[b]),
           TaskKeptOpen, claim' = claim,
           \/ live' = live
           \/ live' = live \cup {<<e, 1>>} /\ k \notin PlannedKind
    PROVE  RowsInv' /\ live' \in SUBSET (Executions \X Nat)
<1> USE DEF IInv, TypeOK, Lineage
<1>1. ExecType'
  BY Zenon DEF Admits
<1>2. exec[e] = NoExec /\ exec[e].rev = 0 /\ e \notin Existing
  <2>1. exec[e] = NoExec
    BY ZenonT(60) DEF ExecLineage
  <2> QED BY SMTT(60), <2>1 DEF NoExec, Existing
<1>3. Advances
  BY SMTT(60), <1>1, <1>2 DEF Advances, Admits, OthersKept
<1>4. ExecLineage'
  <2> SUFFICES ASSUME NEW x \in Executions
               PROVE  /\ exec'[x].state = "ABSENT" => exec'[x] = NoExec
                      /\ exec'[x].state # "ABSENT" => /\ exec'[x].branch \in Branches
                                                      /\ branch'[exec'[x].branch].state # "ABSENT"
                                                      /\ exec'[x].rev >= 1
                      /\ exec'[x].state = "WAITING" <=> exec'[x].reason # None
    BY ZenonT(60) DEF ExecLineage, NoExec
  <2>1. CASE x = e
    BY SMTT(60), <1>1, <2>1 DEF Admits
  <2>2. CASE x # e
    BY SMTT(60), <1>1, <2>2 DEF ExecLineage, Admits, OthersKept
  <2> QED BY Zenon, <2>1, <2>2
<1>5. BranchLineage'
  <2>1. BranchType /\ BranchLineage /\ ExecType
    BY Zenon
  <2>2. n = 0 => branch[b].state # "ABSENT"
    BY Zenon DEF OpenBranches
  <2> QED BY ZenonT(60), <1>1, <1>2, <2>1, <2>2, HeadsOnTheirBranch DEF Admits
<1>6. /\ BudgetType' /\ BudgetBounded'
      /\ budget'.used = budget.used + 1 /\ budget'.active = budget.active + 1
      /\ budget'.parallel = budget.parallel + Weight(d)
      /\ budget'.branches = budget.branches + n /\ budget'.state = budget.state
  BY Zenon, ChargedBounded DEF Charges
<1>7. ActiveCapacityExact'
  BY ZenonT(60), <1>1, <1>6, StartOne DEF Admits
<1>8. AdmissionAccountingExact'
  <2>1. Existing' = Existing \cup {e}
    BY Zenon, <1>1 DEF Existing, Admits, OthersKept
  <2>2. budget'.used = Cardinality(Existing')
    <3>1. Cardinality(Existing \cup {e}) = Cardinality(Existing) + 1
      BY Zenon, <1>2, FiniteExecSets, FS_AddElement
    <3> QED BY Zenon, <1>6, <2>1, <3>1 DEF AdmissionAccountingExact
  <2>3. CASE n = 1
    <3>1. OpenBranches' = OpenBranches \cup {b} /\ b \notin OpenBranches
      BY SMTT(60), <2>3 DEF OpenBranches
    <3>2. Cardinality(OpenBranches \cup {b}) = Cardinality(OpenBranches) + 1
      BY ZenonT(60), <3>1, FiniteExecSets, FS_AddElement
    <3> QED BY ZenonT(60), <1>6, <2>2, <2>3, <3>1, <3>2 DEF AdmissionAccountingExact
  <2>4. CASE n = 0
    <3>1. OpenBranches' = OpenBranches
      BY Zenon, <2>4 DEF OpenBranches
    <3> QED BY SMTT(60), <1>6, <2>2, <2>4, <3>1 DEF AdmissionAccountingExact, BudgetType
  <2> QED BY Zenon, <2>3, <2>4
<1>9. TaskType' /\ ClaimType' /\ TerminalIsClosed'
  BY Zenon, <1>6, ClosedKept DEF TaskKeptOpen, ClaimType
<1>10. ClaimTargetsKept /\ NoneNewlyConsumed
  BY Zenon DEF ClaimTargetsKept, NoneNewlyConsumed
<1>11. ClaimLineage' /\ ConsumedOnce'
  BY ZenonT(60), <1>1, <1>3, <1>10, ClaimLineageKept, ConsumedOnceKept
<1>12. SingleWriter'
  <2>1. \A h \in live' : h \in live \/ (h = <<e, 1>> /\ k \notin PlannedKind)
    BY Zenon
  <2>2. k \notin PlannedKind => ~Dormant(e)'
    BY ZenonT(60), <1>1 DEF Admits, Dormant
  <2> QED BY SMTT(60), <1>1, <1>3, <2>1, <2>2, SingleWriterKept DEF Admits
<1>13. live' \in SUBSET (Executions \X Nat)
  BY DEF HolderType
<1> QED BY ZenonT(60), <1>1, <1>4, <1>5, <1>6, <1>7, <1>8, <1>9, <1>11, <1>12, <1>13 DEF RowsInv

----------------------------------------------------------------------------
(* Resolutions *)

\* The slots of the dormant executions D are given back, st and n are the
\* budget's new state and branch counter.
Releases(D, st, n) ==
    /\ BudgetType'
    /\ budget'.active = budget.active - Cardinality(D)
    /\ budget'.parallel = budget.parallel - Cardinality({e \in D : Delegated(e)})
    /\ budget'.used = budget.used /\ budget'.branches = n /\ budget'.state = st

\* Cancelling dormant admissions gives back exactly their slots.
LEMMA ReleasedAllFacts ==
    ASSUME ActiveCapacityExact, BudgetType, NEW D \in SUBSET Running
    PROVE  /\ budget' = [ReleasedAll(budget, D) EXCEPT !.state = "CLOSED"]
                => Releases(D, "CLOSED", budget.branches)
           /\ budget' = [ReleasedAll(budget, D) EXCEPT !.state = "CLOSED", !.branches = 0]
                => Releases(D, "CLOSED", 0)
           /\ budget' = [ReleasedAll(budget, D) EXCEPT !.branches = @ - 1] /\ budget.branches > 0
                => Releases(D, budget.state, budget.branches - 1)
<1> DEFINE row == [state : {"OPEN", "CLOSED"}, used : Nat, active : Nat,
                   parallel : Nat, branches : Nat]
           DD == {e \in D : Delegated(e)}
           R == ReleasedAll(budget, D)
<1>1. IsFiniteSet(D) /\ IsFiniteSet(DD) /\ DD \in SUBSET RunningDelegated
  BY SMTT(60), FiniteExecSets, FS_Subset DEF RunningDelegated
<1>2. Cardinality(D) \in Nat /\ Cardinality(D) <= Cardinality(Running)
  BY ZenonT(60), <1>1, FiniteExecSets, FS_Subset, FS_CardinalityType
<1>3. Cardinality(DD) \in Nat /\ Cardinality(DD) <= Cardinality(RunningDelegated)
  BY ZenonT(60), <1>1, FiniteExecSets, FS_Subset, FS_CardinalityType
<1> HIDE DEF DD
<1>4. PICK a \in Nat : a = budget.active - Cardinality(D)
  BY SMTT(60), <1>2 DEF ActiveCapacityExact, BudgetType
<1>5. PICK p \in Nat : p = budget.parallel - Cardinality(DD)
  BY SMTT(60), <1>3 DEF ActiveCapacityExact, BudgetType
<1> DEFINE m == [budget EXCEPT !.active = a]
<1>6. /\ m \in row /\ m.active = a /\ m.parallel = budget.parallel /\ m.used = budget.used
      /\ m.branches = budget.branches /\ m.state = budget.state
  BY DEF BudgetType
<1>7. R = [m EXCEPT !.parallel = p]
  BY SMTT(60), <1>4, <1>5 DEF ReleasedAll, BudgetType, DD
<1> HIDE DEF m, R
<1>8. /\ R \in row /\ R.active = a /\ R.parallel = p /\ R.used = budget.used
      /\ R.branches = budget.branches /\ R.state = budget.state
  BY SMTT(60), <1>6, <1>7
<1>9. ASSUME budget' = [R EXCEPT !.state = "CLOSED"]
      PROVE  Releases(D, "CLOSED", budget.branches)
  BY SMTT(60), <1>4, <1>5, <1>8, <1>9 DEF Releases, BudgetType, DD
<1>10. ASSUME budget' = [R EXCEPT !.state = "CLOSED", !.branches = 0]
       PROVE  Releases(D, "CLOSED", 0)
  <2> DEFINE c == [R EXCEPT !.state = "CLOSED"]
  <2>1. c \in row /\ c.active = a /\ c.parallel = p /\ c.used = budget.used /\ c.state = "CLOSED"
    BY <1>8
  <2>2. budget' = [c EXCEPT !.branches = 0]
    BY <1>10
  <2> HIDE DEF c
  <2> QED BY SMTT(60), <1>4, <1>5, <2>1, <2>2 DEF Releases, BudgetType, DD
<1>11. ASSUME budget' = [R EXCEPT !.branches = @ - 1], budget.branches > 0
       PROVE  Releases(D, budget.state, budget.branches - 1)
  BY SMTT(60), <1>4, <1>5, <1>8, <1>11 DEF Releases, BudgetType, DD
<1> QED BY SMTT(60), <1>9, <1>10, <1>11 DEF R

\* Branches keep their heads and do not disappear.
HeadsKept ==
    \A b \in Branches : /\ branch'[b].head = branch[b].head
                        /\ branch'[b].state = "ABSENT" <=> branch[b].state = "ABSENT"

\* Cancelling dormant executions, whatever happens to their branches.
LEMMA CancelRows ==
    ASSUME IInv, NEW D \in SUBSET Executions, \A e \in D : Dormant(e), Cancels(D),
           NEW st, NEW n, Releases(D, st, n),
           HeadsKept, live' = live, ClaimTargetsKept, NoneNewlyConsumed
    PROVE  /\ ExecType' /\ BudgetType' /\ ExecLineage' /\ BranchLineage' /\ ClaimLineage'
           /\ ConsumedOnce' /\ SingleWriter' /\ ActiveCapacityExact' /\ Existing' = Existing
           /\ budget'.active <= MaxActive /\ budget'.parallel <= MaxParallel
           /\ budget'.used <= MaxTotal
<1> USE DEF IInv, TypeOK, Lineage
<1>1. /\ ExecType' /\ BudgetType' /\ D \in SUBSET Running
      /\ \A e \in D : exec[e].state = "RUNNING" /\ exec[e].rev = 1 /\ exec[e].reason = None
  BY ZenonT(60) DEF Cancels, Releases, Dormant, Running, ExecLineage
<1>2. \A x \in Executions : /\ exec'[x].branch = exec[x].branch
                            /\ exec'[x].state = "ABSENT" <=> exec[x].state = "ABSENT"
                            /\ exec'[x].state = "ABSENT" => exec'[x] = exec[x]
                            /\ exec'[x].state = "WAITING" <=> exec[x].state = "WAITING"
                            /\ exec'[x].reason = exec[x].reason
                            /\ exec'[x].rev >= exec[x].rev
  BY SMTT(60), <1>1 DEF Cancels, ExecType, ExecRow
<1>3. ExecLineage'
  BY SMTT(60), <1>1, <1>2 DEF ExecLineage, HeadsKept, ExecType, ExecRow
<1>4. BranchLineage'
  BY SMTT(60), <1>2, SetsAssumption DEF BranchLineage, HeadsKept, BranchType
<1>5. Advances
  BY <1>1 DEF Advances, Cancels
<1>6. Existing' = Existing
  BY Zenon, <1>2 DEF Existing
<1>7. ClaimLineage' /\ ConsumedOnce'
  BY ZenonT(60), <1>1, <1>5, ClaimLineageKept, ConsumedOnceKept
<1>8. SingleWriter'
  BY ZenonT(60), <1>1, <1>5, SingleWriterKept
<1>9. ActiveCapacityExact'
  BY ZenonT(60), <1>1, StopSet DEF Releases
<1>10. /\ budget'.active <= MaxActive /\ budget'.parallel <= MaxParallel
       /\ budget'.used <= MaxTotal
  <2>1. IsFiniteSet(D) /\ IsFiniteSet({e \in D : Delegated(e)})
    BY ZenonT(60), <1>1, FiniteExecSets, FS_Subset
  <2>2. Cardinality(D) \in Nat /\ Cardinality({e \in D : Delegated(e)}) \in Nat
    BY SMTT(60), <2>1, FS_CardinalityType
  <2> QED BY SMTT(60), <2>2, LimitsAssumption DEF Releases, BudgetBounded, BudgetType
<1> QED BY ZenonT(60), <1>1, <1>3, <1>4, <1>6, <1>7, <1>8, <1>9, <1>10

\* All CREATED claims of the Task are rejected.
LEMMA RejectedFacts ==
    ASSUME ClaimType, claim' = RejectedCreated
    PROVE  /\ ClaimType' /\ ClaimTargetsKept /\ NoneNewlyConsumed
           /\ \A c \in Claims : claim'[c].state # "CREATED"
BY DEF RejectedCreated, ClaimType, ClaimState, ClaimTargetsKept, NoneNewlyConsumed

----------------------------------------------------------------------------
(* Resolutions, ends, sweeps and resumes keep the invariant *)

\* cancel_task keeps the invariant.
LEMMA CancelTaskStep == IInv /\ CancelTask => IInv'
<1> SUFFICES ASSUME IInv, CancelTask PROVE IInv'
  OBVIOUS
<1> USE DEF IInv, TypeOK, Lineage
<1> DEFINE D == DormantHeads(Branches)
<1>1. D \in SUBSET Executions /\ D \in SUBSET Running /\ \A e \in D : Dormant(e)
  BY Zenon DEF DormantHeads, Running, Dormant
<1>2. Cancels(D)
  BY SMTT(60), <1>1, CancelledFacts DEF CancelTask
<1>3. Releases(D, "CLOSED", budget.branches)
  BY Zenon, <1>1, ReleasedAllFacts DEF CancelTask
<1> HIDE DEF D
<1>4. ClaimType' /\ ClaimTargetsKept /\ NoneNewlyConsumed
  <2>1. CASE claim' = RejectedCreated
    BY ZenonT(60), <2>1, RejectedFacts
  <2>2. CASE claim' = claim
    BY Zenon, <2>2 DEF ClaimType, ClaimTargetsKept, NoneNewlyConsumed
  <2> QED BY SMTT(60), <2>1, <2>2 DEF CancelTask
<1>5. HeadsKept /\ live' = live /\ BranchType' /\ OpenBranches' = OpenBranches
  BY DEF CancelTask, HeadsKept, BranchType, OpenBranches
<1>6. /\ ExecType' /\ BudgetType' /\ ExecLineage' /\ BranchLineage' /\ ClaimLineage'
      /\ ConsumedOnce' /\ SingleWriter' /\ ActiveCapacityExact' /\ Existing' = Existing
      /\ budget'.active <= MaxActive /\ budget'.parallel <= MaxParallel
      /\ budget'.used <= MaxTotal
  BY ZenonT(60), <1>1, <1>2, <1>3, <1>4, <1>5, CancelRows
<1>7. BudgetBounded' /\ AdmissionAccountingExact'
  BY ZenonT(60), <1>3, <1>5, <1>6 DEF BudgetBounded, AdmissionAccountingExact, Releases
<1>8. TaskType' /\ task'.status \in TaskTerminal
  BY DEF CancelTask, TaskType, TaskStatus, TaskTerminal
<1>9. TerminalIsClosed'
  <2>1. \A c \in Claims : claim'[c].state # "CREATED"
    BY SMTT(60), RejectedFacts DEF CancelTask, TerminalIsClosed
  <2> QED BY ZenonT(60), <1>3, <1>8, <2>1 DEF TerminalIsClosed, TaskOpen, Releases
<1>10. CoordType' /\ HolderType' /\ CoordLineage'
  BY DEF CancelTask, CoordType, HolderType, CoordLineage
<1> QED BY ZenonT(60), <1>4, <1>5, <1>6, <1>7, <1>8, <1>9, <1>10

\* discard_branch keeps the invariant.
LEMMA DiscardStep == ASSUME NEW b \in Branches PROVE IInv /\ Discard(b) => IInv'
<1> SUFFICES ASSUME IInv, Discard(b) PROVE IInv'
  OBVIOUS
<1> USE DEF IInv, TypeOK, Lineage
<1> DEFINE D == DormantHeads({b})
<1>1. D \in SUBSET Executions /\ D \in SUBSET Running /\ \A e \in D : Dormant(e)
  BY Zenon DEF DormantHeads, Running, Dormant
<1>2. Cancels(D)
  BY ZenonT(60), <1>1, CancelledFacts DEF Discard
<1>3. b \in OpenBranches /\ OpenBranches' = OpenBranches \ {b} /\ BranchType' /\ HeadsKept
  BY DEF Discard, DiscardEligible, OpenBranches, BranchType, BranchState, HeadsKept
<1>4. /\ Cardinality(OpenBranches') = Cardinality(OpenBranches) - 1
      /\ Cardinality(OpenBranches) \in Nat /\ Cardinality(OpenBranches) > 0
  <2>1. IsFiniteSet(OpenBranches) /\ Cardinality(OpenBranches \ {b}) = Cardinality(OpenBranches) - 1
    BY ZenonT(60), <1>3, FiniteExecSets, FS_RemoveElement
  <2> QED BY SMTT(60), <1>3, <2>1, FS_CardinalityType DEF Discard, DiscardEligible
<1>5. Releases(D, budget.state, budget.branches - 1)
  BY ZenonT(60), <1>1, <1>4, ReleasedAllFacts DEF Discard, AdmissionAccountingExact
<1> HIDE DEF D
<1>6. ClaimType' /\ ClaimTargetsKept /\ NoneNewlyConsumed /\ live' = live
  BY DEF Discard, ClaimType, ClaimTargetsKept, NoneNewlyConsumed
<1>7. /\ ExecType' /\ BudgetType' /\ ExecLineage' /\ BranchLineage' /\ ClaimLineage'
      /\ ConsumedOnce' /\ SingleWriter' /\ ActiveCapacityExact' /\ Existing' = Existing
      /\ budget'.active <= MaxActive /\ budget'.parallel <= MaxParallel
      /\ budget'.used <= MaxTotal
  BY ZenonT(60), <1>1, <1>2, <1>3, <1>5, <1>6, CancelRows
<1>8. AdmissionAccountingExact'
  BY ZenonT(60), <1>4, <1>5, <1>7 DEF AdmissionAccountingExact, Releases
<1>9. BudgetBounded'
  BY SMTT(60), <1>5, <1>7, LimitsAssumption DEF BudgetBounded, Releases, BudgetType
<1>10. TaskType' /\ TerminalIsClosed'
  BY SMTT(60), <1>5 DEF Discard, TaskType, TerminalIsClosed, TaskOpen, Releases
<1>11. CoordType' /\ HolderType' /\ CoordLineage'
  BY DEF Discard, CoordType, HolderType, CoordLineage
<1> QED BY ZenonT(60), <1>3, <1>6, <1>7, <1>8, <1>9, <1>10, <1>11

\* adopt_branch keeps the invariant.
LEMMA AdoptStep == ASSUME NEW b \in Branches PROVE IInv /\ Adopt(b) => IInv'
<1> SUFFICES ASSUME IInv, Adopt(b) PROVE IInv'
  OBVIOUS
<1> USE DEF IInv, TypeOK, Lineage
<1> DEFINE D == DormantHeads(OpenBranches \ {b})
<1>1. D \in SUBSET Executions /\ D \in SUBSET Running /\ \A e \in D : Dormant(e)
  BY Zenon DEF DormantHeads, Running, Dormant
<1>2. Cancels(D)
  BY ZenonT(60), <1>1, CancelledFacts DEF Adopt
<1>3. OpenBranches' = {} /\ BranchType' /\ HeadsKept
  BY DEF Adopt, AdoptEligible, CompletedHead, OpenBranches, BranchType, BranchState, HeadsKept
<1>4. Releases(D, "CLOSED", 0)
  BY Zenon, <1>1, ReleasedAllFacts DEF Adopt
<1> HIDE DEF D
<1>5. /\ ClaimType' /\ ClaimTargetsKept /\ NoneNewlyConsumed /\ live' = live
      /\ \A c \in Claims : claim'[c].state # "CREATED"
  BY RejectedFacts DEF Adopt
<1>6. /\ ExecType' /\ BudgetType' /\ ExecLineage' /\ BranchLineage' /\ ClaimLineage'
      /\ ConsumedOnce' /\ SingleWriter' /\ ActiveCapacityExact' /\ Existing' = Existing
      /\ budget'.active <= MaxActive /\ budget'.parallel <= MaxParallel
      /\ budget'.used <= MaxTotal
  BY ZenonT(60), <1>1, <1>2, <1>3, <1>4, <1>5, CancelRows
<1>7. AdmissionAccountingExact' /\ BudgetBounded'
  BY SMTT(60), <1>3, <1>4, <1>6, FS_EmptySet, LimitsAssumption
     DEF AdmissionAccountingExact, Releases, BudgetBounded
<1>8. TaskType' /\ task'.status \in TaskTerminal
  <2>1. branch[b].head \in Executions \cup {None}
    BY DEF BranchType
  <2> QED BY Zenon, <2>1 DEF Adopt, TaskType, TaskStatus, TaskTerminal
<1>9. TerminalIsClosed'
  BY ZenonT(60), <1>4, <1>5, <1>8 DEF TerminalIsClosed, TaskOpen, Releases
<1>10. CoordType' /\ HolderType' /\ CoordLineage'
  BY DEF Adopt, CoordType, HolderType, CoordLineage
<1> QED BY ZenonT(60), <1>3, <1>5, <1>6, <1>7, <1>8, <1>9, <1>10

\* Finishing: the coordinator that waits for e observes a matching outcome.
LEMMA ObserveFacts ==
    ASSUME CoordType, CoordLineage, NEW e, NEW o \in CallOutcome,
           NEW r \in WaitReason \cup {None}, o = "WAITING" => r # None,
           NEW pc \in {"reconcile", "settle"}, Observe(e, pc, o, r)
    PROVE  CoordType' /\ CoordLineage'
BY Zenon, NoneAssumption DEF Observe, CoordType, CoordLineage

\* finish_task_scoped_execution keeps the invariant, whatever state it ends in.
LEMMA FinishStep ==
    ASSUME NEW e \in Executions, NEW s \in {"WAITING"} \cup ExecTerminal,
           NEW r \in WaitReason \cup {None}, s = "WAITING" <=> r # None,
           NEW o \in CallOutcome, o = "WAITING" => r # None
    PROVE  IInv /\ Finish(e, s, r, o) => IInv'
<1> SUFFICES ASSUME IInv, Finish(e, s, r, o) PROVE IInv'
  OBVIOUS
<1>1. MovesTo(e, s, r)
  BY Zenon, MovedFacts DEF Finish, IInv, TypeOK, ExecState
<1>2. RowsInv'
  BY Zenon, <1>1, StopStep DEF Finish, Owns
<1>3. CoordType' /\ CoordLineage'
  BY Zenon, ObserveFacts DEF Finish, IInv, TypeOK, Lineage
<1>4. HolderType'
  BY Zenon DEF Finish, IInv, TypeOK, HolderType
<1> QED BY ZenonT(60), <1>2, <1>3, <1>4, RowsAndCall

\* The fenced finish of a recovered execution keeps the invariant.
LEMMA FinishRecoveredStep ==
    ASSUME NEW e \in Executions PROVE IInv /\ FinishRecovered(e) => IInv'
<1> SUFFICES ASSUME IInv, FinishRecovered(e) PROVE IInv'
  OBVIOUS
<1>1. MovesTo(e, "COMPLETED", None)
  BY Zenon, MovedFacts DEF FinishRecovered, IInv, TypeOK, ExecState, ExecTerminal
<1>2. RowsInv'
  BY ZenonT(60), <1>1, StopStep DEF FinishRecovered, Owns, ExecTerminal
<1>3. CoordType' /\ CoordLineage' /\ HolderType'
  BY Zenon DEF FinishRecovered, IInv, TypeOK, Lineage, CoordType, CoordLineage, HolderType
<1> QED BY SMTT(60), <1>2, <1>3, RowsAndCall

\* Taking an expired lease away keeps the invariant.
LEMMA EvacuateStep ==
    ASSUME NEW e \in Executions, NEW s \in {"WAITING", "FAILED"},
           NEW r \in WaitReason \cup {None}, s = "WAITING" <=> r # None
    PROVE  IInv /\ Evacuate(e, s, r) => IInv'
<1> SUFFICES ASSUME IInv, Evacuate(e, s, r) PROVE IInv'
  OBVIOUS
<1>1. MovesTo(e, s, r)
  BY Zenon, LeasedFacts DEF Evacuate, IInv, TypeOK, ExecState, ExecTerminal
<1>2. RowsInv'
  BY SMTT(60), <1>1, StopStep DEF Evacuate, ExecTerminal
<1>3. CoordType' /\ CoordLineage' /\ HolderType'
  BY DEF Evacuate, IInv, TypeOK, Lineage, CoordType, CoordLineage, HolderType
<1> QED BY ZenonT(60), <1>2, <1>3, RowsAndCall

\* resume_task_scoped_execution keeps the invariant.
LEMMA ResumeDirectStep ==
    ASSUME NEW e \in Executions PROVE IInv /\ ResumeDirect(e) => IInv'
<1> SUFFICES ASSUME IInv, ResumeDirect(e) PROVE IInv'
  OBVIOUS
<1> USE DEF IInv, TypeOK, Lineage
<1>1. MovesTo(e, "RUNNING", None)
  BY Zenon, MovedFacts DEF ResumeDirect, ExecState
<1>2. ClaimType' /\ ClaimTargetsKept /\ NoneNewlyConsumed
  BY Zenon DEF ResumeDirect, ClaimType, ClaimTargetsKept, NoneNewlyConsumed
<1>3. exec[e].state # "ABSENT" /\ "RUNNING" \in ExecState \ {"ABSENT"} /\ branch' = branch
  BY Zenon DEF ResumeDirect, ResumeEligible, ExecState
<1>4. Advances /\ ExecType'
  BY ZenonT(60), <1>1, <1>3, MoveLineage DEF MovesTo
<1>5. ConsumedOnce'
  BY SMTT(60), <1>2, <1>4, ConsumedOnceKept
<1>6. RowsInv' /\ live' \in SUBSET (Executions \X Nat)
  BY ZenonT(60), <1>1, <1>2, <1>5, ResumeStep DEF ResumeDirect
<1>7. CoordType' /\ CoordLineage' /\ HolderType'
  BY Zenon, <1>6 DEF ResumeDirect, CoordType, CoordLineage, HolderType
<1> QED BY ZenonT(60), <1>6, <1>7, RowsAndCall

\* expire_task_scoped_waiting_execution keeps the invariant.
LEMMA ExpireWaitingStep ==
    ASSUME NEW e \in Executions PROVE IInv /\ ExpireWaiting(e) => IInv'
<1> SUFFICES ASSUME IInv, ExpireWaiting(e) PROVE IInv'
  OBVIOUS
<1> USE DEF IInv, TypeOK, Lineage
<1>1. MovesTo(e, "TIMEOUT", None)
  BY Zenon, MovedFacts DEF ExpireWaiting, ExecState, ExecTerminal
<1>2. ClaimType' /\ ClaimTargetsKept /\ NoneNewlyConsumed
  BY Zenon DEF ExpireWaiting, ClaimType, ClaimTargetsKept, NoneNewlyConsumed
<1>3. RowsInv'
  BY ZenonT(60), <1>1, <1>2, WaitExpiredStep DEF ExpireWaiting
<1>4. CoordType' /\ CoordLineage' /\ HolderType'
  BY Zenon DEF ExpireWaiting, CoordType, CoordLineage, HolderType
<1> QED BY ZenonT(60), <1>3, <1>4, RowsAndCall

\* Steps that write claims only, and never consume one.
LEMMA ClaimOnlyStep ==
    ASSUME IInv, UNCHANGED <<task, budget, branch, exec, coord, live, due>>, ClaimType',
           ClaimLineage',
           \A c \in Claims : claim'[c].state = "CREATED" => claim[c].state = "CREATED" \/ TaskOpen,
           \A c \in Claims : claim'[c].state = "CONSUMED" => claim'[c] = claim[c]
    PROVE  IInv'
<1> USE DEF IInv, TypeOK, Lineage
<1>1. TaskType' /\ BudgetType' /\ BranchType' /\ ExecType' /\ CoordType' /\ HolderType'
  BY Zenon DEF TaskType, BudgetType, BranchType, ExecType, CoordType, HolderType
<1>2. ExecLineage' /\ BranchLineage' /\ CoordLineage'
  BY Zenon DEF ExecLineage, BranchLineage, CoordLineage
<1>3. ActiveCapacityExact' /\ AdmissionAccountingExact' /\ BudgetBounded'
  BY Zenon DEF ActiveCapacityExact, AdmissionAccountingExact, BudgetBounded, Running, RunningDelegated,
         Delegated, Existing, OpenBranches
<1>4. TerminalIsClosed'
  BY Zenon DEF TerminalIsClosed, TaskOpen
<1>5. SingleWriter'
  BY Zenon DEF SingleWriter, Dormant
<1>6. ConsumedOnce'
  BY ZenonT(60) DEF ConsumedOnce
<1> QED BY ZenonT(60), <1>1, <1>2, <1>3, <1>4, <1>5, <1>6

\* Reading a resume plan keeps the invariant.
LEMMA PlanResumeStep ==
    ASSUME NEW c \in Claims, NEW e \in Executions PROVE IInv /\ PlanResume(c, e) => IInv'
<1> SUFFICES ASSUME IInv, PlanResume(c, e) PROVE IInv'
  OBVIOUS
<1> USE DEF IInv, TypeOK, Lineage, PlanResume
<1>1. exec[e].rev \in Nat /\ "PLANNED" \in ClaimState /\ e \in Existing /\ Existing' = Existing
  BY Zenon DEF ExecType, ExecRow, ClaimState, Existing
<1>2. ClaimType'
  BY Zenon, <1>1 DEF ClaimType
<1>3. \A d \in Claims : d # c => claim'[d] = claim[d]
  BY Zenon DEF ClaimType
<1>4. claim'[c].state = "PLANNED" /\ claim'[c].exec = e /\ claim'[c].rev = exec[e].rev
  BY ZenonT(60) DEF ClaimType
<1>5. ClaimLineage'
  BY SMTT(60), <1>1, <1>3, <1>4 DEF ClaimLineage
<1> QED BY Zenon, <1>2, <1>3, <1>4, <1>5, ClaimOnlyStep

\* Only the state of one claim changes, and not to FREE or CONSUMED.
LEMMA ClaimStateStep ==
    ASSUME IInv, NEW c \in Claims, NEW s \in ClaimState \ {"FREE", "CONSUMED"},
           claim[c].state # "FREE", s = "CREATED" => TaskOpen,
           claim' = [claim EXCEPT ![c].state = s],
           UNCHANGED <<task, budget, branch, exec, coord, live, due>>
    PROVE  IInv'
<1> USE DEF IInv, TypeOK, Lineage
<1>1. ClaimType'
  BY DEF ClaimType
<1>2. \A d \in Claims : d # c => claim'[d] = claim[d]
  BY DEF ClaimType
<1>3. claim'[c].state = s /\ claim'[c].exec = claim[c].exec /\ claim'[c].rev = claim[c].rev
  BY DEF ClaimType
<1>4. ClaimTargetsKept /\ Existing' = Existing
  BY SMTT(60), <1>2, <1>3 DEF ClaimTargetsKept, Existing
<1>5. ClaimLineage'
  BY SMTT(60), <1>4 DEF ClaimLineage, ClaimTargetsKept
<1> QED BY ZenonT(60), <1>1, <1>2, <1>3, <1>4, <1>5, ClaimOnlyStep

\* Consumption that finds the wait TTL elapsed keeps the invariant.
LEMMA ConsumeWaitExpiredStep ==
    ASSUME NEW c \in Claims PROVE IInv /\ ConsumeWaitExpired(c) => IInv'
<1> SUFFICES ASSUME IInv, ConsumeWaitExpired(c) PROVE IInv'
  OBVIOUS
<1> USE DEF IInv, TypeOK, Lineage
<1> DEFINE e == claim[c].exec
<1>1. e \in Executions /\ exec[e].state = "WAITING"
  BY Zenon DEF ConsumeWaitExpired, ClaimCurrent, ClaimLineage, Existing
<1>2. ClaimType' /\ ClaimTargetsKept /\ NoneNewlyConsumed
  BY DEF ConsumeWaitExpired, ClaimCurrent, ClaimType, ClaimState, ClaimTargetsKept, NoneNewlyConsumed
<1>3. \A d \in Claims : claim'[d].state = "CREATED" => claim[d].state = "CREATED"
  BY DEF ConsumeWaitExpired, ClaimType
<1>4. exec' = Moved(e, "TIMEOUT", None)
  BY Zenon DEF ConsumeWaitExpired
<1> HIDE DEF e
<1>5. MovesTo(e, "TIMEOUT", None)
  BY ZenonT(60), <1>1, <1>4, MovedFacts DEF ExecState, ExecTerminal
<1>6. RowsInv'
  BY ZenonT(60), <1>1, <1>2, <1>3, <1>5, WaitExpiredStep DEF ConsumeWaitExpired
<1>7. CoordType' /\ CoordLineage' /\ HolderType'
  BY DEF ConsumeWaitExpired, CoordType, CoordLineage, HolderType
<1> QED BY ZenonT(60), <1>6, <1>7, RowsAndCall

\* A consumption resumes the revision its claim froze: every claim consumed
\* earlier for the same execution is for an older revision.
LEMMA ConsumeStep ==
    ASSUME IInv, NEW c \in Claims, NEW r, ClaimCurrent(c, r), ResumeEligible(claim[c].exec),
           MovesTo(claim[c].exec, "RUNNING", None),
           budget' = Acquired(budget, exec[claim[c].exec].depth),
           claim' = [claim EXCEPT ![c].state = "CONSUMED"],
           task' = Reconciled(task, exec', branch),
           live' = live \cup {<<claim[c].exec, exec[claim[c].exec].rev + 1>>},
           UNCHANGED <<branch, coord, due>>
    PROVE  IInv'
<1> USE DEF IInv, TypeOK, Lineage
<1>1. /\ claim[c].exec \in Executions /\ exec[claim[c].exec].state = "WAITING"
      /\ claim[c].state = "CREATED" /\ exec[claim[c].exec].rev = claim[c].rev
  BY Zenon DEF ClaimCurrent, ClaimLineage, Existing
<1>2. PICK e \in Executions : e = claim[c].exec
  BY Zenon, <1>1
<1>3. /\ ClaimType' /\ \A d \in Claims \ {c} : claim'[d] = claim[d]
      /\ claim'[c].state = "CONSUMED" /\ claim'[c].exec = claim[c].exec
      /\ claim'[c].rev = claim[c].rev
  BY Zenon DEF ClaimType, ClaimState
<1>4. ClaimTargetsKept
  BY ZenonT(60), <1>1, <1>3 DEF ClaimTargetsKept
<1>5. Advances /\ ExecType' /\ exec'[e].rev = exec[e].rev + 1
  BY ZenonT(60), <1>1, <1>2, MoveLineage DEF MovesTo, ExecState
<1>6. ConsumedOnce'
  <2>1. \A d \in Claims : claim[d].state = "CONSUMED" =>
          claim[d].exec \in Executions /\ exec'[claim[d].exec].rev >= exec[claim[d].exec].rev
    <3>1. \A d \in Claims : claim[d].state = "CONSUMED" => claim[d].exec \in Executions
      BY ZenonT(60) DEF ClaimLineage, Existing
    <3>2. \A x \in Executions : exec'[x].rev >= exec[x].rev
      BY SMTT(60), <1>5, RevisionsGrow
    <3> QED BY ZenonT(60), <3>1, <3>2
  <2>2. \A d \in Claims : claim'[d].state = "CONSUMED" => exec'[claim'[d].exec].rev > claim'[d].rev
    BY SMTT(60), <1>1, <1>2, <1>3, <1>5, <2>1 DEF ConsumedOnce, ExecType, ExecRow, ClaimType
  <2>3. \A d \in Claims \ {c} : claim[d].state = "CONSUMED" /\ claim[d].exec = claim[c].exec
          => claim[d].rev # claim[c].rev
    BY SMTT(60), <1>1 DEF ConsumedOnce, ExecType, ExecRow, ClaimType
  <2> SUFFICES ASSUME NEW d1 \in Claims, NEW d2 \in Claims, claim'[d1].state = "CONSUMED",
                      claim'[d2].state = "CONSUMED", claim'[d2].exec = claim'[d1].exec,
                      claim'[d2].rev = claim'[d1].rev
               PROVE  d1 = d2
    BY ZenonT(60), <2>2 DEF ConsumedOnce
  <2>4. CASE d1 = c
    BY SMTT(60), <1>3, <2>3, <2>4
  <2>5. CASE d2 = c
    BY SMTT(60), <1>3, <2>3, <2>5
  <2>6. CASE d1 # c /\ d2 # c
    BY SMTT(60), <1>3, <2>6 DEF ConsumedOnce
  <2> QED BY ZenonT(60), <2>4, <2>5, <2>6
<1>7. \A d \in Claims : claim'[d].state = "CREATED" => claim[d].state = "CREATED"
  BY Zenon, <1>3
<1>8. RowsInv' /\ live' \in SUBSET (Executions \X Nat)
  BY ZenonT(60), <1>1, <1>3, <1>4, <1>6, <1>7, ResumeStep
<1>9. CoordType' /\ CoordLineage' /\ HolderType'
  BY Zenon, <1>8 DEF CoordType, CoordLineage, HolderType
<1> QED BY ZenonT(60), <1>8, <1>9, RowsAndCall

\* Every step of a claim's life keeps the invariant.
LEMMA ResumeSteps ==
    ASSUME NEW c \in Claims
    PROVE  /\ IInv /\ CreateClaim(c) => IInv'
           /\ IInv /\ ExpireClaim(c) => IInv'
           /\ IInv /\ RejectClaim(c) => IInv'
           /\ IInv /\ ConsumeClaim(c) => IInv'
           /\ IInv /\ ConsumeRecoveryClaim(c) => IInv'
           /\ IInv /\ RecoverClaimedResume(c) => IInv'
<1>1. IInv /\ CreateClaim(c) => IInv'
  BY Zenon, ClaimStateStep DEF CreateClaim, ClaimState
<1>2. ASSUME IInv, ExpireClaim(c) PROVE IInv'
  <2>1. "EXPIRED" \in ClaimState \ {"FREE", "CONSUMED"} /\ "EXPIRED" # "CREATED"
    BY DEF ClaimState
  <2>2. claim[c].state # "FREE" /\ claim' = [claim EXCEPT ![c].state = "EXPIRED"]
    BY <1>2 DEF ExpireClaim
  <2> QED BY ZenonT(60), <1>2, <2>1, <2>2, ClaimStateStep DEF ExpireClaim
<1>3. ASSUME IInv, RejectClaim(c) PROVE IInv'
  <2>1. "REJECTED" \in ClaimState \ {"FREE", "CONSUMED"} /\ "REJECTED" # "CREATED"
    BY DEF ClaimState
  <2>2. claim[c].state # "FREE" /\ claim' = [claim EXCEPT ![c].state = "REJECTED"]
    BY SMTT(60), <1>3 DEF RejectClaim
  <2> QED BY ZenonT(60), <1>3, <2>1, <2>2, ClaimStateStep DEF RejectClaim
<1>4. ASSUME IInv, claim[c].state \in {"CREATED", "CONSUMED"}
      PROVE  claim[c].exec \in Executions /\ ExecType
  BY Zenon, <1>4 DEF IInv, TypeOK, Lineage, ClaimLineage, Existing
<1>5. ASSUME IInv, ConsumeClaim(c) PROVE IInv'
  <2>1. claim[c].exec \in Executions /\ ExecType
    BY Zenon, <1>4, <1>5 DEF ConsumeClaim, ClaimCurrent
  <2>2. MovesTo(claim[c].exec, "RUNNING", None)
    BY ZenonT(60), <1>5, <2>1, MovedFacts DEF ConsumeClaim, ExecState
  <2> QED BY ZenonT(60), <1>5, <2>2, ConsumeStep DEF ConsumeClaim
<1>6. ASSUME IInv, ConsumeRecoveryClaim(c) PROVE IInv'
  <2>1. claim[c].exec \in Executions /\ ExecType
    BY Zenon, <1>4, <1>6 DEF ConsumeRecoveryClaim, ClaimCurrent
  <2>2. MovesTo(claim[c].exec, "RUNNING", None)
    BY ZenonT(60), <1>6, <2>1, LeasedFacts DEF ConsumeRecoveryClaim, ExecState
  <2> QED BY ZenonT(60), <1>6, <2>2, ConsumeStep DEF ConsumeRecoveryClaim
<1>7. ASSUME IInv, RecoverClaimedResume(c) PROVE IInv'
  <2>1. claim[c].exec \in Executions
    BY ZenonT(60), <1>4, <1>7 DEF RecoverClaimedResume
  <2>2. "RECOVERY" \in WaitReason /\ "RECOVERY" # None /\ "WAITING" \in CallOutcome
    BY SMTT(60), NoneAssumption DEF WaitReason, CallOutcome
  <2>3. Finish(claim[c].exec, "WAITING", "RECOVERY", "WAITING")
    BY Zenon, <1>7 DEF RecoverClaimedResume
  <2> QED BY ZenonT(60), <1>7, <2>1, <2>2, <2>3, FinishStep
<1> QED BY ZenonT(60), <1>1, <1>2, <1>3, <1>5, <1>6, <1>7
=============================================================================
