-------------------------- MODULE TaskBranchProofs --------------------------
(*****************************************************************************)
(* For every number of executions, branches and claims and every limit: a    *)
(* branch has one unsettled execution of its own, its head, an adoption is   *)
(* unique, a dormant admission can be activated, a running head is shown.    *)
(*****************************************************************************)
EXTENDS TaskSettlementProofs

\* A fork or an aggregate exists only in a Task of several branches.
SeveralBranches ==
    \A e \in Executions : exec[e].kind \in {"FORK", "AGGREGATE"} => MultiBranch(branch)

\* A dormant fork or aggregate is the head of an OPEN branch of a RUNNING Task.
DormantShown ==
    \A e \in Executions :
        Dormant(e) /\ exec[e].kind # "RETRY" => task.status = "RUNNING" /\ IsOpenHead(e)

\* The inductive invariant of this module.
HInv == UnsettledIsHead /\ SeveralBranches /\ DormantShown /\ AdoptionUnique

Unsettled(e) == exec[e].state \in {"RUNNING", "WAITING"}

\* What every step but an admission does: no execution becomes unsettled, and
\* no branch is opened or gets another head.
NoAdmission ==
    /\ \A e \in Executions : /\ Unsettled(e)' => Unsettled(e)
                             /\ exec'[e].kind = exec[e].kind /\ exec'[e].branch = exec[e].branch
    /\ \A b \in Branches : /\ branch'[b].head = branch[b].head
                           /\ branch'[b].state = "OPEN" => branch[b].state = "OPEN"
                           /\ branch'[b].state = "ABSENT" <=> branch[b].state = "ABSENT"

\* The head of an existing branch is an existing execution of that branch.
LEMMA HeadExists ==
    ASSUME IInv, NEW b \in Branches, branch[b].state # "ABSENT"
    PROVE  branch[b].head \in Executions /\ exec[branch[b].head].state # "ABSENT"
<1>1. branch[b] \in [state : BranchState, head : Executions \cup {None}]
  BY Zenon DEF IInv, TypeOK, BranchType
<1>2. branch[b].head # None /\ exec[branch[b].head].state # "ABSENT"
  BY Zenon DEF IInv, Lineage, BranchLineage
<1> QED BY SMTT(60), <1>1, <1>2

\* An unsettled execution is on an existing branch.
LEMMA BranchExists ==
    ASSUME IInv, NEW e \in Executions, exec[e].state # "ABSENT"
    PROVE  exec[e].branch \in Branches /\ branch[exec[e].branch].state # "ABSENT"
BY Zenon DEF IInv, Lineage, ExecLineage

\* Settling dormant admissions makes nothing unsettled.
LEMMA CancelsSettle ==
    ASSUME IInv, NEW B, exec' = CancelledDormant(DormantHeads(B))
    PROVE  /\ \A e \in Executions : /\ Unsettled(e)' => Unsettled(e)
                                    /\ exec'[e].kind = exec[e].kind
                                    /\ exec'[e].branch = exec[e].branch
           /\ \A e \in DormantHeads(B) : ~Unsettled(e)'
           /\ \A e \in Executions \ DormantHeads(B) : exec'[e] = exec[e]
<1> DEFINE D == DormantHeads(B)
<1>1. Cancels(D) /\ \A e \in D : e \in Executions /\ Dormant(e)
  BY Zenon, SettlesDormant
<1> HIDE DEF D
<1> QED BY ZenonT(60), <1>1 DEF Cancels, Unsettled, D

\* Only an admission makes an execution unsettled or a branch OPEN.
LEMMA NoAdmissionStep ==
    IInv /\ StepShape =>
        \/ \E e \in Executions, b \in Branches, k \in ExecKind, d \in Nat : Admission(e, b, k, d)
        \/ NoAdmission
<1> SUFFICES ASSUME IInv, StepShape,
                    ~\E e \in Executions, b \in Branches, k \in ExecKind, d \in Nat : Admission(e, b, k, d)
             PROVE  NoAdmission
  OBVIOUS
<1>1. ASSUME NEW e \in Executions, NEW s \in ExecState, NEW r \in WaitReason \cup {None},
             Movement(e, s, r)
      PROVE  NoAdmission
  <2>1. /\ Unsettled(e) /\ OthersKept(e) /\ branch' = branch
        /\ exec'[e].branch = exec[e].branch /\ exec'[e].kind = exec[e].kind
    BY ZenonT(60), <1>1 DEF Movement, MovesTo, Unsettled
  <2> QED BY ZenonT(60), <2>1 DEF OthersKept, NoAdmission, Unsettled
<1>2. ASSUME NEW e \in Executions, Activation(e) PROVE NoAdmission
  BY ZenonT(60), <1>2 DEF Activation, Dormant, OthersKept, NoAdmission, Unsettled
<1>3. CASE CancelTask
  BY ZenonT(60), <1>3, CancelsSettle DEF CancelTask, NoAdmission
<1>4. ASSUME NEW b \in Branches, Discard(b) PROVE NoAdmission
  <2>1. /\ branch[b].state = "OPEN" /\ branch'[b].state = "DISCARDED"
        /\ branch'[b].head = branch[b].head /\ \A x \in Branches \ {b} : branch'[x] = branch[x]
    BY SMTT(60), <1>4 DEF Discard, DiscardEligible, OpenBranches, IInv, TypeOK, BranchType
  <2>2. exec' = CancelledDormant(DormantHeads({b}))
    BY ZenonT(60), <1>4 DEF Discard
  <2> QED BY ZenonT(60), <2>1, <2>2, CancelsSettle DEF NoAdmission
<1>5. ASSUME NEW b \in Branches, Adopt(b) PROVE NoAdmission
  <2>1. branch[b].state = "OPEN" /\ exec' = CancelledDormant(DormantHeads(OpenBranches \ {b}))
    BY ZenonT(60), <1>5 DEF Adopt, AdoptEligible, CompletedHead, OpenBranches
  <2>2. ASSUME NEW x \in Branches
        PROVE  /\ branch'[x].head = branch[x].head
               /\ branch'[x].state = "OPEN" => branch[x].state = "OPEN"
               /\ branch'[x].state = "ABSENT" <=> branch[x].state = "ABSENT"
    <3>1. branch[x] \in [state : BranchState, head : Executions \cup {None}]
      BY Zenon DEF IInv, TypeOK, BranchType
    <3>2. /\ [branch[x] EXCEPT !.state = "ADOPTED"].head = branch[x].head
          /\ [branch[x] EXCEPT !.state = "ADOPTED"].state = "ADOPTED"
          /\ [branch[x] EXCEPT !.state = "SUPERSEDED"].head = branch[x].head
          /\ [branch[x] EXCEPT !.state = "SUPERSEDED"].state = "SUPERSEDED"
      BY SMTT(60), <3>1
    <3>3. \/ branch[x].state = "OPEN" /\ branch'[x] = [branch[x] EXCEPT !.state = "ADOPTED"]
          \/ branch[x].state = "OPEN" /\ branch'[x] = [branch[x] EXCEPT !.state = "SUPERSEDED"]
          \/ branch'[x] = branch[x]
      <4>1. branch'[x] = IF x = b THEN [branch[x] EXCEPT !.state = "ADOPTED"]
                         ELSE IF x \in OpenBranches THEN [branch[x] EXCEPT !.state = "SUPERSEDED"]
                         ELSE branch[x]
        BY SMTT(60), <1>5 DEF Adopt
      <4>2. x \in OpenBranches <=> branch[x].state = "OPEN"
        BY Zenon DEF OpenBranches
      <4> QED BY SMTT(60), <2>1, <4>1, <4>2
    <3> QED BY ZenonT(60), <3>2, <3>3
  <2> QED BY ZenonT(60), <2>1, <2>2, CancelsSettle DEF NoAdmission
<1>6. CASE TaskMove
  BY ZenonT(60), <1>6 DEF TaskMove, NoAdmission, Unsettled
<1> QED BY ZenonT(60), <1>1, <1>2, <1>3, <1>4, <1>5, <1>6 DEF StepShape

\* An admission replaces a settled head or opens a branch of its own.
LEMMA AdmissionHeads ==
    ASSUME IInv, UnsettledIsHead, NEW x \in Executions, NEW b \in Branches, NEW k \in ExecKind,
           NEW d \in Nat, Admission(x, b, k, d),
           NEW e \in Executions, e # x, Unsettled(e), exec[e].kind # "CHILD"
    PROVE  exec'[e] = exec[e] /\ branch'[exec[e].branch] = branch[exec[e].branch]
<1>1. exec'[e] = exec[e]
  BY Zenon DEF Admission, Admits, OthersKept
<1>2. /\ exec[e].branch \in Branches /\ branch[exec[e].branch].state # "ABSENT"
      /\ branch[exec[e].branch].head = e
  BY ZenonT(60), BranchExists DEF Unsettled, UnsettledIsHead
<1>3. exec[e].branch = b => branch' = branch
  <2> SUFFICES ASSUME exec[e].branch = b, branch' # branch PROVE FALSE
    BY SMTT(60)
  <2>1. exec[branch[b].head].state \in ExecTerminal \/ branch[b].state = "ABSENT"
    BY Zenon DEF Admission
  <2> QED BY ZenonT(60), <1>2, <2>1 DEF Unsettled, ExecTerminal
<1> QED BY ZenonT(60), <1>1, <1>2, <1>3 DEF Admission

\* A retry, fork or aggregate never leaves a second unsettled execution behind.
LEMMA HeadStep == IInv /\ UnsettledIsHead /\ StepShape => UnsettledIsHead'
<1> SUFFICES ASSUME IInv, UnsettledIsHead, StepShape,
                    NEW e \in Executions, Unsettled(e)', exec'[e].kind # "CHILD"
             PROVE  branch'[exec'[e].branch].head = e
  BY Zenon DEF UnsettledIsHead, Unsettled
<1>1. ASSUME NEW x \in Executions, NEW b \in Branches, NEW k \in ExecKind, NEW d \in Nat,
             Admission(x, b, k, d)
      PROVE  branch'[exec'[e].branch].head = e
  <2>1. CASE e = x
    <3>1. exec'[e].branch = b /\ k # "CHILD"
      BY ZenonT(60), <1>1, <2>1 DEF Admission, Admits
    <3>2. branch'[b] = [state |-> "OPEN", head |-> e] \/ branch'[b].head = e
      BY ZenonT(60), <1>1, <2>1, <3>1 DEF Admission
    <3> QED BY SMTT(60), <3>1, <3>2
  <2>2. CASE e # x
    <3>1. exec'[e] = exec[e]
      BY ZenonT(60), <1>1, <2>2 DEF Admission, Admits, OthersKept
    <3>2. Unsettled(e) /\ exec[e].kind # "CHILD"
      BY ZenonT(60), <3>1 DEF Unsettled
    <3>3. branch[exec[e].branch].head = e
      BY ZenonT(60), <3>2 DEF Unsettled, UnsettledIsHead
    <3> QED BY ZenonT(60), <1>1, <2>2, <3>2, <3>3, AdmissionHeads
  <2> QED BY SMTT(60), <2>1, <2>2
<1>2. CASE NoAdmission
  <2>1. /\ Unsettled(e) /\ exec[e].kind # "CHILD" /\ exec'[e].branch = exec[e].branch
        /\ branch[exec[e].branch].head = e
    BY ZenonT(60), <1>2 DEF NoAdmission, Unsettled, UnsettledIsHead
  <2> QED BY ZenonT(60), <1>2, <2>1, BranchExists DEF NoAdmission, Unsettled
<1> QED BY ZenonT(60), <1>1, <1>2, NoAdmissionStep

\* No branch row disappears, so a Task of several branches stays one.
LEMMA SeveralStep == IInv /\ SeveralBranches /\ StepShape => SeveralBranches'
<1> SUFFICES ASSUME IInv, SeveralBranches, StepShape,
                    NEW e \in Executions, exec'[e].kind \in {"FORK", "AGGREGATE"}
             PROVE  MultiBranch(branch')
  BY Zenon DEF SeveralBranches
<1>1. (\A b \in Branches : branch[b].state # "ABSENT" => branch'[b].state # "ABSENT")
         => (MultiBranch(branch) => MultiBranch(branch'))
  BY Zenon DEF MultiBranch
<1>2. ASSUME NEW x \in Executions, NEW b \in Branches, NEW k \in ExecKind, NEW d \in Nat,
             Admission(x, b, k, d)
      PROVE  MultiBranch(branch')
  <2>1. \A c \in Branches : branch[c].state # "ABSENT" => branch'[c].state # "ABSENT"
    <3>1. branch' = branch \/ branch'[b].state = "OPEN"
      <4>1. branch' = branch \/ branch'[b].state = "OPEN" \/ branch'[b] = [state |-> "OPEN", head |-> x]
        BY ZenonT(60), <1>2 DEF Admission
      <4> QED BY SMTT(60), <4>1
    <3>2. \A c \in Branches \ {b} : branch'[c] = branch[c]
      BY ZenonT(60), <1>2 DEF Admission
    <3> QED BY ZenonT(60), <3>1, <3>2
  <2>2. CASE e # x
    <3>1. exec'[e] = exec[e]
      BY ZenonT(60), <1>2, <2>2 DEF Admission, Admits, OthersKept
    <3> QED BY ZenonT(60), <1>1, <2>1, <3>1 DEF SeveralBranches
  <2>3. CASE e = x /\ k = "AGGREGATE"
    BY ZenonT(60), <1>1, <1>2, <2>1, <2>3 DEF Admission
  <2>4. CASE e = x /\ k = "FORK"
    <3>1. branch[b].state = "ABSENT" /\ OpenBranches # {} /\ branch'[b] = [state |-> "OPEN", head |-> x]
      BY ZenonT(60), <1>2, <2>4 DEF Admission
    <3>2. branch'[b].state = "OPEN"
      BY SMTT(60), <3>1
    <3>3. PICK c \in Branches : branch[c].state = "OPEN"
      BY ZenonT(60), <3>1 DEF OpenBranches
    <3> QED BY ZenonT(60), <2>1, <3>1, <3>2, <3>3 DEF MultiBranch
  <2> QED BY ZenonT(60), <1>2, <2>2, <2>3, <2>4 DEF Admission, Admits
<1>3. CASE NoAdmission
  BY ZenonT(60), <1>1, <1>3 DEF NoAdmission, SeveralBranches
<1> QED BY Zenon, <1>2, <1>3, NoAdmissionStep

\* A branch becomes ADOPTED in adopt_branch_result only.
LEMMA AdoptedBy ==
    ASSUME IInv, StepShape, NEW b \in Branches, branch'[b].state = "ADOPTED",
           branch[b].state # "ADOPTED"
    PROVE  Adopt(b)
<1>1. ASSUME NEW x \in Executions, NEW c \in Branches, NEW k \in ExecKind, NEW d \in Nat,
             Admission(x, c, k, d)
      PROVE  FALSE
  <2>1. branch' = branch \/ branch'[c].state = "OPEN" \/ branch'[c] = [state |-> "OPEN", head |-> x]
    BY ZenonT(60), <1>1 DEF Admission
  <2>2. branch' = branch \/ branch'[c].state = "OPEN"
    BY SMTT(60), <2>1
  <2> QED BY ZenonT(60), <1>1, <2>2 DEF Admission
<1>2. ASSUME NEW c \in Branches, Discard(c) PROVE FALSE
  <2>1. branch'[c].state = "DISCARDED" /\ \A x \in Branches \ {c} : branch'[x] = branch[x]
    BY SMTT(60), <1>2 DEF Discard, IInv, TypeOK, BranchType
  <2> QED BY ZenonT(60), <2>1
<1>3. ASSUME NEW c \in Branches, Adopt(c), c # b PROVE FALSE
  <2>1. branch[b] \in [state : BranchState, head : Executions \cup {None}]
    BY ZenonT(60) DEF IInv, TypeOK, BranchType
  <2>2. branch'[b] = IF b \in OpenBranches THEN [branch[b] EXCEPT !.state = "SUPERSEDED"]
                     ELSE branch[b]
    BY SMTT(60), <1>3 DEF Adopt
  <2> QED BY SMTT(60), <2>1, <2>2
<1>4. ~\E e \in Executions, s \in ExecState, r \in WaitReason \cup {None} : Movement(e, s, r)
  BY ZenonT(60) DEF Movement
<1>5. ~(\E e \in Executions : Activation(e)) /\ ~CancelTask /\ ~TaskMove
  BY Zenon DEF Activation, CancelTask, TaskMove
<1> QED BY ZenonT(60), <1>1, <1>2, <1>3, <1>4, <1>5 DEF StepShape

\* What adopt_branch_result leaves: one ADOPTED branch, no OPEN one, and its
\* completed head as the Task's output.
LEMMA AdoptFacts ==
    ASSUME IInv, NEW b \in Branches, Adopt(b)
    PROVE  /\ TaskOpen /\ branch[b].state = "OPEN" /\ exec[branch[b].head].state = "COMPLETED"
           /\ branch'[b].state = "ADOPTED" /\ branch'[b].head = branch[b].head
           /\ task'.status = "COMPLETED" /\ task'.output = branch[b].head
           /\ \A x \in Branches : branch'[x].state # "OPEN"
           /\ \A x \in Branches \ {b} : branch'[x].state = "ADOPTED" => branch[x].state = "ADOPTED"
           /\ exec' = CancelledDormant(DormantHeads(OpenBranches \ {b}))
<1>1. /\ TaskOpen /\ branch[b].state = "OPEN" /\ exec[branch[b].head].state = "COMPLETED"
      /\ exec' = CancelledDormant(DormantHeads(OpenBranches \ {b}))
  BY Zenon DEF Adopt, AdoptEligible, CompletedHead, OpenBranches
<1>2. task' = [status |-> "COMPLETED", reasons |-> {}, output |-> branch[b].head]
  BY Zenon DEF Adopt
<1>3. branch[b] \in [state : BranchState, head : Executions \cup {None}]
  BY ZenonT(60) DEF IInv, TypeOK, BranchType
<1>4. branch'[b] = [branch[b] EXCEPT !.state = "ADOPTED"]
  BY SMTT(60) DEF Adopt
<1>5. ASSUME NEW x \in Branches \ {b}
      PROVE  /\ branch'[x].state # "OPEN"
             /\ branch'[x].state = "ADOPTED" => branch[x].state = "ADOPTED"
  <2>1. branch[x] \in [state : BranchState, head : Executions \cup {None}]
    BY ZenonT(60) DEF IInv, TypeOK, BranchType
  <2>2. branch'[x] = IF x \in OpenBranches THEN [branch[x] EXCEPT !.state = "SUPERSEDED"]
                     ELSE branch[x]
    BY DEF Adopt
  <2>3. x \in OpenBranches <=> branch[x].state = "OPEN"
    BY Zenon DEF OpenBranches
  <2> QED BY SMTT(60), <2>1, <2>2, <2>3
<1>6. branch'[b].state = "ADOPTED" /\ branch'[b].head = branch[b].head
  BY SMTT(60), <1>3, <1>4
<1>7. task'.status = "COMPLETED" /\ task'.output = branch[b].head
  BY SMTT(60), <1>2
<1> QED BY ZenonT(60), <1>1, <1>5, <1>6, <1>7

\* The result of a Task comes from the one branch it adopted, for good.
LEMMA AdoptionStep == IInv /\ AdoptionUnique /\ StepShape => AdoptionUnique'
<1> SUFFICES ASSUME IInv, AdoptionUnique, StepShape, NEW b \in Branches,
                    branch'[b].state = "ADOPTED"
             PROVE  /\ task'.status = "COMPLETED" /\ task'.output = branch'[b].head
                    /\ exec'[branch'[b].head].state = "COMPLETED"
                    /\ \A x \in Branches : branch'[x].state # "OPEN"
                    /\ \A c \in Branches : branch'[c].state = "ADOPTED" => c = b
  BY ZenonT(60) DEF AdoptionUnique, OpenBranches
<1>1. TaskKept /\ ExecKept /\ BranchKept
  BY ZenonT(60), TaskKeptStep, ExecKeptStep, BranchKeptStep
<1>2. CASE branch[b].state = "ADOPTED"
  <2>1. /\ task.status = "COMPLETED" /\ task.output = branch[b].head
        /\ exec[branch[b].head].state = "COMPLETED"
        /\ \A x \in Branches : branch[x].state # "OPEN"
        /\ \A c \in Branches : branch[c].state = "ADOPTED" => c = b
    BY ZenonT(60), <1>2 DEF AdoptionUnique, OpenBranches
  <2>2. ~TaskOpen
    BY ZenonT(60), <2>1 DEF TaskOpen, TaskTerminal
  <2>3. branch'[b] = branch[b] /\ task' = task
    BY ZenonT(60), <1>1, <1>2, <2>2 DEF BranchKept, TaskKept
  <2>4. exec'[branch[b].head] = exec[branch[b].head]
    BY ZenonT(60), <1>1, <1>2, <2>1, HeadExists DEF ExecKept, ExecTerminal
  <2>5. \A x \in Branches : branch'[x].state # "OPEN"
    BY ZenonT(60), <1>1, <2>1, <2>2 DEF BranchKept
  <2>6. \A c \in Branches : branch'[c].state = "ADOPTED" => branch[c].state = "ADOPTED"
    BY ZenonT(60), <2>2, AdoptedBy DEF Adopt, AdoptEligible
  <2> QED BY ZenonT(60), <2>1, <2>3, <2>4, <2>5, <2>6
<1>3. CASE branch[b].state # "ADOPTED"
  <2>1. Adopt(b)
    BY ZenonT(60), <1>3, AdoptedBy
  <2>2. exec'[branch[b].head] = exec[branch[b].head]
    BY ZenonT(60), <1>1, <2>1, AdoptFacts, HeadExists DEF ExecKept, ExecTerminal
  <2>3. \A c \in Branches : branch[c].state # "ADOPTED"
    BY ZenonT(60), <2>1, AdoptFacts DEF AdoptionUnique, TaskOpen, TaskTerminal
  <2> QED BY ZenonT(60), <2>1, <2>2, <2>3, AdoptFacts
<1> QED BY ZenonT(60), <1>2, <1>3

\* A derived Task shows RUNNING when one of its OPEN heads runs.
LEMMA ReconciledShows ==
    ASSUME TaskType, TaskOpen, NEW ex, NEW br, MultiBranch(br), NEW b \in Branches,
           br[b].state = "OPEN", ex[br[b].head].state = "RUNNING"
    PROVE  Reconciled(task, ex, br).status = "RUNNING"
<1>1. br[b].head \in OpenHeads(br)
  BY ZenonT(60) DEF OpenHeads
<1>2. Reconciled(task, ex, br) = [task EXCEPT !.status = "RUNNING", !.reasons = {}]
  BY ZenonT(60), <1>1 DEF Reconciled, TaskOpen
<1> QED BY SMTT(60), <1>2 DEF TaskType

\* A dormant fork or aggregate is not overtaken by another change of its Task.
LEMMA DormantStep ==
    IInv /\ UnsettledIsHead /\ SeveralBranches /\ DormantShown /\ StepShape => DormantShown'
<1> SUFFICES ASSUME IInv, UnsettledIsHead, SeveralBranches, DormantShown, StepShape,
                    NEW e \in Executions, Dormant(e)', exec'[e].kind # "RETRY"
             PROVE  task'.status = "RUNNING" /\ IsOpenHead(e)'
  BY ZenonT(60) DEF DormantShown
<1> DEFINE h == exec[e].branch
<1>1. Unsettled(e)' /\ exec'[e].rev = 1 /\ exec'[e].kind \in {"FORK", "AGGREGATE"}
  BY ZenonT(60) DEF Unsettled, Dormant, PlannedKind
<1>2. TaskType
  BY Zenon DEF IInv, TypeOK
<1>3. ASSUME exec'[e] = exec[e]
      PROVE  /\ Unsettled(e) /\ exec[e].kind # "CHILD" /\ exec[e].state = "RUNNING"
             /\ Dormant(e) /\ task.status = "RUNNING" /\ TaskOpen /\ MultiBranch(branch)
             /\ h \in Branches /\ branch[h].state = "OPEN" /\ branch[h].head = e
  <2>1. /\ Unsettled(e) /\ exec[e].kind # "CHILD" /\ exec[e].kind \in {"FORK", "AGGREGATE"}
        /\ Dormant(e) /\ exec[e].kind # "RETRY"
    BY ZenonT(60), <1>1, <1>3 DEF Unsettled, Dormant
  <2>2. task.status = "RUNNING" /\ IsOpenHead(e) /\ MultiBranch(branch)
    BY ZenonT(60), <2>1 DEF DormantShown, SeveralBranches
  <2> QED BY ZenonT(60), <2>1, <2>2 DEF IsOpenHead, OpenBranches, TaskOpen, TaskTerminal, Dormant
<1>4. ASSUME exec'[e] = exec[e], branch'[h].state = "OPEN", branch'[h].head = branch[h].head
      PROVE  IsOpenHead(e)'
  BY ZenonT(60), <1>3, <1>4 DEF IsOpenHead, OpenBranches
<1> HIDE DEF h
<1>5. ASSUME NEW x \in Executions, NEW b \in Branches, NEW k \in ExecKind, NEW d \in Nat,
             Admission(x, b, k, d)
      PROVE  task'.status = "RUNNING" /\ IsOpenHead(e)'
  <2>1. CASE e = x
    <3>1. exec'[e].branch = b /\ k \in {"FORK", "AGGREGATE"}
      BY ZenonT(60), <1>1, <1>5, <2>1 DEF Admission, Admits
    <3>2. /\ task' = RunningTask
          /\ \/ branch'[b] = [state |-> "OPEN", head |-> e]
             \/ branch'[b].state = "OPEN" /\ branch'[b].head = e
      BY ZenonT(60), <1>5, <2>1, <3>1 DEF Admission
    <3>3. branch'[b].state = "OPEN" /\ branch'[b].head = e
      BY SMTT(60), <3>2
    <3> QED BY ZenonT(60), <1>2, <3>1, <3>2, <3>3, RunningTaskShown DEF IsOpenHead, OpenBranches
  <2>2. CASE e # x
    <3>1. exec'[e] = exec[e]
      BY ZenonT(60), <1>5, <2>2 DEF Admission, Admits, OthersKept
    <3>2. branch'[h] = branch[h]
      BY ZenonT(60), <1>3, <1>5, <2>2, <3>1, AdmissionHeads DEF h
    <3>3. task' = task \/ task' = RunningTask
      BY ZenonT(60), <1>5 DEF Admission
    <3> QED BY ZenonT(60), <1>2, <1>3, <1>4, <3>1, <3>2, <3>3, RunningTaskShown
  <2> QED BY SMTT(60), <2>1, <2>2
<1>6. ASSUME NEW x \in Executions, NEW s \in ExecState, NEW r \in WaitReason \cup {None},
             Movement(x, s, r)
      PROVE  task'.status = "RUNNING" /\ IsOpenHead(e)'
  <2>1. x # e
    <3>1. exec'[x].rev = exec[x].rev + 1 /\ exec[x].state # "ABSENT"
      BY ZenonT(60), <1>6 DEF Movement, MovesTo
    <3>2. exec[x].rev \in Nat /\ exec[x].rev >= 1
      BY SMTT(60), <3>1 DEF IInv, TypeOK, ExecType, ExecRow, Lineage, ExecLineage
    <3> QED BY SMTT(60), <1>1, <3>1, <3>2
  <2>2. exec'[e] = exec[e] /\ branch' = branch
    BY ZenonT(60), <1>6, <2>1 DEF Movement, MovesTo, OthersKept
  <2>3. task' = task \/ task' = Reconciled(task, exec', branch)
    BY ZenonT(60), <1>6 DEF Movement
  <2> QED BY ZenonT(60), <1>2, <1>3, <1>4, <2>2, <2>3, ReconciledShows
<1>7. ASSUME NEW x \in Executions, Activation(x)
      PROVE  task'.status = "RUNNING" /\ IsOpenHead(e)'
  <2>1. x # e
    <3>1. exec'[x].rev = 2
      BY ZenonT(60), <1>7 DEF Activation
    <3> QED BY SMTT(60), <1>1, <3>1
  <2> QED BY ZenonT(60), <1>3, <1>4, <1>7, <2>1 DEF Activation, OthersKept
<1>8. ASSUME NEW B, exec' = CancelledDormant(DormantHeads(B))
      PROVE  exec'[e] = exec[e] /\ h \notin B
  <2>1. e \notin DormantHeads(B)
    BY ZenonT(60), <1>1, <1>8, CancelsSettle
  <2>2. exec'[e] = exec[e]
    BY ZenonT(60), <1>8, <2>1, CancelsSettle
  <2> QED BY ZenonT(60), <1>3, <2>1, <2>2 DEF DormantHeads, h
<1>9. ~CancelTask
  BY ZenonT(60), <1>3, <1>8 DEF CancelTask
<1>10. ASSUME NEW b \in Branches, Discard(b)
       PROVE  task'.status = "RUNNING" /\ IsOpenHead(e)'
  <2>1. \A x \in Branches \ {b} : branch'[x] = branch[x]
    BY SMTT(60), <1>10 DEF Discard, IInv, TypeOK, BranchType
  <2>2. exec' = CancelledDormant(DormantHeads({b})) /\ task' = task
    BY ZenonT(60), <1>10 DEF Discard
  <2> QED BY ZenonT(60), <1>3, <1>4, <1>8, <2>1, <2>2
<1>11. ASSUME NEW b \in Branches, Adopt(b) PROVE FALSE
  <2>1. exec'[e] = exec[e] /\ h \notin OpenBranches \ {b}
    BY ZenonT(60), <1>8, <1>11, AdoptFacts
  <2>2. h = b
    BY ZenonT(60), <1>3, <2>1 DEF OpenBranches
  <2> QED BY ZenonT(60), <1>3, <1>11, <2>1, <2>2, AdoptFacts
<1>12. CASE TaskMove
  BY ZenonT(60), <1>2, <1>3, <1>4, <1>12, ReconciledShows DEF TaskMove
<1> QED BY ZenonT(60), <1>5, <1>6, <1>7, <1>9, <1>10, <1>11, <1>12 DEF StepShape

\* Nothing is admitted yet when the Task is created.
LEMMA InitHInv == Init => HInv
<1> SUFFICES ASSUME Init PROVE HInv
  BY SMTT(60)
<1>1. \A e \in Executions : exec[e] = NoExec
  BY SMTT(60) DEF Init
<1>2. \A b \in Branches : branch[b].state = "ABSENT"
  BY SMTT(60) DEF Init
<1>3. \A e \in Executions : exec[e].state = "ABSENT" /\ exec[e].kind = "ROOT"
  BY SMTT(60), <1>1 DEF NoExec
<1> QED BY ZenonT(60), <1>2, <1>3
        DEF HInv, UnsettledIsHead, SeveralBranches, DormantShown, AdoptionUnique, Dormant

\* Every action keeps the heads, the dormant admissions and the adoption.
LEMMA NextHInv == IInv /\ HInv /\ [Next]_vars => HInv'
BY ZenonT(60), EveryStepShaped, HeadStep, SeveralStep, DormantStep, AdoptionStep DEF HInv

\* The invariant of this module holds throughout, whatever the actors of a Task do.
THEOREM HeadsInductive == Spec => []HInv
BY Inductive, InitHInv, NextHInv, PTL DEF Spec

\* adopt_branch_result against retries, forks, aggregates, finishes and
\* discards: one branch is adopted, its completed head is the Task's output,
\* and no branch stays OPEN.
THEOREM AdoptionIsUnique == Spec => []AdoptionUnique
<1>1. HInv => AdoptionUnique
  BY SMTT(60) DEF HInv
<1> QED BY <1>1, HeadsInductive, PTL

\* retry, fork and aggregate replace a head only once it has settled: a branch
\* never has two unsettled executions of its own.
THEOREM OneUnsettledPerBranch == Spec => []UnsettledIsHead
<1>1. HInv => UnsettledIsHead
  BY DEF HInv
<1> QED BY <1>1, HeadsInductive, PTL

\* Whatever happens between the commit of a fork or aggregate plan and the call
\* that activates it, the activation's conditions still hold or the admission
\* has been settled.
THEOREM DormantStaysActivatable == Spec => []DormantActivatable
<1>1. ASSUME IInv, HInv PROVE DormantActivatable
  <2> SUFFICES ASSUME NEW e \in Executions, Dormant(e), exec[e].kind # "RETRY"
               PROVE  task.status = "RUNNING" /\ IsOpenHead(e) /\ budget.state = "OPEN"
    BY Zenon DEF DormantActivatable
  <2>1. task.status = "RUNNING" /\ IsOpenHead(e)
    BY ZenonT(60), <1>1 DEF HInv, DormantShown
  <2> QED BY SMTT(60), <1>1, <2>1 DEF IInv, TypeOK, BudgetType, TerminalIsClosed, TaskOpen, TaskTerminal
<1> QED BY <1>1, Inductive, HeadsInductive, PTL

----------------------------------------------------------------------------
(* The activity a Task shows *)

\* With resumes through claims only, every step that starts an OPEN head also
\* derives the Task row in the same transaction.
LEMMA ShownStep ==
    IInv /\ ~DirectResume /\ RunningHeadShown /\ StepShape => RunningHeadShown'
<1> SUFFICES ASSUME IInv, ~DirectResume, RunningHeadShown, StepShape, MultiBranch(branch'), TaskOpen',
                    NEW b \in Branches, branch'[b].state = "OPEN",
                    exec'[branch'[b].head].state = "RUNNING"
             PROVE  task'.status = "RUNNING"
  BY Zenon DEF RunningHeadShown, OpenBranches
<1>1. TaskType
  BY Zenon DEF IInv, TypeOK
<1>2. ASSUME TaskOpen, MultiBranch(branch), branch[b].state = "OPEN",
             exec[branch[b].head].state = "RUNNING"
      PROVE  task.status = "RUNNING"
  BY ZenonT(60), <1>2 DEF RunningHeadShown, OpenBranches
<1>3. ASSUME task' = Reconciled(task, exec', branch), branch' = branch
      PROVE  task'.status = "RUNNING"
  <2>1. TaskOpen
    BY ZenonT(60), <1>3, ReconciledKeeps DEF TaskOpen
  <2> QED BY ZenonT(60), <1>1, <1>3, <2>1, ReconciledShows
<1>4. ASSUME NEW x \in Executions, NEW c \in Branches, NEW k \in ExecKind, NEW d \in Nat,
             Admission(x, c, k, d)
      PROVE  task'.status = "RUNNING"
  <2>1. CASE k = "ROOT"
    <3>1. \A y \in Branches \ {c} : branch'[y].state = "ABSENT"
      BY ZenonT(60), <1>4, <2>1 DEF Admission
    <3> QED BY ZenonT(60), <3>1 DEF MultiBranch
  <2>2. CASE k = "CHILD"
    <3>1. /\ TaskOpen /\ branch' = branch /\ task' = task /\ exec[x].state = "ABSENT"
          /\ \A e \in Executions : e # x => exec'[e] = exec[e]
      BY ZenonT(60), <1>4, <2>2 DEF Admission, Admits, OthersKept
    <3>2. exec'[branch[b].head] = exec[branch[b].head]
      BY ZenonT(60), <3>1, HeadExists
    <3> QED BY ZenonT(60), <1>2, <3>1, <3>2
  <2>3. CASE task' = RunningTask
    BY ZenonT(60), <1>1, <2>3, RunningTaskShown
  <2> QED BY ZenonT(60), <1>4, <2>1, <2>2, <2>3 DEF Admission
<1>5. ASSUME NEW e \in Executions, NEW s \in ExecState, NEW r \in WaitReason \cup {None},
             Movement(e, s, r)
      PROVE  task'.status = "RUNNING"
  <2>1. CASE task' = Reconciled(task, exec', branch)
    BY ZenonT(60), <1>3, <1>5, <2>1 DEF Movement
  <2>2. CASE s # "RUNNING" /\ task' = task
    <3>1. branch' = branch /\ exec'[e].state = s /\ \A x \in Executions : x # e => exec'[x] = exec[x]
      BY ZenonT(60), <1>5 DEF Movement, MovesTo, OthersKept
    <3>2. exec[branch[b].head].state = "RUNNING"
      BY ZenonT(60), <2>2, <3>1, HeadExists
    <3> QED BY ZenonT(60), <1>2, <2>2, <3>1, <3>2 DEF TaskOpen
  <2> QED BY ZenonT(60), <1>5, <2>1, <2>2 DEF Movement, ExecTerminal
<1>6. ASSUME NEW e \in Executions, Activation(e) PROVE task'.status = "RUNNING"
  <2>1. branch' = branch /\ task' = task /\ \A x \in Executions : exec'[x].state = exec[x].state
    BY ZenonT(60), <1>6 DEF Activation, Dormant, OthersKept
  <2> QED BY ZenonT(60), <1>2, <2>1, HeadExists DEF TaskOpen
<1>7. ~CancelTask
  <2>1. [task EXCEPT !.status = "CANCELLED"].status = "CANCELLED"
    BY SMTT(60), <1>1 DEF TaskType
  <2> QED BY ZenonT(60), <2>1 DEF CancelTask, TaskOpen, TaskTerminal
<1>8. ASSUME NEW c \in Branches, Discard(c) PROVE task'.status = "RUNNING"
  <2>1. /\ branch[c].state = "OPEN" /\ branch'[c].state = "DISCARDED"
        /\ \A x \in Branches \ {c} : branch'[x] = branch[x]
    BY SMTT(60), <1>8 DEF Discard, DiscardEligible, OpenBranches, IInv, TypeOK, BranchType
  <2>2. exec' = CancelledDormant(DormantHeads({c})) /\ task' = task
    BY ZenonT(60), <1>8 DEF Discard
  <2>3. branch'[b] = branch[b]
    BY ZenonT(60), <2>1
  <2>4. exec[branch[b].head].state = "RUNNING"
    <3>1. PICK h \in Executions : h = branch[b].head
      BY ZenonT(60), <2>3, HeadExists
    <3>2. exec'[h].state = "RUNNING"
      BY ZenonT(60), <2>3, <3>1
    <3>3. h \notin DormantHeads({c})
      BY ZenonT(60), <2>2, <3>2, CancelsSettle DEF Unsettled
    <3>4. exec'[h] = exec[h]
      BY ZenonT(60), <2>2, <3>3, CancelsSettle
    <3> QED BY ZenonT(60), <3>1, <3>2, <3>4
  <2>5. MultiBranch(branch)
    BY ZenonT(60), <2>1 DEF MultiBranch
  <2> QED BY ZenonT(60), <1>2, <2>2, <2>3, <2>4, <2>5 DEF TaskOpen
<1>9. \A c \in Branches : ~Adopt(c)
  BY ZenonT(60), AdoptFacts
<1>10. CASE TaskMove
  BY ZenonT(60), <1>2, <1>3, <1>10 DEF TaskMove, TaskOpen
<1> QED BY ZenonT(60), <1>4, <1>5, <1>6, <1>7, <1>8, <1>9, <1>10 DEF StepShape

\* A multi-branch Task whose OPEN head runs is shown RUNNING, whichever of
\* consume, timeout, plan, discard or reconciliation came last, provided that
\* waiting executions resume through claims only (resume_waiting called without
\* one leaves the Task row to a later reconciliation).
THEOREM RunningHeadIsShown ==
    ASSUME ~DirectResume
    PROVE  Spec => []RunningHeadShown
<1>1. Init => RunningHeadShown
  <2> SUFFICES ASSUME Init PROVE OpenBranches = {}
    BY Zenon DEF RunningHeadShown
  <2> QED BY DEF Init, OpenBranches
<1>2. IInv /\ RunningHeadShown /\ [Next]_vars => RunningHeadShown'
  BY ZenonT(60), EveryStepShaped, ShownStep
<1> QED BY <1>1, <1>2, Inductive, PTL DEF Spec

=============================================================================
