--------------------------- MODULE TaskExecution ---------------------------
(***************************************************************************)
(* The durable life of one AgentTask: its TaskBudget, its branches, its    *)
(* executions and the ResumeClaims on them, as the transactions of         *)
(* TaskBudgetService and AgentExecutionStore change them, with the         *)
(* coordinator that starts and settles the Task and the runtimes that hold *)
(* an execution revision in memory.                                        *)
(*                                                                         *)
(* Every action is one unit of work of the code: it locks or CASes the     *)
(* rows it read by revision and commits them together.  A transaction that *)
(* loses its CAS is rolled back and changes nothing, so it is a stuttering *)
(* step here.  Clocks are abstracted: whatever a TTL or a lease expiry     *)
(* allows may happen at any time.                                          *)
(***************************************************************************)
EXTENDS Naturals, FiniteSets

CONSTANTS
    Executions,     \* execution ids the Task may ever use
    Branches,       \* TaskBranch ids
    Claims,         \* resume_request_ids
    None,           \* a null column
    MaxTotal,       \* limits.max_total_executions
    MaxActive,      \* limits.max_active_executions
    MaxParallel,    \* limits.max_parallel_agents
    MaxBranches,    \* limits.max_active_branches
    MaxDepth,       \* limits.max_delegation_depth
    MaxRevision,    \* bound of the model: no resume leads past this revision
    DirectResume    \* whether the claim-free resume path is driven

ASSUME SetsAssumption ==
    /\ IsFiniteSet(Executions) /\ IsFiniteSet(Branches)
    /\ None \notin Executions \cup Branches

ASSUME LimitsAssumption ==
    /\ MaxTotal \in Nat /\ MaxActive \in Nat /\ MaxParallel \in Nat
    /\ MaxBranches \in Nat \ {0} /\ MaxDepth \in Nat /\ MaxRevision \in Nat
    /\ DirectResume \in BOOLEAN

VARIABLES
    task,     \* AgentTask row: status, wait_reasons, the execution whose result completed it
    budget,   \* TaskBudget row
    branch,   \* TaskBranch rows
    exec,     \* AgentExecution rows
    claim,    \* ResumeClaim rows (PLANNED: a ResumePlan read, nothing written yet)
    coord,    \* the coordinator's execute_task call for this Task
    live,     \* <<execution, revision>> pairs some runtime believes it owns
    due       \* executions whose runtime has finished but not yet reconciled the Task

vars == <<task, budget, branch, exec, claim, coord, live, due>>

----------------------------------------------------------------------------
TaskTerminal == {"COMPLETED", "FAILED", "CANCELLED"}

TaskStatus == {"ASSIGNED", "RUNNING", "WAITING"} \cup TaskTerminal

ExecTerminal == {"COMPLETED", "FAILED", "CANCELLED", "TIMEOUT"}

ExecState == {"ABSENT", "RUNNING", "WAITING"} \cup ExecTerminal

\* AGENT stands for every wait reason that no resume claim serves.
WaitReason == {"CONNECTION", "RECOVERY", "AGENT"}

\* How an execute_task call ends.
CallOutcome == {"WAITING", "COMPLETED", "FAILED", "CANCELLED"}

\* ... when an exception or a cancellation ends it.
Raised == {"FAILED", "CANCELLED"}

ASSUME NoneAssumption == None \notin WaitReason \cup CallOutcome

\* Executions admitted by a control-plane plan: inserted RUNNING at revision 1
\* and run only after a separate activation CAS.
PlannedKind == {"FORK", "RETRY", "AGGREGATE"}

ExecKind == {"ROOT", "CHILD"} \cup PlannedKind

BranchState == {"ABSENT", "OPEN", "ADOPTED", "SUPERSEDED", "DISCARDED"}

ClaimState == {"FREE", "PLANNED", "CREATED", "CONSUMED", "REJECTED", "EXPIRED"}

NoExec == [state |-> "ABSENT", reason |-> None, rev |-> 0, branch |-> None,
           kind |-> "ROOT", depth |-> 0, leased |-> FALSE]

Admitted(b, k, d) ==
    [state |-> "RUNNING", reason |-> None, rev |-> 1, branch |-> b,
     kind |-> k, depth |-> d, leased |-> FALSE]

\* execute_task before it is called, after it returned, or lost in a crash.
NoCall(pc) == [pc |-> pc, exec |-> None, outcome |-> None, reason |-> None]

Delegated(e) == exec[e].depth > 0

Running == {e \in Executions : exec[e].state = "RUNNING"}

RunningDelegated == {e \in Running : Delegated(e)}

Existing == {e \in Executions : exec[e].state # "ABSENT"}

OpenBranches == {b \in Branches : branch[b].state = "OPEN"}

TaskOpen == task.status \notin TaskTerminal

IsOpenHead(e) ==
    /\ exec[e].branch \in OpenBranches
    /\ branch[exec[e].branch].head = e

\* An admission no runtime has been bound to yet.
Dormant(e) ==
    exec[e].state = "RUNNING" /\ exec[e].rev = 1 /\ exec[e].kind \in PlannedKind

----------------------------------------------------------------------------
(* Task activity *)

\* More than one branch row, whatever its resolution.
MultiBranch(br) ==
    \E b, c \in Branches : b # c /\ br[b].state # "ABSENT" /\ br[c].state # "ABSENT"

OpenHeads(br) == {br[b].head : b \in {x \in Branches : br[x].state = "OPEN"}}

\* reconcile_multibranch_task_activity_in_uow applied to the rows of the
\* surrounding transaction: only a nonterminal multi-branch Task is derived.
Reconciled(tk, ex, br) ==
    LET heads   == OpenHeads(br)
        reasons == {ex[h].reason : h \in {x \in heads : ex[x].state = "WAITING"}}
    IN  IF tk.status \in TaskTerminal \/ ~MultiBranch(br) THEN tk
        ELSE IF \E h \in heads : ex[h].state = "RUNNING"
             THEN [tk EXCEPT !.status = "RUNNING", !.reasons = {}]
        ELSE IF reasons # {}
             THEN [tk EXCEPT !.status = "WAITING", !.reasons = reasons]
        ELSE tk

----------------------------------------------------------------------------
(* Capacity *)

\* Mutant: off by one at both limits.
HasActiveSlotOffByOne(d) ==
    /\ budget.state = "OPEN"
    /\ budget.active <= MaxActive
    /\ d > 0 => budget.parallel <= MaxParallel

\* Mutant: a CLOSED budget still hands out slots.
HasActiveSlotClosed(d) ==
    /\ budget.active < MaxActive
    /\ d > 0 => budget.parallel < MaxParallel

HasActiveSlot(d) ==
    /\ budget.state = "OPEN"
    /\ budget.active < MaxActive
    /\ d > 0 => budget.parallel < MaxParallel

Weight(d) == IF d > 0 THEN 1 ELSE 0

Acquired(bud, d) ==
    [bud EXCEPT !.active = @ + 1, !.parallel = @ + Weight(d)]

Charged(bud, d) == [Acquired(bud, d) EXCEPT !.used = @ + 1]

Released(bud, d) ==
    [bud EXCEPT !.active = @ - 1, !.parallel = @ - Weight(d)]

\* Mutant: a cancelled admission keeps its slot.
ReleasedNone(bud, D) == bud

ReleasedAll(bud, D) ==
    [bud EXCEPT !.active = @ - Cardinality(D),
                !.parallel = @ - Cardinality({e \in D : Delegated(e)})]

\* The executions of D, all dormant, cancelled before activation.
CancelledDormant(D) ==
    [e \in Executions |->
        IF e \in D THEN [exec[e] EXCEPT !.state = "CANCELLED", !.rev = 2]
        ELSE exec[e]]

\* Mutant: claims survive the end of their Task.
RejectedNone == claim

\* Mutant: the claims of the Task are rejected in whatever state they are.
RejectedAll ==
    [c \in Claims |-> IF claim[c].state \in {"FREE", "PLANNED"} THEN claim[c]
                      ELSE [claim[c] EXCEPT !.state = "REJECTED"]]

RejectedCreated ==
    [c \in Claims |-> IF claim[c].state = "CREATED"
                      THEN [claim[c] EXCEPT !.state = "REJECTED"] ELSE claim[c]]

----------------------------------------------------------------------------
Init ==
    /\ task = [status |-> "ASSIGNED", reasons |-> {}, output |-> None]
    /\ budget = [state |-> "OPEN", used |-> 0, active |-> 0, parallel |-> 0, branches |-> 0]
    /\ branch = [b \in Branches |-> [state |-> "ABSENT", head |-> None]]
    /\ exec = [e \in Executions |-> NoExec]
    /\ claim = [c \in Claims |-> [state |-> "FREE", exec |-> None, rev |-> 0]]
    /\ coord = NoCall("idle")
    /\ live = {}
    /\ due = {}

----------------------------------------------------------------------------
(* The coordinator: execute_task *)

\* transition_task(ASSIGNED -> RUNNING); a terminal winner stops the call.
CoordStart ==
    /\ coord.pc = "idle"
    /\ IF TaskOpen
       THEN /\ task' = [task EXCEPT !.status = "RUNNING", !.reasons = {}]
            /\ coord' = [coord EXCEPT !.pc = "admit"]
       ELSE /\ coord' = NoCall("done")
            /\ UNCHANGED task
    /\ UNCHANGED <<budget, branch, exec, claim, live, due>>

RootEligible ==
    /\ task.status = "RUNNING"
    /\ \A b \in Branches : branch[b].state = "ABSENT"
    /\ Existing = {}
    /\ budget.branches < MaxBranches
    /\ budget.used < MaxTotal
    /\ HasActiveSlot(0)

\* start_root_task_scoped_execution: the first branch and its execution.
AdmitRoot(e, b) ==
    /\ coord.pc = "admit"
    /\ RootEligible
    /\ exec' = [exec EXCEPT ![e] = Admitted(b, "ROOT", 0)]
    /\ branch' = [branch EXCEPT ![b] = [state |-> "OPEN", head |-> e]]
    /\ budget' = [Charged(budget, 0) EXCEPT !.branches = @ + 1]
    /\ live' = live \cup {<<e, 1>>}
    /\ coord' = [coord EXCEPT !.pc = "run", !.exec = e]
    /\ UNCHANGED <<task, claim, due>>

\* The executor raised before an execution row existed (admission refused,
\* conflicts exhausted, the runner cancelled).
AdmitFail(outcome) ==
    /\ coord.pc = "admit"
    /\ coord' = [coord EXCEPT !.pc = "settle", !.outcome = outcome]
    /\ UNCHANGED <<task, budget, branch, exec, claim, live, due>>

\* What execute_task concludes from the state its executor ended in.  An
\* execution cancelled by the wait_for timeout is reported as FAILED.
Outcome(s) ==
    CASE s = "CANCELLED" -> {"CANCELLED", "FAILED"}
      [] s = "TIMEOUT"   -> {"FAILED"}
      [] OTHER           -> {s}

Observe(e, pc, outcome, r) ==
    coord' = IF coord.pc = "run" /\ coord.exec = e
             THEN [coord EXCEPT !.pc = pc, !.outcome = outcome, !.reason = r]
             ELSE coord

\* transition_task(RUNNING -> WAITING): a multi-branch Task is reconciled
\* from its heads, a single-branch one takes the coordinator's view.
SettledWaiting ==
    IF MultiBranch(branch) THEN Reconciled(task, exec, branch)
    ELSE IF task.status = "RUNNING"
         THEN [task EXCEPT !.status = "WAITING", !.reasons = {coord.reason}]
    ELSE task

\* terminalize_task applies its target only to a RUNNING single-branch Task.
Terminalizes == task.status = "RUNNING" /\ ~MultiBranch(branch)

\* The tail of execute_task; a terminal Task is left as it is.
CoordSettle ==
    /\ coord.pc = "settle"
    /\ coord' = NoCall("done")
    /\ IF coord.outcome = "WAITING" \/ ~Terminalizes
       THEN /\ task' = IF ~TaskOpen THEN task
                       ELSE IF coord.outcome = "WAITING" THEN SettledWaiting
                       ELSE Reconciled(task, exec, branch)
            /\ UNCHANGED <<budget, claim>>
       ELSE /\ task' = [task EXCEPT !.status = coord.outcome,
                            !.reasons = {},
                            !.output = IF coord.outcome = "COMPLETED"
                                       THEN coord.exec ELSE None]
            /\ budget' = [budget EXCEPT !.state = "CLOSED"]
            /\ claim' = RejectedCreated
    /\ UNCHANGED <<branch, exec, live, due>>

\* Its conflict retries exhausted, or the Task not in a state it accepts, the
\* settling transaction raises and the Task stays as it is.
CoordRaises ==
    /\ coord.pc = "settle"
    /\ coord' = NoCall("done")
    /\ UNCHANGED <<task, budget, branch, exec, claim, live, due>>

----------------------------------------------------------------------------
(* Runtimes *)

DelegationEligible(p) ==
    /\ exec[p].branch \in OpenBranches
    /\ exec[p].depth + 1 <= MaxDepth
    /\ budget.used < MaxTotal
    /\ HasActiveSlot(exec[p].depth + 1)

\* start_task_scoped_execution with a parent: a runtime that holds p, even a
\* superseded one, starts a child on p's branch.  The head does not move.
Delegate(p, e) ==
    /\ \E h \in live : h[1] = p
    /\ exec[e].state = "ABSENT"
    /\ DelegationEligible(p)
    /\ exec' = [exec EXCEPT ![e] = Admitted(exec[p].branch, "CHILD", exec[p].depth + 1)]
    /\ budget' = Charged(budget, exec[p].depth + 1)
    /\ live' = live \cup {<<e, 1>>}
    /\ UNCHANGED <<task, branch, claim, coord, due>>

Owns(e) == exec[e].state = "RUNNING" /\ <<e, exec[e].rev>> \in live

\* Mutant: the state changes under the same revision.
MovedInPlace(e, s, r) == [exec EXCEPT ![e].state = s, ![e].reason = r]

\* Mutant: the wait reason is written but never cleared.
MovedKeepingReason(e, s, r) ==
    [exec EXCEPT ![e].state = s, ![e].reason = IF r = None THEN @ ELSE r, ![e].rev = @ + 1]

Moved(e, s, r) ==
    [exec EXCEPT ![e].state = s, ![e].reason = r, ![e].rev = @ + 1]

\* finish_task_scoped_execution by the revision's owner.  It releases the
\* active slot whether or not the budget is still OPEN.
Finish(e, s, r, outcome) ==
    /\ Owns(e) /\ ~exec[e].leased
    /\ exec' = Moved(e, s, r)
    /\ budget' = Released(budget, exec[e].depth)
    /\ live' = live \ {<<e, exec[e].rev>>}
    /\ due' = due \cup {e}
    /\ Observe(e, "reconcile", outcome, r)
    /\ UNCHANGED <<task, branch, claim>>

FinishWaiting(e, r) == Finish(e, "WAITING", r, "WAITING")

FinishTerminal(e, s) == \E o \in Outcome(s) : Finish(e, s, None, o)

\* A finish whose conflict retries are exhausted, or whose revision is no
\* longer current, raises: nothing is written and the holder is gone.
FinishRaises(h, outcome) ==
    /\ h \in live
    /\ live' = live \ {h}
    /\ Observe(h[1], "settle", outcome, None)
    /\ UNCHANGED <<task, budget, branch, exec, claim, due>>

\* The coordinator's runtime owes the reconciliation before it returns.
Returning(e) == coord.pc = "reconcile" /\ coord.exec = e

\* The separate transaction that follows every unfenced finish.
Reconcile(e) ==
    /\ e \in due
    /\ due' = due \ {e}
    /\ task' = Reconciled(task, exec, branch)
    /\ coord' = IF Returning(e) THEN [coord EXCEPT !.pc = "settle"] ELSE coord
    /\ UNCHANGED <<budget, branch, exec, claim, live>>

\* It raises (retries exhausted, runner cancelled) after the finish has
\* committed: the coordinator sees the exception instead of the result.
ReconcileRaises(e, outcome) ==
    /\ e \in due
    /\ due' = due \ {e}
    /\ coord' = IF Returning(e)
                THEN [coord EXCEPT !.pc = "settle", !.outcome = outcome, !.reason = None]
                ELSE coord
    /\ UNCHANGED <<task, budget, branch, exec, claim, live>>

\* execute_recovered_next_iteration ends under its lease fence, COMPLETED only,
\* and reconciles nothing.
FinishRecovered(e) ==
    /\ Owns(e) /\ exec[e].leased
    /\ exec' = Moved(e, "COMPLETED", None)
    /\ budget' = Released(budget, exec[e].depth)
    /\ live' = live \ {<<e, exec[e].rev>>}
    /\ UNCHANGED <<task, branch, claim, coord, due>>

----------------------------------------------------------------------------
(* Resume without a claim: claim_resume + _begin_durable_execution *)

ResumeEligible(e) ==
    /\ exec[e].state = "WAITING"
    /\ exec[e].rev + 2 <= MaxRevision
    /\ HasActiveSlot(exec[e].depth)

\* Mutant: a resume that takes no slot.
ResumeUncharged(e) ==
    /\ DirectResume
    /\ ResumeEligible(e)
    /\ exec' = Moved(e, "RUNNING", None)
    /\ live' = live \cup {<<e, exec[e].rev + 1>>}
    /\ UNCHANGED <<task, budget, branch, claim, coord, due>>

\* resume_task_scoped_execution looks at neither the Task nor the branch.
ResumeDirect(e) ==
    /\ DirectResume
    /\ ResumeEligible(e)
    /\ exec' = Moved(e, "RUNNING", None)
    /\ budget' = Acquired(budget, exec[e].depth)
    /\ live' = live \cup {<<e, exec[e].rev + 1>>}
    /\ UNCHANGED <<task, branch, claim, coord, due>>

\* expire_task_scoped_waiting_execution: the wait TTL found elapsed on resume.
ExpireWaiting(e) ==
    /\ DirectResume
    /\ exec[e].state = "WAITING"
    /\ exec' = Moved(e, "TIMEOUT", None)
    /\ task' = Reconciled(task, exec', branch)
    /\ UNCHANGED <<budget, branch, claim, coord, live, due>>

----------------------------------------------------------------------------
(* Resume claims *)

\* A resume request reads a WAITING execution and freezes a plan from it.
PlanResume(c, e) ==
    /\ claim[c].state = "FREE"
    /\ exec[e].state = "WAITING"
    /\ exec[e].reason \in {"CONNECTION", "RECOVERY"}
    /\ claim' = [claim EXCEPT ![c] = [state |-> "PLANNED", exec |-> e, rev |-> exec[e].rev]]
    /\ UNCHANGED <<task, budget, branch, exec, coord, live, due>>

\* get_or_create_resume_claim checks the Task and the branch, not that the
\* execution is still where the plan saw it.
CreateClaim(c) ==
    /\ claim[c].state = "PLANNED"
    /\ TaskOpen
    /\ IsOpenHead(claim[c].exec)
    /\ claim' = [claim EXCEPT ![c].state = "CREATED"]
    /\ UNCHANGED <<task, budget, branch, exec, coord, live, due>>

\* consume_resume_claim past claim_expires_at.
ExpireClaim(c) ==
    /\ claim[c].state = "CREATED"
    /\ claim' = [claim EXCEPT ![c].state = "EXPIRED"]
    /\ UNCHANGED <<task, budget, branch, exec, coord, live, due>>

\* Consumption that finds the plan stale in any respect, modelled here or
\* not (checkpoint, client, invocation snapshots).
RejectClaim(c) ==
    /\ claim[c].state = "CREATED"
    /\ claim' = [claim EXCEPT ![c].state = "REJECTED"]
    /\ UNCHANGED <<task, budget, branch, exec, coord, live, due>>

\* Mutant: the frozen revision is not compared.
ClaimCurrentAnyRevision(c, r) ==
    LET e == claim[c].exec
    IN  /\ claim[c].state = "CREATED"
        /\ exec[e].state = "WAITING"
        /\ exec[e].reason = r
        /\ TaskOpen
        /\ budget.state = "OPEN"
        /\ IsOpenHead(e)

\* Everything consumption revalidates under the Task, budget and branch locks.
ClaimCurrent(c, r) ==
    LET e == claim[c].exec
    IN  /\ claim[c].state = "CREATED"
        /\ exec[e].state = "WAITING"
        /\ exec[e].rev = claim[c].rev
        /\ exec[e].reason = r
        /\ TaskOpen
        /\ budget.state = "OPEN"
        /\ IsOpenHead(e)

\* Mutant: the timeout releases a slot the waiting execution does not hold.
ConsumeWaitExpiredReleasing(c) ==
    /\ ClaimCurrent(c, "CONNECTION")
    /\ exec' = Moved(claim[c].exec, "TIMEOUT", None)
    /\ budget' = Released(budget, exec[claim[c].exec].depth)
    /\ claim' = [claim EXCEPT ![c].state = "REJECTED"]
    /\ task' = Reconciled(task, exec', branch)
    /\ UNCHANGED <<branch, coord, live, due>>

\* The execution's own wait TTL has elapsed.
ConsumeWaitExpired(c) ==
    /\ ClaimCurrent(c, "CONNECTION")
    /\ exec' = Moved(claim[c].exec, "TIMEOUT", None)
    /\ claim' = [claim EXCEPT ![c].state = "REJECTED"]
    /\ task' = Reconciled(task, exec', branch)
    /\ UNCHANGED <<budget, branch, coord, live, due>>

\* Mutant: consumption does not derive the Task's activity.
ConsumeClaimSilently(c) ==
    LET e == claim[c].exec
    IN  /\ ClaimCurrent(c, "CONNECTION")
        /\ ResumeEligible(e)
        /\ exec' = Moved(e, "RUNNING", None)
        /\ budget' = Acquired(budget, exec[e].depth)
        /\ claim' = [claim EXCEPT ![c].state = "CONSUMED"]
        /\ live' = live \cup {<<e, exec[e].rev + 1>>}
        /\ UNCHANGED <<task, branch, coord, due>>

\* consume_resume_claim: capacity, execution, Task activity and claim together.
ConsumeClaim(c) ==
    LET e == claim[c].exec
    IN  /\ ClaimCurrent(c, "CONNECTION")
        /\ ResumeEligible(e)
        /\ exec' = Moved(e, "RUNNING", None)
        /\ budget' = Acquired(budget, exec[e].depth)
        /\ claim' = [claim EXCEPT ![c].state = "CONSUMED"]
        /\ task' = Reconciled(task, exec', branch)
        /\ live' = live \cup {<<e, exec[e].rev + 1>>}
        /\ UNCHANGED <<branch, coord, due>>

\* recover_claimed_resume: the handoff after consumption failed.
RecoverClaimedResume(c) ==
    LET e == claim[c].exec
    IN  /\ claim[c].state = "CONSUMED"
        /\ exec[e].rev = claim[c].rev + 1
        /\ Finish(e, "WAITING", "RECOVERY", "WAITING")

----------------------------------------------------------------------------
(* Leases: recovery activation and evacuation of expired owners *)

\* consume_recovery_claim also takes the execution lease.
ConsumeRecoveryClaim(c) ==
    LET e == claim[c].exec
    IN  /\ ClaimCurrent(c, "RECOVERY")
        /\ ResumeEligible(e)
        /\ exec' = [Moved(e, "RUNNING", None) EXCEPT ![e].leased = TRUE]
        /\ budget' = Acquired(budget, exec[e].depth)
        /\ claim' = [claim EXCEPT ![c].state = "CONSUMED"]
        /\ task' = Reconciled(task, exec', branch)
        /\ live' = live \cup {<<e, exec[e].rev + 1>>}
        /\ UNCHANGED <<branch, coord, due>>

\* Mutant: the lease is taken away without a new revision.
EvacuateInPlace(e, s, r) ==
    /\ exec[e].state = "RUNNING" /\ exec[e].leased
    /\ exec' = [exec EXCEPT ![e].state = s, ![e].reason = r, ![e].leased = FALSE]
    /\ budget' = Released(budget, exec[e].depth)
    /\ UNCHANGED <<task, branch, claim, coord, live, due>>

\* The sweep takes an expired lease away.  The old owner may still run; it
\* keeps its pair in live.  Neither Task nor branch is looked at.
Evacuate(e, s, r) ==
    /\ exec[e].state = "RUNNING" /\ exec[e].leased
    /\ exec' = [Moved(e, s, r) EXCEPT ![e].leased = FALSE]
    /\ budget' = Released(budget, exec[e].depth)
    /\ UNCHANGED <<task, branch, claim, coord, live, due>>

RecoverExpired(e) == Evacuate(e, "WAITING", "RECOVERY")

FailExpired(e) == Evacuate(e, "FAILED", None)

----------------------------------------------------------------------------
(* Control plane: fork, retry, aggregate *)

\* A plan is consumed only if every revision it froze is still current, so
\* planning and consumption read the same state.
PlanEligible(d) ==
    /\ task.status \in {"RUNNING", "WAITING"}
    /\ budget.used < MaxTotal
    /\ HasActiveSlot(d)

RunningTask == [task EXCEPT !.status = "RUNNING", !.reasons = {}]

ForkEligible(src) ==
    /\ PlanEligible(exec[src].depth)
    /\ IsOpenHead(src)
    /\ exec[src].state = "WAITING"
    /\ exec[src].depth <= MaxDepth
    /\ budget.branches < MaxBranches

\* consume_fork_plan: a new OPEN branch whose head waits to be activated.
Fork(src, e, b) ==
    /\ ForkEligible(src)
    /\ exec[e].state = "ABSENT" /\ branch[b].state = "ABSENT"
    /\ exec' = [exec EXCEPT ![e] = Admitted(b, "FORK", exec[src].depth)]
    /\ branch' = [branch EXCEPT ![b] = [state |-> "OPEN", head |-> e]]
    /\ budget' = [Charged(budget, exec[src].depth) EXCEPT !.branches = @ + 1]
    /\ task' = RunningTask
    /\ UNCHANGED <<claim, coord, live, due>>

\* Mutant: a WAITING head may be retried as well.
RetryEligibleWaiting(src) ==
    /\ PlanEligible(exec[src].depth)
    /\ IsOpenHead(src)
    /\ exec[src].state \in {"FAILED", "TIMEOUT", "WAITING"}

RetryEligible(src) ==
    /\ PlanEligible(exec[src].depth)
    /\ IsOpenHead(src)
    /\ exec[src].state \in {"FAILED", "TIMEOUT"}

\* consume_retry_plan: the failed head is replaced by a dormant execution.
Retry(src, e) ==
    /\ RetryEligible(src)
    /\ exec[e].state = "ABSENT"
    /\ exec' = [exec EXCEPT ![e] = Admitted(exec[src].branch, "RETRY", exec[src].depth)]
    /\ branch' = [branch EXCEPT ![exec[src].branch].head = e]
    /\ budget' = Charged(budget, exec[src].depth)
    /\ task' = RunningTask
    /\ UNCHANGED <<claim, coord, live, due>>

CompletedHead(b) == b \in OpenBranches /\ exec[branch[b].head].state = "COMPLETED"

AggregateEligible(b) ==
    /\ TaskOpen
    /\ CompletedHead(b)
    /\ \E c \in Branches \ {b} : CompletedHead(c)
    /\ budget.used < MaxTotal
    /\ HasActiveSlot(exec[branch[b].head].depth)

\* aggregate_branches: the target branch gets a dormant head over the results
\* of at least two completed branches.
Aggregate(b, e) ==
    LET d == exec[branch[b].head].depth
    IN  /\ AggregateEligible(b)
        /\ exec[e].state = "ABSENT"
        /\ exec' = [exec EXCEPT ![e] = Admitted(b, "AGGREGATE", d)]
        /\ branch' = [branch EXCEPT ![b].head = e]
        /\ budget' = Charged(budget, d)
        /\ task' = RunningTask
        /\ UNCHANGED <<claim, coord, live, due>>

\* The single CAS RUNNING@1 -> RUNNING@2 that binds a runtime.
Activate(e, kind) ==
    /\ Dormant(e) /\ exec[e].kind = kind
    /\ TaskOpen
    /\ budget.state = "OPEN"
    /\ IsOpenHead(e)
    /\ exec' = [exec EXCEPT ![e].rev = 2]
    /\ live' = live \cup {<<e, 2>>}
    /\ UNCHANGED <<task, budget, branch, claim, coord, due>>

ActivateFork(e) == task.status = "RUNNING" /\ Activate(e, "FORK")

ActivateRetry(e) == Activate(e, "RETRY")

ActivateAggregate(e) == task.status = "RUNNING" /\ Activate(e, "AGGREGATE")

----------------------------------------------------------------------------
(* Resolution: cancel, discard, adopt *)

\* Mutant: resolutions overlook admissions that were never activated.
DormantHeadsIgnored(B) == {}

DormantHeads(B) ==
    {e \in Executions : Dormant(e) /\ exec[e].branch \in B
                        /\ branch[exec[e].branch].head = e}

\* Mutant: cancel overrides any terminal winner.
CancelTaskAlways ==
    LET D == DormantHeads(Branches)
    IN  /\ exec' = CancelledDormant(D)
        /\ budget' = [ReleasedAll(budget, D) EXCEPT !.state = "CLOSED"]
        /\ task' = [task EXCEPT !.status = "CANCELLED"]
        /\ claim' = RejectedCreated
        /\ UNCHANGED <<branch, coord, live, due>>

\* cancel_task.  On a Task already CANCELLED it only settles admissions; any
\* other terminal winner is returned unchanged.
CancelTask ==
    LET D == DormantHeads(Branches)
    IN  /\ task.status \notin {"COMPLETED", "FAILED"}
        /\ exec' = CancelledDormant(D)
        /\ budget' = [ReleasedAll(budget, D) EXCEPT !.state = "CLOSED"]
        /\ task' = [task EXCEPT !.status = "CANCELLED"]
        /\ claim' = IF TaskOpen THEN RejectedCreated ELSE claim
        /\ UNCHANGED <<branch, coord, live, due>>

DiscardEligible(b) ==
    /\ TaskOpen
    /\ budget.state = "OPEN"
    /\ b \in OpenBranches
    /\ Cardinality(OpenBranches) > 1
    /\ budget.branches = Cardinality(OpenBranches)
    /\ exec[branch[b].head].state \in ExecTerminal \/ Dormant(branch[b].head)

\* Mutant: the branch is resolved but still counted.
DiscardUncounted(b) ==
    LET D == DormantHeads({b})
    IN  /\ DiscardEligible(b)
        /\ exec' = CancelledDormant(D)
        /\ branch' = [branch EXCEPT ![b].state = "DISCARDED"]
        /\ budget' = ReleasedAll(budget, D)
        /\ UNCHANGED <<task, claim, coord, live, due>>

\* discard_branch leaves the Task row alone.
Discard(b) ==
    LET D == DormantHeads({b})
    IN  /\ DiscardEligible(b)
        /\ exec' = CancelledDormant(D)
        /\ branch' = [branch EXCEPT ![b].state = "DISCARDED"]
        /\ budget' = [ReleasedAll(budget, D) EXCEPT !.branches = @ - 1]
        /\ UNCHANGED <<task, claim, coord, live, due>>

AdoptEligible(b) ==
    /\ TaskOpen
    /\ budget.state = "OPEN"
    /\ budget.branches = Cardinality(OpenBranches)
    /\ CompletedHead(b)

\* Mutant: the losing branches are not superseded.
AdoptOnly(b) ==
    LET D == DormantHeads(OpenBranches \ {b})
    IN  /\ AdoptEligible(b)
        /\ exec' = CancelledDormant(D)
        /\ branch' = [branch EXCEPT ![b].state = "ADOPTED"]
        /\ budget' = [ReleasedAll(budget, D) EXCEPT !.state = "CLOSED", !.branches = 0]
        /\ task' = [status |-> "COMPLETED", reasons |-> {}, output |-> branch[b].head]
        /\ claim' = RejectedCreated
        /\ UNCHANGED <<coord, live, due>>

\* adopt_branch: the head's result becomes the Task's, every other OPEN branch
\* is superseded and its dormant admission settled; running losers are left.
Adopt(b) ==
    LET D == DormantHeads(OpenBranches \ {b})
    IN  /\ AdoptEligible(b)
        /\ exec' = CancelledDormant(D)
        /\ branch' = [x \in Branches |->
                        IF x = b THEN [branch[x] EXCEPT !.state = "ADOPTED"]
                        ELSE IF x \in OpenBranches
                             THEN [branch[x] EXCEPT !.state = "SUPERSEDED"]
                        ELSE branch[x]]
        /\ budget' = [ReleasedAll(budget, D) EXCEPT !.state = "CLOSED", !.branches = 0]
        /\ task' = [status |-> "COMPLETED", reasons |-> {}, output |-> branch[b].head]
        /\ claim' = RejectedCreated
        /\ UNCHANGED <<coord, live, due>>

\* The process dies: every in-memory holder is lost, the rows stay.
Crash ==
    /\ coord.pc # "dead" \/ live # {} \/ due # {}
    /\ coord' = NoCall("dead")
    /\ live' = {}
    /\ due' = {}
    /\ UNCHANGED <<task, budget, branch, exec, claim>>

----------------------------------------------------------------------------
Coordinator ==
    \/ CoordStart
    \/ \E e \in Executions, b \in Branches : AdmitRoot(e, b)
    \/ \E o \in Raised : AdmitFail(o)
    \/ CoordSettle
    \/ CoordRaises

Runtime ==
    \/ \E h \in live, o \in Raised : FinishRaises(h, o)
    \/ \E e \in Executions :
        \/ \E p \in Executions : Delegate(p, e)
        \/ \E r \in {"CONNECTION", "AGENT"} : FinishWaiting(e, r)
        \/ \E s \in ExecTerminal : FinishTerminal(e, s)
        \/ Reconcile(e)
        \/ \E o \in Raised : ReconcileRaises(e, o)
        \/ FinishRecovered(e)
        \/ ResumeDirect(e)
        \/ ExpireWaiting(e)

Resume ==
    \E c \in Claims :
        \/ \E e \in Executions : PlanResume(c, e)
        \/ CreateClaim(c)
        \/ ExpireClaim(c)
        \/ RejectClaim(c)
        \/ ConsumeWaitExpired(c)
        \/ ConsumeClaim(c)
        \/ RecoverClaimedResume(c)
        \/ ConsumeRecoveryClaim(c)

Sweep == \E e \in Executions : RecoverExpired(e) \/ FailExpired(e)

ControlPlane ==
    \E e \in Executions :
        \/ \E src \in Executions : \E b \in Branches : Fork(src, e, b)
        \/ \E src \in Executions : Retry(src, e)
        \/ \E b \in Branches : Aggregate(b, e)
        \/ ActivateFork(e)
        \/ ActivateRetry(e)
        \/ ActivateAggregate(e)

Resolution ==
    \/ CancelTask
    \/ \E b \in Branches : Discard(b) \/ Adopt(b)

Next == Coordinator \/ Runtime \/ Resume \/ Sweep \/ ControlPlane \/ Resolution \/ Crash

Spec == Init /\ [][Next]_vars

----------------------------------------------------------------------------
(* Properties *)

TaskType ==
    task \in [status : TaskStatus, reasons : SUBSET WaitReason,
              output : Executions \cup {None}]

BudgetType ==
    budget \in [state : {"OPEN", "CLOSED"}, used : Nat, active : Nat,
                parallel : Nat, branches : Nat]

BranchType ==
    branch \in [Branches -> [state : BranchState, head : Executions \cup {None}]]

ExecRow ==
    [state : ExecState, reason : WaitReason \cup {None}, rev : Nat,
     branch : Branches \cup {None}, kind : ExecKind, depth : Nat, leased : BOOLEAN]

ExecType == exec \in [Executions -> ExecRow]

ClaimType ==
    claim \in [Claims -> [state : ClaimState, exec : Executions \cup {None}, rev : Nat]]

CoordType ==
    coord \in [pc : {"idle", "admit", "run", "reconcile", "settle", "done", "dead"},
               exec : Executions \cup {None},
               outcome : CallOutcome \cup {None},
               reason : WaitReason \cup {None}]

HolderType == live \in SUBSET (Executions \X Nat) /\ due \in SUBSET Executions

\* Every row has the shape its table gives it; counters never go below zero.
TypeOK ==
    TaskType /\ BudgetType /\ BranchType /\ ExecType /\ ClaimType /\ CoordType /\ HolderType

\* active_executions and active_parallel_agents are exactly the executions that
\* are RUNNING, through every finish, resume, recovery, retry and cancellation:
\* a slot is never leaked and never released twice.
ActiveCapacityExact ==
    /\ budget.active = Cardinality(Running)
    /\ budget.parallel = Cardinality(RunningDelegated)

\* used_executions counts every execution ever inserted, active_branches the
\* OPEN branches, whichever transaction opened or resolved them.
AdmissionAccountingExact ==
    /\ budget.used = Cardinality(Existing)
    /\ budget.branches = Cardinality(OpenBranches)

\* No interleaving of admissions, resumes and activations exceeds a limit.
WithinLimits ==
    /\ budget.used <= MaxTotal
    /\ Cardinality(Running) <= MaxActive
    /\ Cardinality(RunningDelegated) <= MaxParallel
    /\ Cardinality(OpenBranches) <= MaxBranches

\* The budget is CLOSED exactly when the Task is terminal, and from then on no
\* claim is left CREATED for a resume to consume.
TerminalIsClosed ==
    /\ budget.state = "CLOSED" <=> ~TaskOpen
    /\ ~TaskOpen => \A c \in Claims : claim[c].state # "CREATED"

\* At most one branch is adopted; then the Task is COMPLETED with that branch's
\* result and every other branch is resolved.
AdoptionUnique ==
    \A b \in Branches : branch[b].state = "ADOPTED" =>
        /\ task.status = "COMPLETED" /\ task.output = branch[b].head
        /\ exec[branch[b].head].state = "COMPLETED"
        /\ OpenBranches = {}
        /\ \A c \in Branches : branch[c].state = "ADOPTED" => c = b

\* An execution that may still make progress as a branch's own (not a delegated
\* child) is that branch's head: no retry, fork, aggregate or adoption leaves a
\* second running execution behind on a branch.
UnsettledIsHead ==
    \A e \in Executions :
        exec[e].state \in {"RUNNING", "WAITING"} /\ exec[e].kind # "CHILD"
            => branch[exec[e].branch].head = e

\* A dormant fork or aggregate can always still be activated or settled: its
\* Task is RUNNING (the only status activation accepts) and its branch OPEN.
DormantActivatable ==
    \A e \in Executions :
        Dormant(e) /\ exec[e].kind # "RETRY" =>
            task.status = "RUNNING" /\ IsOpenHead(e) /\ budget.state = "OPEN"

\* No two claims are consumed for the same revision of an execution, and a
\* consumed claim's revision is in the past.
ConsumedOnce ==
    \A c, d \in Claims :
        claim[c].state = "CONSUMED" =>
            /\ exec[claim[c].exec].rev > claim[c].rev
            /\ claim[d].state = "CONSUMED" /\ claim[d].exec = claim[c].exec
                    /\ claim[d].rev = claim[c].rev => c = d

\* At most one runtime may still write an execution: a holder of an older
\* revision is fenced, and a dormant execution has no holder.
SingleWriter ==
    \A h \in live :
        /\ h[2] <= exec[h[1]].rev
        /\ h[2] = exec[h[1]].rev => exec[h[1]].state = "RUNNING" /\ ~Dormant(h[1])

\* A multi-branch Task shows RUNNING whenever an OPEN branch's head runs.
RunningHeadShown ==
    MultiBranch(branch) /\ TaskOpen /\ (\E b \in OpenBranches : exec[branch[b].head].state = "RUNNING")
        => task.status = "RUNNING"

\* What is settled stays settled: a terminal Task keeps status and output, a
\* terminal execution and a resolved branch never change, claims only advance,
\* revisions never go back.
SettledForever ==
    [][/\ ~TaskOpen => task' = task
       /\ \A e \in Executions : /\ exec[e].state \in ExecTerminal => exec'[e] = exec[e]
                                /\ exec'[e].rev >= exec[e].rev
       /\ \A b \in Branches : branch[b].state \notin {"ABSENT", "OPEN"} => branch'[b] = branch[b]
       /\ \A c \in Claims : claim[c].state \in {"CONSUMED", "REJECTED", "EXPIRED"}
                                => claim'[c] = claim[c]]_vars

ExecLineage ==
    \A e \in Executions :
        /\ exec[e].state = "ABSENT" => exec[e] = NoExec
        /\ exec[e].state # "ABSENT" => /\ exec[e].branch \in Branches
                                       /\ branch[exec[e].branch].state # "ABSENT"
                                       /\ exec[e].rev >= 1
        /\ exec[e].state = "WAITING" <=> exec[e].reason # None

BranchLineage ==
    \A b \in Branches :
        /\ branch[b].state = "ABSENT" <=> branch[b].head = None
        /\ branch[b].state # "ABSENT" => /\ exec[branch[b].head].branch = b
                                         /\ exec[branch[b].head].state # "ABSENT"

ClaimLineage ==
    \A c \in Claims : claim[c].state # "FREE" =>
        /\ claim[c].exec \in Existing
        /\ claim[c].rev <= exec[claim[c].exec].rev

CoordLineage ==
    coord.pc \in {"reconcile", "settle"} =>
        /\ coord.outcome # None
        /\ coord.outcome = "WAITING" => coord.reason # None

\* The rows refer to each other consistently: an execution lives on an existing
\* branch, a branch's head on that branch, a claim on an execution revision that
\* has existed; a wait reason is present exactly while waiting; the coordinator
\* settles only with an outcome its execution produced.
Lineage == ExecLineage /\ BranchLineage /\ ClaimLineage /\ CoordLineage

\* No Task ends while the head of one of its branches is an admitted RUNNING@1
\* execution that no runtime owns: nothing could activate or settle it again.
NoStrandedAdmission ==
    ~TaskOpen => \A e \in Executions : ~Dormant(e)

\* A multi-branch Task shows the activity derived from its OPEN heads whenever
\* no runtime owes a reconciliation and none has crashed.
CanonicalActivity ==
    due = {} /\ coord.pc # "dead" => Reconciled(task, exec, branch) = task

----------------------------------------------------------------------------
(* Refinement *)

Phase(e) ==
    CASE exec[e].state = "ABSENT"  -> "new"
      [] exec[e].state = "RUNNING" -> "running"
      [] exec[e].state = "WAITING" -> "waiting"
      [] OTHER                     -> "done"

Capacity == INSTANCE TaskCapacity
              WITH phase <- [e \in Executions |-> Phase(e)], open <- TaskOpen

\* Counters, locks, plans, claims and leases together implement the counter-free
\* capacity contract of TaskCapacity.
ImplementsCapacity == Capacity!CapacitySpec

=============================================================================
