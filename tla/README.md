# Verification of the assistant's execution core

TLA+ models of the part of the assistant that keeps work alive: Tasks with their
budgets, branches and executions in the database, the supervisor that owns the
running executions of a server process, and the leases and sweeps that recover an
execution whose process has died. TLC checks them on small instances; TLAPS proves
the main invariants for every value of the constants. Paths below are relative to
`src/se/src` unless they start with `src/`.

## 1. Inventory

### What the system consists of

| Part | Sources | State | Operations that change it |
|---|---|---|---|
| Task budget, branches, settlement | `runtimes/agent/task_budget.py` | rows AgentTask, TaskBudget, TaskBranch, admissions | start_root, finish, wait, resume, recover, fork, retry, aggregate, discard, adopt, cancel, terminalize, reconcile, usage accounting |
| Execution store, resume claims | `runtimes/agent/persistence.py`, `infrastructure/storage/repositories/agent.py` | rows AgentExecution, ResumeClaim, checkpoints, lease columns | CAS by revision, claim create/rebind/consume/reject/expire, lease acquire/renew/release, takeovers |
| Agent coordinator | `runtimes/agent/coordinator.py` | the call that executes a Task | execute_task, cancel_task |
| Agent runtime | `runtimes/agent/runtime.py` | the revision a loop holds in memory | begin, wait, finish, cancel, execute recovered iteration |
| Execution supervisor | `runtimes/agent/supervisor.py` | handles, reservations, child and task indexes | reserve, release, start, run, cancel, cancel_task, quiesce, shutdown |
| Recovery control plane | `runtimes/agent/recovery_control_plane.py`, `stale_lease_scanner.py` | scan cursor, observations | periodic sweep, evacuate, terminalize |
| Recovery, resume, fork and retry planning | `recovery_planning.py`, `resume_planning.py`, `fork_planning.py`, `retry_planning.py`, `safe_point_reconstruction.py`, `recovery_execution.py` | plans with fingerprints | build, revalidate, consume |
| Checkpoints and their collection | `waiting_checkpoint.py`, `checkpoint_transcript_writer.py`, `gc_dry_run.py`, `gc_executor.py` | transcript chunks and representations | write, deduplicate, collect |
| Resume endpoint | `transport/gateway/api/v1/events_router.py` | a resume request on a websocket | reserve, claim, consume, start, acknowledge, replay |
| Capability invocations | `runtimes/capability/{runtime,invocation,reconciliation}.py` | invocation ledger and attempts | begin, start, finish, reconcile |
| User budget and quotas | `application/user_*.py` | reservations per user | reserve, settle, release |
| Providers | `provider/executor.py`, `circuit_breaker.py` | breaker state, retry attempt | call, retry, fall back, probe |
| Connections | `runtimes/connection/*.py` | registry, sessions, sequence numbers | register, supersede, heartbeat, evict |
| Memory promotion, publications, assets | `context/memory_promotion.py`, `infrastructure/storage/repositories/*.py`, `application/assets/*.py` | reservations, receipts | reserve, issue, verify, recover |
| Event bus | `infrastructure/event_bus/bus.py` | priority queue, processed ids | publish, dispatch, shut down |
| Client | `src/cl/src/core/*.py` | invocation ledger, resume tickets, session | dispatch, execute, reconnect, resume |
| Gateway, authentication, provider adapters, tools, UI | the rest | none that outlives a request, or the operating system's | I/O and conversion |

`PROJECT.json` lists every part with what is modelled of it.

### How the parts interact

A request reaches the coordinator, which starts the Task's root execution through
the supervisor; the runtime moves the execution's row by compare-and-set (CAS) on
its revision, and every move changes the TaskBudget in the same transaction. An
execution that must wait becomes WAITING with a checkpoint, and the Task with it. A
client that reconnects sends a resume request: the endpoint reserves the execution
in the supervisor, writes a ResumeClaim, consumes it (WAITING to RUNNING) and starts
the runner. A user may fork a WAITING execution onto a new branch, retry a failed
one, aggregate two finished branches, and discard or adopt branches; the first three
insert an execution RUNNING at revision 1 that a second transaction
activates. When a process dies, leased executions are found by another process's
sweep, parked as WAITING(RECOVERY) or failed, and activated again under a new lease.

### What makes it hard

* Everything that may write an execution (runtime, endpoint, sweep, control plane,
  cancellation) is concurrent, in several processes, and fenced only by revisions,
  generations and expiry.
* Plans and observations are read in one transaction and used in a later one.
* Admission and activation are separate transactions; cancellation, discard, adopt
  and settlement fall between them.
* A Task's shown activity is derived after the fact, in a transaction of its own.
* Runners are asyncio tasks: a cancellation may arrive before the first step, during
  cleanup, or at a caller that itself drains other runners.
* Scans are bounded in rows, pages and time and resume from a process-local cursor.

### What correct means

1. The budget counts exactly what runs and what was admitted, and no limit is ever
   exceeded.
2. An execution has one writer; whoever was superseded cannot commit.
3. A WAITING revision is resumed once, and a settled Task, execution, branch or claim
   never changes again.
4. Nothing is left running that nobody owns or can settle.
5. In a process an execution has one runner, cancellation finds it, and shutdown
   returns and leaves nothing behind.
6. A running lease is never taken; an expired one is eventually evacuated.

## 2. Modules

| Module | Models |
|---|---|
| `TaskExecution` | one Task: its rows, the coordinator's call, the runtimes, resume claims, sweeps, control plane, resolution, crash |
| `TaskCapacity` | the abstract promise of a TaskBudget, with no counters; `TaskExecution` implements it |
| `TaskExecutionSteps`, `TaskExecutionProofs` | the inductive invariant of `TaskExecution`, what its steps have in common and half of the actions; the other half and the theorems |
| `TaskSettlementProofs`, `TaskBranchProofs`, `TaskCapacityProofs` | the shapes of a step and settlement; branch heads, adoption and shown activity; the refinement to `TaskCapacity` |
| `Supervisor`, `SupervisorProofs` | the supervisor of one process, the requests that use it, its runners |
| `LeaseRecovery`, `LeaseRecoveryProofs` | leases, their holders, and the sweeping processes |
| `MCTaskExecution`, `MCSupervisor`, `MCLeaseRecovery` | symmetry and constants for TLC |

### TaskExecution

`task`, `budget`, `branch`, `exec` and `claim` are the rows; `coord` is where the
coordinator's `execute_task` stands; `live` holds the (execution, revision) pairs some
runtime believes it owns; `due` the executions whose runtime has committed its result
but not yet reconciled the Task. Each action is one committed unit of work. A
transaction that loses a CAS rolls back and is retried or raises, so it is a stuttering
step. The actions are grouped as the code is: Coordinator (`coordinator.py`), Runtime
(`runtime.py` and the budget's transitions), Resume (claims), Sweep (takeover of
expired leases), ControlPlane (fork, retry, aggregate and their activations), Resolution
(cancel, discard, adopt) and Crash, which drops every in-memory holder. Time is
abstract: whatever a TTL or an expiry permits may happen at any moment.

Wait reasons are CONNECTION, RECOVERY and one value for all that no claim serves. Payloads,
tokens, costs, fingerprints and checkpoints are left out. A claim is PLANNED when its
ResumePlan has been read and nothing is written yet, so that planning and creating
are separate steps.

### Supervisor

One variable per map of `AgentExecutionSupervisor` (`handles`, `reserved`, `children`,
`taskIndex`, `closing`), and for each request its program counter, runner and drain
set. The class never awaits inside its lock, so a locked section is one action; an
`await` between two sections separates actions. `caller` is the runner that awaits a
child's `run()` (`agent_driver.py`). A runner may be cancelled before its first step
(`RunnerNeverStarts`): asyncio then never enters `_run_owned` and its `finally`. A
caller that drains waits for all of its runners even if it is cancelled again: `_drain`
awaits `gather(return_exceptions=True)`, which passes the cancellation on to runners that
have been cancelled already and resumes its caller only when the last has ended.

### LeaseRecovery

`row` has state, revision and lease columns; `held` the activations (owner, generation,
expiry) owner instances work under; each sweeping process has a `cursor` and a
`sweep`: the cutoff and start of its scan, the position `after` the last row returned,
whether a short page has `exhausted` the pass, the observations `found`, and those of them
still `todo`. A page of the scan is one action, so rows move between pages. An evacuation is
one action because the takeover repeats, in its own WHERE clause, the comparison made
when the row was loaded. Which rows are malformed, undecidable or lost is a constant.
`Quiesce` only stops future sweeps: it is a process that does not start another.

There is one clock, `now`. In the code every process reads its own UTC time and passes it
into its transactions: a holder computes its expiry and checks its fence with it, a sweep
takes its cutoff from it. The model, and with it every result about leases, assumes that
all processes read the same time. Nothing is shown about skewed clocks.

## 3. Runs

| Run | Checks | Instance |
|---|---|---|
| `resume` | TypeOK, TerminalIsClosed, ConsumedOnce, SingleWriter, RunningHeadShown, UnsettledIsHead, SettledForever | 2 executions, 2 branches, 2 claims, delegation, revisions to 6 |
| `branches` | AdmissionAccountingExact, AdoptionUnique, UnsettledIsHead, DormantActivatable, SettledForever | 4 executions, 3 branches, no claims (so no resume) |
| `capacity` | ActiveCapacityExact, WithinLimits, ImplementsCapacity | 3 executions, 2 branches, 1 claim, limits 2 active and 1 delegated |
| `direct` | ActiveCapacityExact, SingleWriter, Lineage | 2 executions with the claim-free resume path |
| `supervisor` | TypeOK, OneRunner, IndexesExact, NoAbandonedRunner, DownIsQuiet, CancelTaskReaches | parent, child and unrelated execution, 3 requests |
| `supervisor_drain` | ShutdownCompletes | parent and child, 2 requests, fairness |
| `lease_races` | TypeOK, FencingTokensUnique, NewestCompletes, NoLiveTakeover | 1 execution, 2 owners, 2 sweeping processes |
| `lease_scan` | ScanMissesNothing | 3 executions, one of them with a lost safe point, pages of one row, at most 3 rows and 4 pages per scan |
| `lease_sweep` | ExpiredLeasesEnd | 3 executions, one malformed, one undecidable, one row per sweep, fairness |
| `stranded_retry` | NoStrandedAdmission, violated | 2 executions, 1 branch |
| `activity` | CanonicalActivity, violated | 2 executions, 2 branches |
| `supervisor_forgets` | RunnerForgotten, violated | parent and child, 2 requests |

### What the violated ones show

* **`stranded_retry`.** The root fails; before the coordinator settles the Task a retry
  of it is admitted (the Task is still RUNNING); `terminalize_task` then marks the Task
  FAILED and closes the budget without looking at the branch. The retry stays RUNNING at
  revision 1, holds a slot, and activation refuses it. `adopt_branch` guards against the
  same thing in words ("must never strand an admission-backed RUNNING@1").
* **`activity`.** `discard_branch` does not derive the Task's activity. With a WAITING
  branch and a dormant fork, discarding the fork leaves the Task RUNNING although the
  derivation in the R9 design says WAITING.
* **`supervisor_forgets`.** The comment in `shutdown` says every cancelled runner removes
  its handle in `_run_owned`'s `finally`. One cancelled before its first step does not;
  `reserve` accepts the execution again and `start_reserved` refuses it.

### Bounds

`MaxRevision`, `MaxGeneration` and `Horizon` bound counters the code leaves unbounded;
they are guards of the actions that would pass them. They are large enough for an
execution to wait, be recovered, wait again and be resumed, and for a lease to be taken,
lost, taken by another and lost again. The instances have the least number of
branches, claims, requests and processes for which every action happens. In `lease_scan`
three rows expire in any order, so a scan takes up to three pages, rows leave and enter
the order between any two of them, and it ends on a short page, on the row limit or on a
timeout; `MaxGeneration` is 1 there, so a row that was evacuated does not come back. A terminal Task
really stops, so its runs do not check for deadlock. The others do.

### Fairness

* `Supervisor`: a request that has reserved goes on (it releases, starts or is
  refused), an `await` whose condition holds returns, a runner that was cancelled ends, and
  `shutdown` returns when its drain is empty. The event loop guarantees the scheduling;
  that a cancelled runner ends is an assumption on the agents' code. Runners that were
  not cancelled may run forever.
* `LeaseRecovery`: one process keeps sweeping and from some point on does not restart
  (weak fairness); a page that is read again and again is sometimes read in time, and a
  takeover that is possible again and again sometimes succeeds (strong fairness). A
  database that always times out would make any sweep useless.

## 4. Proofs

Each development defines an inductive invariant `IInv`, shows that `Init` establishes it
and, with a lemma per action or group of alike actions, that every step preserves it.

* **TaskExecutionProofs** (on `TaskExecutionSteps`). Counters are compared with
  cardinalities of sets of rows, so the actions are first reduced to what they do to rows
  pointwise (a row moves, a row is admitted, some are cancelled) and the counting is done
  once for each such move. `IInv` is TypeOK, Lineage, the two accounting invariants, the
  bounds, TerminalIsClosed, SingleWriter and ConsumedOnce together: the counting needs
  Lineage to know that an admitted row was absent, and ConsumedOnce needs revisions that
  only grow. Assumed: the sets are finite, the limits natural numbers.
* **TaskSettlementProofs**, **TaskBranchProofs**, **TaskCapacityProofs.** Every step has one
  of seven shapes (`StepShape`), and each result looks at the shapes only. UnsettledIsHead, AdoptionUnique and DormantActivatable
  are proved together, from an invariant that relates heads, branches and the Task;
  RunningHeadShown is proved for Tasks whose waiting executions resume through claims
  only, as the run checks it. The refinement maps an execution to the phase its row is
  in; the steps of TaskCapacity then follow from the shapes and from CapacityExact.
* **SupervisorProofs.** OneRunner needs the owners of handles and reservations, the
  stages of requests, and, for a request that is draining, that it waits for its own
  runner; DownIsQuiet needs what `shutdown` waits for.
* **LeaseRecoveryProofs.** FencingTokensUnique needs that no token is ahead of its row;
  NoLiveTakeover that cutoffs are past; ScanMissesNothing that scan order is a strict
  total order with a last element in every nonempty page (by well-foundedness of strict
  inclusion), that a page is an initial part of the candidates, and that a page shorter
  than asked for holds all of them (the first one left out would have had fewer before it
  than the limit).

Theorems: type correctness of all three; CapacityExact, AccountingExact, LimitsRespected,
TerminalClosed, StaleHoldersFenced, ClaimsConsumedOnce, LineageHolds; SettlementFinal,
AdoptionIsUnique, OneUnsettledPerBranch, DormantStaysActivatable, RunningHeadIsShown,
CapacityRefined; DuplicateExclusion, IndexesHold, RunsReturnEnded, ShutdownIsQuiet,
CancellationReaches; TokensNeverReissued, NewestOnly, TakeoverOnlyExpired, ScanComplete.

Only model-checked: the liveness properties (ShutdownCompletes, ExpiredLeasesEnd), which
are out of the prover's reach.

## 5. Plan

Done: TaskExecution with TaskCapacity, Supervisor, LeaseRecovery.

1. **Budget transactions**: read, CAS, unknown commit outcome and replay by reservation
   rows; usage of tokens, cost and tool calls against the limits.
2. **Resume handoff**: rebinding a claim to a new connection, the handoff record,
   acknowledgement, the client's resume ticket and replay; composed with Supervisor.
3. **Capability invocations**: server ledger, client ledger and reconciliation over a
   connection that loses and repeats messages.
4. **User budget and quotas**: reservations across Tasks, settlement, release, expiry.
5. **Connections**: registry, supersession, heartbeat eviction, sequenced delivery.
6. **Provider execution**: retries, fallbacks and the circuit breaker.
7. **Checkpoints and collection**: what may be deleted while a claim reads it.
8. **Memory promotion, publications, assets, event bus, workflow.**
9. **Proofs** of the invariants of the new modules.

## 6. Not modelled

Wire formats, prompts, provider adapters, authentication, configuration, storage drivers and
migrations, local tools, the sandbox and the user interface: conversion and I/O with no
state of their own that outlives a request. The parts of the plan above are not modelled yet.
