---------------------------- MODULE LeaseRecovery ----------------------------
(***************************************************************************)
(* Execution leases and the sweep that evacuates expired ones.             *)
(*                                                                         *)
(* An owner instance activates a recovered execution under a lease and     *)
(* keeps the activation (owner, generation, expiry) in memory as its fence.*)
(* Every server process runs a control plane that periodically scans the   *)
(* expired leases page by page, continuing where its last bounded scan     *)
(* stopped, and evacuates what it observed with a compare-and-set on the   *)
(* whole observation.  Each action is one database transaction, except     *)
(* those that only move a process's own state.                             *)
(***************************************************************************)
EXTENDS Integers, FiniteSets

CONSTANTS
    Executions,   \* execution ids, ordered as the scan orders them
    Owners,       \* owner_instance_ids
    Sweepers,     \* processes running the control plane
    None,
    LeaseTime,    \* length of a lease
    Horizon,      \* bound of the model: the clock stops here
    MaxGeneration, \* bound of the model: no lease is taken beyond it
    PageSize, MaxPages, MaxRows,   \* StaleLeaseScanPolicy
    Malformed,    \* rows no observation can be built from
    Unready,      \* executions whose safe point cannot be decided yet
    Corrupt       \* executions whose safe point is provably lost

ASSUME SetsAssumption ==
    /\ Executions \subseteq Nat /\ IsFiniteSet(Executions)
    /\ None \notin Owners \cup Nat

ASSUME NumbersAssumption ==
    /\ LeaseTime \in Nat \ {0} /\ Horizon \in Nat /\ MaxGeneration \in Nat
    /\ PageSize \in Nat \ {0} /\ MaxPages \in Nat \ {0} /\ MaxRows \in Nat \ {0}

VARIABLES
    row,      \* AgentExecution rows: state, revision and the lease columns
    now,      \* one clock, the same for every process
    held,     \* activations some owner instance still works under
    cursor,   \* per process: where the next scan continues
    sweep     \* per process: the sweep in progress

vars == <<row, now, held, cursor, sweep>>

----------------------------------------------------------------------------
Leased(e) == row[e].state = "RUNNING" /\ row[e].owner # None

Expired(e, cutoff) == Leased(e) /\ row[e].expiry <= cutoff

\* What a scan records of a row, and a takeover must find unchanged.
Receipt(e) ==
    [exec |-> e, rev |-> row[e].rev, owner |-> row[e].owner,
     gen |-> row[e].gen, expiry |-> row[e].expiry]

\* Scan order: by expiry, then by id.
Precedes(t, e, u, f) == t < u \/ (t = u /\ e < f)

\* e lies strictly after cursor position c.
Beyond(e, c) == c # None => Precedes(c[1], c[2], row[e].expiry, e)

\* Mutant: the fence is only the owner's name.
FenceHoldsByOwner(h) ==
    /\ Leased(h.exec)
    /\ row[h.exec].owner = h.owner

\* has_active_execution_lease_fence with the activation's own expiry.
FenceHolds(h) ==
    /\ Leased(h.exec)
    /\ row[h.exec].owner = h.owner
    /\ row[h.exec].gen = h.gen
    /\ row[h.exec].expiry = h.expiry
    /\ now < h.expiry

NoSweep == [pc |-> "idle", cutoff |-> 0, start |-> None, after |-> None,
            pages |-> 0, rows |-> 0, exhausted |-> FALSE, found |-> {}, todo |-> {}]

Init ==
    /\ row = [e \in Executions |->
                [state |-> "WAITING", rev |-> 1, owner |-> None, gen |-> 0, expiry |-> None]]
    /\ now = 0
    /\ held = {}
    /\ cursor = [s \in Sweepers |-> None]
    /\ sweep = [s \in Sweepers |-> NoSweep]

----------------------------------------------------------------------------
(* Lease holders *)

\* consume_recovery_claim: WAITING(RECOVERY) -> RUNNING and the lease with it.
Activate(e, o) ==
    /\ row[e].state = "WAITING" /\ row[e].gen < MaxGeneration
    /\ row' = [row EXCEPT ![e] = [state |-> "RUNNING", rev |-> @.rev + 1, owner |-> o,
                                  gen |-> @.gen + 1, expiry |-> now + LeaseTime]]
    /\ held' = held \cup {[exec |-> e, owner |-> o, gen |-> row[e].gen + 1,
                           expiry |-> now + LeaseTime]}
    /\ UNCHANGED <<now, cursor, sweep>>

\* renew_execution_lease by the exact unexpired owner.  The activation keeps the
\* expiry it was given.
Renew(h) ==
    /\ Leased(h.exec)
    /\ row[h.exec].owner = h.owner /\ row[h.exec].gen = h.gen
    /\ now < row[h.exec].expiry
    /\ row[h.exec].expiry < now + LeaseTime
    /\ row' = [row EXCEPT ![h.exec].expiry = now + LeaseTime]
    /\ UNCHANGED <<now, held, cursor, sweep>>

\* Mutant: only the owner column is cleared.
ReleaseOwnerOnly(h) ==
    /\ Leased(h.exec)
    /\ row[h.exec].owner = h.owner /\ row[h.exec].gen = h.gen
    /\ row' = [row EXCEPT ![h.exec].owner = None]
    /\ held' = held \ {h}
    /\ UNCHANGED <<now, cursor, sweep>>

\* release_execution_lease: the row stays RUNNING, unowned, at its generation.
Release(h) ==
    /\ Leased(h.exec)
    /\ row[h.exec].owner = h.owner /\ row[h.exec].gen = h.gen
    /\ row' = [row EXCEPT ![h.exec].owner = None, ![h.exec].expiry = None]
    /\ held' = held \ {h}
    /\ UNCHANGED <<now, cursor, sweep>>

\* acquire_execution_lease on a RUNNING row nobody owns.
Acquire(e, o) ==
    /\ row[e].state = "RUNNING" /\ row[e].owner = None /\ row[e].gen < MaxGeneration
    /\ row' = [row EXCEPT ![e].owner = o, ![e].gen = @ + 1, ![e].expiry = now + LeaseTime]
    /\ held' = held \cup {[exec |-> e, owner |-> o, gen |-> row[e].gen + 1,
                           expiry |-> now + LeaseTime]}
    /\ UNCHANGED <<now, cursor, sweep>>

\* The recovered iteration completes under its fence; the lease columns stay.
FinishFenced(h) ==
    /\ FenceHolds(h)
    /\ row' = [row EXCEPT ![h.exec].state = "COMPLETED", ![h.exec].rev = @ + 1]
    /\ held' = held \ {h}
    /\ UNCHANGED <<now, cursor, sweep>>

\* The holder finds its fence lost, or its process dies.
LoseHold(h) ==
    /\ held' = held \ {h}
    /\ UNCHANGED <<row, now, cursor, sweep>>

Tick ==
    /\ now < Horizon
    /\ now' = now + 1
    /\ UNCHANGED <<row, held, cursor, sweep>>

----------------------------------------------------------------------------
(* The scan: StaleLeaseScanCoordinator *)

SweepStarts(s) ==
    /\ sweep[s].pc = "idle"
    /\ sweep' = [sweep EXCEPT ![s] =
                    [pc |-> "scan", cutoff |-> now, start |-> cursor[s], after |-> cursor[s],
                     pages |-> 0, rows |-> 0, exhausted |-> FALSE, found |-> {},
                     todo |-> {}]]
    /\ UNCHANGED <<row, now, held, cursor>>

\* list_expired_execution_leases: the n first expired rows beyond the cursor.
Candidates(s) ==
    {e \in Executions : Expired(e, sweep[s].cutoff) /\ Beyond(e, sweep[s].after)}

\* Mutant: a page skips as many rows as were returned before it (OFFSET) instead
\* of those up to the last one returned.
PageByOffset(s, n) ==
    LET All == {e \in Executions : Expired(e, sweep[s].cutoff) /\ Beyond(e, sweep[s].start)}
    IN  {e \in All :
            Cardinality({f \in All : Precedes(row[f].expiry, f, row[e].expiry, e)})
                \in sweep[s].rows .. sweep[s].rows + n - 1}

Page(s, n) ==
    {e \in Candidates(s) :
        Cardinality({f \in Candidates(s) :
                        Precedes(row[f].expiry, f, row[e].expiry, e)}) < n}

RequestLimit(s) ==
    IF PageSize < MaxRows - sweep[s].rows THEN PageSize ELSE MaxRows - sweep[s].rows

\* Mutant: the position moves only to rows that could be observed.
LastObserved(P, after) ==
    IF P \subseteq Malformed THEN after
    ELSE LET e == CHOOSE x \in P \ Malformed :
                    \A y \in P \ (Malformed \cup {x}) :
                        Precedes(row[y].expiry, y, row[x].expiry, x)
         IN  <<row[e].expiry, e>>

\* The position of the last row of a page, malformed or not.
LastOf(P, after) ==
    IF P = {} THEN after
    ELSE LET e == CHOOSE x \in P :
                    \A y \in P \ {x} : Precedes(row[y].expiry, y, row[x].expiry, x)
         IN  <<row[e].expiry, e>>

\* One page: every raw row advances the position, every well-formed one is
\* observed.  A short page exhausts the pass, which wraps the cursor; a limit
\* stops it where it is.
ScanPage(s) ==
    LET n     == RequestLimit(s)
        P     == Page(s, n)
        after == LastOf(P, sweep[s].after)
        rows  == sweep[s].rows + Cardinality(P)
        pages == sweep[s].pages + 1
        short == Cardinality(P) < n
        stop  == short \/ rows >= MaxRows \/ pages >= MaxPages
    IN  /\ sweep[s].pc = "scan"
        /\ sweep' = [sweep EXCEPT ![s] =
                        [pc |-> IF stop THEN "evacuate" ELSE "scan",
                         cutoff |-> @.cutoff, start |-> @.start, after |-> after,
                         pages |-> pages, rows |-> rows, exhausted |-> short,
                         found |-> @.found \cup {Receipt(e) : e \in P \ Malformed},
                         todo |-> @.todo \cup {Receipt(e) : e \in P \ Malformed}]]
        /\ cursor' = IF short THEN [cursor EXCEPT ![s] = None]
                     ELSE IF stop THEN [cursor EXCEPT ![s] = after]
                     ELSE cursor
        /\ UNCHANGED <<row, now, held>>

\* MAX_DURATION: a page that comes too late is not looked at.
ScanTimesOut(s) ==
    /\ sweep[s].pc = "scan"
    /\ sweep' = [sweep EXCEPT ![s].pc = "evacuate"]
    /\ cursor' = [cursor EXCEPT ![s] = sweep[s].after]
    /\ UNCHANGED <<row, now, held>>

\* The scan raises: its observations are lost and the cursor does not move.
ScanRaises(s) ==
    /\ sweep[s].pc = "scan"
    /\ sweep' = [sweep EXCEPT ![s] = NoSweep]
    /\ UNCHANGED <<row, now, held, cursor>>

----------------------------------------------------------------------------
(* The evacuation: H1ARecoveryControlPlane *)

\* The observations are handled in scan order.
NextObservation(s) ==
    CHOOSE r \in sweep[s].todo :
        \A x \in sweep[s].todo \ {r} : Precedes(r.expiry, r.exec, x.expiry, x.exec)

Handled(s) == [sweep EXCEPT ![s].todo = @ \ {NextObservation(s)}]

\* Mutant: any RUNNING row of the observed owner matches.
MatchesOwnerOnly(s, r) ==
    /\ row[r.exec].state = "RUNNING"
    /\ row[r.exec].owner = r.owner

\* _matches_receipt, repeated by the WHERE clause of the takeover itself.
Matches(s, r) ==
    /\ row[r.exec].state = "RUNNING"
    /\ row[r.exec].rev = r.rev /\ row[r.exec].owner = r.owner /\ row[r.exec].gen = r.gen
    /\ row[r.exec].expiry = r.expiry
    /\ r.expiry # None /\ r.expiry <= sweep[s].cutoff

\* Mutant: clearing the lease columns clears the generation too.
TakenOverAndReset(r, state) ==
    [row EXCEPT ![r.exec] = [state |-> state, rev |-> r.rev + 1, owner |-> None,
                             gen |-> 0, expiry |-> None]]

\* The takeover: next revision, next generation, no owner.
TakenOver(r, state) ==
    [row EXCEPT ![r.exec] = [state |-> state, rev |-> r.rev + 1, owner |-> None,
                             gen |-> r.gen + 1, expiry |-> None]]

\* recover_task_scoped_execution / commit_recovery_waiting_checkpoint, or for a
\* safe point that is provably lost the terminal takeover.
Evacuate(s) ==
    LET r == NextObservation(s)
    IN  /\ sweep[s].pc = "evacuate" /\ sweep[s].todo # {}
        /\ Matches(s, r) /\ r.exec \notin Unready
        /\ row' = TakenOver(r, IF r.exec \in Corrupt THEN "FAILED" ELSE "WAITING")
        /\ sweep' = Handled(s)
        /\ UNCHANGED <<now, held, cursor>>

\* NOOP: the row is no longer what was observed.
Noop(s) ==
    /\ sweep[s].pc = "evacuate" /\ sweep[s].todo # {}
    /\ ~Matches(s, NextObservation(s))
    /\ sweep' = Handled(s)
    /\ UNCHANGED <<row, now, held, cursor>>

\* DEFERRED: not decidable yet, or the transaction raised.
Defer(s) ==
    /\ sweep[s].pc = "evacuate" /\ sweep[s].todo # {}
    /\ Matches(s, NextObservation(s))
    /\ sweep' = Handled(s)
    /\ UNCHANGED <<row, now, held, cursor>>

SweepEnds(s) ==
    /\ sweep[s].pc = "evacuate" /\ sweep[s].todo = {}
    /\ sweep' = [sweep EXCEPT ![s] = NoSweep]
    /\ UNCHANGED <<row, now, held, cursor>>

\* The process restarts: the cursor is process-local.
Restart(s) ==
    /\ sweep' = [sweep EXCEPT ![s] = NoSweep]
    /\ cursor' = [cursor EXCEPT ![s] = None]
    /\ UNCHANGED <<row, now, held>>

----------------------------------------------------------------------------
Holder ==
    \/ \E e \in Executions, o \in Owners : Activate(e, o) \/ Acquire(e, o)
    \/ \E h \in held : Renew(h) \/ Release(h) \/ FinishFenced(h) \/ LoseHold(h)

Sweeper(s) ==
    \/ SweepStarts(s) \/ ScanPage(s) \/ ScanTimesOut(s) \/ ScanRaises(s)
    \/ Evacuate(s) \/ Noop(s) \/ Defer(s) \/ SweepEnds(s)
    \/ Restart(s)

Next == Tick \/ Holder \/ \E s \in Sweepers : Sweeper(s)

Spec == Init /\ [][Next]_vars

\* The periodic worker keeps sweeping (weak fairness), a page read that is
\* attempted again and again succeeds in time and a takeover that is possible
\* again and again is not deferred by errors forever (strong fairness), and no
\* process restarts forever before its sweep is through: from some point on some
\* process does not restart.
Fairness ==
    \E s \in Sweepers :
        /\ <>[][~Restart(s)]_vars
        /\ WF_vars(SweepStarts(s) \/ Noop(s) \/ SweepEnds(s))
        /\ WF_vars(Evacuate(s) \/ Defer(s))
        /\ SF_vars(ScanPage(s))
        /\ \A e \in Executions :
            SF_vars(Evacuate(s) /\ NextObservation(s).exec = e)

FairSpec == Spec /\ Fairness

----------------------------------------------------------------------------
(* Properties *)

RowType ==
    row \in [Executions ->
                [state : {"WAITING", "RUNNING", "COMPLETED", "FAILED"}, rev : Nat,
                 owner : Owners \cup {None}, gen : Nat, expiry : Nat \cup {None}]]

Receipts ==
    [exec : Executions, rev : Nat, owner : Owners, gen : Nat, expiry : Nat]

Positions == {None} \cup (Nat \X Executions)

SweepType ==
    /\ cursor \in [Sweepers -> Positions]
    /\ sweep \in [Sweepers ->
            [pc : {"idle", "scan", "evacuate"}, cutoff : Nat, start : Positions,
             after : Positions, pages : Nat, rows : Nat, exhausted : BOOLEAN,
             found : SUBSET Receipts, todo : SUBSET Receipts]]

\* The lease columns are set and cleared together.
LeaseShape ==
    \A e \in Executions : row[e].owner = None <=> row[e].expiry = None

\* Rows, activations and sweeps have their shapes, and no row has half a lease.
TypeOK ==
    /\ RowType /\ SweepType /\ LeaseShape
    /\ now \in Nat
    /\ held \in SUBSET [exec : Executions, owner : Owners, gen : Nat, expiry : Nat]

\* Every activation ever issued for an execution carries its own generation: the
\* fencing token of one that was evacuated, released or renewed is never reissued.
FencingTokensUnique ==
    \A h, k \in held : h.exec = k.exec /\ h.gen = k.gen => h = k

\* Only the newest outstanding activation of an execution completes it; one whose
\* lease was taken over and activated again finds its fence lost.
NewestCompletes ==
    [][\A h, k \in held :
        FinishFenced(h) /\ k.exec = h.exec => k.gen <= h.gen]_vars

\* The sweep never takes a lease that is still running, however old its scan is
\* and whoever renewed it since: only expired leases end up WAITING or FAILED.
NoLiveTakeover ==
    [][\A e \in Executions :
        Leased(e) /\ row'[e].state \in {"WAITING", "FAILED"} => row[e].expiry <= now]_vars

\* e lies in the part of the scan order that the sweep of s has gone through: up to
\* the last row returned, or everything when a short page exhausted the pass.
GonePast(s, e) ==
    /\ Beyond(e, sweep[s].start)
    /\ sweep[s].exhausted \/ (sweep[s].after # None /\ ~Beyond(e, sweep[s].after))

\* From its first page until its last observation is handled, a sweep has observed
\* every well-formed expired row in the part of the order it has gone through,
\* unless the row was renewed, released, finished or evacuated since: whatever left
\* or entered the order between two pages, whichever bound stopped the scan, and
\* when a short page made it wrap the cursor.
ScanMissesNothing ==
    \A s \in Sweepers : sweep[s].pc # "idle" =>
        \A e \in Executions \ Malformed :
            Expired(e, sweep[s].cutoff) /\ GonePast(s, e) => Receipt(e) \in sweep[s].found

\* Every expired lease is eventually evacuated (or given up by its holder), even
\* with rows ahead of it in scan order that can never be: none pins the scan.
ExpiredLeasesEnd ==
    \A e \in Executions \ (Malformed \cup Unready) :
        Expired(e, now) ~> ~Expired(e, now)

=============================================================================
