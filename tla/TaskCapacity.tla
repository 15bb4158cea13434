---------------------------- MODULE TaskCapacity ----------------------------
(***************************************************************************)
(* What a TaskBudget promises, with no counters, branches or claims in     *)
(* sight: at most MaxTotal executions are ever admitted to the Task, at    *)
(* most MaxActive of them run at once, an execution that has settled never *)
(* runs again, and after the Task closes nothing is admitted or resumed    *)
(* any more (what still runs may finish).  TaskExecution implements it.    *)
(***************************************************************************)
EXTENDS Naturals, FiniteSets

CONSTANTS Executions, MaxTotal, MaxActive

VARIABLES
    phase,    \* each execution's phase
    open      \* whether the Task still admits work

capacityVars == <<phase, open>>

Phases == {"new", "running", "waiting", "done"}

In(p) == {e \in Executions : phase[e] = p}

CapacityInit ==
    /\ phase = [e \in Executions |-> "new"]
    /\ open = TRUE

Admit(e) ==
    /\ open /\ phase[e] = "new"
    /\ Cardinality(In("running")) < MaxActive
    /\ Cardinality(Executions \ In("new")) < MaxTotal
    /\ phase' = [phase EXCEPT ![e] = "running"]
    /\ UNCHANGED open

Restart(e) ==
    /\ open /\ phase[e] = "waiting"
    /\ Cardinality(In("running")) < MaxActive
    /\ phase' = [phase EXCEPT ![e] = "running"]
    /\ UNCHANGED open

Park(e) ==
    /\ phase[e] = "running"
    /\ phase' = [phase EXCEPT ![e] = "waiting"]
    /\ UNCHANGED open

\* A set of executions settles, at the earliest when it is admitted; the step
\* may close the Task, and closing never reopens.
Settle(D) ==
    /\ \A e \in D : phase[e] \in {"running", "waiting"}
    /\ phase' = [e \in Executions |-> IF e \in D THEN "done" ELSE phase[e]]
    /\ open' \in {open, FALSE}

CapacityNext ==
    \/ \E e \in Executions : Admit(e) \/ Restart(e) \/ Park(e)
    \/ \E D \in SUBSET Executions : Settle(D)

CapacitySpec == CapacityInit /\ [][CapacityNext]_capacityVars
=============================================================================
