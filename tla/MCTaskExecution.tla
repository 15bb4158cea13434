-------------------------- MODULE MCTaskExecution --------------------------
(* Instances of TaskExecution for TLC. *)
EXTENDS TaskExecution, TLC

Symmetry == Permutations(Executions) \cup Permutations(Branches) \cup Permutations(Claims)
=============================================================================
