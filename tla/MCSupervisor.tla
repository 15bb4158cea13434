---------------------------- MODULE MCSupervisor ----------------------------
(* A parent execution, its child of the same Task, and an unrelated one.     *)
EXTENDS Supervisor, TLC

MCTaskOf == [e \in Executions |-> IF e = "other" THEN None ELSE "task"]

MCParentOf == [e \in Executions |-> IF e = "child" THEN "parent" ELSE None]

RequestSymmetry == Permutations(Requests)

=============================================================================
