-------------------------- MODULE MCLeaseRecovery --------------------------
(* Symmetry of the owner instances and of the sweeping processes.           *)
EXTENDS LeaseRecovery, TLC

Symmetry == Permutations(Owners) \cup Permutations(Sweepers)

=============================================================================
