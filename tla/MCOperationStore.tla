-------------------------- MODULE MCOperationStore --------------------------
(* Instances of OperationStore. *)
EXTENDS OperationStore, TLC

Symmetry == Permutations(Procs) \cup Permutations(Values)
=============================================================================
