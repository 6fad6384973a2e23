------------------------- MODULE MCLifecycleHistory -------------------------
(* Small instance of LifecycleHistory for TLC. *)
EXTENDS LifecycleHistory, TLC

Symmetry == Permutations(Procs) \cup Permutations(Ops)
=============================================================================
