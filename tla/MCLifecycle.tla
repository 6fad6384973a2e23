---------------------------- MODULE MCLifecycle ----------------------------
(* Small instances of Lifecycle for TLC. *)
EXTENDS Lifecycle, TLC

\* Processes and operation ids are interchangeable; nothing orders them.
Symmetry == Permutations(Procs) \cup Permutations(Ops)
=============================================================================
