-------------------------- MODULE MCMinimalRuntime --------------------------
(* Instances of MinimalRuntime for TLC. *)
EXTENDS MinimalRuntime, TLC

Symmetry == Permutations(Runner) \cup Permutations(Execution)
=============================================================================
