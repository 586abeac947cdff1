-------------------------- MODULE MCEmergencyEmit --------------------------
(* Small instances of EmergencyEmit. *)
EXTENDS EmergencyEmit, TLC

CONSTANTS f1, f2,    \* what two snapshots say
          e1, e2     \* two calls of emit that may overlap

Symmetry == Permutations(Fact) \cup Permutations(Emitter)
=============================================================================
