------------------------------ MODULE MCLedger ------------------------------
(* Instances of Ledger for TLC. *)
EXTENDS Ledger, TLC

CONSTANTS i1, i2,   \* two short lines
          big       \* one that is longer than the buffer

Symmetry == Permutations({i1, i2})
=============================================================================
