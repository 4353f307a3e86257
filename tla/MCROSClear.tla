----------------------------- MODULE MCROSClear -----------------------------
(* Small instances of ROSClear for TLC. *)
EXTENDS ROSClear, TLC

Symmetry == Permutations(Strands) \cup Permutations(ROSes)
=============================================================================
