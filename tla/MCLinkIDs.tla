------------------------------ MODULE MCLinkIDs ------------------------------
(* A small instance of LinkIDs for TLC: 3 blocks of 2 IDs; the links are   *)
(* interchangeable.                                                        *)
EXTENDS LinkIDs, TLC

Symmetry == Permutations(Links)
=============================================================================
