---------------------------- MODULE MCSearchIndex ----------------------------
(* Instances of SearchIndex for TLC. *)
EXTENDS SearchIndex, TLC

FileSymmetry == Permutations(Files)
=============================================================================
