--------------------------- MODULE MCSummaryCache ---------------------------
(* Instances of SummaryCache for TLC. *)
EXTENDS SummaryCache, TLC

ThreadSymmetry == Permutations(Threads)
=============================================================================
