--------------------------- MODULE SegmentLocksMC ---------------------------
(***************************************************************************)
(* SegmentLocks for TLC: every outcome of the density tests is tried.       *)
(***************************************************************************)
EXTENDS SegmentLocks, TLC

ThreadSymmetry == Permutations(Threads)
=============================================================================
