------------------------------- MODULE MCHotTier -------------------------------
(* HotTier with model values for threads and flushers. *)
EXTENDS HotTier, TLC

HotSymmetry == Permutations(Threads) \cup Permutations(Fingerprints)
=============================================================================
