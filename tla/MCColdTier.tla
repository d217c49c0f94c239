----------------------------- MODULE MCColdTier -----------------------------
(* ColdTier with the keys of one main bucket, which are interchangeable.    *)
EXTENDS ColdTier, TLC

CONSTANTS keyA, keyB, keyC

MCKeys       == {keyA, keyB, keyC}
OneChain     == [k \in Keys |-> 1]
KeySymmetry  == Permutations(Keys)
=============================================================================
