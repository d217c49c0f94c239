--------------------------- MODULE MCCommitBuffer ---------------------------
(***************************************************************************)
(* Model-checking instance of CommitBuffer.                                *)
(***************************************************************************)
EXTENDS CommitBuffer

ProducerSymmetry == Permutations(Producers)
=============================================================================
