----------------------------- MODULE MCFrontier -----------------------------
(***************************************************************************)
(* Model-checking instance of Frontier: client handles are interchangeable *)
(* model values.                                                           *)
(***************************************************************************)
EXTENDS FrontierInv, TLC

ClientSymmetry == Permutations(Clients)
=============================================================================
