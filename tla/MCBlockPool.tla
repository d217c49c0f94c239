----------------------------- MODULE MCBlockPool -----------------------------
(* BlockPool with two clients that outgrow the first mapping. *)
EXTENDS BlockPool

CONSTANTS c1, c2

MCClients == {c1, c2}
LastOnly  == {NumPages - 1}    \* the first block starts at page 0
=============================================================================
