----------------------------- MODULE MCKeyIndex -----------------------------
(***************************************************************************)
(* Small instances of KeyIndex for TLC.                                    *)
(***************************************************************************)
EXTENDS KeyIndex

At(b, p, s) == [block |-> b, page |-> p, slot |-> s]

\* Three pages.  The last slot is beyond the codec; cut off, it would be the
\* second offset.
ThreePages == [o \in 0 .. 2 |-> CASE o = 0 -> At(0, 0, 0) [] o = 1 -> At(1, 1, 0)
                                  [] o = 2 -> At(1, 0, 2)]
OnePage    == [o \in 0 .. 1 |-> At(0, 0, o)]
=============================================================================
