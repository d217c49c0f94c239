-------------------------------- MODULE MCCCEH --------------------------------
(* CCEH with two full segments of two slots; the keys are named after the top *)
(* bits of their hashes.                                                      *)
EXTENDS CCEH

CONSTANTS a00, b00, c01, d10, e11, f10

MCKeys   == {a00, b00, c01, d10, e11, f10}
MCBits   == [k \in MCKeys |-> CASE k \in {a00, b00} -> 0 [] k = c01 -> 1
                                [] k \in {d10, f10} -> 2 [] k = e11 -> 3]
MCLoc    == [k \in MCKeys |-> IF k \in {c01, e11} THEN 1 ELSE 0]
MCFilled == [g \in 0 .. 1 |-> [s \in 0 .. 1 |-> IF g = 0 THEN (IF s = 0 THEN a00 ELSE c01)
                                                    ELSE (IF s = 0 THEN d10 ELSE e11)]]
MCRequests == {<<"Insert", b00>>, <<"Insert", f10>>, <<"Insert", c01>>, <<"Delete", a00>>,
               <<"Get", c01>>}
=============================================================================
