--------------------------- MODULE DurableRegister ---------------------------
(***************************************************************************)
(* What HiOM expects of its checkpoint file: one register that survives    *)
(* crashes.  A write takes effect in one step between its call and its     *)
(* return; a crash before that step leaves the previous value.             *)
(***************************************************************************)
CONSTANTS Value, NoValue

VARIABLES value,      \* what a process started now would read
          proposal    \* the write in progress that has not taken effect

Init == value = NoValue /\ proposal = NoValue

Propose(v) == /\ proposal = NoValue
              /\ proposal' = v
              /\ UNCHANGED value

Commit == /\ proposal # NoValue
          /\ value' = proposal
          /\ proposal' = NoValue

Abandon == /\ proposal' = NoValue
           /\ UNCHANGED value

Next == (\E v \in Value : Propose(v)) \/ Commit \/ Abandon

Spec == Init /\ [][Next]_<<value, proposal>>
=============================================================================
