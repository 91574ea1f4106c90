------------------------------- MODULE MCInputs -------------------------------
(* A button the machine presses itself, a tape's two, and one more button that *)
(* lies beyond the frontend's record.                                          *)
EXTENDS Inputs

MCKind == [b \in 0 .. 3 |-> CASE b = 1 -> "play" [] b = 2 -> "stop" [] OTHER -> "node"]
=============================================================================
