-------------------------------- MODULE MCGate --------------------------------
(* A machine of five moments, in which every one of its button's frames tells, *)
(* and which is seldom where its threads meet.                                 *)
EXTENDS Gate

MCMoments == 0 .. 4
MCStep(m, h) == (2 * m + h + 1) % 5
MCPicture(m, h) == (3 * m + h) % 5
MCSound(m, h) == (m + 2 * h) % 5
MCPresses(m) == m = 3
MCDumps == {-1, 1}
MCSync(m) == IF m = 4 THEN 0 ELSE m
NeverPresses(m) == FALSE
=============================================================================
