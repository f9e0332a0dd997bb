--------------------------- MODULE MCBlockTracking ---------------------------
(* Eight blocks over four days: the first day ends with an empty block, the   *)
(* second starts with one, the third has nothing else, and the fourth starts  *)
(* with two full ones.                                                        *)
EXTENDS BlockTracking

DayMC == [b \in 1..8 |-> <<10, 10, 11, 11, 12, 13, 13, 13>>[b]]
NonEmptyMC == {1, 4, 6, 7}
=============================================================================
