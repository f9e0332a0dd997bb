---------------------------- MODULE MCDailyJobs ----------------------------
(* Days in weeks of two days.                                               *)
EXTENDS DailyJobs

WeekOfMC == [d \in Periods |-> d \div 2]
SizeMC == [t \in Tables |-> IF t \in {"daily", "regular"} THEN 2 ELSE 1]

\* The pairs of jobs that write the same rows, and the flush by itself.
RivalScopes == {{"flush", "repair"}, {"count", "manual"}, {"flush"}}

\* The flush loop by itself meets a day without a table, and answers that are lost.
FlushScope == {"flush"}
TrackedMC == [sc \in RivalScopes |-> IF sc = FlushScope THEN {10, 12} ELSE {10, 11, 12}]
LossyMC == {FlushScope}
=============================================================================
