---------------------------- MODULE MCCronDispatch ----------------------------
(* Schedules, dispatchers and the minutes the schedules match, for TLC. *)
EXTENDS CronDispatch, TLC

CONSTANTS s1, s2, loop, req

DueOf == [s \in Schedules |-> IF s = s1 THEN 0 .. 4 ELSE {1}]
===============================================================================
