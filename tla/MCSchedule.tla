---------------------------- MODULE MCSchedule ----------------------------
(* Schedule on small instances.                                            *)
EXTENDS Schedule

EveryMinute(s, t) == t + 1
===========================================================================
