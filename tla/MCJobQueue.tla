---------------------------- MODULE MCJobQueue ----------------------------
(* JobQueue on small instances.                                            *)
EXTENDS JobQueue, TLC

Symmetry == Permutations(Worker) \cup Permutations(Job)
=============================================================================
