--------------------------- MODULE MCRunLifecycle ---------------------------
(* RunLifecycle on small instances.                                        *)
EXTENDS RunLifecycle, TLC

OneTarget == [r \in Run |-> "target"]

\* Clients are alike, and runs of one target; for invariants only.
Alike == Permutations(Client) \cup Permutations(Run)
=============================================================================
