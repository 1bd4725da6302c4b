--------------------------- MODULE MCIncremental ---------------------------
(* Incremental on small instances.                                         *)
EXTENDS Incremental, TLC

Symmetry == Permutations(Run)

\* Instants, as ISO text of one format or as numbers.
AsInstants(a, b) == a < b

\* Numbers below 100 compared as text.
AsText(a, b) ==
  LET first(n) == IF n < 10 THEN n ELSE n \div 10
  IN \/ first(a) < first(b)
     \/ first(a) = first(b) /\ a < b
=============================================================================
