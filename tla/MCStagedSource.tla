--------------------------- MODULE MCStagedSource ---------------------------
EXTENDS StagedSource, TLC

CONSTANTS t1, t2

\* A workbook with two sheets; a file with other keys for the first of them;
\* one that shares a key with the workbook at another position.
KeysOf(f, t) ==
  CASE f = 1 -> IF t = t1 THEN <<"a", "b">> ELSE <<"x">>
    [] f = 2 -> IF t = t1 THEN <<"c">> ELSE <<>>
    [] f = 3 -> IF t = t1 THEN <<"b">> ELSE <<>>

SheetsOf(f) == IF f = 1 THEN <<t1, t2>> ELSE <<t1>>

Symmetry == Permutations(Client)
=============================================================================
