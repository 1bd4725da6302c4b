-------------------------- MODULE MCRecordProtocol --------------------------
(* RecordProtocol on small instances.                                      *)
EXTENDS RecordProtocol

OwnKeys == [r \in Record |-> r]
\* The first and the last record carry the same key.
SharedKey == [r \in Record |-> IF r = NumRecords THEN 1 ELSE r]

\* The evidence of every record, or of all but the second, whose key is incomplete.
Nothing == [r \in Record |-> "NONE"]
ByAlternateKey == [r \in Record |-> "ALTERNATE_KEY"]
ByBusinessKey == [r \in Record |-> "BUSINESS_KEY"]
ByKeyButSecond == [r \in Record |-> IF r = 2 THEN "NONE" ELSE "BUSINESS_KEY"]

NoParents == [r \in Record |-> None]
\* Each record refers to the one after it, the last to none.
NextParent == [r \in Record |-> IF r < NumRecords THEN r + 1 ELSE None]
=============================================================================
