---------------------------- MODULE MCValidation ----------------------------
EXTENDS Validation

\* The records a validation may come upon: as the run says, or not.
Seen(row, source, target, content) ==
  [row |-> row, source |-> source, target |-> target, content |-> content]
Cases ==
  {Seen("CREATED", TRUE, TRUE, c) : c \in Content}
  \cup {Seen("SKIPPED", TRUE, TRUE, "different"), Seen("CREATED", TRUE, FALSE, "same"),
        Seen("CREATED", FALSE, TRUE, "same"), Seen("CREATED", FALSE, FALSE, "same"),
        Seen("FAILED", TRUE, FALSE, "same"),
        Seen("UNRESOLVED", TRUE, TRUE, "same"), Seen(Nothing, TRUE, FALSE, "same")}

\* Most records are well: at most two are anything else.
Well == Seen("CREATED", TRUE, TRUE, "same")
AnyTwo == {w \in [Record -> Cases] : Cardinality({r \in Record : w[r] # Well}) <= 2}

AsSet(ofRun, schema, repeats, totals, others) ==
  [ofRun |-> ofRun, schema |-> schema, repeats |-> repeats, totals |-> totals, others |-> others]
FewSettings ==
  {AsSet(TRUE, "PASS", "none", TRUE, 0), AsSet(TRUE, "WARNING", "theirs", FALSE, 1),
   AsSet(TRUE, "PASS", "ours", TRUE, 1), AsSet(FALSE, "PASS", "unverified", FALSE, 0),
   AsSet(FALSE, "FAIL", "none", FALSE, 0)}
=============================================================================
