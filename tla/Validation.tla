----------------------------- MODULE Validation -----------------------------
(***************************************************************************)
(* The verdict on one table: validateEntity of                             *)
(* server/src/services/validation-service.ts.  What a run says of its      *)
(* records is counted, the records it says are in the target are compared  *)
(* page by page, and checks are drawn from the numbers; the worst of them  *)
(* is the verdict.                                                         *)
(*                                                                         *)
(* Every await is a step, and between any two of them the systems live on: *)
(* records are deleted on either side, and the run, paused or failed when  *)
(* the validation was asked for, goes on.  Records are the numbers of      *)
(* their source identifiers in order.  What a comparison of values finds   *)
(* in a record is given with it (content); columns, conversions and        *)
(* messages are left out.                                                  *)
(***************************************************************************)
EXTENDS Naturals, FiniteSets, Sequences

CONSTANTS
  NumRecords,  \* records of the source
  Worlds,      \* what the records are like when the validation begins
  Settings,    \* validations: of a run or not, and what other checks find
  Batch,       \* COMPARISON_BATCH
  Cap,         \* depthCap(depth), or Nothing
  MaxChanges,  \* bound: changes meanwhile
  Nothing

Record == 1..NumRecords
Present == {"CREATED", "UPDATED", "UNCHANGED", "SKIPPED"}
Outcome == Present \cup {"FAILED", "UNRESOLVED"}

\* What comparing a record can find: its values agree, one of them differs,
\* one cannot be compared, or a lookup of it points to nothing.
Content == {"same", "different", "incomparable", "dangling"}

\* A record: what the run says of it, where it is, what comparing it finds.
Case == [row: Outcome \cup {Nothing}, source: BOOLEAN, target: BOOLEAN, content: Content]

\* schema: a table missing on a side is a failure.  repeats: what the scan for
\* repeated keys finds.  totals: both sides can compute them.  others: rows of
\* the target that are none of the source's.
Setting == [ofRun: BOOLEAN, schema: {"PASS", "WARNING", "FAIL"},
            repeats: {"none", "ours", "theirs", "unverified"}, totals: BOOLEAN, others: Nat]

\* What a check, and the whole, may come to.
Result == {"PASS", "WARNING", "INCOMPLETE", "FAIL"}

ASSUME ValidationAssumption ==
  /\ NumRecords \in Nat /\ Batch \in Nat \ {0} /\ MaxChanges \in Nat
  /\ Cap \in (Nat \ {0}) \cup {Nothing} /\ Nothing \notin Nat \cup Outcome \cup Result
  /\ Worlds \subseteq [Record -> Case] /\ Settings \subseteq Setting

VARIABLES
  world,      \* the records
  setting,    \* the validation
  stage,      \* what it does next
  counts,     \* rows of the source and of the target
  tally,      \* the run's records by outcome
  verifiable, \* how many can be compared
  cursor,     \* the last source identifier of the pages read
  page,       \* the records of the page at hand, with the run's outcome
  checked,    \* how many records were compared
  missing, different, preExisting, uncompared, broken, matched,
  verdict,
  changes     \* changes meanwhile

numbers == <<counts, tally, verifiable>>
findings == <<checked, missing, different, preExisting, uncompared, broken, matched>>
validationVars == <<world, setting, stage, numbers, cursor, page, findings, verdict, changes>>

Sources == {r \in Record : world[r].source}
Targets == {r \in Record : world[r].target}

ValidationInit ==
  /\ world \in Worlds /\ setting \in Settings
  /\ stage = "schema"
  /\ counts = [source |-> 0, target |-> 0]
  /\ tally = [o \in Outcome |-> 0] /\ verifiable = 0
  /\ cursor = 0 /\ page = {} /\ checked = 0
  /\ missing = {} /\ different = {} /\ preExisting = {} /\ uncompared = {}
  /\ broken = {} /\ matched = {}
  /\ verdict = Nothing
  /\ changes = 0

-----------------------------------------------------------------------------
(* Counting.                                                               *)

\* A table that is missing ends the validation of it.
Schema ==
  /\ stage = "schema"
  /\ stage' = IF setting.schema = "FAIL" THEN "done" ELSE "rows"
  /\ verdict' = IF setting.schema = "FAIL" THEN "FAIL" ELSE Nothing
  /\ UNCHANGED <<world, setting, numbers, cursor, page, findings, changes>>

CountRows ==
  /\ stage = "rows"
  /\ counts' = [source |-> Cardinality(Sources),
                target |-> Cardinality(Targets) + setting.others]
  /\ stage' = IF setting.ofRun THEN "tally" ELSE "page"
  /\ UNCHANGED <<world, setting, tally, verifiable, cursor, page, findings, verdict, changes>>

\* SELECT outcome, count(*) ... GROUP BY outcome.
CountOutcomes ==
  /\ stage = "tally"
  /\ tally' = [o \in Outcome |-> Cardinality({r \in Record : world[r].row = o})]
  /\ stage' = "verifiable"
  /\ UNCHANGED <<world, setting, counts, verifiable, cursor, page, findings, verdict, changes>>

\* Rows that can be compared: neither failed nor in doubt.
Verifiable == {r \in Record : world[r].row \in Present}

CountVerifiable ==
  /\ stage = "verifiable"
  /\ verifiable' = Cardinality(Verifiable)
  /\ stage' = "page"
  /\ UNCHANGED <<world, setting, counts, tally, cursor, page, findings, verdict, changes>>

-----------------------------------------------------------------------------
(* Comparing.                                                              *)

Smaller(a, b) == IF a < b THEN a ELSE b

\* How many records the next page may have.
Remaining == IF Cap = Nothing THEN Batch ELSE Smaller(Batch, Cap - checked)

\* The first Remaining of the records to compare after the cursor.
Eligible == {r \in IF setting.ofRun THEN Verifiable ELSE Sources : r > cursor}
NextPage == {r \in Eligible : Cardinality({o \in Eligible : o < r}) < Remaining}

Last(S) == CHOOSE r \in S : \A o \in S : o <= r

\* A page of the run's rows, or of the source's records.
ReadPage ==
  /\ stage = "page"
  /\ IF NextPage = {}
     THEN stage' = "repeats" /\ UNCHANGED page
     ELSE stage' = "compare" /\ page' = {[record |-> r, outcome |-> world[r].row] : r \in NextPage}
  /\ UNCHANGED <<world, setting, numbers, cursor, findings, verdict, changes>>

\* Both sides are fetched by identifier.  A record of the run that the source
\* no longer has is passed over.
Pairs == {p \in page : setting.ofRun => world[p.record].source}

Differs(p) == p.record \in Targets /\ world[p.record].content = "different"
Spared(p) == setting.ofRun /\ p.outcome = "SKIPPED"

Compare ==
  LET pick(Test(_)) == {p.record : p \in {q \in Pairs : Test(q)}}
      there(p) == p.record \in Targets
      finds(what) == {p.record : p \in {q \in Pairs : there(q) /\ world[q.record].content = what}}
  IN /\ stage = "compare"
     /\ checked' = checked + Cardinality(Pairs)
     /\ missing' = missing \cup pick(LAMBDA p : ~there(p))
     /\ different' = different \cup pick(LAMBDA p : Differs(p))
     /\ matched' = matched \cup pick(LAMBDA p : there(p) /\ ~Differs(p))
     /\ preExisting' = preExisting \cup pick(LAMBDA p : Differs(p) /\ Spared(p))
     /\ uncompared' = uncompared \cup finds("incomparable")
     /\ broken' = broken \cup finds("dangling")
     /\ cursor' = Last({p.record : p \in page})
     /\ stage' = IF Cardinality(page) < Remaining THEN "repeats" ELSE "page"
     /\ page' = {}
     /\ UNCHANGED <<world, setting, numbers, verdict, changes>>

-----------------------------------------------------------------------------
(* The checks and the verdict.                                             *)

\* Mutant: a sample of the asked-for size is called complete.
CoverageUpToCap ==
  LET eligible == IF Cap = Nothing THEN verifiable ELSE Smaller(Cap, verifiable)
  IN IF eligible = 0 THEN "FULL" ELSE IF checked = 0 THEN "NOT_VERIFIED"
     ELSE IF checked >= eligible THEN "FULL" ELSE "SAMPLED"

\* coverageOf: how much of what could be compared was.
Coverage ==
  LET eligible == IF setting.ofRun THEN verifiable ELSE counts.source
  IN CASE eligible = 0 -> "FULL"
       [] eligible > 0 /\ checked = 0 -> "NOT_VERIFIED"
       [] eligible > 0 /\ checked >= eligible -> "FULL"
       [] OTHER -> "SAMPLED"

NothingExamined == Coverage = "NOT_VERIFIED" \/ checked = 0

RowCount ==
  CASE counts.target = counts.source -> "PASS"
    [] counts.target > counts.source -> "WARNING"
    [] counts.target < counts.source -> "FAIL"

\* Mutant: what the run itself reported as failed is not held against it.
AbsentUnreported == Cardinality(missing)

\* "Two reasons a record is not in the target, and both of them fail this check."
Absent == Cardinality(missing) + tally["FAILED"]

Existence ==
  IF ~setting.ofRun
  THEN IF missing = {} THEN "PASS" ELSE "FAIL"
  ELSE CASE tally["UNRESOLVED"] > 0 -> "INCOMPLETE"
         [] tally["UNRESOLVED"] = 0 /\ Absent > 0 -> "FAIL"
         [] tally["UNRESOLVED"] = 0 /\ Absent = 0 /\ NothingExamined -> "INCOMPLETE"
         [] OTHER -> "PASS"

Values ==
  CASE different \ preExisting # {} -> "FAIL"
    [] different \ preExisting = {} /\ preExisting # {} -> "WARNING"
    [] different = {} /\ NothingExamined -> "INCOMPLETE"
    [] OTHER -> "PASS"

Uniqueness ==
  CASE setting.repeats = "none" -> "PASS"
    [] setting.repeats = "ours" -> "FAIL"
    [] setting.repeats \in {"theirs", "unverified"} -> "WARNING"

\* Totals are compared when the run wrote all the target holds.
Written == IF setting.ofRun THEN tally["CREATED"] + tally["UPDATED"] ELSE 0
Totals ==
  IF setting.totals /\ Written > 0 /\ counts.target = Written /\ counts.source # counts.target
  THEN "FAIL" ELSE "PASS"

Checks ==
  {setting.schema, RowCount, Existence, Values, Uniqueness, Totals,
   IF uncompared = {} THEN "PASS" ELSE "WARNING",
   IF broken = {} THEN "PASS" ELSE "FAIL"}

\* Worst wins.
Worst(outcomes) ==
  CASE "FAIL" \in outcomes -> "FAIL"
    [] "FAIL" \notin outcomes /\ "INCOMPLETE" \in outcomes -> "INCOMPLETE"
    [] outcomes \cap {"FAIL", "INCOMPLETE"} = {} /\ "WARNING" \in outcomes -> "WARNING"
    [] OTHER -> "PASS"

\* The scan for repeated keys and the totals, and the result is saved.
Conclude ==
  /\ stage = "repeats"
  /\ verdict' = Worst(Checks)
  /\ stage' = "done"
  /\ UNCHANGED <<world, setting, numbers, cursor, page, findings, changes>>

-----------------------------------------------------------------------------
(* What happens meanwhile.                                                 *)

Meanwhile(r, case) ==
  /\ stage # "done" /\ changes < MaxChanges
  /\ world' = [world EXCEPT ![r] = case]
  /\ changes' = changes + 1
  /\ UNCHANGED <<setting, stage, numbers, cursor, page, findings, verdict>>

\* The run is resumed or retried: a record gets there, or fails.
RunGoesOn(r) ==
  /\ setting.ofRun /\ world[r].source /\ world[r].row \in {Nothing, "FAILED", "UNRESOLVED"}
  /\ \/ Meanwhile(r, [world[r] EXCEPT !.row = "CREATED", !.target = TRUE])
     \/ world[r].row # "FAILED" /\ Meanwhile(r, [world[r] EXCEPT !.row = "FAILED"])

Vanishes(r) ==
  \/ world[r].source /\ Meanwhile(r, [world[r] EXCEPT !.source = FALSE])
  \/ world[r].target /\ Meanwhile(r, [world[r] EXCEPT !.target = FALSE])

ValidationNext ==
  \/ Schema \/ CountRows \/ CountOutcomes \/ CountVerifiable
  \/ ReadPage \/ Compare \/ Conclude
  \/ \E r \in Record : RunGoesOn(r) \/ Vanishes(r)

ValidationSpec == ValidationInit /\ [][ValidationNext]_validationVars

-----------------------------------------------------------------------------
(* A table is not called passed, with or without warnings, for want of     *)
(* evidence: records were compared, none of those was missing, different   *)
(* or without the record a lookup of it points to, and the run had counted *)
(* none as failed or in doubt.  If every record that could be compared was *)
(* and nothing changed meanwhile, then each record of the run is there.    *)
PassIsEvidence ==
  verdict \in {"PASS", "WARNING"} =>
    /\ checked > 0
    /\ missing = {} /\ broken = {} /\ different \subseteq preExisting
    /\ changes = 0 /\ setting.ofRun =>
         /\ \A r \in Record : world[r].row \in Present \cup {Nothing}
         /\ Coverage = "FULL" => \A r \in Record : world[r].row # Nothing => r \in Targets

(* "matched + different + missing = checkedRecords", each record once; and *)
(* what the report says of its coverage is so: FULL when no record it      *)
(* could compare was left out, SAMPLED when one was.  (The last while      *)
(* nothing changes; the counts are older than the pages.)                  *)
CoverageIsHonest ==
  stage = "done" /\ setting.schema # "FAIL" =>
    LET compared == matched \cup different \cup missing
        all == IF setting.ofRun THEN Verifiable ELSE Sources
    IN /\ Cardinality(matched) + Cardinality(different) + Cardinality(missing) = checked
       /\ Cardinality(compared) = checked
       /\ changes = 0 => (Coverage = "FULL" <=> all \subseteq compared)
=============================================================================
