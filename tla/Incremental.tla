---------------------------- MODULE Incremental ----------------------------
(***************************************************************************)
(* Incremental runs of one schedule and the watermark that ties them       *)
(* together: migration_schedules.last_watermark, which a firing copies     *)
(* into its run (since), and which a run that finishes moves to the        *)
(* largest value of the watermark column it has seen.                      *)
(*                                                                         *)
(* The source lives on: a record's stamp is the value of its watermark     *)
(* column now, and Touch gives it a new one.  A run reads its tables in    *)
(* turn and each table by pages in the order of the primary key, asking    *)
(* only for records newer than since.  Writing to the target is            *)
(* RecordProtocol's subject; here a record of a page is carried or fails.  *)
(***************************************************************************)
EXTENDS Naturals, FiniteSets, FiniteSetsExt

CONSTANTS
  Run,            \* runs the schedule may come to start
  NumTables, NumKeys,
  PageSize,
  Older(_, _),    \* lt on last_watermark, as the database compares it
  Faults,         \* "table" a page cannot be read, "record" a record fails,
                  \* "run" a run fails or is interrupted
  FirstStamp, LastStamp,  \* bound: values of the watermark column
  MaxAttempts     \* bound: executions of a run

Record == (1..NumTables) \X (1..NumKeys)

ASSUME IncrementalAssumption ==
  /\ NumTables \in Nat \ {0} /\ NumKeys \in Nat \ {0} /\ PageSize \in Nat \ {0}
  /\ FirstStamp \in Nat \ {0} /\ LastStamp \in Nat /\ FirstStamp < LastStamp
  /\ MaxAttempts \in Nat
  /\ \A a, b \in FirstStamp..LastStamp : Older(a, b) \in BOOLEAN

VARIABLES
  stamp,     \* the watermark column of each source record
  carried,   \* the stamp of the version of each record that reached the target
  mark,      \* last_watermark, 0 when NULL
  state,     \* each run: "new", "reading", "stopped" (may go on), "finished"
  since,     \* the run's incremental.since
  observed,  \* ctx.watermark of the execution
  table, key,\* where the execution reads
  handled,   \* records of which the run has a row with an outcome not FAILED
  kept,      \* the run's own watermark column, where an execution starts
  attempts,
  excused    \* history: records a failure or a change under a run concerns

watermarkVars == <<stamp, carried, mark, state, since, observed, table, key, handled, kept,
          attempts, excused>>

Stamp == 0..LastStamp

(* The type invariant, with the place of an execution.                     *)
WatermarkTypeOK ==
  /\ stamp \in [Record -> Stamp] /\ carried \in [Record -> Stamp]
  /\ mark \in Stamp
  /\ state \in [Run -> {"new", "reading", "stopped", "finished"}]
  /\ since \in [Run -> Stamp] /\ observed \in [Run -> Stamp] /\ kept \in [Run -> Stamp]
  /\ table \in [Run -> 1..(NumTables + 1)]
  /\ key \in [Run -> 1..(NumKeys + 1)]
  /\ handled \in [Run -> SUBSET Record]
  /\ attempts \in [Run -> Nat]
  /\ excused \subseteq Record
  /\ \A r \in Run : state[r] # "new" => since[r] <= observed[r]

\* The schedule begins with a source whose records are of various ages.
WatermarkInit ==
  /\ stamp \in [Record -> {FirstStamp, FirstStamp + 1}]
  /\ carried = [x \in Record |-> 0]
  /\ mark = 0
  /\ state = [r \in Run |-> "new"]
  /\ since = [r \in Run |-> 0] /\ observed = [r \in Run |-> 0] /\ kept = [r \in Run |-> 0]
  /\ table = [r \in Run |-> 1] /\ key = [r \in Run |-> 1]
  /\ handled = [r \in Run |-> {}]
  /\ attempts = [r \in Run |-> 0]
  /\ excused = {}

-----------------------------------------------------------------------------
\* Runs that have read something and may write a watermark yet.
Underway == {r \in Run : state[r] \in {"reading", "stopped"}}

\* A source record changes: it gets a value no record has had.
Touch(x) ==
  /\ \A y \in Record : stamp[y] < LastStamp
  /\ stamp' = [stamp EXCEPT ![x] = Max({stamp[y] : y \in Record}) + 1]
  /\ excused' = IF Underway # {} THEN excused \cup {x} ELSE excused
  /\ UNCHANGED <<carried, mark, state, since, observed, table, key, handled, kept, attempts>>

\* fire: the run starts from where the schedule is.  (The row was read a while
\* before; a run that has read no page yet stands for one that is being fired.)
StartRun(r) ==
  /\ state[r] = "new"
  /\ state' = [state EXCEPT ![r] = "reading"]
  /\ since' = [since EXCEPT ![r] = mark]
  /\ kept' = [kept EXCEPT ![r] = mark]
  /\ observed' = [observed EXCEPT ![r] = mark]
  /\ attempts' = [attempts EXCEPT ![r] = 1]
  /\ UNCHANGED <<stamp, carried, mark, table, key, handled, excused>>

\* A retry or a resume, or the job again after a crash: from the beginning.
StartAgain(r) ==
  /\ state[r] = "stopped" /\ attempts[r] < MaxAttempts
  /\ state' = [state EXCEPT ![r] = "reading"]
  /\ observed' = [observed EXCEPT ![r] = kept[r]]
  /\ table' = [table EXCEPT ![r] = 1]
  /\ key' = [key EXCEPT ![r] = 1]
  /\ attempts' = [attempts EXCEPT ![r] = @ + 1]
  /\ UNCHANGED <<stamp, carried, mark, since, handled, kept, excused>>

\* The predicate of the connectors: column > since, when there is a since.
Newer(x, value) == stamp[x] > value

Rest(r) == {x \in Record : x[1] = table[r] /\ x[2] >= key[r] /\ Newer(x, since[r])}

\* The keyset page: the next PageSize records by primary key.
Page(r) == {x \in Rest(r) : Cardinality({y \in Rest(r) : y[2] < x[2]}) < PageSize}

\* observeWatermark: the largest value, compared as a number.
Observe(old, page) == Max({old} \cup {stamp[x] : x \in page})

\* A page is read and its records not handled before are carried; those in
\* bad end FAILED.  Handled records are observed and passed over.
ReadPage(r, bad) ==
  LET page == Page(r)
      work == page \ handled[r]
  IN /\ state[r] = "reading" /\ table[r] <= NumTables /\ page # {}
     /\ bad \subseteq work /\ (bad # {} => "record" \in Faults)
     /\ observed' = [observed EXCEPT ![r] = Observe(@, page)]
     /\ carried' = [x \in Record |-> IF x \in work \ bad THEN stamp[x] ELSE carried[x]]
     /\ handled' = [handled EXCEPT ![r] = @ \cup (work \ bad)]
     /\ key' = [key EXCEPT ![r] = Max({x[2] : x \in page}) + 1]
     /\ excused' = excused \cup bad
     /\ UNCHANGED <<stamp, mark, state, since, table, kept, attempts>>

NextTable(r) ==
  /\ table' = [table EXCEPT ![r] = @ + 1]
  /\ key' = [key EXCEPT ![r] = 1]

\* Mutant: the tables of the plan have no end.
EndTableAlways(r) ==
  /\ state[r] = "reading" /\ Page(r) = {}
  /\ NextTable(r)
  /\ UNCHANGED <<stamp, carried, mark, state, since, observed, handled, kept, attempts, excused>>

EndTable(r) ==
  /\ state[r] = "reading" /\ table[r] <= NumTables /\ Page(r) = {}
  /\ NextTable(r)
  /\ UNCHANGED <<stamp, carried, mark, state, since, observed, handled, kept, attempts, excused>>

\* The catch of migrateEntity: the table is FAILED, the run goes on.
TableFails(r) ==
  /\ state[r] = "reading" /\ table[r] <= NumTables /\ "table" \in Faults
  /\ NextTable(r)
  /\ excused' = excused \cup Rest(r)
  /\ UNCHANGED <<stamp, carried, mark, state, since, observed, handled, kept, attempts>>

\* Mutant: a run that stops keeps and publishes what it has seen.
StopsKeeping(r) ==
  /\ state[r] = "reading" /\ "run" \in Faults
  /\ state' = [state EXCEPT ![r] = "stopped"]
  /\ mark' = Max({mark, observed[r]})
  /\ UNCHANGED <<stamp, carried, since, observed, table, key, handled, kept, attempts, excused>>

\* Paused, cancelled, failed, or its process died.
Stops(r) ==
  /\ state[r] = "reading" /\ "run" \in Faults
  /\ state' = [state EXCEPT ![r] = "stopped"]
  /\ UNCHANGED <<stamp, carried, mark, since, observed, table, key, handled, kept, attempts,
                 excused>>

\* recordScheduleWatermark.
Publish(value) == mark' = IF mark = 0 \/ Older(mark, value) THEN value ELSE mark

\* Every status Finish writes is one that publishes; a run COMPLETED_WITH_ERRORS
\* may be retried.
Finish(r) ==
  /\ state[r] = "reading" /\ table[r] = NumTables + 1
  /\ \E to \in {"finished"} \cup (IF excused = {} THEN {} ELSE {"stopped"}) :
       state' = [state EXCEPT ![r] = to]
  /\ kept' = [kept EXCEPT ![r] = observed[r]]
  /\ IF observed[r] = 0 THEN UNCHANGED mark ELSE Publish(observed[r])
  /\ UNCHANGED <<stamp, carried, since, observed, table, key, handled, attempts, excused>>

RunStep(r) ==
  \/ StartRun(r) \/ StartAgain(r) \/ EndTable(r) \/ TableFails(r) \/ Stops(r) \/ Finish(r)
  \/ \E bad \in SUBSET Page(r) : ReadPage(r, bad)

WatermarkNext ==
  \/ \E r \in Run : RunStep(r)
  \/ \E x \in Record : Touch(x)

WatermarkSpec == WatermarkInit /\ [][WatermarkNext]_watermarkVars

-----------------------------------------------------------------------------
(* Nothing below the watermark is left behind: the version of a record     *)
(* that no later run will ask for has reached the target.  The code does   *)
(* not keep this: a table that fails is passed by the watermark of the     *)
(* run.                                                                    *)
NothingSkipped == \A x \in Record : stamp[x] <= mark => carried[x] = stamp[x]

(* What the rules of the watermark do achieve: the same for records that   *)
(* no failure of a record or a table concerns and that did not change      *)
(* while a run was under way or could be taken up again, whatever runs     *)
(* overlap, stop, start again and finish in whatever order.                *)
NothingSkippedInCalm ==
  \A x \in Record \ excused : stamp[x] <= mark => carried[x] = stamp[x]
=============================================================================
