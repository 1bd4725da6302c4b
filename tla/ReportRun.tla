------------------------------ MODULE ReportRun ------------------------------
(***************************************************************************)
(* The runs that only read and write a report: analyses, comparisons of    *)
(* schemas, comparisons of data, preflights and validations.  Each is a    *)
(* row and a job; its handler, execute, reads table after table and saves  *)
(* the results of each.  This module is the life of one run of any of the  *)
(* five kinds: runs do not touch each other's rows.                        *)
(*                                                                         *)
(* The queue appears as what it promises (JobQueue): a job whose worker    *)
(* died, or is alive and late, is given to another one.  One action is one *)
(* SQL statement; the two that delete the output of an earlier execution   *)
(* are taken as one, and the rows of one table's details as well.          *)
(***************************************************************************)
EXTENDS Naturals

CONSTANTS
  Executor,    \* executions there may be at a time
  NumTables,   \* tables the run covers
  MaxFaults,   \* bound: statements, or reads of a source, that fail
  MaxLapses,   \* bound: crashes and late heartbeats
  None

Kind == {"ANALYSIS", "DATA_COMPARISON", "COMPARISON", "PREFLIGHT", "VALIDATION"}
Covered == 1..NumTables

ASSUME ReportAssumption ==
  /\ NumTables \in Nat \ {0} /\ MaxFaults \in Nat /\ MaxLapses \in Nat
  /\ None \notin Executor

VARIABLES
  kind,       \* what the run is
  status,     \* its status, "none" before its row is there
  job,        \* the status of its job
  holder,     \* the execution that holds the job
  at, table,  \* where each execution is
  heads,      \* rows of each table's result
  details,    \* findings, differences or records of each table
  overlapped, \* history: two executions were in progress at a time
  stranded,   \* history: a failure the handler does not record
  faults, lapses

queue == <<job, holder>>
output == <<heads, details>>
history == <<overlapped, stranded>>
bounds == <<faults, lapses>>
vars == <<kind, status, queue, at, table, output, history, bounds>>

Place == {"idle", "read", "mark", "clear", "head", "detail", "complete", "audit",
          "catch", "told", "end", "throw"}

(* The type invariant.                                                     *)
TypeOK ==
  /\ kind \in Kind
  /\ status \in {"none", "QUEUED", "RUNNING", "COMPLETED", "FAILED"}
  /\ job \in {"none", "QUEUED", "RUNNING", "DONE", "FAILED"}
  /\ holder \in Executor \cup {None} /\ (job = "RUNNING" <=> holder # None)
  /\ at \in [Executor -> Place] /\ table \in [Executor -> Covered]
  /\ heads \in [Covered -> Nat] /\ details \in [Covered -> Nat]
  /\ overlapped \in BOOLEAN /\ stranded \in BOOLEAN
  /\ faults \in Nat /\ lapses \in Nat

Init ==
  /\ kind \in Kind
  /\ status = "none" /\ job = "none" /\ holder = None
  /\ at = [e \in Executor |-> "idle"] /\ table = [e \in Executor |-> 1]
  /\ heads = [i \in Covered |-> 0] /\ details = [i \in Covered |-> 0]
  /\ overlapped = FALSE /\ stranded = FALSE
  /\ faults = 0 /\ lapses = 0

-----------------------------------------------------------------------------
(* What the five handlers do differently.                                  *)

\* Mutants: a run that has been started is taken to be under way; a status
\* that is never looked at.
SkipsStarted == status \in {"RUNNING", "COMPLETED", "FAILED"}
SkipsNone == FALSE

\* The first lines of execute: a run that has ended is not executed again; an
\* analysis or a comparison that failed is.
Skips ==
  \/ status = "COMPLETED"
  \/ status = "FAILED" /\ kind \in {"PREFLIGHT", "VALIDATION"}

\* Where a failure is caught and recorded.
Guarded(where) ==
  \/ where \in {"head", "detail", "complete", "audit"}
  \/ where = "clear" /\ kind \notin {"PREFLIGHT", "VALIDATION"}
  \/ where = "mark" /\ kind \in {"ANALYSIS", "DATA_COMPARISON"}

\* What follows the record of a failure: it is thrown again, or audited.
AfterFailure ==
  CASE kind \in {"ANALYSIS", "DATA_COMPARISON"} -> "throw"
    [] kind \in {"COMPARISON", "VALIDATION"} -> "told"
    [] kind = "PREFLIGHT" -> "end"

\* Whether a unique index keeps a table from having two results.
Unique == kind # "DATA_COMPARISON"

\* A preflight writes the records of a table before its result; a comparison
\* of schemas has results only.
FirstPart == IF kind = "PREFLIGHT" THEN "detail" ELSE "head"
LastPart == IF kind \in {"PREFLIGHT", "COMPARISON"} THEN "head" ELSE "detail"

-----------------------------------------------------------------------------
(* create and start.                                                       *)

Create ==
  /\ status = "none"
  /\ status' = "QUEUED"
  /\ UNCHANGED <<kind, queue, at, table, output, history, bounds>>

\* The statement after it.  The server may die before.
Enqueue ==
  /\ status = "QUEUED" /\ job = "none"
  /\ job' = "QUEUED"
  /\ UNCHANGED <<kind, status, holder, at, table, output, history, bounds>>

-----------------------------------------------------------------------------
(* execute.                                                                *)

Goes(e, to) == at' = [at EXCEPT ![e] = to]

\* A worker claims the job and calls the handler.
Begin(e) ==
  /\ at[e] = "idle" /\ job = "QUEUED"
  /\ job' = "RUNNING" /\ holder' = e
  /\ Goes(e, "read")
  /\ overlapped' = (overlapped \/ \E o \in Executor : at[o] # "idle")
  /\ UNCHANGED <<kind, status, table, output, stranded, bounds>>

Read(e) ==
  /\ at[e] = "read"
  /\ Goes(e, IF Skips THEN "end" ELSE "mark")
  /\ UNCHANGED <<kind, status, queue, table, output, history, bounds>>

Mark(e) ==
  /\ at[e] = "mark"
  /\ status' = "RUNNING"
  /\ Goes(e, "clear")
  /\ UNCHANGED <<kind, queue, table, output, history, bounds>>

\* Mutant: what an earlier execution left is kept.
EmptyNothing == UNCHANGED output

\* "A re-run replaces its own previous output rather than adding to it."
Empty ==
  /\ heads' = [i \in Covered |-> 0]
  /\ details' = [i \in Covered |-> 0]

Clear(e) ==
  /\ at[e] = "clear"
  /\ Empty
  /\ table' = [table EXCEPT ![e] = 1]
  /\ Goes(e, FirstPart)
  /\ UNCHANGED <<kind, status, queue, history, bounds>>

\* A part of a table's results is saved: go on to the other part, to the next
\* table, or to the end.
GoesOn(e) ==
  IF at[e] # LastPart
  THEN /\ Goes(e, LastPart)
       /\ UNCHANGED table
  ELSE /\ Goes(e, IF table[e] < NumTables THEN FirstPart ELSE "complete")
       /\ table' = [table EXCEPT ![e] = IF @ < NumTables THEN @ + 1 ELSE @]

Twice(e) == at[e] = "head" /\ Unique /\ heads[table[e]] > 0

SaveResult(e) ==
  /\ at[e] = "head" /\ ~Twice(e)
  /\ heads' = [heads EXCEPT ![table[e]] = @ + 1]
  /\ GoesOn(e)
  /\ UNCHANGED <<kind, status, queue, details, history, bounds>>

SaveDetails(e) ==
  /\ at[e] = "detail"
  /\ details' = [details EXCEPT ![table[e]] = @ + 1]
  /\ GoesOn(e)
  /\ UNCHANGED <<kind, status, queue, heads, history, bounds>>

Complete(e) ==
  /\ at[e] = "complete"
  /\ status' = "COMPLETED"
  /\ Goes(e, "audit")
  /\ UNCHANGED <<kind, queue, table, output, history, bounds>>

\* The entry in the audit trail.
Audit(e) ==
  /\ at[e] \in {"audit", "told"}
  /\ Goes(e, "end")
  /\ UNCHANGED <<kind, status, queue, table, output, history, bounds>>

\* A read of the source or a statement fails.
Fails(e) ==
  /\ at[e] \notin {"idle", "end", "throw"}
  /\ faults' = IF Twice(e) THEN faults ELSE faults + 1
  /\ faults' <= MaxFaults
  /\ Goes(e, IF Guarded(at[e]) THEN "catch" ELSE "throw")
  /\ stranded' = (stranded \/ (at[e] \in {"read", "mark", "clear", "catch"} /\ ~Guarded(at[e])))
  /\ UNCHANGED <<kind, status, queue, table, output, overlapped, lapses>>

\* The catch block.
Catch(e) ==
  /\ at[e] = "catch"
  /\ status' = "FAILED"
  /\ Goes(e, AfterFailure)
  /\ UNCHANGED <<kind, queue, table, output, history, bounds>>

\* complete and fail of the queue name the job, not the claim.
Settle(e, to) ==
  /\ job' = to /\ holder' = None
  /\ Goes(e, "idle")
  /\ UNCHANGED <<kind, status, table, output, history, bounds>>

Return(e) == at[e] = "end" /\ Settle(e, "DONE")
Throw(e) == at[e] = "throw" /\ Settle(e, "FAILED")

-----------------------------------------------------------------------------
(* Workers that die or are late.                                           *)

Requeue(e) ==
  IF holder = e THEN job' = "QUEUED" /\ holder' = None ELSE UNCHANGED queue

Crash(e) ==
  /\ at[e] # "idle" /\ lapses < MaxLapses
  /\ Requeue(e)
  /\ Goes(e, "idle")
  /\ lapses' = lapses + 1
  /\ UNCHANGED <<kind, status, table, output, history, faults>>

Late(e) ==
  /\ at[e] # "idle" /\ holder = e /\ lapses < MaxLapses
  /\ Requeue(e)
  /\ lapses' = lapses + 1
  /\ UNCHANGED <<kind, status, at, table, output, history, faults>>

ExecutorStep(e) ==
  \/ Begin(e) \/ Read(e) \/ Mark(e) \/ Clear(e) \/ SaveResult(e) \/ SaveDetails(e)
  \/ Complete(e) \/ Audit(e) \/ Catch(e) \/ Return(e) \/ Throw(e)
  \/ Twice(e) /\ Fails(e)

Next ==
  \/ Create \/ Enqueue
  \/ \E e \in Executor : ExecutorStep(e) \/ Fails(e) \/ Crash(e) \/ Late(e)

Spec == Init /\ [][Next]_vars

\* A worker that has begun goes on, and there is a worker to begin.
FairSpec == Spec /\ \A e \in Executor : WF_vars(ExecutorStep(e))

-----------------------------------------------------------------------------
(* "A partial profile presented as a complete one is the failure mode      *)
(* worth avoiding": a COMPLETED run has one result, with its details, of   *)
(* every table, however often it was begun and broken off before.  (As     *)
(* long as no two executions of it were in progress at a time.)            *)
CompletedIsWhole ==
  status = "COMPLETED" /\ ~overlapped =>
    \A i \in Covered : heads[i] = 1 /\ details[i] = IF kind = "COMPARISON" THEN 0 ELSE 1

(* A report somebody may have read stays as it is: while a run is          *)
(* COMPLETED no later execution changes its output or opens it again, and  *)
(* all that can happen to it is that its audit fails and it is FAILED.     *)
ReportStands ==
  [][status = "COMPLETED" /\ ~overlapped' =>
       status' \in {"COMPLETED", "FAILED"} /\ UNCHANGED output]_vars

(* A run whose job is queued comes to an end, however often its worker     *)
(* dies.  (Unless a failure happened that the handler does not record, or  *)
(* two executions of it were in progress at a time: the one that is late   *)
(* can then settle the job of the other.)                                  *)
RunEnds ==
  job = "QUEUED" ~> status \in {"COMPLETED", "FAILED"} \/ stranded \/ overlapped
=============================================================================
