--------------------------- MODULE RecordProtocol ---------------------------
(***************************************************************************)
(* The write protocol of server/src/services/migration-engine.ts for one   *)
(* table of one run: reconcile what the last execution left in doubt, then *)
(* page by page decide, record the intent, act, record the result, then    *)
(* set the deferred references and name the outcome; with the requests of  *)
(* migration-run-service.ts that act on the same rows (retry, resume,      *)
(* reconcile).  One execution runs at a time; JobQueue says when that is   *)
(* so.  The target is another database: a request sent to it is executed   *)
(* or not, and answered or not, whatever the platform records.             *)
(***************************************************************************)
EXTENDS Naturals, FiniteSets

CONSTANTS
  NumRecords,    \* records of the source table, in the order it returns them
  PageSize,      \* options.batchSize
  Width,         \* requests mapLimit keeps in flight
  MaxTries,      \* RetryPolicy.maxAttempts of a create: options.maxRetries + 1
  Evidence,      \* what would identify each created record in the target
  Conflict,      \* options.conflictStrategy for a record that is already there
  KeyOf,         \* the business or alternate key of each record
  Existing,      \* records the target holds before the run
  Same,          \* records whose values the target already has (SYNC)
  Blocked,       \* records preparation refuses (decision BLOCKED)
  Parent,        \* the record its deferred reference names, or None
  Required,      \* records whose deferred reference the target requires
  MixedCase,     \* records whose source identifier is not in lower case
  StopOnError,   \* options.stopOnFirstError
  Faults,        \* which of the faults below may happen
  MaxExecutions, \* bound: calls of execute
  None

Record == 1 .. NumRecords

Keyed(r) == Evidence[r] \in {"ALTERNATE_KEY", "BUSINESS_KEY"}

ASSUME ProtocolAssumption ==
  /\ NumRecords \in Nat /\ PageSize \in Nat \ {0}
  /\ Width \in Nat \ {0} /\ MaxTries \in Nat \ {0} /\ MaxExecutions \in Nat
  /\ Evidence \in [Record -> {"PRESERVED_ID", "ALTERNATE_KEY", "BUSINESS_KEY", "NONE"}]
  /\ Conflict \in {"UPSERT", "SYNC", "SKIP_EXISTING", "CREATE_ONLY"}
  /\ Existing \subseteq Record /\ Same \subseteq Record /\ Blocked \subseteq Record
  /\ Required \subseteq Record /\ MixedCase \subseteq Record
  /\ Parent \in [Record -> Record \cup {None}]
  /\ StopOnError \in BOOLEAN
  /\ Faults \subseteq {"crash", "database", "count", "late", "fatal", "gone"}
  /\ None \notin Record
  /\ None \notin {"old", "new"} \X Record

\* A table is matched in one way, a record without evidence has no complete key,
\* and the target holds an alternate key once.
ASSUME KeyAssumption ==
  /\ \A r, q \in Record : Evidence[r] # "NONE" /\ Evidence[q] # "NONE" => Evidence[r] = Evidence[q]
  /\ \A r, q \in Record : Keyed(r) /\ KeyOf[r] = KeyOf[q] => Keyed(q)
  /\ \A r, q \in Existing : Evidence[r] = "ALTERNATE_KEY" /\ KeyOf[r] = KeyOf[q] => r = q

VARIABLES
  status,   \* migration_runs.status
  stage,    \* where execute is, "none" outside it
  cursor,   \* the last record the current pass has read
  todo,     \* rows reconcileUnresolved has still to settle
  stuck,    \* it met a row nothing can identify
  seen,     \* RecordMatcher.seenKeys: records of this execution it remembers
  plan,     \* PlannedAction of each record of the page
  step,     \* how far each record of the page is
  tries,    \* times its request was sent
  row,      \* migration_record_maps
  err,      \* records with an unresolved error of severity ERROR
  readErr,  \* an unresolved error of operation READ: the table FAILED
  warn,     \* records with an unresolved material warning
  copies,   \* how often the target holds each record because of this run
  stray,    \* creates the target may still execute and nobody waits for
  ref,      \* records whose deferred reference the target holds
  executions,
  loose     \* history: records with a create too many, see Repeated and Concluded

execution == <<stage, cursor, todo, stuck, seen, plan, step, tries>>
ledger == <<row, err, readErr, warn>>
target == <<copies, stray, ref, loose>>
vars == <<status, execution, ledger, target, executions>>

TargetId == {"old", "new"} \X Record
Ended == {"CANCELLED", "FAILED", "NEEDS_RECONCILIATION", "COMPLETED",
          "COMPLETED_WITH_WARNINGS", "COMPLETED_WITH_ERRORS"}
Outcome == {"CREATED", "UPDATED", "SKIPPED", "FAILED", "UNRESOLVED"}
Row == [outcome: Outcome \cup {"NONE"},
        ws: {"NONE", "INTENDED", "CONFIRMED", "UNKNOWN", "RECONCILIATION_REQUIRED"},
        op: {"NONE", "CREATE", "UPDATE"},
        ev: {"NONE", "PRESERVED_ID", "ALTERNATE_KEY", "BUSINESS_KEY",
             "RECORDED_TARGET_ID"},
        tid: TargetId \cup {None},
        def: {"NONE", "PENDING", "RESOLVED", "INCOMPLETE", "FAILED"}]
NoRow == [outcome |-> "NONE", ws |-> "NONE", op |-> "NONE", ev |-> "NONE",
          tid |-> None, def |-> "NONE"]
NoPlan == [do |-> "NONE", tid |-> None]

TypeOK ==
  /\ status \in {"QUEUED", "RUNNING", "PAUSED"} \cup Ended
  /\ stage \in {"none", "begun", "reconcile", "read", "decided", "act", "deferred"}
  /\ cursor \in 0 .. NumRecords
  /\ todo \subseteq Record /\ seen \subseteq Record
  /\ stuck \in BOOLEAN /\ readErr \in BOOLEAN
  /\ plan \in [Record -> [do: {"NONE", "CREATE", "UPDATE", "SKIP", "REFUSE"},
                          tid: TargetId \cup {None}]]
  /\ step \in [Record -> {"idle", "ready", "sent", "saved"} \cup Outcome]
  /\ tries \in [Record -> 0 .. MaxTries]
  /\ row \in [Record -> Row]
  /\ err \subseteq Record /\ warn \subseteq Record /\ ref \subseteq Record
  /\ copies \in [Record -> Nat] /\ stray \in [Record -> Nat]
  /\ loose \subseteq Record
  /\ executions \in Nat

Init ==
  /\ status = "QUEUED"
  /\ stage = "none" /\ cursor = 0
  /\ todo = {} /\ stuck = FALSE /\ seen = {}
  /\ plan = [r \in Record |-> NoPlan]
  /\ step = [r \in Record |-> "idle"]
  /\ tries = [r \in Record |-> 0]
  /\ row = [r \in Record |-> NoRow]
  /\ err = {} /\ readErr = FALSE /\ warn = {}
  /\ copies = [r \in Record |-> 0]
  /\ stray = [r \in Record |-> 0]
  /\ ref = {} /\ loose = {}
  /\ executions = 0

-----------------------------------------------------------------------------
(* What the rows and the target say.                                       *)

\* isUnresolved(writeState)
InDoubt(r) == row[r].ws \in {"INTENDED", "UNKNOWN", "RECONCILIATION_REQUIRED"}

NeedsHuman(r) ==
  \/ row[r].ws = "RECONCILIATION_REQUIRED"
  \/ InDoubt(r) /\ row[r].ev = "NONE"

\* The target records a search for r finds.
Found(r) ==
  LET there == {<<"old", q>> : q \in Existing}
                 \cup {<<"new", q>> : q \in {p \in Record : copies[p] > 0}}
  IN  {t \in there : \/ t = <<"old", r>>
                     \/ Evidence[r] = "PRESERVED_ID" /\ t[2] = r
                     \/ Keyed(r) /\ KeyOf[t[2]] = KeyOf[r]}

\* findByFields returns two records: the key identifies nothing.
Several(r) ==
  \/ \E t, u \in Found(r) : t # u
  \/ \E t \in Found(r) : t[1] = "new" /\ copies[t[2]] > 1

\* The target enforces its primary key, and an alternate key.
Enforced(r) == Evidence[r] \in {"PRESERVED_ID", "ALTERNATE_KEY"}
Duplicate(r) == Enforced(r) /\ Found(r) # {}

Create(r) == copies' = [copies EXCEPT ![r] = @ + 1]

SetRow(r, new) == row' = [row EXCEPT ![r] = new]

\* A create is sent again although the one before is executed or still may be.
Repeated(r) == loose' = loose \cup {r}

\* A row is settled while a create of its record may still be executed.
Concluded(r) == loose' = loose \cup {q \in {r} : stray[q] > 0}

-----------------------------------------------------------------------------
(* execute(): its beginning and its ends.                                  *)

Forget ==
  /\ stage' = "none" /\ cursor' = 0
  /\ todo' = {} /\ stuck' = FALSE /\ seen' = {}
  /\ plan' = [r \in Record |-> NoPlan]
  /\ step' = [r \in Record |-> "idle"]
  /\ tries' = [r \in Record |-> 0]

\* The outer catch: what the status is when execute throws.  When the rows in
\* doubt cannot be counted there are none.
Aborted ==
  {IF \E r \in Record : InDoubt(r) THEN "NEEDS_RECONCILIATION" ELSE "FAILED"}
    \cup {s \in {"FAILED"} : "count" \in Faults}

\* No writer of a page is under way.
Written == \A r \in Record : step[r] \notin {"ready", "sent"}

Start ==
  /\ stage = "none" /\ status \in {"QUEUED", "RUNNING"}
  /\ executions < MaxExecutions
  /\ executions' = executions + 1
  /\ status' = "RUNNING"
  /\ stage' = "begun"
  /\ UNCHANGED <<cursor, todo, stuck, seen, plan, step, tries, ledger, target>>

\* Connections, metadata, a search or a statement fails, outside of what marks the
\* table FAILED or in it.
Abort ==
  /\ stage # "none" /\ Written /\ "database" \in Faults
  /\ status' \in Aborted
  /\ Forget
  /\ UNCHANGED <<ledger, target, executions>>

\* The process is gone; the request it was waiting for may have been executed
\* before (AnswerLost) or not.
Crash ==
  /\ stage # "none" /\ "crash" \in Faults
  /\ executions < MaxExecutions
  /\ Forget
  /\ UNCHANGED <<status, ledger, target, executions>>

\* checkControl sees a request to cancel or to pause.
Interrupt(as) ==
  /\ stage \in {"begun", "read", "deferred"}
  /\ status' = as
  /\ Forget
  /\ UNCHANGED <<ledger, target, executions>>

-----------------------------------------------------------------------------
(* reconcileUnresolved(), row by row in the order of source ids.           *)

OpenTable ==
  /\ stage = "begun"
  /\ stage' = "reconcile"
  /\ todo' = {r \in Record : row[r].ws \in {"INTENDED", "UNKNOWN"}}
  /\ UNCHANGED <<status, cursor, stuck, seen, plan, step, tries,
                 ledger, target, executions>>

Settle(r, outcome, ws, tid) ==
  /\ SetRow(r, [row[r] EXCEPT !.outcome = outcome, !.ws = ws,
                              !.tid = IF tid = None THEN @ ELSE tid])
  /\ err' = IF ws = "CONFIRMED" THEN err \ ({r} \ MixedCase) ELSE err
  /\ UNCHANGED <<readErr, warn>>

\* Mutant: "no evidence" is collapsed into "not there".
NoEvidenceIsAbsence(r) == FALSE

\* findIntendedRecord returns NO_EVIDENCE.
NoEvidence(r) ==
  \/ row[r].ev = "NONE"
  \/ row[r].ev = "RECORDED_TARGET_ID" /\ row[r].tid = None
  \/ row[r].ev = "BUSINESS_KEY" /\ Several(r)

\* The source record, or its key, is gone when it is asked for.
KeyGone(r) == "gone" \in Faults /\ row[r].ev \in {"ALTERNATE_KEY", "BUSINESS_KEY"}

NeedsSearch(r) == ~(row[r].op = "UPDATE" /\ row[r].tid # None)

Reconcile(r) ==
  /\ stage = "reconcile" /\ r \in todo
  /\ \A q \in todo : r <= q
  /\ todo' = todo \ {r}
  /\ \/ /\ ~NeedsSearch(r)
        /\ Settle(r, "FAILED", "NONE", None)
        /\ UNCHANGED <<stuck, loose>>
     \/ /\ NeedsSearch(r) /\ (NoEvidence(r) \/ KeyGone(r))
        /\ Settle(r, "UNRESOLVED", "RECONCILIATION_REQUIRED", None)
        /\ stuck' = TRUE
        /\ UNCHANGED loose
     \/ /\ NeedsSearch(r) /\ ~NoEvidence(r)
        /\ IF Found(r) = {}
           THEN Settle(r, "FAILED", "NONE", None)
           ELSE \E t \in Found(r) :
                  Settle(r, IF row[r].op = "UPDATE" THEN "UPDATED" ELSE "CREATED",
                         "CONFIRMED", t)
        /\ Concluded(r)
        /\ UNCHANGED stuck
  /\ UNCHANGED <<status, stage, cursor, seen, plan, step, tries, copies, stray, ref,
                 executions>>

Reconciled ==
  /\ stage = "reconcile" /\ todo = {}
  /\ IF stuck
     THEN Forget /\ status' \in Aborted
     ELSE /\ stage' = "read"
          /\ UNCHANGED <<status, cursor, todo, stuck, seen, plan, step, tries>>
  /\ UNCHANGED <<ledger, target, executions>>

-----------------------------------------------------------------------------
(* A page: read, decide, record the intents.                               *)

\* Mutant: the filter asks for the outcome as it did before UNRESOLVED existed.
PendingUnlessWritten(r) == row[r].outcome \in {"NONE", "FAILED", "UNRESOLVED"}

Pending(r) == row[r].outcome = "NONE" \/ (~InDoubt(r) /\ row[r].outcome = "FAILED")

\* rememberKey: an earlier record of this execution has the same key.
RepeatsKey(r, page) ==
  Keyed(r) /\ \E q \in seen \cup page : q < r /\ KeyOf[q] = KeyOf[r]

\* decideAction for a record that is there.
OnMatch(r) ==
  CASE Conflict = "SKIP_EXISTING" -> "SKIP"
    [] Conflict = "CREATE_ONLY" -> "REFUSE"
    [] Conflict = "UPSERT" -> "UPDATE"
    [] Conflict = "SYNC" -> IF r \in Same THEN "SKIP" ELSE "UPDATE"

\* RecordMatcher.match and decideAction.
Decision(r, page) ==
  IF r \in Blocked \/ RepeatsKey(r, page) \/ Several(r)
  THEN [do |-> "REFUSE", tid |-> None]
  ELSE IF Found(r) = {} THEN [do |-> "CREATE", tid |-> None]
  ELSE [do |-> OnMatch(r), tid |-> CHOOSE t \in Found(r) : TRUE]

\* The next page of the source: its pending records are matched and planned.
Decide ==
  /\ stage = "read" /\ cursor < NumRecords
  /\ LET last == IF cursor + PageSize < NumRecords
                 THEN cursor + PageSize ELSE NumRecords
         page == {r \in cursor + 1 .. last : Pending(r)}
     IN  /\ cursor' = last
         /\ seen' = seen \cup page
         /\ plan' = [r \in Record |-> IF r \in page THEN Decision(r, page) ELSE NoPlan]
         /\ step' = [r \in Record |->
                       IF r \notin page THEN "idle"
                       ELSE CASE Decision(r, page).do = "REFUSE" -> "FAILED"
                              [] Decision(r, page).do = "SKIP" -> "SKIPPED"
                              [] OTHER -> "ready"]
         /\ stage' = IF page = {} THEN "read" ELSE "decided"
  /\ UNCHANGED <<status, todo, stuck, tries, ledger, target, executions>>

Intent(r) ==
  [outcome |-> "UNRESOLVED", ws |-> "INTENDED", op |-> plan[r].do,
   ev |-> IF plan[r].do = "UPDATE" THEN "RECORDED_TARGET_ID" ELSE Evidence[r],
   tid |-> IF row[r] = NoRow THEN plan[r].tid ELSE row[r].tid,
   def |-> row[r].def]

\* Mutant: no intents.
IntendNothing ==
  /\ stage = "decided"
  /\ stage' = "act"
  /\ UNCHANGED <<status, cursor, todo, stuck, seen, plan, step, tries,
                 ledger, target, executions>>

\* persistIntents: an insert, or an update that leaves target_id as it is.
Intend ==
  /\ stage = "decided"
  /\ stage' = "act"
  /\ row' = [r \in Record |-> IF step[r] = "ready" THEN Intent(r) ELSE row[r]]
  /\ UNCHANGED <<status, cursor, todo, stuck, seen, plan, step, tries,
                 err, readErr, warn, target, executions>>

-----------------------------------------------------------------------------
(* The writes of the page, Width at a time, each through withRetry.        *)

Advance(r, to) == step' = [step EXCEPT ![r] = to]

Send(r) ==
  /\ stage = "act" /\ step[r] = "ready"
  /\ \A q \in Record : step[q] = "ready" => r <= q
  /\ Cardinality({q \in Record : step[q] = "sent"}) < Width
  /\ Advance(r, "sent")
  /\ tries' = [tries EXCEPT ![r] = 1]
  /\ UNCHANGED <<status, stage, cursor, todo, stuck, seen, plan,
                 ledger, target, executions>>

Creating(r) == step[r] = "sent" /\ plan[r].do = "CREATE"

Accept(r) ==
  /\ Creating(r) /\ ~Duplicate(r)
  /\ Create(r)
  /\ Advance(r, "CREATED")
  /\ UNCHANGED <<status, stage, cursor, todo, stuck, seen, plan, tries,
                 stray, ref, loose, ledger, executions>>

\* Mutant: verdictOf calls a lost answer a refusal.
LostIsRefused == "FAILED"

\* What applyDecision makes of an AMBIGUOUS error.
Lost == "UNRESOLVED"

MayTryAgain(r) == tries[r] < MaxTries

\* The answer is a timeout, a reset or a 5xx: send again, or give up.
AgainOrLost(r) ==
  IF MayTryAgain(r)
  THEN tries' = [tries EXCEPT ![r] = @ + 1] /\ UNCHANGED step
  ELSE Advance(r, Lost) /\ UNCHANGED tries

\* No answer: the target has executed the request, never will, or may later.
AnswerLost(r) ==
  /\ Creating(r)
  /\ AgainOrLost(r)
  /\ \/ UNCHANGED <<copies, stray, loose>>
     \/ /\ \/ Create(r) /\ ~Duplicate(r) /\ UNCHANGED stray
           \/ /\ "late" \in Faults
              /\ stray' = [stray EXCEPT ![r] = @ + 1]
              /\ UNCHANGED copies
        /\ IF MayTryAgain(r) THEN Repeated(r) ELSE UNCHANGED loose
  /\ UNCHANGED <<status, stage, cursor, todo, stuck, seen, plan, ref,
                 ledger, executions>>

\* A definite rejection: always when the record is there and the target knows.
Refuse(r) ==
  /\ Creating(r)
  /\ Advance(r, "FAILED")
  /\ UNCHANGED <<status, stage, cursor, todo, stuck, seen, plan, tries,
                 ledger, target, executions>>

\* An update succeeds, or fails whatever the error means.
Update(r) ==
  /\ step[r] = "sent" /\ plan[r].do = "UPDATE"
  /\ \E to \in {"UPDATED", "FAILED"} : Advance(r, to)
  /\ UNCHANGED <<status, stage, cursor, todo, stuck, seen, plan, tries,
                 ledger, target, executions>>

\* AUTH_REQUIRED: the page is abandoned.  The other writers of mapLimit are not
\* told and work through what is left of it.
Fatal(r) ==
  /\ step[r] = "sent" /\ "fatal" \in Faults
  /\ stray' = [q \in Record |->
                 IF q # r /\ step[q] \in {"ready", "sent"} /\ plan[q].do = "CREATE"
                 THEN stray[q] + 1 ELSE stray[q]]
  /\ status' \in Aborted
  /\ Forget
  /\ UNCHANGED <<copies, ref, loose, ledger, executions>>

\* The target: a create nobody waits for is executed, or comes to nothing.
StrayCreate(r) ==
  /\ stray[r] > 0 /\ ~Duplicate(r)
  /\ stray' = [stray EXCEPT ![r] = @ - 1]
  /\ Create(r)
  /\ UNCHANGED <<status, execution, ledger, ref, loose, executions>>

StrayLost(r) ==
  /\ stray[r] > 0
  /\ stray' = [stray EXCEPT ![r] = @ - 1]
  /\ UNCHANGED <<status, execution, ledger, copies, ref, loose, executions>>

-----------------------------------------------------------------------------
(* The results of the page.                                                *)

Result(r) ==
  LET o == step[r]
      wrote == o \in {"CREATED", "UPDATED"}
  IN  [outcome |-> o,
       ws |-> IF wrote THEN "CONFIRMED" ELSE IF o = "UNRESOLVED" THEN "UNKNOWN" ELSE "NONE",
       op |-> IF o = "UNRESOLVED" THEN "CREATE" ELSE "NONE",
       ev |-> row[r].ev,
       tid |-> CASE o = "CREATED" -> <<"new", r>>
                 [] o \in {"UPDATED", "SKIPPED"} -> plan[r].tid
                 [] o = "FAILED" /\ plan[r].do = "REFUSE" -> plan[r].tid
                 [] OTHER -> None,
       def |-> IF wrote /\ Parent[r] # None THEN "PENDING" ELSE "NONE"]

\* persistResults, one record at a time.
Persist(r) ==
  /\ stage = "act" /\ Written
  /\ step[r] \in Outcome
  /\ \A q \in Record : step[q] \in Outcome => r <= q
  /\ SetRow(r, Result(r))
  /\ err' = IF step[r] \in {"FAILED", "UNRESOLVED"} THEN err \cup {r} ELSE err \ {r}
  /\ Advance(r, "saved")
  /\ UNCHANGED <<status, stage, cursor, todo, stuck, seen, plan, tries,
                 readErr, warn, target, executions>>

Saved == {r \in Record : step[r] = "saved"}

\* The page is done; stopOnFirstError looks at its results.
EndPage ==
  /\ Saved # {} /\ \A r \in Record : step[r] \in {"idle", "saved"}
  /\ IF StopOnError /\ \E r \in Saved : row[r].outcome = "FAILED"
     THEN Forget /\ status' \in Aborted
     ELSE /\ stage' = "read"
          /\ step' = [r \in Record |-> "idle"]
          /\ plan' = [r \in Record |-> NoPlan]
          /\ tries' = [r \in Record |-> 0]
          /\ UNCHANGED <<status, cursor, todo, stuck, seen>>
  /\ UNCHANGED <<ledger, target, executions>>

\* Pass 1 of the table is over, and pass 2 starts from its first row.
Pass2 ==
  /\ stage' = "deferred" /\ cursor' = 0
  /\ step' = [r \in Record |-> "idle"]
  /\ plan' = [r \in Record |-> NoPlan]
  /\ tries' = [r \in Record |-> 0]
  /\ UNCHANGED <<status, todo, stuck, seen>>

EndTable ==
  /\ stage = "read" /\ cursor = NumRecords
  /\ Pass2
  /\ UNCHANGED <<ledger, target, executions>>

\* The table is missing, or the source, the matcher or our own database fails
\* between the writes: a READ error is recorded, the table is marked FAILED, and
\* the run goes on.
PageFails ==
  /\ "database" \in Faults
  /\ stage \in {"begun", "read", "decided", "act"} /\ Written
  /\ readErr' = TRUE
  /\ Pass2
  /\ UNCHANGED <<row, err, warn, target, executions>>

-----------------------------------------------------------------------------
(* resolveDeferred: the rows in key order, each once, and the outcome.     *)

\* Mutant: the page is selected by status alone.
DeferredByStatus ==
  {r \in Record : row[r].def \in {"PENDING", "INCOMPLETE", "FAILED"} /\ row[r].tid # None}

Deferred ==
  {r \in Record : /\ r > cursor
                  /\ row[r].def \in {"PENDING", "INCOMPLETE", "FAILED"}
                  /\ row[r].tid # None}

IsNext(r) == stage = "deferred" /\ r \in Deferred /\ \A q \in Deferred : r <= q

\* resolveLookup: the identity map, or the same identifier in the target.
Resolvable(r) ==
  \/ row[Parent[r]].outcome \notin {"NONE", "FAILED"} /\ row[Parent[r]].tid # None
  \/ Evidence[Parent[r]] = "PRESERVED_ID" /\ Found(Parent[r]) # {}

\* The target applies the update; whether anybody learns it is another matter.
SetReference(r) ==
  /\ IsNext(r) /\ Resolvable(r) /\ r \notin ref
  /\ ref' = ref \cup {r}
  /\ UNCHANGED <<status, execution, ledger, copies, stray, loose, executions>>

Deferral(r, as) ==
  \/ as = "RESOLVED" /\ Resolvable(r) /\ r \in ref
  \/ as = "FAILED" /\ (Resolvable(r) \/ r \in Required)
  \/ as = "INCOMPLETE" /\ ~Resolvable(r) /\ r \notin Required

RecordDeferred(r, as) ==
  /\ IsNext(r) /\ Deferral(r, as)
  /\ SetRow(r, [row[r] EXCEPT !.def = as])
  /\ warn' = IF as = "INCOMPLETE" THEN warn \cup {r} ELSE warn
  /\ cursor' = r
  /\ UNCHANGED <<status, stage, todo, stuck, seen, plan, step, tries,
                 err, readErr, target, executions>>

\* Mutant: only the records are counted, as the code once did.
OutcomeOfRecords ==
  IF \E r \in Record : row[r].outcome = "FAILED" THEN "COMPLETED_WITH_ERRORS"
  ELSE "COMPLETED"

\* decideRunStatus on the counts of this run.
RunOutcome ==
  IF \E r \in Record : InDoubt(r) THEN "NEEDS_RECONCILIATION"
  ELSE IF readErr \/ err # {} \/ \E r \in Record : "FAILED" \in {row[r].outcome, row[r].def}
       THEN "COMPLETED_WITH_ERRORS"
  ELSE IF warn # {} \/ \E r \in Record : row[r].def = "INCOMPLETE"
       THEN "COMPLETED_WITH_WARNINGS"
  ELSE "COMPLETED"

Finish ==
  /\ stage = "deferred" /\ Deferred = {}
  /\ status' = RunOutcome
  /\ Forget
  /\ UNCHANGED <<ledger, target, executions>>

-----------------------------------------------------------------------------
(* migration-run-service.ts.                                               *)

\* What somebody who looks in the target finds of r.
Seen(r) ==
  IF copies[r] > 0 THEN {<<"new", r>>}
  ELSE IF row[r].op = "UPDATE" THEN Found(r) ELSE {}

\* reconcile(): PRESENT or ABSENT, and true.  UNCLEAR and MULTIPLE settle nothing.
ReconcileByHand(r) ==
  /\ status = "NEEDS_RECONCILIATION" /\ InDoubt(r)
  /\ copies[r] <= 1
  /\ \/ \E t \in Seen(r) :
          SetRow(r, [row[r] EXCEPT !.outcome = "CREATED", !.ws = "CONFIRMED", !.tid = t])
     \/ /\ Seen(r) = {}
        /\ SetRow(r, [row[r] EXCEPT !.outcome = "FAILED", !.ws = "NONE", !.tid = None])
  /\ status' = IF \A q \in Record \ {r} : ~InDoubt(q)
               THEN "COMPLETED_WITH_ERRORS" ELSE status
  /\ Concluded(r)
  /\ UNCHANGED <<execution, err, readErr, warn, copies, stray, ref, executions>>

\* retrySafety: something an attempt would act on.
WorkWaiting ==
  \E r \in Record : \/ row[r].outcome \in {"NONE", "FAILED", "UNRESOLVED"}
                    \/ row[r].def \in {"PENDING", "INCOMPLETE", "FAILED"}
                    \/ r \in warn

Retry ==
  /\ status \in Ended \ {"COMPLETED"}
  /\ \A r \in Record : ~NeedsHuman(r)
  /\ WorkWaiting
  /\ status' = "QUEUED"
  /\ UNCHANGED <<execution, ledger, target, executions>>

Resume ==
  /\ status = "PAUSED"
  /\ status' = "QUEUED"
  /\ UNCHANGED <<execution, ledger, target, executions>>

-----------------------------------------------------------------------------
RecordStep(r) ==
  \/ Reconcile(r) \/ Send(r) \/ Accept(r) \/ AnswerLost(r) \/ Refuse(r)
  \/ Update(r) \/ Persist(r) \/ SetReference(r)
  \/ \E as \in {"RESOLVED", "INCOMPLETE", "FAILED"} : RecordDeferred(r, as)

ExecutionStep ==
  \/ Start \/ OpenTable \/ Reconciled \/ Decide \/ Intend \/ EndPage \/ EndTable \/ Finish
  \/ \E r \in Record : RecordStep(r)

Disturbance ==
  \/ Abort \/ Crash \/ PageFails
  \/ \E as \in {"CANCELLED", "PAUSED"} : Interrupt(as)
  \/ \E r \in Record : Fatal(r) \/ StrayCreate(r) \/ StrayLost(r)

Request == Retry \/ Resume \/ \E r \in Record : ReconcileByHand(r)

Next == ExecutionStep \/ Disturbance \/ Request

Spec == Init /\ [][Next]_vars

(* The worker runs the job again after a crash (JobQueue) and the target   *)
(* answers or the client times out; nobody owes a fault or a request.      *)
FairSpec == Spec /\ WF_vars(ExecutionStep)

-----------------------------------------------------------------------------
(* "Never create a second record merely because we lost evidence of the    *)
(* first one" (CRASH_CONSISTENCY.md): a record is created at most once,    *)
(* over every execution, reconciliation, retry and late request of the     *)
(* run, unless its own create was repeated or given up while an earlier    *)
(* one could be executed and the target keeps nothing unique of it.        *)
AtMostOneCopy ==
  \A r \in Record : copies[r] > 1 => r \in loose /\ ~Enforced(r)

(* A row whose outcome is FAILED is processed again, so what it says must  *)
(* be true: this run has not put the record into the target, and nothing   *)
(* under way will.                                                         *)
FailedIsAbsent ==
  \A r \in Record \ loose : row[r].outcome = "FAILED" => copies[r] = 0 /\ stray[r] = 0

(* A create is only ever in the target, or on its way there, with a row    *)
(* that claims it or keeps it in doubt, even if the process dies between   *)
(* the two databases.                                                      *)
CopiesAreOnRecord ==
  \A r \in Record \ loose :
    copies[r] + stray[r] > 0 => row[r].outcome = "CREATED" \/ InDoubt(r)

(* COMPLETED means that each record of the source has its record in the    *)
(* target: that the outcome is named from every signal and not only from   *)
(* the failed records.                                                     *)
CompletedIsWhole ==
  status = "COMPLETED" =>
    \A r \in Record :
      /\ row[r].outcome \in {"CREATED", "UPDATED", "SKIPPED"}
      /\ \/ row[r].tid = <<"new", r>> /\ copies[r] > 0
         \/ row[r].tid \in Found(r)

(* "A run may not be called complete while the outcome of any write is     *)
(* unknown" (migration-engine.ts:1893), and neither failed: whatever ends  *)
(* it, a row in doubt makes it NEEDS_RECONCILIATION.                       *)
CompletedHasNoDoubt ==
  status \in {"COMPLETED", "COMPLETED_WITH_WARNINGS", "COMPLETED_WITH_ERRORS", "FAILED"}
    => \A r \in Record : ~InDoubt(r)

(* UNRESOLVED "is resolved by reconciliation or by a person"               *)
(* (CRASH_CONSISTENCY.md): a row only a person can settle blocks a retry,  *)
(* so the run must be in the one status in which reconcile() listens.      *)
DoubtHasAWayOut ==
  status \in Ended /\ (\E r \in Record : NeedsHuman(r)) => status = "NEEDS_RECONCILIATION"

(* COMPLETED: "nothing omitted" (MIGRATION_OUTCOME_SEMANTICS.md:152).      *)
CompletedCarriesReferences ==
  status = "COMPLETED" =>
    \A r \in Record : row[r].outcome \in {"CREATED", "UPDATED"} /\ Parent[r] # None
                        => r \in ref

(* "An update needs no search" (migration-engine.ts:887): a person is      *)
(* never asked about one.                                                  *)
UpdateNeedsNobody ==
  \A r \in Record : row[r].op = "UPDATE" => row[r].ws # "RECONCILIATION_REQUIRED"

(* However often its process dies, an execution that starts comes to an    *)
(* end: no pass reads a row it has written again and again.                *)
RunEnds == status = "RUNNING" ~> status # "RUNNING"
-----------------------------------------------------------------------------
(* The abstract protocol, as the rows and the target show it.              *)
Known(r) ==
  IF r \in loose THEN "lost"
  ELSE IF row[r].outcome = "CREATED" /\ row[r].tid = <<"new", r>> THEN "yes"
  ELSE IF InDoubt(r) /\ row[r].op = "CREATE" THEN "maybe" ELSE "no"

Abstract == INSTANCE WriteOnce WITH known <- [r \in Record |-> Known(r)]

(* Each step of the engine, of the target, of a crash and of a person is a *)
(* step of the abstract protocol, or changes nothing it can see: no create *)
(* without its row, no second create and no verdict the target contradicts *)
(* of a record that is not lost to the protocol, and only a record in      *)
(* doubt is lost.                                                          *)
ImplementsWriteOnce == Abstract!Spec
=============================================================================
