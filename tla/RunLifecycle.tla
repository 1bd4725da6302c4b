---------------------------- MODULE RunLifecycle ----------------------------
(***************************************************************************)
(* The life of migration runs: the requests of migration-run-service.ts    *)
(* (start, cancel, pause, resume, retry, reconcile), each of which reads   *)
(* and then writes without a transaction, the jobs they enqueue, and the   *)
(* statuses execute() in migration-engine.ts writes while it works through *)
(* the pages of a run.  JobQueue says that one job is executed once at a   *)
(* time; RecordProtocol says what happens inside a page.                   *)
(***************************************************************************)
EXTENDS Naturals, FiniteSets

CONSTANTS
  Run,         \* migration runs
  TargetOf,    \* the environment each run writes into
  Client,      \* requests the API server serves at the same time
  Requests,    \* the kinds of request that are made
  Slots,       \* jobs all workers together execute at the same time
  Faults,      \* which of the faults below may happen
  MaxJobs,     \* bound: jobs that are enqueued
  MaxFaults,   \* bound: faults
  None

Job == 1 .. MaxJobs   \* in the order of created_at

ASSUME LifecycleAssumption ==
  /\ Requests \subseteq {"start", "cancel", "pause", "resume", "retry", "reconcile"}
  /\ Faults \subseteq {"crash", "database", "tail", "api"}
  /\ Slots \in Nat \ {0} /\ MaxJobs \in Nat /\ MaxFaults \in Nat
  /\ None \notin Run

VARIABLES
  status,   \* migration_runs.status, "NONE" before the row is inserted
  cancel,   \* runs with cancel_requested
  pause,    \* runs with pause_requested
  doubt,    \* what the rows of a run leave in doubt, and who can settle it
  of,       \* the run each job was enqueued for, or None
  at,       \* where each job is
  request,  \* what each client is in the middle of
  faults,
  crossed   \* history: runs that were lost to the exclusions below, see Cross

vars == <<status, cancel, pause, doubt, of, at, request, faults, crossed>>

Active == {"QUEUED", "RUNNING", "PAUSED"}
Wanted == {"QUEUED", "RUNNING"}
Retryable == {"COMPLETED_WITH_ERRORS", "FAILED", "CANCELLED", "NEEDS_RECONCILIATION"}
Status == {"NONE", "COMPLETED"} \cup Active \cup Retryable
Idle == [does |-> "nothing", run |-> None]
Does == {"nothing", "insert", "stop", "ask", "pause", "resume", "retry", "enqueue",
         "settle", "count", "close"}

\* Where execute is: it has read the run, it will look at the flags, it writes a
\* page, it has thrown, it will write the final status, it has written it, it
\* returns and its job is completed.
Executing == {"loaded", "control", "page", "cancelling", "pausing", "failing", "end",
              "tail", "returning"}

TypeOK ==
  /\ status \in [Run -> Status]
  /\ cancel \subseteq Run /\ pause \subseteq Run
  /\ doubt \in [Run -> {"none", "target", "person"}]
  /\ of \in [Job -> Run \cup {None}]
  /\ at \in [Job -> {"none", "queued", "over"} \cup Executing]
  /\ \A j \in Job : of[j] = None <=> at[j] = "none"
  /\ request \in [Client -> [does: Does, run: Run \cup {None}]]
  /\ \A c \in Client : request[c].run = None <=> request[c].does = "nothing"
  /\ faults \in 0 .. MaxFaults
  /\ crossed \subseteq Run

Init ==
  /\ status = [r \in Run |-> "NONE"]
  /\ cancel = {} /\ pause = {}
  /\ doubt = [r \in Run |-> "none"]
  /\ of = [j \in Job |-> None]
  /\ at = [j \in Job |-> "none"]
  /\ request = [c \in Client |-> Idle]
  /\ faults = 0
  /\ crossed = {}

-----------------------------------------------------------------------------
(* execute(), one step per await that others can get in between of.        *)

flags == <<cancel, pause>>
world == <<doubt, of, request, faults, crossed>>

\* History.  Three things the code lets happen lose a run to the exclusions below:
\* its start met that of another run of its target (Ask); it was stopped or closed
\* while it was QUEUED or RUNNING (StopNow, Close); its execution failed after it had
\* written the final status (Crash, TailFails).
Cross(runs) == crossed' = crossed \cup runs

SetStatus(r, to) == status' = [status EXCEPT ![r] = to]

Move(j, to) == at' = [at EXCEPT ![j] = to]

\* Mutant: execute takes a QUEUED run only.
ClaimFresh(j) ==
  /\ at[j] = "queued"
  /\ \A k \in Job : at[k] = "queued" => j <= k
  /\ Cardinality({k \in Job : at[k] \in Executing}) < Slots
  /\ Move(j, IF status[of[j]] = "QUEUED" THEN "loaded" ELSE "over")
  /\ UNCHANGED <<status, flags, world>>

\* A worker claims the oldest job; execute reads the run.
Claim(j) ==
  /\ at[j] = "queued"
  /\ \A k \in Job : at[k] = "queued" => j <= k
  /\ Cardinality({k \in Job : at[k] \in Executing}) < Slots
  /\ Move(j, IF status[of[j]] \in Wanted THEN "loaded" ELSE "over")
  /\ UNCHANGED <<status, flags, world>>

\* The status becomes RUNNING, whatever it has become since it was read.
Begin(j) ==
  /\ at[j] = "loaded"
  /\ SetStatus(of[j], "RUNNING")
  /\ Move(j, "control")
  /\ UNCHANGED <<flags, world>>

\* Mutant: the flags are looked at when a run begins, and not between its pages.
CheckNothing(j) ==
  /\ at[j] = "control"
  /\ \E to \in {"page", "end"} : Move(j, to)
  /\ UNCHANGED <<status, flags, world>>

\* checkControl, before each page: go on, or stop.
CheckControl(j) ==
  /\ at[j] = "control"
  /\ \/ of[j] \in cancel /\ Move(j, "cancelling")
     \/ of[j] \notin cancel /\ of[j] \in pause /\ Move(j, "pausing")
     \/ /\ of[j] \notin cancel \cup pause
        /\ \E to \in {"page", "end"} : Move(j, to)
  /\ UNCHANGED <<status, flags, world>>

\* A page is written, or stops the run.  What only a person can settle stays.
Page(j) ==
  /\ at[j] = "page"
  /\ \E to \in {"control", "failing"} : Move(j, to)
  /\ \E d \in {"none", "target", "person"} :
       /\ doubt[of[j]] = "person" => d = "person"
       /\ doubt' = [doubt EXCEPT ![of[j]] = d]
  /\ UNCHANGED <<status, flags, of, request, faults, crossed>>

\* The catch for RunInterrupted.
Interrupted(j) ==
  /\ at[j] \in {"cancelling", "pausing"}
  /\ SetStatus(of[j], IF at[j] = "cancelling" THEN "CANCELLED" ELSE "PAUSED")
  /\ pause' = pause \ {of[j]}
  /\ Move(j, "returning")
  /\ UNCHANGED <<cancel, world>>

\* A connection, a count or a statement between the pages throws.
Breaks(j) ==
  /\ at[j] \in {"control", "end"}
  /\ Move(j, "failing")
  /\ UNCHANGED <<status, flags, world>>

\* When the rows in doubt cannot be counted there are none.
Aborted(r) ==
  {IF doubt[r] = "none" THEN "FAILED" ELSE "NEEDS_RECONCILIATION"}
    \cup {s \in {"FAILED"} : "database" \in Faults}

\* The catch for everything else.
Failed(j) ==
  /\ at[j] = "failing"
  /\ \E s \in Aborted(of[j]) : SetStatus(of[j], s)
  /\ Move(j, "returning")
  /\ UNCHANGED <<flags, world>>

Finish(j) ==
  /\ at[j] = "end"
  /\ \E s \in {"COMPLETED", "COMPLETED_WITH_ERRORS"} :
       SetStatus(of[j], IF doubt[of[j]] = "none" THEN s ELSE "NEEDS_RECONCILIATION")
  /\ Move(j, "tail")
  /\ UNCHANGED <<flags, world>>

\* The watermark, the plan, the alert and the audit record are written, and the
\* worker completes the job.
Return(j) ==
  /\ at[j] \in {"tail", "returning"}
  /\ Move(j, "over")
  /\ UNCHANGED <<status, flags, world>>

-----------------------------------------------------------------------------
(* What can go wrong around it.                                            *)

Fault(kind) ==
  /\ kind \in Faults /\ faults < MaxFaults
  /\ faults' = faults + 1

\* The worker dies, and the sweep of JobQueue puts its job back.
Crash(j) ==
  /\ at[j] \in Executing /\ Fault("crash")
  /\ Move(j, "queued")
  /\ Cross(IF at[j] \in {"tail", "returning"} THEN {of[j]} ELSE {})
  /\ UNCHANGED <<status, flags, doubt, of, request>>

\* The statement that reads the run or makes it RUNNING fails outside the try, or
\* the one in the catch fails: execute throws, and its job is FAILED for good.
Throws(j) ==
  /\ at[j] \in {"loaded", "cancelling", "pausing", "failing"} /\ Fault("database")
  /\ Move(j, "over")
  /\ UNCHANGED <<status, flags, doubt, of, request, crossed>>

\* Something after the final status throws: the catch writes another one.
TailFails(j) ==
  /\ at[j] = "tail" /\ Fault("tail")
  /\ Move(j, "failing")
  /\ Cross({of[j]})
  /\ UNCHANGED <<status, flags, doubt, of, request>>

-----------------------------------------------------------------------------
(* Requests: what they read, then what they write.                         *)

ActiveOn(target) == {r \in Run : TargetOf[r] = target /\ status[r] \in Active}

MayStart(r) == status[r] = "NONE" /\ ActiveOn(TargetOf[r]) = {}
MayPause(r) == status[r] \in {"RUNNING", "QUEUED"}
MayResume(r) == status[r] = "PAUSED"

MayReconcile(r) == status[r] = "NEEDS_RECONCILIATION"

\* Mutant: a retry also takes a run that seems to have lost its worker.
MayRetryRunning(r) ==
  /\ status[r] \in Retryable \cup {"RUNNING"}
  /\ doubt[r] # "person"
  /\ ActiveOn(TargetOf[r]) \ {r} = {}

\* Mutant: a retry does not look for another active run.
MayRetryUnseen(r) == status[r] \in Retryable /\ doubt[r] # "person"

MayRetry(r) ==
  /\ status[r] \in Retryable
  /\ doubt[r] # "person"
  /\ ActiveOn(TargetOf[r]) = {}

\* What the status of r lets a request go on to do.
Allowed(r) ==
  {d \in {"insert", "stop", "ask", "pause", "resume", "retry", "settle"} :
     CASE d = "insert" -> "start" \in Requests /\ MayStart(r)
       [] d = "stop" -> "cancel" \in Requests /\ status[r] \in {"QUEUED", "PAUSED"}
       [] d = "ask" -> "cancel" \in Requests /\ status[r] = "RUNNING"
       [] d = "pause" -> "pause" \in Requests /\ MayPause(r)
       [] d = "resume" -> "resume" \in Requests /\ MayResume(r)
       [] d = "retry" -> "retry" \in Requests /\ MayRetry(r)
       [] d = "settle" -> "reconcile" \in Requests /\ MayReconcile(r)}

Goes(c, does, r) == request' = [request EXCEPT ![c] = [does |-> does, run |-> r]]

Answered(c) == request' = [request EXCEPT ![c] = Idle]

Starting == {"insert", "resume", "retry", "enqueue"}

\* The runs of its target that are being started.
Meeting(r) ==
  {q \in Run : /\ TargetOf[q] = TargetOf[r]
               /\ \E d \in Client : request[d].does \in Starting /\ request[d].run = q}

\* The run, its records in doubt and the active runs of its target are read.
Ask(c, r) ==
  /\ request[c] = Idle
  /\ \E does \in Allowed(r) :
       /\ Goes(c, does, r)
       /\ Cross(IF does \in Starting /\ Meeting(r) # {} THEN {r} \cup Meeting(r) ELSE {})
  /\ UNCHANGED <<status, flags, doubt, of, at, faults>>

Pending(c, does) == request[c].does = does

\* start: the run is inserted, and its tables.
Insert(c) ==
  /\ Pending(c, "insert")
  /\ SetStatus(request[c].run, "QUEUED")
  /\ Goes(c, "enqueue", request[c].run)
  /\ UNCHANGED <<flags, doubt, of, at, faults, crossed>>

\* requeue, for resume and retry: whatever the status has become.
Requeue(c) ==
  /\ Pending(c, "resume") \/ Pending(c, "retry")
  /\ LET r == request[c].run
     IN  /\ SetStatus(r, "QUEUED")
         /\ cancel' = cancel \ {r} /\ pause' = pause \ {r}
         /\ Goes(c, "enqueue", r)
  /\ UNCHANGED <<doubt, of, at, faults, crossed>>

Enqueue(c) ==
  /\ Pending(c, "enqueue")
  /\ \E j \in Job :
       /\ at[j] = "none" /\ \A k \in Job : at[k] = "none" => j <= k
       /\ of' = [of EXCEPT ![j] = request[c].run]
       /\ Move(j, "queued")
  /\ Answered(c)
  /\ UNCHANGED <<status, flags, doubt, faults, crossed>>

\* cancel, of a run that was not running, and of one that was.
StopNow(c) ==
  /\ Pending(c, "stop")
  /\ SetStatus(request[c].run, "CANCELLED")
  /\ cancel' = cancel \cup {request[c].run}
  /\ Cross({request[c].run} \cap {r \in Run : status[r] \in Wanted})
  /\ Answered(c)
  /\ UNCHANGED <<pause, doubt, of, at, faults>>

AskToStop(c) ==
  /\ Pending(c, "ask")
  /\ cancel' = cancel \cup {request[c].run}
  /\ Answered(c)
  /\ UNCHANGED <<status, pause, doubt, of, at, faults, crossed>>

\* Mutant: a pause is written as the status, as a cancel of a waiting run is.
PauseNow(c) ==
  /\ Pending(c, "pause")
  /\ SetStatus(request[c].run, "PAUSED")
  /\ Answered(c)
  /\ UNCHANGED <<flags, doubt, of, at, faults, crossed>>

AskToPause(c) ==
  /\ Pending(c, "pause")
  /\ pause' = pause \cup {request[c].run}
  /\ Answered(c)
  /\ UNCHANGED <<status, cancel, doubt, of, at, faults, crossed>>

\* reconcile: the rows a person has looked at, all of them or not; an entry that is
\* refused ends the request between the two.
Settle(c) ==
  /\ Pending(c, "settle")
  /\ LET r == request[c].run
     IN  /\ \E d \in {"none", "target", "person"} :
              /\ doubt[r] = "none" => d = "none"
              /\ d = "person" => doubt[r] = "person"
              /\ doubt' = [doubt EXCEPT ![r] = d]
         /\ Goes(c, "count", r) \/ Answered(c)
  /\ UNCHANGED <<status, flags, of, at, faults, crossed>>

Count(c) ==
  /\ Pending(c, "count")
  /\ IF doubt[request[c].run] = "none" THEN Goes(c, "close", request[c].run) ELSE Answered(c)
  /\ UNCHANGED <<status, flags, doubt, of, at, faults, crossed>>

\* Nothing was outstanding: the run is retryable, whatever its status has become.
Close(c) ==
  /\ Pending(c, "close")
  /\ SetStatus(request[c].run, "COMPLETED_WITH_ERRORS")
  /\ Cross({request[c].run} \cap {r \in Run : status[r] \in Wanted})
  /\ Answered(c)
  /\ UNCHANGED <<flags, doubt, of, at, faults>>

\* The API server dies, or its database does, in the middle of a request.
Dropped(c) ==
  /\ request[c] # Idle /\ Fault("api")
  /\ Answered(c)
  /\ UNCHANGED <<status, flags, doubt, of, at, crossed>>

-----------------------------------------------------------------------------
ExecutionStep(j) ==
  \/ Claim(j) \/ Begin(j) \/ CheckControl(j) \/ Page(j) \/ Interrupted(j)
  \/ Failed(j) \/ Finish(j) \/ Return(j)

WriteStep(c) ==
  \/ Insert(c) \/ Requeue(c) \/ Enqueue(c) \/ StopNow(c) \/ AskToStop(c)
  \/ AskToPause(c) \/ Settle(c) \/ Count(c) \/ Close(c)

Next ==
  \/ \E j \in Job : ExecutionStep(j) \/ Breaks(j) \/ Crash(j) \/ Throws(j) \/ TailFails(j)
  \/ \E c \in Client : WriteStep(c) \/ Dropped(c) \/ \E r \in Run : Ask(c, r)

Spec == Init /\ [][Next]_vars

(* Workers poll and work, and a request that was read is answered; nobody  *)
(* owes a request, and a page need not be the last one.                    *)
FairSpec ==
  /\ Spec
  /\ \A j \in Job : WF_vars(ExecutionStep(j))
  /\ \A c \in Client : WF_vars(WriteStep(c))

-----------------------------------------------------------------------------
(* A run that is QUEUED or RUNNING has a job that is not over, or a        *)
(* request that is about to enqueue one: nothing but a fault between two   *)
(* statements leaves a run that nobody will ever execute and that blocks   *)
(* its target, however requests and executions overlap.                    *)
NoRunIsStranded ==
  \A r \in Run :
    status[r] \in Wanted =>
      \/ \E j \in Job : of[j] = r /\ at[j] \notin {"none", "over"}
      \/ \E c \in Client : request[c] = [does |-> "enqueue", run |-> r]

Writing(r) == {j \in Job : of[j] = r /\ at[j] \in {"control", "page"}}

(* "Jobs are claimed with FOR UPDATE SKIP LOCKED so multiple worker        *)
(* processes can run safely" (queue.ts:14): two executions never write the *)
(* pages of one run at the same time, which RecordProtocol relies on,      *)
(* although a resume or a retry enqueues the run without looking for a job *)
(* of it, but of a run that was lost as Cross says.                        *)
OneExecution == \A r \in Run \ crossed : Cardinality(Writing(r)) <= 1

(* "Only one active run per target" (run-control-and-auth.test.ts:39),     *)
(* whatever is paused, reconciled, crashes or fails meanwhile, among the   *)
(* runs that were not lost as Cross says: two starts that meet both find   *)
(* the target free, and there the code breaks the sentence.                *)
OneActivePerTarget ==
  \A r, q \in Run \ crossed :
    TargetOf[r] = TargetOf[q] /\ {status[r], status[q]} \subseteq Active => r = q

(* While a run writes pages, its status is one that keeps every other run  *)
(* off its target: no late request, and no earlier execution that comes to *)
(* its end, takes it away, but of a run that was lost as Cross says.       *)
WriterHoldsTarget == \A r \in Run \ crossed : Writing(r) # {} => status[r] \in Active

(* A run that was asked to stop stops, however much of it is left: every   *)
(* execution of it sees the flag at its next page, also the one that takes *)
(* over after a crash.  (QUEUED counts as stopped: a resume or retry that  *)
(* had read the run before takes the request back.)                        *)
CancelStops ==
  \A r \in Run : r \in cancel /\ status[r] = "RUNNING" ~> status[r] # "RUNNING"
=============================================================================
