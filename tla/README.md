# Verification of the Dataverse migration platform

TLA+ specifications of the parts of this repository that decide whether a
migration is correct: what a run starts with, who executes it, what it writes into
a customer's target and how often, what the platform records about it, what the run is
called when it ends, and what is said of the target afterwards. TLC checks the specifications on small instances; TLAPS
proves the central ones for all values of the constants. `PROJECT.json` maps every
definition that models code to the lines it models. Paths below are relative to
`src/`; `engine` is `server/src/services/migration-engine.ts`, `run service` is
`server/src/services/migration-run-service.ts`, `queue` is `server/src/jobs/queue.ts`.

## 1. The system

| part | state it keeps | operations | talks to |
|---|---|---|---|
| Job queue (`queue`) | table `jobs`: status, `locked_by`, `attempts`, `heartbeat_at` | enqueue, claim, heartbeat, complete, fail, recoverStale | run service enqueues, workers claim |
| Worker (`queue`, `server/src/worker.ts`) | memory: the claim under way, the executions in progress | start, tick, run, stop, shutdown | calls `execute` of the engine and of the other job handlers |
| Run service | `migration_runs`: status, `cancel_requested`, `pause_requested`, attempt | start, cancel, pause, resume, retry, reconcile | enqueues jobs; shares its rows with the engine and has no transaction in common with it |
| Engine | `migration_record_maps` (one row per source record: outcome, write state, intended operation, evidence, target id, deferred status), `migration_errors`, statuses of tables and of the run; memory: page, plans, keys seen | execute: reconcileUnresolved, pass 1 (page by page: match, decide, intent, write, result), pass 2 (deferred references), pass 3 (modified-by stamps), outcome | source and target through connectors; polls the two request flags |
| Matcher, planner (`record-matcher.ts`, `record-planner.ts`) | keys seen by one execution | prefetch, match, rememberKey, decideAction | query the target |
| Dataverse client (`server/src/dataverse/`) | a retry policy and a semaphore | request, createRecord, updateRecord, withRetry | the target |
| Schedules (`schedule-service.ts`) | `migration_schedules`: enabled, nextRunAt, consecutiveFailures, lastWatermark | create, update, remove, trigger, runDue, fire | starts runs through the run service; the engine moves the watermark |
| Analysis, profiling, comparison, preflight, validation | one table of runs each, with results and details per table | start, execute | jobs of the same queue; read-only against the target |
| Validation verdicts (`validation-service.ts`) | counts, samples and checks of a table | validateEntity | reads the run's record map, the source and the target |
| Planning, mapping, readiness (`planning-service.ts`) | plans: selected tables, their pairing, field mappings, options, issues | select, edit, revalidate (rebuild), assess | edited by requests, rebuilt by every look at it, input of start |
| Dependency order (`dependency-graph.ts`) | none; a computation | analyzeDependencies | tells planning, preflight and the engine in which order tables go and which lookups wait for pass 2 |
| Evidence | none; a package carries a manifest with the digest of each file | build, verify | reads a run and its record map while it streams |
| Staged sources (`staged-source-service.ts`) | staged tables and rows; cached descriptions of tables (`metadata-service.ts`) | import, remove, rename, read by pages | connector of the engine |
| Environments, auth, audit, alerts, routes, web | connection records, sessions, append-only logs | CRUD | around everything |

`PROJECT.json` lists all of them under `components`, with what is modelled and
why the rest is not.

### What is hard in it

*Two databases and no common transaction.* The engine writes a record into the
target and then a row into its own database. The process can die between the two,
and an answer can be lost although the target did the work.

*Requests without locks.* Each request of the run service is a sequence of awaited
statements: read the run, look for other runs, write, enqueue. Two API calls and an
execution interleave between them. The engine in turn writes statuses without
looking at what the status has become.

*A queue that hands jobs over by time.* A job is taken from a worker whose
heartbeat is late, dead or not; `complete` and `fail` do not ask whose job it is.

*A plan nobody owns.* Every request on a plan, even one that only looks at its
readiness, deletes, inserts and updates the rows of the plan from what it read some
awaits ago. A person's decisions, the check before a start and the snapshot of a run all
have to survive that.

*Claims made from counts.* A validation counts first and compares later, page by page,
while both systems live on; a watermark summarises in one value which records of
every table are done.

*Names for what happened.* A run is called COMPLETED, COMPLETED_WITH_WARNINGS,
COMPLETED_WITH_ERRORS, NEEDS_RECONCILIATION, FAILED, CANCELLED or PAUSED from
several signals (rows, errors, tables, deferred references), and what a person is
allowed to do next depends on the name.

### What makes each part correct

* Queue: one execution of a job at a time; a settled job stays settled; DONE only
  after a handler returned; every queued job is settled whatever dies.
* Run service and engine: one active run per target, one execution per run, a run
  that is QUEUED or RUNNING has somebody who will execute it, a cancel is obeyed.
* Write protocol: no record is created twice; FAILED means it is not in the target;
  no record in the target without a row about it; the run's name tells the truth;
  an execution ends.
* Schedules: a slot fires once; a crash loses one firing; a schedule that keeps failing is
  paused and stays so; one bad schedule does not hold up the others; the watermark leaves
  no record behind.
* Planning: a run starts with what was checked; its plan stays as it is while it is active; a
  person's decisions survive rebuilds; the issues shown are those of the plan.
* Dependency order: tables come after what they need; only what lies on a circle is
  deferred; a component is given up only for a circle of required lookups.
* Validation: a passing verdict stands on records that were compared; the coverage
  reported is the coverage there was.
* Reports: COMPLETED means whole and stays whole; runs end.
* Staged sources: a table holds one file, and its description and its readers agree.

## 2. The modules

| module | models |
|---|---|
| `JobQueue` | the jobs table and the worker processes |
| `RunLifecycle` | requests on runs, their jobs, the statuses an execution writes |
| `RecordProtocol` | the write protocol of one table of one run |
| `JobPromise` | abstract: what the queue promises to whoever enqueues a job |
| `WriteOnce` | abstract: what the protocol promises of each created record |
| `Plan` | a plan of one table: requests, rebuild, the start of a run |
| `Schedule` | schedules, the processes that poll them, administrators |
| `Incremental` | the watermark of overlapping runs of a schedule |
| `DependencyOrder` | components, broken circles and the order of tables |
| `ReportRun` | the life of a run of each of the five kinds of report |
| `Validation` | the verdict on one table |
| `StagedSource` | imports of files, cached descriptions, readers |
| `MC...` | the instance of each for TLC |
| `JobQueueProofs`, `RunLifecycleProofs`, `RecordProtocolProofs`, `PlanProofs`, `ScheduleProofs`, `DependencyOrderProofs`, `ReportRunProofs`, `StagedSourceProofs` | theorems |

The first three form a chain. `JobQueue` is about one job: it says when its executions
exclude each other. `RunLifecycle` takes a job as executed by one worker at a time
(`Crash` puts it back into the queue) and is about runs, which can have several
jobs. `RecordProtocol` takes a run as executed by one execution at a time and is
about what that execution writes. Each relies on the property the one before it
states: `ExclusiveUnlessStalled`, then `OneExecution`. `JobPromise` is the joint between the first two:
`JobQueue` implements it, and what `RunLifecycle` does with its jobs implements it too. `ReportRun` takes the queue the other way: as
what it promises at worst, a job given to a second worker while the first goes on.
Before the chain stand `Plan` (what a run is given) and `Schedule` (who starts it);
`Incremental` is about several runs of it after each other, `Validation` about what a run has left.

### JobQueue

Variables `status`, `lockedBy`, `attempts`, `created` and `expired` are columns of a
row; `expired` says that `heartbeat_at` is older than `staleMs`. `worker`, `claiming`,
`exec` and `awaited` are memory and vanish in `Halt`. One SQL statement is one
operator (`ClaimRow`, `SettleRow`, `RecoverRows`), one await of the worker loop one
action: `BeginClaim` / `Claim` because `stop()` can come between the call and its
answer, `HandlerReturns` / `Complete` because `complete()` is inside the `try` and can
fail (`CompleteFails` leads to `fail()`), `FailFails` because a rejection nobody
awaits takes the process down. A statement that fails may have been executed (`Doubtful`), so a
job that is DONE can become FAILED. `attempts` of the claim identifies an execution.

Time is abstract: a heartbeat lapses when nobody runs the job (`Lapse`), or
although somebody does (`Stall`, at most `MaxStalls` times).

### RunLifecycle

`status`, `cancel` and `pause` are columns of `migration_runs`; `doubt` summarises
the rows of a run: nothing in doubt, something the target can settle, something only a
person can. A job is a number in the order of insertion; `at` says where it is, from
"queued" through the steps of `execute` to "over". A request is two or three steps:
`Ask` reads the run and decides (`Allowed`), then the write (`Insert`, `Requeue`,
`StopNow`, `AskToStop`, `AskToPause`, `Settle`), then, where there is one, the next
(`Enqueue`; `Count`, `Close`). Nothing of what was read is looked at again, as in
the code.

`crossed` is history: the runs that were lost to the exclusions the module is about. `Cross` is called
in the five actions by which the code loses one: `Ask` of a start that meets another start of its target
(start, resume and retry read and then write), `StopNow` and `Close` of a run that is QUEUED or RUNNING by
then, `Crash` and `TailFails` after the final status. The three properties that except
`crossed` say of everything else that it is excluded.

Coarser than the code: all SELECTs of one request are one step, so races between two
reads of one request are not shown; COMPLETED_WITH_WARNINGS is folded into
COMPLETED_WITH_ERRORS (both are retryable, neither is active); the check of
`retrySafety` that something is waiting is in `RecordProtocol` (`WorkWaiting`);
runs of different organizations do not meet.

### RecordProtocol

One action per statement that a crash can fall behind: `Decide` (read a page, match it,
plan it), `Intend` (persistIntents, one statement), `Send`, `Accept` / `AnswerLost` /
`Refuse` / `Update` (each request of `mapLimit`, `Width` at a time), `Persist` (one row),
`EndPage`; before it `OpenTable`, `Reconcile`, `Reconciled`; after it `SetReference`,
`RecordDeferred`, `Finish`. `Crash`, `Abort`, `PageFails`, `Interrupt` and `Fatal` end an
execution early; `Retry`, `Resume` and `ReconcileByHand` are the requests. `copies`
counts what the target holds because of this run, whatever the platform believes. `loose` is history:
records of which a create was sent again although the one before was executed or still may be
(`Repeated`), or whose row was settled while a create was still on its way (`Concluded`). From then on nobody can
know how often the target has or will have the record, unless it keeps something unique of it (`Enforced`).

`Faults` says what may go wrong in a run of the model: "crash" the process dies,
"database" a read or write of our own fails between the writes, "count" the count of
doubtful rows in the outer catch fails and reads as zero, "late" a request is
executed after its caller gave up, "fatal" an authentication error stops the page (`Fatal`: what its other
writers have not finished is in `stray` from then on), "gone" the source record, or its key, is not there any more when
reconciliation asks for it (`KeyGone`).
`Evidence` is what could identify a record in the target (a preserved id, an alternate key,
a business key, nothing), `Conflict` the conflict strategy. `KeyAssumption` says what a table
and a target are: all records of a table are matched in one way, one without a complete key has no
evidence, and the target holds an alternate key once. Values, transformations
and principals are reduced to `Blocked`: the records preparation refuses.

Left out: pass 3 (stampModifiedBy repeats an update that changes no record's
existence), counters and progress, several tables (each goes through the same
protocol; the run's outcome is modelled on one), other connectors than Dataverse.

### Plan

`entity`, `rows`, `blocked` and `accepted` are the row of `migration_plan_entities`, its
`field_mappings`, the presence of a blocker in the plan's issues, and the accepted lossy
rules; `gen` is the identity of the row, which deselecting and selecting again changes. A
request is an `Ask` (what it reads and refuses), its write (`WriteField`,
`WriteTarget`, `WriteRules`, `WriteOptions`) and then the rebuild: `Reload` the selection,
`Clear` what is not selected and pair the rest by the catalogues of this moment, `Describe` the pair by the metadata of
the next one, `Sync` its mappings (`SyncPart` when a row
cannot be inserted or the request breaks among them), `Judge`, `Store` the issues. `mem` is what the request has in
memory; nothing of it is read again. A start is two rebuilds with a `Gate` after the first
and `Assess`, `Lossy`, `Insert` after the second. `Breaks` throws out of a request between any two
statements, and `SyncPart` with any part of the mappings written.
`overlapped`, `decision` and `stale` are history: what the properties
except or remember. Metadata are versions (`Schema`) that change under the plan.

Coarser than the code: one table, paired with its namesake or a similar one; of the issues
only the blockers about selection, pairing and required columns; reading the catalogues goes with the delete and the
select after it, and describing a table with the row that is then inserted or updated; the last look at the
active run, the snapshot and the insert in one step (their race is `RunLifecycle`'s).
Left out: the match strategy, choice maps beyond that they were touched, principals,
warnings, and the status column of the plan, on which nothing decides.

### Schedule and Incremental

In `Schedule` a party is a worker process or a request; `seen` is the row it works on as it
read it. `Poll` is the SELECT of what is due, `Claim` / `ClaimedByOther` the conditional
UPDATE, `Answer` the call of `start` with any of its answers, `RecordStarted`, `RecordSkipped`,
`RecordFailed` the UPDATE that follows, computed from `seen`. `Edit` writes every column back, the
ones nobody asked to change as they were read. `Abandon` is a throw out of the loop: the
rest of the tick is lost. The times of a cron expression are a parameter, `NextSlot`.

`Incremental` has the source as a `stamp` per record, which `Touch` moves on; `ReadPage` observes and
carries a page, `TableFails` is the catch of `migrateEntity`, `Stops` is a pause, a cancel, a failure
or a crash, `Finish` publishes what was seen if it is larger than the mark (`Older` is the
comparison). What a page writes is reduced to carried or failed.

### DependencyOrder

The two iterative searches of the source step by step: `Enter`, `Look` and `Retreat` of Tarjan's
algorithm on an explicit work list (a lookup is a column of a table and one table it may lead to, so two tables may be
linked twice), the search for a circle and the choice of the lookup
to defer, the placement of tables. The order in which the lookups of a table are looked at is
any. Conclusions hold for `analyzeDependencies` whoever calls it.

### ReportRun

One action per statement of `execute` of the five services; what differs between them (what is
emptied first, whether details are written, what is caught) is decided by `kind`. `heads` and
`details` count the rows written per table, so that a second execution of the same run that
did not start from nothing would show. `Late` gives the job to another worker while the
first goes on, `Crash` ends one.

### Validation

`world` is what the run says of each record, where it is and what comparing it would find; it
changes between any two awaits (`RunGoesOn`, `Vanishes`). `CountRows`, `CountOutcomes` and `CountVerifiable` are
the counts, `ReadPage` / `Compare` the paging with its cap, `Conclude` the checks and the
verdict. The findings are sets of records where the code has counters and samples.

### StagedSource

An import is `Clear`, `Insert` (a batch), `Describe` per sheet and one `Forget` of the cache in the end,
with no transaction about them. `Fetch` and `Keep` are the two halves of a description being cached.
A reader pages by position. `torn`, `outdated` and `disturbed` are history: tables two
requests changed at a time or one left half-way, descriptions the code cannot keep
current, readers something was written under.

### JobPromise

A job is queued, taken by an execution nobody else's is in progress beside, settled by it, and never
taken up again; one whose execution is gone goes back into the queue. Once a heartbeat was
late (`late`) an execution may begin beside another one and may settle a job that is
queued again; nothing else is given up. For `JobQueue` the row is `status`, an execution is the
pair of its job and claim and `late` is `stalls > 0` (`KeepsPromise`); for `RunLifecycle` (in
its module of proofs) the row is computed from `at`, a job has one execution and nothing is late.

### WriteOnce

Three steps per record: announce, write at most once, settle according to what the
target holds. A record in doubt, and no other, may be lost to the protocol (`Lose`); of a lost one only the target goes on
(`WriteLost`). `RecordProtocol` implements it with `known` computed from the row and `loose`
(`Known`) and `copies` as it is: property `ImplementsWriteOnce`.

## 3. The runs

| run | instance | shows |
|---|---|---|
| `queue` | 2 workers, 2 jobs, concurrency 2, any two of a restart, a stall and a failed statement; 365 000 states | executions of a job exclude each other until a heartbeat is late (`ExclusiveUnlessStalled`); the claim number is a fence whatever is late (`ClaimIsFence`); DONE follows a handler's return (`DoneWasHandled`); the queue implements `JobPromise` (`KeepsPromise`); every job is settled (`EveryJobSettles`) |
| `lifecycle_races` | 1 run, 2 clients, 2 executors, 2 jobs, one crash or one failure after the final status; every request but reconcile; 473 000 states | `NoRunIsStranded`, `OneExecution`, `CancelStops` |
| `lifecycle_overlap` | 2 runs of one target, 2 clients, 2 executors, 2 jobs, one crash, failed statement or dropped request; start, cancel, retry and reconcile; 3 601 000 states up to symmetry | `OneActivePerTarget`, `WriterHoldsTarget` |
| `protocol_rows` | 3 records in pages of 2, the first and the third with the same business key, the second with none, SKIP_EXISTING, creates sent up to twice, crashes, database failures, authentication failures that leave writers behind, source records that are gone, 3 executions; 192 000 states | `AtMostOneCopy`, `CopiesAreOnRecord`, `FailedIsAbsent`, `CompletedHasNoDoubt`, `ImplementsWriteOnce` |
| `protocol_ends` | 2 records with an alternate key and a deferred reference, one there already, UPSERT, creates sent up to twice, executed late or left behind, crashes, failures, counts that fail; 32 000 states | `CompletedIsWhole`, `RunEnds` |
| `plan` | 2 columns, 2 targets, 2 versions of the metadata, 2 clients, 3 requests of any kind, one of which may meet another or break; 738 000 states up to symmetry | `StartedAsChecked`, `LockedPlanStays`, `DecisionsStand`, `IssuesAreCurrent` |
| `schedule` | 2 schedules, 2 worker processes, 1 administrator with 2 requests, 2 minutes, one crash, failed statement or creator gone; paused at 2 failures; 378 000 states | `SlotFiresOnce`, `CrashLosesOneFiring`, `GivesUp`, `PausedUntilEnabled`, `DueIsClaimed` |
| `incremental` | 2 runs, 2 records in pages of 1, 3 stamps, 2 executions of a run, tables, records and runs that fail; 669 000 states | `NothingSkippedInCalm` |
| `dependencies` | every set of up to 4 lookups of 3 tables, through an optional and a required column each; every set of optional lookups of 2 tables through 2 columns; two shapes of 5 lookups of 4 tables under all names, each lookup optional or required; 297 000 states | `ComponentsAreMutual`, `OrderRespects`, `OnlyRequiredCirclesBlock`, `DeferredOnCircle`, `Terminates` |
| `staged` | 3 files (a workbook of two sheets, a list, one more) into 2 tables, 2 requests, 1 reader, batches and pages of 1, a removal or renaming, a failure; 3 158 000 states | `TableIsOneFile`, `CacheIsCurrent`, `ReadInPeace` |
| `reports` | the 5 kinds, 2 tables, 2 executors, 2 failures, 2 crashes or late heartbeats; 160 000 states | `CompletedIsWhole`, `ReportStands`, `RunEnds` |
| `validation` | 4 records, at most 2 of which are not well, 5 settings, pages of 2, cap 3, 2 changes meanwhile; 2 592 000 states | `PassIsEvidence`, `CoverageIsHonest` |

When a property holds. Where the code breaks a promise in some situations, the property names them:
`crossed`, `loose`, `overlapped`, `stale`, `torn`, `excused` and the like are history variables, set in the
action by which the code loses it. So the runs include what is excepted, and show that the exception is
wide enough, that nothing else breaks the promise, and where there is a way back, that it ends when it should. Two properties are
checked with some faults left out instead: `NoRunIsStranded` without failing statements and dropped requests,
`CompletedHasNoDoubt` without a failing count. Section 5 names what is behind each.

### Bounds, and why they are enough

Two workers are what overlapping needs; a second job shows that sweeping and claiming one
does not touch another. Two mishaps of any kind are
combined freely, and each action that they enable is symmetric in what happens
afterwards; a third adds repetitions of the same interleavings (and the
theorems have no bound). In `lifecycle_races` two jobs are the job of the start and the
job of a resume or retry; two clients are what a race needs. `lifecycle_overlap` has two jobs so
that both runs start, or one is started and retried; pause and resume are left to
`lifecycle_races`, as they do not change which runs are active (a PAUSED run is). In the protocol, two records fill a page and
race in it, a third makes a second page and meets the key of the first in a later page or execution, two
attempts are what a repeated create needs, and three executions are a first one, one that
finds what the first left, and one that finds what the second concluded.

In `plan` two columns are what a required and a second one need (one can be mapped onto the
other), three requests are a decision, something else that rebuilds, and a start;
one meeting of two requests shows how its effects are put right by the third. Two versions
of the metadata have a table gain a column and lose one. In `schedule` two minutes
are two slots of each schedule and two failures in a row; the theorems have no bound. In
`incremental` two runs overlap in every order, and three stamps put a change before,
between and after what both have seen. In `dependencies` three tables with four lookups contain every pattern of
nested and shared circles on three; four tables are there for two components. `staged`
has a batch of one, so that every batch boundary is a step. In `validation` four records make two pages, and a cap of three
ends within the second.

`CHECK_DEADLOCK FALSE` stands in every run but `queue`: a run
that has ended and that nobody retries, a computation that is done, or an instance that used up a
bound may stay as it is. The queue's run checks deadlock.

### Fairness

`queue`: a worker process is restarted (the deployment restarts it), its interval
polls and sweeps, statements answer, handlers return or throw, time passes. No
crash, stop, stall or fault is owed, and no `Enqueue`. The sweep is one tick in
twenty by chance in the code; weak fairness of `Recover` is what infinitely many
ticks give. `lifecycle_races`: workers work, and a request that has read goes on to
write; no client owes a request, and a page need not be the last (`CheckControl` may
choose another one for ever), so `CancelStops` does not follow from the run being finite.
`protocol_ends`: an execution that can go on goes on; the worker runs the job again
after a crash (that is `EveryJobSettles` of the queue). `schedule`: worker processes poll
(`setInterval` in `worker.ts`) and what a party has begun goes on; time, requests and
crashes are not owed. `reports`: a worker that has begun goes on and there is one to begin. `dependencies`: the
computation goes on. The other runs state safety only and assume nothing.

## 4. The proofs

All proofs are for arbitrary constants that satisfy the named assumption of the
module (`QueueAssumption`, `LifecycleAssumption`, `ProtocolAssumption`, `PlanAssumption`,
`ScheduleAssumption`, `IncrementalAssumption`, `DependencyAssumption`, `ReportAssumption`,
`ValidationAssumption`, `StagedAssumption`: types of
constants, that the next time of a schedule is later, that a file has a key once in a table) and are checked by TLAPS to the last leaf.

**JobQueueProofs.** `TypeCorrect`: `TypeOK` with, for each action, what it does to rows
(`RowOK`) and to memory (`ProcessOK`). `ExecutionsExclude`: the invariant is that an execution
*holds* its job, unless a heartbeat was late: `attempts` is its claim, and the row is RUNNING
under its worker, or DONE by a statement it had no answer to and is about to repeat as
FAILED; a lapse needs that nobody executes the job.
`ClaimsFence`: claims are
bounded by `attempts`, which only grows, with any number of stalls. `DoneIsEarned`: an
execution that is about to settle its row as DONE has seen its handler return. `PromiseIsKept`: every
step is a step of `JobPromise` or changes nothing it can see, from `Exclusive` (what is QUEUED or
swept nobody executes, and an execution settles its own) and `ClaimIsFence` (a claim is a new name).
`PromiseExcludes` and `SettledForGood` follow from the promise alone (`PromiseInv`), so they
hold of whatever keeps it; the second one also after a late heartbeat.

**RunLifecycleProofs.** `TypeCorrect`. `JobsAreAsPromised`: the jobs of runs are jobs of `JobPromise`, without
assumptions, so the module gives them no power the queue does not. (It does not say
that every behaviour of the queue appears: a claim that is lost, and a job under a late heartbeat, do
not.) `NothingIsStranded`, assuming `StatementsSucceed`
("database" and "api" not in `Faults`): `NoRunIsStranded` is not inductive, because an
execution that has written its final status still has a job that is not over, and
would let its run be QUEUED by nobody; `Attended` does not count such jobs. The
theorem covers any number of clients, crashes and failures after the final status; it
includes reconcile, which `lifecycle_races` leaves out.

`TargetsAreHeld`, `OneWriter` and `WritersAreActive` have no hypothesis: any number of clients, requests, workers,
crashes and faults. `TargetInv` says of runs that are not `crossed`: starts that meet are known to have met (`Apart`); a
run has one live job, and its status says so (`OneLive`), and none while a request is about to enqueue one
(`ComingAlone`); what a start has read is still so when it writes, also that nobody else has its target (`StillSo`);
and with `OneActivePerTarget` itself no other start can have passed its look. What a
run is about has been inserted (`Inserted`), so that a start never meets its own run. The exceptions
are needed: section 5 names what happens in each, and the invariant proves that there are no others.

**RecordProtocolProofs.** `TypeCorrect`. `CreatedOnce`, `FailedIsTrue` and `CopiesOnRecord`, with no hypothesis: for
every source, key, strategy, evidence, width, number of attempts, crash, failure, late request and sequence of
requests. The properties are not inductive:
whether a create may be sent depends on what the page decided and on what was written
before it. `IInv` says what each row may claim, given the copies and the creates on their way, of a record that is not
`loose` (`Accounted`), and adds: a row in doubt says what was meant (`DoubtIsDescribed`); what the target keeps
unique it holds once (`EnforcedOnce`); what
a page has decided is still pending (`DecidedIsPending`); what it is writing is INTENDED and not in the
target (`ActIsIntended`); memory and status agree on where the execution is (`InPlace`).

`NoDoubtInTheEnd`, assuming only `DoubtIsCounted` ("count" not in `Faults`):
`EndsAreCounted` adds that a run is RUNNING while an execution is in progress and that
nothing of a page is left outside it, so every step that names an outcome has just
looked at the rows.

`CompletedWhole`, with no hypothesis: whatever the source, faults, late requests and retries, each
record of a COMPLETED run is created, updated or skipped and the record its row names is there. `CInv`
says that rows are true of the target as it is now (`RowsAreTrue`), that a match or a result
in memory is too (`PlanIsTrue`), and that the first pass leaves nothing behind
its cursor: each record it passed has a row or is in the page at hand, and the pass ends with
every record in the rows or a READ error on record (`PassIsOn`). A run may
only become COMPLETED where the rows have just been counted.

`WritesOnce`: `Spec` implies `ImplementsWriteOnce`, with no hypothesis either. `IInv` and `CInv` say which of the
three answers a row shows (`Shows`) and that it is the right one of a record that is not lost; a search by what the target keeps unique finds one
record (`Sole`, from `KeyAssumption`). A row that reconciliation gives the record of another with the same key, or of
one that was there before, denies that its own was created, which is true: `Known` looks at whose record the row names.

**ScheduleProofs.** `TypeCorrect`. `SlotsFireOnce`: `SlotInv` adds that every slot claimed so far is
older than `nextRunAt`, which holds because a claim moves it beyond the tick's time, whoever edits
meanwhile. `FailingIsPaused` and `PauseStays`: `CalmInv`, for each schedule on which no two parties
ever worked at a time: one that is not there yet counts nothing (`Unborn`), at most one party works on
it (`Crowded`), what that party has read is still so (`UpToDate`), and the count agrees with what
happened, with the one step to come taken into account (`Counted`). `ClaimedIsTried`:
`CrashLosesOneFiring` is inductive with the types. `NothingIsSkipped` is about
`Incremental`: `Behind` says that what a run did not ask for, has handled or is past is in the
target, unless excused, and that what it has seen is no newer than some record is now, so that the next
change is newer than the mark. The property needs nothing of `Older`: however watermarks are compared, and
if a mark goes back, what is below it was read.

**PlanProofs.** `TypeCorrect`; then the four properties of planning, for any columns, tables, versions of
the metadata and requests. All four are about what a request holds in memory, and none is
inductive. `Known` says, for each statement of a request that met no other one (`AloneInv`:
it is alone), what it has read or computed and is still so: the pairing and mappings it
read, the verdict it is about to store, the acceptances it checked. `Rebuilt` follows a start
through its two rebuilds: the first leaves mappings that are `Brought` to a version of the metadata, the
second, given the same version, changes nothing (`Settled`): `StartsChecked` is
this idempotence. `LockedStays` needs that of every request, whether it
met another or not: it will write nothing else than what is there (`Spares`). `DecisionsKept` needs that a
decision still carries its user and a target that exists, and that no request
in progress has read the mappings before it was made (`Heeds`). `IssuesCurrent`: `CurrentInv`
says that the blockers are current wherever the requests in progress have nothing left
to rebuild.

**DependencyOrderProofs.** All four safety properties, for any tables and lookups. `OrderIsRespected`: `OrderInv`
needs that the order starts empty and a table is placed when its lookups are. `DeferredOnCircles`: the path of
the search for a circle is made of lookups that lead from each table to the next (`PathInv`, over
the transitive `Reaches`), and the lookups looked at are those of one component (`BreakInv`).

`ComponentsMutual` is the correctness of the search for components, which the code runs with explicit
frames. `SearchInv`: the open tables are numbered as they lie on the stack (`NumbersInv`); what a
finished table leads to is finished, and what an open one still has to look at is known to its frame
(`SeenInv`); a frame leads to every open table above it, and every open table to a frame below
(`PathsInv`); a low number is that of an open table which the frame leads to, and no larger than those
of what it has looked at (`LowInv`). So a frame that closes with its own number has on top of the stack the tables
that lead to it and it leads to, no more and no fewer (`MutualInv`). A path is
what no set of tables closed under lookups separates (`Reaches`), so that paths are put together without
sequences. `TypeCorrect` follows from these.

`RequiredCirclesBlock`: `CircleInv` says that tables the search for a circle has left lead to no circle, so that
finding none means there is none; `BrokenInv` that a component which was broken has no circle of
lookups that were not deferred and one given up has a circle of required ones. That the placing
of tables then stops only above a component given up needs that a finite set with no circle
has a table that leads to none of it: the one that leads to the fewest (`NowhereToStop`). That there
is a fewest (`Least`), and a first table of a path outside a set, is the smallest counterexample,
as induction over data is out of reach.

**ReportRunProofs.** `TypeCorrect`, `CompletedMeansWhole`, `ReportsStand`, for every kind and any number of tables and executors. `WholeInv`
holds while no two executions were in progress at a time: one works alone (`Alone`), and
tables before the one it is at are `Whole`, the others `Bare`, that one in between
(`WorkInv`). `PassingIsEvidence` and `CoverageSaysSo` are about `Validation`, which has the names of its
specification to itself so that one module can be about both. `ValidationInv`: a page has records after the cursor,
each once (`PageInv`); the findings are of records up to it, each once (`FindingsInv`, where adding up a page
is a bijection between its pairs and their records); the counts are so while nothing changes
(`CountsInv`); and the verdict is the worst of the checks (`VerdictInv`). Coverage is FULL when as many
were compared as could be; as those are among these, they are all of them (`FullIsAll`).

**StagedSourceProofs.** `TypeCorrect`; `OneFile`, `CacheIsTrue`, `ReadsOneFile`, for any files, sheets, batch and page sizes,
requests, readers and faults. `TableInv`: a table that is not torn has one request that writes
it at most, and holds what that one has written of its file so far (`Written`). `CacheInv`: a
description that is not current is one that a request in progress will drop or that a fetch
of an earlier time may bring (`Stale`); it is stronger than the property and was found by strengthening, as
the property alone does not say which request drops it. `ReadInv`: a reader whose table
nobody wrote has read exactly the rows up to the position it resumes after (`Quiet`). That
a page ends at a last row needs a greatest element of a set of numbers: `Least` and
`Greatest` follow from the well-foundedness of `<` by the smallest counterexample, with no
induction over an operator.

Every invariant and every action property of a run is stated by a theorem. Only model-checked:
`EveryJobSettles`, `CancelStops`, the two `RunEnds`, `DueIsClaimed` and `Terminates`
(liveness is out of the prover's reach).

## 5. Where the code differs from what is said of it

Met while modelling. What a property excepts is here.

The queue and the life of runs:

* A `complete` that was executed and whose answer is lost is followed by `fail` (`queue` 122-127): the
  job is FAILED although its handler returned and it was DONE.
* A QUEUED run is cancelled and its job stays; retry (`run service` 423) adds a second job, and two
  workers execute the run, against "multiple worker processes can run safely" (`queue` 14-15).
  Two `resume` requests of one pause do the same, and so does a crash between the final
  status and the completion of the job, with a retry before the sweep.
* With two clients, two `start` requests both find no active run and both insert one
  (`run service` 246-303), against "Only one active run per target"
  (`tests/integration/run-control-and-auth.test.ts:39`, which makes them one after the other). `OneActivePerTarget` excepts
  the runs of such a meeting (`crossed`); without the exception `lifecycle_overlap` shows it in four steps.
* A worker that is alive and whose heartbeat is late for `staleMs` shares its job with
  another one (`queue` 62); and `stop()` does not wait for an execution that a claim
  under way starts after it was called.
* A run cancelled with a row only a person can settle is CANCELLED: retry refuses because of
  the row, reconcile because of the status (`docs/CRASH_CONSISTENCY.md:205`: "resolved by
  reconciliation or by a person").
* A failure after the final status (`engine` 502-562) is caught and renames a COMPLETED run
  FAILED; a statement that fails before the `try` leaves a run RUNNING with no job.

The write protocol:

* `createRecord` is inside `withRetry`: a create whose answer is lost is sent again, against
  "A create is attempted once" (`docs/CRASH_CONSISTENCY.md:141`), and if the first was executed and no key
  keeps the record unique it is there twice (`loose`).
* A create that the target executes after reconciliation searched for it makes a FAILED
  row wrong. No search can exclude it; the fault "late" of `protocol_ends` has it (`loose`).
* A record that reconciliation confirms has lost its deferred reference (`engine` 948); the run ends
  COMPLETED (`docs/MIGRATION_OUTCOME_SEMANTICS.md:152`: "nothing omitted").
* The intent of an update whose row exists keeps that row's empty target id (`engine` 1215), so the
  interrupted update goes to a person (`engine` 887: "An update needs no search").
* After an authentication error has ended a run, the other runners of `mapLimit`
  (`engine` 137) go on through the page and create records.
* `reconcile` answers PRESENT for an interrupted update with outcome CREATED.
* The errors of a record are resolved by the lower-case id of its row (`engine` 968), so
  an error recorded with an upper-case source id stays open (constant `MixedCase`).

Schedules and watermarks:

* The watermark advances to the largest value seen although a table failed or records of it did
  (`engine` 503, 800-812): what was not read of the failed table is older than the mark and
  no later run asks for it. `NothingSkipped` in `Incremental` states what
  `docs/ANALYSIS_AND_SCHEDULING.md:224` leads one to expect; `NothingSkippedInCalm` is what holds.
* Watermarks that are numbers kept as text are compared as text (`engine` 1963; `AsText` in
  `MCIncremental`).
* A schedule counts starts that fail (`schedule-service.ts` 445); one all of whose runs start and
  then fail is never paused.
* An edit, and the record of a firing, write columns from an older read: a
  rename can switch a schedule on again that was paused meanwhile, a count can be lost
  (`overlapped`).
* A schedule whose creator is gone throws out of `runDue` (394): the rest of the tick is put off.
* A cron time in the hour that daylight saving skips does not fire that day (`server/src/lib/cron.ts` 126-166).

Plans:

* Requests that meet lose each other's work: options, accepted rules and overrides are read,
  changed and written as one JSON value; `revalidate` re-applies a selection it read before;
  `syncMappings` writes over a decision made since it read the rows (935). A start that meets an edit
  starts with what it did not check.
* A mapping made automatically whose rules or values a person then edited is never checked
  again by a rebuild (it has a user and is not MANUAL), so it can name a column the
  target no longer has.
* Resetting a column, or a new source column, can map two source columns to one target column; only the
  explicit mapping is refused (1093).
* A manual mapping a rebuild finds invalid is marked INCOMPATIBLE and loses its user; the next
  rebuild replaces it by a proposal. A start rebuilds twice, so nobody sees the mark.
* To unpair a table whose name the target has is undone by the rebuild of the same
  request.
* Transformation rules and readiness overrides can be changed while a run of the plan is active; the
  snapshot protects the run. An acceptance of a lossy rule is kept by table, column and
  kind: changing the parameters of the rule keeps it.
* A selection emptied between the gates and the snapshot makes the insert of the run's tables throw and
  leaves a QUEUED run with no job.

Dependency order and reports:

* When a component is given up, its other optional lookups are not deferred.
* A failure of a report's statements outside the `try` leaves it RUNNING; a failure of the audit entry turns a
  COMPLETED report FAILED. Two executions of one report (a late heartbeat) write its rows twice.
* Tables that vanish between the catalogue and the description are left out of an analysis
  silently.
* The summary of a validation counts pass, warning and fail and leaves INCOMPLETE out; a record none of
  whose columns could be compared counts as matched (`docs/VALIDATION_SEMANTICS.md:170`); the note
  "Showing N of M" is added after the row it belongs to was inserted.

Staged sources:

* Two imports into one table at a time leave a mixture of both files, an import that fails half-way a part
  of one; a reader meanwhile sees either, or an empty table. An import of a workbook that fails at a
  later sheet never drops the cached description of the sheets it has replaced.
* The import of a list never drops the cache and always answers that it replaced
  nothing. `forget` leaves the cache of counts as it was.
* The suffix that makes a repeated key unique is not checked against the keys of the file
  (`staged-source-service.ts` 506-510).

## 6. Plan

Done: the queue, the life of runs, the write protocol, plans and the start of a run, schedules and
watermarks, dependency order, reports, validation verdicts, staged sources; the theorems of
section 4. Next, in order:

1. Plans of several tables, whose rebuild goes through them one by one and whose selection follows
   lookups.
2. The reads of one request of the run service as steps of their own, so that races between them show.

### Not modelled

* Conversions of values, transformations, parsers, SQL dialects and drivers: pure functions of data or input and output; the
  properties here do not tell their results apart.
* Users and teams (`principal-service.ts`): the directory of a side is deleted and inserted in batches, and
  a refresh drops the mappings of everybody the directory does not hold. Met while reading: when teams or business
  units cannot be listed (120-130), their list is taken as empty, and the refresh deletes all of their mappings, manual
  ones included, against "keeping manual decisions"; a refresh that reads a directory another one is inserting
  does the same to some.
* Evidence packages (`evidence-service.ts`, `evidence-verifier.ts`): files written while the rows are read, and
  digests checked. Met while reading: the verifier takes what follows the sixth comma of a line for the outcome (`evidence-verifier.ts` 207) and
  every CR LF for the end of a row (180), although a key or a note may contain either and is quoted; and what
  was counted before the stream is that of an earlier moment when the run goes on.
* Counters and attempt metrics: recomputed from the record map and read by nothing that decides.
* Authentication, authorization, teams, access requests: outside the correctness stated here.
* Projects, workspace, workbook, audit, alerts, diagnostics, routes, web client: create, read,
  update and delete, wiring, and a user interface.

`PROJECT.json` gives the reason for each component.
