------------------------------ MODULE JobQueue ------------------------------
(***************************************************************************)
(* The durable job queue and its workers: server/src/jobs/queue.ts, with   *)
(* the process shell of server/src/worker.ts around it.                    *)
(*                                                                         *)
(* The jobs table is the shared state: status, locked_by, attempts,        *)
(* created_at, and whether heartbeat_at is older than staleMs.  Everything *)
(* else is memory of a worker process and dies with it: the claim its tick *)
(* is waiting for, and the executions (one per call of Worker.run).  The   *)
(* value attempts takes at a claim identifies the execution it starts.     *)
(*                                                                         *)
(* Time is abstract.  A heartbeat lapses when nothing renews it (nobody    *)
(* runs the job), or, at most MaxStalls times, although somebody does: the *)
(* interval's update fails or comes late, which line 119 ignores.          *)
(***************************************************************************)
EXTENDS Naturals, FiniteSets

CONSTANTS
  Worker,       \* worker processes
  Job,          \* rows the jobs table may come to hold
  Concurrency,  \* WorkerOptions.concurrency
  MaxRestarts,  \* bound: crashes and graceful stops
  MaxStalls,    \* bound: heartbeats missed by a worker that is alive
  MaxFaults,    \* bound: failed statements that settle or re-read a job
  MaxMishaps,   \* bound: all of these together
  None          \* SQL NULL

ASSUME QueueAssumption ==
  /\ IsFiniteSet(Job)
  /\ Concurrency \in Nat \ {0}
  /\ MaxRestarts \in Nat /\ MaxStalls \in Nat /\ MaxFaults \in Nat /\ MaxMishaps \in Nat
  /\ None \notin Worker

VARIABLES
  status,    \* jobs.status, "NONE" before the row exists
  lockedBy,  \* jobs.locked_by
  attempts,  \* jobs.attempts
  created,   \* jobs.created_at, as the position in the order of insertion
  expired,   \* jobs whose heartbeat_at is older than staleMs
  worker,    \* the state of each worker process
  claiming,  \* workers whose tick awaits an answer to claim
  exec,      \* the calls of Worker.run in progress
  awaited,   \* what stop() of a worker waits for: the executions it saw
  handled,   \* history: jobs of which some handler returned normally
  restarts, stalls, faults

row == <<status, lockedBy, attempts, created, expired>>
process == <<worker, claiming, exec, awaited>>
bounds == <<restarts, stalls, faults>>
vars == <<row, process, handled, bounds>>

JobStatus == {"NONE", "QUEUED", "RUNNING", "DONE", "FAILED"}
Execution == [worker: Worker, job: Job, claim: Nat,
              phase: {"handling", "completing", "failing"}]

(* The type invariant.  Its last conjunct is the shape of a row: a job has  *)
(* a holder exactly while it is RUNNING.                                   *)
TypeOK ==
  /\ status \in [Job -> JobStatus]
  /\ lockedBy \in [Job -> Worker \cup {None}]
  /\ attempts \in [Job -> Nat]
  /\ created \in [Job -> Nat]
  /\ expired \subseteq Job
  /\ worker \in [Worker -> {"down", "up", "stopping"}]
  /\ claiming \subseteq Worker
  /\ exec \subseteq Execution
  /\ awaited \in [Worker -> SUBSET (Job \X Nat)]
  /\ handled \subseteq Job
  /\ restarts \in Nat /\ stalls \in Nat /\ faults \in Nat
  /\ \A j \in Job : status[j] = "RUNNING" <=> lockedBy[j] # None

Init ==
  /\ status = [j \in Job |-> "NONE"]
  /\ lockedBy = [j \in Job |-> None]
  /\ attempts = [j \in Job |-> 0]
  /\ created = [j \in Job |-> 0]
  /\ expired = {}
  /\ worker = [w \in Worker |-> "down"]
  /\ claiming = {}
  /\ exec = {}
  /\ awaited = [w \in Worker |-> {}]
  /\ handled = {}
  /\ restarts = 0 /\ stalls = 0 /\ faults = 0

-----------------------------------------------------------------------------
(* The queue: one SQL statement per operator.                              *)

Enqueue(j) ==
  /\ status[j] = "NONE"
  /\ status' = [status EXCEPT ![j] = "QUEUED"]
  /\ created' = [created EXCEPT
                   ![j] = Cardinality({k \in Job : status[k] # "NONE"}) + 1]
  /\ UNCHANGED <<lockedBy, attempts, expired, process, handled, bounds>>

Oldest(j) ==
  /\ status[j] = "QUEUED"
  /\ \A k \in Job : status[k] = "QUEUED" => created[j] <= created[k]

\* Mutant: the UPDATE does not count the attempt.
ClaimRowKeepsAttempts(w, j) ==
  /\ Oldest(j)
  /\ status' = [status EXCEPT ![j] = "RUNNING"]
  /\ lockedBy' = [lockedBy EXCEPT ![j] = w]
  /\ expired' = expired \ {j}
  /\ UNCHANGED <<attempts, created>>

ClaimRow(w, j) ==
  /\ Oldest(j)
  /\ status' = [status EXCEPT ![j] = "RUNNING"]
  /\ lockedBy' = [lockedBy EXCEPT ![j] = w]
  /\ attempts' = [attempts EXCEPT ![j] = @ + 1]
  /\ expired' = expired \ {j}
  /\ UNCHANGED created

SettleRow(j, to) ==
  /\ status' = [status EXCEPT ![j] = to]
  /\ lockedBy' = [lockedBy EXCEPT ![j] = None]
  /\ UNCHANGED <<attempts, created, expired>>

\* Mutant: the WHERE of recoverStale without its second half.
StaleIgnoresHeartbeat == {j \in Job : status[j] = "RUNNING"}
\* Mutant: gt for lt.
StaleIsFresh == {j \in Job \ expired : status[j] = "RUNNING"}

\* Mutant: the WHERE of recoverStale without its first half.
StaleWhateverStatus == expired

Stale == {j \in expired : status[j] = "RUNNING"}

RecoverRows ==
  /\ status' = [j \in Job |-> IF j \in Stale THEN "QUEUED" ELSE status[j]]
  /\ lockedBy' = [j \in Job |-> IF j \in Stale THEN None ELSE lockedBy[j]]
  /\ UNCHANGED <<attempts, created, expired>>

-----------------------------------------------------------------------------
(* A worker process.                                                       *)

MayMiss == restarts + stalls + faults < MaxMishaps

ExecutionsOf(w) == {e \in exec : e.worker = w}

Halt(w) ==
  /\ worker' = [worker EXCEPT ![w] = "down"]
  /\ exec' = exec \ ExecutionsOf(w)
  /\ claiming' = claiming \ {w}
  /\ awaited' = [awaited EXCEPT ![w] = {}]

\* Worker.start: recover once, then begin to poll.
Start(w) ==
  /\ worker[w] = "down"
  /\ worker' = [worker EXCEPT ![w] = "up"]
  /\ RecoverRows
  /\ UNCHANGED <<claiming, exec, awaited, handled, bounds>>

\* The head of tick's loop: room for one more, so ask the database.
BeginClaim(w) ==
  /\ worker[w] = "up" /\ w \notin claiming
  /\ Cardinality(ExecutionsOf(w)) < Concurrency
  /\ claiming' = claiming \cup {w}
  /\ UNCHANGED <<row, worker, exec, awaited, handled, bounds>>

\* claim() answers with a job and tick runs it.  stop() may have been called
\* since BeginClaim; nothing looks.
Claim(w, j) ==
  /\ w \in claiming
  /\ ClaimRow(w, j)
  /\ exec' = exec \cup {[worker |-> w, job |-> j, claim |-> attempts[j] + 1,
                         phase |-> "handling"]}
  /\ claiming' = claiming \ {w}
  /\ UNCHANGED <<worker, awaited, handled, bounds>>

\* The UPDATE of claim() commits and the SELECT after it fails.  tick logs it;
\* the job is RUNNING and nobody runs it.
ClaimLost(w, j) ==
  /\ w \in claiming /\ faults < MaxFaults /\ MayMiss
  /\ ClaimRow(w, j)
  /\ claiming' = claiming \ {w}
  /\ faults' = faults + 1
  /\ UNCHANGED <<worker, exec, awaited, handled, restarts, stalls>>

ClaimNothing(w) ==
  /\ w \in claiming
  /\ \A j \in Job : status[j] # "QUEUED"
  /\ claiming' = claiming \ {w}
  /\ UNCHANGED <<row, worker, exec, awaited, handled, bounds>>

\* One tick in twenty sweeps for stale jobs.
Recover(w) ==
  /\ worker[w] = "up" /\ Stale # {}
  /\ RecoverRows
  /\ UNCHANGED <<process, handled, bounds>>

Advance(e, to) == exec' = (exec \ {e}) \cup {[e EXCEPT !.phase = to]}

\* heartbeat() does not ask whose job it is.
Heartbeat(e) ==
  /\ e.job \in expired
  /\ expired' = expired \ {e.job}
  /\ UNCHANGED <<status, lockedBy, attempts, created, process, handled, bounds>>

HandlerReturns(e) ==
  /\ e.phase = "handling"
  /\ Advance(e, "completing")
  /\ handled' = handled \cup {e.job}
  /\ UNCHANGED <<row, worker, claiming, awaited, bounds>>

HandlerThrows(e) ==
  /\ e.phase = "handling"
  /\ Advance(e, "failing")
  /\ UNCHANGED <<row, worker, claiming, awaited, handled, bounds>>

Complete(e) ==
  /\ e.phase = "completing"
  /\ SettleRow(e.job, "DONE")
  /\ exec' = exec \ {e}
  /\ UNCHANGED <<worker, claiming, awaited, handled, bounds>>

\* A statement whose answer does not come has been executed or not.
Doubtful(j, to) == SettleRow(j, to) \/ UNCHANGED row

\* complete() is inside the try: when it throws, the job is failed, also one
\* that is DONE already.
CompleteFails(e) ==
  /\ e.phase = "completing" /\ faults < MaxFaults /\ MayMiss
  /\ Advance(e, "failing")
  /\ Doubtful(e.job, "DONE")
  /\ faults' = faults + 1
  /\ UNCHANGED <<worker, claiming, awaited, handled, restarts, stalls>>

\* Mutant: the catch block settles the job like the try block does.
FailAsDone(e) ==
  /\ e.phase = "failing"
  /\ SettleRow(e.job, "DONE")
  /\ exec' = exec \ {e}
  /\ UNCHANGED <<worker, claiming, awaited, handled, bounds>>

Fail(e) ==
  /\ e.phase = "failing"
  /\ SettleRow(e.job, "FAILED")
  /\ exec' = exec \ {e}
  /\ UNCHANGED <<worker, claiming, awaited, handled, bounds>>

\* fail() throws out of run().  Only stop() ever awaits that promise: before
\* it, the rejection is unhandled and takes the process down.
FailFails(e) ==
  /\ e.phase = "failing" /\ faults < MaxFaults /\ MayMiss
  /\ faults' = faults + 1
  /\ IF worker[e.worker] = "stopping" /\ <<e.job, e.claim>> \in awaited[e.worker]
     THEN exec' = exec \ {e} /\ UNCHANGED <<worker, claiming, awaited>>
     ELSE Halt(e.worker)
  /\ Doubtful(e.job, "FAILED")
  /\ UNCHANGED <<handled, restarts, stalls>>

\* SIGTERM: stop() waits for the executions active now.
Stop(w) ==
  /\ worker[w] = "up" /\ restarts < MaxRestarts /\ MayMiss
  /\ worker' = [worker EXCEPT ![w] = "stopping"]
  /\ awaited' = [awaited EXCEPT
                   ![w] = {<<e.job, e.claim>> : e \in ExecutionsOf(w)}]
  /\ restarts' = restarts + 1
  /\ UNCHANGED <<row, claiming, exec, handled, stalls, faults>>

\* What it waited for has settled: close the database, exit the process.
Exit(w) ==
  /\ worker[w] = "stopping"
  /\ \A e \in ExecutionsOf(w) : <<e.job, e.claim>> \notin awaited[w]
  /\ Halt(w)
  /\ UNCHANGED <<row, handled, bounds>>

Crash(w) ==
  /\ worker[w] # "down" /\ restarts < MaxRestarts /\ MayMiss
  /\ Halt(w)
  /\ restarts' = restarts + 1
  /\ UNCHANGED <<row, handled, stalls, faults>>

\* staleMs pass without a heartbeat.
Lapse(j) ==
  /\ status[j] = "RUNNING" /\ j \notin expired
  /\ \A e \in exec : e.job # j
  /\ expired' = expired \cup {j}
  /\ UNCHANGED <<status, lockedBy, attempts, created, process, handled, bounds>>

Stall(j) ==
  /\ status[j] = "RUNNING" /\ j \notin expired
  /\ stalls < MaxStalls /\ MayMiss
  /\ expired' = expired \cup {j}
  /\ stalls' = stalls + 1
  /\ UNCHANGED <<status, lockedBy, attempts, created, process, handled,
                 restarts, faults>>

WorkerStep(w) ==
  \/ Start(w) \/ BeginClaim(w) \/ ClaimNothing(w) \/ Recover(w)
  \/ Stop(w) \/ Exit(w) \/ Crash(w)
  \/ \E j \in Job : Claim(w, j) \/ ClaimLost(w, j)

ExecutionStep(e) ==
  \/ Heartbeat(e) \/ HandlerReturns(e) \/ HandlerThrows(e)
  \/ Complete(e) \/ CompleteFails(e) \/ Fail(e) \/ FailFails(e)

Next ==
  \/ \E w \in Worker : WorkerStep(w)
  \/ \E e \in exec : ExecutionStep(e)
  \/ \E j \in Job : Enqueue(j) \/ Lapse(j) \/ Stall(j)

Spec == Init /\ [][Next]_vars

(* Processes are restarted, poll and sweep; statements answer; handlers    *)
(* return or throw; time passes.  Crashes, stops, stalls and faults are    *)
(* never owed, and neither is a request for work.                          *)
Fairness ==
  /\ \A w \in Worker :
       /\ WF_vars(Start(w)) /\ WF_vars(Exit(w))
       /\ WF_vars(BeginClaim(w)) /\ WF_vars(ClaimNothing(w))
       /\ WF_vars(\E j \in Job : Claim(w, j))
       /\ WF_vars(Recover(w))
  /\ \A j \in Job : WF_vars(Lapse(j))
  /\ WF_vars(\E e \in exec : HandlerReturns(e) \/ HandlerThrows(e))
  /\ WF_vars(\E e \in exec : Complete(e) \/ Fail(e))

FairSpec == Spec /\ Fairness

-----------------------------------------------------------------------------
(* Two executions of one job never run at the same time.                   *)
NoOverlap == \A e, f \in exec : e.job = f.job => e = f

(* True of claim() and recoverStale() as long as a live worker's heartbeat *)
(* is never late; the handlers that write to a customer's target depend on *)
(* it.                                                                     *)
ExclusiveUnlessStalled == stalls = 0 => NoOverlap

(* Whatever the stalls: the claim number tells executions of a job apart,  *)
(* and the newest one is the one locked_by names.  This is what makes the  *)
(* column usable as a fencing token (which complete and fail do not do).   *)
ClaimIsFence ==
  /\ \A e, f \in exec : e.job = f.job /\ e.claim = f.claim => e = f
  /\ \A e \in exec :
       /\ e.claim <= attempts[e.job]
       /\ e.claim = attempts[e.job] /\ status[e.job] = "RUNNING"
            => lockedBy[e.job] = e.worker

(* Seen from outside, the queue does nothing but what JobPromise allows:    *)
(* no sweep or claim brings a settled job back, whatever is late; no second *)
(* execution begins while one is in progress and none settles a job that   *)
(* has gone back into the queue, unless a heartbeat was late.              *)
Active == {<<e.job, e.claim>> : e \in exec}

Promise == INSTANCE JobPromise WITH
  row <- status, active <- Active, late <- stalls > 0

KeepsPromise == Promise!Spec

(* DONE is only ever written after a handler of that job returned.         *)
DoneWasHandled == \A j \in Job : status[j] = "DONE" => j \in handled

(* Every job that is queued is settled, through crashes, lost claims and   *)
(* failed statements: a stale row is found by some worker's sweep.         *)
EveryJobSettles ==
  \A j \in Job : status[j] = "QUEUED" ~> status[j] \in {"DONE", "FAILED"}
=============================================================================
