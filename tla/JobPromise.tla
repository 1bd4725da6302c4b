----------------------------- MODULE JobPromise -----------------------------
(***************************************************************************)
(* What the job queue promises to whoever enqueues work: a job is queued   *)
(* once, executed by one execution after another, settled, and never       *)
(* taken up again.  "Jobs are claimed with FOR UPDATE SKIP LOCKED so       *)
(* multiple worker processes can run safely" (jobs/queue.ts:14), "resume   *)
(* idempotently" (README.md:206).  JobQueue implements it, and RunLifecycle*)
(* does with its jobs only what it allows.                                 *)
(*                                                                         *)
(* A heartbeat that is late while its worker lives takes two clauses of    *)
(* the promise away, marked by "late" below, and no other.                 *)
(***************************************************************************)
CONSTANT Job

VARIABLES
  row,     \* where each job is
  active,  \* the executions in progress: pairs of a job and a name
  late     \* a live worker has missed its heartbeats once

vars == <<row, active, late>>

Settled == {"DONE", "FAILED"}

Init ==
  /\ row = [j \in Job |-> "NONE"]
  /\ active = {}
  /\ late = FALSE

Free(j, executions) == \A x \in executions : x[1] # j

Enqueue(j) ==
  /\ row[j] = "NONE"
  /\ row' = [row EXCEPT ![j] = "QUEUED"]
  /\ UNCHANGED <<active, late>>

\* A job nobody executes is taken: by a new execution, or by one that is lost
\* before it begins.
Take(j) ==
  /\ row[j] = "QUEUED"
  /\ late \/ Free(j, active)
  /\ row' = [row EXCEPT ![j] = "RUNNING"]
  /\ \/ UNCHANGED active
     \/ \E x \in active' \ active : x[1] = j /\ active' = active \cup {x}
  /\ UNCHANGED late

\* An execution settles its job, which is its own to settle; DONE becomes FAILED
\* when the answer to the first statement is lost.  It ends, it does not know yet,
\* or its process dies.
Settle(j, to) ==
  /\ ~Free(j, active)
  /\ \/ late
     \/ row[j] = "RUNNING"
     \/ row[j] = "DONE" /\ to = "FAILED"
  /\ row' = [row EXCEPT ![j] = to]
  /\ active' \subseteq active
  /\ UNCHANGED late

\* A job is taken and settled, and nobody saw it in between.
Serve(j, to) ==
  /\ row[j] = "QUEUED"
  /\ late \/ Free(j, active)
  /\ row' = [row EXCEPT ![j] = to]
  /\ UNCHANGED <<active, late>>

\* Executions end without a word, and jobs that are RUNNING and that nobody
\* executes any more go back into the queue.
Release(S) ==
  /\ \A j \in S : row[j] = "RUNNING"
  /\ active' \subseteq active
  /\ late \/ \A j \in S : Free(j, active')
  /\ row' = [j \in Job |-> IF j \in S THEN "QUEUED" ELSE row[j]]
  /\ UNCHANGED late

BecomeLate ==
  /\ late' = TRUE
  /\ UNCHANGED <<row, active>>

Next ==
  \/ \E j \in Job : Enqueue(j) \/ Take(j)
  \/ \E j \in Job, to \in Settled : Settle(j, to) \/ Serve(j, to)
  \/ \E S \in SUBSET Job : Release(S)
  \/ BecomeLate

Spec == Init /\ [][Next]_vars

(* What follows from the promise alone: executions of a job exclude each   *)
(* other until a heartbeat is late, and a settled job stays settled even   *)
(* then.                                                                   *)
Exclusion == late \/ \A x, y \in active : x[1] = y[1] => x = y

Finality == [][\A j \in Job : row[j] \in Settled => row'[j] \in Settled]_vars
=============================================================================
