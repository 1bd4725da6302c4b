--------------------------- MODULE JobQueueProofs ---------------------------
(* Proofs about JobQueue, for every set of workers and jobs and every      *)
(* value of the bounds.                                                    *)
EXTENDS JobQueue, FiniteSetTheorems, TLAPS

-----------------------------------------------------------------------------
(* Lemma: the rows a claim, a settlement or a sweep writes keep the shape  *)
(* the type invariant gives a row.                                         *)
RowOK ==
  /\ status \in [Job -> JobStatus]
  /\ lockedBy \in [Job -> Worker \cup {None}]
  /\ attempts \in [Job -> Nat]
  /\ created \in [Job -> Nat]
  /\ expired \subseteq Job
  /\ \A j \in Job : status[j] = "RUNNING" <=> lockedBy[j] # None

LEMMA ClaimRowOK ==
  ASSUME NEW w \in Worker, NEW j \in Job, RowOK, ClaimRow(w, j)
  PROVE  RowOK'
BY QueueAssumption DEF RowOK, ClaimRow, JobStatus

LEMMA SettleRowOK ==
  ASSUME NEW j \in Job, NEW to \in {"DONE", "FAILED"}, RowOK, SettleRow(j, to)
  PROVE  RowOK'
BY QueueAssumption DEF RowOK, SettleRow, JobStatus

LEMMA DoubtfulOK ==
  ASSUME NEW j \in Job, NEW to \in {"DONE", "FAILED"}, RowOK, Doubtful(j, to)
  PROVE  RowOK'
BY SettleRowOK DEF Doubtful, RowOK, row

LEMMA RecoverRowsOK ==
  ASSUME RowOK, RecoverRows
  PROVE  RowOK'
BY QueueAssumption DEF RowOK, RecoverRows, Stale, JobStatus

(* The type of the processes' memory, on its own.                          *)
ProcessOK ==
  /\ worker \in [Worker -> {"down", "up", "stopping"}]
  /\ claiming \subseteq Worker
  /\ exec \subseteq Execution
  /\ awaited \in [Worker -> SUBSET (Job \X Nat)]
  /\ handled \subseteq Job
  /\ restarts \in Nat /\ stalls \in Nat /\ faults \in Nat

LEMMA HaltOK ==
  ASSUME NEW w \in Worker, ProcessOK, Halt(w)
  PROVE  /\ worker' \in [Worker -> {"down", "up", "stopping"}]
         /\ claiming' \subseteq Worker
         /\ exec' \subseteq Execution
         /\ awaited' \in [Worker -> SUBSET (Job \X Nat)]
BY DEF ProcessOK, Halt

LEMMA AdvanceOK ==
  ASSUME NEW e \in exec, NEW to \in {"completing", "failing"},
         exec \subseteq Execution, Advance(e, to)
  PROVE  exec' \subseteq Execution
BY DEF Advance, Execution

(* Every step keeps the types: one step of the proof per action.           *)
LEMMA StepTypeOK == TypeOK /\ [Next]_vars => TypeOK'
<1> SUFFICES ASSUME RowOK, ProcessOK, [Next]_vars
             PROVE  RowOK' /\ ProcessOK'
  BY DEF TypeOK, RowOK, ProcessOK
<1>1. ASSUME NEW w \in Worker, Start(w)
      PROVE  RowOK' /\ ProcessOK'
  BY <1>1, RecoverRowsOK DEF Start, ProcessOK, bounds
<1>2. ASSUME NEW w \in Worker, BeginClaim(w)
      PROVE  RowOK' /\ ProcessOK'
  BY <1>2 DEF BeginClaim, RowOK, ProcessOK, row, bounds
<1>3. ASSUME NEW w \in Worker, ClaimNothing(w)
      PROVE  RowOK' /\ ProcessOK'
  BY <1>3 DEF ClaimNothing, RowOK, ProcessOK, row, bounds
<1>4. ASSUME NEW w \in Worker, Recover(w)
      PROVE  RowOK' /\ ProcessOK'
  BY <1>4, RecoverRowsOK DEF Recover, ProcessOK, process, bounds
<1>5. ASSUME NEW w \in Worker, Stop(w)
      PROVE  RowOK' /\ ProcessOK'
  <2>1. {<<e.job, e.claim>> : e \in ExecutionsOf(w)} \subseteq Job \X Nat
    BY DEF ExecutionsOf, ProcessOK, Execution
  <2>. QED
    BY <1>5, <2>1 DEF Stop, RowOK, ProcessOK, row
<1>6. ASSUME NEW w \in Worker, Exit(w)
      PROVE  RowOK' /\ ProcessOK'
  BY <1>6, HaltOK DEF Exit, RowOK, ProcessOK, row, bounds
<1>7. ASSUME NEW w \in Worker, Crash(w)
      PROVE  RowOK' /\ ProcessOK'
  BY <1>7, HaltOK DEF Crash, RowOK, ProcessOK, row
<1>8. ASSUME NEW w \in Worker, NEW j \in Job, Claim(w, j)
      PROVE  RowOK' /\ ProcessOK'
  <2>1. [worker |-> w, job |-> j, claim |-> attempts[j] + 1,
         phase |-> "handling"] \in Execution
    BY DEF Execution, RowOK
  <2>. QED
    BY <1>8, <2>1, ClaimRowOK DEF Claim, ProcessOK, bounds
<1>9. ASSUME NEW w \in Worker, NEW j \in Job, ClaimLost(w, j)
      PROVE  RowOK' /\ ProcessOK'
  BY <1>9, ClaimRowOK DEF ClaimLost, ProcessOK
<1>10. ASSUME NEW e \in exec, ExecutionStep(e)
       PROVE  RowOK' /\ ProcessOK'
  <2>0. e \in Execution /\ e.job \in Job /\ e.worker \in Worker
    BY DEF ProcessOK, Execution
  <2>1. CASE Heartbeat(e)
    BY <2>1 DEF Heartbeat, RowOK, ProcessOK, process, bounds
  <2>2. CASE HandlerReturns(e)
    BY <2>0, <2>2, AdvanceOK DEF HandlerReturns, RowOK, ProcessOK, row, bounds
  <2>3. CASE HandlerThrows(e)
    BY <2>3, AdvanceOK DEF HandlerThrows, RowOK, ProcessOK, row, bounds
  <2>4. CASE Complete(e)
    BY <2>0, <2>4, SettleRowOK DEF Complete, ProcessOK, bounds
  <2>5. CASE CompleteFails(e)
    BY <2>0, <2>5, AdvanceOK, DoubtfulOK DEF CompleteFails, ProcessOK
  <2>6. CASE Fail(e)
    BY <2>0, <2>6, SettleRowOK DEF Fail, ProcessOK, bounds
  <2>7. CASE FailFails(e)
    <3>1. RowOK'
      BY <2>0, <2>7, DoubtfulOK DEF FailFails
    <3>. QED
      BY <2>0, <2>7, <3>1, HaltOK DEF FailFails, ProcessOK
  <2>. QED
    BY <1>10, <2>1, <2>2, <2>3, <2>4, <2>5, <2>6, <2>7 DEF ExecutionStep
<1>11. ASSUME NEW j \in Job, Enqueue(j)
       PROVE  RowOK' /\ ProcessOK'
  <2>1. Cardinality({k \in Job : status[k] # "NONE"}) \in Nat
    BY QueueAssumption, FS_Subset, FS_CardinalityType
  <2>. QED
    BY <1>11, <2>1 DEF Enqueue, RowOK, ProcessOK, process, bounds, JobStatus
<1>12. ASSUME NEW j \in Job, Lapse(j) \/ Stall(j)
       PROVE  RowOK' /\ ProcessOK'
  BY <1>12 DEF Lapse, Stall, RowOK, ProcessOK, process, bounds
<1>13. CASE UNCHANGED vars
  BY <1>13 DEF vars, row, process, bounds, RowOK, ProcessOK
<1>. QED
  BY <1>1, <1>2, <1>3, <1>4, <1>5, <1>6, <1>7, <1>8, <1>9, <1>10, <1>11,
     <1>12, <1>13 DEF Next, WorkerStep

(* Theorem: the type invariant of the queue and its workers.               *)
THEOREM TypeCorrect == Spec => []TypeOK
<1>1. Init => TypeOK
  BY QueueAssumption DEF Init, TypeOK, JobStatus, Execution
<1>. QED
  BY <1>1, StepTypeOK, PTL DEF Spec

-----------------------------------------------------------------------------
(* The invariant behind ExclusiveUnlessStalled: an execution holds its job. *)
(* Its row has the claim number the execution was given and is RUNNING     *)
(* under its worker's name with a heartbeat that has not lapsed; or it is  *)
(* DONE and the execution, which had no answer, is about to fail it.       *)
Holds(e) ==
  /\ attempts[e.job] = e.claim
  /\ \/ /\ status[e.job] = "RUNNING"
        /\ lockedBy[e.job] = e.worker
        /\ e.job \notin expired
     \/ status[e.job] = "DONE" /\ e.phase = "failing"

Exclusive ==
  /\ \A e \in exec : Holds(e)
  /\ NoOverlap

(* A step that leaves the rows alone and adds no execution.                *)
LEMMA ShrinkExclusive ==
  ASSUME Exclusive, UNCHANGED row, exec' \subseteq exec
  PROVE  Exclusive'
BY DEF Exclusive, Holds, NoOverlap, row

(* An execution goes on: with its row as it was, or DONE.                  *)
LEMMA AdvanceExclusive ==
  ASSUME TypeOK, Exclusive, NEW e \in exec, e.phase # "failing",
         NEW to \in {"completing", "failing"}, Advance(e, to),
         UNCHANGED row \/ (SettleRow(e.job, "DONE") /\ to = "failing")
  PROVE  Exclusive'
<1> DEFINE f == [e EXCEPT !.phase = to]
<1>1. e \in Execution
  BY DEF TypeOK
<1>2. /\ f.job = e.job /\ f.worker = e.worker /\ f.claim = e.claim /\ f.phase = to
  BY <1>1 DEF Execution
<1>3. exec' = (exec \ {e}) \cup {f}
  BY DEF Advance
<1>. HIDE DEF f
<1>4. NoOverlap'
  BY <1>2, <1>3 DEF Exclusive, NoOverlap
<1>5. \A g \in exec \ {e} : g.job # e.job /\ Holds(g)
  BY DEF Exclusive, NoOverlap
<1>6. Holds(e) /\ e.job \in Job
  BY <1>1 DEF Exclusive, Execution
<1>7. CASE UNCHANGED row
  BY <1>2, <1>3, <1>4, <1>5, <1>6, <1>7 DEF Exclusive, Holds, row
<1>8. CASE SettleRow(e.job, "DONE") /\ to = "failing"
  <2>1. Holds(f)'
    BY <1>2, <1>6, <1>8 DEF Holds, SettleRow, TypeOK
  <2>2. \A g \in exec \ {e} : Holds(g)'
    BY <1>5, <1>8 DEF Holds, SettleRow
  <2>. QED
    BY <1>3, <1>4, <2>1, <2>2 DEF Exclusive
<1>. QED
  BY <1>7, <1>8

(* Settling the row of an execution that ends.                             *)
LEMMA SettleExclusive ==
  ASSUME TypeOK, Exclusive, NEW e \in exec, NEW to \in {"DONE", "FAILED"},
         SettleRow(e.job, to), exec' \subseteq exec \ {e}
  PROVE  Exclusive'
<1>1. \A f \in exec' : f \in exec /\ f.job # e.job
  BY DEF Exclusive, NoOverlap
<1>. QED
  BY <1>1 DEF Exclusive, Holds, NoOverlap, SettleRow, TypeOK

(* A sweep takes no job that is being executed: none is expired.           *)
LEMMA RecoverExclusive ==
  ASSUME TypeOK, Exclusive, RecoverRows, UNCHANGED exec
  PROVE  Exclusive'
<1>1. \A e \in exec : e.job \in Job /\ e.job \notin Stale
  BY DEF Exclusive, Holds, Stale, TypeOK, Execution
<1>. QED
  BY <1>1 DEF Exclusive, Holds, NoOverlap, RecoverRows

(* A claim takes a QUEUED job, which nobody executes.                      *)
LEMMA ClaimExclusive ==
  ASSUME TypeOK, Exclusive, NEW w \in Worker, NEW j \in Job, ClaimRow(w, j),
         NEW fresh \in SUBSET {[worker |-> w, job |-> j,
                                claim |-> attempts[j] + 1, phase |-> "handling"]},
         exec' = exec \cup fresh
  PROVE  Exclusive'
<1>1. \A e \in exec : e.job # j
  BY DEF Exclusive, Holds, ClaimRow, Oldest
<1>2. \A e \in fresh : Holds(e)'
  BY DEF Holds, ClaimRow, TypeOK
<1>3. \A e \in exec : Holds(e)'
  BY <1>1 DEF Exclusive, Holds, ClaimRow
<1>4. NoOverlap'
  BY <1>1 DEF Exclusive, NoOverlap
<1>. QED
  BY <1>2, <1>3, <1>4 DEF Exclusive

LEMMA StepExclusive ==
  ASSUME TypeOK, stalls = 0, Exclusive, [Next]_vars, stalls' = 0
  PROVE  Exclusive' /\ stalls' = 0
<1>1. ASSUME NEW w \in Worker, Start(w) \/ Recover(w)
      PROVE  Exclusive' /\ stalls' = 0
  BY <1>1, RecoverExclusive DEF Start, Recover, process, bounds
<1>2. ASSUME NEW w \in Worker,
             BeginClaim(w) \/ ClaimNothing(w) \/ Stop(w) \/ Exit(w) \/ Crash(w)
      PROVE  Exclusive' /\ stalls' = 0
  BY <1>2, ShrinkExclusive
     DEF BeginClaim, ClaimNothing, Stop, Exit, Crash, Halt, bounds
<1>3. ASSUME NEW w \in Worker, NEW j \in Job, Claim(w, j)
      PROVE  Exclusive' /\ stalls' = 0
  <2> DEFINE fresh == {[worker |-> w, job |-> j, claim |-> attempts[j] + 1,
                        phase |-> "handling"]}
  <2>1. ClaimRow(w, j) /\ exec' = exec \cup fresh /\ fresh \in SUBSET fresh
    BY <1>3 DEF Claim
  <2>. QED
    BY <1>3, <2>1, ClaimExclusive DEF Claim, bounds
<1>4. ASSUME NEW w \in Worker, NEW j \in Job, ClaimLost(w, j)
      PROVE  Exclusive' /\ stalls' = 0
  <2>1. ClaimRow(w, j) /\ exec' = exec \cup {}
    BY <1>4 DEF ClaimLost
  <2>. QED
    BY <1>4, <2>1, ClaimExclusive DEF ClaimLost
<1>5. ASSUME NEW e \in exec, ExecutionStep(e)
      PROVE  Exclusive' /\ stalls' = 0
  <2>1. CASE Heartbeat(e)
    <3>1. \A f \in exec : Holds(f)'
      BY <2>1 DEF Heartbeat, Exclusive, Holds
    <3>. QED
      BY <2>1, <3>1 DEF Heartbeat, Exclusive, NoOverlap, process, bounds
  <2>2. CASE HandlerReturns(e) \/ HandlerThrows(e) \/ CompleteFails(e)
    BY <2>2, AdvanceExclusive
       DEF HandlerReturns, HandlerThrows, CompleteFails, Doubtful, bounds
  <2>3. CASE Complete(e) \/ Fail(e)
    BY <2>3, SettleExclusive DEF Complete, Fail, bounds
  <2>4. CASE FailFails(e)
    <3>1. exec' \subseteq exec \ {e}
      BY <2>4 DEF FailFails, Halt, ExecutionsOf
    <3>. QED
      BY <2>4, <3>1, ShrinkExclusive, SettleExclusive DEF FailFails, Doubtful
  <2>. QED
    BY <1>5, <2>1, <2>2, <2>3, <2>4 DEF ExecutionStep
<1>6. ASSUME NEW j \in Job, Enqueue(j)
      PROVE  Exclusive' /\ stalls' = 0
  BY <1>6 DEF Enqueue, Exclusive, Holds, NoOverlap, process, bounds
<1>7. ASSUME NEW j \in Job, Lapse(j)
      PROVE  Exclusive' /\ stalls' = 0
  BY <1>7 DEF Lapse, Exclusive, Holds, NoOverlap, process, bounds
<1>8. ASSUME NEW j \in Job, Stall(j)
      PROVE  FALSE
  BY <1>8 DEF Stall
<1>9. CASE UNCHANGED vars
  BY <1>9, ShrinkExclusive DEF vars, process, bounds
<1>. QED
  BY <1>1, <1>2, <1>3, <1>4, <1>5, <1>6, <1>7, <1>8, <1>9
     DEF Next, WorkerStep

(* A missed heartbeat is not forgotten.                                    *)
LEMMA StallsOnlyGrow ==
  ASSUME TypeOK, [Next]_vars, stalls' = 0
  PROVE  stalls = 0
<1>1. ASSUME NEW w \in Worker, WorkerStep(w) PROVE stalls' = stalls
  BY <1>1 DEF WorkerStep, Start, BeginClaim, ClaimNothing, Recover, Stop, Exit,
              Crash, Claim, ClaimLost, bounds
<1>2. ASSUME NEW e \in exec, ExecutionStep(e) PROVE stalls' = stalls
  BY <1>2 DEF ExecutionStep, Heartbeat, HandlerReturns, HandlerThrows, Complete,
              CompleteFails, Fail, FailFails, bounds
<1>3. ASSUME NEW j \in Job, Enqueue(j) \/ Lapse(j) PROVE stalls' = stalls
  BY <1>3 DEF Enqueue, Lapse, bounds
<1>4. ASSUME NEW j \in Job, Stall(j) PROVE FALSE
  BY <1>4 DEF Stall, TypeOK
<1>5. CASE UNCHANGED vars
  BY <1>5 DEF vars, bounds
<1>. QED
  BY <1>1, <1>2, <1>3, <1>4, <1>5 DEF Next

(* Theorem: as long as no live worker has missed its heartbeats for        *)
(* staleMs, at most one execution of a job is in progress, however many    *)
(* workers there are and however they crash, stop, lose claims and fail    *)
(* statements.                                                             *)
THEOREM ExecutionsExclude == Spec => []ExclusiveUnlessStalled
<1> DEFINE IInv == stalls = 0 => Exclusive
<1>1. Init => IInv
  BY DEF Init, Exclusive, NoOverlap
<1>2. IInv => ExclusiveUnlessStalled
  BY DEF Exclusive, ExclusiveUnlessStalled
<1>3. TypeOK /\ IInv /\ [Next]_vars => IInv'
  BY StepExclusive, StallsOnlyGrow
<1>. QED
  BY <1>1, <1>2, <1>3, TypeCorrect, PTL DEF Spec

-----------------------------------------------------------------------------
(* The fence holds whatever the stalls.  It is inductive with the types:   *)
(* attempts only grows, and only a claim makes a row RUNNING.              *)
LEMMA StepFence ==
  ASSUME TypeOK, ClaimIsFence, [Next]_vars
  PROVE  ClaimIsFence'
<1> USE DEF ClaimIsFence
<1>0. \A e \in exec : /\ e \in Execution /\ e.job \in Job
                      /\ e.claim \in Nat /\ attempts[e.job] \in Nat
  BY DEF TypeOK, Execution
<1>1. ASSUME RecoverRows, UNCHANGED exec PROVE ClaimIsFence'
  BY <1>0, <1>1 DEF RecoverRows
<1>2. ASSUME NEW w \in Worker, NEW j \in Job, ClaimRow(w, j),
             NEW fresh \in SUBSET {[worker |-> w, job |-> j,
                                    claim |-> attempts[j] + 1, phase |-> "handling"]},
             exec' = exec \cup fresh
      PROVE  ClaimIsFence'
  <2>1. attempts' = [attempts EXCEPT ![j] = @ + 1]
    BY <1>2 DEF ClaimRow
  <2>2. lockedBy' = [lockedBy EXCEPT ![j] = w]
    BY <1>2 DEF ClaimRow
  <2>3. status' = [status EXCEPT ![j] = "RUNNING"]
    BY <1>2 DEF ClaimRow
  <2>4. /\ attempts'[j] \in Nat
        /\ \A e \in exec : e.job = j => e.claim < attempts'[j]
    BY <1>0, <2>1 DEF TypeOK
  <2>5. \A e \in fresh : /\ e.job = j /\ e.worker = w
                         /\ e.claim = attempts'[j] /\ lockedBy'[j] = w
    BY <2>1, <2>2 DEF TypeOK
  <2>6. \A e, f \in fresh : e = f
    OBVIOUS
  <2>7. \A e, f \in exec' : e.job = f.job /\ e.claim = f.claim => e = f
    BY <1>0, <1>2, <2>4, <2>5, <2>6
  <2>8. ASSUME NEW e \in exec'
        PROVE  /\ e.claim <= attempts'[e.job]
               /\ e.claim = attempts'[e.job] /\ status'[e.job] = "RUNNING"
                    => lockedBy'[e.job] = e.worker
    <3>1. CASE e \in fresh
      BY <2>5, <3>1, <2>1 DEF TypeOK
    <3>2. CASE e \in exec /\ e.job = j
      BY <1>0, <2>4, <3>2
    <3>3. CASE e \in exec /\ e.job # j
      BY <1>0, <2>1, <2>2, <2>3, <3>3
    <3>. QED
      BY <1>2, <3>1, <3>2, <3>3
  <2>. QED
    BY <2>7, <2>8
<1>3. ASSUME UNCHANGED <<status, lockedBy, attempts>>, exec' \subseteq exec
      PROVE  ClaimIsFence'
  BY <1>3
<1>4. ASSUME NEW e \in exec, NEW to \in {"completing", "failing"},
             Advance(e, to), UNCHANGED row \/ SettleRow(e.job, "DONE")
      PROVE  ClaimIsFence'
  <2> DEFINE g == [e EXCEPT !.phase = to]
  <2>1. g.job = e.job /\ g.worker = e.worker /\ g.claim = e.claim
    BY <1>0 DEF Execution
  <2>2. exec' = (exec \ {e}) \cup {g}
    BY <1>4 DEF Advance
  <2>. HIDE DEF g
  <2>3. CASE UNCHANGED row
    BY <2>1, <2>2, <2>3 DEF row
  <2>4. CASE SettleRow(e.job, "DONE")
    <3>1. \A f \in exec \cup {g} :
             status'[f.job] = "RUNNING" => status[f.job] = "RUNNING" /\ f.job # e.job
      BY <1>0, <2>1, <2>4 DEF SettleRow, TypeOK
    <3>2. \A f \in exec : f.job # e.job => lockedBy'[f.job] = lockedBy[f.job]
      BY <1>0, <2>4 DEF SettleRow, TypeOK
    <3>3. attempts' = attempts
      BY <2>4 DEF SettleRow
    <3>4. \A f, h \in exec' : f.job = h.job /\ f.claim = h.claim => f = h
      BY <2>1, <2>2
    <3>. QED
      BY <2>1, <2>2, <3>1, <3>2, <3>3, <3>4
  <2>. QED
    BY <1>4, <2>3, <2>4
<1>5. ASSUME NEW j \in Job, NEW to \in {"DONE", "FAILED"}, SettleRow(j, to),
             exec' \subseteq exec
      PROVE  ClaimIsFence'
  <2>1. \A e \in exec : status'[e.job] = "RUNNING"
                         => status[e.job] = "RUNNING" /\ e.job # j
    BY <1>0, <1>5 DEF SettleRow, TypeOK
  <2>2. \A e \in exec : e.job # j => lockedBy'[e.job] = lockedBy[e.job]
    BY <1>0, <1>5 DEF SettleRow, TypeOK
  <2>3. attempts' = attempts
    BY <1>5 DEF SettleRow
  <2>. QED
    BY <1>5, <2>1, <2>2, <2>3
<1>6. ASSUME NEW w \in Worker, WorkerStep(w) PROVE ClaimIsFence'
  <2>1. CASE Start(w) \/ Recover(w)
    BY <1>1, <2>1 DEF Start, Recover, process
  <2>2. CASE BeginClaim(w) \/ ClaimNothing(w) \/ Stop(w) \/ Exit(w) \/ Crash(w)
    BY <1>3, <2>2 DEF BeginClaim, ClaimNothing, Stop, Exit, Crash, Halt, row
  <2>3. ASSUME NEW j \in Job, Claim(w, j) PROVE ClaimIsFence'
    <3> DEFINE fresh == {[worker |-> w, job |-> j, claim |-> attempts[j] + 1,
                          phase |-> "handling"]}
    <3>1. ClaimRow(w, j) /\ exec' = exec \cup fresh /\ fresh \in SUBSET fresh
      BY <2>3 DEF Claim
    <3>. HIDE DEF ClaimIsFence
    <3>. QED
      BY <1>2, <3>1
  <2>4. ASSUME NEW j \in Job, ClaimLost(w, j) PROVE ClaimIsFence'
    <3>1. ClaimRow(w, j) /\ exec' = exec \cup {}
      BY <2>4 DEF ClaimLost
    <3>. QED
      BY <1>2, <3>1
  <2>. QED
    BY <1>6, <2>1, <2>2, <2>3, <2>4 DEF WorkerStep
<1>7. ASSUME NEW e \in exec, ExecutionStep(e) PROVE ClaimIsFence'
  <2>1. CASE Heartbeat(e)
    BY <1>3, <2>1 DEF Heartbeat, process
  <2>2. CASE HandlerReturns(e) \/ HandlerThrows(e) \/ CompleteFails(e)
    BY <1>0, <1>4, <2>2 DEF HandlerReturns, HandlerThrows, CompleteFails, Doubtful
  <2>3. CASE Complete(e) \/ Fail(e)
    BY <1>0, <1>5, <2>3 DEF Complete, Fail
  <2>4. CASE FailFails(e)
    BY <1>0, <1>3, <1>5, <2>4 DEF FailFails, Halt, Doubtful, row
  <2>. QED
    BY <1>7, <2>1, <2>2, <2>3, <2>4 DEF ExecutionStep
<1>8. ASSUME NEW j \in Job, Enqueue(j) PROVE ClaimIsFence'
  <2>1. \A e \in exec : status'[e.job] = "RUNNING" => status[e.job] = "RUNNING"
    BY <1>0, <1>8 DEF Enqueue, TypeOK
  <2>. QED
    BY <1>8, <2>1 DEF Enqueue, process
<1>9. ASSUME NEW j \in Job, Lapse(j) \/ Stall(j) PROVE ClaimIsFence'
  BY <1>3, <1>9 DEF Lapse, Stall, process
<1>10. CASE UNCHANGED vars
  BY <1>3, <1>10 DEF vars, row, process
<1>. QED
  BY <1>6, <1>7, <1>8, <1>9, <1>10 DEF Next

(* Theorem: the claim number fences executions of a job, with any number   *)
(* of stalls.                                                              *)
THEOREM ClaimsFence == Spec => []ClaimIsFence
<1>1. Init => ClaimIsFence
  BY DEF Init, ClaimIsFence
<1>. QED
  BY <1>1, StepFence, TypeCorrect, PTL DEF Spec

-----------------------------------------------------------------------------
(* A row is settled as DONE by an execution whose handler has returned,    *)
(* and complete() only comes after that.                                   *)
CompletingWasHandled ==
  /\ DoneWasHandled
  /\ \A e \in exec : e.phase = "completing" => e.job \in handled

LEMMA StepHandled ==
  ASSUME TypeOK, CompletingWasHandled, [Next]_vars
  PROVE  CompletingWasHandled'
<1> USE DEF CompletingWasHandled, DoneWasHandled
<1>1. ASSUME NEW w \in Worker, WorkerStep(w) PROVE CompletingWasHandled'
  BY <1>1 DEF WorkerStep, Start, BeginClaim, ClaimNothing, Recover, Stop, Exit,
              Crash, Halt, Claim, ClaimLost, ClaimRow, RecoverRows, row, process, TypeOK
<1>2. ASSUME NEW e \in exec, ExecutionStep(e) PROVE CompletingWasHandled'
  <2>0. e \in Execution /\ e.job \in Job
    BY DEF TypeOK, Execution
  <2>1. CASE Heartbeat(e)
    BY <2>1 DEF Heartbeat, process
  <2>2. ASSUME NEW to \in {"completing", "failing"}, Advance(e, to),
               UNCHANGED row \/ (SettleRow(e.job, "DONE") /\ e.job \in handled),
               to = "completing" => e.job \in handled', handled \subseteq handled'
        PROVE  CompletingWasHandled'
    <3> DEFINE g == [e EXCEPT !.phase = to]
    <3>1. g.job = e.job /\ g.phase = to
      BY <2>0 DEF Execution
    <3>2. exec' = (exec \ {e}) \cup {g}
      BY <2>2 DEF Advance
    <3>. HIDE DEF g
    <3>3. CASE UNCHANGED row
      BY <2>2, <3>1, <3>2, <3>3 DEF row
    <3>4. CASE SettleRow(e.job, "DONE") /\ e.job \in handled
      BY <2>0, <2>2, <3>1, <3>2, <3>4 DEF SettleRow, TypeOK
    <3>. QED
      BY <2>2, <3>3, <3>4
  <2>3. CASE HandlerReturns(e) \/ HandlerThrows(e) \/ CompleteFails(e)
    BY <2>2, <2>3 DEF HandlerReturns, HandlerThrows, CompleteFails, Doubtful
  <2>4. CASE Complete(e) \/ Fail(e)
    BY <2>0, <2>4 DEF Complete, Fail, SettleRow, TypeOK
  <2>5. CASE FailFails(e)
    <3>1. exec' \subseteq exec /\ handled' = handled
      BY <2>5 DEF FailFails, Halt
    <3>2. UNCHANGED row \/ SettleRow(e.job, "FAILED")
      BY <2>5 DEF FailFails, Doubtful
    <3>. QED
      BY <2>0, <3>1, <3>2 DEF SettleRow, row, TypeOK
  <2>. QED
    BY <1>2, <2>1, <2>3, <2>4, <2>5 DEF ExecutionStep
<1>3. ASSUME NEW j \in Job, Enqueue(j) \/ Lapse(j) \/ Stall(j) PROVE CompletingWasHandled'
  BY <1>3 DEF Enqueue, Lapse, Stall, process, TypeOK
<1>4. CASE UNCHANGED vars
  BY <1>4 DEF vars, row, process
<1>. QED
  BY <1>1, <1>2, <1>3, <1>4 DEF Next

(* Theorem: no job is DONE of which no handler returned, whatever stalls,  *)
(* overlaps, crashes and statements that fail.                             *)
THEOREM DoneIsEarned == Spec => []DoneWasHandled
<1>1. Init => CompletingWasHandled
  BY DEF Init, CompletingWasHandled, DoneWasHandled
<1>2. CompletingWasHandled => DoneWasHandled
  BY DEF CompletingWasHandled
<1>. QED
  BY <1>1, <1>2, StepHandled, TypeCorrect, PTL DEF Spec

-----------------------------------------------------------------------------
(* JobQueue implements JobPromise: what an action does to the rows and to  *)
(* the executions is what one action of the promise does, or nothing.      *)
Mapped == [Promise!Next]_(Promise!vars)

LEMMA IdleIsFree ==
  ASSUME TypeOK, stalls = 0 => Exclusive, NEW j \in Job, status[j] = "QUEUED"
  PROVE  stalls > 0 \/ Promise!Free(j, Active)
BY DEF TypeOK, Exclusive, Holds, Active, Promise!Free

LEMMA AdvanceActive ==
  ASSUME exec \subseteq Execution, NEW e \in exec,
         NEW to \in {"completing", "failing"}, Advance(e, to)
  PROVE  Active' = Active
<1> DEFINE f == [e EXCEPT !.phase = to]
<1>1. f.job = e.job /\ f.claim = e.claim
  BY DEF Execution
<1>2. exec' = (exec \ {e}) \cup {f}
  BY DEF Advance
<1>. HIDE DEF f
<1>. QED
  BY <1>1, <1>2 DEF Active

(* Executions that end, with their rows as they are.                       *)
LEMMA ForgetIsReleased ==
  ASSUME TypeOK, status' = status, exec' \subseteq exec, stalls' = stalls
  PROVE  Mapped
<1>1. Active' \subseteq Active
  BY DEF Active
<1>2. status' = [j \in Job |-> IF j \in {} THEN "QUEUED" ELSE status[j]]
  BY DEF TypeOK
<1>3. Promise!Release({})
  BY <1>1, <1>2 DEF Promise!Release
<1>. QED
  BY <1>3 DEF Mapped, Promise!Next

(* A sweep takes jobs that are RUNNING and that nobody executes, unless a  *)
(* heartbeat was late.                                                     *)
LEMMA SweepIsReleased ==
  ASSUME TypeOK, stalls = 0 => Exclusive, RecoverRows, UNCHANGED <<exec, stalls>>
  PROVE  Mapped
<1>1. Active' = Active
  BY DEF Active
<1>2. stalls > 0 \/ \A j \in Stale : Promise!Free(j, Active)
  BY DEF TypeOK, Stale, Exclusive, Holds, Active, Promise!Free
<1>3. Promise!Release(Stale)
  BY <1>1, <1>2 DEF RecoverRows, Stale, Promise!Release
<1>4. Stale \in SUBSET Job
  BY DEF Stale, TypeOK
<1>. QED
  BY <1>3, <1>4 DEF Mapped, Promise!Next

(* A claim that is answered and one that is not.                           *)
LEMMA ClaimIsTaken ==
  ASSUME TypeOK, stalls = 0 => Exclusive, ClaimIsFence, NEW j \in Job, NEW w,
         ClaimRow(w, j), stalls' = stalls,
         \/ exec' = exec
         \/ exec' = exec \cup {[worker |-> w, job |-> j, claim |-> attempts[j] + 1,
                                phase |-> "handling"]}
  PROVE  Mapped
<1> DEFINE x == <<j, attempts[j] + 1>>
<1>1. status[j] = "QUEUED" /\ status' = [status EXCEPT ![j] = "RUNNING"]
  BY DEF ClaimRow, Oldest
<1>2. Active' = Active \/ Active' = Active \cup {x}
  BY DEF Active
<1>3. x \notin Active
  BY DEF Active, ClaimIsFence, TypeOK, Execution
<1>4. \/ Active' = Active
      \/ \E y \in Active' \ Active : y[1] = j /\ Active' = Active \cup {y}
  <2>1. x[1] = j
    OBVIOUS
  <2>. HIDE DEF x
  <2>. QED
    BY <1>2, <1>3, <2>1
<1>5. Promise!Take(j)
  BY <1>1, <1>4, IdleIsFree DEF Promise!Take
<1>. QED
  BY <1>5 DEF Mapped, Promise!Next

(* A statement of an execution settles its job, whether it ends or not.    *)
LEMMA SettleIsSettled ==
  ASSUME TypeOK, stalls = 0 => Exclusive, NEW e \in exec,
         NEW to \in {"DONE", "FAILED"}, SettleRow(e.job, to),
         e.phase = "failing" => to = "FAILED",
         Active' \subseteq Active, stalls' = stalls
  PROVE  Mapped
<1>1. e.job \in Job /\ <<e.job, e.claim>> \in Active
  BY DEF TypeOK, Execution, Active
<1>2. ~Promise!Free(e.job, Active)
  BY <1>1 DEF Promise!Free
<1>3. \/ stalls > 0
      \/ status[e.job] = "RUNNING"
      \/ status[e.job] = "DONE" /\ to = "FAILED"
  BY DEF TypeOK, Exclusive, Holds
<1>4. Promise!Settle(e.job, to)
  BY <1>2, <1>3 DEF Promise!Settle, SettleRow
<1>. QED
  BY <1>1, <1>4 DEF Mapped, Promise!Next, Promise!Settled

LEMMA StepKeepsPromise ==
  ASSUME TypeOK, stalls = 0 => Exclusive, ClaimIsFence, [Next]_vars
  PROVE  Mapped
<1>1. ASSUME NEW w \in Worker, WorkerStep(w) PROVE Mapped
  <2>1. CASE Start(w) \/ Recover(w)
    BY <2>1, SweepIsReleased DEF Start, Recover, process, bounds
  <2>2. CASE BeginClaim(w) \/ ClaimNothing(w) \/ Stop(w) \/ Exit(w) \/ Crash(w)
    BY <2>2, ForgetIsReleased
       DEF BeginClaim, ClaimNothing, Stop, Exit, Crash, Halt, row, bounds
  <2>3. ASSUME NEW j \in Job, Claim(w, j) \/ ClaimLost(w, j) PROVE Mapped
    BY <2>3, ClaimIsTaken DEF Claim, ClaimLost, bounds
  <2>. QED
    BY <1>1, <2>1, <2>2, <2>3 DEF WorkerStep
<1>2. ASSUME NEW e \in exec, ExecutionStep(e) PROVE Mapped
  <2>1. CASE Heartbeat(e)
    BY <2>1, ForgetIsReleased DEF Heartbeat, process, bounds
  <2>2. CASE HandlerReturns(e) \/ HandlerThrows(e) \/ CompleteFails(e)
    <3>1. Active' = Active /\ stalls' = stalls
      BY <2>2, AdvanceActive
         DEF HandlerReturns, HandlerThrows, CompleteFails, TypeOK, bounds
    <3>2. status' = status \/ (SettleRow(e.job, "DONE") /\ e.phase = "completing")
      BY <2>2 DEF HandlerReturns, HandlerThrows, CompleteFails, Doubtful, row
    <3>3. CASE status' = status
      BY <3>1, <3>3 DEF Mapped, Promise!vars
    <3>. QED
      BY <3>1, <3>2, <3>3, SettleIsSettled
  <2>3. CASE Complete(e) \/ Fail(e)
    BY <2>3, SettleIsSettled DEF Complete, Fail, Active, bounds
  <2>4. CASE FailFails(e)
    <3>1. exec' \subseteq exec /\ stalls' = stalls /\ e.phase = "failing"
      BY <2>4 DEF FailFails, Halt
    <3>2. status' = status \/ SettleRow(e.job, "FAILED")
      BY <2>4 DEF FailFails, Doubtful, row
    <3>3. Active' \subseteq Active
      BY <3>1 DEF Active
    <3>. QED
      BY <3>1, <3>2, <3>3, ForgetIsReleased, SettleIsSettled
  <2>. QED
    BY <1>2, <2>1, <2>2, <2>3, <2>4 DEF ExecutionStep
<1>3. ASSUME NEW j \in Job, Enqueue(j) PROVE Mapped
  <2>1. Active' = Active /\ stalls' = stalls
    BY <1>3 DEF Enqueue, Active, process, bounds
  <2>2. Promise!Enqueue(j)
    BY <1>3, <2>1 DEF Enqueue, Promise!Enqueue
  <2>. QED
    BY <2>2 DEF Mapped, Promise!Next
<1>4. ASSUME NEW j \in Job, Lapse(j) PROVE Mapped
  BY <1>4, ForgetIsReleased DEF Lapse, process, bounds
<1>5. ASSUME NEW j \in Job, Stall(j) PROVE Mapped
  <2>1. Active' = Active /\ status' = status
    BY <1>5 DEF Stall, Active, process
  <2>2. stalls' > 0
    BY <1>5 DEF Stall, TypeOK
  <2>3. (stalls > 0)' = TRUE
    BY <2>2
  <2>4. Promise!BecomeLate
    BY <2>1, <2>3 DEF Promise!BecomeLate
  <2>. QED
    BY <2>4 DEF Mapped, Promise!Next
<1>6. CASE UNCHANGED vars
  BY <1>6, ForgetIsReleased DEF vars, row, process, bounds
<1>. QED
  BY <1>1, <1>2, <1>3, <1>4, <1>5, <1>6 DEF Next

(* Theorem: the queue implements JobPromise, for every number of workers,  *)
(* jobs, crashes, stops, late heartbeats and failed statements, those      *)
(* included that were executed and not answered.                           *)
THEOREM PromiseIsKept == Spec => KeepsPromise
<1> DEFINE IInv == stalls = 0 => Exclusive
<1>1. Init => Promise!Init
  BY DEF Init, Active, Promise!Init
<1>2. Init => IInv
  BY DEF Init, Exclusive, NoOverlap
<1>3. TypeOK /\ IInv /\ [Next]_vars => IInv'
  BY StepExclusive, StallsOnlyGrow
<1>4. TypeOK /\ IInv /\ ClaimIsFence /\ [Next]_vars => [Promise!Next]_(Promise!vars)
  BY StepKeepsPromise DEF Mapped
<1>. QED
  BY <1>1, <1>2, <1>3, <1>4, TypeCorrect, ClaimsFence, PTL
     DEF Spec, KeepsPromise, Promise!Spec

-----------------------------------------------------------------------------
(* What the promise is worth to whoever relies on it and on nothing else.  *)
PromiseInv ==
  /\ status \in [Job -> JobStatus]
  /\ Promise!Exclusion

LEMMA StepPromiseInv ==
  ASSUME PromiseInv, [Promise!Next]_(Promise!vars)
  PROVE  PromiseInv'
<1> USE DEF PromiseInv, Promise!Exclusion
<1>1. ASSUME NEW j \in Job, Promise!Enqueue(j) PROVE PromiseInv'
  BY <1>1 DEF Promise!Enqueue, JobStatus
<1>2. ASSUME NEW j \in Job, Promise!Take(j) PROVE PromiseInv'
  BY <1>2 DEF Promise!Take, Promise!Free, JobStatus
<1>3. ASSUME NEW j \in Job, NEW to \in Promise!Settled, Promise!Settle(j, to)
      PROVE  PromiseInv'
  BY <1>3 DEF Promise!Settle, Promise!Settled, JobStatus
<1>4. ASSUME NEW j \in Job, NEW to \in Promise!Settled, Promise!Serve(j, to)
      PROVE  PromiseInv'
  BY <1>4 DEF Promise!Serve, Promise!Settled, JobStatus
<1>5. ASSUME NEW S \in SUBSET Job, Promise!Release(S) PROVE PromiseInv'
  BY <1>5 DEF Promise!Release, JobStatus
<1>6. CASE Promise!BecomeLate
  BY <1>6 DEF Promise!BecomeLate
<1>7. CASE UNCHANGED Promise!vars
  BY <1>7 DEF Promise!vars
<1>. QED
  BY <1>1, <1>2, <1>3, <1>4, <1>5, <1>6, <1>7 DEF Promise!Next

LEMMA PromiseHolds == Promise!Spec => []PromiseInv
<1>1. Promise!Init => PromiseInv
  BY DEF Promise!Init, PromiseInv, Promise!Exclusion, JobStatus
<1>. QED
  BY <1>1, StepPromiseInv, PTL DEF Promise!Spec

(* Theorem: whatever keeps the promise executes a job once at a time until *)
(* a heartbeat is late.                                                    *)
THEOREM PromiseExcludes == Promise!Spec => []Promise!Exclusion
<1>1. PromiseInv => Promise!Exclusion
  BY DEF PromiseInv
<1>. QED
  BY <1>1, PromiseHolds, PTL

(* Theorem: whatever keeps the promise never takes up a job again that was *)
(* settled, late heartbeats or not; so the queue does not.                 *)
THEOREM SettledForGood == Spec => Promise!Finality
<1> DEFINE Stays == \A j \in Job :
                      status[j] \in Promise!Settled => status'[j] \in Promise!Settled
<1>1. PromiseInv /\ [Promise!Next]_(Promise!vars) => [Stays]_(Promise!vars)
  <2> SUFFICES ASSUME PromiseInv, Promise!Next PROVE Stays
    OBVIOUS
  <2> USE DEF PromiseInv, Promise!Settled
  <2>1. ASSUME NEW j \in Job, Promise!Enqueue(j) \/ Promise!Take(j) PROVE Stays
    BY <2>1 DEF Promise!Enqueue, Promise!Take
  <2>2. ASSUME NEW j \in Job, NEW to \in Promise!Settled,
               Promise!Settle(j, to) \/ Promise!Serve(j, to)
        PROVE  Stays
    BY <2>2 DEF Promise!Settle, Promise!Serve
  <2>3. ASSUME NEW S \in SUBSET Job, Promise!Release(S) PROVE Stays
    BY <2>3 DEF Promise!Release
  <2>4. CASE Promise!BecomeLate
    BY <2>4 DEF Promise!BecomeLate
  <2>. QED
    BY <2>1, <2>2, <2>3, <2>4 DEF Promise!Next
<1>2. Promise!Spec => [][Stays]_(Promise!vars)
  BY <1>1, PromiseHolds, PTL DEF Promise!Spec
<1>. QED
  BY <1>2, PromiseIsKept, PTL DEF KeepsPromise, Promise!Finality
=============================================================================
