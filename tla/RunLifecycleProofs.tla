------------------------- MODULE RunLifecycleProofs -------------------------
(* Proofs about RunLifecycle, for every set of runs, targets and clients   *)
(* and every number of workers, jobs and faults.                           *)
EXTENDS RunLifecycle, FiniteSetTheorems, TLAPS

At == {"none", "queued", "over"} \cup Executing
Call == [does: Does, run: Run \cup {None}]

LEMMA AnsweredOK ==
  ASSUME TypeOK, NEW c \in Client, Answered(c)
  PROVE  /\ request' \in [Client -> Call]
         /\ \A d \in Client : request'[d].run = None <=> request'[d].does = "nothing"
BY DEF TypeOK, Answered, Idle, Call, Does

LEMMA GoesOK ==
  ASSUME TypeOK, NEW c \in Client, NEW d \in Does \ {"nothing"}, NEW r \in Run, Goes(c, d, r)
  PROVE  /\ request' \in [Client -> Call]
         /\ \A e \in Client : request'[e].run = None <=> request'[e].does = "nothing"
BY LifecycleAssumption DEF TypeOK, Goes, Call

LEMMA PendingRun ==
  ASSUME TypeOK, NEW c \in Client, request[c].does # "nothing"
  PROVE  request[c].run \in Run
BY DEF TypeOK

LEMMA SetStatusOK ==
  ASSUME TypeOK, NEW r, NEW to \in Status, SetStatus(r, to)
  PROVE  status' \in [Run -> Status]
BY DEF TypeOK, SetStatus

(* A job moves on, or is put back.                                         *)
LEMMA MoveOK ==
  ASSUME TypeOK, NEW j \in Job, at[j] # "none", NEW to \in At \ {"none"}, Move(j, to),
         UNCHANGED of
  PROVE  /\ at' \in [Job -> At]
         /\ \A k \in Job : of'[k] = None <=> at'[k] = "none"
BY DEF TypeOK, Move, At

LEMMA TypeInit == Init => TypeOK
<1>1. ASSUME Init PROVE 0 \in 0 .. MaxFaults
  BY LifecycleAssumption
<1>. QED
  BY <1>1 DEF Init, TypeOK, Status, Idle, Does

(* Every step keeps the types: one step of the proof per action.           *)
LEMMA TypeStep == TypeOK /\ [Next]_vars => TypeOK'
<1>. SUFFICES ASSUME TypeOK, [Next]_vars PROVE TypeOK'
  OBVIOUS
<1>. USE DEF flags, world
<1>1. ASSUME NEW j \in Job, at[j] \in Executing \cup {"queued"}
      PROVE  at[j] # "none" /\ of[j] \in Run
  BY <1>1 DEF TypeOK, Executing
<1>2. ASSUME NEW j \in Job, Claim(j) PROVE TypeOK'
  <2>1. PICK to \in {"loaded", "over"} : Move(j, to)
    BY <1>2 DEF Claim
  <2>. QED
    BY <1>2, <2>1, MoveOK DEF Claim, TypeOK, At, Executing
<1>3. ASSUME NEW j \in Job, Begin(j) PROVE TypeOK'
  BY <1>3, MoveOK, SetStatusOK DEF Begin, TypeOK, At, Executing, Status, Active
<1>4. ASSUME NEW j \in Job, CheckControl(j) \/ Breaks(j) PROVE TypeOK'
  <2>1. PICK to \in {"cancelling", "pausing", "page", "end", "failing"} : Move(j, to)
    BY <1>4 DEF CheckControl, Breaks
  <2>. QED
    BY <1>4, <2>1, MoveOK DEF CheckControl, Breaks, TypeOK, At, Executing
<1>5. ASSUME NEW j \in Job, Page(j) PROVE TypeOK'
  <2>1. PICK to \in {"control", "failing"} : Move(j, to)
    BY <1>5 DEF Page
  <2>2. doubt' \in [Run -> {"none", "target", "person"}]
    BY <1>5 DEF Page, TypeOK
  <2>. QED
    BY <1>5, <2>1, <2>2, MoveOK DEF Page, TypeOK, At, Executing
<1>6. ASSUME NEW j \in Job, Interrupted(j) PROVE TypeOK'
  <2>1. PICK s \in {"CANCELLED", "PAUSED"} : SetStatus(of[j], s)
    BY <1>6 DEF Interrupted
  <2>. QED
    BY <1>6, <2>1, MoveOK, SetStatusOK
    DEF Interrupted, TypeOK, At, Executing, Status, Active, Retryable
<1>7. ASSUME NEW j \in Job, Failed(j) PROVE TypeOK'
  <2>1. PICK s \in {"FAILED", "NEEDS_RECONCILIATION"} : SetStatus(of[j], s)
    BY <1>7 DEF Failed, Aborted
  <2>. QED
    BY <1>7, <2>1, MoveOK, SetStatusOK DEF Failed, TypeOK, At, Executing, Status, Retryable
<1>8. ASSUME NEW j \in Job, Finish(j) PROVE TypeOK'
  <2>1. PICK s \in {"COMPLETED", "COMPLETED_WITH_ERRORS", "NEEDS_RECONCILIATION"} :
          SetStatus(of[j], s)
    BY <1>8 DEF Finish
  <2>. QED
    BY <1>8, <2>1, MoveOK, SetStatusOK DEF Finish, TypeOK, At, Executing, Status, Retryable
<1>9. ASSUME NEW j \in Job, Return(j) PROVE TypeOK'
  BY <1>9, MoveOK DEF Return, TypeOK, At, Executing
<1>10. ASSUME NEW j \in Job, NEW kind, Fault(kind) PROVE faults' \in 0 .. MaxFaults
  BY <1>10, LifecycleAssumption DEF Fault, TypeOK
<1>11. ASSUME NEW j \in Job, Crash(j) \/ Throws(j) \/ TailFails(j) PROVE TypeOK'
  <2>1. PICK to \in {"queued", "over", "failing"} : Move(j, to)
    BY <1>11 DEF Crash, Throws, TailFails
  <2>2. at[j] # "none" /\ faults' \in 0 .. MaxFaults
    BY <1>10, <1>11 DEF Crash, Throws, TailFails, Executing
  <2>3. of[j] \in Run /\ crossed' \subseteq Run
    BY <1>1, <1>11 DEF Crash, Throws, TailFails, Cross, Executing, TypeOK
  <2>. QED
    BY <1>11, <2>1, <2>2, <2>3, MoveOK DEF Crash, Throws, TailFails, TypeOK, At, Executing
<1>12. ASSUME NEW c \in Client, NEW r \in Run, Ask(c, r) PROVE TypeOK'
  <2>1. PICK d \in Does \ {"nothing"} : Goes(c, d, r)
    BY <1>12 DEF Ask, Allowed, Does
  <2>. QED
    BY <1>12, <2>1, GoesOK DEF Ask, TypeOK, Call, Cross, Meeting
<1>13. ASSUME NEW c \in Client, Insert(c) PROVE TypeOK'
  <2>1. request[c].run \in Run
    BY <1>13, PendingRun DEF Insert, Pending
  <2>. QED
    BY <1>13, <2>1, GoesOK, SetStatusOK DEF Insert, TypeOK, Call, Does, Status, Active
<1>14. ASSUME NEW c \in Client, Requeue(c) PROVE TypeOK'
  <2>1. request[c].run \in Run
    BY <1>14, PendingRun DEF Requeue, Pending
  <2>. QED
    BY <1>14, <2>1, GoesOK, SetStatusOK DEF Requeue, TypeOK, Call, Does, Status, Active
<1>15. ASSUME NEW c \in Client, Enqueue(c) PROVE TypeOK'
  <2>1. request[c].run \in Run
    BY <1>15, PendingRun DEF Enqueue, Pending
  <2>2. /\ of' \in [Job -> Run \cup {None}] /\ at' \in [Job -> At]
        /\ \A k \in Job : of'[k] = None <=> at'[k] = "none"
    BY <1>15, <2>1, LifecycleAssumption DEF Enqueue, Move, TypeOK, At
  <2>. QED
    BY <1>15, <2>2, AnsweredOK DEF Enqueue, TypeOK, Call, At
<1>16. ASSUME NEW c \in Client, StopNow(c) \/ AskToStop(c) \/ AskToPause(c) PROVE TypeOK'
  <2>1. request[c].run \in Run
    BY <1>16, PendingRun DEF StopNow, AskToStop, AskToPause, Pending
  <2>2. status' \in [Run -> Status]
    BY <1>16, SetStatusOK DEF StopNow, AskToStop, AskToPause, TypeOK, Status, Retryable
  <2>. QED
    BY <1>16, <2>1, <2>2, AnsweredOK DEF StopNow, AskToStop, AskToPause, TypeOK, Call, Cross
<1>17. ASSUME NEW c \in Client, Settle(c) PROVE TypeOK'
  <2>1. request[c].run \in Run
    BY <1>17, PendingRun DEF Settle, Pending
  <2>2. doubt' \in [Run -> {"none", "target", "person"}]
    BY <1>17, <2>1 DEF Settle, TypeOK
  <2>3. /\ request' \in [Client -> Call]
        /\ \A e \in Client : request'[e].run = None <=> request'[e].does = "nothing"
    BY <1>17, <2>1, GoesOK, AnsweredOK DEF Settle, Does
  <2>. QED
    BY <1>17, <2>2, <2>3 DEF Settle, TypeOK, Call
<1>18. ASSUME NEW c \in Client, Count(c) \/ Close(c) PROVE TypeOK'
  <2>1. request[c].run \in Run
    BY <1>18, PendingRun DEF Count, Close, Pending
  <2>2. status' \in [Run -> Status]
    BY <1>18, SetStatusOK DEF Count, Close, TypeOK, Status, Retryable
  <2>3. /\ request' \in [Client -> Call]
        /\ \A e \in Client : request'[e].run = None <=> request'[e].does = "nothing"
    BY <1>18, <2>1, GoesOK, AnsweredOK DEF Count, Close, Does
  <2>. QED
    BY <1>18, <2>1, <2>2, <2>3 DEF Count, Close, TypeOK, Call, Cross
<1>19. ASSUME NEW c \in Client, Dropped(c) PROVE TypeOK'
  <2>1. faults' \in 0 .. MaxFaults
    BY <1>19, LifecycleAssumption DEF Dropped, Fault, TypeOK
  <2>. QED
    BY <1>19, <2>1, AnsweredOK DEF Dropped, TypeOK, Call
<1>20. ASSUME UNCHANGED vars PROVE TypeOK'
  BY <1>20 DEF vars, TypeOK
<1>. QED
  BY <1>2, <1>3, <1>4, <1>5, <1>6, <1>7, <1>8, <1>9, <1>11, <1>12, <1>13, <1>14, <1>15,
     <1>16, <1>17, <1>18, <1>19, <1>20
  DEF Next, ExecutionStep, WriteStep

(* The type invariant of runs, jobs and requests.                          *)
THEOREM TypeCorrect == Spec => []TypeOK
BY TypeInit, TypeStep, PTL DEF Spec

-----------------------------------------------------------------------------
(* No statement fails on its own, and no request is dropped half-way.      *)
StatementsSucceed == "database" \notin Faults /\ "api" \notin Faults

Alive(r) == \E j \in Job : of[j] = r /\ at[j] \notin {"none", "over", "tail", "returning"}
Coming(r) == \E c \in Client : request[c] = [does |-> "enqueue", run |-> r]

(* The inductive form of NoRunIsStranded: an execution that has written    *)
(* its final status does not count, because it only leaves.                *)
Attended == \A r \in Run : status[r] \in Wanted => Alive(r) \/ Coming(r)

(* A step that moves a job among the places that count, or moves it away   *)
(* from them once its run is at rest.                                      *)
LEMMA JobMoves ==
  ASSUME TypeOK, Attended, NEW j \in Job, at[j] # "none", NEW to, Move(j, to),
         UNCHANGED <<of, request>>,
         \A r \in Run \ {of[j]} : status'[r] = status[r],
         \/ to \notin {"none", "over", "tail", "returning"}
         \/ status'[of[j]] \notin Wanted
         \/ at[j] \in {"over", "tail", "returning"} /\ UNCHANGED status
  PROVE  Attended'
<1>1. at'[j] = to /\ \A k \in Job \ {j} : at'[k] = at[k]
  BY DEF TypeOK, Move
<1>. SUFFICES ASSUME NEW r \in Run, status'[r] \in Wanted
              PROVE  Alive(r)' \/ Coming(r)'
  BY DEF Attended
<1>2. CASE r = of[j] /\ to \notin {"none", "over", "tail", "returning"}
  BY <1>1, <1>2 DEF Alive
<1>3. CASE ~(r = of[j] /\ to \notin {"none", "over", "tail", "returning"})
  <2>1. status[r] \in Wanted
    BY <1>3
  <2>2. CASE Coming(r)
    BY <2>2 DEF Coming
  <2>3. CASE Alive(r)
    <3>1. PICK k \in Job : of[k] = r /\ at[k] \notin {"none", "over", "tail", "returning"}
      BY <2>3 DEF Alive
    <3>2. k # j
      BY <1>3, <3>1
    <3>. QED
      BY <1>1, <3>1, <3>2 DEF Alive
  <2>. QED
    BY <2>1, <2>2, <2>3 DEF Attended
<1>. QED
  BY <1>2, <1>3

(* A step of a request that is not about to enqueue.                       *)
LEMMA RequestMoves ==
  ASSUME TypeOK, Attended, NEW c \in Client, request[c].does # "enqueue",
         NEW new, request' = [request EXCEPT ![c] = new],
         UNCHANGED <<at, of>>,
         \A r \in Run : status'[r] \in Wanted =>
            status[r] = status'[r] \/ new = [does |-> "enqueue", run |-> r]
  PROVE  Attended'
<1>1. request'[c] = new /\ \A d \in Client \ {c} : request'[d] = request[d]
  BY DEF TypeOK
<1>. SUFFICES ASSUME NEW r \in Run, status'[r] \in Wanted
              PROVE  Alive(r)' \/ Coming(r)'
  BY DEF Attended
<1>2. CASE new = [does |-> "enqueue", run |-> r]
  BY <1>1, <1>2 DEF Coming
<1>3. CASE status[r] = status'[r]
  <2>1. Alive(r) \/ Coming(r)
    BY <1>3 DEF Attended
  <2>2. ASSUME Coming(r) PROVE Coming(r)'
    <3>1. PICK d \in Client : request[d] = [does |-> "enqueue", run |-> r]
      BY <2>2 DEF Coming
    <3>2. d # c
      BY <3>1
    <3>. QED
      BY <1>1, <3>1, <3>2 DEF Coming
  <2>. QED
    BY <2>1, <2>2 DEF Alive
<1>. QED
  BY <1>2, <1>3

LEMMA AttendedStep == StatementsSucceed /\ TypeOK /\ Attended /\ [Next]_vars => Attended'
<1>. SUFFICES ASSUME StatementsSucceed, TypeOK, Attended, [Next]_vars
              PROVE  Attended'
  OBVIOUS
<1>. USE DEF flags, world
<1>1. ASSUME NEW j \in Job, at[j] \in Executing \cup {"queued"}
      PROVE  at[j] # "none" /\ of[j] \in Run
  BY <1>1 DEF TypeOK, Executing
<1>2. ASSUME NEW j \in Job, Claim(j) PROVE Attended'
  BY <1>1, <1>2, JobMoves DEF Claim
<1>3. ASSUME NEW j \in Job, Begin(j) PROVE Attended'
  BY <1>1, <1>3, JobMoves DEF Begin, Executing, SetStatus, TypeOK
<1>4. ASSUME NEW j \in Job, CheckControl(j) \/ Breaks(j) PROVE Attended'
  <2>1. PICK to \in {"cancelling", "pausing", "page", "end", "failing"} : Move(j, to)
    BY <1>4 DEF CheckControl, Breaks
  <2>. QED
    BY <1>1, <1>4, <2>1, JobMoves DEF CheckControl, Breaks, Executing
<1>5. ASSUME NEW j \in Job, Page(j) PROVE Attended'
  <2>1. PICK to \in {"control", "failing"} : Move(j, to)
    BY <1>5 DEF Page
  <2>. QED
    BY <1>1, <1>5, <2>1, JobMoves DEF Page, Executing
<1>6. ASSUME NEW j \in Job, NEW s \in Status \ Wanted, at[j] \in Executing,
             NEW to \in {"returning", "tail"}, SetStatus(of[j], s), Move(j, to),
             UNCHANGED <<of, request>>
      PROVE  Attended'
  <2>1. /\ status'[of[j]] = s /\ \A r \in Run \ {of[j]} : status'[r] = status[r]
    BY <1>1, <1>6 DEF SetStatus, TypeOK
  <2>. QED
    BY <1>1, <1>6, <2>1, JobMoves
<1>7. ASSUME NEW j \in Job, Interrupted(j) \/ Failed(j) \/ Finish(j) PROVE Attended'
  <2>1. PICK s \in Status \ Wanted : SetStatus(of[j], s)
    BY <1>7 DEF Interrupted, Failed, Finish, Aborted, Status, Active, Retryable, Wanted
  <2>. QED
    BY <1>6, <1>7, <2>1 DEF Interrupted, Failed, Finish, Executing
<1>8. ASSUME NEW j \in Job, Return(j) PROVE Attended'
  BY <1>1, <1>8, JobMoves DEF Return, Executing
<1>9. ASSUME NEW j \in Job, Crash(j) \/ Throws(j) \/ TailFails(j) PROVE Attended'
  <2>1. PICK to \in {"queued", "failing"} : Move(j, to)
    BY <1>9 DEF Crash, Throws, TailFails, Fault, StatementsSucceed
  <2>. QED
    BY <1>1, <1>9, <2>1, JobMoves DEF Crash, Throws, TailFails, Executing
<1>10. ASSUME NEW c \in Client, NEW r \in Run, Ask(c, r) PROVE Attended'
  <2>1. request[c].does # "enqueue"
    BY <1>10 DEF Ask, Idle
  <2>. QED
    BY <1>10, <2>1, RequestMoves DEF Ask, Goes
<1>11. ASSUME NEW c \in Client, Insert(c) \/ Requeue(c) PROVE Attended'
  <2>. DEFINE r == request[c].run
  <2>1. request[c].does \in {"insert", "resume", "retry"}
    BY <1>11 DEF Insert, Requeue, Pending
  <2>2. SetStatus(r, "QUEUED") /\ UNCHANGED <<at, of>>
    BY <1>11 DEF Insert, Requeue
  <2>3. request' = [request EXCEPT ![c] = [does |-> "enqueue", run |-> r]]
    BY <1>11 DEF Insert, Requeue, Goes
  <2>4. r \in Run /\ \A q \in Run \ {r} : status'[q] = status[q]
    BY <2>1, <2>2, PendingRun DEF SetStatus, TypeOK
  <2>. HIDE DEF r
  <2>. QED
    BY <2>1, <2>2, <2>3, <2>4, RequestMoves
<1>12. ASSUME NEW c \in Client, Enqueue(c) PROVE Attended'
  <2>1. PICK j \in Job : /\ at[j] = "none" /\ of' = [of EXCEPT ![j] = request[c].run]
                         /\ Move(j, "queued")
    BY <1>12 DEF Enqueue
  <2>2. /\ of'[j] = request[c].run /\ at'[j] = "queued"
        /\ \A k \in Job \ {j} : of'[k] = of[k] /\ at'[k] = at[k]
    BY <2>1 DEF Move, TypeOK
  <2>3. \A d \in Client \ {c} : request'[d] = request[d]
    BY <1>12 DEF Enqueue, Answered, TypeOK
  <2>. SUFFICES ASSUME NEW r \in Run, status'[r] \in Wanted
                PROVE  Alive(r)' \/ Coming(r)'
    BY DEF Attended
  <2>4. Alive(r) \/ Coming(r)
    BY <1>12 DEF Enqueue, Attended
  <2>5. CASE Alive(r)
    <3>1. PICK k \in Job : of[k] = r /\ at[k] \notin {"none", "over", "tail", "returning"}
      BY <2>5 DEF Alive
    <3>2. k # j
      BY <2>1, <3>1
    <3>. QED
      BY <2>2, <3>1, <3>2 DEF Alive
  <2>6. CASE Coming(r)
    <3>1. PICK d \in Client : request[d] = [does |-> "enqueue", run |-> r]
      BY <2>6 DEF Coming
    <3>2. CASE d = c
      BY <2>2, <3>1, <3>2 DEF Alive
    <3>3. CASE d # c
      BY <2>3, <3>1, <3>3 DEF Coming
    <3>. QED
      BY <3>2, <3>3
  <2>. QED
    BY <2>4, <2>5, <2>6
<1>13. ASSUME NEW c \in Client, StopNow(c) \/ AskToStop(c) \/ AskToPause(c) \/ Close(c)
       PROVE  Attended'
  <2>1. request[c].does # "enqueue" /\ UNCHANGED <<at, of>>
    BY <1>13 DEF StopNow, AskToStop, AskToPause, Close, Pending
  <2>2. \A r \in Run : status'[r] \in Wanted => status'[r] = status[r]
    BY <1>13 DEF StopNow, AskToStop, AskToPause, Close, SetStatus, TypeOK, Wanted
  <2>3. request' = [request EXCEPT ![c] = Idle]
    BY <1>13 DEF StopNow, AskToStop, AskToPause, Close, Answered
  <2>. QED
    BY <2>1, <2>2, <2>3, RequestMoves
<1>14. ASSUME NEW c \in Client, Settle(c) \/ Count(c) PROVE Attended'
  <2>1. request[c].does # "enqueue" /\ UNCHANGED <<at, of, status>>
    BY <1>14 DEF Settle, Count, Pending
  <2>2. PICK new : request' = [request EXCEPT ![c] = new]
    BY <1>14 DEF Settle, Count, Answered, Goes
  <2>. QED
    BY <2>1, <2>2, RequestMoves
<1>15. ASSUME NEW c \in Client, Dropped(c) PROVE Attended'
  BY <1>15 DEF Dropped, Fault, StatementsSucceed
<1>16. ASSUME UNCHANGED vars PROVE Attended'
  BY <1>16 DEF vars, Attended, Alive, Coming
<1>. QED
  BY <1>2, <1>3, <1>4, <1>5, <1>7, <1>8, <1>9, <1>10, <1>11, <1>12, <1>13, <1>14, <1>15, <1>16
  DEF Next, ExecutionStep, WriteStep

(* However the requests of any number of clients, the executions of any    *)
(* number of workers and their crashes overlap: a run that is QUEUED or    *)
(* RUNNING always has a job, or a request that is about to enqueue it.     *)
THEOREM NothingIsStranded ==
  ASSUME StatementsSucceed
  PROVE  Spec => []NoRunIsStranded
<1>1. Init => Attended
  BY DEF Init, Attended, Wanted
<1>2. TypeOK /\ Attended /\ [Next]_vars => Attended'
  BY AttendedStep
<1>3. Attended => NoRunIsStranded
  BY DEF Attended, Alive, Coming, NoRunIsStranded
<1>. QED
  BY <1>1, <1>2, <1>3, TypeCorrect, PTL DEF Spec

-----------------------------------------------------------------------------
(* Of a run that was not lost: a job that is queued or executed.           *)
Live(j) == of[j] \notin crossed /\ at[j] \notin {"none", "over", "tail", "returning"}

Starts(c) == request[c].does \in Starting

(* Starts that meet are known to have met.                                 *)
Apart ==
  \A c, d \in Client :
    Starts(c) /\ Starts(d) /\ TargetOf[request[c].run] = TargetOf[request[d].run] /\ c # d =>
      request[c].run \in crossed /\ request[d].run \in crossed

(* What jobs and requests are about has been inserted.                     *)
Inserted ==
  /\ \A j \in Job : of[j] # None => status[of[j]] # "NONE"
  /\ \A c \in Client : request[c].does \notin {"nothing", "insert"} => status[request[c].run] # "NONE"

(* A run has one live job, whose status says so.                           *)
OneLive ==
  /\ \A j, k \in Job : Live(j) /\ Live(k) /\ of[j] = of[k] => j = k
  /\ \A j \in Job : Live(j) => status[of[j]] \in Wanted

(* It has none while a request is about to enqueue one.                    *)
ComingAlone ==
  \A c \in Client :
    request[c].does = "enqueue" => \A j \in Job : Live(j) => of[j] # request[c].run

(* What a start has read is still so when it writes.                       *)
StillSo ==
  \A c \in Client :
    request[c].run \notin crossed =>
      /\ request[c].does = "insert" => status[request[c].run] = "NONE"
      /\ request[c].does = "enqueue" => status[request[c].run] \in Wanted
      /\ request[c].does \in {"resume", "retry"} => status[request[c].run] \notin Wanted
      /\ request[c].does \in {"insert", "resume", "retry"} =>
           ActiveOn(TargetOf[request[c].run]) \subseteq crossed \cup {request[c].run}

TargetInv ==
  /\ Apart /\ Inserted /\ OneLive /\ ComingAlone /\ StillSo
  /\ OneActivePerTarget

LEMMA LiveRun ==
  ASSUME TypeOK, NEW j \in Job, at[j] # "none"
  PROVE  of[j] \in Run
BY DEF TypeOK

(* A job of a run that is lost moves, a live job goes on or ends, or an    *)
(* execution leaves.                                                       *)
LEMMA LiveMoves ==
  ASSUME TypeOK, TargetInv, NEW j \in Job, at[j] # "none", NEW to, Move(j, to),
         UNCHANGED <<of, request>>, crossed \subseteq crossed',
         \A r \in Run \ {of[j]} : status'[r] = status[r],
         status'[of[j]] # "NONE",
         \/ of[j] \in crossed'
         \/ Live(j) /\ (status'[of[j]] \in Wanted \/ to \in {"over", "tail", "returning"})
         \/ to = "over" /\ UNCHANGED status
  PROVE  TargetInv'
<1>1. at'[j] = to /\ \A k \in Job \ {j} : at'[k] = at[k]
  BY DEF TypeOK, Move
<1>2. of[j] \in Run
  BY LiveRun
<1>3. \A k \in Job : Live(k)' => Live(k)
  BY <1>1 DEF Live
<1>4. \A r \in Run \ crossed' : status'[r] \in Active => status[r] \in Active
  BY <1>2 DEF TargetInv, OneLive, Live, Wanted, Active
<1>5. Apart'
  BY DEF TargetInv, Apart, Starts
<1>6. Inserted'
  BY <1>1, <1>2, PendingRun DEF TargetInv, Inserted, TypeOK
<1>7. OneLive'
  <2>1. ASSUME NEW k \in Job, Live(k)' PROVE status'[of[k]] \in Wanted
    <3>1. Live(k) /\ at[k] # "none" /\ of[k] \in Run /\ status[of[k]] \in Wanted
      BY <1>3, <2>1, LiveRun DEF Live, TargetInv, OneLive
    <3>2. CASE of[k] # of[j]
      BY <3>1, <3>2
    <3>3. CASE of[k] = of[j]
      <4>1. of[j] \notin crossed'
        BY <2>1, <3>3 DEF Live
      <4>2. Live(j) => k = j
        BY <3>1, <3>3 DEF TargetInv, OneLive
      <4>3. to \in {"over", "tail", "returning"} => k # j
        BY <1>1, <2>1 DEF Live
      <4>. QED
        BY <3>1, <3>3, <4>1, <4>2, <4>3
    <3>. QED
      BY <3>2, <3>3
  <2>. QED
    BY <1>3, <2>1 DEF TargetInv, OneLive
<1>8. ComingAlone'
  BY <1>3 DEF TargetInv, ComingAlone
<1>9. StillSo'
  <2>. SUFFICES ASSUME NEW c \in Client, request[c].run \notin crossed',
                       request[c].does # "nothing"
                PROVE  /\ request[c].does = "insert" => status'[request[c].run] = "NONE"
                       /\ request[c].does = "enqueue" => status'[request[c].run] \in Wanted
                       /\ request[c].does \in {"resume", "retry"} =>
                            status'[request[c].run] \notin Wanted
                       /\ request[c].does \in {"insert", "resume", "retry"} =>
                            ActiveOn(TargetOf[request[c].run])' \subseteq
                              crossed' \cup {request[c].run}
    BY DEF StillSo
  <2>. DEFINE r == request[c].run
  <2>1. r \in Run /\ r \notin crossed
    BY PendingRun
  <2>2. /\ request[c].does = "insert" => status[r] = "NONE"
        /\ request[c].does = "enqueue" => status[r] \in Wanted
        /\ request[c].does \in {"resume", "retry"} => status[r] \notin Wanted
        /\ request[c].does \in {"insert", "resume", "retry"} =>
             ActiveOn(TargetOf[r]) \subseteq crossed \cup {r}
    BY <2>1 DEF TargetInv, StillSo
  <2>3. request[c].does \in {"insert", "enqueue", "resume", "retry"} => status'[r] = status[r]
    <3>1. CASE r # of[j]
      BY <2>1, <3>1
    <3>2. CASE UNCHANGED status
      BY <3>2
    <3>3. CASE r = of[j] /\ Live(j)
      BY <2>2, <3>3 DEF TargetInv, OneLive, ComingAlone, Wanted
    <3>. QED
      BY <3>1, <3>2, <3>3
  <2>4. ActiveOn(TargetOf[r])' \subseteq ActiveOn(TargetOf[r]) \cup crossed'
    BY <1>4 DEF ActiveOn
  <2>. HIDE DEF r
  <2>5. request[c].does \in {"insert", "resume", "retry"} =>
          ActiveOn(TargetOf[r])' \subseteq crossed' \cup {r}
    BY <2>2, <2>4
  <2>. QED
    BY <2>2, <2>3, <2>5 DEF r
<1>10. OneActivePerTarget'
  BY <1>4 DEF TargetInv, OneActivePerTarget
<1>. QED
  BY <1>5, <1>6, <1>7, <1>8, <1>9, <1>10 DEF TargetInv

(* A request goes on that does not start a run, and takes no run that is   *)
(* QUEUED or RUNNING out of these statuses without losing it.              *)
LEMMA CallMoves ==
  ASSUME TypeOK, TargetInv, NEW c \in Client, NEW new,
         request' = [request EXCEPT ![c] = new],
         UNCHANGED <<at, of>>, crossed \subseteq crossed',
         new.does \notin Starting,
         new.does # "nothing" => new.run \in Run /\ status'[new.run] # "NONE",
         \A r \in Run :
            \/ status'[r] = status[r]
            \/ /\ r \in crossed' \/ status[r] \notin Wanted
               /\ status[r] # "NONE" /\ status'[r] \notin Active \cup {"NONE"}
  PROVE  TargetInv'
<1>1. request'[c] = new /\ \A d \in Client \ {c} : request'[d] = request[d]
  BY DEF TypeOK
<1>2. \A j \in Job : Live(j)' => Live(j) /\ of[j] \in Run \ crossed'
  BY LiveRun DEF Live
<1>3. \A r \in Run : status'[r] \in Active => status[r] \in Active
  OBVIOUS
<1>4. Apart'
  BY <1>1 DEF TargetInv, Apart, Starts
<1>5. Inserted'
  <2>1. ASSUME NEW j \in Job, of[j] # None PROVE status'[of[j]] # "NONE"
    BY <2>1 DEF TargetInv, Inserted, TypeOK
  <2>2. ASSUME NEW d \in Client, request'[d].does \notin {"nothing", "insert"}
        PROVE  status'[request'[d].run] # "NONE"
    <3>1. CASE d = c
      BY <1>1, <2>2, <3>1
    <3>2. CASE d # c
      BY <1>1, <2>2, <3>2, PendingRun DEF TargetInv, Inserted
    <3>. QED
      BY <3>1, <3>2
  <2>. QED
    BY <2>1, <2>2 DEF Inserted
<1>6. OneLive'
  BY <1>2 DEF TargetInv, OneLive
<1>7. ComingAlone'
  BY <1>1, <1>2 DEF TargetInv, ComingAlone, Starting
<1>8. StillSo'
  <2>. SUFFICES ASSUME NEW d \in Client, request'[d].run \notin crossed',
                       request'[d].does \in Starting
                PROVE  /\ request'[d].does = "insert" => status'[request'[d].run] = "NONE"
                       /\ request'[d].does = "enqueue" => status'[request'[d].run] \in Wanted
                       /\ request'[d].does \in {"resume", "retry"} =>
                            status'[request'[d].run] \notin Wanted
                       /\ request'[d].does \in {"insert", "resume", "retry"} =>
                            ActiveOn(TargetOf[request[d].run])' \subseteq
                              crossed' \cup {request'[d].run}
    BY DEF StillSo, Starting
  <2>1. d # c /\ request'[d] = request[d]
    BY <1>1
  <2>. DEFINE r == request[d].run
  <2>2. r \in Run /\ r \notin crossed
    BY <2>1, PendingRun DEF Starting
  <2>3. /\ request[d].does = "insert" => status[r] = "NONE"
        /\ request[d].does = "enqueue" => status[r] \in Wanted
        /\ request[d].does \in {"resume", "retry"} => status[r] \notin Wanted
        /\ request[d].does \in {"insert", "resume", "retry"} =>
             ActiveOn(TargetOf[r]) \subseteq crossed \cup {r}
    BY <2>2 DEF TargetInv, StillSo
  <2>4. ActiveOn(TargetOf[r])' \subseteq ActiveOn(TargetOf[r])
    BY <1>3 DEF ActiveOn
  <2>5. \/ status'[r] = status[r]
        \/ status[r] \notin Wanted \cup {"NONE"} /\ status'[r] \notin Active
    BY <2>1, <2>2
  <2>. HIDE DEF r
  <2>6. /\ request[d].does = "insert" => status'[r] = "NONE"
        /\ request[d].does = "enqueue" => status'[r] \in Wanted
        /\ request[d].does \in {"resume", "retry"} => status'[r] \notin Wanted
    BY <2>3, <2>5 DEF Wanted, Active
  <2>7. request[d].does \in {"insert", "resume", "retry"} =>
          ActiveOn(TargetOf[r])' \subseteq crossed' \cup {r}
    BY <2>3, <2>4
  <2>. QED
    BY <2>1, <2>6, <2>7 DEF r
<1>9. OneActivePerTarget'
  BY <1>3 DEF TargetInv, OneActivePerTarget
<1>. QED
  BY <1>4, <1>5, <1>6, <1>7, <1>8, <1>9 DEF TargetInv

LEMMA TargetStep == TypeOK /\ TargetInv /\ [Next]_vars => TargetInv'
<1>. SUFFICES ASSUME TypeOK, TargetInv, [Next]_vars
              PROVE  TargetInv'
  OBVIOUS
<1>. USE DEF flags, world
<1>1. ASSUME NEW j \in Job, at[j] \in Executing \cup {"queued"}
      PROVE  /\ at[j] # "none" /\ of[j] \in Run /\ status[of[j]] # "NONE"
             /\ at[j] \notin {"tail", "returning"} => of[j] \in crossed \/ Live(j)
             /\ Live(j) => status[of[j]] \in Wanted
  <2>1. at[j] # "none" /\ at[j] # "over" /\ of[j] \in Run /\ of[j] # None
    BY <1>1, LifecycleAssumption DEF TypeOK, Executing
  <2>. QED
    BY <2>1 DEF TargetInv, Inserted, OneLive, Live
<1>2. ASSUME NEW j \in Job, Claim(j) PROVE TargetInv'
  <2>1. at[j] = "queued"
    BY <1>2 DEF Claim
  <2>. QED
    BY <1>1, <1>2, <2>1, LiveMoves DEF Claim
<1>3. ASSUME NEW j \in Job, Begin(j) PROVE TargetInv'
  <2>1. at[j] = "loaded" /\ at[j] \in Executing
    BY <1>3 DEF Begin, Executing
  <2>2. /\ status'[of[j]] = "RUNNING"
        /\ \A r \in Run \ {of[j]} : status'[r] = status[r]
    BY <1>1, <1>3, <2>1 DEF Begin, SetStatus, TypeOK
  <2>. QED
    BY <1>1, <1>3, <2>1, <2>2, LiveMoves DEF Begin, Wanted
<1>4. ASSUME NEW j \in Job, CheckControl(j) \/ Breaks(j) \/ Page(j) PROVE TargetInv'
  <2>1. /\ at[j] \in Executing \ {"tail", "returning"} /\ \E to : Move(j, to)
        /\ UNCHANGED <<status, of, request, crossed>>
    BY <1>4 DEF CheckControl, Breaks, Page, Executing
  <2>. QED
    BY <1>1, <2>1, LiveMoves
<1>5. ASSUME NEW j \in Job, Interrupted(j) \/ Failed(j) \/ Finish(j) PROVE TargetInv'
  <2>1. PICK s \in Status \ {"NONE"} : SetStatus(of[j], s)
    BY <1>5 DEF Interrupted, Failed, Finish, Aborted, Status, Active, Retryable
  <2>2. PICK to \in {"returning", "tail"} : Move(j, to)
    BY <1>5 DEF Interrupted, Failed, Finish
  <2>3. /\ at[j] \in Executing \ {"tail", "returning"} /\ UNCHANGED <<of, request, crossed>>
    BY <1>5 DEF Interrupted, Failed, Finish, Executing
  <2>4. status'[of[j]] = s /\ \A r \in Run \ {of[j]} : status'[r] = status[r]
    BY <1>1, <2>1, <2>3 DEF SetStatus, TypeOK
  <2>. QED
    BY <1>1, <2>2, <2>3, <2>4, LiveMoves
<1>6. ASSUME NEW j \in Job, Return(j) PROVE TargetInv'
  BY <1>1, <1>6, LiveMoves DEF Return, Executing
<1>7. ASSUME NEW j \in Job, Crash(j) \/ Throws(j) \/ TailFails(j) PROVE TargetInv'
  <2>1. /\ at[j] \in Executing /\ \E to : Move(j, to)
        /\ UNCHANGED <<status, of, request>> /\ crossed \subseteq crossed'
    BY <1>7 DEF Crash, Throws, TailFails, Executing, Cross
  <2>2. of[j] \in crossed' \/ Live(j)
    BY <1>1, <1>7, <2>1 DEF Crash, Throws, TailFails, Cross
  <2>. QED
    BY <1>1, <2>1, <2>2, LiveMoves
<1>8. ASSUME NEW c \in Client, NEW r \in Run, Ask(c, r) PROVE TargetInv'
  <2>1. PICK d \in Allowed(r) :
          /\ Goes(c, d, r)
          /\ Cross(IF d \in Starting /\ Meeting(r) # {} THEN {r} \cup Meeting(r) ELSE {})
    BY <1>8 DEF Ask
  <2>2. /\ request'[c] = [does |-> d, run |-> r]
        /\ \A e \in Client \ {c} : request'[e] = request[e]
        /\ UNCHANGED <<status, at, of>> /\ crossed \subseteq crossed'
    BY <1>8, <2>1 DEF Ask, Goes, TypeOK, Cross
  <2>3. /\ d \notin {"nothing", "enqueue"}
        /\ d = "insert" => MayStart(r)
        /\ d = "retry" => MayRetry(r)
        /\ d = "resume" => MayResume(r)
        /\ d # "insert" => status[r] # "NONE"
    BY DEF Allowed, MayRetry, MayResume, MayPause, MayReconcile, Retryable
  <2>4. Apart'
    <3>1. ASSUME NEW e \in Client \ {c}, d \in Starting, Starts(e),
                 TargetOf[request[e].run] = TargetOf[r]
          PROVE  r \in crossed' /\ request[e].run \in crossed'
      <4>1. request[e].run \in Run
        BY <3>1, PendingRun DEF Starts, Starting
      <4>2. request[e].run \in Meeting(r)
        BY <3>1, <4>1 DEF Meeting, Starts
      <4>. QED
        BY <2>1, <3>1, <4>2 DEF Cross
    <3>. QED
      BY <2>2, <3>1 DEF TargetInv, Apart, Starts
  <2>5. Inserted'
    BY <2>2, <2>3 DEF TargetInv, Inserted
  <2>6. \A j \in Job : Live(j)' => Live(j)
    BY <2>2 DEF Live
  <2>7. OneLive' /\ ComingAlone'
    BY <2>2, <2>3, <2>6 DEF TargetInv, OneLive, ComingAlone
  <2>8. StillSo'
    <3>1. \A t : ActiveOn(t)' = ActiveOn(t)
      BY <2>2 DEF ActiveOn
    <3>2. ASSUME r \notin crossed', d \in {"insert", "resume", "retry"}
          PROVE  /\ d = "insert" => status[r] = "NONE"
                 /\ d \in {"resume", "retry"} => status[r] \notin Wanted
                 /\ ActiveOn(TargetOf[r]) \subseteq crossed' \cup {r}
      <4>1. d \in {"insert", "retry"} => ActiveOn(TargetOf[r]) = {}
        BY <2>3 DEF MayStart, MayRetry
      <4>2. d = "resume" => ActiveOn(TargetOf[r]) \subseteq crossed' \cup {r}
        BY <2>2, <2>3, <3>2 DEF MayResume, TargetInv, OneActivePerTarget, ActiveOn, Active
      <4>3. d \in {"resume", "retry"} => status[r] \notin Wanted
        BY <2>3 DEF MayResume, MayRetry, Retryable, Wanted
      <4>. QED
        BY <2>3, <3>2, <4>1, <4>2, <4>3 DEF MayStart
    <3>3. ASSUME NEW e \in Client, request'[e].run \notin crossed'
          PROVE  /\ request'[e].does = "insert" => status[request'[e].run] = "NONE"
                 /\ request'[e].does = "enqueue" => status[request'[e].run] \in Wanted
                 /\ request'[e].does \in {"resume", "retry"} =>
                      status[request'[e].run] \notin Wanted
                 /\ request'[e].does \in {"insert", "resume", "retry"} =>
                      ActiveOn(TargetOf[request'[e].run]) \subseteq
                        crossed' \cup {request'[e].run}
      <4>1. CASE e = c
        BY <2>2, <2>3, <3>2, <3>3, <4>1
      <4>2. CASE e # c
        BY <2>2, <3>3, <4>2 DEF TargetInv, StillSo
      <4>. QED
        BY <4>1, <4>2
    <3>. QED
      BY <2>2, <3>1, <3>3 DEF StillSo
  <2>9. OneActivePerTarget'
    BY <2>2 DEF TargetInv, OneActivePerTarget
  <2>. QED
    BY <2>4, <2>5, <2>7, <2>8, <2>9 DEF TargetInv
<1>9. ASSUME NEW c \in Client, Insert(c) \/ Requeue(c) PROVE TargetInv'
  <2>. DEFINE r == request[c].run
  <2>1. request[c].does \in {"insert", "resume", "retry"} /\ Starts(c) /\ r \in Run
    BY <1>9, PendingRun DEF Insert, Requeue, Pending, Starts, Starting
  <2>2. /\ status'[r] = "QUEUED" /\ \A q \in Run \ {r} : status'[q] = status[q]
        /\ UNCHANGED <<at, of, crossed>>
    BY <1>9, <2>1 DEF Insert, Requeue, SetStatus, TypeOK
  <2>3. /\ request'[c] = [does |-> "enqueue", run |-> r]
        /\ \A e \in Client \ {c} : request'[e] = request[e]
    BY <1>9 DEF Insert, Requeue, Goes, TypeOK
  <2>4. r \notin crossed => status[r] \notin Wanted
                              /\ ActiveOn(TargetOf[r]) \subseteq crossed \cup {r}
    BY <2>1 DEF TargetInv, StillSo, Wanted
  <2>5. \A j \in Job : Live(j)' <=> Live(j)
    BY <2>2 DEF Live
  <2>6. \A j \in Job : Live(j) => of[j] # r /\ of[j] \in Run
    BY <2>4, LiveRun DEF TargetInv, OneLive, Live
  <2>. HIDE DEF r
  <2>7. Apart'
    BY <2>1, <2>2, <2>3 DEF TargetInv, Apart, Starts, Starting, r
  <2>8. Inserted'
    <3>1. \A q \in Run : status[q] # "NONE" => status'[q] # "NONE"
      BY <2>2
    <3>. QED
      BY <2>1, <2>2, <2>3, <3>1, PendingRun DEF TargetInv, Inserted, TypeOK
  <2>9. OneLive'
    BY <2>2, <2>5, <2>6 DEF TargetInv, OneLive
  <2>10. ComingAlone'
    BY <2>2, <2>3, <2>5, <2>6 DEF TargetInv, ComingAlone
  <2>11. StillSo'
    <3>. SUFFICES ASSUME NEW e \in Client \ {c}, request[e].run \notin crossed,
                         request[e].does \in Starting
                  PROVE  /\ request[e].does = "insert" => status'[request[e].run] = "NONE"
                         /\ request[e].does = "enqueue" => status'[request[e].run] \in Wanted
                         /\ request[e].does \in {"resume", "retry"} =>
                              status'[request[e].run] \notin Wanted
                         /\ request[e].does \in {"insert", "resume", "retry"} =>
                              ActiveOn(TargetOf[request[e].run])' \subseteq
                                crossed \cup {request[e].run}
      BY <2>2, <2>3 DEF StillSo, Wanted, Starting
    <3>1. request[e].run \in Run
      BY PendingRun DEF Starting
    <3>2. TargetOf[request[e].run] # TargetOf[r]
      BY <2>1 DEF TargetInv, Apart, Starts, r
    <3>3. ActiveOn(TargetOf[request[e].run])' = ActiveOn(TargetOf[request[e].run])
      BY <2>2, <2>3, <3>2 DEF ActiveOn
    <3>4. status'[request[e].run] = status[request[e].run]
      BY <2>2, <3>1, <3>2
    <3>. QED
      BY <3>3, <3>4 DEF TargetInv, StillSo
  <2>12. OneActivePerTarget'
    BY <2>1, <2>2, <2>4 DEF TargetInv, OneActivePerTarget, ActiveOn
  <2>. QED
    BY <2>7, <2>8, <2>9, <2>10, <2>11, <2>12 DEF TargetInv
<1>10. ASSUME NEW c \in Client, Enqueue(c) PROVE TargetInv'
  <2>. DEFINE r == request[c].run
  <2>1. request[c].does = "enqueue" /\ Starts(c) /\ r \in Run
    BY <1>10, PendingRun DEF Enqueue, Pending, Starts, Starting
  <2>2. PICK j \in Job : at[j] = "none" /\ of' = [of EXCEPT ![j] = r] /\ Move(j, "queued")
    BY <1>10 DEF Enqueue
  <2>3. /\ of'[j] = r /\ at'[j] = "queued"
        /\ \A k \in Job \ {j} : of'[k] = of[k] /\ at'[k] = at[k]
    BY <2>2 DEF Move, TypeOK
  <2>4. /\ request'[c] = Idle /\ \A e \in Client \ {c} : request'[e] = request[e]
        /\ UNCHANGED <<status, crossed>>
    BY <1>10 DEF Enqueue, Answered, TypeOK
  <2>5. /\ status[r] # "NONE"
        /\ r \notin crossed => status[r] \in Wanted
        /\ \A k \in Job : Live(k) => of[k] # r
    BY <2>1 DEF TargetInv, Inserted, StillSo, ComingAlone
  <2>. HIDE DEF r
  <2>6. /\ \A k \in Job \ {j} : Live(k)' <=> Live(k)
        /\ Live(j)' => r \notin crossed
    BY <2>3, <2>4 DEF Live
  <2>7. Apart' /\ Inserted'
    BY <2>3, <2>4, <2>5 DEF TargetInv, Apart, Starts, Starting, Inserted, Idle
  <2>8. OneLive'
    BY <2>3, <2>4, <2>5, <2>6 DEF TargetInv, OneLive
  <2>9. ComingAlone'
    <3>. SUFFICES ASSUME NEW e \in Client, request'[e].does = "enqueue",
                         NEW k \in Job, Live(k)', of'[k] = request'[e].run
                  PROVE  FALSE
      BY DEF ComingAlone
    <3>1. e # c /\ request'[e] = request[e]
      BY <2>4 DEF Idle
    <3>2. k = j
      BY <2>3, <2>6, <3>1 DEF TargetInv, ComingAlone
    <3>3. request[e].run = r /\ Starts(e) /\ r \notin crossed
      BY <2>3, <2>6, <3>1, <3>2 DEF Starts, Starting
    <3>. QED
      BY <2>1, <3>1, <3>3 DEF TargetInv, Apart, r
  <2>10. StillSo'
    BY <2>4 DEF TargetInv, StillSo, ActiveOn, Idle
  <2>11. OneActivePerTarget'
    BY <2>4 DEF TargetInv, OneActivePerTarget
  <2>. QED
    BY <2>7, <2>8, <2>9, <2>10, <2>11 DEF TargetInv
<1>11. ASSUME NEW c \in Client, StopNow(c) \/ Close(c) PROVE TargetInv'
  <2>. DEFINE r == request[c].run
  <2>1. request[c].does \in {"stop", "close"} /\ r \in Run
    BY <1>11, PendingRun DEF StopNow, Close, Pending
  <2>2. /\ status'[r] \in {"CANCELLED", "COMPLETED_WITH_ERRORS"}
        /\ \A q \in Run \ {r} : status'[q] = status[q]
    BY <1>11, <2>1 DEF StopNow, Close, SetStatus, TypeOK
  <2>3. /\ request' = [request EXCEPT ![c] = Idle] /\ UNCHANGED <<at, of>>
        /\ crossed \subseteq crossed'
        /\ status[r] \in Wanted => r \in crossed'
    BY <1>11, <2>1 DEF StopNow, Close, Answered, Cross
  <2>4. status[r] # "NONE"
    BY <2>1 DEF TargetInv, Inserted
  <2>. HIDE DEF r
  <2>5. \A q \in Run :
          \/ status'[q] = status[q]
          \/ /\ q \in crossed' \/ status[q] \notin Wanted
             /\ status[q] # "NONE" /\ status'[q] \notin Active \cup {"NONE"}
    BY <2>2, <2>3, <2>4 DEF Active
  <2>6. Idle.does \notin Starting /\ Idle.does = "nothing"
    BY DEF Idle, Starting
  <2>. QED
    BY <2>3, <2>5, <2>6, CallMoves
<1>12. ASSUME NEW c \in Client,
              AskToStop(c) \/ AskToPause(c) \/ Settle(c) \/ Count(c) \/ Dropped(c)
       PROVE  TargetInv'
  <2>1. UNCHANGED <<status, at, of, crossed>>
    BY <1>12 DEF AskToStop, AskToPause, Settle, Count, Dropped
  <2>2. PICK new : /\ request' = [request EXCEPT ![c] = new]
                   /\ \/ new = Idle
                      \/ /\ request[c].does \in {"settle", "count"}
                         /\ \E d \in {"count", "close"} : new = [does |-> d, run |-> request[c].run]
    BY <1>12 DEF AskToStop, AskToPause, Settle, Count, Dropped, Answered, Goes, Pending
  <2>3. /\ new.does \notin Starting
        /\ new.does # "nothing" => new.run \in Run /\ status[new.run] # "NONE"
    BY <2>2, PendingRun DEF Idle, Starting, TargetInv, Inserted
  <2>. QED
    BY <2>1, <2>2, <2>3, CallMoves
<1>13. ASSUME UNCHANGED vars PROVE TargetInv'
  BY <1>13 DEF vars, TargetInv, Apart, Starts, Inserted, OneLive, ComingAlone, StillSo,
               OneActivePerTarget, Live, ActiveOn
<1>. QED
  BY <1>2, <1>3, <1>4, <1>5, <1>6, <1>7, <1>8, <1>9, <1>10, <1>11, <1>12, <1>13
  DEF Next, ExecutionStep, WriteStep

LEMMA TargetInvariant == Spec => []TargetInv
<1>1. Init => TargetInv
  BY DEF Init, TargetInv, Apart, Starts, Starting, Inserted, OneLive, ComingAlone, StillSo,
         OneActivePerTarget, Live, Idle, Active
<1>. QED
  BY <1>1, TargetStep, TypeCorrect, PTL DEF Spec

(* With any number of clients, workers, jobs and faults, two active runs   *)
(* of one target come about in no other way than Cross names: by starts    *)
(* that met, a stop or a close of a run that was QUEUED or RUNNING, or an  *)
(* execution that failed after its final status.                           *)
THEOREM TargetsAreHeld == Spec => []OneActivePerTarget
<1>1. TargetInv => OneActivePerTarget
  BY DEF TargetInv
<1>. QED
  BY <1>1, TargetInvariant, PTL

(* Nor do two executions of one run at the same time, whatever crashes,    *)
(* resumes, retries and reconciliations overlap.                           *)
THEOREM OneWriter == Spec => []OneExecution
<1>1. ASSUME TargetInv PROVE OneExecution
  <2>. SUFFICES ASSUME NEW r \in Run \ crossed PROVE Cardinality(Writing(r)) <= 1
    BY DEF OneExecution
  <2>1. \A j, k \in Writing(r) : j = k
    BY <1>1 DEF TargetInv, OneLive, Live, Writing
  <2>2. CASE Writing(r) = {}
    BY <2>2, FS_EmptySet
  <2>3. CASE Writing(r) # {}
    <3>1. PICK j : Writing(r) = {j}
      BY <2>1, <2>3
    <3>2. Cardinality({j}) = 1
      BY FS_Singleton
    <3>. QED
      BY <3>1, <3>2
  <2>. QED
    BY <2>2, <2>3
<1>. QED
  BY <1>1, TargetInvariant, PTL

(* Nor does a run write pages under a status that lets another run onto    *)
(* its target.                                                             *)
THEOREM WritersAreActive == Spec => []WriterHoldsTarget
<1>1. TargetInv => WriterHoldsTarget
  BY DEF TargetInv, OneLive, Live, Writing, WriterHoldsTarget, Active, Wanted
<1>. QED
  BY <1>1, TargetInvariant, PTL

-----------------------------------------------------------------------------
(* The jobs of runs are jobs of the queue: RunLifecycle does with them     *)
(* only what JobPromise allows while no heartbeat is late, which is what   *)
(* JobQueue keeps.  A job is executed by one execution, so its number      *)
(* names it, and whether it is DONE or FAILED is not told.                 *)
Row == [j \in Job |-> CASE at[j] = "none" -> "NONE"
                        [] at[j] = "queued" -> "QUEUED"
                        [] at[j] = "over" -> "DONE"
                        [] OTHER -> "RUNNING"]

Executions == {<<j, "execution">> : j \in {k \in Job : at[k] \in Executing}}

Promise == INSTANCE JobPromise WITH row <- Row, active <- Executions, late <- FALSE

KeepsPromise == Promise!Spec

Mapped == [Promise!Next]_(Promise!vars)

(* What a job that moves is to the queue, and that no other job moves.     *)
Place(p) == CASE p = "none" -> "NONE" [] p = "queued" -> "QUEUED" [] p = "over" -> "DONE"
              [] OTHER -> "RUNNING"

LEMMA MoveRow ==
  ASSUME TypeOK, NEW j \in Job, NEW to \in At, Move(j, to)
  PROVE  /\ Row[j] = Place(at[j])
         /\ Row' = [Row EXCEPT ![j] = Place(to)]
<1>1. at' = [at EXCEPT ![j] = to]
  BY DEF Move
<1>2. \A k \in Job : Row[k] = Place(at[k]) /\ Row'[k] = Place(at'[k])
  BY DEF Row, Place
<1>3. \A k \in Job : at'[k] = IF k = j THEN to ELSE at[k]
  BY <1>1 DEF TypeOK
<1>4. Row = [k \in Job |-> Row[k]] /\ Row' = [k \in Job |-> Row'[k]]
  BY DEF Row
<1>5. \A k \in Job : Row'[k] = [Row EXCEPT ![j] = Place(to)][k]
  BY <1>2, <1>3, <1>4
<1>. QED
  BY <1>2, <1>4, <1>5

LEMMA MoveExecutions ==
  ASSUME TypeOK, NEW j \in Job, NEW to \in At, Move(j, to)
  PROVE  /\ \A k \in Job : <<k, "execution">> \in Executions <=> at[k] \in Executing
         /\ Promise!Free(j, Executions) <=> at[j] \notin Executing
         /\ to \in Executing => Executions' = Executions \cup {<<j, "execution">>}
         /\ to \notin Executing => Executions' = Executions \ {<<j, "execution">>}
<1>1. \A k \in Job : at'[k] = IF k = j THEN to ELSE at[k]
  BY DEF TypeOK, Move
<1>2. \A k \in Job : <<k, "execution">> \in Executions <=> at[k] \in Executing
  BY DEF Executions
<1>3. Promise!Free(j, Executions) <=> at[j] \notin Executing
  <2>1. \A x \in Executions : \E k \in Job : x = <<k, "execution">> /\ x[1] = k
    BY DEF Executions
  <2>2. <<j, "execution">>[1] = j
    OBVIOUS
  <2>. QED
    BY <1>2, <2>1, <2>2 DEF Promise!Free
<1>4. \A x : x \in Executions' <=>
               \E k \in Job : x = <<k, "execution">> /\ at'[k] \in Executing
  BY DEF Executions
<1>5. \A x : x \in Executions <=>
               \E k \in Job : x = <<k, "execution">> /\ at[k] \in Executing
  BY DEF Executions
<1>6. ASSUME to \in Executing PROVE Executions' = Executions \cup {<<j, "execution">>}
  BY <1>1, <1>4, <1>5, <1>6
<1>7. ASSUME to \notin Executing PROVE Executions' = Executions \ {<<j, "execution">>}
  BY <1>1, <1>4, <1>5, <1>7
<1>. QED
  BY <1>2, <1>3, <1>6, <1>7

(* An execution goes on.                                                   *)
LEMMA GoesOnIsNothing ==
  ASSUME TypeOK, NEW j \in Job, NEW to \in Executing, at[j] \in Executing, Move(j, to)
  PROVE  Mapped
<1>1. to \in At /\ Place(to) = "RUNNING" /\ Place(at[j]) = "RUNNING"
  BY DEF At, Place, Executing
<1>2. Row[j] = "RUNNING" /\ Row' = [Row EXCEPT ![j] = "RUNNING"]
  BY <1>1, MoveRow
<1>3. Row' = Row
  <2>1. Row = [k \in Job |-> Row[k]]
    BY DEF Row
  <2>. HIDE DEF Row
  <2>. QED
    BY <1>2, <2>1
<1>4. Executions' = Executions
  BY <1>1, MoveExecutions
<1>. QED
  BY <1>3, <1>4 DEF Mapped, Promise!vars

(* An execution ends, and its job is settled.                              *)
LEMMA EndsIsSettled ==
  ASSUME TypeOK, NEW j \in Job, at[j] \in Executing, Move(j, "over")
  PROVE  Mapped
<1>1. /\ "over" \in At /\ "over" \notin Executing
      /\ Place("over") = "DONE" /\ Place(at[j]) = "RUNNING"
  BY DEF At, Place, Executing
<1>2. Promise!Settle(j, "DONE")
  BY <1>1, MoveRow, MoveExecutions DEF Promise!Settle
<1>. QED
  BY <1>2 DEF Mapped, Promise!Next, Promise!Settled

(* A worker takes a job, and returns at once or not.                       *)
LEMMA ClaimIsTakenOrServed ==
  ASSUME TypeOK, NEW j \in Job, Claim(j)
  PROVE  Mapped
<1>1. at[j] = "queued" /\ (Move(j, "loaded") \/ Move(j, "over"))
  BY DEF Claim
<1>2. /\ "loaded" \in At /\ "over" \in At /\ "loaded" \in Executing
      /\ "over" \notin Executing /\ "queued" \notin Executing
      /\ Place("loaded") = "RUNNING" /\ Place("over") = "DONE"
      /\ Place("queued") = "QUEUED"
  BY DEF At, Place, Executing
<1>3. CASE Move(j, "loaded")
  <2>1. /\ Row[j] = "QUEUED" /\ Row' = [Row EXCEPT ![j] = "RUNNING"]
        /\ Promise!Free(j, Executions)
        /\ <<j, "execution">> \notin Executions
        /\ Executions' = Executions \cup {<<j, "execution">>}
    BY <1>1, <1>2, <1>3, MoveRow, MoveExecutions
  <2>2. \E x \in Executions' \ Executions : x[1] = j /\ Executions' = Executions \cup {x}
    <3>1. <<j, "execution">>[1] = j
      OBVIOUS
    <3>. QED
      BY <2>1, <3>1
  <2>3. Promise!Take(j)
    BY <2>1, <2>2 DEF Promise!Take
  <2>. QED
    BY <2>3 DEF Mapped, Promise!Next
<1>4. CASE Move(j, "over")
  <2>1. /\ Row[j] = "QUEUED" /\ Row' = [Row EXCEPT ![j] = "DONE"]
        /\ Promise!Free(j, Executions)
        /\ Executions' = Executions
    BY <1>1, <1>2, <1>4, MoveRow, MoveExecutions
  <2>2. Promise!Serve(j, "DONE")
    BY <2>1 DEF Promise!Serve
  <2>. QED
    BY <2>2 DEF Mapped, Promise!Next, Promise!Settled
<1>. QED
  BY <1>1, <1>3, <1>4

(* The sweep after a crash.                                                *)
LEMMA CrashIsReleased ==
  ASSUME TypeOK, NEW j \in Job, Crash(j)
  PROVE  Mapped
<1>1. /\ at[j] \in Executing /\ Move(j, "queued")
      /\ "queued" \in At /\ "queued" \notin Executing
      /\ Place("queued") = "QUEUED" /\ Place(at[j]) = "RUNNING"
  BY DEF Crash, At, Place, Executing
<1>2. /\ Row[j] = "RUNNING" /\ Row' = [Row EXCEPT ![j] = "QUEUED"]
      /\ Executions' = Executions \ {<<j, "execution">>}
  BY <1>1, MoveRow, MoveExecutions
<1>3. Promise!Free(j, Executions')
  BY <1>2 DEF Executions, Promise!Free
<1>4. Row' = [k \in Job |-> IF k \in {j} THEN "QUEUED" ELSE Row[k]]
  <2>1. Row = [k \in Job |-> Row[k]]
    BY DEF Row
  <2>. HIDE DEF Row
  <2>. QED
    BY <1>2, <2>1
<1>5. Promise!Release({j})
  BY <1>2, <1>3, <1>4 DEF Promise!Release
<1>. QED
  BY <1>5 DEF Mapped, Promise!Next

LEMMA EnqueueIsEnqueued ==
  ASSUME TypeOK, NEW c \in Client, Enqueue(c)
  PROVE  Mapped
<1>1. PICK j \in Job : at[j] = "none" /\ Move(j, "queued")
  BY DEF Enqueue
<1>2. /\ "queued" \in At /\ "queued" \notin Executing /\ "none" \notin Executing
      /\ Place("queued") = "QUEUED" /\ Place("none") = "NONE"
  BY DEF At, Place, Executing
<1>3. /\ Row[j] = "NONE" /\ Row' = [Row EXCEPT ![j] = "QUEUED"]
      /\ Executions' = Executions
  BY <1>1, <1>2, MoveRow, MoveExecutions
<1>4. Promise!Enqueue(j)
  BY <1>3 DEF Promise!Enqueue
<1>. QED
  BY <1>4 DEF Mapped, Promise!Next

LEMMA StepKeepsPromise ==
  ASSUME TypeOK, [Next]_vars
  PROVE  Mapped
<1>1. ASSUME UNCHANGED at PROVE Mapped
  BY <1>1 DEF Mapped, Promise!vars, Row, Executions
<1>2. ASSUME NEW j \in Job,
             \/ ExecutionStep(j) \/ Breaks(j) \/ Crash(j) \/ Throws(j) \/ TailFails(j)
      PROVE  Mapped
  <2>1. CASE Claim(j)
    BY <2>1, ClaimIsTakenOrServed
  <2>2. CASE \/ Begin(j) \/ CheckControl(j) \/ Page(j) \/ Interrupted(j)
             \/ Failed(j) \/ Finish(j) \/ Breaks(j) \/ TailFails(j)
    <3>1. at[j] \in Executing /\ \E to \in Executing : Move(j, to)
      BY <2>2 DEF Begin, CheckControl, Page, Interrupted, Failed, Finish, Breaks,
                  TailFails, Executing
    <3>. QED
      BY <3>1, GoesOnIsNothing
  <2>3. CASE Return(j) \/ Throws(j)
    BY <2>3, EndsIsSettled DEF Return, Throws, Executing
  <2>4. CASE Crash(j)
    BY <2>4, CrashIsReleased
  <2>. QED
    BY <1>2, <2>1, <2>2, <2>3, <2>4 DEF ExecutionStep
<1>3. ASSUME NEW c \in Client,
             WriteStep(c) \/ Dropped(c) \/ \E r \in Run : Ask(c, r)
      PROVE  Mapped
  <2>1. CASE Enqueue(c)
    BY <2>1, EnqueueIsEnqueued
  <2>2. CASE ~Enqueue(c)
    BY <1>1, <1>3, <2>2
       DEF WriteStep, Insert, Requeue, StopNow, AskToStop, AskToPause, Settle, Count,
           Close, Dropped, Ask
  <2>. QED
    BY <2>1, <2>2
<1>4. CASE UNCHANGED vars
  BY <1>1, <1>4 DEF vars
<1>. QED
  BY <1>2, <1>3, <1>4 DEF Next

(* Theorem: with every set of faults and of requests, RunLifecycle asks no *)
(* more of its jobs than JobPromise allows: none is executed twice at      *)
(* once, none comes back once it is over, and one comes back into the      *)
(* queue only when its execution is gone.                                  *)
THEOREM JobsAreAsPromised == Spec => KeepsPromise
<1>1. Init => Promise!Init
  BY DEF Init, Promise!Init, Row, Executions, Executing
<1>2. TypeOK /\ [Next]_vars => [Promise!Next]_(Promise!vars)
  BY StepKeepsPromise DEF Mapped
<1>. QED
  BY <1>1, <1>2, TypeCorrect, PTL DEF Spec, KeepsPromise, Promise!Spec
=============================================================================
