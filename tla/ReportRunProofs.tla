-------------------------- MODULE ReportRunProofs --------------------------
(* Proofs about ReportRun, for every kind of run, any number of tables and *)
(* executors, and every bound; and about Validation, for any records, page *)
(* size, cap, settings and changes meanwhile.                              *)
EXTENDS ReportRun, Validation, FiniteSetTheorems, WellFoundedInduction, TLAPS

-----------------------------------------------------------------------------
(* Types.                                                                  *)

LEMMA StepTypeOK == TypeOK /\ [Next]_vars => TypeOK'
<1> SUFFICES ASSUME TypeOK, [Next]_vars PROVE TypeOK'
  OBVIOUS
<1> USE ReportAssumption DEF TypeOK, Kind, Place, Covered
<1>1. CASE Create
  BY <1>1 DEF Create, queue, output, history, bounds
<1>2. CASE Enqueue
  BY <1>2 DEF Enqueue, output, history, bounds
<1>3. ASSUME NEW e \in Executor, Begin(e) PROVE TypeOK'
  BY <1>3 DEF Begin, Goes, output, bounds
<1>4. ASSUME NEW e \in Executor, Read(e) PROVE TypeOK'
  BY <1>4 DEF Read, Goes, queue, output, history, bounds
<1>5. ASSUME NEW e \in Executor, Mark(e) PROVE TypeOK'
  BY <1>5 DEF Mark, Goes, queue, output, history, bounds
<1>6. ASSUME NEW e \in Executor, Clear(e) PROVE TypeOK'
  BY <1>6 DEF Clear, Empty, FirstPart, Goes, queue, history, bounds
<1>7. ASSUME NEW e \in Executor, at[e] \in {"head", "detail"}, GoesOn(e)
      PROVE  at' \in [Executor -> Place] /\ table' \in [Executor -> Covered]
  <2>1. table[e] \in 1..NumTables /\ (table[e] < NumTables => table[e] + 1 \in 1..NumTables)
    OBVIOUS
  <2>2. FirstPart \in Place /\ LastPart \in Place
    BY DEF FirstPart, LastPart
  <2>3. table' \in [Executor -> Covered]
    BY <1>7, <2>1 DEF GoesOn
  <2>4. at' \in [Executor -> Place]
    BY <1>7, <2>2 DEF GoesOn, Goes
  <2> QED BY <2>3, <2>4
<1>8. ASSUME NEW e \in Executor, SaveResult(e) PROVE TypeOK'
  <2>1. heads' \in [Covered -> Nat]
    BY <1>8 DEF SaveResult
  <2>2. at[e] \in {"head", "detail"} /\ GoesOn(e)
    BY <1>8 DEF SaveResult
  <2>3. at' \in [Executor -> Place] /\ table' \in [Executor -> Covered]
    BY <1>7, <2>2
  <2> QED BY <1>8, <2>1, <2>3 DEF SaveResult, queue, history, bounds
<1>9. ASSUME NEW e \in Executor, SaveDetails(e) PROVE TypeOK'
  <2>1. details' \in [Covered -> Nat]
    BY <1>9 DEF SaveDetails
  <2>2. at[e] \in {"head", "detail"} /\ GoesOn(e)
    BY <1>9 DEF SaveDetails
  <2>3. at' \in [Executor -> Place] /\ table' \in [Executor -> Covered]
    BY <1>7, <2>2
  <2> QED BY <1>9, <2>1, <2>3 DEF SaveDetails, queue, history, bounds
<1>10. ASSUME NEW e \in Executor, Complete(e) PROVE TypeOK'
  BY <1>10 DEF Complete, Goes, queue, output, history, bounds
<1>11. ASSUME NEW e \in Executor, Audit(e) PROVE TypeOK'
  BY <1>11 DEF Audit, Goes, queue, output, history, bounds
<1>12. ASSUME NEW e \in Executor, Fails(e) PROVE TypeOK'
  BY <1>12 DEF Fails, Goes, queue, output
<1>13. ASSUME NEW e \in Executor, Catch(e) PROVE TypeOK'
  BY <1>13 DEF Catch, AfterFailure, Goes, queue, output, history, bounds
<1>14. ASSUME NEW e \in Executor, Return(e) \/ Throw(e) PROVE TypeOK'
  BY <1>14 DEF Return, Throw, Settle, Goes, output, history, bounds
<1>15. ASSUME NEW e \in Executor, Crash(e) PROVE TypeOK'
  <2>1. /\ job' \in {"none", "QUEUED", "RUNNING", "DONE", "FAILED"}
        /\ holder' \in Executor \cup {None} /\ (job' = "RUNNING" <=> holder' # None)
    BY <1>15 DEF Crash, Requeue, queue
  <2>2. at' \in [Executor -> Place] /\ lapses' \in Nat
    BY <1>15 DEF Crash, Goes
  <2> QED BY <1>15, <2>1, <2>2 DEF Crash, output, history
<1>16. ASSUME NEW e \in Executor, Late(e) PROVE TypeOK'
  BY <1>16 DEF Late, Requeue, queue, output, history
<1>17. CASE UNCHANGED vars
  BY <1>17 DEF vars, queue, output, history, bounds
<1> QED
  BY <1>1, <1>2, <1>3, <1>4, <1>5, <1>6, <1>8, <1>9, <1>10, <1>11, <1>12, <1>13, <1>14, <1>15,
     <1>16, <1>17 DEF Next, ExecutorStep

LEMMA InitTypeOK == Init => TypeOK
<1> SUFFICES ASSUME Init PROVE TypeOK
  OBVIOUS
<1>1. 1 \in Covered
  BY ReportAssumption DEF Covered
<1>2. kind \in Kind /\ status = "none" /\ job = "none" /\ holder = None
  BY DEF Init
<1>3. at \in [Executor -> Place] /\ table \in [Executor -> Covered]
  BY <1>1 DEF Init, Place
<1>4. heads \in [Covered -> Nat] /\ details \in [Covered -> Nat]
  BY DEF Init
<1>5. overlapped \in BOOLEAN /\ stranded \in BOOLEAN /\ faults \in Nat /\ lapses \in Nat
  BY DEF Init
<1> QED BY <1>2, <1>3, <1>4, <1>5 DEF TypeOK

(* Every variable of a run keeps its type, and a job has a holder exactly  *)
(* while it is RUNNING.                                                    *)
THEOREM TypeCorrect == Spec => []TypeOK
<1> QED BY InitTypeOK, StepTypeOK, PTL DEF Spec

-----------------------------------------------------------------------------
(* What an execution that is alone has written, wherever it is.            *)

Whole(i) == heads[i] = 1 /\ details[i] = IF kind = "COMPARISON" THEN 0 ELSE 1
Bare(i) == heads[i] = 0 /\ details[i] = 0
Half(i) ==
  IF kind = "PREFLIGHT" THEN heads[i] = 0 /\ details[i] = 1
                        ELSE heads[i] = 1 /\ details[i] = 0

\* While e writes: whole tables before the one at hand, bare ones after it.
Writing(e) ==
  /\ \A i \in Covered : i < table[e] => Whole(i)
  /\ \A i \in Covered : i > table[e] => Bare(i)
  /\ \/ at[e] = FirstPart /\ Bare(table[e])
     \/ at[e] = LastPart /\ FirstPart # LastPart /\ Half(table[e])

Alone == \A e, f \in Executor : at[e] # "idle" /\ at[f] # "idle" => e = f

WorkInv(e) ==
  /\ at[e] \in {"head", "detail"} => Writing(e)
  /\ at[e] = "complete" => \A i \in Covered : Whole(i)
  /\ at[e] = "audit" => status = "COMPLETED"
  /\ at[e] \in {"mark", "clear", "head", "detail", "complete"} => status # "COMPLETED"

WholeInv ==
  ~overlapped =>
    /\ Alone
    /\ \A e \in Executor : WorkInv(e)
    /\ status = "COMPLETED" => \A i \in Covered : Whole(i)

(* A part of a table is saved by an execution that is alone.               *)
LEMMA SavedPart ==
  ASSUME TypeOK, ~overlapped, WholeInv, NEW e \in Executor, SaveResult(e) \/ SaveDetails(e)
  PROVE  WorkInv(e)'
<1> USE ReportAssumption DEF Covered
<1> DEFINE t == table[e]
<1>1. /\ at[e] \in {"head", "detail"} /\ Writing(e) /\ status # "COMPLETED" /\ t \in 1..NumTables
      /\ GoesOn(e) /\ status' = status /\ kind' = kind
      /\ \A i \in Covered : i # t => heads'[i] = heads[i] /\ details'[i] = details[i]
      /\ at[e] = "head" => heads'[t] = heads[t] + 1 /\ details'[t] = details[t]
      /\ at[e] = "detail" => heads'[t] = heads[t] /\ details'[t] = details[t] + 1
  BY DEF SaveResult, SaveDetails, WholeInv, WorkInv, TypeOK
<1>2. CASE at[e] # LastPart
  <2>1. at'[e] = LastPart /\ table'[e] = t /\ LastPart \in {"head", "detail"}
    BY <1>1, <1>2 DEF GoesOn, Goes, LastPart, TypeOK
  <2>2. at[e] = FirstPart /\ FirstPart # LastPart /\ Bare(t)
    BY <1>1, <1>2 DEF Writing
  <2>3. ASSUME NEW i, i = t PROVE Half(i)'
    <3>1. heads[i] = 0 /\ details[i] = 0
      BY <2>2, <2>3 DEF Bare
    <3>2. CASE kind = "PREFLIGHT"
      <4>1. at[e] = "detail"
        BY <2>2, <3>2 DEF FirstPart
      <4>2. heads'[i] = 0 /\ details'[i] = 1
        BY <1>1, <2>3, <3>1, <4>1
      <4> QED BY <1>1, <3>2, <4>2 DEF Half
    <3>3. CASE kind # "PREFLIGHT"
      <4>1. at[e] = "head"
        BY <2>2, <3>3 DEF FirstPart
      <4>2. heads'[i] = 1 /\ details'[i] = 0
        BY <1>1, <2>3, <3>1, <4>1
      <4> QED BY <1>1, <3>3, <4>2 DEF Half
    <3> QED BY <3>2, <3>3
  <2>4. LastPart' = LastPart /\ FirstPart' = FirstPart
    BY <1>1 DEF LastPart, FirstPart
  <2>5. \A i \in Covered : (i < t => Whole(i)') /\ (i > t => Bare(i)')
    BY <1>1 DEF Writing, Whole, Bare
  <2> QED BY <1>1, <2>1, <2>2, <2>3, <2>4, <2>5 DEF WorkInv, Writing
<1>3. CASE at[e] = LastPart
  <2>1. ASSUME NEW i, i = t PROVE Whole(i)'
    <3>1. CASE kind = "COMPARISON"
      <4>1. FirstPart = "head" /\ LastPart = "head"
        BY <3>1 DEF FirstPart, LastPart
      <4>2. heads[i] = 0 /\ details[i] = 0
        BY <1>1, <2>1, <4>1 DEF Writing, Bare
      <4>3. heads'[i] = 1 /\ details'[i] = 0
        BY <1>1, <1>3, <2>1, <4>1, <4>2
      <4> QED BY <1>1, <3>1, <4>3 DEF Whole
    <3>2. CASE kind # "COMPARISON"
      <4>1. FirstPart # LastPart /\ Half(i)
        BY <1>1, <1>3, <2>1, <3>2 DEF Writing, FirstPart, LastPart
      <4>2. CASE kind = "PREFLIGHT"
        <5>1. at[e] = "head" /\ heads[i] = 0 /\ details[i] = 1
          BY <1>3, <4>1, <4>2 DEF LastPart, Half
        <5>2. heads'[i] = 1 /\ details'[i] = 1
          BY <1>1, <2>1, <5>1
        <5> QED BY <1>1, <3>2, <5>2 DEF Whole
      <4>3. CASE kind # "PREFLIGHT"
        <5>1. at[e] = "detail" /\ heads[i] = 1 /\ details[i] = 0
          BY <1>3, <3>2, <4>1, <4>3 DEF LastPart, Half
        <5>2. heads'[i] = 1 /\ details'[i] = 1
          BY <1>1, <2>1, <5>1
        <5> QED BY <1>1, <3>2, <5>2 DEF Whole
      <4> QED BY <4>2, <4>3
    <3> QED BY <3>1, <3>2
  <2>2. ASSUME NEW i \in Covered PROVE (i <= t => Whole(i)') /\ (i > t => Bare(i)')
    <3>1. i < t \/ i = t \/ i > t
      BY <1>1
    <3>2. i < t => Whole(i)'
      BY <1>1 DEF Writing, Whole
    <3>3. i > t => Bare(i)'
      BY <1>1 DEF Writing, Bare
    <3> QED BY <1>1, <2>1, <3>1, <3>2, <3>3
  <2>3. CASE t < NumTables
    <3>1. at'[e] = FirstPart /\ table'[e] = t + 1
      BY <1>1, <1>3, <2>3 DEF GoesOn, Goes, TypeOK
    <3>2. FirstPart' = FirstPart /\ FirstPart \in {"head", "detail"}
      BY <1>1 DEF FirstPart
    <3>3. \A i \in Covered : (i < t + 1 => i <= t) /\ (i > t + 1 => i > t)
      BY <1>1
    <3>4. t + 1 \in Covered /\ t + 1 > t
      BY <1>1, <2>3
    <3>5. Writing(e)'
      BY <2>2, <3>1, <3>2, <3>3, <3>4 DEF Writing
    <3> QED BY <1>1, <3>1, <3>2, <3>5 DEF WorkInv
  <2>4. CASE ~(t < NumTables)
    <3>1. at'[e] = "complete"
      BY <1>1, <1>3, <2>4 DEF GoesOn, Goes, TypeOK
    <3>2. \A i \in Covered : i <= t
      BY <1>1, <2>4
    <3> QED BY <1>1, <2>2, <3>1, <3>2 DEF WorkInv
  <2> QED BY <2>3, <2>4
<1> QED BY <1>2, <1>3

(* Only the executor that acts is anywhere else than before.               *)
LEMMA StepWhole == TypeOK /\ WholeInv /\ [Next]_vars => WholeInv'
<1> SUFFICES ASSUME TypeOK, WholeInv, [Next]_vars, ~overlapped' PROVE WholeInv'
  BY DEF WholeInv
<1>1. ~overlapped
  <2>1. CASE \E e \in Executor : Begin(e)
    BY <2>1 DEF Begin
  <2>2. CASE UNCHANGED overlapped
    BY <2>2
  <2> QED
    BY <2>1, <2>2 DEF Next, ExecutorStep, Create, Enqueue, Read, Mark, Clear, SaveResult,
       SaveDetails, Complete, Audit, Fails, Catch, Return, Throw, Settle, Crash, Late, vars, history
<1>2. Alone /\ (\A e \in Executor : WorkInv(e)) /\ (status = "COMPLETED" => \A i \in Covered : Whole(i))
  BY <1>1 DEF WholeInv
<1>3. ASSUME NEW e \in Executor, at[e] # "idle",
             NEW to, at' = [at EXCEPT ![e] = to], WorkInv(e)',
             status' = "COMPLETED" => \A i \in Covered : Whole(i)'
      PROVE  WholeInv'
  <2>1. \A f \in Executor : f # e => at[f] = "idle" /\ at'[f] = "idle"
    BY <1>2, <1>3 DEF Alone, TypeOK
  <2>2. \A f \in Executor : WorkInv(f)'
    BY <1>3, <2>1 DEF WorkInv
  <2>3. Alone'
    BY <2>1 DEF Alone
  <2> QED BY <1>3, <2>2, <2>3 DEF WholeInv
<1>4. ASSUME UNCHANGED <<at, table, status, kind, output>> PROVE WholeInv'
  BY <1>1, <1>4 DEF WholeInv, Alone, WorkInv, Writing, Whole, Bare, Half, FirstPart, LastPart, output
<1>5. CASE Create
  BY <1>1, <1>2, <1>5 DEF Create, WholeInv, Alone, WorkInv, Writing, Whole, Bare, Half, FirstPart,
     LastPart, output
<1>6. CASE Enqueue \/ UNCHANGED vars
  BY <1>4, <1>6 DEF Enqueue, vars
<1>7. ASSUME NEW e \in Executor, Late(e) PROVE WholeInv'
  BY <1>4, <1>7 DEF Late
<1>8. ASSUME NEW e \in Executor, Begin(e) PROVE WholeInv'
  <2>1. /\ at' = [at EXCEPT ![e] = "read"] /\ \A f \in Executor : at[f] = "idle"
        /\ UNCHANGED <<kind, status, table, heads, details>>
    BY <1>8 DEF Begin, Goes, output
  <2>2. \A f \in Executor : at'[f] \in {"idle", "read"} /\ (f # e => at'[f] = "idle")
    BY <2>1 DEF TypeOK
  <2> QED BY <1>2, <2>1, <2>2 DEF WholeInv, Alone, WorkInv, Whole
<1>9. ASSUME NEW e \in Executor, Read(e) PROVE WholeInv'
  <2>1. /\ at[e] = "read" /\ at' = [at EXCEPT ![e] = IF Skips THEN "end" ELSE "mark"]
        /\ UNCHANGED <<kind, status, heads, details>>
    BY <1>9 DEF Read, Goes, output
  <2>2. at'[e] = "end" \/ (at'[e] = "mark" /\ status # "COMPLETED")
    BY <2>1 DEF Skips, TypeOK
  <2> QED BY <1>2, <1>3, <2>1, <2>2 DEF WorkInv, Whole
<1>10. ASSUME NEW e \in Executor, Mark(e) PROVE WholeInv'
  <2>1. at[e] = "mark" /\ at' = [at EXCEPT ![e] = "clear"] /\ status' = "RUNNING" /\ at'[e] = "clear"
    BY <1>10 DEF Mark, Goes, TypeOK
  <2> QED BY <1>3, <2>1 DEF WorkInv
<1>11. ASSUME NEW e \in Executor, Clear(e) PROVE WholeInv'
  <2>1. /\ at[e] = "clear" /\ at' = [at EXCEPT ![e] = FirstPart] /\ at'[e] = FirstPart
        /\ table'[e] = 1 /\ status' = status /\ kind' = kind
        /\ \A i \in Covered : heads'[i] = 0 /\ details'[i] = 0
    BY <1>11 DEF Clear, Empty, Goes, TypeOK
  <2>2. 1 \in Covered /\ \A i \in Covered : ~(i < 1)
    BY ReportAssumption DEF Covered
  <2>3. FirstPart' = FirstPart /\ FirstPart \in {"head", "detail"}
    BY <2>1 DEF FirstPart
  <2>4. Writing(e)'
    BY <2>1, <2>2, <2>3 DEF Writing, Bare
  <2>5. status # "COMPLETED"
    BY <1>2, <2>1 DEF WorkInv
  <2> QED BY <1>3, <2>1, <2>3, <2>4, <2>5 DEF WorkInv
<1>12. ASSUME NEW e \in Executor, SaveResult(e) \/ SaveDetails(e) PROVE WholeInv'
  <2>1. /\ at[e] \in {"head", "detail"} /\ status' = status
        /\ \E to : at' = [at EXCEPT ![e] = to]
    BY <1>12 DEF SaveResult, SaveDetails, GoesOn, Goes
  <2>2. status # "COMPLETED"
    BY <1>2, <2>1 DEF WorkInv
  <2>3. WorkInv(e)'
    BY <1>1, <1>12, SavedPart
  <2> QED BY <1>3, <2>1, <2>2, <2>3
<1>13. ASSUME NEW e \in Executor, Complete(e) PROVE WholeInv'
  <2>1. /\ at[e] = "complete" /\ at' = [at EXCEPT ![e] = "audit"] /\ at'[e] = "audit"
        /\ status' = "COMPLETED" /\ UNCHANGED <<kind, heads, details>>
    BY <1>13 DEF Complete, Goes, output, TypeOK
  <2>2. \A i \in Covered : Whole(i)'
    BY <1>2, <2>1 DEF WorkInv, Whole
  <2> QED BY <1>3, <2>1, <2>2 DEF WorkInv
<1>14. ASSUME NEW e \in Executor, NEW to \in {"idle", "end", "catch", "throw", "told"},
              at[e] # "idle", at' = [at EXCEPT ![e] = to],
              UNCHANGED <<kind, heads, details>>, status' = status \/ status' # "COMPLETED"
       PROVE  WholeInv'
  <2>1. at'[e] = to
    BY <1>14 DEF TypeOK
  <2>2. WorkInv(e)'
    BY <1>14, <2>1 DEF WorkInv
  <2>3. status' = "COMPLETED" => \A i \in Covered : Whole(i)'
    BY <1>2, <1>14 DEF Whole
  <2> QED BY <1>3, <1>14, <2>2, <2>3
<1>15. ASSUME NEW e \in Executor, Audit(e) \/ Fails(e) \/ Return(e) \/ Throw(e) \/ Crash(e)
       PROVE  WholeInv'
  BY <1>14, <1>15 DEF Audit, Fails, Return, Throw, Settle, Crash, Goes, output
<1>16. ASSUME NEW e \in Executor, Catch(e) PROVE WholeInv'
  <2>1. AfterFailure \in {"throw", "told", "end"}
    BY DEF AfterFailure, TypeOK, Kind
  <2> QED BY <1>14, <1>16, <2>1 DEF Catch, Goes, output
<1> QED
  BY <1>5, <1>6, <1>7, <1>8, <1>9, <1>10, <1>11, <1>12, <1>13, <1>15, <1>16
     DEF Next, ExecutorStep

LEMMA InitWhole == Init => TypeOK /\ WholeInv
<1>1. Init => WholeInv
  BY DEF Init, WholeInv, Alone, WorkInv
<1> QED BY <1>1, InitTypeOK

(* As long as no two executions of a run overlapped, a COMPLETED report    *)
(* has one result, with its details, of every table, however often its     *)
(* execution was broken off and begun again.                               *)
THEOREM CompletedMeansWhole == Spec => []CompletedIsWhole
<1>1. WholeInv => CompletedIsWhole
  BY DEF WholeInv, CompletedIsWhole, Whole
<1> QED BY InitWhole, StepTypeOK, StepWhole, <1>1, PTL DEF Spec

(* Under the same condition nothing is written to a report after it was    *)
(* completed, and its run is not opened again.                             *)
THEOREM ReportsStand == Spec => ReportStands
<1>1. TypeOK /\ WholeInv /\ [Next]_vars =>
        [status = "COMPLETED" /\ ~overlapped' =>
           status' \in {"COMPLETED", "FAILED"} /\ UNCHANGED output]_vars
  <2> SUFFICES ASSUME TypeOK, WholeInv, [Next]_vars, status = "COMPLETED", ~overlapped'
               PROVE  status' \in {"COMPLETED", "FAILED"} /\ UNCHANGED output
    OBVIOUS
  <2>1. CASE \E e \in Executor : Begin(e)
    BY <2>1 DEF Begin
  <2>2. ASSUME NEW e \in Executor,
               Mark(e) \/ Clear(e) \/ SaveResult(e) \/ SaveDetails(e) \/ Complete(e)
        PROVE  FALSE
    <3>1. /\ at[e] \in {"mark", "clear", "head", "detail", "complete"}
          /\ UNCHANGED overlapped
      BY <2>2 DEF Mark, Clear, SaveResult, SaveDetails, Complete, history
    <3> QED BY <3>1 DEF WholeInv, WorkInv
  <2> QED
    BY <2>1, <2>2 DEF Next, ExecutorStep, Create, Enqueue, Read, Audit, Fails, Catch, Return,
       Throw, Settle, Crash, Late, vars
<1> QED BY InitWhole, StepTypeOK, StepWhole, <1>1, PTL DEF Spec, ReportStands

-----------------------------------------------------------------------------
(* Validation: counting records.                                           *)

LEMMA RecordsFinite ==
  ASSUME NEW S \in SUBSET Record
  PROVE  IsFiniteSet(S) /\ Cardinality(S) \in Nat
<1>1. IsFiniteSet(Record)
  BY FS_Interval, ValidationAssumption DEF Record
<1> QED BY <1>1, FS_Subset, FS_CardinalityType

LEMMA TogetherTwo ==
  ASSUME NEW A \in SUBSET Record, NEW B \in SUBSET Record, A \cap B = {}
  PROVE  Cardinality(A \cup B) = Cardinality(A) + Cardinality(B)
<1>1. Cardinality(A \cup B) = Cardinality(A) + Cardinality(B) - Cardinality(A \cap B)
  BY RecordsFinite, FS_Union
<1>2. Cardinality(A \cap B) = 0
  BY FS_EmptySet
<1> QED BY <1>1, <1>2, RecordsFinite

LEMMA TogetherThree ==
  ASSUME NEW A \in SUBSET Record, NEW B \in SUBSET Record, NEW C \in SUBSET Record,
         A \cap B = {}, (A \cup B) \cap C = {}
  PROVE  Cardinality(A \cup B \cup C) = Cardinality(A) + Cardinality(B) + Cardinality(C)
<1>1. Cardinality(A \cup B) = Cardinality(A) + Cardinality(B)
  BY TogetherTwo
<1>2. Cardinality((A \cup B) \cup C) = Cardinality(A \cup B) + Cardinality(C)
  BY TogetherTwo
<1> QED BY <1>1, <1>2

\* The last of a page is the greatest of its identifiers.
Below == OpToRel(<, Nat)

LEMMA LastOfPage ==
  ASSUME NEW S \in SUBSET Record, S # {}
  PROVE  Last(S) \in S /\ \A r \in S : r <= Last(S)
<1> DEFINE Bounds == {c \in Nat : \A r \in S : r <= c}
<1>1. NumRecords \in Bounds /\ S \subseteq Nat
  BY ValidationAssumption DEF Record
<1>2. PICK m \in Bounds : \A c \in Bounds : m <= c
  <2>1. IsWellFoundedOn(Below, Nat)
    BY NatLessThanWellFounded DEF OpToRel, Below
  <2>2. PICK m \in Bounds : \A c \in Bounds : <<c, m>> \notin Below
    <3> Bounds \subseteq Nat /\ Bounds # {}
      BY <1>1
    <3> HIDE DEF Bounds
    <3> QED BY <2>1, WFMin
  <2>3. ASSUME NEW c \in Bounds PROVE m <= c
    <3>1. c \in Nat /\ m \in Nat /\ <<c, m>> \in Nat \X Nat /\ ~(c < m)
      BY <2>2 DEF Below, OpToRel
    <3> QED BY <3>1
  <2> QED BY <2>3
<1>3. m \in S
  <2> SUFFICES ASSUME m \notin S PROVE FALSE
    OBVIOUS
  <2>1. ASSUME NEW r \in S PROVE r < m
    BY <1>1, <1>2
  <2>2. PICK r \in S : r < m
    BY <2>1
  <2>3. m - 1 \in Bounds
    BY <2>1, <2>2, <1>1
  <2> QED BY <1>2, <2>3
<1>4. \A r \in S : r <= m
  BY <1>2
<1>5. Last(S) \in S /\ \A r \in S : r <= Last(S)
  BY <1>3, <1>4 DEF Last
<1> QED BY <1>5

-----------------------------------------------------------------------------
(* Validation: what is known at each stage.                                *)

Stages == {"schema", "rows", "tally", "verifiable", "page", "compare", "repeats", "done"}

ValidationTypeInv ==
  /\ world \in [Record -> Case] /\ setting \in Setting /\ stage \in Stages
  /\ counts \in [source : Nat, target : Nat]
  /\ tally \in [Outcome -> Nat] /\ verifiable \in Nat
  /\ cursor \in Nat /\ checked \in Nat /\ changes \in Nat
  /\ page \subseteq [record : Record, outcome : Outcome \cup {Nothing}]
  /\ matched \subseteq Record /\ different \subseteq Record /\ missing \subseteq Record
  /\ verdict \in Result \cup {Nothing}

Comparable == IF setting.ofRun THEN Verifiable ELSE Sources
Compared == matched \cup different \cup missing

\* A page has records after the cursor, each once.
PageInv ==
  /\ \A p, q \in page : p.record = q.record => p = q
  /\ \A p \in page : p.record > cursor /\ (changes = 0 => p.record \in Comparable)
  /\ page # {} <=> stage = "compare"

\* The findings are of records up to the cursor, each once.
FindingsInv ==
  /\ Cardinality(matched) + Cardinality(different) + Cardinality(missing) = checked
  /\ matched \cap different = {} /\ (matched \cup different) \cap missing = {}
  /\ preExisting \subseteq different
  /\ \A r \in Compared : r <= cursor
  /\ changes = 0 => Compared \subseteq Comparable /\ matched \cup different \subseteq Targets

\* What was counted is still so while nothing changes.
Later(stages) ==
  stage \in stages \cup {"page", "compare", "repeats", "done"} /\ setting.schema # "FAIL"

CountsInv ==
  changes = 0 =>
    /\ Later({"tally", "verifiable"}) => counts.source = Cardinality(Sources)
    /\ Later({"verifiable"}) /\ setting.ofRun =>
         \A o \in Outcome : tally[o] = Cardinality({r \in Record : world[r].row = o})
    /\ Later({}) /\ setting.ofRun => verifiable = Cardinality(Verifiable)

VerdictInv ==
  /\ setting.schema = "FAIL" => stage \in {"schema", "done"}
  /\ stage # "done" => verdict = Nothing
  /\ stage = "done" => verdict = IF setting.schema = "FAIL" THEN "FAIL" ELSE Worst(Checks)

ValidationInv ==
  ValidationTypeInv /\ PageInv /\ FindingsInv /\ CountsInv /\ VerdictInv

\* One comparison: what it finds is of the records of the page, each once.
Looked == {p.record : p \in Pairs}
Gone == {r \in Looked : r \notin Targets}
Off == {r \in Looked : r \in Targets /\ world[r].content = "different"}
Alike == {r \in Looked : r \in Targets /\ world[r].content # "different"}

LEMMA PairsAreRecords ==
  ASSUME ValidationTypeInv, PageInv
  PROVE  Looked \subseteq Record /\ Cardinality(Pairs) = Cardinality(Looked)
<1> DEFINE f == [p \in Pairs |-> p.record]
<1>1. Pairs \subseteq page /\ Looked \subseteq Record
  BY DEF Pairs, Looked, ValidationTypeInv
<1>2. f \in Surjection(Pairs, Looked)
  BY DEF Surjection, Looked
<1>3. f \in Injection(Pairs, Looked)
  <2>1. \A p, q \in Pairs : f[p] = f[q] => p = q
    BY <1>1 DEF PageInv
  <2>2. f \in [Pairs -> Looked]
    BY DEF Looked
  <2> QED BY <2>1, <2>2 DEF Injection, IsInjective
<1>4. IsFiniteSet(Pairs)
  BY <1>1, <1>3, RecordsFinite, FS_Injection
<1>5. Cardinality(Looked) = Cardinality(Pairs)
  BY <1>2, <1>3, <1>4, FS_Surjection
<1> QED BY <1>1, <1>5

LEMMA CompareFinds ==
  ASSUME ValidationTypeInv, Compare
  PROVE  /\ missing' = missing \cup Gone /\ different' = different \cup Off
         /\ matched' = matched \cup Alike /\ checked' = checked + Cardinality(Pairs)
         /\ preExisting' \subseteq preExisting \cup Off
<1>1. missing' = missing \cup Gone
  BY DEF Compare, Gone, Looked
<1>2. different' = different \cup Off
  BY DEF Compare, Off, Looked, Differs
<1>3. matched' = matched \cup Alike
  BY DEF Compare, Alike, Looked, Differs
<1>4. preExisting' \subseteq preExisting \cup Off
  BY DEF Compare, Off, Looked, Differs
<1>5. checked' = checked + Cardinality(Pairs)
  BY DEF Compare
<1> QED BY <1>1, <1>2, <1>3, <1>4, <1>5

\* Steps that leave the findings, and where the validation is, alone.
LEMMA CountingKeeps ==
  ASSUME ValidationInv, Schema \/ CountRows \/ CountOutcomes \/ CountVerifiable
  PROVE  ValidationInv'
<1> USE DEF ValidationInv, numbers, findings
<1>1. UNCHANGED <<world, setting, page, findings, cursor, changes>> /\ stage' # "compare"
      /\ stage # "compare" /\ page = {}
  BY DEF Schema, CountRows, CountOutcomes, CountVerifiable, PageInv
<1>2. \A S \in SUBSET Record : Cardinality(S) \in Nat
  BY RecordsFinite
<1>3. Sources \in SUBSET Record /\ Targets \in SUBSET Record /\ Verifiable \in SUBSET Record
      /\ \A o \in Outcome : {r \in Record : world[r].row = o} \in SUBSET Record
  BY DEF Sources, Targets, Verifiable
<1>4. Sources' = Sources /\ Targets' = Targets /\ Verifiable' = Verifiable
      /\ \A o \in Outcome : {r \in Record : world'[r].row = o} = {r \in Record : world[r].row = o}
  BY <1>1 DEF Sources, Targets, Verifiable
<1>5. ValidationTypeInv'
  <2>1. CASE Schema
    BY <2>1, <1>1 DEF Schema, ValidationTypeInv, Stages, Result
  <2>2. CASE CountRows
    <3>1. setting.others \in Nat
      BY DEF ValidationTypeInv, Setting
    <3>2. Cardinality(Sources) \in Nat /\ Cardinality(Targets) + setting.others \in Nat
      BY <1>2, <1>3, <3>1
    <3> QED BY <2>2, <1>1, <3>2 DEF CountRows, ValidationTypeInv, Stages
  <2>3. CASE CountOutcomes
    BY <2>3, <1>1, <1>2, <1>3 DEF CountOutcomes, ValidationTypeInv, Stages
  <2>4. CASE CountVerifiable
    BY <2>4, <1>1, <1>2, <1>3 DEF CountVerifiable, ValidationTypeInv, Stages
  <2> QED BY <2>1, <2>2, <2>3, <2>4
<1>6. PageInv'
  BY <1>1 DEF PageInv
<1>7. FindingsInv'
  BY <1>1, <1>4 DEF FindingsInv, Compared, Comparable
<1>8. CountsInv'
  <2> SUFFICES ASSUME changes = 0 PROVE CountsInv'
    BY <1>1 DEF CountsInv
  <2>1. CASE Schema
    BY <2>1, <1>1 DEF Schema, CountsInv, Later
  <2>2. CASE CountRows
    BY <2>2, <1>1, <1>4 DEF CountRows, CountsInv, Later, ValidationTypeInv
  <2>3. CASE CountOutcomes
    BY <2>3, <1>1, <1>4 DEF CountOutcomes, CountsInv, Later
  <2>4. CASE CountVerifiable
    BY <2>4, <1>1, <1>4 DEF CountVerifiable, CountsInv, Later
  <2> QED BY <2>1, <2>2, <2>3, <2>4
<1>9. VerdictInv'
  BY <1>1 DEF VerdictInv, Schema, CountRows, CountOutcomes, CountVerifiable
<1> QED BY <1>5, <1>6, <1>7, <1>8, <1>9

LEMMA ReadPageKeeps ==
  ASSUME ValidationInv, ReadPage
  PROVE  ValidationInv'
<1> USE DEF ValidationInv, numbers, findings
<1>1. /\ UNCHANGED <<world, setting, numbers, cursor, findings, verdict, changes>>
      /\ stage = "page" /\ page = {} /\ stage' \in {"repeats", "compare"}
  BY DEF ReadPage, PageInv
<1>2. Sources' = Sources /\ Targets' = Targets /\ Verifiable' = Verifiable
  BY <1>1 DEF Sources, Targets, Verifiable
<1>3. NextPage \subseteq Record /\ \A r \in NextPage : r > cursor /\ r \in Comparable
  BY DEF NextPage, Eligible, Comparable, Verifiable, Sources
<1>4. \/ page' = {} /\ stage' = "repeats"
      \/ /\ stage' = "compare" /\ NextPage # {}
         /\ page' = {[record |-> r, outcome |-> world[r].row] : r \in NextPage}
  BY <1>1 DEF ReadPage
<1>5. ValidationTypeInv'
  <2>1. \A r \in Record : world[r].row \in Outcome \cup {Nothing}
    BY DEF ValidationTypeInv, Case
  <2>2. page' \subseteq [record : Record, outcome : Outcome \cup {Nothing}]
    BY <1>3, <1>4, <2>1
  <2> QED BY <1>1, <2>2 DEF ValidationTypeInv, Stages
<1>6. PageInv'
  <2>1. Comparable' = Comparable
    BY <1>1, <1>2 DEF Comparable
  <2>2. CASE page' = {} /\ stage' = "repeats"
    BY <2>2 DEF PageInv
  <2>3. CASE /\ stage' = "compare" /\ NextPage # {}
             /\ page' = {[record |-> r, outcome |-> world[r].row] : r \in NextPage}
    <3>1. \A p \in page' : p.record \in NextPage /\ p.outcome = world[p.record].row
                            /\ p = [record |-> p.record, outcome |-> p.outcome]
      BY <2>3
    <3>2. \A p, q \in page' : p.record = q.record => p = q
      BY <3>1
    <3>3. \A p \in page' : p.record > cursor' /\ (changes' = 0 => p.record \in Comparable')
      BY <1>1, <1>3, <2>1, <3>1
    <3>4. page' # {}
      BY <2>3
    <3> QED BY <2>3, <3>2, <3>3, <3>4 DEF PageInv
  <2> QED BY <1>4, <2>2, <2>3
<1>7. FindingsInv'
  BY <1>1, <1>2 DEF FindingsInv, Compared, Comparable
<1>8. CountsInv' /\ VerdictInv'
  BY <1>1, <1>2 DEF CountsInv, Later, VerdictInv
<1> QED BY <1>5, <1>6, <1>7, <1>8

LEMMA CompareKeeps ==
  ASSUME ValidationInv, Compare
  PROVE  ValidationInv'
<1> USE DEF ValidationInv, numbers, findings
<1>1. /\ UNCHANGED <<world, setting, numbers, verdict, changes>>
      /\ stage = "compare" /\ page # {} /\ page' = {} /\ stage' \in {"repeats", "page"}
  BY DEF Compare, PageInv
<1>2. Sources' = Sources /\ Targets' = Targets /\ Verifiable' = Verifiable
  BY <1>1 DEF Sources, Targets, Verifiable
<1>3. /\ missing' = missing \cup Gone /\ different' = different \cup Off
      /\ matched' = matched \cup Alike /\ checked' = checked + Cardinality(Pairs)
      /\ preExisting' \subseteq preExisting \cup Off
  BY CompareFinds
<1>4. Looked \subseteq Record /\ Cardinality(Pairs) = Cardinality(Looked)
  BY PairsAreRecords
<1>5. /\ Gone \subseteq Record /\ Off \subseteq Record /\ Alike \subseteq Record
      /\ Looked = Alike \cup Off \cup Gone
      /\ Alike \cap Off = {} /\ (Alike \cup Off) \cap Gone = {}
  BY <1>4 DEF Gone, Off, Alike
<1>6. Cardinality(Alike) + Cardinality(Off) + Cardinality(Gone) = Cardinality(Pairs)
  BY <1>4, <1>5, TogetherThree
<1>7. \A r \in Looked : r > cursor /\ (changes = 0 => r \in Comparable)
  BY DEF Looked, Pairs, PageInv
<1>8. \A r \in Looked : r \notin Compared
  BY <1>4, <1>7 DEF FindingsInv, Record, ValidationTypeInv
<1>9. /\ Cardinality(matched') = Cardinality(matched) + Cardinality(Alike)
      /\ Cardinality(different') = Cardinality(different) + Cardinality(Off)
      /\ Cardinality(missing') = Cardinality(missing) + Cardinality(Gone)
  <2>1. matched \cap Alike = {} /\ different \cap Off = {} /\ missing \cap Gone = {}
    BY <1>5, <1>8 DEF Compared
  <2> QED BY <1>3, <1>5, <2>1, TogetherTwo DEF ValidationTypeInv
<1>10. \A S \in {matched, different, missing, Alike, Off, Gone} : Cardinality(S) \in Nat
  BY <1>5, RecordsFinite DEF ValidationTypeInv
<1>11. {p.record : p \in page} \subseteq Record /\ {p.record : p \in page} # {}
  BY <1>1 DEF ValidationTypeInv
<1>12. cursor' \in Record /\ \A p \in page : p.record <= cursor'
  BY <1>11, LastOfPage DEF Compare
<1>13. cursor' > cursor
  BY <1>1, <1>11, <1>12 DEF PageInv, ValidationTypeInv, Record
<1>14. ValidationTypeInv'
  <2>1. checked' \in Nat
    BY <1>3, <1>6, <1>10 DEF ValidationTypeInv
  <2> QED BY <1>1, <1>3, <1>5, <1>12, <2>1 DEF ValidationTypeInv, Stages, Record
<1>15. PageInv'
  BY <1>1 DEF PageInv
<1>16. FindingsInv'
  <2>1. Cardinality(matched') + Cardinality(different') + Cardinality(missing') = checked'
    BY <1>3, <1>6, <1>9, <1>10 DEF FindingsInv, ValidationTypeInv
  <2>2. matched' \cap different' = {} /\ (matched' \cup different') \cap missing' = {}
    BY <1>3, <1>5, <1>8 DEF FindingsInv, Compared
  <2>3. preExisting' \subseteq different'
    BY <1>3 DEF FindingsInv
  <2>4. Compared' = Compared \cup Looked
    BY <1>3, <1>5 DEF Compared
  <2>5. \A r \in Compared' : r <= cursor'
    <3>1. \A r \in Looked : r <= cursor'
      BY <1>12 DEF Looked, Pairs
    <3>2. ASSUME NEW r \in Compared PROVE r <= cursor'
      <4>1. r \in Nat /\ cursor \in Nat /\ cursor' \in Nat /\ r <= cursor
        BY <1>12 DEF FindingsInv, Compared, ValidationTypeInv, Record
      <4> QED BY <4>1, <1>13
    <3> QED BY <2>4, <3>1, <3>2
  <2>6. changes' = 0 => Compared' \subseteq Comparable' /\ matched' \cup different' \subseteq Targets'
    <3>1. Alike \subseteq Targets /\ Off \subseteq Targets
      BY DEF Alike, Off
    <3>2. Comparable' = Comparable
      BY <1>1, <1>2 DEF Comparable
    <3> QED BY <1>1, <1>2, <1>3, <1>7, <2>4, <3>1, <3>2 DEF FindingsInv
  <2> QED BY <2>1, <2>2, <2>3, <2>5, <2>6 DEF FindingsInv
<1>17. CountsInv' /\ VerdictInv'
  BY <1>1, <1>2 DEF CountsInv, Later, VerdictInv
<1> QED BY <1>14, <1>15, <1>16, <1>17

LEMMA ConcludeKeeps ==
  ASSUME ValidationInv, Conclude
  PROVE  ValidationInv'
<1> USE DEF ValidationInv, numbers, findings
<1>1. /\ UNCHANGED <<world, setting, numbers, cursor, page, findings, changes>>
      /\ stage = "repeats" /\ stage' = "done" /\ verdict' = Worst(Checks)
  BY DEF Conclude
<1>2. Sources' = Sources /\ Targets' = Targets /\ Verifiable' = Verifiable
  BY <1>1 DEF Sources, Targets, Verifiable
<1>3. Worst(Checks) \in Result
  BY DEF Worst, Result
<1>4. ValidationTypeInv'
  BY <1>1, <1>3 DEF ValidationTypeInv, Stages
<1>5. PageInv' /\ FindingsInv' /\ CountsInv'
  BY <1>1, <1>2 DEF PageInv, FindingsInv, CountsInv, Later, Compared, Comparable
<1>6. Checks' = Checks
  BY <1>1 DEF Checks, RowCount, Existence, Values, Uniqueness, Totals, Absent, NothingExamined,
     Coverage, Written
<1>7. VerdictInv'
  BY <1>1, <1>6 DEF VerdictInv, Worst
<1> QED BY <1>4, <1>5, <1>7

LEMMA MeanwhileKeeps ==
  ASSUME ValidationInv, NEW r \in Record, RunGoesOn(r) \/ Vanishes(r)
  PROVE  ValidationInv'
<1> USE DEF ValidationInv, numbers, findings
<1>1. PICK case \in Case : Meanwhile(r, case)
  BY DEF RunGoesOn, Vanishes, Case, ValidationTypeInv, Outcome, Present
<1>2. /\ UNCHANGED <<setting, stage, numbers, cursor, page, findings, verdict>>
      /\ stage # "done" /\ changes' = changes + 1
      /\ world' \in [Record -> Case]
  BY <1>1 DEF Meanwhile, ValidationTypeInv
<1>3. changes' \in Nat /\ changes' # 0
  BY <1>2 DEF ValidationTypeInv
<1>4. ValidationTypeInv' /\ PageInv'
  BY <1>2, <1>3 DEF ValidationTypeInv, PageInv
<1>5. FindingsInv' /\ CountsInv'
  BY <1>2, <1>3 DEF FindingsInv, CountsInv, Compared
<1>6. VerdictInv'
  BY <1>2 DEF VerdictInv
<1> QED BY <1>4, <1>5, <1>6

LEMMA ValidationStep == ValidationInv /\ [ValidationNext]_validationVars => ValidationInv'
<1> SUFFICES ASSUME ValidationInv, [ValidationNext]_validationVars PROVE ValidationInv'
  OBVIOUS
<1>1. CASE UNCHANGED validationVars
  <2>1. UNCHANGED <<world, setting, stage, counts, tally, verifiable, cursor, page, checked, missing,
                    different, preExisting, uncompared, broken, matched, verdict, changes>>
    BY <1>1 DEF validationVars, numbers, findings
  <2>2. Sources' = Sources /\ Targets' = Targets /\ Verifiable' = Verifiable
    BY <2>1 DEF Sources, Targets, Verifiable
  <2>3. Checks' = Checks
    BY <2>1 DEF Checks, RowCount, Existence, Values, Uniqueness, Totals, Absent, NothingExamined,
       Coverage, Written
  <2>4. ValidationTypeInv' /\ PageInv'
    BY <2>1, <2>2 DEF ValidationInv, ValidationTypeInv, PageInv, Comparable
  <2>5. FindingsInv' /\ CountsInv'
    BY <2>1, <2>2 DEF ValidationInv, FindingsInv, CountsInv, Later, Compared, Comparable
  <2>6. VerdictInv'
    BY <2>1, <2>3 DEF ValidationInv, VerdictInv, Worst
  <2> QED BY <2>4, <2>5, <2>6 DEF ValidationInv
<1> QED BY <1>1, CountingKeeps, ReadPageKeeps, CompareKeeps, ConcludeKeeps, MeanwhileKeeps
        DEF ValidationNext

LEMMA ValidationStarts == ValidationInit => ValidationInv
<1> SUFFICES ASSUME ValidationInit PROVE ValidationInv
  OBVIOUS
<1>1. ValidationTypeInv
  BY ValidationAssumption DEF ValidationInit, ValidationTypeInv, Stages, Result
<1>2. PageInv /\ CountsInv
  BY DEF ValidationInit, PageInv, CountsInv, Later
<1>3. FindingsInv
  BY FS_EmptySet DEF ValidationInit, FindingsInv, Compared
<1>4. VerdictInv
  BY DEF ValidationInit, VerdictInv
<1> QED BY <1>1, <1>2, <1>3, <1>4 DEF ValidationInv

LEMMA CheckedIsCompared ==
  ASSUME ValidationInv
  PROVE  Compared \subseteq Record /\ Cardinality(Compared) = checked
BY TogetherThree DEF ValidationInv, ValidationTypeInv, FindingsInv, Compared

\* How many could be compared.
ToCompare == IF setting.ofRun THEN verifiable ELSE counts.source

LEMMA CoverageIsFull ==
  ASSUME ValidationInv
  PROVE  Coverage = "FULL" <=> checked >= ToCompare
<1>1. ToCompare \in Nat /\ checked \in Nat
  BY DEF ValidationInv, ValidationTypeInv, ToCompare
<1> QED BY <1>1 DEF Coverage, ToCompare

LEMMA FullIsAll ==
  ASSUME ValidationInv, changes = 0, Later({})
  PROVE  Coverage = "FULL" <=> Comparable \subseteq Compared
<1>1. /\ Compared \subseteq Comparable /\ Comparable \subseteq Record
      /\ ToCompare = Cardinality(Comparable)
  BY DEF ValidationInv, FindingsInv, CountsInv, Comparable, ToCompare, Verifiable, Sources, Later
<1>2. IsFiniteSet(Comparable) /\ Cardinality(Comparable) \in Nat
  BY <1>1, RecordsFinite
<1>3. /\ Cardinality(Compared) <= Cardinality(Comparable)
      /\ Cardinality(Compared) = Cardinality(Comparable) => Compared = Comparable
  BY <1>1, <1>2, FS_Subset
<1>4. Cardinality(Compared) = checked /\ checked \in Nat
  BY CheckedIsCompared DEF ValidationInv, ValidationTypeInv
<1>5. Comparable \subseteq Compared => checked = ToCompare
  BY <1>1, <1>4
<1>6. checked >= ToCompare => Compared = Comparable
  BY <1>1, <1>2, <1>3, <1>4
<1> QED BY <1>1, <1>2, <1>4, <1>5, <1>6, CoverageIsFull

LEMMA Honest == ValidationInv => CoverageIsHonest
<1> SUFFICES ASSUME ValidationInv, stage = "done", setting.schema # "FAIL"
             PROVE  /\ Cardinality(matched) + Cardinality(different) + Cardinality(missing) = checked
                    /\ Cardinality(Compared) = checked
                    /\ changes = 0 => (Coverage = "FULL" <=> Comparable \subseteq Compared)
  BY DEF CoverageIsHonest, Compared, Comparable
<1>1. Later({})
  BY DEF Later
<1> QED BY <1>1, CheckedIsCompared, FullIsAll DEF ValidationInv, FindingsInv

\* What a verdict that passes says of each check.
LEMMA PassingChecks ==
  ASSUME ValidationInv, verdict \in {"PASS", "WARNING"}
  PROVE  /\ stage = "done" /\ setting.schema # "FAIL"
         /\ Existence = "PASS" /\ Values \notin {"FAIL", "INCOMPLETE"} /\ broken = {}
<1>1. verdict # Nothing
  BY ValidationAssumption DEF Result
<1>2. stage = "done" /\ setting.schema # "FAIL" /\ verdict = Worst(Checks)
  BY <1>1 DEF ValidationInv, VerdictInv
<1>3. "FAIL" \notin Checks /\ "INCOMPLETE" \notin Checks
  BY <1>2 DEF Worst
<1>4. Existence \in {"PASS", "FAIL", "INCOMPLETE"}
  BY DEF Existence
<1>5. /\ Existence \in Checks /\ Values \in Checks
      /\ (IF broken = {} THEN "PASS" ELSE "FAIL") \in Checks
  BY DEF Checks
<1> QED BY <1>2, <1>3, <1>4, <1>5

LEMMA Evidence == ValidationInv => PassIsEvidence
<1> SUFFICES ASSUME ValidationInv, verdict \in {"PASS", "WARNING"}
             PROVE  /\ checked > 0
                    /\ missing = {} /\ broken = {} /\ different \subseteq preExisting
                    /\ changes = 0 /\ setting.ofRun =>
                         /\ \A r \in Record : world[r].row \in Present \cup {Nothing}
                         /\ Coverage = "FULL" =>
                              \A r \in Record : world[r].row # Nothing => r \in Targets
  BY DEF PassIsEvidence
<1>1. /\ stage = "done" /\ setting.schema # "FAIL" /\ Existence = "PASS"
      /\ Values \notin {"FAIL", "INCOMPLETE"} /\ broken = {}
  BY PassingChecks
<1>2. /\ missing \subseteq Record /\ different \subseteq Record /\ matched \subseteq Record
      /\ checked \in Nat /\ tally \in [Outcome -> Nat] /\ preExisting \subseteq different
      /\ "FAILED" \in Outcome /\ "UNRESOLVED" \in Outcome
  BY DEF ValidationInv, ValidationTypeInv, FindingsInv, Outcome
<1>3. Cardinality(missing) \in Nat /\ Cardinality(different) \in Nat
      /\ (Cardinality(missing) = 0 => missing = {})
      /\ (Cardinality(different) = 0 => different = {})
  BY <1>2, RecordsFinite, FS_EmptySet
<1>4. setting.ofRun => tally["UNRESOLVED"] = 0 /\ Absent = 0
  BY <1>1, <1>2, <1>3 DEF Existence, Absent
<1>5. missing = {} /\ (setting.ofRun => tally["UNRESOLVED"] = 0 /\ tally["FAILED"] = 0)
  BY <1>1, <1>2, <1>3, <1>4 DEF Existence, Absent
<1>6. different \subseteq preExisting
  BY <1>1 DEF Values
<1>7. checked > 0
  <2> SUFFICES ASSUME checked = 0 PROVE FALSE
    BY <1>2
  <2>1. Cardinality(matched) \in Nat
    BY <1>2, RecordsFinite
  <2>2. Cardinality(different) = 0
    BY <2>1, <1>3 DEF ValidationInv, FindingsInv
  <2>3. different = {} /\ preExisting = {}
    BY <2>2, <1>2, <1>3
  <2>4. NothingExamined
    BY DEF NothingExamined
  <2> QED BY <2>3, <2>4, <1>1 DEF Values
<1>8. ASSUME changes = 0, setting.ofRun
      PROVE  /\ \A r \in Record : world[r].row \in Present \cup {Nothing}
             /\ Coverage = "FULL" => \A r \in Record : world[r].row # Nothing => r \in Targets
  <2>1. \A o \in Outcome : tally[o] = Cardinality({r \in Record : world[r].row = o})
    BY <1>1, <1>8 DEF ValidationInv, CountsInv, Later
  <2>2. ASSUME NEW o \in {"FAILED", "UNRESOLVED"} PROVE {r \in Record : world[r].row = o} = {}
    <3>1. Cardinality({r \in Record : world[r].row = o}) = 0
      BY <2>1, <1>2, <1>5, <1>8
    <3>2. IsFiniteSet({r \in Record : world[r].row = o})
      BY RecordsFinite
    <3> QED BY <3>1, <3>2, FS_EmptySet
  <2>3. \A r \in Record : world[r].row \in Outcome \cup {Nothing}
    BY DEF ValidationInv, ValidationTypeInv, Case
  <2>4. \A r \in Record : world[r].row \in Present \cup {Nothing}
    BY <2>2, <2>3 DEF Outcome
  <2>5. ASSUME Coverage = "FULL", NEW r \in Record, world[r].row # Nothing PROVE r \in Targets
    <3>1. r \in Comparable
      BY <2>4, <2>5, <1>8 DEF Comparable, Verifiable
    <3>2. r \in Compared
      BY <3>1, <2>5, <1>1, <1>8, FullIsAll DEF Later
    <3> QED BY <3>2, <1>5, <1>8 DEF ValidationInv, FindingsInv, Compared
  <2> QED BY <2>4, <2>5
<1> QED BY <1>1, <1>5, <1>6, <1>7, <1>8

(* A table passes, with or without warnings, on evidence only, and if all  *)
(* was compared and nothing changed each record of the run is there:       *)
(* whatever the records, page size, cap and changes meanwhile.             *)
THEOREM PassingIsEvidence == ValidationSpec => []PassIsEvidence
<1> QED BY ValidationStarts, ValidationStep, Evidence, PTL DEF ValidationSpec

(* A report counts each record it compared once, and its coverage is FULL  *)
(* exactly when no record it could compare was left out.                   *)
THEOREM CoverageSaysSo == ValidationSpec => []CoverageIsHonest
<1> QED BY ValidationStarts, ValidationStep, Honest, PTL DEF ValidationSpec
=============================================================================
