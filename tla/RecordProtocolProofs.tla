------------------------ MODULE RecordProtocolProofs ------------------------
(* Proofs about RecordProtocol, for every number of records, page size,    *)
(* width, key, strategy, number of attempts, fault and bound; in the last  *)
(* part, that it implements WriteOnce.                                     *)
EXTENDS RecordProtocol, FiniteSetTheorems, TLAPS

-----------------------------------------------------------------------------
(* Types: what the helpers return.                                         *)

Stage == {"none", "begun", "reconcile", "read", "decided", "act", "deferred"}
Plan == [do: {"NONE", "CREATE", "UPDATE", "SKIP", "REFUSE"}, tid: TargetId \cup {None}]
Step == {"idle", "ready", "sent", "saved"} \cup Outcome

(* The types of what execute keeps in memory, and of what it does not.     *)
MemoryOK ==
  /\ stage \in Stage
  /\ cursor \in 0 .. NumRecords
  /\ todo \subseteq Record /\ seen \subseteq Record
  /\ stuck \in BOOLEAN
  /\ plan \in [Record -> Plan]
  /\ step \in [Record -> Step]
  /\ tries \in [Record -> 0 .. MaxTries]

LedgerOK ==
  /\ row \in [Record -> Row]
  /\ readErr \in BOOLEAN
  /\ err \subseteq Record /\ warn \subseteq Record

TargetOK ==
  /\ copies \in [Record -> Nat] /\ stray \in [Record -> Nat]
  /\ ref \subseteq Record /\ loose \subseteq Record

StatusOK == status \in {"QUEUED", "RUNNING", "PAUSED"} \cup Ended /\ executions \in Nat

LEMMA TypeParts == TypeOK <=> MemoryOK /\ LedgerOK /\ TargetOK /\ StatusOK
BY DEF TypeOK, MemoryOK, LedgerOK, TargetOK, StatusOK, Stage, Plan, Step

LEMMA NoRowIsRow == NoRow \in Row
BY DEF NoRow, Row, Outcome

LEMMA AbortedIsEnded == Aborted \subseteq Ended
BY DEF Aborted, Ended

LEMMA RunOutcomeIsEnded == RunOutcome \in Ended
BY DEF RunOutcome, Ended

LEMMA FoundIsTarget ==
  ASSUME NEW r \in Record
  PROVE  Found(r) \subseteq TargetId
<1>1. Existing \subseteq Record
  BY ProtocolAssumption
<1>. QED
  BY <1>1 DEF Found, TargetId

LEMMA DecisionIsPlan ==
  ASSUME NEW r \in Record, NEW page
  PROVE  Decision(r, page) \in [do: {"CREATE", "UPDATE", "SKIP", "REFUSE"},
                                tid: TargetId \cup {None}]
<1>1. ASSUME Found(r) # {} PROVE (CHOOSE t \in Found(r) : TRUE) \in TargetId
  BY <1>1, FoundIsTarget
<1>2. OnMatch(r) \in {"SKIP", "REFUSE", "UPDATE"}
  BY ProtocolAssumption DEF OnMatch
<1>. QED
  BY <1>1, <1>2 DEF Decision

LEMMA IntentIsRow ==
  ASSUME TypeOK, NEW r \in Record, plan[r].do \in {"CREATE", "UPDATE"}
  PROVE  Intent(r) \in Row
<1>. DEFINE ev == IF plan[r].do = "UPDATE" THEN "RECORDED_TARGET_ID" ELSE Evidence[r]
            tid == IF row[r] = NoRow THEN plan[r].tid ELSE row[r].tid
<1>1. /\ row[r] \in Row /\ plan[r].tid \in TargetId \cup {None}
  BY DEF TypeOK
<1>2. Intent(r) = [outcome |-> "UNRESOLVED", ws |-> "INTENDED", op |-> plan[r].do,
                   ev |-> ev, tid |-> tid, def |-> row[r].def]
  BY DEF Intent
<1>3. tid \in TargetId \cup {None}
  BY <1>1 DEF Row
<1>4. ev \in {"NONE", "PRESERVED_ID", "ALTERNATE_KEY", "BUSINESS_KEY", "RECORDED_TARGET_ID"}
  BY ProtocolAssumption
<1>5. row[r].def \in {"NONE", "PENDING", "RESOLVED", "INCOMPLETE", "FAILED"}
  BY <1>1 DEF Row
<1>. HIDE DEF ev, tid
<1>. QED
  BY <1>2, <1>3, <1>4, <1>5 DEF Row, Outcome

LEMMA ResultIsRow ==
  ASSUME TypeOK, NEW r \in Record, step[r] \in Outcome
  PROVE  Result(r) \in Row
BY DEF TypeOK, Result, Row, Outcome, TargetId

LEMMA SetRowOK ==
  ASSUME TypeOK, NEW r \in Record, NEW new \in Row, SetRow(r, new)
  PROVE  row' \in [Record -> Row]
BY DEF TypeOK, SetRow

LEMMA AdvanceOK ==
  ASSUME TypeOK, NEW r \in Record,
         NEW to \in Step, Advance(r, to)
  PROVE  step' \in [Record -> Step]
BY DEF TypeOK, Advance, Step

(* What Forget leaves.                                                     *)
LEMMA ForgetOK ==
  ASSUME Forget
  PROVE  MemoryOK'
<1>1. NumRecords \in Nat /\ MaxTries \in Nat
  BY ProtocolAssumption
<1>2. /\ stage' = "none" /\ cursor' = 0 /\ todo' = {} /\ seen' = {}
      /\ stuck' \in BOOLEAN
  BY DEF Forget
<1>3. plan' \in [Record -> Plan]
  BY DEF Forget, NoPlan, Plan
<1>4. step' \in [Record -> Step]
  BY DEF Forget, Step
<1>5. tries' \in [Record -> 0 .. MaxTries]
  BY <1>1 DEF Forget
<1>. QED
  BY <1>1, <1>2, <1>3, <1>4, <1>5 DEF MemoryOK, Stage

-----------------------------------------------------------------------------
(* The type invariant: a request is only ever made ready for a create or   *)
(* an update, so an intent names one of the two.                           *)
ReadyIsPlanned ==
  \A r \in Record : step[r] \in {"ready", "sent"} => plan[r].do \in {"CREATE", "UPDATE"}

TypeInv == TypeOK /\ ReadyIsPlanned

LEMMA MemoryKept ==
  ASSUME MemoryOK, ReadyIsPlanned, UNCHANGED execution
  PROVE  MemoryOK' /\ ReadyIsPlanned'
BY DEF MemoryOK, ReadyIsPlanned, execution

LEMMA LedgerKept == ASSUME LedgerOK, UNCHANGED ledger PROVE LedgerOK'
BY DEF LedgerOK, ledger

LEMMA TargetKept == ASSUME TargetOK, UNCHANGED target PROVE TargetOK'
BY DEF TargetOK, target

LEMMA ForgetPlans == ASSUME Forget PROVE ReadyIsPlanned'
BY DEF Forget, ReadyIsPlanned

LEMMA SettleOK ==
  ASSUME LedgerOK, NEW r \in Record,
         NEW o \in Outcome, NEW w \in {"NONE", "CONFIRMED", "RECONCILIATION_REQUIRED"},
         NEW t \in TargetId \cup {None}, Settle(r, o, w, t)
  PROVE  LedgerOK'
<1>1. row[r] \in Row
  BY DEF LedgerOK
<1>2. (IF t = None THEN row[r].tid ELSE t) \in TargetId \cup {None}
  BY <1>1 DEF Row
<1>3. [row[r] EXCEPT !.outcome = o, !.ws = w, !.tid = IF t = None THEN @ ELSE t] \in Row
  BY <1>1, <1>2 DEF Row
<1>. QED
  BY <1>3 DEF Settle, SetRow, LedgerOK

(* Every step keeps the types: one step of the proof per action.           *)
LEMMA TypeStep == TypeInv /\ [Next]_vars => TypeInv'
<1>. DEFINE OK == MemoryOK /\ LedgerOK /\ TargetOK /\ StatusOK /\ ReadyIsPlanned
<1>. SUFFICES ASSUME OK, TypeOK, [Next]_vars
              PROVE  OK'
  BY DEF TypeInv, TypeOK, MemoryOK, LedgerOK, TargetOK, StatusOK, Stage, Plan, Step
<1>. USE DEF MemoryOK, ReadyIsPlanned, Stage
<1>1. ASSUME Start PROVE OK'
  BY <1>1, LedgerKept, TargetKept DEF Start, StatusOK, Plan, Step
<1>2. ASSUME Abort PROVE OK'
  BY <1>2, LedgerKept, TargetKept, ForgetOK, ForgetPlans, AbortedIsEnded DEF Abort, StatusOK
<1>3. ASSUME Crash PROVE OK'
  BY <1>3, LedgerKept, TargetKept, ForgetOK, ForgetPlans DEF Crash, StatusOK
<1>4. ASSUME NEW as \in {"CANCELLED", "PAUSED"}, Interrupt(as) PROVE OK'
  BY <1>4, LedgerKept, TargetKept, ForgetOK, ForgetPlans DEF Interrupt, StatusOK, Ended
<1>5. ASSUME OpenTable PROVE OK'
  BY <1>5, LedgerKept, TargetKept DEF OpenTable, StatusOK
<1>6. ASSUME NEW r \in Record, Reconcile(r) PROVE OK'
  <2>1. LedgerOK'
    <3>1. Found(r) \subseteq TargetId
      BY FoundIsTarget
    <3>2. \/ Settle(r, "FAILED", "NONE", None)
          \/ Settle(r, "UNRESOLVED", "RECONCILIATION_REQUIRED", None)
          \/ \E t \in Found(r) :
               Settle(r, IF row[r].op = "UPDATE" THEN "UPDATED" ELSE "CREATED", "CONFIRMED", t)
      BY <1>6 DEF Reconcile
    <3>3. {"FAILED", "UNRESOLVED", "CREATED", "UPDATED"} \subseteq Outcome
      BY DEF Outcome
    <3>. QED
      BY <3>1, <3>2, <3>3, SettleOK
  <2>2. MemoryOK' /\ ReadyIsPlanned'
    BY <1>6 DEF Reconcile
  <2>3. TargetOK'
    BY <1>6 DEF Reconcile, Concluded, TargetOK
  <2>. QED
    BY <1>6, <2>1, <2>2, <2>3 DEF Reconcile, StatusOK
<1>7. ASSUME Reconciled PROVE OK'
  <2>1. MemoryOK' /\ ReadyIsPlanned'
    BY <1>7, ForgetOK, ForgetPlans DEF Reconciled
  <2>. QED
    BY <1>7, <2>1, LedgerKept, TargetKept, AbortedIsEnded DEF Reconciled, StatusOK
<1>8. ASSUME Decide PROVE OK'
  <2>. DEFINE last == IF cursor + PageSize < NumRecords
                      THEN cursor + PageSize ELSE NumRecords
              page == {r \in cursor + 1 .. last : Pending(r)}
  <2>1. cursor' \in 0 .. NumRecords /\ page \subseteq Record
    BY <1>8, ProtocolAssumption DEF Decide, Record
  <2>2. \A r \in Record : Decision(r, page) \in [do: {"CREATE", "UPDATE", "SKIP", "REFUSE"},
                                                 tid: TargetId \cup {None}]
    BY DecisionIsPlan
  <2>. HIDE DEF page
  <2>3. plan' = [r \in Record |-> IF r \in page THEN Decision(r, page) ELSE NoPlan]
    BY <1>8 DEF Decide, page
  <2>4. step' = [r \in Record |->
                   IF r \notin page THEN "idle"
                   ELSE CASE Decision(r, page).do = "REFUSE" -> "FAILED"
                          [] Decision(r, page).do = "SKIP" -> "SKIPPED"
                          [] OTHER -> "ready"]
    BY <1>8 DEF Decide, page
  <2>5. plan' \in [Record -> Plan]
    BY <2>2, <2>3 DEF NoPlan, Plan
  <2>6. step' \in [Record -> Step]
    BY <2>4 DEF Step, Outcome
  <2>7. ReadyIsPlanned'
    BY <2>2, <2>3, <2>4
  <2>8. seen' \subseteq Record /\ stage' \in {"read", "decided"}
    BY <1>8, <2>1 DEF Decide, page
  <2>. QED
    BY <1>8, <2>1, <2>5, <2>6, <2>7, <2>8, LedgerKept, TargetKept DEF Decide, StatusOK
<1>9. ASSUME Intend PROVE OK'
  <2>1. \A r \in Record : step[r] = "ready" => Intent(r) \in Row
    BY IntentIsRow
  <2>2. LedgerOK'
    BY <1>9, <2>1 DEF Intend, LedgerOK
  <2>. QED
    BY <1>9, <2>2, TargetKept DEF Intend, StatusOK
<1>10. ASSUME NEW r \in Record, Send(r) PROVE OK'
  <2>1. step' \in [Record -> Step]
    BY <1>10, AdvanceOK DEF Send, Step
  <2>2. tries' \in [Record -> 0 .. MaxTries]
    BY <1>10, ProtocolAssumption DEF Send
  <2>3. ReadyIsPlanned'
    BY <1>10 DEF Send, Advance
  <2>. QED
    BY <1>10, <2>1, <2>2, <2>3, LedgerKept, TargetKept DEF Send, StatusOK
<1>. DEFINE Settled == {"CREATED", "FAILED", "UPDATED", "UNRESOLVED"}
<1>11. ASSUME NEW r \in Record, NEW to \in Settled \cup {"saved"}, Advance(r, to), UNCHANGED plan
       PROVE  step' \in [Record -> Step] /\ ReadyIsPlanned'
  <2>1. step' \in [Record -> Step]
    BY <1>11, AdvanceOK DEF Step, Outcome
  <2>. QED
    BY <1>11, <2>1 DEF Advance
<1>12. ASSUME NEW r \in Record, Create(r) PROVE copies' \in [Record -> Nat]
  BY <1>12 DEF Create, TargetOK
<1>13. ASSUME NEW r \in Record, Accept(r) PROVE OK'
  BY <1>13, <1>11, <1>12, LedgerKept DEF Accept, TargetOK, StatusOK
<1>14. ASSUME NEW r \in Record, AnswerLost(r) PROVE OK'
  <2>1. step' \in [Record -> Step] /\ ReadyIsPlanned' /\ tries' \in [Record -> 0 .. MaxTries]
    <3>1. CASE tries[r] < MaxTries
      <4>1. UNCHANGED <<step, plan>> /\ tries' = [tries EXCEPT ![r] = @ + 1]
        BY <1>14, <3>1 DEF AnswerLost, AgainOrLost, MayTryAgain
      <4>. QED
        BY <4>1, <3>1, ProtocolAssumption
    <3>2. CASE ~(tries[r] < MaxTries)
      <4>1. Advance(r, "UNRESOLVED") /\ UNCHANGED <<tries, plan>>
        BY <1>14, <3>2 DEF AnswerLost, AgainOrLost, MayTryAgain, Lost
      <4>. QED
        BY <4>1, <1>11
    <3>. QED
      BY <3>1, <3>2
  <2>2. TargetOK'
    BY <1>14, <1>12 DEF AnswerLost, Repeated, TargetOK
  <2>. QED
    BY <1>14, <2>1, <2>2, LedgerKept DEF AnswerLost, StatusOK
<1>15. ASSUME NEW r \in Record, Refuse(r) PROVE OK'
  BY <1>15, <1>11, LedgerKept, TargetKept DEF Refuse, StatusOK
<1>16. ASSUME NEW r \in Record, Update(r) PROVE OK'
  <2>1. PICK to \in {"UPDATED", "FAILED"} : Advance(r, to)
    BY <1>16 DEF Update
  <2>. QED
    BY <1>16, <2>1, <1>11, LedgerKept, TargetKept DEF Update, StatusOK
<1>17. ASSUME NEW r \in Record, Fatal(r) PROVE OK'
  <2>1. stray' \in [Record -> Nat]
    BY <1>17 DEF Fatal, TargetOK
  <2>. QED
    BY <1>17, <2>1, LedgerKept, ForgetOK, ForgetPlans, AbortedIsEnded
    DEF Fatal, StatusOK, TargetOK
<1>18. ASSUME NEW r \in Record, StrayCreate(r) \/ StrayLost(r) PROVE OK'
  <2>1. stray' \in [Record -> Nat]
    BY <1>18 DEF StrayCreate, StrayLost, TargetOK
  <2>2. MemoryOK' /\ ReadyIsPlanned'
    BY <1>18, MemoryKept DEF StrayCreate, StrayLost
  <2>. QED
    BY <1>18, <1>12, <2>1, <2>2, LedgerKept DEF StrayCreate, StrayLost, TargetOK, StatusOK
<1>19. ASSUME NEW r \in Record, Persist(r) PROVE OK'
  <2>1. Result(r) \in Row
    BY <1>19, ResultIsRow DEF Persist
  <2>2. row' \in [Record -> Row]
    BY <1>19, <2>1, SetRowOK DEF Persist
  <2>3. LedgerOK'
    BY <1>19, <2>2 DEF Persist, LedgerOK
  <2>4. step' \in [Record -> Step] /\ ReadyIsPlanned'
    BY <1>19, <1>11 DEF Persist
  <2>. QED
    BY <1>19, <2>3, <2>4, TargetKept DEF Persist, StatusOK
<1>20. ASSUME EndPage PROVE OK'
  <2>1. MemoryOK' /\ ReadyIsPlanned'
    <3>1. CASE Forget
      BY <3>1, ForgetOK, ForgetPlans
    <3>2. CASE ~Forget
      BY <1>20, <3>2, ProtocolAssumption DEF EndPage, Step, Plan, NoPlan
    <3>. QED
      BY <3>1, <3>2
  <2>. QED
    BY <1>20, <2>1, LedgerKept, TargetKept, AbortedIsEnded DEF EndPage, StatusOK
<1>21. ASSUME Pass2 PROVE MemoryOK' /\ ReadyIsPlanned' /\ status' = status
  BY <1>21, ProtocolAssumption DEF Pass2, Step, Plan, NoPlan
<1>22. ASSUME EndTable PROVE OK'
  BY <1>22, <1>21, LedgerKept, TargetKept DEF EndTable, StatusOK
<1>23. ASSUME PageFails PROVE OK'
  BY <1>23, <1>21, TargetKept DEF PageFails, StatusOK, LedgerOK
<1>24. ASSUME NEW r \in Record, SetReference(r) PROVE OK'
  BY <1>24, MemoryKept, LedgerKept DEF SetReference, StatusOK, TargetOK
<1>25. ASSUME NEW r \in Record, NEW as \in {"RESOLVED", "INCOMPLETE", "FAILED"},
              RecordDeferred(r, as)
       PROVE  OK'
  <2>1. [row[r] EXCEPT !.def = as] \in Row
    <3>1. row[r] \in Row
      BY DEF LedgerOK
    <3>. QED
      BY <3>1 DEF Row
  <2>2. row' \in [Record -> Row]
    BY <1>25, <2>1, SetRowOK DEF RecordDeferred
  <2>3. cursor' \in 0 .. NumRecords
    BY <1>25, ProtocolAssumption DEF RecordDeferred, Record
  <2>4. LedgerOK'
    BY <1>25, <2>2 DEF RecordDeferred, LedgerOK
  <2>. QED
    BY <1>25, <2>3, <2>4, TargetKept DEF RecordDeferred, StatusOK
<1>26. ASSUME Finish PROVE OK'
  BY <1>26, LedgerKept, TargetKept, ForgetOK, ForgetPlans, RunOutcomeIsEnded DEF Finish, StatusOK
<1>27. ASSUME NEW r \in Record, ReconcileByHand(r) PROVE OK'
  <2>1. Seen(r) \subseteq TargetId
    BY FoundIsTarget DEF Seen, TargetId
  <2>2. \A t \in TargetId \cup {None} :
          /\ [row[r] EXCEPT !.outcome = "CREATED", !.ws = "CONFIRMED", !.tid = t] \in Row
          /\ [row[r] EXCEPT !.outcome = "FAILED", !.ws = "NONE", !.tid = None] \in Row
    <3>1. row[r] \in Row
      BY DEF LedgerOK
    <3>. QED
      BY <3>1 DEF Row, Outcome
  <2>3. row' \in [Record -> Row]
    BY <1>27, <2>1, <2>2, SetRowOK DEF ReconcileByHand
  <2>4. LedgerOK' /\ StatusOK'
    BY <1>27, <2>3 DEF ReconcileByHand, LedgerOK, StatusOK, Ended
  <2>. QED
    BY <1>27, <2>4, MemoryKept DEF ReconcileByHand, Concluded, TargetOK
<1>28. ASSUME Retry \/ Resume PROVE OK'
  BY <1>28, MemoryKept, LedgerKept, TargetKept DEF Retry, Resume, StatusOK
<1>29. ASSUME UNCHANGED vars PROVE OK'
  BY <1>29, MemoryKept, LedgerKept, TargetKept DEF vars, StatusOK
<1>. QED
  BY <1>1, <1>2, <1>3, <1>4, <1>5, <1>6, <1>7, <1>8, <1>9, <1>10, <1>13, <1>14, <1>15,
     <1>16, <1>17, <1>18, <1>19, <1>20, <1>22, <1>23, <1>24, <1>25, <1>26, <1>27, <1>28, <1>29
  DEF Next, ExecutionStep, RecordStep, Disturbance, Request

LEMMA TypeInit == Init => TypeInv
<1>1. NumRecords \in Nat /\ MaxTries \in Nat
  BY ProtocolAssumption
<1>2. ASSUME Init PROVE MemoryOK /\ ReadyIsPlanned
  <2>1. plan \in [Record -> Plan] /\ step \in [Record -> Step]
    BY <1>2 DEF Init, NoPlan, Plan, Step
  <2>2. tries \in [Record -> 0 .. MaxTries] /\ cursor \in 0 .. NumRecords
    BY <1>1, <1>2 DEF Init
  <2>3. stage \in Stage /\ todo \subseteq Record /\ seen \subseteq Record /\ stuck \in BOOLEAN
    BY <1>2 DEF Init, Stage
  <2>. QED
    BY <1>2, <2>1, <2>2, <2>3 DEF Init, MemoryOK, ReadyIsPlanned
<1>3. ASSUME Init PROVE LedgerOK /\ TargetOK /\ StatusOK
  BY <1>3, NoRowIsRow DEF Init, LedgerOK, TargetOK, StatusOK
<1>. QED
  BY <1>2, <1>3, TypeParts DEF TypeInv

LEMMA TypeInvariant == Spec => []TypeInv
BY TypeInit, TypeStep, PTL DEF Spec

(* Every variable keeps its type, and an intent names a create or an       *)
(* update, for all values of the constants.                                *)
THEOREM TypeCorrect == Spec => []TypeOK
<1>1. TypeInv => TypeOK
  BY DEF TypeInv
<1>. QED
  BY <1>1, TypeInvariant, PTL

-----------------------------------------------------------------------------
(* The inductive invariant behind AtMostOneCopy, part by part.             *)

Doubtful(x) == x.ws \in {"INTENDED", "UNKNOWN", "RECONCILIATION_REQUIRED"}

(* What the row x says of a record the target holds c times, while s       *)
(* creates of it are still under way: one of them all in all, and then it  *)
(* is CREATED, or in doubt as a create; in doubt while it is under way.    *)
Claims(x, c, s) ==
  /\ c + s \in {0, 1}
  /\ c + s = 1 => \/ x.outcome = "CREATED"
                  \/ Doubtful(x) /\ x.op = "CREATE"
  /\ s = 1 => Doubtful(x) /\ x.op = "CREATE"

Accounted == \A r \in Record \ loose : Claims(row[r], copies[r], stray[r])

(* A row in doubt says what was meant and what could identify it.          *)
Describes(r, x) ==
  Doubtful(x) =>
    /\ x.outcome = "UNRESOLVED"
    /\ \/ x.op = "CREATE" /\ x.ev = Evidence[r]
       \/ x.op = "UPDATE" /\ x.ev = "RECORDED_TARGET_ID"

DoubtIsDescribed == \A r \in Record : Describes(r, row[r])

(* What the target keeps unique it holds once, whatever is sent to it.     *)
EnforcedOnce == \A r \in Record : Enforced(r) => copies[r] <= 1

(* The page, between the decision and the intent: nothing of it is in      *)
(* doubt.                                                                  *)
DecidedIsPending ==
  stage = "decided" =>
    \A r \in Record :
      /\ step[r] \in {"idle", "ready", "FAILED", "SKIPPED"}
      /\ step[r] # "idle" => Pending(r)
      /\ step[r] = "ready" => plan[r].do \in {"CREATE", "UPDATE"}

(* The page, after the intent: what is still to be written, being written  *)
(* or newly created is INTENDED; no result replaces a row that says        *)
(* CREATED already; and each says whether the target holds the record.     *)
ActIsIntended ==
  stage = "act" =>
    \A r \in Record :
      /\ step[r] \in {"ready", "sent"} => row[r].ws = "INTENDED" /\ row[r].op = plan[r].do
      /\ step[r] \in {"UNRESOLVED", "CREATED"} => row[r].ws = "INTENDED" /\ row[r].op = "CREATE"
      /\ step[r] \notin {"idle", "saved"} => row[r].outcome # "CREATED"
      /\ r \notin loose /\ step[r] \in {"ready", "sent", "UPDATED", "SKIPPED", "FAILED"}
           => copies[r] + stray[r] = 0
      /\ r \notin loose /\ step[r] = "CREATED" => copies[r] = 1 /\ stray[r] = 0

(* Memory and status agree on whether an execution is in progress.         *)
InPlace ==
  /\ stage # "none" => status = "RUNNING"
  /\ stage \notin {"decided", "act"} => \A r \in Record : step[r] = "idle"
  /\ stage = "reconcile" => \A r \in todo : InDoubt(r)

IInv ==
  /\ Accounted
  /\ DoubtIsDescribed
  /\ EnforcedOnce
  /\ DecidedIsPending
  /\ ActIsIntended
  /\ InPlace

LEMMA TypeOKNats ==
  ASSUME TypeOK
  PROVE  \A r \in Record : copies[r] \in Nat /\ stray[r] \in Nat
BY DEF TypeOK

LEMMA DoubtIsInDoubt == \A r \in Record : InDoubt(r) <=> Doubtful(row[r])
BY DEF InDoubt, Doubtful

(* A pending record has not been created, and will not be.                 *)
LEMMA PendingIsAbsent ==
  ASSUME TypeOK, IInv, NEW r \in Record \ loose, Pending(r)
  PROVE  copies[r] + stray[r] = 0
<1>1. Claims(row[r], copies[r], stray[r]) /\ Describes(r, row[r])
  BY DEF IInv, Accounted, DoubtIsDescribed
<1>2. ~Doubtful(row[r]) /\ row[r].outcome # "CREATED"
  BY <1>1, DoubtIsInDoubt DEF Pending, Describes
<1>. QED
  BY <1>1, <1>2 DEF Claims

(* Steps outside a page that leave the rows and the target alone.          *)
LEMMA OutsidePage ==
  ASSUME IInv, UNCHANGED <<row, copies, stray, loose>>,
         stage' \notin {"decided", "act"}, \A r \in Record : step'[r] = "idle",
         stage' # "none" => status' = "RUNNING",
         stage' = "reconcile" => \A r \in todo' : InDoubt(r)
  PROVE  IInv'
BY DEF IInv, Accounted, DoubtIsDescribed, EnforcedOnce, DecidedIsPending, ActIsIntended,
       InPlace, InDoubt

LEMMA ForgetLeaves ==
  ASSUME IInv, UNCHANGED <<row, copies, stray, loose>>, Forget
  PROVE  IInv'
<1>1. stage' = "none" /\ \A r \in Record : step'[r] = "idle"
  BY DEF Forget
<1>. QED
  BY <1>1, OutsidePage

LEMMA Pass2Leaves ==
  ASSUME IInv, UNCHANGED <<row, copies, stray, loose>>, stage # "none", Pass2
  PROVE  IInv'
<1>1. /\ stage' = "deferred" /\ \A r \in Record : step'[r] = "idle"
      /\ status' = status
  BY DEF Pass2
<1>2. status = "RUNNING"
  BY DEF IInv, InPlace
<1>. QED
  BY <1>1, <1>2, OutsidePage

(* Steps outside a page that write one row.                                *)
LEMMA OneRow ==
  ASSUME TypeOK, IInv, NEW r \in Record, NEW new, SetRow(r, new), Describes(r, new),
         loose \subseteq loose', r \notin loose' => Claims(new, copies[r], stray[r]),
         UNCHANGED <<copies, stray, step, stage>>, stage \notin {"decided", "act"},
         stage # "none" => status' = "RUNNING",
         stage = "reconcile" => todo' = todo \ {r}
  PROVE  IInv'
<1>1. /\ row'[r] = new /\ \A q \in Record \ {r} : row'[q] = row[q]
  BY DEF TypeOK, SetRow
<1>2. Accounted' /\ DoubtIsDescribed' /\ EnforcedOnce'
  BY <1>1 DEF IInv, Accounted, DoubtIsDescribed, EnforcedOnce
<1>3. stage' = "reconcile" => \A q \in todo' : InDoubt(q)'
  BY <1>1 DEF IInv, InPlace, InDoubt, TypeOK
<1>4. InPlace'
  BY <1>3 DEF IInv, InPlace
<1>. QED
  BY <1>2, <1>4 DEF IInv, DecidedIsPending, ActIsIntended

(* Reconciliation concludes "not there" only of what is not there.         *)
LEMMA NotFoundIsAbsent ==
  ASSUME TypeOK, IInv, NEW r \in Record \ loose, InDoubt(r), ~NoEvidence(r), Found(r) = {}
  PROVE  copies[r] = 0
<1>. SUFFICES ASSUME copies[r] # 0 PROVE FALSE
  OBVIOUS
<1>1. Claims(row[r], copies[r], stray[r]) /\ Describes(r, row[r]) /\ Doubtful(row[r])
  BY DoubtIsInDoubt DEF IInv, Accounted, DoubtIsDescribed
<1>2. copies[r] \in Nat /\ stray[r] \in Nat
  BY DEF TypeOK
<1>3. row[r].op = "CREATE" /\ row[r].ev = Evidence[r]
  BY <1>1, <1>2 DEF Claims, Describes
<1>4. Evidence[r] \in {"PRESERVED_ID", "ALTERNATE_KEY", "BUSINESS_KEY"}
  BY <1>3, ProtocolAssumption DEF NoEvidence
<1>5. <<"new", r>> \in Found(r)
  BY <1>2, <1>4 DEF Found, Keyed
<1>. QED
  BY <1>5

(* What the target keeps unique is created when it holds nothing of it.    *)
LEMMA CreateOfUnique ==
  ASSUME TypeOK, IInv, NEW r \in Record, Create(r), ~Duplicate(r)
  PROVE  EnforcedOnce'
<1>1. /\ copies'[r] = copies[r] + 1 /\ copies[r] \in Nat
      /\ \A q \in Record \ {r} : copies'[q] = copies[q]
  BY DEF Create, TypeOK
<1>2. Enforced(r) => copies[r] = 0
  <2>1. copies[r] # 0 => <<"new", r>> \in Found(r) \/ ~Enforced(r)
    BY <1>1 DEF Found, Enforced, Keyed
  <2>. QED
    BY <2>1 DEF Duplicate
<1>. QED
  BY <1>1, <1>2 DEF IInv, EnforcedOnce, Enforced

(* Steps inside a page that only move one record along, or leave it where  *)
(* it is.                                                                  *)
LEMMA OneStep ==
  ASSUME TypeOK, IInv, stage = "act", NEW r \in Record, NEW to \in Step,
         step[r] \in {"ready", "sent"}, step'[r] = to,
         \A q \in Record \ {r} : step'[q] = step[q],
         UNCHANGED <<status, stage, plan, row>>, loose \subseteq loose',
         \A q \in Record \ {r} : copies'[q] = copies[q] /\ stray'[q] = stray[q],
         EnforcedOnce',
         to \in {"ready", "sent"} => row[r].ws = "INTENDED" /\ row[r].op = plan[r].do,
         to \in {"UNRESOLVED", "CREATED"} => row[r].ws = "INTENDED" /\ row[r].op = "CREATE",
         r \notin loose' =>
           /\ Claims(row[r], copies'[r], stray'[r])
           /\ to \in {"ready", "sent", "UPDATED", "SKIPPED", "FAILED"}
                => copies'[r] + stray'[r] = 0
           /\ to = "CREATED" => copies'[r] = 1 /\ stray'[r] = 0
  PROVE  IInv'
<1>1. Accounted' /\ DoubtIsDescribed'
  BY DEF IInv, Accounted, DoubtIsDescribed
<1>2. ActIsIntended'
  <2>. SUFFICES ASSUME NEW q \in Record
                PROVE  /\ step'[q] \in {"ready", "sent"} =>
                            row[q].ws = "INTENDED" /\ row[q].op = plan[q].do
                       /\ step'[q] \in {"UNRESOLVED", "CREATED"} =>
                            row[q].ws = "INTENDED" /\ row[q].op = "CREATE"
                       /\ step'[q] \notin {"idle", "saved"} => row[q].outcome # "CREATED"
                       /\ q \notin loose'
                            /\ step'[q] \in {"ready", "sent", "UPDATED", "SKIPPED", "FAILED"}
                            => copies'[q] + stray'[q] = 0
                       /\ q \notin loose' /\ step'[q] = "CREATED"
                            => copies'[q] = 1 /\ stray'[q] = 0
    BY DEF ActIsIntended
  <2>1. CASE q = r
    BY <2>1 DEF IInv, ActIsIntended
  <2>2. CASE q # r
    BY <2>2 DEF IInv, ActIsIntended
  <2>. QED
    BY <2>1, <2>2
<1>3. DecidedIsPending' /\ InPlace'
  BY DEF IInv, DecidedIsPending, InPlace
<1>. QED
  BY <1>1, <1>2, <1>3 DEF IInv

(* Every step keeps the invariant: one step of the proof per action.       *)
LEMMA SafeStep == TypeInv /\ IInv /\ [Next]_vars => IInv'
<1>. SUFFICES ASSUME TypeOK, ReadyIsPlanned, IInv, [Next]_vars
              PROVE  IInv'
  BY DEF TypeInv
<1>. USE DEF target, ledger, execution
<1>1. ASSUME Start PROVE IInv'
  <2>1. \A r \in Record : step[r] = "idle"
    BY <1>1 DEF Start, IInv, InPlace
  <2>. QED
    BY <1>1, <2>1, OutsidePage DEF Start
<1>2. ASSUME Abort PROVE IInv'
  BY <1>2, ForgetLeaves DEF Abort
<1>3. ASSUME Crash PROVE IInv'
  BY <1>3, ForgetLeaves DEF Crash
<1>4. ASSUME NEW as \in {"CANCELLED", "PAUSED"}, Interrupt(as) PROVE IInv'
  BY <1>4, ForgetLeaves DEF Interrupt
<1>5. ASSUME OpenTable PROVE IInv'
  <2>1. \A r \in Record : step[r] = "idle"
    BY <1>5 DEF OpenTable, IInv, InPlace
  <2>2. status = "RUNNING"
    BY <1>5 DEF OpenTable, IInv, InPlace
  <2>3. \A r \in todo' : InDoubt(r)
    BY <1>5 DEF OpenTable, InDoubt
  <2>. QED
    BY <1>5, <2>1, <2>2, <2>3, OutsidePage DEF OpenTable
<1>6. ASSUME NEW r \in Record, Reconcile(r) PROVE IInv'
  <2>1. InDoubt(r) /\ status' = "RUNNING" /\ todo' = todo \ {r}
    BY <1>6 DEF Reconcile, IInv, InPlace
  <2>. DEFINE Settled(o, w, t) == [row[r] EXCEPT !.outcome = o, !.ws = w,
                                                 !.tid = IF t = None THEN @ ELSE t]
  <2>2. row[r] \in Row /\ copies[r] \in Nat /\ stray[r] \in Nat
    BY DEF TypeOK
  <2>3. ASSUME NEW o, NEW w, NEW t
        PROVE  /\ Settled(o, w, t).outcome = o /\ Settled(o, w, t).ws = w
               /\ Settled(o, w, t).op = row[r].op /\ Settled(o, w, t).ev = row[r].ev
    BY <2>2 DEF Row
  <2>4. ASSUME NEW o, NEW w, NEW t, Settle(r, o, w, t), Describes(r, Settled(o, w, t)),
               r \notin loose' => Claims(Settled(o, w, t), copies[r], stray[r])
        PROVE  IInv'
    <3>1. SetRow(r, Settled(o, w, t))
      BY <2>4 DEF Settle
    <3>2. /\ UNCHANGED <<copies, stray, step, stage>> /\ stage \notin {"decided", "act"}
          /\ loose \subseteq loose'
      BY <1>6 DEF Reconcile, Concluded
    <3>. HIDE DEF Settled
    <3>. QED
      BY <2>1, <2>4, <3>1, <3>2, OneRow
  <2>. HIDE DEF Settled
  <2>5. Describes(r, row[r]) /\ Doubtful(row[r])
    BY <2>1, DoubtIsInDoubt DEF IInv, DoubtIsDescribed
  <2>6. r \notin loose => Claims(row[r], copies[r], stray[r])
    BY DEF IInv, Accounted
  <2>7. r \notin loose /\ row[r].op = "UPDATE" => copies[r] + stray[r] = 0
    BY <2>2, <2>5, <2>6 DEF Claims, Describes
  <2>8. CASE ~NeedsSearch(r)
    <3>1. Settle(r, "FAILED", "NONE", None) /\ UNCHANGED loose
      BY <1>6, <2>8 DEF Reconcile
    <3>2. row[r].op = "UPDATE"
      BY <2>8 DEF NeedsSearch
    <3>3. r \notin loose' => Claims(Settled("FAILED", "NONE", None), copies[r], stray[r])
      BY <2>2, <2>3, <2>7, <3>1, <3>2 DEF Claims, Doubtful
    <3>. QED
      BY <3>1, <3>3, <2>3, <2>4 DEF Describes, Doubtful
  <2>9. CASE Settle(r, "UNRESOLVED", "RECONCILIATION_REQUIRED", None) /\ UNCHANGED loose
    <3>1. r \notin loose' =>
            Claims(Settled("UNRESOLVED", "RECONCILIATION_REQUIRED", None), copies[r], stray[r])
      BY <2>3, <2>5, <2>6, <2>9 DEF Claims, Doubtful, Describes
    <3>2. Describes(r, Settled("UNRESOLVED", "RECONCILIATION_REQUIRED", None))
      BY <2>3, <2>5 DEF Describes, Doubtful
    <3>. QED
      BY <2>9, <3>1, <3>2, <2>4
  <2>. DEFINE Searched == NeedsSearch(r) /\ ~NoEvidence(r) /\ Concluded(r)
  <2>10. Searched /\ r \notin loose' => r \notin loose /\ stray[r] = 0
    BY <2>2 DEF Concluded
  <2>11. CASE Searched /\ Found(r) = {} /\ Settle(r, "FAILED", "NONE", None)
    <3>1. r \notin loose' => copies[r] = 0 /\ stray[r] = 0
      BY <2>1, <2>10, <2>11, NotFoundIsAbsent
    <3>2. r \notin loose' => Claims(Settled("FAILED", "NONE", None), copies[r], stray[r])
      BY <2>3, <3>1 DEF Claims, Doubtful
    <3>. QED
      BY <2>11, <3>2, <2>3, <2>4 DEF Describes, Doubtful
  <2>. DEFINE o == IF row[r].op = "UPDATE" THEN "UPDATED" ELSE "CREATED"
  <2>12. CASE Searched /\ \E t \in Found(r) : Settle(r, o, "CONFIRMED", t)
    <3>1. PICK t \in Found(r) : Settle(r, o, "CONFIRMED", t)
      BY <2>12
    <3>2. r \notin loose' => Claims(Settled(o, "CONFIRMED", t), copies[r], stray[r])
      BY <2>2, <2>3, <2>6, <2>7, <2>10, <2>12 DEF Claims, Doubtful
    <3>. QED
      BY <3>1, <3>2, <2>3, <2>4 DEF Describes, Doubtful
  <2>. QED
    BY <1>6, <2>8, <2>9, <2>11, <2>12 DEF Reconcile
<1>7. ASSUME Reconciled PROVE IInv'
  <2>1. CASE Forget
    BY <1>7, <2>1, ForgetLeaves DEF Reconciled
  <2>2. CASE ~Forget
    <3>1. stage' = "read" /\ status' = "RUNNING" /\ \A r \in Record : step'[r] = "idle"
      BY <1>7, <2>2 DEF Reconciled, IInv, InPlace
    <3>. QED
      BY <1>7, <3>1, OutsidePage DEF Reconciled
  <2>. QED
    BY <2>1, <2>2
<1>8. ASSUME Decide PROVE IInv'
  <2>. DEFINE last == IF cursor + PageSize < NumRecords
                      THEN cursor + PageSize ELSE NumRecords
              page == {r \in cursor + 1 .. last : Pending(r)}
  <2>1. \A r \in page : Pending(r)
    OBVIOUS
  <2>2. \A r \in Record : Decision(r, page).do \in {"CREATE", "UPDATE", "SKIP", "REFUSE"}
    BY DecisionIsPlan
  <2>. HIDE DEF page
  <2>3. plan' = [r \in Record |-> IF r \in page THEN Decision(r, page) ELSE NoPlan]
    BY <1>8 DEF Decide, page
  <2>4. step' = [r \in Record |->
                   IF r \notin page THEN "idle"
                   ELSE CASE Decision(r, page).do = "REFUSE" -> "FAILED"
                          [] Decision(r, page).do = "SKIP" -> "SKIPPED"
                          [] OTHER -> "ready"]
    BY <1>8 DEF Decide, page
  <2>5. /\ stage' = IF page = {} THEN "read" ELSE "decided"
        /\ status' = "RUNNING" /\ UNCHANGED <<row, copies, stray, loose>>
    BY <1>8 DEF Decide, page, IInv, InPlace
  <2>6. Accounted' /\ DoubtIsDescribed' /\ EnforcedOnce' /\ ActIsIntended'
    BY <2>5 DEF IInv, Accounted, DoubtIsDescribed, EnforcedOnce, ActIsIntended
  <2>7. DecidedIsPending'
    BY <2>1, <2>2, <2>3, <2>4, <2>5 DEF DecidedIsPending, Pending, InDoubt
  <2>8. InPlace'
    <3>1. page = {} => \A r \in Record : step'[r] = "idle"
      BY <2>4
    <3>. QED
      BY <2>5, <3>1 DEF IInv, InPlace
  <2>. QED
    BY <2>6, <2>7, <2>8 DEF IInv
<1>9. ASSUME Intend PROVE IInv'
  <2>1. \A r \in Record :
          /\ step[r] \in {"idle", "ready", "FAILED", "SKIPPED"}
          /\ step[r] # "idle" /\ r \notin loose => copies[r] + stray[r] = 0
          /\ step[r] # "idle" => row[r].outcome # "CREATED"
          /\ step[r] = "ready" => plan[r].do \in {"CREATE", "UPDATE"}
    BY <1>9, PendingIsAbsent DEF Intend, IInv, DecidedIsPending, Pending
  <2>2. \A r \in Record : step[r] # "ready" => row'[r] = row[r]
    BY <1>9 DEF Intend
  <2>3. ASSUME NEW r \in Record, step[r] = "ready"
        PROVE  /\ row'[r].outcome = "UNRESOLVED" /\ row'[r].ws = "INTENDED"
               /\ row'[r].op = plan[r].do
               /\ row'[r].ev = IF plan[r].do = "UPDATE" THEN "RECORDED_TARGET_ID" ELSE Evidence[r]
    BY <1>9, <2>3 DEF Intend, Intent
  <2>4. UNCHANGED <<copies, stray, loose, step, plan, status>> /\ stage' = "act" /\ stage = "decided"
    BY <1>9 DEF Intend
  <2>5. DoubtIsDescribed'
    <3>1. ASSUME NEW r \in Record, step[r] = "ready" PROVE Describes(r, row'[r])
      BY <2>1, <2>3, <3>1 DEF Describes
    <3>. QED
      BY <2>2, <3>1 DEF IInv, DoubtIsDescribed, Describes
  <2>6. Accounted'
    <3>1. ASSUME NEW r \in Record \ loose, step[r] = "ready"
          PROVE  Claims(row'[r], copies[r], stray[r])
      BY <2>1, <3>1, TypeOKNats DEF Claims
    <3>. QED
      BY <2>2, <2>4, <3>1 DEF IInv, Accounted
  <2>7. ActIsIntended'
    BY <2>1, <2>2, <2>3, <2>4 DEF ActIsIntended
  <2>. QED
    BY <2>4, <2>5, <2>6, <2>7 DEF IInv, EnforcedOnce, DecidedIsPending, InPlace
<1>10. \A r \in Record : step[r] \in {"ready", "sent"} => stage = "act" \/ stage = "decided"
  BY DEF IInv, InPlace
<1>. DEFINE Sent(r) == /\ stage = "act" /\ row[r].ws = "INTENDED"
                       /\ row[r].op = plan[r].do
                       /\ r \notin loose => copies[r] + stray[r] = 0
<1>11. \A r \in Record : step[r] = "sent" => Sent(r)
  <2>1. \A r \in Record : step[r] = "sent" => stage = "act"
    BY <1>10 DEF IInv, DecidedIsPending
  <2>. QED
    BY <2>1 DEF IInv, ActIsIntended
<1>12. ASSUME NEW r \in Record, NEW to \in Step, Advance(r, to)
       PROVE  step'[r] = to /\ \A q \in Record \ {r} : step'[q] = step[q]
  BY <1>12 DEF Advance, TypeOK
<1>13. ASSUME NEW r \in Record, Sent(r), NEW to \in Step, step[r] \in {"ready", "sent"},
              Advance(r, to), UNCHANGED <<status, stage, plan, row, copies, stray, loose>>,
              to \in {"sent", "UPDATED", "FAILED"}
       PROVE  IInv'
  <2>1. r \notin loose' => Claims(row[r], copies'[r], stray'[r]) /\ copies'[r] + stray'[r] = 0
    BY <1>13 DEF IInv, Accounted
  <2>2. EnforcedOnce'
    BY <1>13 DEF IInv, EnforcedOnce
  <2>. QED
    BY <1>12, <1>13, <2>1, <2>2, OneStep
<1>14. ASSUME NEW r \in Record, Create(r)
       PROVE  copies'[r] = copies[r] + 1 /\ \A q \in Record \ {r} : copies'[q] = copies[q]
  BY <1>14 DEF Create, TypeOK
<1>15. ASSUME NEW r \in Record, Send(r) PROVE IInv'
  <2>1. Sent(r) /\ step[r] = "ready"
    BY <1>15 DEF Send, IInv, ActIsIntended
  <2>. QED
    BY <1>13, <1>15, <2>1 DEF Send, Step
<1>16. ASSUME NEW r \in Record, Accept(r) PROVE IInv'
  <2>1. Sent(r) /\ step[r] = "sent" /\ plan[r].do = "CREATE"
    BY <1>11, <1>16 DEF Accept, Creating
  <2>2. Advance(r, "CREATED") /\ Create(r) /\ ~Duplicate(r)
        /\ UNCHANGED <<status, stage, plan, row, stray, loose>>
    BY <1>16 DEF Accept
  <2>3. r \notin loose' => /\ Claims(row[r], copies'[r], stray'[r])
                           /\ copies'[r] = 1 /\ stray'[r] = 0
    BY <1>14, <2>1, <2>2, TypeOKNats DEF Claims, Doubtful
  <2>. QED
    BY <1>12, <1>14, <2>1, <2>2, <2>3, CreateOfUnique, OneStep DEF Step, Outcome
<1>17. ASSUME NEW r \in Record, AnswerLost(r) PROVE IInv'
  <2>1. Sent(r) /\ plan[r].do = "CREATE" /\ step[r] = "sent"
    BY <1>11, <1>17 DEF AnswerLost, Creating
  <2>2. /\ UNCHANGED <<status, stage, plan, row>> /\ loose \subseteq loose'
    BY <1>17 DEF AnswerLost, Repeated
  <2>3. \/ UNCHANGED <<copies, stray, loose>>
        \/ Create(r) /\ ~Duplicate(r) /\ UNCHANGED stray
        \/ stray' = [stray EXCEPT ![r] = @ + 1] /\ UNCHANGED copies
    BY <1>17 DEF AnswerLost
  <2>4. \A q \in Record \ {r} : copies'[q] = copies[q] /\ stray'[q] = stray[q]
    BY <1>14, <2>3 DEF TypeOK
  <2>5. EnforcedOnce'
    BY <2>3, CreateOfUnique DEF IInv, EnforcedOnce
  <2>6. r \notin loose' => Claims(row[r], copies'[r], stray'[r])
    <3>1. \/ copies'[r] = copies[r] /\ stray'[r] = stray[r]
          \/ copies'[r] = copies[r] /\ stray'[r] = stray[r] + 1
          \/ copies'[r] = copies[r] + 1 /\ stray'[r] = stray[r]
      BY <1>14, <2>3 DEF TypeOK
    <3>. QED
      BY <2>1, <2>2, <3>1, TypeOKNats DEF Claims, Doubtful
  <2>7. CASE MayTryAgain(r)
    <3>1. UNCHANGED step
      BY <1>17, <2>7 DEF AnswerLost, AgainOrLost
    <3>2. UNCHANGED <<copies, stray>> \/ r \in loose'
      BY <1>17, <2>7 DEF AnswerLost, Repeated
    <3>. QED
      BY <2>1, <2>2, <2>4, <2>5, <2>6, <3>1, <3>2, OneStep DEF Step
  <2>8. CASE ~MayTryAgain(r)
    <3>1. Advance(r, "UNRESOLVED")
      BY <1>17, <2>8 DEF AnswerLost, AgainOrLost, Lost
    <3>. QED
      BY <1>12, <2>1, <2>2, <2>4, <2>5, <2>6, <3>1, OneStep DEF Step, Outcome
  <2>. QED
    BY <2>7, <2>8
<1>18. ASSUME NEW r \in Record, Refuse(r) PROVE IInv'
  <2>1. Sent(r) /\ step[r] = "sent"
    BY <1>11, <1>18 DEF Refuse, Creating
  <2>. QED
    BY <1>13, <1>18, <2>1 DEF Refuse, Step, Outcome
<1>19. ASSUME NEW r \in Record, Update(r) PROVE IInv'
  <2>1. Sent(r) /\ step[r] = "sent"
    BY <1>11, <1>19 DEF Update
  <2>2. PICK to \in {"UPDATED", "FAILED"} : Advance(r, to)
    BY <1>19 DEF Update
  <2>. QED
    BY <1>13, <1>19, <2>1, <2>2 DEF Update, Step, Outcome
<1>20. ASSUME NEW r \in Record, Fatal(r) PROVE IInv'
  <2>. DEFINE left == {q \in Record \ {r} : step[q] \in {"ready", "sent"} /\ plan[q].do = "CREATE"}
  <2>1. /\ UNCHANGED <<row, copies, loose>> /\ Forget /\ stage = "act"
        /\ \A q \in Record \ left : stray'[q] = stray[q]
        /\ \A q \in left : stray'[q] = stray[q] + 1
    BY <1>11, <1>20 DEF Fatal, TypeOK
  <2>2. \A q \in left : /\ row[q].ws = "INTENDED" /\ row[q].op = "CREATE"
                        /\ q \notin loose => copies[q] + stray[q] = 0
    BY <2>1 DEF IInv, ActIsIntended
  <2>3. ASSUME NEW q \in left \ loose PROVE Claims(row[q], copies[q], stray'[q])
    <3>1. copies[q] = 0 /\ stray'[q] = 1
      BY <2>1, <2>2, TypeOKNats
    <3>. QED
      BY <2>2, <3>1 DEF Claims, Doubtful
  <2>4. Accounted'
    BY <2>1, <2>3 DEF IInv, Accounted
  <2>5. stage' = "none" /\ todo' = {} /\ \A q \in Record : step'[q] = "idle"
    BY <2>1 DEF Forget
  <2>. QED
    BY <2>1, <2>4, <2>5
    DEF IInv, DoubtIsDescribed, EnforcedOnce, DecidedIsPending, ActIsIntended, InPlace
<1>21. ASSUME NEW r \in Record, stray[r] > 0, stray' = [stray EXCEPT ![r] = @ - 1],
              Create(r) \/ UNCHANGED copies, EnforcedOnce',
              UNCHANGED <<status, execution, row, loose>>
       PROVE  IInv'
  <2>1. /\ stray'[r] = stray[r] - 1 /\ copies'[r] \in {copies[r], copies[r] + 1}
        /\ \A q \in Record \ {r} : copies'[q] = copies[q] /\ stray'[q] = stray[q]
    BY <1>14, <1>21 DEF TypeOK
  <2>2. r \notin loose => /\ copies[r] = 0 /\ stray[r] = 1
                          /\ Doubtful(row[r]) /\ row[r].op = "CREATE"
    <3>1. r \notin loose => Claims(row[r], copies[r], stray[r])
      BY DEF IInv, Accounted
    <3>. QED
      BY <1>21, <3>1, TypeOKNats DEF Claims
  <2>3. Accounted'
    BY <1>21, <2>1, <2>2 DEF IInv, Accounted, Claims
  <2>4. ActIsIntended'
    <3>. SUFFICES ASSUME stage = "act", NEW q \in Record \ loose
                  PROVE  /\ step[q] \in {"ready", "sent", "UPDATED", "SKIPPED", "FAILED"}
                              => copies'[q] + stray'[q] = 0
                         /\ step[q] = "CREATED" => copies'[q] = 1 /\ stray'[q] = 0
      BY <1>21 DEF IInv, ActIsIntended
    <3>1. /\ step[q] \in {"ready", "sent", "UPDATED", "SKIPPED", "FAILED"}
               => copies[q] + stray[q] = 0
          /\ step[q] = "CREATED" => copies[q] = 1 /\ stray[q] = 0
      BY DEF IInv, ActIsIntended
    <3>. QED
      BY <2>1, <2>2, <3>1
  <2>. QED
    BY <1>21, <2>3, <2>4
    DEF IInv, DoubtIsDescribed, DecidedIsPending, InPlace, Pending, InDoubt
<1>22. ASSUME NEW r \in Record, StrayCreate(r) PROVE IInv'
  BY <1>21, <1>22, CreateOfUnique DEF StrayCreate
<1>23. ASSUME NEW r \in Record, StrayLost(r) PROVE IInv'
  BY <1>21, <1>23 DEF StrayLost, IInv, EnforcedOnce
<1>24. ASSUME NEW r \in Record, Persist(r) PROVE IInv'
  <2>1. /\ stage = "act" /\ step[r] \in Outcome
        /\ UNCHANGED <<copies, stray, loose, stage, status, plan>>
    BY <1>24 DEF Persist
  <2>2. step'[r] = "saved" /\ \A q \in Record \ {r} : step'[q] = step[q]
    BY <1>24 DEF Persist, Advance, TypeOK
  <2>3. row'[r] = Result(r) /\ \A q \in Record \ {r} : row'[q] = row[q]
    BY <1>24 DEF Persist, SetRow, TypeOK
  <2>4. step[r] = "UNRESOLVED" => row[r].ev = Evidence[r]
    BY <2>1 DEF IInv, ActIsIntended, DoubtIsDescribed, Describes, Doubtful
  <2>5. Describes(r, Result(r))
    BY <2>1, <2>4 DEF Result, Describes, Doubtful, Outcome
  <2>6. r \notin loose => Claims(Result(r), copies[r], stray[r])
    <3>1. r \notin loose => Claims(row[r], copies[r], stray[r])
      BY DEF IInv, Accounted
    <3>2. r \notin loose /\ step[r] \in {"UPDATED", "SKIPPED", "FAILED"} => copies[r] + stray[r] = 0
      BY <2>1 DEF IInv, ActIsIntended
    <3>3. r \notin loose /\ step[r] = "CREATED" => stray[r] = 0
      BY <2>1 DEF IInv, ActIsIntended
    <3>4. CASE step[r] \in {"UPDATED", "SKIPPED", "FAILED"}
      BY <3>2, <3>4, TypeOKNats DEF Claims
    <3>5. CASE step[r] = "CREATED"
      BY <3>1, <3>3, <3>5, TypeOKNats DEF Claims, Result
    <3>6. CASE step[r] = "UNRESOLVED"
      BY <3>1, <3>6, TypeOKNats DEF Claims, Result, Doubtful
    <3>. QED
      BY <2>1, <3>4, <3>5, <3>6 DEF Outcome
  <2>7. Accounted' /\ DoubtIsDescribed'
    BY <2>1, <2>3, <2>5, <2>6 DEF IInv, Accounted, DoubtIsDescribed
  <2>8. ActIsIntended'
    BY <2>1, <2>2, <2>3 DEF IInv, ActIsIntended
  <2>. QED
    BY <2>1, <2>7, <2>8 DEF IInv, EnforcedOnce, DecidedIsPending, InPlace
<1>25. ASSUME EndPage PROVE IInv'
  <2>1. CASE Forget
    BY <1>25, <2>1, ForgetLeaves DEF EndPage
  <2>2. CASE ~Forget
    <3>1. stage' = "read" /\ UNCHANGED status /\ \A r \in Record : step'[r] = "idle"
      BY <1>25, <2>2 DEF EndPage
    <3>2. stage # "none"
      BY <1>25 DEF EndPage, Saved, IInv, InPlace
    <3>3. status = "RUNNING"
      BY <3>2 DEF IInv, InPlace
    <3>. QED
      BY <1>25, <3>1, <3>3, OutsidePage DEF EndPage
  <2>. QED
    BY <2>1, <2>2
<1>26. ASSUME EndTable \/ PageFails PROVE IInv'
  BY <1>26, Pass2Leaves DEF EndTable, PageFails
<1>27. ASSUME NEW r \in Record, SetReference(r) PROVE IInv'
  BY <1>27 DEF SetReference, IInv, Accounted, DoubtIsDescribed, EnforcedOnce, DecidedIsPending,
               ActIsIntended, InPlace, InDoubt, Pending
<1>28. ASSUME NEW r \in Record, NEW as \in {"RESOLVED", "INCOMPLETE", "FAILED"},
              RecordDeferred(r, as)
       PROVE  IInv'
  <2>. DEFINE new == [row[r] EXCEPT !.def = as]
  <2>1. /\ SetRow(r, new) /\ stage = "deferred"
        /\ UNCHANGED <<copies, stray, loose, step, stage, status>>
    BY <1>28 DEF RecordDeferred, IsNext
  <2>2. /\ new.outcome = row[r].outcome /\ new.ws = row[r].ws
        /\ new.op = row[r].op /\ new.ev = row[r].ev
    BY DEF TypeOK, Row
  <2>. HIDE DEF new
  <2>3. Describes(r, new) /\ (r \notin loose => Claims(new, copies[r], stray[r]))
    BY <2>2 DEF IInv, Accounted, DoubtIsDescribed, Describes, Claims, Doubtful
  <2>4. status = "RUNNING"
    BY <2>1 DEF IInv, InPlace
  <2>. QED
    BY <2>1, <2>3, <2>4, OneRow
<1>29. ASSUME Finish PROVE IInv'
  BY <1>29, ForgetLeaves DEF Finish
<1>30. ASSUME NEW r \in Record, ReconcileByHand(r) PROVE IInv'
  <2>1. /\ stage = "none" /\ UNCHANGED <<copies, stray, step, stage>> /\ loose \subseteq loose'
        /\ r \notin loose' => r \notin loose /\ stray[r] = 0
    <3>1. stage = "none" /\ UNCHANGED <<copies, stray, execution>> /\ Concluded(r)
      BY <1>30 DEF ReconcileByHand, IInv, InPlace
    <3>. QED
      BY <3>1, TypeOKNats DEF Concluded
  <2>2. row[r] \in Row /\ (r \notin loose => Claims(row[r], copies[r], stray[r]))
    BY DEF TypeOK, IInv, Accounted
  <2>3. ASSUME NEW t, SetRow(r, [row[r] EXCEPT !.outcome = "CREATED", !.ws = "CONFIRMED", !.tid = t])
        PROVE  IInv'
    <3>. DEFINE new == [row[r] EXCEPT !.outcome = "CREATED", !.ws = "CONFIRMED", !.tid = t]
    <3>1. new.outcome = "CREATED" /\ new.ws = "CONFIRMED" /\ SetRow(r, new)
      BY <2>2, <2>3 DEF Row
    <3>. HIDE DEF new
    <3>2. Describes(r, new)
      BY <3>1 DEF Describes, Doubtful
    <3>3. r \notin loose' => Claims(new, copies[r], stray[r])
      BY <2>1, <2>2, <3>1 DEF Claims
    <3>. QED
      BY <2>1, <3>1, <3>2, <3>3, OneRow
  <2>4. ASSUME Seen(r) = {},
               SetRow(r, [row[r] EXCEPT !.outcome = "FAILED", !.ws = "NONE", !.tid = None])
        PROVE  IInv'
    <3>. DEFINE new == [row[r] EXCEPT !.outcome = "FAILED", !.ws = "NONE", !.tid = None]
    <3>1. copies[r] = 0
      <4>1. copies[r] > 0 => <<"new", r>> \in Seen(r)
        BY DEF Seen
      <4>. QED
        BY <2>4, <4>1, TypeOKNats
    <3>2. new.outcome = "FAILED" /\ new.ws = "NONE" /\ SetRow(r, new)
      BY <2>2, <2>4 DEF Row
    <3>. HIDE DEF new
    <3>3. Describes(r, new)
      BY <3>2 DEF Describes, Doubtful
    <3>4. r \notin loose' => Claims(new, copies[r], stray[r])
      BY <2>1, <3>1 DEF Claims
    <3>. QED
      BY <2>1, <3>2, <3>3, <3>4, OneRow
  <2>. QED
    BY <1>30, <2>3, <2>4 DEF ReconcileByHand
<1>31. ASSUME Retry \/ Resume PROVE IInv'
  <2>1. stage = "none"
    BY <1>31 DEF Retry, Resume, IInv, InPlace, Ended
  <2>2. \A r \in Record : step[r] = "idle"
    BY <2>1 DEF IInv, InPlace
  <2>. QED
    BY <1>31, <2>1, <2>2, OutsidePage DEF Retry, Resume
<1>32. ASSUME UNCHANGED vars PROVE IInv'
  BY <1>32 DEF vars, IInv, Accounted, DoubtIsDescribed, EnforcedOnce, DecidedIsPending,
               ActIsIntended, InPlace, InDoubt, Pending
<1>. QED
  BY <1>1, <1>2, <1>3, <1>4, <1>5, <1>6, <1>7, <1>8, <1>9, <1>15, <1>16, <1>17, <1>18, <1>19,
     <1>20, <1>22, <1>23, <1>24, <1>25, <1>26, <1>27, <1>28, <1>29, <1>30, <1>31, <1>32
  DEF Next, ExecutionStep, RecordStep, Disturbance, Request

LEMMA SafeInit == Init => IInv
BY DEF Init, IInv, Accounted, Claims, DoubtIsDescribed, Describes, Doubtful, EnforcedOnce,
       DecidedIsPending, ActIsIntended, InPlace, InDoubt, NoRow

LEMMA SafeInvariant == Spec => []IInv
BY SafeStep, SafeInit, TypeInvariant, PTL DEF Spec

(* No record is created twice unless its own create was sent again, or its *)
(* row settled, while an earlier create was executed or still might be,    *)
(* and never when the target keeps its key unique: for any source, key,    *)
(* strategy, evidence, width, retries, crash, late request and sequence of *)
(* requests.                                                               *)
THEOREM CreatedOnce == Spec => []AtMostOneCopy
<1>1. TypeInv /\ IInv => AtMostOneCopy
  <2>. SUFFICES ASSUME TypeOK, IInv, NEW r \in Record, copies[r] > 1
                PROVE  r \in loose /\ ~Enforced(r)
    BY DEF TypeInv, AtMostOneCopy
  <2>1. ~Enforced(r)
    BY TypeOKNats DEF IInv, EnforcedOnce
  <2>2. r \notin loose => Claims(row[r], copies[r], stray[r])
    BY DEF IInv, Accounted
  <2>. QED
    BY <2>1, <2>2, TypeOKNats DEF Claims
<1>. QED
  BY <1>1, SafeInvariant, TypeInvariant, PTL

(* A row that says FAILED is right, whatever the run went through: the     *)
(* record is not in the target, nothing under way will put it there, and   *)
(* writing it again is safe; except of a record whose create was repeated  *)
(* or given up while an earlier one could be executed.                     *)
THEOREM FailedIsTrue == Spec => []FailedIsAbsent
<1>1. TypeInv /\ IInv => FailedIsAbsent
  <2>. SUFFICES ASSUME TypeOK, IInv, NEW r \in Record \ loose, row[r].outcome = "FAILED"
                PROVE  copies[r] = 0 /\ stray[r] = 0
    BY DEF TypeInv, FailedIsAbsent
  <2>1. Claims(row[r], copies[r], stray[r]) /\ Describes(r, row[r])
    BY DEF IInv, Accounted, DoubtIsDescribed
  <2>. QED
    BY <2>1, TypeOKNats DEF Claims, Describes
<1>. QED
  BY <1>1, SafeInvariant, TypeInvariant, PTL

(* No create is in the target, or on its way there, without a row that     *)
(* claims it or keeps it in doubt, the same records excepted.              *)
THEOREM CopiesOnRecord == Spec => []CopiesAreOnRecord
<1>1. TypeInv /\ IInv => CopiesAreOnRecord
  <2>. SUFFICES ASSUME TypeOK, IInv, NEW r \in Record \ loose, copies[r] + stray[r] > 0
                PROVE  row[r].outcome = "CREATED" \/ InDoubt(r)
    BY DEF TypeInv, CopiesAreOnRecord
  <2>1. Claims(row[r], copies[r], stray[r])
    BY DEF IInv, Accounted
  <2>. QED
    BY <2>1, DoubtIsInDoubt, TypeOKNats DEF Claims
<1>. QED
  BY <1>1, SafeInvariant, TypeInvariant, PTL

-----------------------------------------------------------------------------
(* The rows in doubt can be counted when an execution ends.                *)
DoubtIsCounted == "count" \notin Faults

(* Whoever ends a run looks at its rows: while an execution is in progress *)
(* the run is RUNNING, and outside it nothing writes.                      *)
EndsAreCounted ==
  /\ stage # "none" => status = "RUNNING"
  /\ stage = "none" => \A r \in Record : step[r] = "idle"
  /\ CompletedHasNoDoubt

(* A step inside an execution that leaves the run RUNNING.                 *)
LEMMA InsideKeeps ==
  ASSUME EndsAreCounted, stage # "none", stage' # "none", UNCHANGED status
  PROVE  EndsAreCounted'
BY DEF EndsAreCounted, CompletedHasNoDoubt

(* An execution that ends: as its catch says, or with a status that says   *)
(* nothing of its rows.                                                    *)
LEMMA EndKeeps ==
  ASSUME EndsAreCounted, DoubtIsCounted, Forget, UNCHANGED row,
         status' \in Aborted \cup {"CANCELLED", "PAUSED", "RUNNING"}
  PROVE  EndsAreCounted'
<1>1. stage' = "none" /\ \A r \in Record : step'[r] = "idle"
  BY DEF Forget
<1>2. status' = "FAILED" => \A r \in Record : ~InDoubt(r)
  BY DEF Aborted, DoubtIsCounted
<1>3. status' \in {"FAILED", "NEEDS_RECONCILIATION", "CANCELLED", "PAUSED", "RUNNING"}
  BY DEF Aborted
<1>. QED
  BY <1>1, <1>2, <1>3 DEF EndsAreCounted, CompletedHasNoDoubt, InDoubt

LEMMA EndsStep ==
  ASSUME DoubtIsCounted, TypeOK, EndsAreCounted, [Next]_vars
  PROVE  EndsAreCounted'
<1>. USE DEF execution, ledger, target
<1>1. ASSUME Start PROVE EndsAreCounted'
  BY <1>1 DEF Start, EndsAreCounted, CompletedHasNoDoubt
<1>2. ASSUME \/ OpenTable \/ Decide \/ Intend \/ EndTable \/ PageFails
             \/ \E r \in Record : \/ Reconcile(r) \/ Send(r) \/ Persist(r)
                                  \/ SetReference(r)
                                  \/ \E as \in {"RESOLVED", "INCOMPLETE", "FAILED"} :
                                       RecordDeferred(r, as)
      PROVE  EndsAreCounted'
  BY <1>2, InsideKeeps DEF OpenTable, Decide, Intend, EndTable, PageFails, Pass2, Reconcile,
                           Send, Persist, SetReference, RecordDeferred, IsNext
<1>3. ASSUME NEW r \in Record, \/ Accept(r) \/ AnswerLost(r) \/ Refuse(r) \/ Update(r)
      PROVE  EndsAreCounted'
  <2>1. stage # "none" /\ UNCHANGED <<stage, status>>
    BY <1>3 DEF Accept, AnswerLost, Refuse, Update, Creating, EndsAreCounted
  <2>. QED
    BY <2>1, InsideKeeps
<1>4. ASSUME \/ Abort \/ Crash \/ \E as \in {"CANCELLED", "PAUSED"} : Interrupt(as)
             \/ \E r \in Record : Fatal(r)
      PROVE  EndsAreCounted'
  BY <1>4, EndKeeps DEF Abort, Crash, Interrupt, Fatal, EndsAreCounted
<1>5. ASSUME Reconciled PROVE EndsAreCounted'
  BY <1>5, InsideKeeps, EndKeeps DEF Reconciled
<1>6. ASSUME EndPage PROVE EndsAreCounted'
  <2>1. stage # "none"
    BY <1>6 DEF EndPage, Saved, EndsAreCounted
  <2>. QED
    BY <1>6, <2>1, InsideKeeps, EndKeeps DEF EndPage
<1>7. ASSUME Finish PROVE EndsAreCounted'
  <2>1. (\E r \in Record : InDoubt(r)) => RunOutcome = "NEEDS_RECONCILIATION"
    BY DEF RunOutcome
  <2>2. stage' = "none" /\ \A r \in Record : step'[r] = "idle"
    BY <1>7 DEF Finish, Forget
  <2>. QED
    BY <1>7, <2>1, <2>2 DEF Finish, EndsAreCounted, CompletedHasNoDoubt, InDoubt
<1>8. ASSUME NEW r \in Record, StrayCreate(r) \/ StrayLost(r) PROVE EndsAreCounted'
  BY <1>8 DEF StrayCreate, StrayLost, EndsAreCounted, CompletedHasNoDoubt, InDoubt
<1>9. ASSUME NEW r \in Record, ReconcileByHand(r) PROVE EndsAreCounted'
  <2>1. ~InDoubt(r)' /\ \A q \in Record \ {r} : row'[q] = row[q]
    <3>1. row[r] \in Row
      BY DEF TypeOK
    <3>2. ASSUME NEW t, SetRow(r, [row[r] EXCEPT !.outcome = "CREATED", !.ws = "CONFIRMED",
                                                 !.tid = t])
          PROVE  row'[r].ws = "CONFIRMED"
      BY <3>1, <3>2 DEF SetRow, TypeOK, Row
    <3>3. ASSUME SetRow(r, [row[r] EXCEPT !.outcome = "FAILED", !.ws = "NONE", !.tid = None])
          PROVE  row'[r].ws = "NONE"
      BY <3>1, <3>3 DEF SetRow, TypeOK, Row
    <3>4. row'[r].ws \in {"CONFIRMED", "NONE"}
      BY <1>9, <3>2, <3>3 DEF ReconcileByHand
    <3>. QED
      BY <1>9, <3>4 DEF ReconcileByHand, SetRow, InDoubt, TypeOK
  <2>. QED
    BY <1>9, <2>1 DEF ReconcileByHand, EndsAreCounted, CompletedHasNoDoubt, InDoubt
<1>10. ASSUME Retry \/ Resume PROVE EndsAreCounted'
  BY <1>10 DEF Retry, Resume, EndsAreCounted, CompletedHasNoDoubt, Ended
<1>11. ASSUME UNCHANGED vars PROVE EndsAreCounted'
  BY <1>11 DEF vars, EndsAreCounted, CompletedHasNoDoubt, InDoubt
<1>. QED
  BY <1>1, <1>2, <1>3, <1>4, <1>5, <1>6, <1>7, <1>8, <1>9, <1>10, <1>11
  DEF Next, ExecutionStep, RecordStep, Disturbance, Request

(* Whatever ends a run, its own end or any error, cancel, crash or person, *)
(* it is not called complete or failed while the outcome of a write is     *)
(* unknown, with any number of retries and late requests: the only         *)
(* condition is that the rows in doubt can be counted.                     *)
THEOREM NoDoubtInTheEnd ==
  ASSUME DoubtIsCounted
  PROVE  Spec => []CompletedHasNoDoubt
<1>1. Init => EndsAreCounted
  BY DEF Init, EndsAreCounted, CompletedHasNoDoubt
<1>2. TypeOK /\ EndsAreCounted /\ [Next]_vars => EndsAreCounted'
  BY EndsStep
<1>3. EndsAreCounted => CompletedHasNoDoubt
  BY DEF EndsAreCounted
<1>. QED
  BY <1>1, <1>2, <1>3, TypeCorrect, PTL DEF Spec

-----------------------------------------------------------------------------
(* COMPLETED: every record of the source was passed, and what its row says *)
(* is in the target.  Nothing here asks for an orderly target: requests    *)
(* may be sent again, executed late and given up by their page.            *)

Carried == {"CREATED", "UPDATED", "SKIPPED"}

\* The target holds t, and t is r.
IsThere(r, t) == (t = <<"new", r>> /\ copies[r] > 0) \/ t \in Found(r)

RowIsTrue(r, x) ==
  /\ x.outcome \in Carried => IsThere(r, x.tid)
  /\ x.outcome = "UNRESOLVED" => Doubtful(x)

RowsAreTrue == \A r \in Record : RowIsTrue(r, row[r])

(* What memory says of a record: the match its plan names is in the target, *)
(* and a result is the result of its plan.                                  *)
PlanIsTrue(r) ==
  /\ plan[r].do \in {"UPDATE", "SKIP"} => plan[r].tid \in Found(r)
  /\ step[r] = "CREATED" => copies[r] > 0
  /\ step[r] = "UPDATED" => plan[r].do = "UPDATE"
  /\ step[r] = "SKIPPED" => plan[r].do = "SKIP"

(* The first pass leaves a row for each record it has passed, or has it in *)
(* the page at hand; it was whole or a READ error was recorded.            *)
PassIsOn ==
  /\ stage \in {"none", "begun", "reconcile"} => cursor = 0
  /\ stage \notin {"decided", "act"} => \A r \in Record : step[r] = "idle"
  /\ stage \in {"read", "decided", "act"} =>
       \A r \in Record : r <= cursor => row[r].outcome # "NONE" \/ step[r] # "idle"
  /\ \A r \in Record : step[r] = "saved" => row[r].outcome # "NONE"
  /\ stage = "deferred" => readErr \/ \A r \in Record : row[r].outcome # "NONE"

(* Nothing follows COMPLETED.                                              *)
EndIsEnd ==
  status = "COMPLETED" => stage = "none" /\ \A r \in Record : row[r].outcome \in Carried

CInv == RowsAreTrue /\ (\A r \in Record : PlanIsTrue(r)) /\ PassIsOn /\ EndIsEnd

(* The target loses no record: what was found is found again.              *)
LEMMA StaysThere ==
  ASSUME TypeOK, TypeOK', \A q \in Record : copies'[q] >= copies[q], NEW r \in Record
  PROVE  /\ Found(r) \subseteq Found(r)'
         /\ \A t : IsThere(r, t) => IsThere(r, t)'
         /\ copies[r] > 0 => copies'[r] > 0
<1>1. ASSUME NEW q \in Record, copies[q] > 0 PROVE copies'[q] > 0
  BY <1>1 DEF TypeOK
<1>2. ASSUME NEW t \in Found(r) PROVE t \in Found(r)'
  BY <1>1, <1>2 DEF Found
<1>. QED
  BY <1>1, <1>2 DEF IsThere

(* Steps that leave the rows alone and say nothing new of the page.        *)
LEMMA QuietStep ==
  ASSUME TypeOK, TypeOK', CInv, \A q \in Record : copies'[q] >= copies[q],
         UNCHANGED <<row, plan, step>>, PassIsOn', EndIsEnd'
  PROVE  CInv'
<1>1. ASSUME NEW r \in Record PROVE RowIsTrue(r, row[r])' /\ PlanIsTrue(r)'
  BY StaysThere DEF CInv, RowsAreTrue, RowIsTrue, PlanIsTrue, Doubtful
<1>. QED
  BY <1>1 DEF CInv, RowsAreTrue

LEMMA ForgetQuiet ==
  ASSUME CInv, Forget, UNCHANGED <<row, copies>>, EndIsEnd'
  PROVE  CInv'
<1>1. /\ stage' = "none" /\ cursor' = 0
      /\ \A r \in Record : step'[r] = "idle" /\ plan'[r] = NoPlan
  BY DEF Forget
<1>2. RowsAreTrue'
  BY DEF CInv, RowsAreTrue, RowIsTrue, IsThere, Found, Doubtful
<1>3. \A r \in Record : PlanIsTrue(r)'
  BY <1>1 DEF PlanIsTrue, NoPlan
<1>4. PassIsOn'
  BY <1>1 DEF PassIsOn
<1>. QED
  BY <1>2, <1>3, <1>4 DEF CInv

LEMMA Pass2Quiet ==
  ASSUME CInv, Pass2, stage # "none", UNCHANGED <<row, copies>>,
         readErr' \/ \A r \in Record : row[r].outcome # "NONE"
  PROVE  CInv'
<1>1. /\ stage' = "deferred" /\ status' = status
      /\ \A r \in Record : step'[r] = "idle" /\ plan'[r] = NoPlan
  BY DEF Pass2
<1>2. RowsAreTrue'
  BY DEF CInv, RowsAreTrue, RowIsTrue, IsThere, Found, Doubtful
<1>3. \A r \in Record : PlanIsTrue(r)'
  BY <1>1 DEF PlanIsTrue, NoPlan
<1>4. PassIsOn' /\ EndIsEnd'
  BY <1>1 DEF CInv, PassIsOn, EndIsEnd
<1>. QED
  BY <1>2, <1>3, <1>4 DEF CInv

(* A step that writes one row, and at most notes that it is written.       *)
LEMMA OneRowTrue ==
  ASSUME TypeOK, CInv, NEW r \in Record, NEW new, SetRow(r, new),
         RowIsTrue(r, new),
         row[r].outcome # "NONE" => new.outcome # "NONE",
         step' = step \/ (stage = "act" /\ Advance(r, "saved") /\ new.outcome # "NONE"),
         UNCHANGED <<copies, plan, stage, readErr>>,
         stage # "deferred" => cursor' = cursor,
         status # "COMPLETED", status' # "COMPLETED"
  PROVE  CInv'
<1>1. row'[r] = new /\ \A q \in Record \ {r} : row'[q] = row[q]
  BY DEF TypeOK, SetRow
<1>2. /\ \A q \in Record \ {r} : step'[q] = step[q]
      /\ step'[r] = step[r] \/ (stage = "act" /\ step'[r] = "saved" /\ new.outcome # "NONE")
  <2>1. DOMAIN step = Record
    BY DEF TypeOK
  <2>2. CASE stage = "act" /\ Advance(r, "saved") /\ new.outcome # "NONE"
    BY <2>1, <2>2 DEF Advance
  <2>. QED
    BY <2>2
<1>3. RowsAreTrue'
  BY <1>1 DEF CInv, RowsAreTrue, RowIsTrue, IsThere, Found, Doubtful
<1>4. \A q \in Record : PlanIsTrue(q)'
  BY <1>2 DEF CInv, PlanIsTrue, Found
<1>5. \A q \in Record : row[q].outcome # "NONE" => row'[q].outcome # "NONE"
  BY <1>1
<1>6. \A q \in Record : step'[q] = "saved" => row'[q].outcome # "NONE"
  BY <1>1, <1>2, <1>5 DEF CInv, PassIsOn
<1>7. PassIsOn'
  BY <1>2, <1>5, <1>6 DEF CInv, PassIsOn
<1>. QED
  BY <1>3, <1>4, <1>7 DEF CInv, EndIsEnd

(* A step of one record of the page that has come to an answer, or not yet. *)
LEMMA OneMoveTrue ==
  ASSUME TypeOK, TypeOK', CInv, NEW r \in Record, NEW to,
         stage \in {"decided", "act"}, Advance(r, to) \/ (to = step[r] /\ step' = step),
         to \notin {"idle", "saved", "SKIPPED"},
         to = "CREATED" => copies'[r] > 0, to = "UPDATED" => plan[r].do = "UPDATE",
         \A q \in Record : copies'[q] >= copies[q],
         UNCHANGED <<row, plan, stage, cursor, status, readErr>>
  PROVE  CInv'
<1>1. step'[r] = to /\ \A q \in Record \ {r} : step'[q] = step[q]
  <2>1. DOMAIN step = Record
    BY DEF TypeOK
  <2>2. CASE Advance(r, to)
    BY <2>1, <2>2 DEF Advance
  <2>. QED
    BY <2>2
<1>2. ASSUME NEW q \in Record PROVE RowIsTrue(q, row[q])' /\ PlanIsTrue(q)'
  BY <1>1, StaysThere DEF CInv, RowsAreTrue, RowIsTrue, PlanIsTrue, Doubtful
<1>3. PassIsOn'
  BY <1>1 DEF CInv, PassIsOn
<1>. QED
  BY <1>2, <1>3 DEF CInv, RowsAreTrue, EndIsEnd

(* The rows a settlement leaves.                                           *)
LEMMA SettledIsTrue ==
  ASSUME TypeOK, NEW r \in Record, NEW o, NEW w, NEW t, NEW new,
         \/ o \in {"FAILED", "CREATED", "UPDATED"}
         \/ o = "UNRESOLVED" /\ w = "RECONCILIATION_REQUIRED",
         o \in Carried => IsThere(r, t),
         new = [row[r] EXCEPT !.outcome = o, !.ws = w, !.tid = t]
  PROVE  RowIsTrue(r, new) /\ new.outcome # "NONE"
<1>1. row[r] \in Row
  BY DEF TypeOK
<1>2. new.outcome = o /\ new.ws = w /\ new.tid = t
  BY <1>1 DEF Row
<1>. QED
  BY <1>2 DEF RowIsTrue, Carried, Doubtful

LEMMA ReconcileTrue ==
  ASSUME TypeOK, CInv, NEW r \in Record, Reconcile(r)
  PROVE  CInv'
<1>1. /\ stage = "reconcile" /\ UNCHANGED <<status, stage, cursor, plan, step, copies, readErr>>
  BY DEF Reconcile, Settle, target
<1>2. status # "COMPLETED" /\ status' # "COMPLETED"
  BY <1>1 DEF CInv, EndIsEnd
<1>3. PICK o, w, t :
        /\ Settle(r, o, w, t)
        /\ \/ o = "FAILED" /\ w = "NONE" /\ t = None
           \/ o = "UNRESOLVED" /\ w = "RECONCILIATION_REQUIRED" /\ t = None
           \/ o \in {"CREATED", "UPDATED"} /\ w = "CONFIRMED" /\ t \in Found(r)
  <2>1. \/ Settle(r, "FAILED", "NONE", None)
        \/ Settle(r, "UNRESOLVED", "RECONCILIATION_REQUIRED", None)
        \/ \E t \in Found(r) :
             Settle(r, IF row[r].op = "UPDATE" THEN "UPDATED" ELSE "CREATED", "CONFIRMED", t)
    BY DEF Reconcile
  <2>. QED
    BY <2>1
<1>4. t \in Found(r) => t # None /\ IsThere(r, t)
  BY FoundIsTarget, ProtocolAssumption DEF IsThere, TargetId
<1>. DEFINE tid == IF t = None THEN row[r].tid ELSE t
            new == [row[r] EXCEPT !.outcome = o, !.ws = w, !.tid = tid]
<1>5. SetRow(r, new)
  BY <1>3 DEF Settle
<1>6. o \in Carried => IsThere(r, tid)
  BY <1>3, <1>4 DEF Carried
<1>7. RowIsTrue(r, new) /\ new.outcome # "NONE"
  <2>. HIDE DEF tid
  <2>. QED
    BY <1>3, <1>6, SettledIsTrue
<1>. HIDE DEF new
<1>. QED
  BY <1>1, <1>2, <1>5, <1>7, OneRowTrue

LEMMA HandTrue ==
  ASSUME TypeOK, CInv, NEW r \in Record, ReconcileByHand(r)
  PROVE  CInv'
<1>1. /\ status = "NEEDS_RECONCILIATION" /\ status' # "COMPLETED"
      /\ UNCHANGED <<stage, cursor, plan, step, copies, readErr>>
  BY DEF ReconcileByHand, execution, target
<1>2. PICK new : SetRow(r, new) /\ RowIsTrue(r, new) /\ new.outcome # "NONE"
  <2>1. CASE Seen(r) # {}
    <3>1. PICK t \in Seen(r) :
            SetRow(r, [row[r] EXCEPT !.outcome = "CREATED", !.ws = "CONFIRMED", !.tid = t])
      BY <2>1 DEF ReconcileByHand
    <3>2. IsThere(r, t)
      BY DEF Seen, IsThere
    <3>3. PICK new : new = [row[r] EXCEPT !.outcome = "CREATED", !.ws = "CONFIRMED", !.tid = t]
      OBVIOUS
    <3>4. SetRow(r, new)
      BY <3>1, <3>3
    <3>5. RowIsTrue(r, new) /\ new.outcome # "NONE"
      BY <3>2, <3>3, SettledIsTrue
    <3>. QED
      BY <3>4, <3>5
  <2>2. CASE Seen(r) = {}
    <3>1. PICK new : new = [row[r] EXCEPT !.outcome = "FAILED", !.ws = "NONE", !.tid = None]
      OBVIOUS
    <3>2. SetRow(r, new)
      BY <2>2, <3>1 DEF ReconcileByHand
    <3>3. "FAILED" \notin Carried
      BY DEF Carried
    <3>4. RowIsTrue(r, new) /\ new.outcome # "NONE"
      BY <3>1, <3>3, SettledIsTrue
    <3>. QED
      BY <3>2, <3>4
  <2>. QED
    BY <2>1, <2>2
<1>. QED
  BY <1>1, <1>2, OneRowTrue

LEMMA PersistTrue ==
  ASSUME TypeOK, CInv, NEW r \in Record, Persist(r)
  PROVE  CInv'
<1>1. /\ stage = "act" /\ step[r] \in Outcome /\ SetRow(r, Result(r)) /\ Advance(r, "saved")
      /\ UNCHANGED <<status, stage, cursor, plan, readErr, copies>>
  BY DEF Persist, target
<1>2. status # "COMPLETED" /\ status' # "COMPLETED"
  BY <1>1 DEF CInv, EndIsEnd
<1>3. Result(r).outcome = step[r] /\ Result(r).outcome # "NONE"
  BY <1>1 DEF Result, Outcome
<1>4. step[r] = "CREATED" => Result(r).tid = <<"new", r>> /\ copies[r] > 0
  BY DEF Result, CInv, PlanIsTrue
<1>5. step[r] \in {"UPDATED", "SKIPPED"} => Result(r).tid = plan[r].tid /\ plan[r].tid \in Found(r)
  BY DEF Result, CInv, PlanIsTrue
<1>6. step[r] = "UNRESOLVED" => Doubtful(Result(r))
  BY DEF Result, Doubtful
<1>7. RowIsTrue(r, Result(r))
  BY <1>3, <1>4, <1>5, <1>6 DEF RowIsTrue, Carried, IsThere
<1>. QED
  BY <1>1, <1>2, <1>3, <1>7, OneRowTrue

LEMMA DeferredTrue ==
  ASSUME TypeOK, CInv, NEW r \in Record, NEW as, RecordDeferred(r, as)
  PROVE  CInv'
<1>. DEFINE new == [row[r] EXCEPT !.def = as]
<1>1. /\ stage = "deferred" /\ SetRow(r, new)
      /\ UNCHANGED <<status, stage, plan, step, readErr, copies>>
  BY DEF RecordDeferred, IsNext, target
<1>2. status # "COMPLETED" /\ status' # "COMPLETED"
  BY <1>1 DEF CInv, EndIsEnd
<1>3. row[r] \in Row
  BY DEF TypeOK
<1>4. new.outcome = row[r].outcome /\ new.ws = row[r].ws /\ new.tid = row[r].tid
  BY <1>3 DEF Row
<1>5. RowIsTrue(r, new)
  BY <1>4 DEF CInv, RowsAreTrue, RowIsTrue, Doubtful
<1>. HIDE DEF new
<1>. QED
  BY <1>1, <1>2, <1>4, <1>5, OneRowTrue

LEMMA DecideTrue ==
  ASSUME TypeOK, CInv, Decide
  PROVE  CInv'
<1>. DEFINE last == IF cursor + PageSize < NumRecords THEN cursor + PageSize ELSE NumRecords
            page == {r \in cursor + 1 .. last : Pending(r)}
<1>1. /\ stage = "read" /\ cursor' = last
      /\ plan' = [r \in Record |-> IF r \in page THEN Decision(r, page) ELSE NoPlan]
      /\ step' = [r \in Record |->
                     IF r \notin page THEN "idle"
                     ELSE CASE Decision(r, page).do = "REFUSE" -> "FAILED"
                            [] Decision(r, page).do = "SKIP" -> "SKIPPED"
                            [] OTHER -> "ready"]
      /\ stage' = IF page = {} THEN "read" ELSE "decided"
      /\ UNCHANGED <<status, row, copies, readErr>>
  BY DEF Decide, ledger, target
<1>2. ASSUME NEW r \in Record, cursor < r, r <= last PROVE r \in page \/ row[r].outcome # "NONE"
  <2>1. r \in cursor + 1 .. last
    BY <1>2, ProtocolAssumption DEF TypeOK, Record
  <2>. QED
    BY <2>1 DEF Pending
<1>. HIDE DEF page, last
<1>3. ASSUME NEW r \in Record PROVE RowIsTrue(r, row[r])'
  BY <1>1 DEF CInv, RowsAreTrue, RowIsTrue, IsThere, Found, Doubtful
<1>4. ASSUME NEW r \in Record PROVE PlanIsTrue(r)'
  <2>1. Decision(r, page).do \in {"UPDATE", "SKIP"} => Decision(r, page).tid \in Found(r)
    BY DEF Decision
  <2>2. Found(r)' = Found(r)
    BY <1>1 DEF Found
  <2>3. /\ r \in page => plan'[r] = Decision(r, page)
        /\ r \notin page => plan'[r] = NoPlan
        /\ step'[r] \in {"idle", "FAILED", "SKIPPED", "ready"}
        /\ step'[r] = "SKIPPED" => r \in page /\ Decision(r, page).do = "SKIP"
    BY <1>1
  <2>. QED
    BY <2>1, <2>2, <2>3 DEF PlanIsTrue, NoPlan
<1>5. PassIsOn'
  <2>1. ASSUME NEW r \in Record, r <= cursor' PROVE row'[r].outcome # "NONE" \/ step'[r] # "idle"
    <3>1. CASE r <= cursor
      BY <1>1, <3>1 DEF CInv, PassIsOn
    <3>2. CASE ~ (r <= cursor)
      <4>1. r \in page \/ row[r].outcome # "NONE"
        <5>1. cursor < r
          BY <3>2, ProtocolAssumption DEF TypeOK, Record
        <5>. QED
          BY <1>1, <1>2, <2>1, <5>1
      <4>. QED
        BY <1>1, <4>1
    <3>. QED
      BY <3>1, <3>2
  <2>2. page = {} => \A r \in Record : step'[r] = "idle"
    BY <1>1
  <2>3. \A r \in Record : step'[r] # "saved"
    BY <1>1
  <2>. QED
    BY <1>1, <2>1, <2>2, <2>3 DEF PassIsOn
<1>. QED
  BY <1>1, <1>3, <1>4, <1>5 DEF CInv, RowsAreTrue, EndIsEnd

LEMMA IntendTrue ==
  ASSUME TypeOK, CInv, Intend
  PROVE  CInv'
<1>1. /\ stage = "decided" /\ stage' = "act"
      /\ row' = [r \in Record |-> IF step[r] = "ready" THEN Intent(r) ELSE row[r]]
      /\ UNCHANGED <<status, cursor, plan, step, copies, readErr>>
  BY DEF Intend, target
<1>2. ASSUME NEW r \in Record
      PROVE  row'[r] = row[r] \/ (row'[r].outcome = "UNRESOLVED" /\ row'[r].ws = "INTENDED")
  BY <1>1 DEF Intent
<1>3. \A r \in Record : RowIsTrue(r, row[r])' /\ PlanIsTrue(r)'
  BY <1>1, <1>2 DEF CInv, RowsAreTrue, RowIsTrue, PlanIsTrue, IsThere, Found, Doubtful, Carried
<1>4. \A r \in Record : row[r].outcome # "NONE" => row'[r].outcome # "NONE"
  BY <1>2
<1>5. PassIsOn'
  BY <1>1, <1>4 DEF CInv, PassIsOn
<1>. QED
  BY <1>1, <1>3, <1>5 DEF CInv, RowsAreTrue, EndIsEnd

LEMMA FinishTrue ==
  ASSUME TypeOK, CInv, Finish
  PROVE  CInv'
<1>1. stage = "deferred" /\ status' = RunOutcome /\ Forget /\ UNCHANGED <<row, copies>>
  BY DEF Finish, ledger, target
<1>2. ASSUME RunOutcome = "COMPLETED", NEW r \in Record PROVE row[r].outcome \in Carried
  <2>1. /\ ~InDoubt(r) /\ ~readErr /\ row[r].outcome # "FAILED"
    BY <1>2 DEF RunOutcome
  <2>2. row[r].outcome # "NONE"
    BY <1>1, <2>1 DEF CInv, PassIsOn
  <2>3. row[r].outcome # "UNRESOLVED"
    BY <2>1 DEF CInv, RowsAreTrue, RowIsTrue, Doubtful, InDoubt
  <2>. QED
    BY <2>1, <2>2, <2>3 DEF TypeOK, Row, Outcome, Carried
<1>3. EndIsEnd'
  BY <1>1, <1>2 DEF EndIsEnd, Forget
<1>. QED
  BY <1>1, <1>3, ForgetQuiet

LEMMA EndPageTrue ==
  ASSUME TypeOK, CInv, EndPage
  PROVE  CInv'
<1>1. /\ \A r \in Record : step[r] \in {"idle", "saved"}
      /\ stage \in {"decided", "act"}
      /\ UNCHANGED <<row, copies, readErr>>
  BY DEF EndPage, Saved, CInv, PassIsOn, ledger, target
<1>2. status # "COMPLETED"
  BY <1>1 DEF CInv, EndIsEnd
<1>3. CASE Forget /\ status' \in Aborted
  <2>1. EndIsEnd'
    BY <1>3 DEF EndIsEnd, Aborted
  <2>. QED
    BY <1>1, <1>3, <2>1, ForgetQuiet
<1>4. CASE /\ stage' = "read" /\ step' = [r \in Record |-> "idle"]
           /\ plan' = [r \in Record |-> NoPlan] /\ UNCHANGED <<status, cursor>>
  <2>1. \A r \in Record : RowIsTrue(r, row[r])' /\ PlanIsTrue(r)'
    BY <1>1, <1>4 DEF CInv, RowsAreTrue, RowIsTrue, PlanIsTrue, IsThere, Found, Doubtful, NoPlan
  <2>2. \A r \in Record : r <= cursor => row[r].outcome # "NONE"
    BY <1>1 DEF CInv, PassIsOn
  <2>3. PassIsOn'
    BY <1>1, <1>4, <2>2 DEF PassIsOn
  <2>. QED
    BY <1>2, <1>4, <2>1, <2>3 DEF CInv, RowsAreTrue, EndIsEnd
<1>. QED
  BY <1>3, <1>4 DEF EndPage

LEMMA AnswerTrue ==
  ASSUME TypeOK, TypeOK', CInv, NEW r \in Record,
         Send(r) \/ Accept(r) \/ AnswerLost(r) \/ Refuse(r) \/ Update(r)
  PROVE  CInv'
<1>1. copies \in [Record -> Nat] /\ step \in [Record -> Step]
  BY DEF TypeOK, Step
<1>2. stage \in {"decided", "act"} /\ step[r] \in {"ready", "sent"}
  BY DEF Send, Accept, AnswerLost, Refuse, Update, Creating, CInv, PassIsOn
<1>3. UNCHANGED <<row, plan, stage, cursor, status, readErr>>
  BY DEF Send, Accept, AnswerLost, Refuse, Update, ledger
<1>4. /\ \A q \in Record : copies'[q] >= copies[q]
      /\ Accept(r) => copies'[r] > 0
  BY <1>1 DEF Send, Accept, AnswerLost, Refuse, Update, Create, target
<1>5. CASE Send(r)
  BY <1>2, <1>3, <1>4, <1>5, OneMoveTrue DEF Send
<1>6. CASE Accept(r)
  BY <1>2, <1>3, <1>4, <1>6, OneMoveTrue DEF Accept
<1>7. CASE AnswerLost(r)
  <2>1. CASE Advance(r, "UNRESOLVED")
    BY <1>2, <1>3, <1>4, <2>1, OneMoveTrue
  <2>2. CASE step' = step
    BY <1>2, <1>3, <1>4, <2>2, OneMoveTrue
  <2>. QED
    BY <1>7, <2>1, <2>2 DEF AnswerLost, AgainOrLost, Lost
<1>8. CASE Refuse(r)
  BY <1>2, <1>3, <1>4, <1>8, OneMoveTrue DEF Refuse
<1>9. CASE Update(r)
  <2>1. plan[r].do = "UPDATE" /\ (Advance(r, "UPDATED") \/ Advance(r, "FAILED"))
    BY <1>9 DEF Update
  <2>. QED
    BY <1>2, <1>3, <1>4, <2>1, OneMoveTrue
<1>. QED
  BY <1>5, <1>6, <1>7, <1>8, <1>9

LEMMA CompletedStep ==
  ASSUME TypeOK, TypeOK', CInv, [Next]_vars
  PROVE  CInv'
<1>. USE DEF execution, ledger, target
<1>1. CASE Start
  <2>1. PassIsOn' /\ EndIsEnd'
    BY <1>1 DEF Start, CInv, PassIsOn, EndIsEnd
  <2>. QED
    BY <1>1, <2>1, QuietStep DEF Start, TypeOK
<1>2. CASE OpenTable
  <2>1. PassIsOn' /\ EndIsEnd'
    BY <1>2 DEF OpenTable, CInv, PassIsOn, EndIsEnd
  <2>. QED
    BY <1>2, <2>1, QuietStep DEF OpenTable, TypeOK
<1>3. CASE Reconciled
  <2>1. CASE Forget /\ status' \in Aborted
    <3>1. EndIsEnd'
      BY <2>1 DEF EndIsEnd, Aborted
    <3>. QED
      BY <1>3, <2>1, <3>1, ForgetQuiet DEF Reconciled
  <2>2. CASE stage' = "read" /\ UNCHANGED <<status, cursor, plan, step>>
    <3>1. \A r \in Record : ~ (r <= cursor)
      BY <1>3 DEF Reconciled, CInv, PassIsOn, Record
    <3>2. PassIsOn' /\ EndIsEnd'
      BY <1>3, <2>2, <3>1 DEF Reconciled, CInv, PassIsOn, EndIsEnd
    <3>. QED
      BY <1>3, <2>2, <3>2, QuietStep DEF Reconciled, TypeOK
  <2>. QED
    BY <1>3, <2>1, <2>2 DEF Reconciled
<1>4. CASE EndTable
  <2>1. \A r \in Record : row[r].outcome # "NONE"
    BY <1>4 DEF EndTable, CInv, PassIsOn, Record
  <2>. QED
    BY <1>4, <2>1, Pass2Quiet DEF EndTable
<1>5. CASE PageFails
  BY <1>5, Pass2Quiet DEF PageFails
<1>6. ASSUME NEW r \in Record, SetReference(r) PROVE CInv'
  <2>1. PassIsOn' /\ EndIsEnd'
    BY <1>6 DEF SetReference, CInv, PassIsOn, EndIsEnd
  <2>. QED
    BY <1>6, <2>1, QuietStep DEF SetReference, TypeOK
<1>7. CASE Abort \/ Crash \/ (\E as \in {"CANCELLED", "PAUSED"} : Interrupt(as))
  <2>1. stage # "none" /\ Forget /\ UNCHANGED <<row, copies>>
    BY <1>7 DEF Abort, Crash, Interrupt
  <2>2. EndIsEnd'
    BY <1>7, <2>1 DEF Abort, Crash, Interrupt, Aborted, CInv, EndIsEnd
  <2>. QED
    BY <2>1, <2>2, ForgetQuiet
<1>8. ASSUME NEW r \in Record, Fatal(r) PROVE CInv'
  <2>1. EndIsEnd'
    BY <1>8 DEF Fatal, Aborted, EndIsEnd
  <2>. QED
    BY <1>8, <2>1, ForgetQuiet DEF Fatal
<1>9. ASSUME NEW r \in Record, StrayCreate(r) \/ StrayLost(r) PROVE CInv'
  <2>1. \A q \in Record : copies'[q] >= copies[q]
    BY <1>9 DEF StrayCreate, StrayLost, Create, TypeOK
  <2>2. PassIsOn' /\ EndIsEnd'
    BY <1>9 DEF StrayCreate, StrayLost, CInv, PassIsOn, EndIsEnd
  <2>. QED
    BY <1>9, <2>1, <2>2, QuietStep DEF StrayCreate, StrayLost
<1>10. CASE Retry \/ Resume
  <2>1. PassIsOn' /\ EndIsEnd'
    BY <1>10 DEF Retry, Resume, CInv, PassIsOn, EndIsEnd
  <2>. QED
    BY <1>10, <2>1, QuietStep DEF Retry, Resume, TypeOK
<1>11. CASE UNCHANGED vars
  <2>1. PassIsOn' /\ EndIsEnd'
    BY <1>11 DEF vars, CInv, PassIsOn, EndIsEnd
  <2>. QED
    BY <1>11, <2>1, QuietStep DEF vars, TypeOK
<1>. QED
  BY <1>1, <1>2, <1>3, <1>4, <1>5, <1>6, <1>7, <1>8, <1>9, <1>10, <1>11, ReconcileTrue, HandTrue,
     PersistTrue, DeferredTrue, DecideTrue, IntendTrue, FinishTrue, EndPageTrue, AnswerTrue
  DEF Next, ExecutionStep, RecordStep, Disturbance, Request

(* COMPLETED is said of a run only when each record of the source was       *)
(* written, matched or found, and is in the target: for every page size,    *)
(* key and strategy, and whatever crashes, is lost, executed late or sent   *)
(* again on the way.                                                        *)
THEOREM CompletedWhole == Spec => []CompletedIsWhole
<1>1. Init => CInv
  BY ProtocolAssumption
  DEF Init, CInv, RowsAreTrue, RowIsTrue, PlanIsTrue, PassIsOn, EndIsEnd, NoRow, NoPlan, Carried
<1>2. TypeOK /\ TypeOK' /\ CInv /\ [Next]_vars => CInv'
  BY CompletedStep
<1>3. CInv => CompletedIsWhole
  BY DEF CInv, RowsAreTrue, RowIsTrue, EndIsEnd, CompletedIsWhole, IsThere, Carried
<1>. QED
  BY <1>1, <1>2, <1>3, TypeCorrect, PTL DEF Spec

-----------------------------------------------------------------------------
(* RecordProtocol implements WriteOnce: for every source, key, strategy,   *)
(* width, number of attempts, crash, failure, late request and sequence of *)
(* requests of the run.                                                    *)

(* What the target keeps unique it holds in one record.                    *)
Sole == \A r \in Record : Enforced(r) => \A t, u \in Found(r) : t = u

(* A search by an alternate key finds what holds the key.                  *)
LEMMA FoundByKey ==
  ASSUME NEW r \in Record, Evidence[r] = "ALTERNATE_KEY", NEW t \in Found(r)
  PROVE  /\ t[2] \in Record /\ KeyOf[t[2]] = KeyOf[r]
         /\ Evidence[t[2]] = "ALTERNATE_KEY"
<1>1. t[2] \in Record /\ KeyOf[t[2]] = KeyOf[r]
  BY FoundIsTarget DEF Found, TargetId
<1>2. Keyed(t[2])
  BY <1>1, KeyAssumption DEF Keyed
<1>. QED
  BY <1>1, <1>2, KeyAssumption DEF Keyed

LEMMA FoundByIdentifier ==
  ASSUME NEW r \in Record, Evidence[r] = "PRESERVED_ID", NEW t \in Found(r)
  PROVE  t = <<"old", r>> \/ t = <<"new", r>>
BY DEF Found, Keyed

LEMMA SoleInit == Init => Sole
<1>. SUFFICES ASSUME Init, NEW r \in Record, Enforced(r), NEW t \in Found(r), NEW u \in Found(r)
              PROVE  t = u
  BY DEF Sole
<1>1. \A v \in Found(r) : \E q \in Existing : v = <<"old", q>>
  BY DEF Init, Found
<1>2. CASE Evidence[r] = "PRESERVED_ID"
  BY <1>1, <1>2, FoundByIdentifier
<1>3. CASE Evidence[r] = "ALTERNATE_KEY"
  <2>1. PICK p \in Existing, q \in Existing : t = <<"old", p>> /\ u = <<"old", q>>
    BY <1>1
  <2>2. KeyOf[p] = KeyOf[q] /\ Evidence[p] = "ALTERNATE_KEY"
    BY <1>3, <2>1, FoundByKey
  <2>. QED
    BY <2>1, <2>2, KeyAssumption
<1>. QED
  BY <1>2, <1>3 DEF Enforced

(* Whoever creates a record, the target refuses a second one of its key.   *)
LEMMA CreateKeepsSole ==
  ASSUME TypeOK, Sole, NEW q \in Record, Create(q), ~Duplicate(q)
  PROVE  Sole'
<1>. SUFFICES ASSUME NEW r \in Record, Enforced(r), NEW t \in Found(r)', NEW u \in Found(r)'
              PROVE  t = u
  BY DEF Sole, Enforced
<1>1. \A p \in Record : copies'[p] > 0 => copies[p] > 0 \/ p = q
  BY DEF Create, TypeOK
<1>2. Found(r)' \subseteq Found(r) \cup {<<"new", q>>}
  BY <1>1 DEF Found, Keyed
<1>3. CASE <<"new", q>> \notin Found(r)'
  BY <1>2, <1>3 DEF Sole
<1>4. CASE <<"new", q>> \in Found(r)'
  <2>1. CASE Evidence[r] = "PRESERVED_ID"
    <3>1. q = r
      BY <1>4, <2>1 DEF Found, Keyed
    <3>. QED
      BY <1>2, <3>1 DEF Duplicate
  <2>2. CASE Evidence[r] = "ALTERNATE_KEY"
    <3>1. KeyOf[q] = KeyOf[r]
      BY <1>4, <2>2 DEF Found
    <3>2. Evidence[q] = "ALTERNATE_KEY"
      BY <2>2, <3>1, KeyAssumption DEF Keyed
    <3>3. Found(r) \subseteq Found(q)
      BY <2>2, <3>1, <3>2 DEF Found, Keyed
    <3>4. Found(q) = {}
      BY <3>2 DEF Duplicate, Enforced
    <3>. QED
      BY <1>2, <3>3, <3>4
  <2>. QED
    BY <2>1, <2>2 DEF Enforced
<1>. QED
  BY <1>3, <1>4

LEMMA SoleStep == TypeInv /\ Sole /\ [Next]_vars => Sole'
<1>. SUFFICES ASSUME TypeOK, Sole, [Next]_vars PROVE Sole'
  BY DEF TypeInv
<1>1. ASSUME UNCHANGED copies PROVE Sole'
  BY <1>1 DEF Sole, Found, Enforced, Keyed
<1>2. UNCHANGED copies \/ \E r \in Record : Create(r) /\ ~Duplicate(r)
  BY DEF Next, ExecutionStep, RecordStep, Disturbance, Request, target, vars,
         Start, Abort, Crash, Interrupt, OpenTable, Reconcile, Reconciled, Decide, Intend,
         Send, Accept, AnswerLost, Refuse, Update, Fatal, StrayCreate, StrayLost, Persist,
         EndPage, EndTable, PageFails, SetReference, RecordDeferred, Finish,
         ReconcileByHand, Retry, Resume
<1>. QED
  BY <1>1, <1>2, CreateKeepsSole

LEMMA RInvariant == Spec => [](TypeInv /\ IInv /\ Sole)
BY SoleInit, SoleStep, TypeInvariant, SafeInvariant, PTL DEF Spec

-----------------------------------------------------------------------------
(* The refinement mapping.                                                 *)

(* What the row x of the record r shows.                                   *)
Shows(r, x) ==
  IF x.outcome = "CREATED" /\ x.tid = <<"new", r>> THEN "yes"
  ELSE IF Doubtful(x) /\ x.op = "CREATE" THEN "maybe" ELSE "no"

LEMMA KnownIsShown ==
  /\ \A r \in Record : Known(r) = IF r \in loose THEN "lost" ELSE Shows(r, row[r])
  /\ \A r \in Record : Known(r)' = IF r \in loose' THEN "lost" ELSE Shows(r, row'[r])
BY DEF Known, Shows, InDoubt, Doubtful

LEMMA Invisible ==
  ASSUME UNCHANGED <<copies, loose>>,
         \A r \in Record \ loose : Shows(r, row'[r]) = Shows(r, row[r])
  PROVE  UNCHANGED Abstract!vars
BY KnownIsShown DEF Abstract!vars

LEMMA RowsUnchanged ==
  ASSUME UNCHANGED <<row, copies, loose>>
  PROVE  UNCHANGED Abstract!vars
BY Invisible

(* The row of one record is written.  It says what the target holds, or it *)
(* says what it said before, or the record is lost.                        *)
LEMMA VisibleSettle ==
  ASSUME TypeOK, UNCHANGED copies, NEW r \in Record, NEW new, SetRow(r, new),
         loose' = loose \/ loose' = loose \cup {r},
         r \notin loose =>
           \/ r \in loose' /\ Shows(r, row[r]) = "maybe"
           \/ r \notin loose' /\ Shows(r, new) = Shows(r, row[r])
           \/ r \notin loose' /\ Shows(r, row[r]) = "maybe"
                /\ Shows(r, new) = IF copies[r] = 1 THEN "yes" ELSE "no"
  PROVE  [Abstract!Next]_Abstract!vars
<1>1. row'[r] = new /\ \A q \in Record \ {r} : row'[q] = row[q]
  BY DEF SetRow, TypeOK
<1>2. \A q \in Record \ {r} : Known(q)' = Known(q)
  BY <1>1, KnownIsShown
<1>3. CASE r \in loose \/ (r \notin loose' /\ Shows(r, new) = Shows(r, row[r]))
  BY <1>1, <1>3, Invisible
<1>4. CASE r \notin loose /\ r \in loose' /\ Shows(r, row[r]) = "maybe"
  <2>1. Known(r) = "maybe" /\ Known(r)' = "lost"
    BY <1>4, KnownIsShown
  <2>2. Abstract!Lose(r)
    BY <1>2, <2>1 DEF Abstract!Lose
  <2>. QED
    BY <2>2 DEF Abstract!Next
<1>5. CASE /\ r \notin loose /\ r \notin loose' /\ Shows(r, row[r]) = "maybe"
           /\ Shows(r, new) = IF copies[r] = 1 THEN "yes" ELSE "no"
  <2>1. Known(r) = "maybe" /\ Known(r)' = IF copies[r] = 1 THEN "yes" ELSE "no"
    BY <1>1, <1>5, KnownIsShown
  <2>2. Abstract!Settle(r)
    BY <1>2, <2>1 DEF Abstract!Settle
  <2>. QED
    BY <2>2 DEF Abstract!Next
<1>. QED
  BY <1>3, <1>4, <1>5

(* A row in doubt shows whether it is about a create; one that is settled  *)
(* shows what it claims.                                                   *)
LEMMA DoubtShows ==
  ASSUME IInv, NEW r \in Record, InDoubt(r)
  PROVE  /\ row[r].op \in {"CREATE", "UPDATE"} /\ row[r].outcome = "UNRESOLVED"
         /\ Shows(r, row[r]) = IF row[r].op = "CREATE" THEN "maybe" ELSE "no"
<1>1. Describes(r, row[r]) /\ Doubtful(row[r])
  BY DoubtIsInDoubt DEF IInv, DoubtIsDescribed
<1>. QED
  BY <1>1 DEF Shows, Describes

(* Of a row in doubt about an update nothing was created.                  *)
LEMMA UpdateIsAbsent ==
  ASSUME TypeOK, IInv, NEW r \in Record \ loose, row[r].outcome = "UNRESOLVED", row[r].op = "UPDATE"
  PROVE  copies[r] = 0 /\ stray[r] = 0
BY TypeOKNats DEF IInv, Accounted, Claims

(* What a search by the evidence of an intent finds is the record the run  *)
(* created, if it created it.                                              *)
LEMMA FoundIsOwn ==
  ASSUME TypeOK, IInv, Sole, NEW r \in Record, InDoubt(r), row[r].op = "CREATE",
         ~NoEvidence(r), copies[r] > 0, NEW t \in Found(r)
  PROVE  t = <<"new", r>>
<1>1. row[r].ev = Evidence[r]
  BY DoubtIsInDoubt DEF IInv, DoubtIsDescribed, Describes
<1>2. Evidence[r] \in {"PRESERVED_ID", "ALTERNATE_KEY", "BUSINESS_KEY"}
  BY <1>1, ProtocolAssumption DEF NoEvidence
<1>3. <<"new", r>> \in Found(r)
  BY <1>2 DEF Found, Keyed
<1>4. CASE Enforced(r)
  BY <1>3, <1>4 DEF Sole
<1>5. CASE Evidence[r] = "BUSINESS_KEY"
  BY <1>1, <1>3, <1>5 DEF NoEvidence, Several
<1>. QED
  BY <1>2, <1>4, <1>5 DEF Enforced

LEMMA ReconcileSettles ==
  ASSUME TypeOK, IInv, Sole, NEW r \in Record, Reconcile(r)
  PROVE  [Abstract!Next]_Abstract!vars
<1>1. InDoubt(r) /\ UNCHANGED copies /\ copies[r] \in Nat /\ stray[r] \in Nat
  BY TypeOKNats DEF Reconcile, IInv, InPlace, target
<1>2. loose' = loose \/ loose' = loose \cup {r}
  BY DEF Reconcile, Concluded
<1>. DEFINE Settled(o, w, t) == [row[r] EXCEPT !.outcome = o, !.ws = w,
                                               !.tid = IF t = None THEN @ ELSE t]
<1>3. ASSUME NEW o, NEW w, NEW t
      PROVE  /\ Settled(o, w, t).outcome = o /\ Settled(o, w, t).ws = w
             /\ Settled(o, w, t).op = row[r].op
             /\ t # None => Settled(o, w, t).tid = t
  BY DEF TypeOK, Row
<1>4. ASSUME NEW o, NEW w, NEW t, Settle(r, o, w, t),
             r \notin loose =>
               \/ r \in loose' /\ Shows(r, row[r]) = "maybe"
               \/ r \notin loose' /\ Shows(r, Settled(o, w, t)) = Shows(r, row[r])
               \/ r \notin loose' /\ Shows(r, row[r]) = "maybe"
                    /\ Shows(r, Settled(o, w, t)) = IF copies[r] = 1 THEN "yes" ELSE "no"
      PROVE  [Abstract!Next]_Abstract!vars
  <2>1. SetRow(r, Settled(o, w, t))
    BY <1>4 DEF Settle
  <2>. HIDE DEF Settled
  <2>. QED
    BY <1>1, <1>2, <1>4, <2>1, VisibleSettle
<1>. HIDE DEF Settled
<1>5. /\ row[r].op \in {"CREATE", "UPDATE"}
      /\ Shows(r, row[r]) = IF row[r].op = "CREATE" THEN "maybe" ELSE "no"
      /\ row[r].outcome = "UNRESOLVED"
  BY <1>1, DoubtShows
<1>6. ASSUME NEW o, NEW t, o # "CREATED" PROVE Shows(r, Settled(o, "NONE", t)) = "no"
  BY <1>3, <1>6 DEF Shows, Doubtful
<1>7. CASE ~NeedsSearch(r)
  <2>1. Settle(r, "FAILED", "NONE", None) /\ UNCHANGED loose
    BY <1>7 DEF Reconcile
  <2>. QED
    BY <1>4, <1>5, <1>6, <1>7, <2>1 DEF NeedsSearch
<1>8. CASE Settle(r, "UNRESOLVED", "RECONCILIATION_REQUIRED", None) /\ UNCHANGED loose
  <2>1. Shows(r, Settled("UNRESOLVED", "RECONCILIATION_REQUIRED", None)) = Shows(r, row[r])
    BY <1>3, <1>5 DEF Shows, Doubtful
  <2>. QED
    BY <1>4, <1>8, <2>1
<1>. DEFINE Searched == NeedsSearch(r) /\ ~NoEvidence(r) /\ Concluded(r)
<1>9. ASSUME Searched, NEW o, NEW w, NEW t, Settle(r, o, w, t), row[r].op = "CREATE",
             r \notin loose => Shows(r, Settled(o, w, t)) = IF copies[r] = 1 THEN "yes" ELSE "no"
      PROVE  [Abstract!Next]_Abstract!vars
  BY <1>4, <1>5, <1>9
<1>10. ASSUME Searched, NEW o, NEW w, NEW t, Settle(r, o, w, t), row[r].op = "UPDATE",
              Shows(r, Settled(o, w, t)) = "no"
       PROVE  [Abstract!Next]_Abstract!vars
  <2>1. r \notin loose => r \notin loose'
    BY <1>5, <1>10, UpdateIsAbsent DEF Concluded
  <2>. QED
    BY <1>4, <1>5, <1>10, <2>1
<1>11. CASE Searched /\ Found(r) = {} /\ Settle(r, "FAILED", "NONE", None)
  <2>1. r \notin loose => copies[r] = 0
    BY <1>1, <1>11, NotFoundIsAbsent
  <2>. QED
    BY <1>5, <1>6, <1>9, <1>10, <1>11, <2>1
<1>. DEFINE o == IF row[r].op = "UPDATE" THEN "UPDATED" ELSE "CREATED"
<1>12. CASE Searched /\ \E t \in Found(r) : Settle(r, o, "CONFIRMED", t)
  <2>1. PICK t \in Found(r) : Settle(r, o, "CONFIRMED", t)
    BY <1>12
  <2>2. t # None
    BY FoundIsTarget, ProtocolAssumption DEF TargetId
  <2>3. CASE row[r].op = "UPDATE"
    <3>1. Shows(r, Settled("UPDATED", "CONFIRMED", t)) = "no"
      BY <1>3 DEF Shows, Doubtful
    <3>. QED
      BY <1>10, <1>12, <2>1, <2>3, <3>1
  <2>4. CASE row[r].op = "CREATE"
    <3>1. Shows(r, Settled("CREATED", "CONFIRMED", t)) = IF t = <<"new", r>> THEN "yes" ELSE "no"
      <4>. DEFINE new == Settled("CREATED", "CONFIRMED", t)
      <4>1. new.outcome = "CREATED" /\ new.ws = "CONFIRMED" /\ new.tid = t
        BY <1>3, <2>2
      <4>. HIDE DEF new
      <4>2. Shows(r, new) = IF t = <<"new", r>> THEN "yes" ELSE "no"
        BY <4>1 DEF Shows, Doubtful
      <4>. QED
        BY <4>2 DEF new
    <3>2. t = <<"new", r>> => copies[r] > 0
      BY DEF Found
    <3>3. copies[r] > 0 => t = <<"new", r>>
      BY <1>1, <1>12, <2>4, FoundIsOwn
    <3>4. r \notin loose => copies[r] \in {0, 1}
      BY <1>1 DEF IInv, Accounted, Claims
    <3>5. r \notin loose =>
            Shows(r, Settled("CREATED", "CONFIRMED", t)) = IF copies[r] = 1 THEN "yes" ELSE "no"
      BY <1>1, <3>1, <3>2, <3>3, <3>4
    <3>. QED
      BY <1>9, <1>12, <2>1, <2>4, <3>5
  <2>. QED
    BY <1>5, <2>3, <2>4
<1>. QED
  BY <1>7, <1>8, <1>11, <1>12 DEF Reconcile

LEMMA HandSettles ==
  ASSUME TypeOK, IInv, NEW r \in Record, ReconcileByHand(r)
  PROVE  [Abstract!Next]_Abstract!vars
<1>1. /\ InDoubt(r) /\ UNCHANGED copies /\ copies[r] \in Nat /\ stray[r] \in Nat
      /\ Concluded(r)
  BY TypeOKNats DEF ReconcileByHand
<1>2. /\ loose' = loose \/ loose' = loose \cup {r}
      /\ r \in loose' => r \in loose \/ stray[r] > 0
  BY <1>1 DEF Concluded
<1>3. /\ row[r].op \in {"CREATE", "UPDATE"} /\ row[r].outcome = "UNRESOLVED"
      /\ Shows(r, row[r]) = IF row[r].op = "CREATE" THEN "maybe" ELSE "no"
  BY <1>1, DoubtShows
<1>4. r \notin loose /\ row[r].op = "UPDATE" => copies[r] = 0 /\ stray[r] = 0
  BY <1>3, UpdateIsAbsent
<1>5. r \notin loose => copies[r] \in {0, 1}
  BY <1>1 DEF IInv, Accounted, Claims
<1>6. ASSUME NEW new, SetRow(r, new), new.ws \in {"NONE", "CONFIRMED"},
             new.outcome = "CREATED" /\ new.tid = <<"new", r>> <=> copies[r] > 0
      PROVE  [Abstract!Next]_Abstract!vars
  <2>1. Shows(r, new) = IF copies[r] > 0 THEN "yes" ELSE "no"
    BY <1>6 DEF Shows, Doubtful
  <2>. QED
    BY <1>1, <1>2, <1>3, <1>4, <1>5, <1>6, <2>1, VisibleSettle
<1>7. \A t \in Seen(r) : t = <<"new", r>> <=> copies[r] > 0
  BY <1>1 DEF Seen, Found
<1>8. ASSUME NEW t \in Seen(r),
             SetRow(r, [row[r] EXCEPT !.outcome = "CREATED", !.ws = "CONFIRMED", !.tid = t])
      PROVE  [Abstract!Next]_Abstract!vars
  <2>. DEFINE new == [row[r] EXCEPT !.outcome = "CREATED", !.ws = "CONFIRMED", !.tid = t]
  <2>1. new.outcome = "CREATED" /\ new.ws = "CONFIRMED" /\ new.tid = t /\ SetRow(r, new)
    BY <1>8 DEF TypeOK, Row
  <2>. HIDE DEF new
  <2>. QED
    BY <1>6, <1>7, <1>8, <2>1
<1>9. ASSUME Seen(r) = {},
             SetRow(r, [row[r] EXCEPT !.outcome = "FAILED", !.ws = "NONE", !.tid = None])
      PROVE  [Abstract!Next]_Abstract!vars
  <2>. DEFINE new == [row[r] EXCEPT !.outcome = "FAILED", !.ws = "NONE", !.tid = None]
  <2>1. new.outcome = "FAILED" /\ new.ws = "NONE" /\ SetRow(r, new)
    BY <1>9 DEF TypeOK, Row
  <2>2. ~(copies[r] > 0)
    <3>1. copies[r] > 0 => <<"new", r>> \in Seen(r)
      BY DEF Seen
    <3>. QED
      BY <1>9, <3>1
  <2>. HIDE DEF new
  <2>. QED
    BY <1>6, <2>1, <2>2
<1>. QED
  BY <1>8, <1>9 DEF ReconcileByHand

LEMMA IntendAnnounces ==
  ASSUME TypeInv, IInv, Intend
  PROVE  [Abstract!Next]_Abstract!vars
<1>. DEFINE S == {r \in Record \ loose : step[r] = "ready" /\ plan[r].do = "CREATE"}
<1>1. UNCHANGED <<copies, loose>> /\ stage = "decided"
  BY DEF Intend, target
<1>2. \A r \in Record : /\ step[r] # "ready" => row'[r] = row[r]
                        /\ step[r] = "ready" => row'[r] = Intent(r)
  BY DEF Intend
<1>3. ASSUME NEW r \in Record, step[r] = "ready"
      PROVE  /\ Shows(r, row[r]) = "no" /\ plan[r].do \in {"CREATE", "UPDATE"}
             /\ Shows(r, row'[r]) = IF plan[r].do = "CREATE" THEN "maybe" ELSE "no"
  <2>1. Pending(r) /\ plan[r].do \in {"CREATE", "UPDATE"}
    BY <1>1, <1>3 DEF IInv, DecidedIsPending
  <2>2. Shows(r, row[r]) = "no"
    BY <2>1 DEF IInv, DoubtIsDescribed, Describes, Pending, InDoubt, Shows, Doubtful
  <2>3. /\ row'[r].outcome = "UNRESOLVED" /\ row'[r].ws = "INTENDED"
        /\ row'[r].op = plan[r].do
    BY <1>3 DEF Intend, Intent
  <2>4. Shows(r, row'[r]) = IF plan[r].do = "CREATE" THEN "maybe" ELSE "no"
    BY <2>3 DEF Shows, Doubtful
  <2>. QED
    BY <2>1, <2>2, <2>4
<1>4. \A r \in (Record \ loose) \ S : Shows(r, row'[r]) = Shows(r, row[r])
  BY <1>2, <1>3
<1>5. \A r \in S : Known(r) = "no" /\ Known(r)' = "maybe"
  BY <1>1, <1>3, KnownIsShown
<1>6. \A r \in Record \ S : Known(r)' = Known(r)
  BY <1>1, <1>4, KnownIsShown
<1>7. CASE S = {}
  BY <1>1, <1>4, <1>7, Invisible
<1>8. CASE S # {}
  <2>1. S \subseteq Record
    OBVIOUS
  <2>. HIDE DEF S
  <2>2. Abstract!Announce(S)
    BY <1>1, <1>5, <1>6, <1>8, <2>1 DEF Abstract!Announce
  <2>. QED
    BY <2>1, <2>2 DEF Abstract!Next
<1>. QED
  BY <1>7, <1>8

(* The target executes a create of a record in doubt, or may still: the    *)
(* record is written, or it is lost.                                       *)
LEMMA CreateWrites ==
  ASSUME TypeOK, NEW r \in Record, UNCHANGED row, Create(r) \/ UNCHANGED copies,
         loose' = loose \/ loose' = loose \cup {r},
         r \notin loose => copies[r] = 0 /\ Shows(r, row[r]) = "maybe"
  PROVE  [Abstract!Next]_Abstract!vars
<1>1. \A q \in Record \ {r} : Known(q)' = Known(q)
  BY KnownIsShown
<1>2. CASE loose' = loose /\ UNCHANGED copies
  BY <1>2, RowsUnchanged
<1>3. CASE r \notin loose /\ r \in loose'
  <2>1. Known(r) = "maybe" /\ Known(r)' = "lost"
    BY <1>3, KnownIsShown
  <2>2. Abstract!Again(r) \/ UNCHANGED copies
    BY DEF Create, Abstract!Again
  <2>3. Abstract!Lose(r)
    BY <1>1, <2>1, <2>2 DEF Abstract!Lose
  <2>. QED
    BY <2>3 DEF Abstract!Next
<1>4. CASE r \in loose /\ Create(r)
  <2>1. Known(r) = "lost" /\ loose' = loose /\ Abstract!Again(r)
    BY <1>4, KnownIsShown DEF Create, Abstract!Again
  <2>2. \A q \in Record : Known(q)' = Known(q)
    BY <2>1, KnownIsShown
  <2>3. Abstract!WriteLost(r)
    BY <2>1, <2>2 DEF Abstract!WriteLost
  <2>. QED
    BY <2>3 DEF Abstract!Next
<1>5. CASE r \notin loose /\ loose' = loose /\ Create(r)
  <2>1. Known(r) = "maybe" /\ copies[r] = 0 /\ \A q \in Record : Known(q)' = Known(q)
    BY <1>5, KnownIsShown
  <2>2. copies' = [copies EXCEPT ![r] = 1]
    BY <1>5, <2>1 DEF Create
  <2>3. Abstract!Write(r)
    BY <2>1, <2>2 DEF Abstract!Write
  <2>. QED
    BY <2>3 DEF Abstract!Next
<1>. QED
  BY <1>2, <1>3, <1>4, <1>5

(* What a request that was sent, and one nobody waits for, are about.      *)
LEMMA SentIsMaybe ==
  ASSUME TypeOK, IInv, NEW r \in Record \ loose, Creating(r) \/ stray[r] > 0
  PROVE  copies[r] = 0 /\ Shows(r, row[r]) = "maybe"
<1>1. CASE Creating(r)
  <2>1. stage = "act"
    BY <1>1 DEF Creating, IInv, InPlace, DecidedIsPending
  <2>2. row[r].ws = "INTENDED" /\ row[r].op = "CREATE" /\ copies[r] + stray[r] = 0
    BY <1>1, <2>1 DEF Creating, IInv, ActIsIntended
  <2>3. InDoubt(r)
    BY <2>2 DEF InDoubt
  <2>. QED
    BY <2>2, <2>3, DoubtShows, TypeOKNats
<1>2. CASE stray[r] > 0
  <2>1. copies[r] = 0 /\ InDoubt(r) /\ row[r].op = "CREATE"
    BY <1>2, TypeOKNats, DoubtIsInDoubt DEF IInv, Accounted, Claims
  <2>. QED
    BY <2>1, DoubtShows
<1>. QED
  BY <1>1, <1>2

LEMMA PersistSettles ==
  ASSUME TypeOK, IInv, NEW r \in Record, Persist(r)
  PROVE  [Abstract!Next]_Abstract!vars
<1>1. /\ stage = "act" /\ step[r] \in Outcome /\ UNCHANGED <<copies, loose>>
      /\ SetRow(r, Result(r))
  BY DEF Persist, target
<1>2. step[r] \in {"CREATED", "UNRESOLVED"} =>
        /\ row[r].op = "CREATE" /\ InDoubt(r)
        /\ Shows(r, row[r]) = "maybe"
  <2>1. step[r] \in {"CREATED", "UNRESOLVED"} => row[r].op = "CREATE" /\ InDoubt(r)
    BY <1>1 DEF IInv, ActIsIntended, InDoubt
  <2>. QED
    BY <2>1, DoubtShows
<1>3. ASSUME r \notin loose =>
               \/ Shows(r, Result(r)) = Shows(r, row[r])
               \/ Shows(r, row[r]) = "maybe"
                    /\ Shows(r, Result(r)) = IF copies[r] = 1 THEN "yes" ELSE "no"
      PROVE  [Abstract!Next]_Abstract!vars
  BY <1>1, <1>3, VisibleSettle
<1>4. CASE step[r] = "CREATED"
  <2>1. r \notin loose => copies[r] = 1
    BY <1>1, <1>4 DEF IInv, ActIsIntended
  <2>2. Shows(r, Result(r)) = "yes"
    BY <1>4 DEF Result, Shows
  <2>. QED
    BY <1>2, <1>3, <1>4, <2>1, <2>2
<1>5. CASE step[r] = "UNRESOLVED"
  <2>1. Shows(r, Result(r)) = "maybe"
    BY <1>5 DEF Result, Shows, Doubtful
  <2>. QED
    BY <1>2, <1>3, <1>5, <2>1
<1>6. CASE step[r] \in {"UPDATED", "SKIPPED", "FAILED"}
  <2>1. r \notin loose => copies[r] = 0
    BY <1>1, <1>6, TypeOKNats DEF IInv, ActIsIntended
  <2>2. row[r].outcome # "CREATED"
    BY <1>1, <1>6 DEF IInv, ActIsIntended
  <2>3. Shows(r, row[r]) \in {"no", "maybe"} /\ Shows(r, Result(r)) = "no"
    BY <1>6, <2>2 DEF Result, Shows, Doubtful
  <2>. QED
    BY <1>3, <2>1, <2>3
<1>. QED
  BY <1>1, <1>4, <1>5, <1>6 DEF Outcome

(* Every step is a step of WriteOnce, or nothing it can see.               *)
LEMMA StepRefines ==
  ASSUME TypeInv, IInv, Sole, [Next]_vars
  PROVE  [Abstract!Next]_Abstract!vars
<1>. USE DEF target, ledger, execution
<1>. TypeOK
  BY DEF TypeInv
<1>1. ASSUME \/ Start \/ Abort \/ Crash \/ OpenTable \/ Reconciled \/ Decide
             \/ EndPage \/ EndTable \/ PageFails \/ Finish \/ Retry \/ Resume
             \/ \E as \in {"CANCELLED", "PAUSED"} : Interrupt(as)
      PROVE  [Abstract!Next]_Abstract!vars
  BY <1>1, RowsUnchanged
  DEF Start, Abort, Crash, OpenTable, Reconciled, Decide, EndPage, EndTable, PageFails,
      Finish, Retry, Resume, Interrupt
<1>2. ASSUME NEW r \in Record, \/ Send(r) \/ Refuse(r) \/ Update(r) \/ SetReference(r)
                               \/ Fatal(r) \/ StrayLost(r)
      PROVE  [Abstract!Next]_Abstract!vars
  BY <1>2, RowsUnchanged DEF Send, Refuse, Update, SetReference, Fatal, StrayLost
<1>3. ASSUME NEW r \in Record, Reconcile(r) PROVE [Abstract!Next]_Abstract!vars
  BY <1>3, ReconcileSettles
<1>4. ASSUME NEW r \in Record, ReconcileByHand(r) PROVE [Abstract!Next]_Abstract!vars
  BY <1>4, HandSettles
<1>5. ASSUME Intend PROVE [Abstract!Next]_Abstract!vars
  BY <1>5, IntendAnnounces
<1>6. ASSUME NEW r \in Record, Accept(r) \/ AnswerLost(r) \/ StrayCreate(r)
      PROVE  [Abstract!Next]_Abstract!vars
  <2>1. /\ Creating(r) \/ stray[r] > 0
        /\ UNCHANGED row /\ (Create(r) \/ UNCHANGED copies)
        /\ loose' = loose \/ loose' = loose \cup {r}
    BY <1>6 DEF Accept, AnswerLost, StrayCreate, Repeated
  <2>. QED
    BY <2>1, SentIsMaybe, CreateWrites
<1>7. ASSUME NEW r \in Record, Persist(r) PROVE [Abstract!Next]_Abstract!vars
  BY <1>7, PersistSettles
<1>8. ASSUME NEW r \in Record, NEW as \in {"RESOLVED", "INCOMPLETE", "FAILED"},
             RecordDeferred(r, as)
      PROVE  [Abstract!Next]_Abstract!vars
  <2>. DEFINE new == [row[r] EXCEPT !.def = as]
  <2>1. SetRow(r, new) /\ UNCHANGED <<copies, loose>>
    BY <1>8 DEF RecordDeferred
  <2>2. Shows(r, new) = Shows(r, row[r])
    BY DEF Shows, Doubtful, TypeOK, Row
  <2>. HIDE DEF new
  <2>. QED
    BY <2>1, <2>2, VisibleSettle
<1>9. ASSUME UNCHANGED vars PROVE [Abstract!Next]_Abstract!vars
  BY <1>9, RowsUnchanged DEF vars
<1>. QED
  BY <1>1, <1>2, <1>3, <1>4, <1>5, <1>6, <1>7, <1>8, <1>9
  DEF Next, ExecutionStep, RecordStep, Disturbance, Request

(* The write protocol implements WriteOnce, whatever the source, the keys, *)
(* the strategy, the attempts and the faults: no create without a row that *)
(* announces it, no second one and no verdict the target contradicts, but  *)
(* of a record that is lost, and only a record in doubt is.                *)
THEOREM WritesOnce == Spec => ImplementsWriteOnce
<1>1. Init => Abstract!Init
  BY DEF Init, Abstract!Init, Known, InDoubt, NoRow
<1>2. TypeInv /\ IInv /\ Sole /\ [Next]_vars => [Abstract!Next]_Abstract!vars
  BY StepRefines
<1>. QED
  BY <1>1, <1>2, RInvariant, PTL DEF Spec, ImplementsWriteOnce, Abstract!Spec
=============================================================================
