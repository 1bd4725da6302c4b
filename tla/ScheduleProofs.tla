--------------------------- MODULE ScheduleProofs ---------------------------
(* Proofs about Schedule, for every set of schedules, workers and clients, *)
(* every calendar and every bound; and about Incremental, for every set of *)
(* runs, tables, keys, failures and comparison of watermarks.              *)
EXTENDS Schedule, Incremental, FiniteSetTheorems, WellFoundedInduction, TLAPS

-----------------------------------------------------------------------------
(* Types, and the times the memory of a party comes from.                  *)

\* Whoever works on a schedule has read its row.
HasRead == \A p \in Party : at[p] \in Firing \cup Editing => seen[p] \in Snapshot

\* A tick is of the past, and what it found due was due then.
TimeInv ==
  /\ clock \in 0..MaxTime
  /\ \A p \in Party : tickTime[p] <= clock
  /\ \A p \in Party : \A read \in due[p] : read.slot \in Nat /\ read.slot <= tickTime[p]

TypeInv == TypeOK /\ HasRead /\ TimeInv

LEMMA NextSlotType ==
  ASSUME NEW s \in Sched, NEW t \in 0..MaxTime
  PROVE  /\ NextSlot(s, t) \in Nat \cup {None}
         /\ NextSlot(s, t) # None => NextSlot(s, t) > t
BY ScheduleAssumption

LEMMA ReadType ==
  ASSUME TypeOK, NEW s \in Sched
  PROVE  Read(s) \in Snapshot /\ Read(s).sched = s /\ Read(s).failures = failures[s]
BY DEF TypeOK, Read, Snapshot

\* The memory of a party is in order after each way of setting it.
LEMMA BeginType ==
  ASSUME TypeInv, NEW p \in Party, NEW read \in Snapshot,
         NEW where \in Firing \cup Editing, Begin(p, read, where)
  PROVE  /\ at' \in [Party -> Place] /\ seen' \in [Party -> Snapshot \cup {None}]
         /\ overlapped' \subseteq Sched /\ HasRead'
<1>1. /\ at' = [at EXCEPT ![p] = where] /\ seen' = [seen EXCEPT ![p] = read]
      /\ overlapped' \in {overlapped, overlapped \cup {read.sched}}
  BY DEF Begin
<1>2. read.sched \in Sched
  BY DEF Snapshot
<1> QED BY <1>1, <1>2 DEF TypeInv, TypeOK, HasRead, Place

LEMMA LeaveType ==
  ASSUME TypeInv, NEW p \in Party, Leave(p)
  PROVE  /\ at' \in [Party -> Place] /\ seen' \in [Party -> Snapshot \cup {None}]
         /\ HasRead'
<1>1. /\ at' = [at EXCEPT ![p] = IF p \in Scheduler THEN "looping" ELSE "idle"]
      /\ seen' = [seen EXCEPT ![p] = None]
  BY DEF Leave
<1>2. at' \in [Party -> Place] /\ at'[p] \notin Firing \cup Editing
  BY <1>1 DEF TypeInv, TypeOK, Place, Firing, Editing
<1> QED BY <1>1, <1>2 DEF TypeInv, TypeOK, HasRead

LEMMA AbandonType ==
  ASSUME TypeInv, NEW p \in Party, Abandon(p), UNCHANGED clock
  PROVE  /\ at' \in [Party -> Place] /\ seen' \in [Party -> Snapshot \cup {None}]
         /\ due' \in [Party -> SUBSET Snapshot] /\ tickTime' = tickTime
         /\ HasRead' /\ TimeInv'
<1>1. /\ at' = [at EXCEPT ![p] = "idle"] /\ seen' = [seen EXCEPT ![p] = None]
      /\ due' = [due EXCEPT ![p] = {}] /\ tickTime' = tickTime
  BY DEF Abandon
<1>2. at' \in [Party -> Place] /\ at'[p] \notin Firing \cup Editing
  BY <1>1 DEF TypeInv, TypeOK, Place, Firing, Editing
<1> QED BY <1>1, <1>2 DEF TypeInv, TypeOK, HasRead, TimeInv

\* A party is through with one row of its tick.
LEMMA NextRowType ==
  ASSUME TypeInv, NEW w \in Party, NEW read, due' = [due EXCEPT ![w] = @ \ {read}],
         UNCHANGED <<clock, tickTime>>
  PROVE  due' \in [Party -> SUBSET Snapshot] /\ TimeInv'
BY DEF TypeInv, TypeOK, TimeInv

LEMMA StepTypeInv == TypeInv /\ [Next]_vars => TypeInv'
<1> SUFFICES ASSUME TypeInv, [Next]_vars PROVE TypeInv'
  OBVIOUS
<1> USE DEF TypeInv
<1>0. Scheduler \subseteq Party /\ Client \subseteq Party
  BY DEF Party
<1>1. ASSUME NEW s \in Sched, NEW on \in BOOLEAN, Create(s, on) PROVE TypeInv'
  <2>1. TimeFor(s, on) \in Nat \cup {None} /\ (~on => TimeFor(s, on) = None)
    BY NextSlotType DEF TimeFor, TimeInv
  <2>2. TypeOK'
    BY <1>1, <2>1 DEF Create, TypeOK, memory, history
  <2> QED BY <1>1, <2>2 DEF Create, HasRead, TimeInv, memory, history
<1>2. ASSUME NEW c \in Client, NEW s \in Sched, NEW what \in Firing \cup Editing, Ask(c, s, what)
      PROVE  TypeInv'
  <2>1. Begin(c, Read(s), what) /\ Read(s) \in Snapshot
    BY <1>2, ReadType DEF Ask
  <2>2. /\ at' \in [Party -> Place] /\ seen' \in [Party -> Snapshot \cup {None}]
        /\ overlapped' \subseteq Sched /\ HasRead'
    BY <1>0, <2>1, BeginType
  <2> QED BY <1>2, <2>2 DEF Ask, TypeOK, TimeInv, row
<1>3. ASSUME NEW c \in Client, Edit(c) PROVE TypeInv'
  <2> DEFINE s == seen[c].sched
  <2>1. seen[c] \in Snapshot /\ s \in Sched /\ seen[c].failures \in Nat
    BY <1>3, <1>0 DEF Edit, HasRead, Snapshot
  <2>2. TimeFor(s, TurnsOn(c)) \in Nat \cup {None} /\ TurnsOn(c) \in BOOLEAN
        /\ (~TurnsOn(c) => TimeFor(s, TurnsOn(c)) = None)
    BY <2>1, NextSlotType DEF TimeFor, TimeInv, TurnsOn, Snapshot
  <2>3. /\ at' \in [Party -> Place] /\ seen' \in [Party -> Snapshot \cup {None}] /\ HasRead'
    BY <1>3, <1>0, LeaveType DEF Edit
  <2>4. /\ enabled' \in [Sched -> BOOLEAN] /\ nextRunAt' \in [Sched -> Nat \cup {None}]
        /\ failures' \in [Sched -> Nat] /\ streak' \in [Sched -> Nat]
        /\ \A r \in Sched : ~enabled'[r] => nextRunAt'[r] = None
    <3>1. CASE s \notin present
      BY <1>3, <3>1 DEF Edit, TypeOK
    <3>2. CASE s \in present
      <4>1. /\ enabled' = [enabled EXCEPT ![s] = TurnsOn(c)]
            /\ nextRunAt' = [nextRunAt EXCEPT ![s] = TimeFor(s, TurnsOn(c))]
        BY <1>3, <3>2 DEF Edit
      <4>2. enabled' \in [Sched -> BOOLEAN] /\ nextRunAt' \in [Sched -> Nat \cup {None}]
        BY <2>1, <2>2, <4>1 DEF TypeOK
      <4>3. failures' \in [Sched -> Nat] /\ streak' \in [Sched -> Nat]
        <5>1. /\ failures' = [failures EXCEPT ![s] = IF Resets(c) THEN 0 ELSE seen[c].failures]
              /\ \/ streak' = [streak EXCEPT ![s] = 0]
                 \/ streak' = streak
          <6>1. streak' = [streak EXCEPT ![s] = IF TurnsOn(c) /\ ~seen[c].enabled THEN 0 ELSE @]
            BY <1>3, <3>2 DEF Edit
          <6>2. streak = [streak EXCEPT ![s] = streak[s]]
            BY DEF TypeOK
          <6> QED BY <1>3, <3>2, <6>1, <6>2 DEF Edit
        <5>2. (IF Resets(c) THEN 0 ELSE seen[c].failures) \in Nat
          BY <2>1
        <5>3. failures' \in [Sched -> Nat]
          BY <5>1, <5>2 DEF TypeOK
        <5>4. streak' \in [Sched -> Nat]
          <6> streak \in [Sched -> Nat]
            BY DEF TypeOK
          <6>1. CASE streak' = [streak EXCEPT ![s] = 0]
            BY <6>1
          <6>2. CASE streak' = streak
            BY <6>2
          <6> QED BY <5>1, <6>1, <6>2
        <5> QED BY <5>3, <5>4
      <4>4. ASSUME NEW r \in Sched, ~enabled'[r] PROVE nextRunAt'[r] = None
        <5>1. CASE r = s
          BY <2>1, <2>2, <4>1, <4>4, <5>1 DEF TypeOK
        <5>2. CASE r # s
          BY <2>1, <4>1, <4>4, <5>2 DEF TypeOK
        <5> QED BY <5>1, <5>2
      <4> QED BY <4>2, <4>3, <4>4
    <3> QED BY <3>1, <3>2
  <2> QED BY <1>3, <2>3, <2>4 DEF Edit, TypeOK, TimeInv, bounds
<1>4. ASSUME NEW s \in Sched, Remove(s) PROVE TypeInv'
  BY <1>4 DEF Remove, TypeOK, HasRead, TimeInv, memory, history
<1>5. ASSUME NEW w \in Scheduler, Poll(w) PROVE TypeInv'
  <2> DEFINE found == {Read(s) : s \in {r \in Sched : Due(r, clock)}}
  <2>1. /\ tickTime' = [tickTime EXCEPT ![w] = clock] /\ due' = [due EXCEPT ![w] = found]
        /\ at' = [at EXCEPT ![w] = "looping"]
        /\ UNCHANGED <<clock, row, orphan, seen, history, bounds>>
    BY <1>5 DEF Poll
  <2>2. \A read \in found : read \in Snapshot /\ read.slot \in Nat /\ read.slot <= clock
    BY ReadType DEF Due, Read, TypeOK, TimeInv
  <2> HIDE DEF found
  <2>3. TypeOK'
    BY <1>0, <2>1, <2>2 DEF TypeOK, TimeInv, row, history, bounds, Place
  <2>4. HasRead'
    BY <1>0, <2>1 DEF HasRead, TypeOK, Firing, Editing
  <2>5. TimeInv'
    BY <1>0, <2>1, <2>2 DEF TimeInv, TypeOK
  <2> QED BY <2>3, <2>4, <2>5
<1>6. ASSUME NEW w \in Scheduler, NEW read \in due[w], Claim(w, read) PROVE TypeInv'
  <2> DEFINE s == read.sched
  <2>1. read \in Snapshot /\ s \in Sched /\ read.slot \in Nat /\ tickTime[w] \in 0..MaxTime
    <3>1. w \in Party /\ due[w] \subseteq Snapshot
      BY <1>0 DEF TypeOK
    <3>2. read \in Snapshot /\ s \in Sched
      BY <3>1 DEF Snapshot
    <3>3. read.slot \in Nat /\ tickTime[w] <= clock /\ tickTime[w] \in Nat
      BY <3>1 DEF TimeInv, TypeOK
    <3> QED BY <3>2, <3>3, ScheduleAssumption DEF TimeInv
  <2>2. nextRunAt' \in [Sched -> Nat \cup {None}] /\ \A r \in Sched : ~enabled[r] => nextRunAt'[r] = None
    BY <1>6, <2>1, NextSlotType DEF Claim, StillDue, MoveOn, TypeOK
  <2>3. claims' \in [Sched -> Seq(Nat)]
    BY <1>6, <2>1 DEF Claim, TypeOK
  <2>4. CASE s \in orphan
    BY <1>6, <1>0, <2>2, <2>3, <2>4, AbandonType DEF Claim, TypeOK, bounds
  <2>5. CASE s \notin orphan
    <3>1. /\ at' \in [Party -> Place] /\ seen' \in [Party -> Snapshot \cup {None}]
          /\ overlapped' \subseteq Sched /\ HasRead'
      BY <1>6, <1>0, <2>1, <2>5, BeginType DEF Claim, Firing
    <3>2. due' \in [Party -> SUBSET Snapshot] /\ TimeInv'
      BY <1>6, <1>0, <2>5, NextRowType DEF Claim
    <3> QED BY <1>6, <2>2, <2>3, <2>5, <3>1, <3>2 DEF Claim, TypeOK, bounds
  <2> QED BY <2>4, <2>5
<1>7. ASSUME NEW w \in Scheduler, NEW read \in due[w], ClaimedByOther(w, read) PROVE TypeInv'
  <2>1. due' \in [Party -> SUBSET Snapshot] /\ TimeInv'
    BY <1>7, <1>0, NextRowType DEF ClaimedByOther
  <2> QED BY <1>7, <2>1 DEF ClaimedByOther, TypeOK, HasRead, row, history, bounds
<1>8. ASSUME NEW w \in Scheduler, EndTick(w) PROVE TypeInv'
  BY <1>8, <1>0 DEF EndTick, TypeOK, HasRead, TimeInv, row, history, bounds, Place, Firing, Editing
<1>9. ASSUME NEW p \in Party, NEW outcome, Answer(p, outcome) PROVE TypeInv'
  <2>1. /\ seen[p].sched \in Sched /\ seen[p] \in Snapshot
    BY <1>9 DEF Answer, HasRead, Firing, Snapshot
  <2>2. at' \in [Party -> Place] /\ tried' \in [Sched -> Nat]
    BY <1>9, <2>1 DEF Answer, TypeOK, Place, Firing
  <2>3. HasRead'
    BY <1>9, <2>1 DEF Answer, HasRead, TypeOK
  <2> QED BY <1>9, <2>2, <2>3 DEF Answer, TypeOK, TimeInv, row, bounds
<1>10. ASSUME NEW p \in Party, RecordStarted(p) PROVE TypeInv'
  <2>1. at' \in [Party -> Place] /\ seen' \in [Party -> Snapshot \cup {None}] /\ HasRead'
    BY <1>10, LeaveType DEF RecordStarted
  <2>2. failures' \in [Sched -> Nat] /\ streak' \in [Sched -> Nat]
    BY <1>10 DEF RecordStarted, TypeOK
  <2> QED BY <1>10, <2>1, <2>2 DEF RecordStarted, TypeOK, TimeInv, bounds
<1>11. ASSUME NEW p \in Party, RecordSkipped(p) PROVE TypeInv'
  <2>1. at' \in [Party -> Place] /\ seen' \in [Party -> Snapshot \cup {None}] /\ HasRead'
    BY <1>11, LeaveType DEF RecordSkipped
  <2> QED BY <1>11, <2>1 DEF RecordSkipped, TypeOK, TimeInv, row, history, bounds
<1>12. ASSUME NEW p \in Party, RecordFailed(p) PROVE TypeInv'
  <2>1. at' \in [Party -> Place] /\ seen' \in [Party -> Snapshot \cup {None}] /\ HasRead'
    BY <1>12, LeaveType DEF RecordFailed
  <2>2. seen[p].sched \in Sched /\ seen[p].failures + 1 \in Nat
    BY <1>12 DEF RecordFailed, HasRead, Firing, Snapshot
  <2>3. /\ failures' \in [Sched -> Nat] /\ streak' \in [Sched -> Nat]
        /\ enabled' \in [Sched -> BOOLEAN] /\ nextRunAt' \in [Sched -> Nat \cup {None}]
        /\ \A r \in Sched : ~enabled'[r] => nextRunAt'[r] = None
    <3>1. CASE seen[p].sched \notin present
      BY <1>12, <3>1 DEF RecordFailed, TypeOK
    <3>2. CASE seen[p].sched \in present
      <4>1. failures' \in [Sched -> Nat] /\ streak' \in [Sched -> Nat]
        <5>1. /\ failures' = [failures EXCEPT ![seen[p].sched] = seen[p].failures + 1]
              /\ streak' = [streak EXCEPT ![seen[p].sched] = @ + 1]
          BY <1>12, <3>2 DEF RecordFailed
        <5> QED BY <2>2, <5>1 DEF TypeOK
      <4>2. \/ UNCHANGED <<enabled, nextRunAt>>
            \/ /\ enabled' = [enabled EXCEPT ![seen[p].sched] = FALSE]
               /\ nextRunAt' = [nextRunAt EXCEPT ![seen[p].sched] = None]
        BY <1>12, <3>2 DEF RecordFailed
      <4> QED BY <2>2, <4>1, <4>2 DEF TypeOK
    <3> QED BY <3>1, <3>2
  <2> QED BY <1>12, <2>1, <2>3 DEF RecordFailed, TypeOK, TimeInv, bounds
<1>13. ASSUME NEW p \in Party, RecordFails(p) PROVE TypeInv'
  <2>1. seen[p].sched \in Sched /\ seen[p] \in Snapshot
    BY <1>13 DEF RecordFails, HasRead, Firing, Snapshot
  <2>2. CASE at[p] = "started" /\ at' = [at EXCEPT ![p] = "failed"] /\ UNCHANGED <<due, tickTime, seen, overlapped>>
    BY <1>13, <2>1, <2>2 DEF RecordFails, TypeOK, HasRead, TimeInv, row, Place, Firing
  <2>3. CASE Abandon(p) /\ overlapped' = overlapped \cup {seen[p].sched}
    BY <1>13, <2>1, <2>3, AbandonType DEF RecordFails, TypeOK, row
  <2> QED BY <1>13, <2>2, <2>3 DEF RecordFails
<1>14. ASSUME NEW p \in Party, Crash(p) PROVE TypeInv'
  <2>1. overlapped' \subseteq Sched
    BY <1>14 DEF Crash, TypeOK, HasRead, Snapshot
  <2>2. crashes' \in Nat /\ faults' \in Nat
    BY <1>14 DEF Crash, TypeOK
  <2> QED BY <1>14, <2>1, <2>2, AbandonType DEF Crash, TypeOK, row
<1>15. CASE TimePasses
  BY <1>15, ScheduleAssumption DEF TimePasses, TypeOK, HasRead, TimeInv, row, memory, history, bounds
<1>16. ASSUME NEW s \in Sched, CreatorGone(s) PROVE TypeInv'
  BY <1>16 DEF CreatorGone, TypeOK, HasRead, TimeInv, row, memory, history
<1>17. CASE UNCHANGED vars
  BY <1>17 DEF vars, TypeOK, HasRead, TimeInv, row, memory, history, bounds
<1>18. ASSUME NEW c \in Client, NEW s \in Sched, Trigger(c, s) \/ \E patch \in Editing : AskToEdit(c, s, patch)
       PROVE  \E what \in Firing \cup Editing : Ask(c, s, what)
  BY <1>18 DEF Trigger, AskToEdit, Firing
<1> QED
  BY <1>1, <1>2, <1>3, <1>4, <1>5, <1>6, <1>7, <1>8, <1>9, <1>10, <1>11, <1>12, <1>13, <1>14,
     <1>15, <1>16, <1>17, <1>18 DEF Next, SchedulerStep, FiringStep, RequestStep

LEMMA InitTypeInv == Init => TypeInv
<1> SUFFICES ASSUME Init PROVE TypeInv
  OBVIOUS
<1>1. TypeOK
  BY DEF Init, TypeOK, Place
<1>2. HasRead /\ TimeInv
  BY ScheduleAssumption DEF Init, HasRead, TimeInv, Firing, Editing
<1> QED BY <1>1, <1>2 DEF TypeInv

(* Every variable keeps its type, and a schedule that is off has no time.  *)
THEOREM TypeCorrect == Spec => []TypeOK
<1> QED BY InitTypeInv, StepTypeInv, PTL DEF Spec, TypeInv

-----------------------------------------------------------------------------
(* Slots: those claimed are of the past and come before the next one.      *)

SlotInv ==
  /\ SlotFiresOnce
  /\ \A s \in Sched : \A i \in 1..Len(claims[s]) :
       claims[s][i] <= clock /\ (nextRunAt[s] # None => claims[s][i] < nextRunAt[s])

LEMMA AppendFacts ==
  ASSUME NEW q \in Seq(Nat), NEW n \in Nat
  PROVE  /\ Len(Append(q, n)) = Len(q) + 1 /\ Len(q) \in Nat /\ Append(q, n)[Len(q) + 1] = n
         /\ \A i \in 1..Len(q) : Append(q, n)[i] = q[i] /\ q[i] \in Nat
OBVIOUS

LEMMA ClaimKeepsSlots ==
  ASSUME TypeInv, SlotInv, NEW w \in Scheduler, NEW read \in due[w], Claim(w, read)
  PROVE  SlotInv'
<1> DEFINE s == read.sched
           q == claims[s]
<1>1. w \in Party /\ due[w] \subseteq Snapshot
  BY DEF Party, TypeInv, TypeOK
<1>2. /\ read \in Snapshot /\ s \in Sched /\ read.slot \in Nat /\ read.slot <= tickTime[w]
      /\ tickTime[w] \in 0..MaxTime /\ tickTime[w] <= clock /\ clock \in Nat
  BY <1>1, ScheduleAssumption DEF TypeInv, TypeOK, TimeInv, Snapshot
<1>3. /\ nextRunAt[s] = read.slot /\ claims' = [claims EXCEPT ![s] = Append(q, read.slot)]
      /\ nextRunAt' = [nextRunAt EXCEPT ![s] = NextSlot(s, tickTime[w])] /\ clock' = clock
  BY DEF Claim, StillDue, MoveOn
<1>4. \A r \in Sched : r # s => claims'[r] = claims[r] /\ nextRunAt'[r] = nextRunAt[r]
  BY <1>3 DEF TypeInv, TypeOK
<1>5. q \in Seq(Nat) /\ claims'[s] = Append(q, read.slot) /\ nextRunAt'[s] = NextSlot(s, tickTime[w])
  BY <1>2, <1>3 DEF TypeInv, TypeOK
<1>6. /\ Len(claims'[s]) = Len(q) + 1 /\ Len(q) \in Nat /\ claims'[s][Len(q) + 1] = read.slot
      /\ \A i \in 1..Len(q) : claims'[s][i] = q[i] /\ q[i] \in Nat
  BY <1>2, <1>5, AppendFacts
<1>7. \A i \in 1..Len(q) : q[i] <= clock /\ q[i] < read.slot
  BY <1>2, <1>3, ScheduleAssumption DEF SlotInv
<1>8. \A i, j \in 1..Len(q) : i < j => q[i] < q[j]
  BY <1>2 DEF SlotInv, SlotFiresOnce, Increasing
<1> HIDE DEF q
<1>9. \A i \in 1..Len(claims'[s]) : i \in 1..Len(q) \/ i = Len(q) + 1
  BY <1>6
<1>10. \A i \in 1..Len(claims'[s]) :
         /\ claims'[s][i] <= clock
         /\ nextRunAt'[s] # None => claims'[s][i] < nextRunAt'[s]
  <2>1. nextRunAt'[s] # None => nextRunAt'[s] \in Nat /\ nextRunAt'[s] > tickTime[w]
    BY <1>2, <1>5, NextSlotType
  <2>2. ASSUME NEW i \in 1..Len(claims'[s])
        PROVE  claims'[s][i] \in Nat /\ claims'[s][i] <= read.slot
    BY <1>2, <1>6, <1>7, <1>9
  <2> QED BY <1>2, <2>1, <2>2
<1>11. ASSUME NEW i \in 1..Len(claims'[s]), NEW j \in 1..Len(claims'[s]), i < j
       PROVE  claims'[s][i] < claims'[s][j]
  <2>1. i \in 1..Len(q)
    BY <1>6, <1>9, <1>11
  <2> QED BY <1>6, <1>7, <1>8, <1>9, <1>11, <2>1
<1>12. SlotFiresOnce'
  BY <1>4, <1>11 DEF SlotInv, SlotFiresOnce, Increasing
<1> QED BY <1>3, <1>4, <1>10, <1>12 DEF SlotInv

\* Whoever else writes the next time of a schedule clears it, or writes one
\* that is still to come.
LEMMA OthersKeepSlots ==
  ASSUME TypeInv, SlotInv, UNCHANGED claims, clock' \in Nat, clock <= clock',
         \A s \in Sched : \/ nextRunAt'[s] = nextRunAt[s]
                          \/ nextRunAt'[s] = None
                          \/ nextRunAt'[s] \in Nat /\ nextRunAt'[s] > clock
  PROVE  SlotInv'
<1>1. clock \in Nat /\ \A s \in Sched : claims[s] \in Seq(Nat)
  BY DEF TypeInv, TypeOK
<1>2. \A s \in Sched : \A i \in 1..Len(claims[s]) : claims[s][i] \in Nat
  BY <1>1
<1>3. SlotFiresOnce'
  BY DEF SlotInv, SlotFiresOnce, Increasing
<1>4. ASSUME NEW s \in Sched, NEW i \in 1..Len(claims[s])
      PROVE  claims[s][i] <= clock' /\ (nextRunAt'[s] # None => claims[s][i] < nextRunAt'[s])
  BY <1>1, <1>2 DEF SlotInv
<1> QED BY <1>3, <1>4 DEF SlotInv

LEMMA StepSlotInv == TypeInv /\ SlotInv /\ [Next]_vars => SlotInv'
<1> SUFFICES ASSUME TypeInv, SlotInv, [Next]_vars PROVE SlotInv'
  OBVIOUS
<1>0. clock \in 0..MaxTime /\ clock \in Nat /\ nextRunAt \in [Sched -> Nat \cup {None}]
  BY DEF TypeInv, TypeOK, TimeInv
<1>1. ASSUME UNCHANGED <<claims, nextRunAt, clock>> PROVE SlotInv'
  BY <1>0, <1>1, OthersKeepSlots
<1>2. ASSUME UNCHANGED <<claims, clock>>, NEW r, NEW on \in BOOLEAN,
             nextRunAt' = [nextRunAt EXCEPT ![r] = TimeFor(r, on)]
      PROVE  SlotInv'
  <2>1. \A s \in Sched : \/ nextRunAt'[s] = nextRunAt[s]
                         \/ nextRunAt'[s] = None
                         \/ nextRunAt'[s] \in Nat /\ nextRunAt'[s] > clock
    BY <1>0, <1>2, NextSlotType DEF TimeFor
  <2> QED BY <1>0, <1>2, <2>1, OthersKeepSlots
<1>3. ASSUME UNCHANGED <<claims, clock>>, NEW r, nextRunAt' = [nextRunAt EXCEPT ![r] = None]
      PROVE  SlotInv'
  <2>1. \A s \in Sched : nextRunAt'[s] = nextRunAt[s] \/ nextRunAt'[s] = None
    BY <1>0, <1>3
  <2> QED BY <1>0, <1>3, <2>1, OthersKeepSlots
<1>4. ASSUME NEW s \in Sched, NEW on \in BOOLEAN, Create(s, on) PROVE SlotInv'
  BY <1>2, <1>4 DEF Create, history
<1>5. ASSUME NEW c \in Client, Edit(c) PROVE SlotInv'
  <2>1. TurnsOn(c) \in BOOLEAN
    BY DEF TurnsOn
  <2>2. /\ UNCHANGED <<claims, clock>>
        /\ \/ nextRunAt' = nextRunAt
           \/ nextRunAt' = [nextRunAt EXCEPT ![seen[c].sched] = TimeFor(seen[c].sched, TurnsOn(c))]
    BY <1>5 DEF Edit
  <2> QED BY <1>1, <1>2, <2>1, <2>2
<1>6. ASSUME NEW s \in Sched, Remove(s) PROVE SlotInv'
  BY <1>3, <1>6 DEF Remove, history
<1>7. ASSUME NEW p \in Party, RecordFailed(p) PROVE SlotInv'
  <2>1. /\ UNCHANGED <<claims, clock>>
        /\ \/ nextRunAt' = nextRunAt
           \/ nextRunAt' = [nextRunAt EXCEPT ![seen[p].sched] = None]
    BY <1>7 DEF RecordFailed
  <2> QED BY <1>1, <1>3, <2>1
<1>8. CASE TimePasses
  <2>1. UNCHANGED <<claims, nextRunAt>> /\ clock' \in Nat /\ clock <= clock'
    BY <1>0, <1>8 DEF TimePasses, row, history
  <2> QED BY <2>1, OthersKeepSlots
<1>9. ASSUME NEW w \in Scheduler,
             Poll(w) \/ EndTick(w) \/ \E read \in due[w] : ClaimedByOther(w, read)
      PROVE  UNCHANGED <<claims, nextRunAt, clock>>
  BY <1>9 DEF Poll, EndTick, ClaimedByOther, row, history
<1>10. ASSUME NEW p \in Party,
              \/ \E outcome \in {"started", "skipped", "failed"} : Answer(p, outcome)
              \/ RecordStarted(p) \/ RecordSkipped(p) \/ RecordFails(p) \/ Crash(p)
       PROVE  UNCHANGED <<claims, nextRunAt, clock>>
  BY <1>10 DEF Answer, RecordStarted, RecordSkipped, RecordFails, Crash, row, history
<1>11. ASSUME NEW c \in Client, NEW s \in Sched,
              Trigger(c, s) \/ \E patch \in Editing : AskToEdit(c, s, patch)
       PROVE  UNCHANGED <<claims, nextRunAt, clock>>
  BY <1>11 DEF Trigger, AskToEdit, Ask, row
<1>12. ASSUME (\E s \in Sched : CreatorGone(s)) \/ UNCHANGED vars
       PROVE  UNCHANGED <<claims, nextRunAt, clock>>
  BY <1>12 DEF CreatorGone, vars, row, history
<1> QED
  BY <1>1, <1>4, <1>5, <1>6, <1>7, <1>8, <1>9, <1>10, <1>11, <1>12, ClaimKeepsSlots
     DEF Next, SchedulerStep, FiringStep, RequestStep

(* Whatever processes poll the table, crash or lose a race, and whatever   *)
(* administrators edit meanwhile, the slots of a schedule fire in their    *)
(* order and each at most once.                                            *)
THEOREM SlotsFireOnce == Spec => []SlotFiresOnce
<1>1. Init => SlotInv
  BY DEF Init, SlotInv, SlotFiresOnce, Increasing
<1>2. SlotInv => SlotFiresOnce
  BY DEF SlotInv
<1> QED BY InitTypeInv, StepTypeInv, StepSlotInv, <1>1, <1>2, PTL DEF Spec

-----------------------------------------------------------------------------
(* Failures: as long as no two parties worked on a schedule at a time, who *)
(* works on it has seen its row as it is.                                  *)

\* A schedule that does not exist yet: nobody has read it.
Unborn(s) ==
  stage[s] = "none" =>
    /\ ~enabled[s] /\ failures[s] = 0 /\ streak[s] = 0
    /\ \A p \in Party : ~WorksOn(p, s)

Crowded(s) ==
  \A p, q \in Party : p # q /\ WorksOn(p, s) /\ WorksOn(q, s) => s \in overlapped

UpToDate(s) ==
  s \notin overlapped =>
    \A p \in Party : WorksOn(p, s) =>
      /\ seen[p].failures = failures[s]
      /\ at[p] \in Editing /\ stage[s] = "present" => seen[p].enabled = enabled[s]

Counted(s) ==
  s \notin overlapped /\ stage[s] = "present" =>
    /\ failures[s] = streak[s]
    /\ enabled[s] => streak[s] < MaxFailures

CalmInv == \A s \in Sched : Unborn(s) /\ Crowded(s) /\ UpToDate(s) /\ Counted(s)

\* What no step on another schedule, and no step that only reads, disturbs.
LEMMA Untouched ==
  ASSUME NEW s \in Sched, Unborn(s) /\ Crowded(s) /\ UpToDate(s) /\ Counted(s),
         stage'[s] = stage[s], enabled'[s] = enabled[s], failures'[s] = failures[s],
         streak'[s] = streak[s], overlapped \subseteq overlapped',
         \A p \in Party : WorksOn(p, s)' =>
           WorksOn(p, s) /\ seen'[p] = seen[p] /\ (at'[p] \in Editing => at[p] \in Editing)
  PROVE  Unborn(s)' /\ Crowded(s)' /\ UpToDate(s)' /\ Counted(s)'
BY DEF Unborn, Crowded, UpToDate, Counted

\* A party begins to work on a schedule it has read.
LEMMA BeginKeepsCalm ==
  ASSUME TypeInv, CalmInv, NEW p \in Party, at[p] \notin Firing \cup Editing,
         NEW read \in Snapshot, NEW where \in Firing \cup Editing, Begin(p, read, where),
         stage[read.sched] # "none",
         where \in Editing => read.enabled = enabled[read.sched],
         UNCHANGED <<stage, enabled, failures, streak>>
  PROVE  CalmInv'
<1> DEFINE s == read.sched
<1>1. /\ at' = [at EXCEPT ![p] = where] /\ seen' = [seen EXCEPT ![p] = read]
      /\ overlapped' = IF Others(p, s) \/ read.failures # failures[s]
                       THEN overlapped \cup {s} ELSE overlapped
  BY DEF Begin
<1>2. /\ at'[p] = where /\ seen'[p] = read /\ s \in Sched
      /\ \A q \in Party : q # p => at'[q] = at[q] /\ seen'[q] = seen[q]
  BY <1>1 DEF TypeInv, TypeOK, Snapshot
<1>3. \A q \in Party, r \in Sched : q # p \/ r # s => (WorksOn(q, r)' => WorksOn(q, r))
  BY <1>2 DEF WorksOn
<1>4. overlapped \subseteq overlapped'
  BY <1>1
<1>5. ASSUME NEW r \in Sched, r # s
      PROVE  Unborn(r)' /\ Crowded(r)' /\ UpToDate(r)' /\ Counted(r)'
  <2>1. \A q \in Party : WorksOn(q, r)' =>
          WorksOn(q, r) /\ seen'[q] = seen[q] /\ (at'[q] \in Editing => at[q] \in Editing)
    BY <1>2, <1>3, <1>5 DEF WorksOn
  <2> QED BY <1>4, <2>1, Untouched DEF CalmInv
<1>6. Unborn(s)' /\ Counted(s)'
  BY <1>2, <1>4 DEF CalmInv, Unborn, Counted
<1>7. Crowded(s)'
  <2> SUFFICES ASSUME NEW q \in Party, NEW o \in Party, q # o, WorksOn(q, s)', WorksOn(o, s)'
               PROVE  s \in overlapped'
    BY DEF Crowded
  <2>1. CASE q # p /\ o # p
    BY <1>2, <1>3, <1>4, <2>1 DEF CalmInv, Crowded
  <2>2. CASE q = p \/ o = p
    <3>1. \E x \in Party \ {p} : WorksOn(x, s)
      BY <1>2, <1>3, <2>2
    <3> QED BY <1>1, <3>1 DEF Others
  <2> QED BY <2>1, <2>2
<1>8. UpToDate(s)'
  <2> SUFFICES ASSUME s \notin overlapped', NEW q \in Party, WorksOn(q, s)'
               PROVE  /\ seen'[q].failures = failures'[s]
                      /\ at'[q] \in Editing /\ stage'[s] = "present" => seen'[q].enabled = enabled'[s]
    BY DEF UpToDate
  <2>1. read.failures = failures[s] /\ ~Others(p, s)
    BY <1>1
  <2>2. q = p
    BY <1>2, <1>3, <2>1 DEF Others
  <2> QED BY <1>2, <2>1, <2>2
<1> QED BY <1>5, <1>6, <1>7, <1>8 DEF CalmInv

\* The party that works on a schedule writes its columns and is through.
LEMMA WriteKeepsCalm ==
  ASSUME TypeInv, CalmInv, NEW p \in Party, at[p] \in Firing \cup Editing, Leave(p),
         NEW s \in Sched, s = seen[p].sched, UNCHANGED <<stage, overlapped>>,
         \A r \in Sched : r # s =>
           /\ enabled'[r] = enabled[r] /\ failures'[r] = failures[r] /\ streak'[r] = streak[r],
         Counted(s)'
  PROVE  CalmInv'
<1>1. /\ at'[p] \notin Firing \cup Editing /\ WorksOn(p, s)
      /\ \A q \in Party : q # p => at'[q] = at[q] /\ seen'[q] = seen[q]
  BY DEF Leave, TypeInv, TypeOK, HasRead, Snapshot, WorksOn, Firing, Editing
<1>2. \A q \in Party, r \in Sched : WorksOn(q, r)' =>
        q # p /\ WorksOn(q, r) /\ seen'[q] = seen[q] /\ at'[q] = at[q]
  BY <1>1 DEF WorksOn
<1>3. ASSUME NEW r \in Sched, r # s
      PROVE  Unborn(r)' /\ Crowded(r)' /\ UpToDate(r)' /\ Counted(r)'
  BY <1>2, <1>3, Untouched DEF CalmInv
<1>4. stage[s] # "none"
  BY <1>1 DEF CalmInv, Unborn
<1>5. s \notin overlapped => \A q \in Party : ~WorksOn(q, s)'
  BY <1>1, <1>2 DEF CalmInv, Crowded
<1>6. Unborn(s)' /\ Crowded(s)' /\ UpToDate(s)'
  BY <1>2, <1>4, <1>5 DEF Unborn, Crowded, UpToDate, CalmInv
<1> QED BY <1>3, <1>6 DEF CalmInv

LEMMA EditKeepsCalm ==
  ASSUME TypeInv, CalmInv, NEW c \in Client, Edit(c)
  PROVE  CalmInv'
<1>0. PICK s \in Sched : s = seen[c].sched
  BY DEF Edit, Party, TypeInv, HasRead, Snapshot
<1>1. /\ c \in Party /\ at[c] \in Editing /\ Leave(c) /\ UNCHANGED <<stage, overlapped>>
      /\ s \in Sched /\ s = seen[c].sched /\ WorksOn(c, s)
  BY <1>0 DEF Edit, Party, WorksOn
<1>2. CASE s \notin present
  <2>1. UNCHANGED <<enabled, failures, streak>> /\ stage[s] # "present"
    BY <1>1, <1>2 DEF Edit, present
  <2> QED BY <1>1, <2>1, WriteKeepsCalm DEF Counted
<1>3. CASE s \in present
  <2>1. /\ enabled' = [enabled EXCEPT ![s] = TurnsOn(c)]
        /\ failures' = [failures EXCEPT ![s] = IF Resets(c) THEN 0 ELSE seen[c].failures]
        /\ streak' = [streak EXCEPT ![s] = IF TurnsOn(c) /\ ~seen[c].enabled THEN 0 ELSE @]
    BY <1>0, <1>3 DEF Edit
  <2>2. /\ enabled'[s] = TurnsOn(c)
        /\ failures'[s] = IF Resets(c) THEN 0 ELSE seen[c].failures
        /\ streak'[s] = IF Resets(c) THEN 0 ELSE streak[s]
    BY <1>1, <2>1 DEF TypeInv, TypeOK, Resets
  <2>3. \A r \in Sched : r # s =>
          /\ enabled'[r] = enabled[r] /\ failures'[r] = failures[r] /\ streak'[r] = streak[r]
    BY <2>1 DEF TypeInv, TypeOK
  <2>4. Counted(s)'
    <3> SUFFICES ASSUME s \notin overlapped
                 PROVE  failures'[s] = streak'[s] /\ (enabled'[s] => streak'[s] < MaxFailures)
      BY <1>1 DEF Counted
    <3>1. /\ seen[c].failures = failures[s] /\ seen[c].enabled = enabled[s]
          /\ failures[s] = streak[s] /\ (enabled[s] => streak[s] < MaxFailures)
      BY <1>1, <1>3 DEF CalmInv, UpToDate, Counted, present
    <3>2. CASE Resets(c)
      BY <2>2, <3>2, ScheduleAssumption
    <3>3. CASE ~Resets(c)
      BY <2>2, <3>1, <3>3 DEF Resets
    <3> QED BY <3>2, <3>3
  <2> QED BY <1>1, <2>3, <2>4, WriteKeepsCalm
<1> QED BY <1>2, <1>3

LEMMA RecordKeepsCalm ==
  ASSUME TypeInv, CalmInv, NEW p \in Party, RecordStarted(p) \/ RecordFailed(p)
  PROVE  CalmInv'
<1>0. PICK s \in Sched : s = seen[p].sched
  BY DEF RecordStarted, RecordFailed, Firing, TypeInv, HasRead, Snapshot
<1>1. /\ at[p] \in Firing /\ Leave(p) /\ UNCHANGED <<stage, overlapped>>
      /\ s \in Sched /\ s = seen[p].sched /\ WorksOn(p, s)
  BY <1>0 DEF RecordStarted, RecordFailed, Firing, WorksOn
<1>2. /\ enabled \in [Sched -> BOOLEAN] /\ failures \in [Sched -> Nat] /\ streak \in [Sched -> Nat]
  BY DEF TypeInv, TypeOK
<1>3. CASE s \notin present
  <2>1. stage[s] # "present"
    BY <1>1, <1>3 DEF present
  <2>2. \A r \in Sched : r # s =>
          /\ enabled'[r] = enabled[r] /\ failures'[r] = failures[r] /\ streak'[r] = streak[r]
    BY <1>1, <1>2, <1>3 DEF RecordStarted, RecordFailed
  <2> QED BY <1>1, <2>1, <2>2, WriteKeepsCalm DEF Counted
<1>4. CASE s \in present /\ RecordStarted(p)
  <2>1. /\ failures' = [failures EXCEPT ![s] = 0] /\ streak' = [streak EXCEPT ![s] = 0]
        /\ UNCHANGED enabled
    BY <1>1, <1>4 DEF RecordStarted
  <2>2. Counted(s)'
    BY <1>1, <1>2, <2>1, ScheduleAssumption DEF Counted
  <2> QED BY <1>1, <1>2, <2>1, <2>2, WriteKeepsCalm
<1>5. CASE s \in present /\ RecordFailed(p)
  <2> DEFINE count == seen[p].failures + 1
  <2>1. /\ failures' = [failures EXCEPT ![s] = count] /\ streak' = [streak EXCEPT ![s] = @ + 1]
        /\ IF Pauses(count) THEN enabled' = [enabled EXCEPT ![s] = FALSE]
                            ELSE UNCHANGED enabled
    BY <1>1, <1>5 DEF RecordFailed
  <2>2. failures'[s] = count /\ streak'[s] = streak[s] + 1
    BY <1>1, <1>2, <2>1
  <2>3. Counted(s)'
    <3> SUFFICES ASSUME s \notin overlapped
                 PROVE  failures'[s] = streak'[s] /\ (enabled'[s] => streak'[s] < MaxFailures)
      BY <1>1 DEF Counted
    <3>1. seen[p].failures = failures[s] /\ failures[s] = streak[s] /\ streak[s] \in Nat
      BY <1>1, <1>2, <1>5 DEF CalmInv, UpToDate, Counted, present
    <3>2. enabled'[s] => ~Pauses(count)
      BY <1>1, <1>2, <2>1
    <3>3. ~Pauses(count) => count < MaxFailures
      BY <3>1, ScheduleAssumption DEF Pauses
    <3> QED BY <2>2, <3>1, <3>2, <3>3
  <2>4. \A r \in Sched : r # s =>
          /\ enabled'[r] = enabled[r] /\ failures'[r] = failures[r] /\ streak'[r] = streak[r]
    BY <1>2, <2>1
  <2> QED BY <1>1, <2>3, <2>4, WriteKeepsCalm
<1> QED BY <1>3, <1>4, <1>5

\* A step by which one party at most goes on, or leaves off, and that writes
\* no column the counting rests on.
LEMMA QuietKeepsCalm ==
  ASSUME TypeInv, CalmInv, UNCHANGED <<stage, enabled, failures, streak>>,
         overlapped \subseteq overlapped', NEW p \in Party,
         \A q \in Party : q # p => at'[q] = at[q] /\ seen'[q] = seen[q],
         at'[p] \in Firing \cup Editing =>
           seen'[p] = seen[p] /\ (at'[p] = at[p] \/ (at[p] \in Firing /\ at'[p] \in Firing))
  PROVE  CalmInv'
<1>1. \A x \in Editing : x \notin Firing
  BY DEF Firing, Editing
<1> SUFFICES ASSUME NEW s \in Sched
             PROVE  Unborn(s)' /\ Crowded(s)' /\ UpToDate(s)' /\ Counted(s)'
  BY DEF CalmInv
<1>2. ASSUME NEW q \in Party, WorksOn(q, s)'
      PROVE  WorksOn(q, s) /\ seen'[q] = seen[q] /\ (at'[q] \in Editing => at[q] \in Editing)
  <2>1. CASE q = p
    BY <1>1, <1>2, <2>1 DEF WorksOn
  <2>2. CASE q # p
    BY <1>2, <2>2 DEF WorksOn
  <2> QED BY <2>1, <2>2
<1> QED BY <1>2, Untouched DEF CalmInv

LEMMA StepCalmInv == TypeInv /\ CalmInv /\ [Next]_vars => CalmInv'
<1> SUFFICES ASSUME TypeInv, CalmInv, [Next]_vars PROVE CalmInv'
  OBVIOUS
<1>0. /\ Scheduler \subseteq Party /\ Client \subseteq Party
      /\ at \in [Party -> Place] /\ seen \in [Party -> Snapshot \cup {None}]
      /\ stage \in [Sched -> {"none", "present", "deleted"}]
      /\ enabled \in [Sched -> BOOLEAN] /\ streak \in [Sched -> Nat]
  BY DEF Party, TypeInv, TypeOK
<1>1. ASSUME UNCHANGED <<stage, enabled, failures, streak, overlapped, at, seen>> PROVE CalmInv'
  BY <1>1 DEF CalmInv, Unborn, Crowded, UpToDate, Counted, WorksOn
<1>2. ASSUME NEW s \in Sched, NEW on \in BOOLEAN, Create(s, on) PROVE CalmInv'
  <2>1. /\ UNCHANGED <<failures, streak, overlapped, at, seen>> /\ stage[s] = "none"
        /\ stage' = [stage EXCEPT ![s] = "present"] /\ enabled' = [enabled EXCEPT ![s] = on]
    BY <1>2 DEF Create, memory, history
  <2>2. \A p \in Party, r \in Sched : WorksOn(p, r)' => WorksOn(p, r)
    BY <2>1 DEF WorksOn
  <2>3. ASSUME NEW r \in Sched, r # s
        PROVE  Unborn(r)' /\ Crowded(r)' /\ UpToDate(r)' /\ Counted(r)'
    BY <1>0, <2>1, <2>2, <2>3, Untouched DEF CalmInv
  <2>4. failures[s] = 0 /\ streak[s] = 0 /\ \A p \in Party : ~WorksOn(p, s)'
    BY <2>1, <2>2 DEF CalmInv, Unborn
  <2>5. stage'[s] = "present"
    BY <1>0, <2>1
  <2>6. Unborn(s)' /\ Crowded(s)' /\ UpToDate(s)' /\ Counted(s)'
    BY <2>1, <2>4, <2>5, ScheduleAssumption DEF Unborn, Crowded, UpToDate, Counted
  <2> QED BY <2>3, <2>6 DEF CalmInv
<1>3. ASSUME NEW s \in Sched, Remove(s) PROVE CalmInv'
  <2>1. /\ UNCHANGED <<failures, streak, overlapped, at, seen>>
        /\ stage' = [stage EXCEPT ![s] = "deleted"] /\ enabled' = [enabled EXCEPT ![s] = FALSE]
    BY <1>3 DEF Remove, memory, history
  <2>2. \A p \in Party, r \in Sched : WorksOn(p, r)' => WorksOn(p, r)
    BY <2>1 DEF WorksOn
  <2>3. ASSUME NEW r \in Sched, r # s
        PROVE  Unborn(r)' /\ Crowded(r)' /\ UpToDate(r)' /\ Counted(r)'
    BY <1>0, <2>1, <2>2, <2>3, Untouched DEF CalmInv
  <2>4. stage'[s] = "deleted"
    BY <1>0, <2>1
  <2>5. Unborn(s)' /\ Crowded(s)' /\ UpToDate(s)' /\ Counted(s)'
    BY <2>1, <2>2, <2>4 DEF CalmInv, Unborn, Crowded, UpToDate, Counted
  <2> QED BY <2>3, <2>5 DEF CalmInv
<1>4. ASSUME NEW c \in Client, NEW s \in Sched, NEW what \in Firing \cup Editing, Ask(c, s, what)
      PROVE  CalmInv'
  <2>1. /\ Begin(c, Read(s), what) /\ at[c] = "idle" /\ stage[s] = "present"
        /\ UNCHANGED <<stage, enabled, failures, streak>>
    BY <1>4 DEF Ask, row, present
  <2>2. Read(s) \in Snapshot /\ Read(s).sched = s /\ Read(s).enabled = enabled[s]
    BY ReadType DEF Read, TypeInv
  <2>3. at[c] \notin Firing \cup Editing
    BY <2>1 DEF Firing, Editing
  <2> QED BY <1>0, <2>1, <2>2, <2>3, BeginKeepsCalm
<1>5. ASSUME NEW w \in Scheduler, NEW read \in due[w], Claim(w, read) PROVE CalmInv'
  <2>1. /\ at[w] = "looping" /\ enabled[read.sched]
        /\ UNCHANGED <<stage, enabled, failures, streak>>
    BY <1>5 DEF Claim, StillDue
  <2>2. read \in Snapshot /\ read.sched \in Sched
    BY <1>0 DEF TypeInv, TypeOK, Snapshot
  <2>3. at[w] \notin Firing \cup Editing
    BY <2>1 DEF Firing, Editing
  <2>4. CASE Abandon(w) /\ UNCHANGED overlapped
    <3>1. /\ at'[w] = "idle"
          /\ \A q \in Party : q # w => at'[q] = at[q] /\ seen'[q] = seen[q]
      BY <1>0, <2>4 DEF Abandon
    <3>2. at'[w] \notin Firing \cup Editing
      BY <3>1 DEF Firing, Editing
    <3> QED BY <1>0, <2>1, <2>4, <3>1, <3>2, QuietKeepsCalm
  <2>5. CASE Begin(w, read, "firing")
    <3>1. stage[read.sched] # "none"
      BY <2>1, <2>2 DEF CalmInv, Unborn
    <3>2. "firing" \in Firing /\ "firing" \notin Editing
      BY DEF Firing, Editing
    <3> QED BY <1>0, <2>1, <2>2, <2>3, <2>5, <3>1, <3>2, BeginKeepsCalm
  <2> QED BY <1>5, <2>4, <2>5 DEF Claim
<1>6. ASSUME NEW w \in Scheduler,
             Poll(w) \/ EndTick(w) \/ \E read \in due[w] : ClaimedByOther(w, read)
      PROVE  CalmInv'
  <2>1. /\ UNCHANGED <<stage, enabled, failures, streak, overlapped, seen>>
        /\ at' = at \/ \E x \in {"looping", "idle"} : at' = [at EXCEPT ![w] = x]
    BY <1>6 DEF Poll, EndTick, ClaimedByOther, row, history
  <2>2. at'[w] = at[w] \/ at'[w] \notin Firing \cup Editing
    BY <1>0, <2>1 DEF Firing, Editing
  <2>3. \A q \in Party : q # w => at'[q] = at[q] /\ seen'[q] = seen[q]
    BY <1>0, <2>1
  <2>4. overlapped \subseteq overlapped' /\ seen'[w] = seen[w] /\ w \in Party
    BY <1>0, <2>1
  <2>5. UNCHANGED <<stage, enabled, failures, streak>>
    BY <2>1
  <2>6. at'[w] \in Firing \cup Editing =>
          seen'[w] = seen[w] /\ (at'[w] = at[w] \/ (at[w] \in Firing /\ at'[w] \in Firing))
    BY <2>2, <2>4
  <2> QED BY <2>3, <2>4, <2>5, <2>6, QuietKeepsCalm
<1>7. ASSUME NEW p \in Party,
             \/ \E outcome \in {"started", "skipped", "failed"} : Answer(p, outcome)
             \/ RecordSkipped(p) \/ RecordFails(p) \/ Crash(p)
      PROVE  CalmInv'
  <2>1. /\ UNCHANGED <<stage, enabled, failures, streak>> /\ overlapped \subseteq overlapped'
    BY <1>7 DEF Answer, RecordSkipped, RecordFails, Crash, row, history
  <2>2. \/ /\ at[p] \in {"firing", "started"} /\ UNCHANGED seen
           /\ \E x \in {"started", "skipped", "failed"} : at' = [at EXCEPT ![p] = x]
        \/ /\ \E x \in {"looping", "idle"} : at' = [at EXCEPT ![p] = x]
           /\ seen' = [seen EXCEPT ![p] = None]
    BY <1>7 DEF Answer, RecordSkipped, RecordFails, Crash, Abandon, Leave
  <2>3. \A q \in Party : q # p => at'[q] = at[q] /\ seen'[q] = seen[q]
    BY <1>0, <2>2
  <2>4. at'[p] \in Firing \cup Editing =>
          seen'[p] = seen[p] /\ at[p] \in Firing /\ at'[p] \in Firing
    BY <1>0, <2>2 DEF Firing, Editing
  <2> QED BY <2>1, <2>3, <2>4, QuietKeepsCalm
<1>8. ASSUME NEW p \in Party, RecordStarted(p) \/ RecordFailed(p) PROVE CalmInv'
  BY <1>8, RecordKeepsCalm
<1>9. ASSUME NEW c \in Client, Edit(c) PROVE CalmInv'
  BY <1>9, EditKeepsCalm
<1>10. ASSUME NEW c \in Client, NEW s \in Sched,
              Trigger(c, s) \/ \E patch \in Editing : AskToEdit(c, s, patch)
       PROVE  CalmInv'
  BY <1>4, <1>10 DEF Trigger, AskToEdit, Firing
<1>11. CASE TimePasses \/ (\E s \in Sched : CreatorGone(s)) \/ UNCHANGED vars
  BY <1>1, <1>11 DEF TimePasses, CreatorGone, vars, row, memory, history
<1> QED
  BY <1>2, <1>3, <1>5, <1>6, <1>7, <1>8, <1>9, <1>10, <1>11
     DEF Next, SchedulerStep, FiringStep, RequestStep

LEMMA InitCalmInv == Init => CalmInv
<1> SUFFICES ASSUME Init PROVE CalmInv
  OBVIOUS
<1>1. \A p \in Party, s \in Sched : ~WorksOn(p, s)
  BY DEF Init, WorksOn, Firing, Editing
<1> QED BY <1>1 DEF Init, CalmInv, Unborn, Crowded, UpToDate, Counted

(* A schedule on which no two parties worked at a time counts what         *)
(* happened, and is off after MaxFailures failures in a row.               *)
THEOREM FailingIsPaused == Spec => []GivesUp
<1>1. CalmInv => GivesUp
  BY DEF CalmInv, Counted, GivesUp, present
<1> QED BY InitTypeInv, StepTypeInv, InitCalmInv, StepCalmInv, <1>1, PTL DEF Spec

(* Such a schedule, once off, comes on only by a request that says so.     *)
THEOREM PauseStays == Spec => PausedUntilEnabled
<1> DEFINE Kept == \A s \in present \ overlapped' :
                     ~enabled[s] /\ enabled'[s] =>
                       \E c \in Client : at[c] = "enable" /\ seen[c].sched = s
<1>1. TypeInv /\ CalmInv /\ [Next]_vars => [Kept]_vars
  <2> SUFFICES ASSUME TypeInv, CalmInv, Next, NEW s \in present \ overlapped',
                      ~enabled[s], enabled'[s]
               PROVE  \E c \in Client : at[c] = "enable" /\ seen[c].sched = s
    OBVIOUS
  <2>0. enabled \in [Sched -> BOOLEAN] /\ s \in Sched /\ stage[s] = "present"
    BY DEF TypeInv, TypeOK, present
  <2>1. ASSUME NEW c \in Client, Edit(c)
        PROVE  \E d \in Client : at[d] = "enable" /\ seen[d].sched = s
    <3>1. /\ s = seen[c].sched /\ TurnsOn(c) /\ at[c] \in Editing /\ overlapped' = overlapped
      BY <2>0, <2>1 DEF Edit
    <3>2. seen[c].enabled = enabled[s]
      BY <2>0, <3>1 DEF CalmInv, UpToDate, WorksOn, Party
    <3> QED BY <3>1, <3>2 DEF TurnsOn
  <2>2. ASSUME NEW r \in Sched, NEW on \in BOOLEAN, Create(r, on) PROVE FALSE
    BY <2>0, <2>2 DEF Create
  <2>3. ASSUME NEW r \in Sched, Remove(r) PROVE FALSE
    BY <2>0, <2>3 DEF Remove
  <2>4. ASSUME NEW p \in Party, RecordFailed(p) PROVE FALSE
    BY <2>0, <2>4 DEF RecordFailed
  <2>5. ASSUME NEW w \in Scheduler, SchedulerStep(w) PROVE FALSE
    BY <2>0, <2>5 DEF SchedulerStep, Poll, EndTick, Claim, ClaimedByOther, row
  <2>6. ASSUME NEW p \in Party,
               \/ \E outcome \in {"started", "skipped", "failed"} : Answer(p, outcome)
               \/ RecordStarted(p) \/ RecordSkipped(p) \/ RecordFails(p) \/ Crash(p)
        PROVE  FALSE
    BY <2>0, <2>6 DEF Answer, RecordStarted, RecordSkipped, RecordFails, Crash, row
  <2>7. ASSUME NEW c \in Client, NEW r \in Sched,
               Trigger(c, r) \/ \E patch \in Editing : AskToEdit(c, r, patch)
        PROVE  FALSE
    BY <2>0, <2>7 DEF Trigger, AskToEdit, Ask, row
  <2>8. CASE TimePasses \/ \E r \in Sched : CreatorGone(r)
    BY <2>0, <2>8 DEF TimePasses, CreatorGone, row
  <2> QED BY <2>1, <2>2, <2>3, <2>4, <2>5, <2>6, <2>7, <2>8
             DEF Next, FiringStep, RequestStep
<1> QED BY InitTypeInv, StepTypeInv, InitCalmInv, StepCalmInv, <1>1, PTL
           DEF Spec, PausedUntilEnabled

-----------------------------------------------------------------------------
(* Crashes.                                                                *)

\* Nobody begins or ends firing a schedule.
LEMMA SameFirings ==
  ASSUME CrashLosesOneFiring, UNCHANGED <<claims, tried, crashes>>, orphan \subseteq orphan',
         \A p \in Scheduler : (at[p] = "firing" \/ at'[p] = "firing") =>
           at'[p] = at[p] /\ seen'[p] = seen[p]
  PROVE  CrashLosesOneFiring'
<1>1. \A s \in Sched : BeingFired(s)' = BeingFired(s)
  BY DEF BeingFired
<1> QED BY <1>1 DEF CrashLosesOneFiring

\* One of the firings of a schedule ends.
LEMMA FiringEnds ==
  ASSUME NEW s \in Sched, NEW p \in Scheduler, at[p] = "firing", at'[p] # "firing",
         \A q \in Scheduler : q # p => at'[q] = at[q] /\ seen'[q] = seen[q]
  PROVE  /\ Cardinality(BeingFired(s)) \in Nat /\ Cardinality(BeingFired(s)') \in Nat
         /\ Cardinality(BeingFired(s)') =
              IF seen[p].sched = s THEN Cardinality(BeingFired(s)) - 1 ELSE Cardinality(BeingFired(s))
<1>1. IsFiniteSet(BeingFired(s)) /\ IsFiniteSet(BeingFired(s)')
  BY FS_Subset, ScheduleAssumption DEF BeingFired
<1>2. Cardinality(BeingFired(s)) \in Nat /\ Cardinality(BeingFired(s)') \in Nat
  BY <1>1, FS_CardinalityType
<1>3. CASE seen[p].sched = s
  <2>1. BeingFired(s)' = BeingFired(s) \ {p} /\ p \in BeingFired(s)
    BY <1>3 DEF BeingFired
  <2> QED BY <1>1, <1>2, <1>3, <2>1, FS_RemoveElement
<1>4. CASE seen[p].sched # s
  <2>1. BeingFired(s)' = BeingFired(s)
    BY <1>4 DEF BeingFired
  <2> QED BY <1>2, <1>4, <2>1
<1> QED BY <1>3, <1>4

LEMMA ClaimLosesNothing ==
  ASSUME TypeInv, CrashLosesOneFiring, NEW w \in Scheduler, NEW read \in due[w], Claim(w, read)
  PROVE  CrashLosesOneFiring'
<1>0. PICK s \in Sched : s = read.sched
  BY DEF TypeInv, TypeOK, Party, Snapshot
<1>1. /\ at[w] = "looping" /\ UNCHANGED <<tried, crashes, orphan>>
      /\ claims' = [claims EXCEPT ![s] = Append(@, read.slot)]
      /\ w \in Party /\ at \in [Party -> Place] /\ seen \in [Party -> Snapshot \cup {None}]
      /\ claims \in [Sched -> Seq(Nat)] /\ tried \in [Sched -> Nat] /\ crashes \in Nat
  BY <1>0 DEF Claim, TypeInv, TypeOK, Party
<1>2. /\ \A r \in Sched : r # s => claims'[r] = claims[r]
      /\ Len(claims'[s]) = Len(claims[s]) + 1
  <2>1. claims'[s] = Append(claims[s], read.slot) /\ claims[s] \in Seq(Nat) /\ read.slot \in Nat
    BY <1>1 DEF TypeInv, TimeInv
  <2> QED BY <1>1, <2>1, AppendFacts
<1>3. CASE s \in orphan
  <2>1. at' = [at EXCEPT ![w] = "idle"] /\ seen' = [seen EXCEPT ![w] = None]
    BY <1>0, <1>3 DEF Claim, Abandon
  <2>2. ASSUME NEW r \in Sched PROVE BeingFired(r)' = BeingFired(r)
    BY <1>1, <2>1 DEF BeingFired, Party
  <2> QED BY <1>1, <1>2, <1>3, <2>2 DEF CrashLosesOneFiring
<1>4. CASE s \notin orphan
  <2>1. at' = [at EXCEPT ![w] = "firing"] /\ seen' = [seen EXCEPT ![w] = read]
    BY <1>0, <1>4 DEF Claim, Begin
  <2>2. ASSUME NEW r \in Sched, r # s PROVE BeingFired(r)' = BeingFired(r)
    BY <1>0, <1>1, <2>1, <2>2 DEF BeingFired, Party
  <2>3. BeingFired(s)' = BeingFired(s) \cup {w} /\ w \notin BeingFired(s)
    BY <1>0, <1>1, <2>1 DEF BeingFired, Party
  <2>4. IsFiniteSet(BeingFired(s))
    BY FS_Subset, ScheduleAssumption DEF BeingFired
  <2>5. Cardinality(BeingFired(s)') = Cardinality(BeingFired(s)) + 1
        /\ Cardinality(BeingFired(s)) \in Nat
    BY <2>3, <2>4, FS_AddElement, FS_CardinalityType
  <2>6. Len(claims[s]) \in Nat
    BY <1>1
  <2>7. Len(claims'[s]) <= tried'[s] + Cardinality(BeingFired(s)') + crashes'
    BY <1>1, <1>2, <1>4, <2>5, <2>6 DEF CrashLosesOneFiring
  <2>8. \A r \in Sched \ orphan : r # s =>
          Len(claims'[r]) <= tried'[r] + Cardinality(BeingFired(r)') + crashes'
    BY <1>1, <1>2, <2>2 DEF CrashLosesOneFiring
  <2> QED BY <1>1, <2>7, <2>8 DEF CrashLosesOneFiring
<1> QED BY <1>3, <1>4

LEMMA AnswerLosesNothing ==
  ASSUME TypeInv, CrashLosesOneFiring, NEW p \in Party,
         NEW outcome \in {"started", "skipped", "failed"}, Answer(p, outcome)
  PROVE  CrashLosesOneFiring'
<1>1. /\ at[p] = "firing" /\ at' = [at EXCEPT ![p] = outcome]
      /\ UNCHANGED <<claims, crashes, orphan, seen>>
      /\ at \in [Party -> Place] /\ outcome # "firing" /\ Scheduler \subseteq Party
      /\ claims \in [Sched -> Seq(Nat)] /\ tried \in [Sched -> Nat] /\ crashes \in Nat
  BY DEF Answer, TypeInv, TypeOK, Party
<1>2. CASE p \in Scheduler
  <2>0. PICK s \in Sched : s = seen[p].sched
    BY <1>1 DEF Firing, TypeInv, HasRead, Snapshot
  <2>1. tried' = [tried EXCEPT ![s] = @ + 1]
    BY <1>2, <2>0 DEF Answer
  <2> SUFFICES ASSUME NEW r \in Sched \ orphan
               PROVE  Len(claims[r]) <= tried'[r] + Cardinality(BeingFired(r)') + crashes
    BY <1>1 DEF CrashLosesOneFiring
  <2>2. /\ Cardinality(BeingFired(r)) \in Nat /\ Cardinality(BeingFired(r)') \in Nat
        /\ Cardinality(BeingFired(r)') =
             IF seen[p].sched = r THEN Cardinality(BeingFired(r)) - 1 ELSE Cardinality(BeingFired(r))
    BY <1>1, <1>2, FiringEnds
  <2>3. tried'[r] = IF r = s THEN tried[r] + 1 ELSE tried[r]
    BY <1>1, <2>1
  <2>4. Len(claims[r]) <= tried[r] + Cardinality(BeingFired(r)) + crashes /\ Len(claims[r]) \in Nat
    BY <1>1 DEF CrashLosesOneFiring
  <2>5. tried[r] \in Nat /\ crashes \in Nat
    BY <1>1 DEF TypeInv, TypeOK
  <2> HIDE DEF CrashLosesOneFiring
  <2>6. CASE r = s
    BY <2>0, <2>2, <2>3, <2>4, <2>5, <2>6
  <2>7. CASE r # s
    BY <2>0, <2>2, <2>3, <2>4, <2>5, <2>7
  <2> QED BY <2>6, <2>7
<1>3. CASE p \notin Scheduler
  <2>1. tried' = tried
    <3>1. tried' = [tried EXCEPT ![seen[p].sched] = @]
      BY <1>3 DEF Answer
    <3> QED BY <1>1, <3>1
  <2>2. orphan \subseteq orphan' /\ UNCHANGED <<claims, tried, crashes>>
    BY <1>1, <2>1
  <2>3. \A q \in Scheduler : at'[q] = at[q] /\ seen'[q] = seen[q]
    BY <1>1, <1>3
  <2> QED BY <2>2, <2>3, SameFirings
<1> QED BY <1>2, <1>3

LEMMA CrashLosesOne ==
  ASSUME TypeInv, CrashLosesOneFiring, NEW p \in Party, Crash(p)
  PROVE  CrashLosesOneFiring'
<1>1. /\ at' = [at EXCEPT ![p] = "idle"] /\ seen' = [seen EXCEPT ![p] = None]
      /\ UNCHANGED <<claims, tried, orphan>>
      /\ at \in [Party -> Place] /\ seen \in [Party -> Snapshot \cup {None}]
      /\ Scheduler \subseteq Party
      /\ claims \in [Sched -> Seq(Nat)] /\ tried \in [Sched -> Nat] /\ crashes \in Nat
  BY DEF Crash, Abandon, TypeInv, TypeOK, Party
<1>2. CASE p \in Scheduler /\ at[p] = "firing"
  <2>1. crashes' = crashes + 1
    BY <1>2 DEF Crash
  <2> SUFFICES ASSUME NEW r \in Sched \ orphan
               PROVE  Len(claims[r]) <= tried[r] + Cardinality(BeingFired(r)') + crashes'
    BY <1>1 DEF CrashLosesOneFiring
  <2>2. /\ Cardinality(BeingFired(r)) \in Nat /\ Cardinality(BeingFired(r)') \in Nat
        /\ Cardinality(BeingFired(r)') =
             IF seen[p].sched = r THEN Cardinality(BeingFired(r)) - 1 ELSE Cardinality(BeingFired(r))
    BY <1>1, <1>2, FiringEnds
  <2>3. Len(claims[r]) <= tried[r] + Cardinality(BeingFired(r)) + crashes /\ Len(claims[r]) \in Nat
    BY <1>1 DEF CrashLosesOneFiring
  <2> QED BY <1>1, <2>1, <2>2, <2>3
<1>3. CASE ~(p \in Scheduler /\ at[p] = "firing")
  <2>1. UNCHANGED <<claims, tried, crashes>> /\ orphan \subseteq orphan'
    BY <1>1, <1>3 DEF Crash
  <2>2. \A q \in Scheduler : (at[q] = "firing" \/ at'[q] = "firing") =>
          at'[q] = at[q] /\ seen'[q] = seen[q]
    BY <1>1, <1>3
  <2> QED BY <2>1, <2>2, SameFirings
<1> QED BY <1>2, <1>3

LEMMA StepCrashes == TypeInv /\ CrashLosesOneFiring /\ [Next]_vars => CrashLosesOneFiring'
<1> SUFFICES ASSUME TypeInv, CrashLosesOneFiring, [Next]_vars PROVE CrashLosesOneFiring'
  OBVIOUS
<1>0. /\ Scheduler \subseteq Party /\ Client \subseteq Party /\ Scheduler \cap Client = {}
      /\ at \in [Party -> Place] /\ seen \in [Party -> Snapshot \cup {None}]
  BY ScheduleAssumption DEF Party, TypeInv, TypeOK
<1>1. ASSUME UNCHANGED <<claims, tried, crashes>>, orphan \subseteq orphan', UNCHANGED <<at, seen>>
      PROVE  CrashLosesOneFiring'
  BY <1>1, SameFirings
<1>2. ASSUME NEW s \in Sched,
             Remove(s) \/ CreatorGone(s) \/ \E on \in BOOLEAN : Create(s, on)
      PROVE  CrashLosesOneFiring'
  <2>1. UNCHANGED <<claims, tried, crashes, at, seen>> /\ orphan \subseteq orphan'
    BY <1>2 DEF Remove, CreatorGone, Create, memory, history
  <2> QED BY <1>1, <2>1
<1>3. CASE TimePasses \/ UNCHANGED vars
  <2>1. UNCHANGED <<claims, tried, crashes, at, seen>> /\ orphan \subseteq orphan'
    BY <1>3 DEF TimePasses, vars, memory, history
  <2> QED BY <1>1, <2>1
<1>4. ASSUME NEW c \in Client, RequestStep(c) PROVE CrashLosesOneFiring'
  <2>1. /\ UNCHANGED <<claims, tried, crashes>> /\ orphan \subseteq orphan'
        /\ \E x, read : at' = [at EXCEPT ![c] = x] /\ seen' = [seen EXCEPT ![c] = read]
    BY <1>4 DEF RequestStep, Trigger, AskToEdit, Ask, Edit, Begin, Leave
  <2>2. \A p \in Scheduler : at'[p] = at[p] /\ seen'[p] = seen[p]
    BY <1>0, <2>1
  <2> QED BY <2>1, <2>2, SameFirings
<1>5. ASSUME NEW p \in Party,
             RecordStarted(p) \/ RecordSkipped(p) \/ RecordFailed(p) \/ RecordFails(p)
      PROVE  CrashLosesOneFiring'
  <2>1. /\ UNCHANGED <<claims, tried, crashes>> /\ orphan \subseteq orphan'
        /\ at[p] # "firing"
        /\ \E x \in {"looping", "idle", "failed"} : at' = [at EXCEPT ![p] = x]
        /\ \E read : seen' = [seen EXCEPT ![p] = read]
    <3>1. seen = [seen EXCEPT ![p] = seen[p]]
      BY <1>0
    <3> QED BY <1>5, <3>1
        DEF RecordStarted, RecordSkipped, RecordFailed, RecordFails, Abandon, Leave, history
  <2>2. \A q \in Scheduler : (at[q] = "firing" \/ at'[q] = "firing") =>
          at'[q] = at[q] /\ seen'[q] = seen[q]
    BY <1>0, <2>1
  <2> QED BY <2>1, <2>2, SameFirings
<1>6. ASSUME NEW w \in Scheduler,
             Poll(w) \/ EndTick(w) \/ \E read \in due[w] : ClaimedByOther(w, read)
      PROVE  CrashLosesOneFiring'
  <2>1. /\ UNCHANGED <<claims, tried, crashes, orphan, seen>>
        /\ \/ at' = at
           \/ at[w] # "firing" /\ \E x \in {"looping", "idle"} : at' = [at EXCEPT ![w] = x]
    BY <1>6 DEF Poll, EndTick, ClaimedByOther, history
  <2>2. \A q \in Scheduler : (at[q] = "firing" \/ at'[q] = "firing") =>
          at'[q] = at[q] /\ seen'[q] = seen[q]
    BY <1>0, <2>1
  <2>3. UNCHANGED <<claims, tried, crashes>> /\ orphan \subseteq orphan'
    BY <2>1
  <2> QED BY <2>2, <2>3, SameFirings
<1> QED
  BY <1>2, <1>3, <1>4, <1>5, <1>6, ClaimLosesNothing, AnswerLosesNothing, CrashLosesOne
     DEF Next, SchedulerStep, FiringStep

(* A slot that was claimed is tried, being tried, or was lost to a crash,  *)
(* one slot to a crash.                                                    *)
THEOREM ClaimedIsTried == Spec => []CrashLosesOneFiring
<1>1. Init => CrashLosesOneFiring
  <2> SUFFICES ASSUME Init, NEW s \in Sched
               PROVE  Len(claims[s]) <= tried[s] + Cardinality(BeingFired(s)) + crashes
    BY DEF CrashLosesOneFiring
  <2>1. BeingFired(s) = {}
    BY DEF Init, BeingFired, Party
  <2> QED BY <2>1, FS_EmptySet DEF Init
<1> QED BY InitTypeInv, StepTypeInv, StepCrashes, <1>1, PTL DEF Spec

-----------------------------------------------------------------------------
(* Incremental: the largest of a set of numbers.                           *)

Before == OpToRel(<, Nat)

LEMMA Least ==
  ASSUME NEW S \in SUBSET Nat, S # {}
  PROVE  \E m \in S : \A n \in S : m <= n
<1>1. IsWellFoundedOn(Before, Nat)
  BY NatLessThanWellFounded DEF OpToRel, Before
<1>2. PICK m \in S : \A n \in S : <<n, m>> \notin Before
  BY <1>1, WFMin
<1>3. ASSUME NEW n \in S PROVE m <= n
  <2>1. m \in Nat /\ n \in Nat /\ <<n, m>> \in Nat \X Nat /\ ~(n < m)
    BY <1>2 DEF Before, OpToRel
  <2> QED BY <2>1
<1> QED BY <1>3

LEMMA Largest ==
  ASSUME NEW S \in SUBSET Nat, S # {}, NEW b \in Nat, \A n \in S : n <= b
  PROVE  Max(S) \in S /\ \A n \in S : n <= Max(S)
<1> DEFINE Bounds == {c \in Nat : \A n \in S : n <= c}
<1>1. b \in Bounds /\ Bounds \in SUBSET Nat
  OBVIOUS
<1>2. PICK m \in Bounds : \A c \in Bounds : m <= c
  <2> HIDE DEF Bounds
  <2> QED BY <1>1, Least
<1>3. m \in S
  <2> SUFFICES ASSUME m \notin S PROVE FALSE
    OBVIOUS
  <2>1. ASSUME NEW n \in S PROVE n < m
    BY <1>2
  <2>2. PICK n \in S : n < m
    BY <2>1
  <2>3. m - 1 \in Bounds
    BY <2>1, <2>2
  <2> QED BY <1>2, <2>3
<1>4. \A n \in S : m >= n
  BY <1>2
<1>5. Max(S) \in S /\ \A n \in S : Max(S) >= n
  BY <1>3, <1>4 DEF Max
<1> QED BY <1>5

-----------------------------------------------------------------------------
(* Incremental: types.                                                     *)

WatermarkTypeInv ==
  /\ WatermarkTypeOK
  /\ \A r \in Run : since[r] <= kept[r]
  /\ \A r \in Run : state[r] = "new" => table[r] = 1 /\ key[r] = 1 /\ handled[r] = {}

LEMMA RecordsExist == \E x \in Record : TRUE
<1>1. <<1, 1>> \in Record
  BY IncrementalAssumption DEF Record
<1> QED BY <1>1

\* The newest of the records, and of those of a page.
LEMMA Newest ==
  ASSUME WatermarkTypeOK
  PROVE  LET all == {stamp[y] : y \in Record}
         IN Max(all) \in all /\ \A y \in Record : stamp[y] <= Max(all)
<1>1. LastStamp \in Nat /\ {stamp[y] : y \in Record} \in SUBSET Nat
  BY IncrementalAssumption DEF WatermarkTypeOK, Stamp
<1>2. {stamp[y] : y \in Record} # {}
  BY RecordsExist
<1>3. \A n \in {stamp[y] : y \in Record} : n <= LastStamp
  BY IncrementalAssumption DEF WatermarkTypeOK, Stamp
<1> QED BY <1>1, <1>2, <1>3, Largest

LEMMA Observes ==
  ASSUME WatermarkTypeOK, NEW old \in Stamp, NEW page \in SUBSET Record
  PROVE  /\ Observe(old, page) \in Stamp /\ old <= Observe(old, page)
         /\ Observe(old, page) = old \/ \E x \in page : Observe(old, page) = stamp[x]
<1> DEFINE all == {old} \cup {stamp[x] : x \in page}
<1>1. LastStamp \in Nat /\ all \in SUBSET Nat /\ all # {} /\ \A n \in all : n <= LastStamp
  BY IncrementalAssumption DEF WatermarkTypeOK, Stamp
<1>2. Max(all) \in all /\ \A n \in all : n <= Max(all)
  BY <1>1, Largest
<1>3. Observe(old, page) = Max(all)
  BY DEF Observe
<1>4. all \subseteq Stamp
  BY DEF WatermarkTypeOK
<1> QED BY <1>2, <1>3, <1>4

\* Where a page ends.
LEMMA PageEnds ==
  ASSUME WatermarkTypeOK, NEW r \in Run, Page(r) # {}
  PROVE  LET keys == {x[2] : x \in Page(r)}
         IN Max(keys) \in keys /\ \A k \in keys : k <= Max(keys)
<1> DEFINE keys == {x[2] : x \in Page(r)}
<1>1. Page(r) \subseteq Record
  BY DEF Page, Rest
<1>2. \A x \in Record : x[2] \in 1..NumKeys
  BY DEF Record
<1>3. keys \in SUBSET Nat /\ keys # {} /\ NumKeys \in Nat /\ \A k \in keys : k <= NumKeys
  BY <1>1, <1>2, IncrementalAssumption
<1> HIDE DEF keys
<1>4. Max(keys) \in keys /\ \A k \in keys : k <= Max(keys)
  BY <1>3, Largest
<1> QED BY <1>4 DEF keys

LEMMA WatermarkTypes == WatermarkTypeInv /\ [WatermarkNext]_watermarkVars => WatermarkTypeInv'
<1> SUFFICES ASSUME WatermarkTypeInv, [WatermarkNext]_watermarkVars PROVE WatermarkTypeInv'
  OBVIOUS
<1> USE IncrementalAssumption DEF WatermarkTypeInv, WatermarkTypeOK
<1>0. Stamp = 0..LastStamp /\ LastStamp \in Nat
  BY DEF Stamp
<1>1. ASSUME NEW x \in Record, Touch(x) PROVE WatermarkTypeInv'
  <2>1. PICK y \in Record : Max({stamp[z] : z \in Record}) = stamp[y]
    BY Newest
  <2>2. stamp[y] < LastStamp /\ stamp[y] \in Nat
    BY <1>1, <1>0 DEF Touch
  <2>3. Max({stamp[z] : z \in Record}) + 1 \in Stamp
    BY <2>1, <2>2, <1>0
  <2>4. stamp' \in [Record -> Stamp]
    BY <1>1, <2>3 DEF Touch
  <2> QED BY <1>1, <2>4 DEF Touch
<1>2. ASSUME NEW r \in Run, StartRun(r) PROVE WatermarkTypeInv'
  BY <1>2, <1>0 DEF StartRun
<1>3. ASSUME NEW r \in Run, StartAgain(r) PROVE WatermarkTypeInv'
  <2>1. observed' \in [Run -> Stamp] /\ \A q \in Run : state[q] # "new" => since[q] <= observed'[q]
    BY <1>3, <1>0 DEF StartAgain
  <2>2. table' \in [Run -> 1..(NumTables + 1)] /\ key' \in [Run -> 1..(NumKeys + 1)]
    BY <1>3 DEF StartAgain
  <2>3. /\ state' \in [Run -> {"new", "reading", "stopped", "finished"}]
        /\ \A q \in Run : state'[q] = "new" <=> state[q] = "new"
    BY <1>3 DEF StartAgain
  <2>4. \A q \in Run : state[q] = "new" => table'[q] = 1 /\ key'[q] = 1
    BY <1>3 DEF StartAgain
  <2>5. attempts' \in [Run -> Nat]
    BY <1>3 DEF StartAgain
  <2> QED BY <1>3, <2>1, <2>2, <2>3, <2>4, <2>5 DEF StartAgain
<1>4. ASSUME NEW r \in Run, NEW bad \in SUBSET Page(r), ReadPage(r, bad)
      PROVE  WatermarkTypeInv'
  <2>1. Page(r) \subseteq Record /\ Page(r) # {}
    BY <1>4 DEF ReadPage, Page, Rest
  <2>2. observed' = [observed EXCEPT ![r] = Observe(observed[r], Page(r))]
    BY <1>4 DEF ReadPage
  <2>3. observed' \in [Run -> Stamp] /\ \A q \in Run : observed[q] <= observed'[q]
    <3>1. Observe(observed[r], Page(r)) \in Stamp /\ observed[r] <= Observe(observed[r], Page(r))
      BY <2>1, Observes
    <3>2. \A q \in Run : observed'[q] = IF q = r THEN Observe(observed[r], Page(r)) ELSE observed[q]
      BY <2>2
    <3>3. observed' \in [Run -> Stamp]
      BY <2>2, <3>1
    <3>4. \A q \in Run : observed[q] <= observed[q]
      BY <1>0
    <3> QED BY <3>1, <3>2, <3>3, <3>4
  <2>4. Max({x[2] : x \in Page(r)}) \in 1..NumKeys
    <3>1. PICK x \in Page(r) : Max({y[2] : y \in Page(r)}) = x[2]
      <4>1. WatermarkTypeOK
        OBVIOUS
      <4> QED
        <5> HIDE DEF WatermarkTypeInv, WatermarkTypeOK
        <5> QED BY <2>1, <4>1, PageEnds
    <3> QED BY <2>1, <3>1 DEF Record
  <2>5. key' \in [Run -> 1..(NumKeys + 1)]
    BY <1>4, <2>4 DEF ReadPage
  <2>6. carried' \in [Record -> Stamp]
    BY <1>4 DEF ReadPage
  <2>7. handled' \in [Run -> SUBSET Record] /\ excused' \subseteq Record
    BY <1>4, <2>1 DEF ReadPage
  <2>8. \A q \in Run : state[q] # "new" => since[q] <= observed'[q]
    BY <2>3, <1>0
  <2>9. state[r] # "new" /\ \A q \in Run : q # r => key'[q] = key[q]
    BY <1>4 DEF ReadPage
  <2> QED BY <1>4, <2>3, <2>5, <2>6, <2>7, <2>8, <2>9 DEF ReadPage
<1>5. ASSUME NEW r \in Run, NextTable(r), state[r] = "reading", table[r] <= NumTables
      PROVE  /\ table' \in [Run -> 1..(NumTables + 1)] /\ key' \in [Run -> 1..(NumKeys + 1)]
             /\ \A q \in Run : state[q] = "new" => table'[q] = 1 /\ key'[q] = 1
  BY <1>5 DEF NextTable
<1>6. ASSUME NEW r \in Run, EndTable(r) PROVE WatermarkTypeInv'
  BY <1>6, <1>5 DEF EndTable
<1>7. ASSUME NEW r \in Run, TableFails(r) PROVE WatermarkTypeInv'
  BY <1>7, <1>5 DEF TableFails, Rest
<1>8. ASSUME NEW r \in Run, Stops(r) PROVE WatermarkTypeInv'
  BY <1>8 DEF Stops
<1>9. ASSUME NEW r \in Run, Finish(r) PROVE WatermarkTypeInv'
  <2>1. mark' \in Stamp
    BY <1>9 DEF Finish, Publish
  <2>2. state' \in [Run -> {"new", "reading", "stopped", "finished"}] /\ state[r] = "reading"
        /\ \A q \in Run : q # r => state'[q] = state[q]
    BY <1>9 DEF Finish
  <2>3. state'[r] # "new"
    BY <1>9 DEF Finish
  <2>4. kept' \in [Run -> Stamp] /\ \A q \in Run : since[q] <= kept'[q]
    BY <1>9, <1>0 DEF Finish
  <2> QED BY <1>9, <2>1, <2>2, <2>3, <2>4 DEF Finish
<1>10. CASE UNCHANGED watermarkVars
  BY <1>10 DEF watermarkVars
<1> QED BY <1>1, <1>2, <1>3, <1>4, <1>6, <1>7, <1>8, <1>9, <1>10 DEF WatermarkNext, RunStep

LEMMA WatermarkStarts == WatermarkInit => WatermarkTypeInv
<1> SUFFICES ASSUME WatermarkInit PROVE WatermarkTypeInv
  OBVIOUS
<1>1. FirstStamp \in Stamp /\ 0 \in Stamp
  BY IncrementalAssumption DEF Stamp
<1>2. stamp \in [Record -> Stamp]
  BY IncrementalAssumption DEF WatermarkInit, Stamp
<1> QED
  BY <1>1, <1>2, IncrementalAssumption DEF WatermarkInit, WatermarkTypeInv, WatermarkTypeOK

(* The variables of the runs of a schedule have their types.               *)
THEOREM WatermarkTypeCorrect == WatermarkSpec => []WatermarkTypeOK
<1>1. WatermarkInit => WatermarkTypeInv
  BY WatermarkStarts
<1>2. WatermarkTypeInv => WatermarkTypeOK
  BY DEF WatermarkTypeInv
<1> QED BY <1>1, <1>2, WatermarkTypes, PTL DEF WatermarkSpec

-----------------------------------------------------------------------------
(* Incremental: nothing is left behind.                                    *)

Calm == Record \ excused
Current(x) == carried[x] = stamp[x]

\* The execution of a run is past a record.
Passed(r, x) == x[1] < table[r] \/ (x[1] = table[r] /\ x[2] < key[r])

\* A record has been seen that is as new.
Reached(value) == \E x \in Record : value <= stamp[x]

\* What a run did not ask for, has handled or is past is in the target.
Behind(r) ==
  /\ Reached(observed[r]) /\ Reached(kept[r])
  /\ r \in Underway =>
       \A x \in Calm : stamp[x] <= since[r] \/ x \in handled[r] => Current(x)
  /\ state[r] = "reading" => \A x \in Calm : Passed(r, x) => Current(x)

WatermarkInv ==
  /\ WatermarkTypeInv /\ NothingSkippedInCalm
  /\ Reached(mark) /\ \A r \in Run : Behind(r)

LEMMA RestIsFinite ==
  ASSUME NEW r \in Run, NEW S \in SUBSET Rest(r)
  PROVE  IsFiniteSet(S) /\ Cardinality(S) \in Nat
<1>1. IsFiniteSet(1..NumTables) /\ IsFiniteSet(1..NumKeys)
  BY FS_Interval, IncrementalAssumption
<1>2. IsFiniteSet(Record)
  BY <1>1, FS_Product DEF Record
<1>3. S \in SUBSET Record
  BY DEF Rest
<1> QED BY <1>2, <1>3, FS_Subset, FS_CardinalityType

\* A page is the first of what is left.
LEMMA PageIsFirst ==
  ASSUME NEW r \in Run, NEW m \in Page(r), NEW x \in Rest(r), x[2] <= m[2]
  PROVE  x \in Page(r)
<1> DEFINE before(y) == {z \in Rest(r) : z[2] < y[2]}
<1>1. m \in Rest(r) /\ Cardinality(before(m)) < PageSize
  BY DEF Page
<1>2. \A z \in Rest(r) : z[2] \in Nat
  BY DEF Rest, Record
<1>3. before(x) \in SUBSET before(m)
  BY <1>1, <1>2
<1>4. /\ IsFiniteSet(before(m)) /\ Cardinality(before(m)) \in Nat
      /\ Cardinality(before(x)) \in Nat
  BY RestIsFinite
<1>5. Cardinality(before(x)) <= Cardinality(before(m))
  BY <1>3, <1>4, FS_Subset
<1>6. Cardinality(before(x)) < PageSize
  BY <1>1, <1>4, <1>5, IncrementalAssumption
<1> QED BY <1>6 DEF Page

\* There is no page when nothing is left.
LEMMA NoPage ==
  ASSUME NEW r \in Run, Page(r) = {}
  PROVE  Rest(r) = {}
<1> SUFFICES ASSUME Rest(r) # {} PROVE FALSE
  OBVIOUS
<1>1. \A x \in Rest(r) : x[2] \in Nat
  BY DEF Rest, Record
<1>2. PICK k \in {x[2] : x \in Rest(r)} : \A n \in {x[2] : x \in Rest(r)} : k <= n
  BY <1>1, Least
<1>3. PICK x \in Rest(r) : x[2] = k
  BY <1>2
<1>4. ASSUME NEW y \in Rest(r) PROVE ~(y[2] < x[2])
  <2>1. x[2] <= y[2] /\ x[2] \in Nat /\ y[2] \in Nat
    BY <1>1, <1>2, <1>3
  <2> QED BY <2>1
<1>5. {y \in Rest(r) : y[2] < x[2]} = {}
  BY <1>4
<1>6. Cardinality({y \in Rest(r) : y[2] < x[2]}) < PageSize
  BY <1>5, FS_EmptySet, IncrementalAssumption
<1> QED BY <1>6 DEF Page

\* A step that changes no record, and loses none that is in the target,
\* leaves the runs alone that it does not move.
LEMMA OthersBehind ==
  ASSUME WatermarkInv, stamp' = stamp, excused \subseteq excused',
         \A x \in Calm' : Current(x) => Current(x)', NEW q \in Run,
         state'[q] = state[q], since'[q] = since[q], observed'[q] = observed[q],
         kept'[q] = kept[q], table'[q] = table[q], key'[q] = key[q],
         handled'[q] = handled[q]
  PROVE  Behind(q)'
<1>1. Behind(q) /\ Calm' \subseteq Calm
  BY DEF WatermarkInv, Calm
<1> QED BY <1>1 DEF Behind, Reached, Underway, Passed

LEMMA NothingMoved ==
  ASSUME WatermarkInv, stamp' = stamp, excused \subseteq excused', mark' = mark,
         \A x \in Calm' : Current(x) => Current(x)'
  PROVE  NothingSkippedInCalm' /\ Reached(mark)'
BY DEF WatermarkInv, NothingSkippedInCalm, Calm, Current, Reached

\* An execution at the beginning is past nothing.
LEMMA AtTheStart ==
  ASSUME NEW r \in Run, NEW x \in Record, table[r] = 1, key[r] = 1
  PROVE  ~Passed(r, x)
BY DEF Passed, Record

LEMMA TouchKeeps ==
  ASSUME WatermarkInv, NEW x \in Record, Touch(x)
  PROVE  NothingSkippedInCalm' /\ Reached(mark)' /\ \A r \in Run : Behind(r)'
<1>1. WatermarkTypeOK /\ \A y \in Record : stamp[y] \in Nat
  BY DEF WatermarkInv, WatermarkTypeInv, WatermarkTypeOK, Stamp
<1>2. PICK z \in Record : /\ Max({stamp[y] : y \in Record}) = stamp[z]
                          /\ \A y \in Record : stamp[y] <= stamp[z]
  BY <1>1, Newest
<1>3. /\ stamp'[x] = stamp[z] + 1 /\ \A y \in Record : y # x => stamp'[y] = stamp[y]
      /\ UNCHANGED <<carried, mark, state, since, observed, table, key, handled, kept>>
  BY <1>1, <1>2 DEF Touch, WatermarkTypeOK
<1>4. ASSUME NEW value \in Stamp, Reached(value) PROVE Reached(value)' /\ value < stamp'[x]
  <2>1. value \in Nat
    BY IncrementalAssumption DEF Stamp
  <2>2. PICK y \in Record : value <= stamp[y]
    BY <1>4 DEF Reached
  <2>3. value < stamp'[x]
    BY <2>1, <2>2, <1>1, <1>2, <1>3
  <2> QED BY <2>1, <2>3, <1>1, <1>3 DEF Reached
<1>5. Reached(mark)' /\ mark < stamp'[x]
  <2>1. mark \in Stamp /\ Reached(mark)
    BY <1>1 DEF WatermarkInv, WatermarkTypeOK
  <2> QED BY <2>1, <1>3, <1>4 DEF Reached
<1>6. ASSUME NEW r \in Run PROVE Reached(observed[r])' /\ Reached(kept[r])'
  <2>1. observed[r] \in Stamp /\ kept[r] \in Stamp /\ Reached(observed[r]) /\ Reached(kept[r])
    BY <1>1 DEF WatermarkInv, WatermarkTypeOK, Behind
  <2> QED BY <2>1, <1>3, <1>4 DEF Reached
<1>7. Calm' \subseteq Calm /\ (x \in Calm' => Underway = {})
  BY <1>1 DEF Touch, Calm
<1>8. ASSUME NEW y \in Calm', y # x PROVE y \in Calm /\ (Current(y) => Current(y)') /\ stamp'[y] = stamp[y]
  BY <1>3, <1>7, <1>8 DEF Calm, Current
<1>9. NothingSkippedInCalm'
  <2>1. ASSUME NEW y \in Calm', stamp'[y] <= mark' PROVE carried'[y] = stamp'[y]
    <3>1. y # x
      <4>1. mark \in Nat /\ stamp'[x] \in Nat
        BY <1>1, <1>2, <1>3, IncrementalAssumption DEF WatermarkTypeOK, Stamp
      <4> QED BY <2>1, <4>1, <1>3, <1>5
    <3>2. stamp[y] <= mark
      BY <2>1, <3>1, <1>3, <1>8
    <3> QED BY <3>1, <3>2, <1>8 DEF WatermarkInv, NothingSkippedInCalm, Calm, Current
  <2> QED BY <2>1 DEF NothingSkippedInCalm, Calm
<1>10. ASSUME NEW r \in Run PROVE Behind(r)'
  <2>1. Behind(r) /\ Underway' = Underway
    BY <1>3 DEF WatermarkInv, Underway
  <2>2. CASE r \in Underway
    <3>1. x \notin Calm'
      BY <1>7, <2>2
    <3>2. \A y \in Calm' : y # x
      BY <3>1
    <3> QED BY <3>2, <2>1, <1>3, <1>6, <1>8 DEF Behind, Passed
  <2>3. CASE r \notin Underway
    BY <2>1, <2>3, <1>3, <1>6 DEF Behind, Underway
  <2> QED BY <2>2, <2>3
<1> QED BY <1>5, <1>9, <1>10

LEMMA StartsBehind ==
  ASSUME WatermarkInv, NEW r \in Run, StartRun(r) \/ StartAgain(r)
  PROVE  NothingSkippedInCalm' /\ Reached(mark)' /\ \A q \in Run : Behind(q)'
<1>1. WatermarkTypeInv /\ WatermarkTypeOK /\ Behind(r)
  BY DEF WatermarkInv, WatermarkTypeInv
<1>2. /\ UNCHANGED <<stamp, carried, mark, handled, excused>>
      /\ Calm' = Calm /\ \A x \in Calm : Current(x)' <=> Current(x)
  BY DEF StartRun, StartAgain, Calm, Current
<1>3. \A q \in Run : q # r =>
        /\ state'[q] = state[q] /\ since'[q] = since[q] /\ observed'[q] = observed[q]
        /\ kept'[q] = kept[q] /\ table'[q] = table[q] /\ key'[q] = key[q]
  BY <1>1 DEF StartRun, StartAgain, WatermarkTypeOK
<1>4. \A q \in Run : q # r => Behind(q)'
  BY <1>2, <1>3, OthersBehind
<1>5. table'[r] = 1 /\ key'[r] = 1
  BY <1>1 DEF StartRun, StartAgain, WatermarkTypeOK, WatermarkTypeInv
<1>6. \A x \in Calm' : ~Passed(r, x)'
  BY <1>5 DEF Passed, Record, Calm
<1>7. Reached(observed[r])' /\ Reached(kept[r])'
  BY <1>1, <1>2 DEF StartRun, StartAgain, WatermarkTypeOK, WatermarkInv, Reached, Behind
<1>8. ASSUME NEW x \in Calm, stamp[x] <= since'[r] \/ x \in handled[r] PROVE Current(x)
  <2>1. CASE StartRun(r)
    <3>1. since'[r] = mark /\ handled[r] = {}
      BY <2>1, <1>1 DEF StartRun, WatermarkTypeOK, WatermarkTypeInv
    <3> QED BY <3>1, <1>8 DEF WatermarkInv, NothingSkippedInCalm, Calm, Current
  <2>2. CASE StartAgain(r)
    <3>1. since'[r] = since[r] /\ r \in Underway
      BY <2>2 DEF StartAgain, Underway
    <3> QED BY <3>1, <1>1, <1>8 DEF Behind
  <2> QED BY <2>1, <2>2
<1>9. Behind(r)'
  BY <1>2, <1>6, <1>7, <1>8 DEF Behind
<1>10. NothingSkippedInCalm' /\ Reached(mark)'
  BY <1>2, NothingMoved
<1> QED BY <1>4, <1>9, <1>10

LEMMA PagesBehind ==
  ASSUME WatermarkInv, NEW r \in Run, NEW bad \in SUBSET Page(r), ReadPage(r, bad)
  PROVE  NothingSkippedInCalm' /\ Reached(mark)' /\ \A q \in Run : Behind(q)'
<1> DEFINE work == Page(r) \ handled[r]
<1>1. WatermarkTypeOK /\ Behind(r) /\ state[r] = "reading" /\ r \in Underway
  BY DEF WatermarkInv, WatermarkTypeInv, ReadPage, Underway
<1>2. /\ UNCHANGED <<stamp, mark, state, since, table, kept>>
      /\ excused' = excused \cup bad /\ Page(r) # {} /\ Page(r) \subseteq Record
      /\ carried' = [x \in Record |-> IF x \in work \ bad THEN stamp[x] ELSE carried[x]]
  BY DEF ReadPage, Page, Rest
<1>3. /\ observed'[r] = Observe(observed[r], Page(r))
      /\ handled'[r] = handled[r] \cup (work \ bad)
      /\ key'[r] = Max({x[2] : x \in Page(r)}) + 1
  BY <1>1 DEF ReadPage, WatermarkTypeOK
<1>4. \A q \in Run : q # r =>
        observed'[q] = observed[q] /\ handled'[q] = handled[q] /\ key'[q] = key[q]
  BY <1>1 DEF ReadPage, WatermarkTypeOK
<1>5. \A x \in Calm' : x \in Calm /\ x \notin bad /\ (Current(x) => Current(x)')
  BY <1>2 DEF Calm, Current
<1>6. \A q \in Run : q # r => Behind(q)'
  BY <1>2, <1>4, <1>5, OthersBehind
<1>7. NothingSkippedInCalm' /\ Reached(mark)'
  BY <1>2, <1>5, NothingMoved
<1>8. Reached(observed[r])' /\ Reached(kept[r])'
  <2>1. observed[r] \in Stamp /\ \A x \in Record : stamp[x] \in Nat
    BY <1>1 DEF WatermarkTypeOK, Stamp
  <2>2. observed'[r] = observed[r] \/ \E x \in Record : observed'[r] = stamp[x]
    BY <1>1, <1>2, <1>3, <2>1, Observes
  <2>3. \A x \in Record : stamp[x] <= stamp[x]
    BY <2>1
  <2>4. Reached(observed[r]) /\ Reached(kept[r])
    BY <1>1 DEF Behind
  <2> QED BY <1>2, <2>2, <2>3, <2>4 DEF Reached
<1>9. ASSUME NEW x \in Calm', x \in Page(r) \cup handled'[r] PROVE Current(x)'
  <2>1. x \in handled[r] \/ x \in work \ bad
    BY <1>3, <1>5, <1>9
  <2>2. x \in work \ bad => Current(x)'
    BY <1>2, <1>5 DEF Current, Calm
  <2>3. x \in handled[r] => Current(x)
    BY <1>1, <1>5 DEF Behind
  <2> QED BY <2>1, <2>2, <2>3, <1>5
<1>10. ASSUME NEW x \in Calm', Passed(r, x)' PROVE Current(x)'
  <2>1. PICK m \in Page(r) : Max({y[2] : y \in Page(r)}) = m[2]
    BY <1>1, <1>2, PageEnds
  <2>2. x \in Record /\ x[2] \in Nat /\ m[2] \in Nat /\ key[r] \in Nat
    BY <1>1, <1>2 DEF Record, Calm, WatermarkTypeOK
  <2>3. CASE Passed(r, x)
    BY <2>3, <1>1, <1>5 DEF Behind
  <2>4. CASE ~Passed(r, x)
    <3>1. x[1] = table[r] /\ x[2] < m[2] + 1 /\ x[2] >= key[r]
      BY <2>1, <2>2, <2>4, <1>2, <1>3, <1>10 DEF Passed
    <3>2. CASE Newer(x, since[r])
      <4>1. x \in Rest(r) /\ x[2] <= m[2]
        BY <3>1, <3>2, <2>2 DEF Rest
      <4> QED BY <4>1, <1>9, PageIsFirst
    <3>3. CASE ~Newer(x, since[r])
      <4>1. stamp[x] <= since[r]
        BY <3>3, <2>2, <1>1, IncrementalAssumption DEF Newer, WatermarkTypeOK, Stamp
      <4> QED BY <4>1, <1>1, <1>5 DEF Behind
    <3> QED BY <3>2, <3>3
  <2> QED BY <2>3, <2>4
<1>11. Behind(r)'
  <2>1. ASSUME NEW x \in Calm', stamp'[x] <= since'[r] PROVE Current(x)'
    BY <2>1, <1>1, <1>2, <1>5 DEF Behind
  <2> QED BY <1>8, <1>9, <1>10, <2>1 DEF Behind
<1> QED BY <1>6, <1>7, <1>11

LEMMA TablesBehind ==
  ASSUME WatermarkInv, NEW r \in Run, EndTable(r) \/ TableFails(r)
  PROVE  NothingSkippedInCalm' /\ Reached(mark)' /\ \A q \in Run : Behind(q)'
<1>1. WatermarkTypeOK /\ Behind(r) /\ state[r] = "reading" /\ r \in Underway
  BY DEF WatermarkInv, WatermarkTypeInv, EndTable, TableFails, Underway
<1>2. /\ UNCHANGED <<stamp, carried, mark, state, since, observed, handled, kept>>
      /\ excused \subseteq excused'
  BY DEF EndTable, TableFails
<1>3. \A x \in Calm' : x \in Calm /\ (Current(x) <=> Current(x)')
  BY <1>2 DEF Calm, Current
<1>4. table'[r] = table[r] + 1 /\ key'[r] = 1
      /\ \A q \in Run : q # r => table'[q] = table[q] /\ key'[q] = key[q]
  BY <1>1 DEF EndTable, TableFails, NextTable, WatermarkTypeOK
<1>5. \A q \in Run : q # r => Behind(q)'
  BY <1>2, <1>3, <1>4, OthersBehind
<1>6. NothingSkippedInCalm' /\ Reached(mark)'
  BY <1>2, <1>3, NothingMoved
<1>7. ASSUME NEW x \in Calm', Passed(r, x)' PROVE Current(x)
  <2>1. x \in Record /\ x[1] \in Nat /\ x[2] \in Nat /\ table[r] \in Nat /\ key[r] \in Nat
    BY <1>1 DEF Record, Calm, WatermarkTypeOK
  <2>2. x[2] >= 1
    BY <2>1 DEF Record
  <2>3. x[1] <= table[r]
    BY <2>1, <2>2, <1>4, <1>7 DEF Passed
  <2>4. x \notin Rest(r)
    <3>1. CASE EndTable(r)
      BY <3>1, NoPage DEF EndTable
    <3>2. CASE TableFails(r)
      BY <3>2, <1>7 DEF TableFails, Calm
    <3> QED BY <3>1, <3>2
  <2>5. Passed(r, x) \/ ~Newer(x, since[r])
    BY <2>1, <2>3, <2>4 DEF Passed, Rest
  <2>6. ~Newer(x, since[r]) => stamp[x] <= since[r]
    BY <2>1, <1>1, IncrementalAssumption DEF Newer, WatermarkTypeOK, Stamp
  <2> QED BY <2>5, <2>6, <1>1, <1>3 DEF Behind
<1>8. Behind(r)'
  <2>1. \A x \in Calm' : stamp'[x] <= since'[r] \/ x \in handled'[r] => Current(x)'
    BY <1>1, <1>2, <1>3 DEF Behind
  <2>2. Reached(observed[r])' /\ Reached(kept[r])'
    BY <1>1, <1>2 DEF Behind, Reached
  <2> QED BY <2>1, <2>2, <1>3, <1>7 DEF Behind
<1> QED BY <1>5, <1>6, <1>8

LEMMA EndsBehind ==
  ASSUME WatermarkInv, NEW r \in Run, Stops(r) \/ Finish(r)
  PROVE  NothingSkippedInCalm' /\ Reached(mark)' /\ \A q \in Run : Behind(q)'
<1>1. WatermarkTypeOK /\ Behind(r) /\ state[r] = "reading" /\ r \in Underway
  BY DEF WatermarkInv, WatermarkTypeInv, Stops, Finish, Underway
<1>2. /\ UNCHANGED <<stamp, carried, since, observed, table, key, handled, excused>>
      /\ Calm' = Calm /\ \A x \in Calm : Current(x)' <=> Current(x)
  BY DEF Stops, Finish, Calm, Current
<1>3. /\ \A q \in Run : q # r => state'[q] = state[q] /\ kept'[q] = kept[q]
      /\ state'[r] \in {"stopped", "finished"} /\ kept'[r] \in {kept[r], observed[r]}
  BY <1>1 DEF Stops, Finish, WatermarkTypeOK
<1>4. \A q \in Run : q # r => Behind(q)'
  BY <1>2, <1>3, OthersBehind
<1>5. Behind(r)'
  BY <1>1, <1>2, <1>3 DEF Behind, Reached, Underway
<1>6. CASE mark' = mark
  BY <1>2, <1>4, <1>5, <1>6, NothingMoved
<1>7. CASE mark' # mark
  <2>1. mark' = observed[r] /\ table[r] = NumTables + 1
    BY <1>7 DEF Stops, Finish, Publish
  <2>2. \A x \in Calm : Current(x)
    <3>1. \A x \in Calm : Passed(r, x)
      BY <2>1, IncrementalAssumption DEF Calm, Passed, Record
    <3> QED BY <3>1, <1>1 DEF Behind
  <2>3. NothingSkippedInCalm'
    BY <2>2, <1>2 DEF NothingSkippedInCalm, Calm, Current
  <2>4. Reached(mark)'
    BY <2>1, <1>1, <1>2 DEF Behind, Reached
  <2> QED BY <2>3, <2>4, <1>4, <1>5
<1> QED BY <1>6, <1>7

(* The version of a record that no later run will ask for has reached the  *)
(* target, unless a failure of it or of its table, or a change of it under *)
(* a run, is on record: whatever runs overlap, stop, start again and       *)
(* finish in whatever order, and however the watermarks are compared       *)
(* (Older may be any relation).                                            *)
THEOREM NothingIsSkipped == WatermarkSpec => []NothingSkippedInCalm
<1>1. WatermarkInit => WatermarkInv
  <2> SUFFICES ASSUME WatermarkInit PROVE WatermarkInv
    OBVIOUS
  <2>1. WatermarkTypeInv
    BY WatermarkStarts
  <2>2. \A x \in Record : stamp[x] \in Nat /\ 0 < stamp[x] /\ 0 <= stamp[x]
    BY IncrementalAssumption DEF WatermarkInit
  <2>3. Reached(0)
    BY <2>2, RecordsExist DEF Reached
  <2> QED BY <2>1, <2>2, <2>3 DEF WatermarkInit, WatermarkInv, NothingSkippedInCalm, Behind, Underway
<1>2. WatermarkInv /\ [WatermarkNext]_watermarkVars => WatermarkInv'
  <2> SUFFICES ASSUME WatermarkInv, [WatermarkNext]_watermarkVars PROVE WatermarkInv'
    OBVIOUS
  <2>1. WatermarkTypeInv'
    BY WatermarkTypes DEF WatermarkInv
  <2>2. NothingSkippedInCalm' /\ Reached(mark)' /\ \A r \in Run : Behind(r)'
    <3>1. ASSUME NEW r \in Run, RunStep(r)
          PROVE  NothingSkippedInCalm' /\ Reached(mark)' /\ \A q \in Run : Behind(q)'
      BY <3>1, StartsBehind, PagesBehind, TablesBehind, EndsBehind DEF RunStep
    <3>2. CASE UNCHANGED watermarkVars
      BY <3>2 DEF watermarkVars, WatermarkInv, NothingSkippedInCalm, Behind, Reached, Calm, Current,
         Passed, Underway
    <3> QED BY <3>1, <3>2, TouchKeeps DEF WatermarkNext
  <2> QED BY <2>1, <2>2 DEF WatermarkInv
<1>3. WatermarkInv => NothingSkippedInCalm
  BY DEF WatermarkInv
<1> QED BY <1>1, <1>2, <1>3, PTL DEF WatermarkSpec
=============================================================================
