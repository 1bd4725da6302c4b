------------------------------ MODULE Schedule ------------------------------
(***************************************************************************)
(* Recurring migrations: server/src/services/schedule-service.ts.  Every   *)
(* worker process polls migration_schedules, claims what is due by a       *)
(* conditional UPDATE and fires it; administrators edit, trigger and       *)
(* delete schedules at the same time.                                      *)
(*                                                                         *)
(* A party is a scheduler or a request.  What a party has read (the row,   *)
(* the time of its tick) is its memory and is not read again.  One action  *)
(* is one statement, or the call of start, whose answer is any of its      *)
(* three.  The times a schedule fires at are those of NextSlot; a          *)
(* statement is executed within the minute its values were computed in.    *)
(***************************************************************************)
EXTENDS Naturals, FiniteSets, Sequences

CONSTANTS
  Sched,          \* rows migration_schedules may come to hold
  Scheduler,      \* worker processes, each with its Scheduler
  Client,         \* administrators' requests in progress at a time
  NextSlot(_, _), \* nextCronTime of a schedule after a time
  MaxFailures,    \* MAX_CONSECUTIVE_FAILURES
  Requests,       \* the requests clients make: "edit", "trigger", "remove"
  MaxTime,        \* bound: minutes that pass
  MaxRequests,    \* bound: requests
  MaxFaults,      \* bound: crashes and failed statements
  None            \* SQL NULL

Party == Scheduler \cup Client

ASSUME ScheduleAssumption ==
  /\ Scheduler \cap Client = {} /\ IsFiniteSet(Scheduler)
  /\ MaxFailures \in Nat \ {0} /\ MaxTime \in Nat
  /\ MaxRequests \in Nat /\ MaxFaults \in Nat
  /\ None \notin Nat /\ None \notin Sched
  /\ \A s \in Sched, t \in 0..MaxTime :
       NextSlot(s, t) # None => NextSlot(s, t) \in Nat /\ NextSlot(s, t) > t

VARIABLES
  clock,      \* the time, in minutes
  stage,      \* whether the row of a schedule is yet to come, there, or deleted
  enabled, nextRunAt, failures,   \* columns of a schedule
  orphan,     \* schedules whose creator no longer exists
  at,         \* where each party is
  due,        \* the rows a scheduler's SELECT returned and it has not come to
  tickTime,   \* the time of a scheduler's tick
  seen,       \* the row a party works on, as it read it
  claims,     \* history: slots claimed, in the order of the claims
  tried,      \* history: firings that reached an answer of start, by the timer
  streak,     \* history: failed firings since the last success or enabling
  overlapped, \* history: schedules on which two parties once worked at a time
  crashes,    \* history: firings interrupted by a crash
  asked, faults

row == <<stage, enabled, nextRunAt, failures>>
memory == <<at, due, tickTime, seen>>
present == {s \in Sched : stage[s] = "present"}
history == <<claims, tried, streak, overlapped, crashes>>
bounds == <<asked, faults>>
vars == <<clock, row, orphan, memory, history, bounds>>

\* A row as it is read: the columns whose later use matters.
Snapshot == [sched: Sched, enabled: BOOLEAN, slot: Nat \cup {None}, failures: Nat]
Read(s) == [sched |-> s, enabled |-> enabled[s], slot |-> nextRunAt[s],
            failures |-> failures[s]]

Firing == {"firing", "started", "skipped", "failed"}
Editing == {"enable", "disable", "rename"}
Place == {"idle", "looping"} \cup Firing \cup Editing

(* The type invariant.  A paused or disabled schedule has no next time.    *)
TypeOK ==
  /\ clock \in Nat
  /\ stage \in [Sched -> {"none", "present", "deleted"}]
  /\ orphan \subseteq Sched /\ overlapped \subseteq Sched
  /\ enabled \in [Sched -> BOOLEAN]
  /\ nextRunAt \in [Sched -> Nat \cup {None}]
  /\ failures \in [Sched -> Nat]
  /\ at \in [Party -> Place]
  /\ due \in [Party -> SUBSET Snapshot]
  /\ tickTime \in [Party -> Nat]
  /\ seen \in [Party -> Snapshot \cup {None}]
  /\ claims \in [Sched -> Seq(Nat)]
  /\ tried \in [Sched -> Nat] /\ streak \in [Sched -> Nat]
  /\ crashes \in Nat /\ asked \in Nat /\ faults \in Nat
  /\ \A s \in Sched : ~enabled[s] => nextRunAt[s] = None

Init ==
  /\ clock = 0
  /\ stage = [s \in Sched |-> "none"] /\ orphan = {} /\ overlapped = {}
  /\ enabled = [s \in Sched |-> FALSE]
  /\ nextRunAt = [s \in Sched |-> None]
  /\ failures = [s \in Sched |-> 0]
  /\ at = [p \in Party |-> "idle"]
  /\ due = [p \in Party |-> {}]
  /\ tickTime = [p \in Party |-> 0]
  /\ seen = [p \in Party |-> None]
  /\ claims = [s \in Sched |-> <<>>]
  /\ tried = [s \in Sched |-> 0] /\ streak = [s \in Sched |-> 0]
  /\ crashes = 0 /\ asked = 0 /\ faults = 0

-----------------------------------------------------------------------------
(* A party between reading a schedule and writing it.                      *)

WorksOn(p, s) == at[p] \in Firing \cup Editing /\ seen[p].sched = s
Others(p, s) == \E q \in Party \ {p} : WorksOn(q, s)

\* p begins to work on s, from what it has read.
Begin(p, read, where) ==
  /\ at' = [at EXCEPT ![p] = where]
  /\ seen' = [seen EXCEPT ![p] = read]
  /\ overlapped' = IF Others(p, read.sched) \/ read.failures # failures[read.sched]
                   THEN overlapped \cup {read.sched} ELSE overlapped

\* p is through with its schedule: a scheduler goes on with the loop.
Leave(p) ==
  /\ at' = [at EXCEPT ![p] = IF p \in Scheduler THEN "looping" ELSE "idle"]
  /\ seen' = [seen EXCEPT ![p] = None]

\* A throw that nothing inside runDue catches ends the tick.
Abandon(p) ==
  /\ at' = [at EXCEPT ![p] = "idle"]
  /\ seen' = [seen EXCEPT ![p] = None]
  /\ due' = [due EXCEPT ![p] = {}]
  /\ UNCHANGED tickTime

-----------------------------------------------------------------------------
(* Requests.                                                               *)

\* What create and update write to nextRunAt.
TimeFor(s, on) == IF on THEN NextSlot(s, clock) ELSE None

Create(s, on) ==
  /\ stage[s] = "none" /\ asked < MaxRequests
  /\ asked' = asked + 1
  /\ stage' = [stage EXCEPT ![s] = "present"]
  /\ enabled' = [enabled EXCEPT ![s] = on]
  /\ nextRunAt' = [nextRunAt EXCEPT ![s] = TimeFor(s, on)]
  /\ UNCHANGED <<clock, failures, orphan, memory, history, faults>>

\* The first statement of update, and of trigger: read the row.
Ask(c, s, what) ==
  /\ at[c] = "idle" /\ s \in present /\ asked < MaxRequests
  /\ asked' = asked + 1
  /\ Begin(c, Read(s), what)
  /\ UNCHANGED <<clock, row, orphan, due, tickTime, claims, tried, streak, crashes, faults>>

AskToEdit(c, s, patch) ==
  /\ "edit" \in Requests
  /\ Ask(c, s, patch)

Trigger(c, s) ==
  /\ "trigger" \in Requests
  /\ Ask(c, s, "firing")

\* The value update writes to enabled: the patch's, or the one it read.
TurnsOn(c) ==
  \/ at[c] = "enable"
  \/ at[c] = "rename" /\ seen[c].enabled

\* Whether update clears the streak: the schedule was off and is enabled.
Resets(c) == TurnsOn(c) /\ ~seen[c].enabled

\* The UPDATE of update: columns nobody asked to change are written back as
\* they were read.
Edit(c) ==
  LET s == seen[c].sched
  IN /\ at[c] \in Editing
     /\ IF s \in present
        THEN /\ enabled' = [enabled EXCEPT ![s] = TurnsOn(c)]
             /\ nextRunAt' = [nextRunAt EXCEPT ![s] = TimeFor(s, TurnsOn(c))]
             /\ failures' = [failures EXCEPT
                  ![s] = IF Resets(c) THEN 0 ELSE seen[c].failures]
             /\ streak' = [streak EXCEPT
                  ![s] = IF TurnsOn(c) /\ ~seen[c].enabled THEN 0 ELSE @]
        ELSE UNCHANGED <<enabled, nextRunAt, failures, streak>>
     /\ Leave(c)
     /\ UNCHANGED <<clock, stage, orphan, due, tickTime, claims, tried, overlapped,
                    crashes, bounds>>

Remove(s) ==
  /\ s \in present /\ "remove" \in Requests /\ asked < MaxRequests
  /\ asked' = asked + 1
  /\ stage' = [stage EXCEPT ![s] = "deleted"]
  /\ enabled' = [enabled EXCEPT ![s] = FALSE]
  /\ nextRunAt' = [nextRunAt EXCEPT ![s] = None]
  /\ UNCHANGED <<clock, failures, orphan, memory, history, faults>>

-----------------------------------------------------------------------------
(* The scheduler.                                                          *)

Due(s, t) == enabled[s] /\ nextRunAt[s] # None /\ nextRunAt[s] <= t

\* tick: take the time, select what is due.
Poll(w) ==
  /\ at[w] = "idle"
  /\ \E s \in Sched : Due(s, clock)
  /\ tickTime' = [tickTime EXCEPT ![w] = clock]
  /\ due' = [due EXCEPT ![w] = {Read(s) : s \in {r \in Sched : Due(r, clock)}}]
  /\ at' = [at EXCEPT ![w] = "looping"]
  /\ UNCHANGED <<clock, row, orphan, seen, history, bounds>>

\* Mutant: the WHERE of the claim without the due time it read.
StillDueAnySlot(read) == enabled[read.sched]

\* The WHERE of the claim.
StillDue(read) == enabled[read.sched] /\ nextRunAt[read.sched] = read.slot

\* The SET of the claim: the slot after this tick's time.
MoveOn(w, s) == nextRunAt' = [nextRunAt EXCEPT ![s] = NextSlot(s, tickTime[w])]

\* Mutant: the creator is looked up before the claim.
ClaimAfterCreator(w, read) ==
  LET s == read.sched
  IN /\ at[w] = "looping" /\ read \in due[w] /\ StillDue(read)
     /\ IF s \in orphan
        THEN Abandon(w) /\ UNCHANGED <<overlapped, nextRunAt, claims>>
        ELSE /\ Begin(w, read, "firing")
             /\ MoveOn(w, s)
             /\ claims' = [claims EXCEPT ![s] = Append(@, read.slot)]
             /\ due' = [due EXCEPT ![w] = @ \ {read}]
             /\ UNCHANGED tickTime
     /\ UNCHANGED <<clock, stage, enabled, failures, orphan, tried, streak, crashes,
                    bounds>>

\* Mutant: a slot that another process's firing runs into is claimed and let go.
ClaimUnlessBusy(w, read) ==
  LET s == read.sched
  IN /\ at[w] = "looping" /\ read \in due[w] /\ StillDue(read)
     /\ MoveOn(w, s)
     /\ claims' = [claims EXCEPT ![s] = Append(@, read.slot)]
     /\ IF Others(w, s)
        THEN UNCHANGED <<at, seen, overlapped>>
        ELSE Begin(w, read, "firing")
     /\ due' = [due EXCEPT ![w] = @ \ {read}]
     /\ UNCHANGED <<clock, tickTime, stage, enabled, failures, orphan, tried, streak,
                    crashes, bounds>>

\* A row of the loop whose claim succeeds.  When its creator is gone,
\* creatorContext throws before the try of fire.
Claim(w, read) ==
  LET s == read.sched
  IN /\ at[w] = "looping" /\ read \in due[w] /\ StillDue(read)
     /\ MoveOn(w, s)
     /\ claims' = [claims EXCEPT ![s] = Append(@, read.slot)]
     /\ IF s \in orphan
        THEN Abandon(w) /\ UNCHANGED overlapped
        ELSE /\ Begin(w, read, "firing")
             /\ due' = [due EXCEPT ![w] = @ \ {read}]
             /\ UNCHANGED tickTime
     /\ UNCHANGED <<clock, stage, enabled, failures, orphan, tried, streak, crashes,
                    bounds>>

ClaimedByOther(w, read) ==
  /\ at[w] = "looping" /\ read \in due[w] /\ ~StillDue(read)
  /\ due' = [due EXCEPT ![w] = @ \ {read}]
  /\ UNCHANGED <<clock, row, orphan, at, tickTime, seen, history, bounds>>

EndTick(w) ==
  /\ at[w] = "looping" /\ due[w] = {}
  /\ at' = [at EXCEPT ![w] = "idle"]
  /\ UNCHANGED <<clock, row, orphan, due, tickTime, seen, history, bounds>>

\* planForSchedule and start: a run, a conflict with an active one, a refusal.
Answer(p, outcome) ==
  /\ at[p] = "firing"
  /\ outcome \in {"started", "skipped", "failed"}
  /\ at' = [at EXCEPT ![p] = outcome]
  /\ tried' = [tried EXCEPT ![seen[p].sched] = IF p \in Scheduler THEN @ + 1 ELSE @]
  /\ UNCHANGED <<clock, row, orphan, due, tickTime, seen, claims, streak, overlapped,
                 crashes, bounds>>

\* Mutant: a run that starts, started by hand too, puts its schedule to work again.
RecordStartedEnables(p) ==
  LET s == seen[p].sched
  IN /\ at[p] = "started"
     /\ IF s \in present
        THEN /\ enabled' = [enabled EXCEPT ![s] = TRUE]
             /\ nextRunAt' = [nextRunAt EXCEPT ![s] = NextSlot(s, clock)]
        ELSE UNCHANGED <<enabled, nextRunAt>>
     /\ failures' = [failures EXCEPT ![s] = 0]
     /\ streak' = [streak EXCEPT ![s] = 0]
     /\ Leave(p)
     /\ UNCHANGED <<clock, stage, orphan, due, tickTime, claims, tried, overlapped,
                    crashes, bounds>>

RecordStarted(p) ==
  LET s == seen[p].sched
  IN /\ at[p] = "started"
     /\ failures' = IF s \in present THEN [failures EXCEPT ![s] = 0] ELSE failures
     /\ streak' = [streak EXCEPT ![s] = 0]
     /\ Leave(p)
     /\ UNCHANGED <<clock, stage, enabled, nextRunAt, orphan, due, tickTime, claims,
                    tried, overlapped, crashes, bounds>>

RecordSkipped(p) ==
  /\ at[p] = "skipped"
  /\ Leave(p)
  /\ UNCHANGED <<clock, row, orphan, due, tickTime, history, bounds>>

\* Mutant: the schedule is disabled one failure late.
PausesAfterMore(count) == count > MaxFailures

Pauses(count) == count >= MaxFailures

RecordFailed(p) ==
  LET s == seen[p].sched
      count == seen[p].failures + 1
  IN /\ at[p] = "failed"
     /\ IF s \in present
        THEN /\ failures' = [failures EXCEPT ![s] = count]
             /\ streak' = [streak EXCEPT ![s] = @ + 1]
             /\ IF Pauses(count)
                THEN /\ enabled' = [enabled EXCEPT ![s] = FALSE]
                     /\ nextRunAt' = [nextRunAt EXCEPT ![s] = None]
                ELSE UNCHANGED <<enabled, nextRunAt>>
        ELSE UNCHANGED <<failures, streak, enabled, nextRunAt>>
     /\ Leave(p)
     /\ UNCHANGED <<clock, stage, orphan, due, tickTime, claims, tried, overlapped,
                    crashes, bounds>>

\* The UPDATE after a started run is inside the try: when it throws, the
\* firing counts as failed.  In the catch block nothing catches it.
RecordFails(p) ==
  /\ faults < MaxFaults
  /\ \/ at[p] = "started" /\ at' = [at EXCEPT ![p] = "failed"]
        /\ UNCHANGED <<due, tickTime, seen, overlapped>>
     \/ at[p] \in {"skipped", "failed"} /\ Abandon(p)
        /\ overlapped' = overlapped \cup {seen[p].sched}
  /\ faults' = faults + 1
  /\ UNCHANGED <<asked, clock, row, orphan, claims, tried, streak, crashes>>

\* The process dies; of its firings, those without an answer are lost.
Crash(p) ==
  /\ at[p] # "idle" /\ faults < MaxFaults
  /\ crashes' = IF at[p] = "firing" /\ p \in Scheduler THEN crashes + 1 ELSE crashes
  /\ overlapped' = IF at[p] \in Firing THEN overlapped \cup {seen[p].sched} ELSE overlapped
  /\ Abandon(p)
  /\ faults' = faults + 1
  /\ UNCHANGED <<asked, clock, row, orphan, claims, tried, streak>>

-----------------------------------------------------------------------------
(* The rest of the world.                                                  *)

TimePasses ==
  /\ clock < MaxTime
  /\ clock' = clock + 1
  /\ UNCHANGED <<row, orphan, memory, history, bounds>>

CreatorGone(s) ==
  /\ s \in present \ orphan /\ faults < MaxFaults
  /\ orphan' = orphan \cup {s}
  /\ faults' = faults + 1
  /\ UNCHANGED <<asked, clock, row, memory, history>>

SchedulerStep(w) ==
  \/ Poll(w) \/ EndTick(w)
  \/ \E read \in due[w] : Claim(w, read) \/ ClaimedByOther(w, read)

FiringStep(p) ==
  \/ \E outcome \in {"started", "skipped", "failed"} : Answer(p, outcome)
  \/ RecordStarted(p) \/ RecordSkipped(p) \/ RecordFailed(p)

RequestStep(c) ==
  \/ Edit(c)
  \/ \E s \in Sched : Trigger(c, s) \/ \E patch \in Editing : AskToEdit(c, s, patch)

Next ==
  \/ \E w \in Scheduler : SchedulerStep(w)
  \/ \E p \in Party : FiringStep(p) \/ RecordFails(p) \/ Crash(p)
  \/ \E c \in Client : RequestStep(c)
  \/ \E s \in Sched : Remove(s) \/ CreatorGone(s) \/ \E on \in BOOLEAN : Create(s, on)
  \/ TimePasses

Spec == Init /\ [][Next]_vars

(* Worker processes poll, and what they have begun goes on.  Time, crashes *)
(* and requests are not owed.                                              *)
Fairness ==
  /\ \A w \in Scheduler : WF_vars(SchedulerStep(w))
  /\ \A p \in Party : WF_vars(FiringStep(p))

FairSpec == Spec /\ Fairness

-----------------------------------------------------------------------------
(* No slot fires twice, and slots fire in their order, whatever processes  *)
(* poll the table, crash between any two statements, and whatever people   *)
(* edit meanwhile (comment of runDue, docs/ANALYSIS_AND_SCHEDULING.md      *)
(* "Firing").                                                              *)
Increasing(q) == \A i, j \in 1..Len(q) : i < j => q[i] < q[j]
SlotFiresOnce == \A s \in Sched : Increasing(claims[s])

(* "A crash between claiming and starting loses one firing rather than     *)
(* repeating it forever": every claimed slot is tried, being tried, or was *)
(* lost to a crash, one slot to a crash.  (A schedule without a creator    *)
(* has nobody to run as and is excepted.)                                  *)
BeingFired(s) == {p \in Scheduler : at[p] = "firing" /\ seen[p].sched = s}
CrashLosesOneFiring ==
  \A s \in Sched \ orphan :
    Len(claims[s]) <= tried[s] + Cardinality(BeingFired(s)) + crashes

(* A schedule that keeps failing is paused: the column counts what         *)
(* happened, and at MaxFailures in a row the schedule is off (comment at   *)
(* MAX_CONSECUTIVE_FAILURES).  True as long as no two parties worked on    *)
(* the schedule at a time: each writes a count computed from its own read. *)
GivesUp ==
  \A s \in present \ overlapped :
    /\ failures[s] = streak[s]
    /\ enabled[s] => streak[s] < MaxFailures

(* What the platform paused stays paused until a person enables it, again  *)
(* as long as no two parties worked on the schedule at a time: a rename    *)
(* writes enabled back as it was read.                                     *)
PausedUntilEnabled ==
  [][\A s \in present \ overlapped' :
       ~enabled[s] /\ enabled'[s] =>
         \E c \in Client : at[c] = "enable" /\ seen[c].sched = s]_vars

(* Every slot that has come is claimed, or its schedule is switched off:   *)
(* neither a crash, nor a failed statement, nor a schedule whose creator   *)
(* is gone keeps the others of a tick from their turn for ever.            *)
DueIsClaimed == \A s \in Sched : Due(s, clock) ~> ~Due(s, clock)
=============================================================================
