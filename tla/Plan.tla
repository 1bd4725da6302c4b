-------------------------------- MODULE Plan --------------------------------
(***************************************************************************)
(* The planning service: one plan of one selectable source table, the      *)
(* requests that edit it, the rebuild every one of them ends with, and the *)
(* start of a run, which rebuilds twice, passes its gates and takes a      *)
(* snapshot of the plan.  A step is one statement of the database, or      *)
(* several with nothing between them that another request could notice.    *)
(* The metadata of the two systems are the versions Schema lists, as the   *)
(* metadata service answers them; nothing locks a plan but a run of it.    *)
(***************************************************************************)
EXTENDS Naturals, FiniteSets, Sequences

CONSTANTS
  Client,       \* requests under way at a time
  Column,       \* logical names of columns, of either system
  Home,         \* the source table, and the target table of its name
  Target,       \* tables of the target, one of them perhaps Home
  Suggested,    \* the one whose name is only similar
  Schema,       \* versions of [source, target] metadata
  Fits,         \* <<c, d>>: a value of column c can be written to column d
  Required,     \* target columns a record cannot do without
  MaxRequests,  \* bound: requests ever made
  MaxTroubles,  \* bound: requests that meet another one, and that break
  None

Statuses == {"AUTO_MAPPED", "MANUAL", "UNMAPPED", "INCOMPATIBLE", "IGNORED"}
Row == [status : Statuses, target : Column \cup {None}, user : BOOLEAN, lossy : BOOLEAN]
Pair == [target : Target \cup {None},
         state : {"EXACT", "AUTO_SUGGESTED", "CONFIRMED", "UNMAPPED"}]

ASSUME PlanAssumption ==
  /\ Schema \in Seq([source : SUBSET Column,
                     target : UNION {[S -> SUBSET Column] : S \in SUBSET Target}])
  /\ Len(Schema) > 0
  /\ Fits \subseteq Column \X Column /\ Required \subseteq Column
  /\ Suggested \in Target /\ Suggested # Home
  /\ MaxRequests \in Nat /\ MaxTroubles \in Nat
  /\ None \notin Column \cup Target \cup Row \cup Pair

VARIABLES
  schema,    \* the version the metadata service answers now
  entity,    \* row of migration_plan_entities, or None
  gen,       \* incarnation of that row: its id
  rows,      \* column -> its row of field_mappings, or None
  blocked,   \* the issues of the plan hold a blocker
  accepted,  \* options.lossyAcknowledgement.accepted
  run,       \* the active run of the plan, or None
  at,        \* client -> statement its request comes to next
  mem,       \* client -> what its request holds in memory
  \* History, read by no action.
  overlapped, \* clients whose request met another one
  decision,   \* column -> what a person decided with no other request about
  stale,      \* the issues need not be those of the plan
  asked, troubles

plan == <<entity, gen, rows, blocked, accepted>>
history == <<overlapped, decision, stale>>
bounds == <<asked, troubles>>
vars == <<schema, plan, run, at, mem, history, bounds>>

Catalog(v) == DOMAIN Schema[v].target
ColumnsOf(v, t) == IF t \in Catalog(v) THEN Schema[v].target[t] ELSE {}

Busy == {c \in Client : at[c] # "idle"}

-----------------------------------------------------------------------------
(* What the plan is made of: pure functions of metadata and rows.          *)

\* The proposal for a source table: its own name, or a similar one that is
\* only suggested, or nothing.
ProposedPair(v) ==
  CASE Home \in Catalog(v) -> [target |-> Home, state |-> "EXACT"]
    [] Home \notin Catalog(v) /\ Suggested \in Catalog(v) ->
         [target |-> Suggested, state |-> "AUTO_SUGGESTED"]
    [] OTHER -> [target |-> None, state |-> "UNMAPPED"]

\* A pair that is there is kept while its target table is.
PairOf(v, e) ==
  IF e # None /\ e.target \in Catalog(v) THEN e ELSE ProposedPair(v)

\* Mutant: nothing asks whether the target has the column.
ProposalByName(v, t, x) == [status |-> "AUTO_MAPPED", target |-> x]

\* Only the column of the same name is mapped without being asked.
Proposal(v, t, x) ==
  CASE x \notin ColumnsOf(v, t) -> [status |-> "UNMAPPED", target |-> None]
    [] x \in ColumnsOf(v, t) /\ <<x, x>> \in Fits ->
         [status |-> "AUTO_MAPPED", target |-> x]
    [] OTHER -> [status |-> "INCOMPATIBLE", target |-> x]

Valid(v, t, x, y) == y \in ColumnsOf(v, t) /\ <<x, y>> \in Fits

Mapped(r) == r # None /\ r.status \in {"AUTO_MAPPED", "MANUAL"}

\* The blockers of a plan: nothing selected, no target table, one that is only
\* suggested, or a required column nothing is mapped to.
Blocks(v, e, fields) ==
  \/ e = None
  \/ e.target \notin Catalog(v)
  \/ e.state = "AUTO_SUGGESTED"
  \/ \E y \in Required \cap ColumnsOf(v, e.target) : \A f \in fields : f[2] # y

FieldsOf(rs) == {<<x, rs[x].target>> : x \in {y \in Column : Mapped(rs[y])}}

\* The rows as one pass of syncMappings leaves them: "now" the rows in the
\* database, "read" as the pass read them, restricted to columns D.
Synced(v, t, now, read, D) ==
  [x \in Column |->
     CASE x \notin D -> now[x]
       [] x \in D /\ x \notin Schema[v].source ->
            IF read[x] # None THEN None ELSE now[x]
       [] x \in D \cap Schema[v].source /\ read[x] = None ->
            [status |-> Proposal(v, t, x).status, target |-> Proposal(v, t, x).target,
             user |-> FALSE, lossy |-> FALSE]
       [] x \in D \cap Schema[v].source /\ read[x] # None ->
            IF now[x] = None THEN None
            ELSE IF ~read[x].user
            THEN [now[x] EXCEPT !.status = Proposal(v, t, x).status,
                                !.target = Proposal(v, t, x).target]
            ELSE IF read[x].status = "MANUAL" /\ read[x].target # None
                    /\ ~Valid(v, t, x, read[x].target)
            THEN [now[x] EXCEPT !.status = "INCOMPATIBLE", !.user = FALSE]
            ELSE now[x]]

NoRows == [x \in Column |-> None]

\* What a run is given of a plan.
Snapshot(e, rs) ==
  IF e = None THEN None
  ELSE [pair |-> e, fields |-> FieldsOf(rs),
        lossy |-> {x \in Column : Mapped(rs[x]) /\ rs[x].lossy},
        touched |-> {x \in Column : Mapped(rs[x]) /\ rs[x].status = "AUTO_MAPPED" /\ rs[x].user}]

-----------------------------------------------------------------------------
\* What a request keeps from one statement to the next.
NoMem == [kind |-> "none", col |-> None, set |-> None, tables |-> {}, v |-> 0,
          pair |-> None, gen |-> 0, rows |-> NoRows, verdict |-> FALSE,
          accepted |-> {}, round |-> 0, v1 |-> 0]

\* A plan as its creation leaves it.
Init ==
  /\ schema = 1 /\ gen = 1 /\ accepted = {} /\ run = None
  /\ entity = ProposedPair(1)
  /\ rows = Synced(1, entity.target, NoRows, NoRows, Column)
  /\ blocked = Blocks(1, entity, FieldsOf(rows))
  /\ at = [c \in Client |-> "idle"] /\ mem = [c \in Client |-> NoMem]
  /\ overlapped = {} /\ decision = NoRows /\ stale = FALSE
  /\ asked = 0 /\ troubles = 0

\* A request begins at statement s with memory m.
Begins(c, s, m) ==
  LET others == Busy \ {c} IN
  /\ at[c] = "idle" /\ asked < MaxRequests /\ asked' = asked + 1
  /\ at' = [at EXCEPT ![c] = s] /\ mem' = [mem EXCEPT ![c] = m]
  /\ overlapped' = IF others = {} THEN overlapped ELSE overlapped \cup others \cup {c}
  /\ stale' = (stale \/ others # {})
  /\ troubles' = IF others = {} THEN troubles ELSE troubles + 1
  /\ troubles' <= MaxTroubles
  /\ UNCHANGED <<schema, plan, run, decision>>

Goes(c, s) == at' = [at EXCEPT ![c] = s] /\ overlapped' = overlapped

\* The request ends, answered or thrown out of.
Ends(c) ==
  /\ at' = [at EXCEPT ![c] = "idle"] /\ mem' = [mem EXCEPT ![c] = NoMem]
  /\ overlapped' = overlapped \ {c}

\* Mutant: nothing asks whether a run is active.
NotAsked == TRUE

\* assertEditable.
Editable == run = None

AskSelect(c, tables) ==
  /\ Editable
  /\ Begins(c, "clear", [NoMem EXCEPT !.kind = "select", !.tables = tables])

\* The table the columns of an edit are looked up in.
EditTarget == IF entity.target = None THEN Home ELSE entity.target

AskField(c, x, set) ==
  /\ entity # None /\ rows[x] # None /\ Editable /\ x \in Schema[schema].source
  /\ Begins(c, "write", [NoMem EXCEPT !.kind = "field", !.col = x, !.set = set,
                                     !.gen = gen, !.v = schema])

AskMap(c, x, y) ==
  /\ entity # None /\ Valid(schema, EditTarget, x, y)
  /\ \A f \in FieldsOf(rows) : f[2] = y => f[1] = x
  /\ AskField(c, x, [status |-> "MANUAL", target |-> y, user |-> TRUE])

AskIgnore(c, x) == AskField(c, x, [status |-> "IGNORED", target |-> None, user |-> TRUE])

AskUnmap(c, x) == AskField(c, x, [status |-> "UNMAPPED", target |-> None, user |-> TRUE])

AskReset(c, x) ==
  /\ entity # None
  /\ LET p == Proposal(schema, EditTarget, x) IN
     AskField(c, x, [status |-> p.status, target |-> p.target, user |-> FALSE])

\* The table is paired with t by a person, or with nothing.
AskTarget(c, t) ==
  /\ entity # None /\ Editable /\ t \in Catalog(schema) \cup {None}
  /\ Begins(c, "write",
       [NoMem EXCEPT !.kind = "target", !.gen = gen,
          !.pair = [target |-> t, state |-> IF t = None THEN "UNMAPPED" ELSE "CONFIRMED"]])

\* The rules of a column are replaced, whether a run of the plan is active or
\* not; "lossy" says whether one of them discards information, which changes.
AskPipeline(c, x, lossy) ==
  /\ entity # None /\ rows[x] # None /\ rows[x].lossy # lossy
  /\ Begins(c, "write", [NoMem EXCEPT !.kind = "pipeline", !.col = x, !.set = lossy, !.gen = gen])

\* The values or the one conversion of a column are configured.
AskSettings(c, x) ==
  /\ entity # None /\ rows[x] # None /\ Editable
  /\ Begins(c, "write", [NoMem EXCEPT !.kind = "settings", !.col = x, !.gen = gen])

\* What the page offers to accept.
LossyColumns == {x \in Column : Mapped(rows[x]) /\ rows[x].lossy}

AskAccept(c, S) ==
  Editable /\ Begins(c, "write", [NoMem EXCEPT !.kind = "accept", !.accepted = S])

\* Another option is changed: the options are written back as they were read.
AskOptions(c) ==
  Editable /\ Begins(c, "write", [NoMem EXCEPT !.kind = "options", !.accepted = accepted])

AskCheck(c) == Begins(c, "reload", [NoMem EXCEPT !.kind = "check"])

AskStart(c) == Begins(c, "reload", [NoMem EXCEPT !.kind = "start", !.round = 1])

-----------------------------------------------------------------------------
\* An edit is written and the request forgets it.
Revalidates(c) == Goes(c, "reload") /\ mem' = [mem EXCEPT ![c] = NoMem]

\* To ignore a column leaves its target where it is.
TargetOf(r, set) == IF set.status = "IGNORED" THEN r.target ELSE set.target

\* Mutant: the row does not say who decided it.
EditedUnsigned(r, set) == [r EXCEPT !.status = set.status, !.target = TargetOf(r, set)]

\* What becomes of the row of a column.
Edited(r, set) ==
  [r EXCEPT !.status = set.status, !.target = TargetOf(r, set), !.user = set.user]

\* A decision of a person with no other request about stands; any other change
\* of the row ends it.
Decides(c, x) ==
  decision' = [decision EXCEPT ![x] =
    IF /\ mem[c].set.user /\ c \notin overlapped /\ mem[c].v = schema
       /\ gen = mem[c].gen /\ rows[x] # None
    THEN [status |-> mem[c].set.status, target |-> TargetOf(rows[x], mem[c].set)]
    ELSE None]

WriteField(c) ==
  LET x == mem[c].col IN
  /\ at[c] = "write" /\ mem[c].kind = "field"
  /\ rows' = IF gen # mem[c].gen \/ rows[x] = None THEN rows
             ELSE [rows EXCEPT ![x] = Edited(@, mem[c].set)]
  /\ Decides(c, x)
  /\ Revalidates(c)
  /\ UNCHANGED <<schema, entity, gen, blocked, accepted, run, stale, bounds>>

WriteTarget(c) ==
  /\ at[c] = "write" /\ mem[c].kind = "target"
  /\ entity' = IF gen # mem[c].gen \/ entity = None THEN entity ELSE mem[c].pair
  /\ decision' = NoRows
  /\ Revalidates(c)
  /\ UNCHANGED <<schema, gen, rows, blocked, accepted, run, stale, bounds>>

\* Rules, values and conversions make the row one a person has touched.
WriteRules(c) ==
  LET x == mem[c].col IN
  /\ at[c] = "write" /\ mem[c].kind \in {"pipeline", "settings"}
  /\ rows' = IF gen # mem[c].gen \/ rows[x] = None THEN rows
             ELSE [rows EXCEPT ![x].user = TRUE,
                               ![x].lossy = IF mem[c].kind = "pipeline" THEN mem[c].set ELSE @]
  /\ Revalidates(c)
  /\ UNCHANGED <<schema, entity, gen, blocked, accepted, run, decision, stale, bounds>>

WriteOptions(c) ==
  /\ at[c] = "write" /\ mem[c].kind \in {"accept", "options"}
  /\ accepted' = mem[c].accepted
  /\ IF mem[c].kind = "options" THEN Revalidates(c) ELSE Ends(c)
  /\ UNCHANGED <<schema, entity, gen, rows, blocked, run, decision, stale, bounds>>

-----------------------------------------------------------------------------
(* The rebuild.                                                            *)

\* revalidate: the tables of the plan are the tables to rebuild it for.
Reload(c) ==
  /\ at[c] = "reload"
  /\ mem' = [mem EXCEPT ![c].tables = IF entity = None THEN {} ELSE {Home}]
  /\ Goes(c, "clear")
  /\ UNCHANGED <<schema, plan, run, decision, stale, bounds>>

\* The catalogues are read; deselected tables go, with their mappings, and the others
\* are paired anew.
Clear(c) ==
  LET kept == IF mem[c].tables = {} THEN None ELSE entity IN
  /\ at[c] = "clear"
  /\ entity' = kept /\ rows' = IF kept = None THEN NoRows ELSE rows
  /\ decision' = IF kept = None THEN NoRows ELSE decision
  /\ mem' = [mem EXCEPT
       ![c].v = schema, ![c].rows = NoRows,
       ![c].v1 = IF mem[c].round = 1 THEN schema ELSE @,
       ![c].gen = IF kept = None THEN 0 ELSE gen,
       ![c].pair = IF mem[c].tables = {} THEN None ELSE PairOf(schema, kept)]
  /\ Goes(c, IF mem[c].tables = {} THEN "judge" ELSE "describe")
  /\ UNCHANGED <<schema, gen, blocked, accepted, run, stale, bounds>>

\* The tables of the pair are described, as they are by now; the row is inserted or
\* updated, and its mappings are read.  A table selected twice violates the unique
\* index; one that is gone is an update of nothing, whose result the next statement
\* stumbles over.
Describe(c) ==
  /\ at[c] = "describe"
  /\ IF mem[c].gen = 0 THEN entity = None ELSE entity # None /\ gen = mem[c].gen
  /\ entity' = mem[c].pair
  /\ gen' = IF mem[c].gen = 0 THEN gen + 1 ELSE gen
  /\ mem' = [mem EXCEPT ![c].v = schema, ![c].gen = gen', ![c].rows = rows]
  /\ Goes(c, "sync")
  /\ UNCHANGED <<schema, rows, blocked, accepted, run, decision, stale, bounds>>

Stumble(c) ==
  /\ at[c] = "describe"
  /\ IF mem[c].gen = 0 THEN entity # None ELSE entity = None \/ gen # mem[c].gen
  /\ Ends(c)
  /\ UNCHANGED <<schema, plan, run, decision, stale, bounds>>

Gone(c) == entity = None \/ gen # mem[c].gen

\* Columns whose row cannot be inserted: it is there by now, or its table gone.
Conflict(c) ==
  {x \in Schema[mem[c].v].source : mem[c].rows[x] = None /\ (Gone(c) \/ rows[x] # None)}

SyncedBy(c, D) == Synced(mem[c].v, mem[c].pair.target, rows, mem[c].rows, D)

Sync(c) ==
  /\ at[c] = "sync" /\ Conflict(c) = {}
  /\ rows' = IF Gone(c) THEN rows ELSE SyncedBy(c, Column)
  /\ Goes(c, "judge")
  /\ UNCHANGED <<schema, entity, gen, blocked, accepted, run, mem, decision, stale, bounds>>

Trouble == troubles < MaxTroubles /\ troubles' = troubles + 1 /\ stale' = TRUE

\* The columns before the one in conflict are done, or those before the one at which
\* the request breaks.
SyncPart(c) ==
  /\ at[c] = "sync"
  /\ \/ Conflict(c) # {} /\ UNCHANGED <<troubles, stale>>
     \/ Trouble
  /\ \E D \in SUBSET (Column \ Conflict(c)) :
       rows' = IF Gone(c) THEN rows ELSE SyncedBy(c, D)
  /\ Ends(c)
  /\ UNCHANGED <<schema, entity, gen, blocked, accepted, run, decision, asked>>

\* Mutant: it is judged by the mappings read before they were brought up to date.
RowsReadBefore(c) == mem[c].rows

\* The mappings the plan is judged by.
RowsToJudge(c) == IF Gone(c) THEN NoRows ELSE rows

Judge(c) ==
  /\ at[c] = "judge"
  /\ mem' = [mem EXCEPT ![c].rows = NoRows, ![c].pair = None,
       ![c].verdict = Blocks(mem[c].v, mem[c].pair, FieldsOf(RowsToJudge(c)))]
  /\ Goes(c, "store")
  /\ UNCHANGED <<schema, plan, run, decision, stale, bounds>>

\* The issues are stored, and the request answers; a start goes on to its
\* gates.  What was judged is the request's own table and what it read.
Store(c) ==
  /\ at[c] = "store"
  /\ blocked' = mem[c].verdict
  /\ stale' = IF c \notin overlapped /\ mem[c].v = schema THEN FALSE ELSE stale
  /\ CASE mem[c].round = 0 -> Ends(c)
       [] mem[c].round = 1 -> Goes(c, "gate") /\ UNCHANGED mem
       [] mem[c].round = 2 -> Goes(c, "assess") /\ UNCHANGED mem
  /\ UNCHANGED <<schema, entity, gen, rows, accepted, run, decision, bounds>>

-----------------------------------------------------------------------------
(* The start of a run.                                                     *)

Passes == entity # None /\ ~blocked

\* The plan is read back: its tables, its blockers and its options.
Gate(c) ==
  /\ at[c] = "gate"
  /\ IF Passes
     THEN /\ mem' = [mem EXCEPT ![c].accepted = accepted, ![c].round = 2]
          /\ Goes(c, "reload")
     ELSE Ends(c)
  /\ UNCHANGED <<schema, plan, run, decision, stale, bounds>>

\* The second rebuild is that of the readiness assessment, whose findings
\* include the blockers it left.
Assess(c) ==
  /\ at[c] = "assess"
  /\ IF blocked THEN Ends(c) ELSE Goes(c, "lossy") /\ UNCHANGED mem
  /\ UNCHANGED <<schema, plan, run, decision, stale, bounds>>

\* Rules that discard information and nobody accepted.
Unaccepted(c) == LossyColumns \ mem[c].accepted

Lossy(c) ==
  /\ at[c] = "lossy"
  /\ IF Unaccepted(c) = {} THEN Goes(c, "insert") /\ UNCHANGED mem ELSE Ends(c)
  /\ UNCHANGED <<schema, plan, run, decision, stale, bounds>>

\* The snapshot is taken and the run inserted, unless one is active.
Insert(c) ==
  /\ at[c] = "insert"
  /\ run' = IF run # None THEN run
            ELSE [plan |-> Snapshot(entity, rows), accepted |-> mem[c].accepted,
                  v1 |-> mem[c].v1, v |-> mem[c].v, raced |-> c \in overlapped]
  /\ Ends(c)
  /\ UNCHANGED <<schema, plan, decision, stale, bounds>>

RunEnds ==
  /\ run # None /\ run' = None
  /\ UNCHANGED <<schema, plan, at, mem, history, bounds>>

-----------------------------------------------------------------------------
\* A statement or a call of a connector fails, or the server dies: the request
\* is thrown out of, and what it has done stays.
Breaks(c) ==
  /\ at[c] # "idle" /\ Trouble
  /\ Ends(c)
  /\ UNCHANGED <<schema, plan, run, decision, asked>>

\* One of the systems is changed, and the metadata service has noticed.
SchemaChanges ==
  /\ schema < Len(Schema) /\ schema' = schema + 1
  /\ decision' = NoRows /\ stale' = TRUE
  /\ UNCHANGED <<plan, run, at, mem, overlapped, bounds>>

Ask(c) ==
  \/ \E tables \in SUBSET {Home} : AskSelect(c, tables)
  \/ \E x, y \in Column : AskMap(c, x, y)
  \/ \E x \in Column : AskIgnore(c, x) \/ AskUnmap(c, x) \/ AskReset(c, x) \/ AskSettings(c, x)
  \/ \E t \in Target \cup {None} : AskTarget(c, t)
  \/ \E x \in Column, lossy \in BOOLEAN : AskPipeline(c, x, lossy)
  \/ \E S \in SUBSET LossyColumns : AskAccept(c, S)
  \/ AskOptions(c) \/ AskCheck(c) \/ AskStart(c)

GoOn(c) ==
  \/ WriteField(c) \/ WriteTarget(c) \/ WriteRules(c) \/ WriteOptions(c)
  \/ Reload(c) \/ Clear(c) \/ Describe(c) \/ Stumble(c) \/ Sync(c) \/ SyncPart(c)
  \/ Judge(c) \/ Store(c) \/ Gate(c) \/ Assess(c) \/ Lossy(c) \/ Insert(c)

Next ==
  \/ \E c \in Client : Ask(c) \/ GoOn(c) \/ Breaks(c)
  \/ RunEnds \/ SchemaChanges

Spec == Init /\ [][Next]_vars

-----------------------------------------------------------------------------
TypeOK ==
  /\ schema \in DOMAIN Schema /\ gen \in Nat /\ blocked \in BOOLEAN /\ stale \in BOOLEAN
  /\ entity \in Pair \cup {None} /\ rows \in [Column -> Row \cup {None}]
  /\ accepted \subseteq Column /\ overlapped \subseteq Client
  /\ entity = None => rows = NoRows

(* A run that starts with no other request about is what was checked: its  *)
(* snapshot has no blocker, every rule in it that discards information is  *)
(* accepted, and its columns exist on both sides, those excepted that were *)
(* mapped by themselves and then given rules, which nothing checks again.  *)
StartedAsChecked ==
  run # None /\ ~run.raced =>
    LET p == run.plan IN
    /\ ~Blocks(run.v, p.pair, p.fields)
    /\ p.lossy \subseteq run.accepted
    /\ \A f \in p.fields :
         /\ f[1] \in Schema[run.v].source
         /\ f[1] \notin p.touched => Valid(run.v, p.pair.target, f[1], f[2])

(* "This plan has an active migration run and cannot be changed": while a  *)
(* run is active the tables and mappings of its plan are those the run     *)
(* carries out, although every look at the readiness of the plan rebuilds  *)
(* it; for a run that started with no other request about, and until one   *)
(* of the systems changes.                                                 *)
LockedPlanStays ==
  run # None /\ ~run.raced /\ run.v1 = schema =>
    entity = run.plan.pair /\ FieldsOf(rows) = run.plan.fields

(* "Decisions made by a user are preserved": what a person decided about a *)
(* column with no other request about stays, through every later rebuild   *)
(* and whatever else is edited, until it is decided otherwise, the table   *)
(* is deselected or paired anew, or one of the systems changes.            *)
DecisionsStand ==
  \A x \in Column : decision[x] # None =>
    rows[x] # None /\ rows[x].user
    /\ [status |-> rows[x].status, target |-> rows[x].target] = decision[x]

(* What a plan says of itself is so: between requests it is shown blocked  *)
(* if and only if what it holds is.  Excepted are requests that met or     *)
(* broke, and a system that changed; the next one puts it right.           *)
IssuesAreCurrent ==
  Busy = {} /\ ~stale => (blocked = Blocks(schema, entity, FieldsOf(rows)))
=============================================================================
