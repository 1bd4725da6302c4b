----------------------------- MODULE PlanProofs -----------------------------
(* Proofs about Plan, for any columns, tables, versions of the metadata,   *)
(* number of requests and of requests that meet or break.                  *)
EXTENDS Plan, TLAPS

-----------------------------------------------------------------------------
(* What the pure functions of the plan compute.                            *)

LEMMA Versions ==
  ASSUME NEW v \in DOMAIN Schema
  PROVE  /\ v \in Nat /\ v > 0
         /\ Schema[v].source \subseteq Column
         /\ Catalog(v) \subseteq Target /\ None \notin Catalog(v)
         /\ \A t : ColumnsOf(v, t) \subseteq Column
<1> DEFINE Version == [source : SUBSET Column,
                       target : UNION {[S -> SUBSET Column] : S \in SUBSET Target}]
<1>1. Schema \in Seq(Version)
  BY PlanAssumption
<1> HIDE DEF Version
<1>2. Schema[v] \in Version /\ v \in Nat /\ v > 0
  BY <1>1
<1> USE DEF Version
<1>3. PICK S \in SUBSET Target : Schema[v].target \in [S -> SUBSET Column]
  BY <1>2
<1>4. Catalog(v) = S
  BY <1>3 DEF Catalog
<1>5. ASSUME NEW t PROVE ColumnsOf(v, t) \subseteq Column
  BY <1>3, <1>4 DEF ColumnsOf
<1> QED BY <1>2, <1>4, <1>5, PlanAssumption

LEMMA PairOfFacts ==
  ASSUME NEW v \in DOMAIN Schema, NEW e \in Pair \cup {None}
  PROVE  /\ PairOf(v, e) \in Pair /\ PairOf(v, e) # None
         /\ PairOf(v, PairOf(v, e)) = PairOf(v, e)
<1>1. ProposedPair(v) \in Pair
  BY Versions, PlanAssumption DEF ProposedPair, Pair
<1>2. ProposedPair(v).target \in Catalog(v) \/ ProposedPair(v).target = None
  BY DEF ProposedPair
<1> QED BY <1>1, <1>2, Versions, PlanAssumption DEF PairOf, Pair

LEMMA ProposalType ==
  ASSUME NEW v \in DOMAIN Schema, NEW t, NEW x \in Column
  PROVE  /\ Proposal(v, t, x).status \in {"AUTO_MAPPED", "UNMAPPED", "INCOMPATIBLE"}
         /\ Proposal(v, t, x).target \in Column \cup {None}
         /\ Proposal(v, t, x).status = "AUTO_MAPPED" =>
              /\ Proposal(v, t, x).target = x
              /\ Valid(v, t, x, x)
  BY DEF Proposal, Valid

LEMMA ProposedPairIs ==
  ASSUME NEW v \in DOMAIN Schema
  PROVE  ProposedPair(v) \in Pair
  BY Versions, PlanAssumption DEF ProposedPair, Pair

-----------------------------------------------------------------------------
(* What one pass of syncMappings leaves.                                   *)

\* A mapping a person made has a target.
HandMade(rs) ==
  \A x \in Column : rs[x] # None /\ rs[x].status = "MANUAL" => rs[x].target # None

LEMMA SyncedOutside ==
  ASSUME NEW v \in DOMAIN Schema, NEW t, NEW now \in [Column -> Row \cup {None}],
         NEW read \in [Column -> Row \cup {None}], NEW D, NEW x \in Column,
         x \notin D
  PROVE  Synced(v, t, now, read, D)[x] = now[x]
  BY DEF Synced

LEMMA SyncedRemoved ==
  ASSUME NEW v \in DOMAIN Schema, NEW t, NEW now \in [Column -> Row \cup {None}],
         NEW read \in [Column -> Row \cup {None}], NEW D, NEW x \in Column,
         x \in D, x \notin Schema[v].source
  PROVE  Synced(v, t, now, read, D)[x] = IF read[x] # None THEN None ELSE now[x]
  BY DEF Synced

\* The row is inserted.
LEMMA SyncedNew ==
  ASSUME NEW v \in DOMAIN Schema, NEW t, NEW now \in [Column -> Row \cup {None}],
         NEW read \in [Column -> Row \cup {None}], NEW D, NEW x \in Column,
         x \in D, x \in Schema[v].source, read[x] = None
  PROVE  /\ Synced(v, t, now, read, D)[x] \in Row
         /\ ~Synced(v, t, now, read, D)[x].user
         /\ Synced(v, t, now, read, D)[x].status = Proposal(v, t, x).status
         /\ Synced(v, t, now, read, D)[x].target = Proposal(v, t, x).target
<1> DEFINE p == Proposal(v, t, x)
           r == Synced(v, t, now, read, D)[x]
<1>1. p.status \in Statuses /\ p.target \in Column \cup {None}
  BY ProposalType DEF Statuses
<1> HIDE DEF p
<1>2. r = [status |-> p.status, target |-> p.target, user |-> FALSE, lossy |-> FALSE]
  BY DEF Synced, p
<1> HIDE DEF r
<1>3. r \in Row /\ ~r.user /\ r.status = p.status /\ r.target = p.target
  BY <1>1, <1>2 DEF Row
<1> QED BY <1>3 DEF p, r

LEMMA SyncedLost ==
  ASSUME NEW v \in DOMAIN Schema, NEW t, NEW now \in [Column -> Row \cup {None}],
         NEW read \in [Column -> Row \cup {None}], NEW D, NEW x \in Column,
         x \in D, x \in Schema[v].source, read[x] # None, now[x] = None
  PROVE  Synced(v, t, now, read, D)[x] = None
  BY DEF Synced

\* The row is the proposal again, when no person has touched it.
LEMMA SyncedOwn ==
  ASSUME NEW v \in DOMAIN Schema, NEW t, NEW now \in [Column -> Row \cup {None}],
         NEW read \in [Column -> Row \cup {None}], NEW D, NEW x \in Column,
         x \in D, x \in Schema[v].source, read[x] # None, now[x] # None, ~read[x].user
  PROVE  /\ Synced(v, t, now, read, D)[x] \in Row
         /\ Synced(v, t, now, read, D)[x].user = now[x].user
         /\ Synced(v, t, now, read, D)[x].lossy = now[x].lossy
         /\ Synced(v, t, now, read, D)[x].status = Proposal(v, t, x).status
         /\ Synced(v, t, now, read, D)[x].target = Proposal(v, t, x).target
<1> DEFINE p == Proposal(v, t, x)
           r == Synced(v, t, now, read, D)[x]
<1>1. p.status \in Statuses /\ p.target \in Column \cup {None}
  BY ProposalType DEF Statuses
<1> HIDE DEF p
<1>2. r = [now[x] EXCEPT !.status = p.status, !.target = p.target]
  BY DEF Synced, p
<1>3. now[x] \in Row
  OBVIOUS
<1> HIDE DEF r
<1>4. /\ r \in Row /\ r.user = now[x].user /\ r.lossy = now[x].lossy
      /\ r.status = p.status /\ r.target = p.target
  BY <1>1, <1>2, <1>3 DEF Row
<1> QED BY <1>4 DEF p, r

\* What a person has touched stays, unless it is a mapping no longer valid.
LEMMA SyncedTouched ==
  ASSUME NEW v \in DOMAIN Schema, NEW t, NEW now \in [Column -> Row \cup {None}],
         NEW read \in [Column -> Row \cup {None}], NEW D, NEW x \in Column,
         x \in D, x \in Schema[v].source, read[x] # None, now[x] # None, read[x].user,
         ~(read[x].status = "MANUAL" /\ read[x].target # None /\ ~Valid(v, t, x, read[x].target))
  PROVE  Synced(v, t, now, read, D)[x] = now[x]
  BY DEF Synced

LEMMA SyncedInvalid ==
  ASSUME NEW v \in DOMAIN Schema, NEW t, NEW now \in [Column -> Row \cup {None}],
         NEW read \in [Column -> Row \cup {None}], NEW D, NEW x \in Column,
         x \in D, x \in Schema[v].source, read[x] # None, now[x] # None, read[x].user,
         read[x].status = "MANUAL", read[x].target # None, ~Valid(v, t, x, read[x].target)
  PROVE  /\ Synced(v, t, now, read, D)[x] \in Row
         /\ Synced(v, t, now, read, D)[x].status = "INCOMPATIBLE"
         /\ ~Synced(v, t, now, read, D)[x].user
<1> DEFINE r == Synced(v, t, now, read, D)[x]
<1>1. r = [now[x] EXCEPT !.status = "INCOMPATIBLE", !.user = FALSE]
  BY DEF Synced
<1>2. now[x] \in Row
  OBVIOUS
<1> HIDE DEF r
<1>3. r \in Row /\ r.status = "INCOMPATIBLE" /\ ~r.user
  BY <1>1, <1>2 DEF Row, Statuses
<1> QED BY <1>3 DEF r

LEMMA SyncedRow ==
  ASSUME NEW v \in DOMAIN Schema, NEW t, NEW now \in [Column -> Row \cup {None}],
         NEW read \in [Column -> Row \cup {None}], NEW D, NEW x \in Column
  PROVE  Synced(v, t, now, read, D)[x] \in Row \cup {None}
<1>1. CASE x \notin D \/ x \notin Schema[v].source
  BY <1>1, SyncedOutside, SyncedRemoved
<1>2. CASE x \in D /\ x \in Schema[v].source /\ read[x] = None
  BY <1>2, SyncedNew
<1>3. CASE x \in D /\ x \in Schema[v].source /\ read[x] # None /\ now[x] = None
  BY <1>3, SyncedLost
<1>4. CASE x \in D /\ x \in Schema[v].source /\ read[x] # None /\ now[x] # None /\ ~read[x].user
  BY <1>4, SyncedOwn
<1>5. CASE x \in D /\ x \in Schema[v].source /\ read[x] # None /\ now[x] # None /\ read[x].user
  BY <1>5, SyncedTouched, SyncedInvalid
<1> QED BY <1>1, <1>2, <1>3, <1>4, <1>5

LEMMA SyncedType ==
  ASSUME NEW v \in DOMAIN Schema, NEW t, NEW now \in [Column -> Row \cup {None}],
         NEW read \in [Column -> Row \cup {None}], NEW D, HandMade(now)
  PROVE  /\ Synced(v, t, now, read, D) \in [Column -> Row \cup {None}]
         /\ HandMade(Synced(v, t, now, read, D))
<1> DEFINE new == Synced(v, t, now, read, D)
<1>1. new = [x \in Column |-> new[x]]
  BY DEF Synced
<1>2. ASSUME NEW x \in Column
      PROVE  /\ new[x] \in Row \cup {None}
             /\ new[x] # None /\ new[x].status = "MANUAL" => new[x].target # None
  <2>1. Proposal(v, t, x).status # "MANUAL"
    BY ProposalType
  <2>2. now[x] \in Row \cup {None} /\ None \notin Row
    BY PlanAssumption
  <2>3. new[x] = now[x] \/ new[x] = None \/ new[x].status = Proposal(v, t, x).status
        \/ (new[x] = [now[x] EXCEPT !.status = "INCOMPATIBLE", !.user = FALSE] /\ now[x] # None)
    BY DEF Synced
  <2>4. new[x] \in Row \cup {None}
    BY SyncedRow
  <2> HIDE DEF new
  <2> QED BY <2>1, <2>2, <2>3, <2>4 DEF HandMade, Row
<1> HIDE DEF new
<1>3. new \in [Column -> Row \cup {None}] /\ HandMade(new)
  BY <1>1, <1>2 DEF HandMade
<1> QED BY <1>3 DEF new

-----------------------------------------------------------------------------
(* The type invariant, with what a request holds at each of its statements. *)

Setting == [status : Statuses, target : Column \cup {None}, user : BOOLEAN]

Kinds == {"none", "select", "field", "target", "pipeline", "settings", "accept", "options",
          "check", "start"}

Places == {"idle", "write", "reload", "clear", "describe", "sync", "judge", "store", "gate",
           "assess", "lossy", "insert"}

Memory ==
  [kind : Kinds, col : Column \cup {None}, set : Setting \cup BOOLEAN \cup {None},
   tables : SUBSET {Home}, v : Nat, pair : Pair \cup {None}, gen : Nat,
   rows : [Column -> Row \cup {None}], verdict : BOOLEAN, accepted : SUBSET Column,
   round : Nat, v1 : Nat]

\* What is so of the memory m of a request at statement s, by version n.
Placed(s, m, n) ==
  /\ m.v <= n /\ m.v1 <= n /\ m.round <= 2
  /\ s = "write" => /\ m.round = 0
                    /\ m.kind \in {"field", "target", "pipeline", "settings", "accept", "options"}
  /\ s = "write" /\ m.kind = "field" =>
       /\ m.set \in Setting /\ m.col \in Column
       /\ m.set.status = "MANUAL" => m.set.target # None
  /\ s = "write" /\ m.kind \in {"pipeline", "settings"} => m.col \in Column
  /\ s = "write" /\ m.kind = "pipeline" => m.set \in BOOLEAN
  /\ s = "write" /\ m.kind = "target" => m.pair # None
  /\ s \in {"describe", "sync", "judge", "store", "gate", "assess", "lossy", "insert"} =>
       m.v \in DOMAIN Schema
  /\ s \in {"describe", "sync"} => m.pair # None
  /\ s = "gate" => m.round = 1
  /\ s \in {"assess", "lossy", "insert"} => m.round = 2

TypeInv ==
  /\ TypeOK
  /\ gen > 0 /\ HandMade(rows)
  /\ asked \in Nat /\ troubles \in Nat
  /\ decision \in [Column -> [status : Statuses, target : Column \cup {None}] \cup {None}]
  /\ at \in [Client -> Places] /\ mem \in [Client -> Memory]
  /\ \A c \in Client : Placed(at[c], mem[c], schema)

LEMMA NoMemType == NoMem \in Memory /\ NoMem.round = 0 /\ NoMem.v = 0 /\ NoMem.v1 = 0
  BY DEF NoMem, Memory, NoRows, Kinds

LEMMA NoMemPlaced ==
  ASSUME NEW n \in Nat, NEW s \in {"idle", "reload", "clear"}
  PROVE  Placed(s, NoMem, n)
<1>1. NoMem.v = 0 /\ NoMem.v1 = 0 /\ NoMem.round = 0
  BY DEF NoMem
<1> QED BY <1>1 DEF Placed

\* A client goes from one statement to another, with memory m.
LEMMA OneMoves ==
  ASSUME TypeInv, NEW c \in Client, NEW s \in Places, NEW m \in Memory,
         NEW n \in Nat, schema <= n,
         at' = [at EXCEPT ![c] = s], mem' = [mem EXCEPT ![c] = m], Placed(s, m, n)
  PROVE  /\ at' \in [Client -> Places] /\ mem' \in [Client -> Memory]
         /\ \A d \in Client : Placed(at'[d], mem'[d], n)
<1>1. at' \in [Client -> Places] /\ mem' \in [Client -> Memory]
  BY DEF TypeInv
<1>2. schema \in Nat
  BY Versions DEF TypeInv, TypeOK
<1>3. ASSUME NEW d \in Client PROVE Placed(at'[d], mem'[d], n)
  <2>1. CASE d = c
    BY <2>1 DEF TypeInv
  <2>2. CASE d # c
    <3>1. at'[d] = at[d] /\ mem'[d] = mem[d] /\ Placed(at[d], mem[d], schema)
      BY <2>2 DEF TypeInv
    <3>2. mem[d].v \in Nat /\ mem[d].v1 \in Nat
      BY DEF TypeInv, Memory
    <3> QED BY <1>2, <3>1, <3>2 DEF Placed
  <2> QED BY <2>1, <2>2
<1> QED BY <1>1, <1>3

\* What is so of a request that begins at statement s with memory m.
AskedFor(s, m) ==
  /\ s \in {"write", "clear", "reload"} /\ m \in Memory /\ Placed(s, m, schema)
  /\ m.round < 2
  /\ s = "write" /\ m.kind = "field" /\ m.set.user =>
       /\ entity # None /\ m.gen = gen /\ m.v = schema
       /\ rows[m.col] # None /\ m.col \in Schema[schema].source
       /\ m.set.status = "MANUAL" =>
            Valid(schema, PairOf(schema, entity).target, m.col, m.set.target)
  /\ run # None => s # "clear" /\ (s = "write" => m.kind = "pipeline")

LEMMA EditTargetIs ==
  ASSUME TypeInv, entity # None, NEW x, NEW y, Valid(schema, EditTarget, x, y)
  PROVE  Valid(schema, PairOf(schema, entity).target, x, y)
<1>1. EditTarget \in Catalog(schema)
  BY DEF Valid, ColumnsOf
<1>2. None \notin Catalog(schema)
  BY Versions DEF TypeInv, TypeOK
<1>3. CASE entity.target = None
  <2>1. EditTarget = Home /\ Home \in Catalog(schema)
    BY <1>1, <1>3 DEF EditTarget
  <2>2. PairOf(schema, entity).target = Home
    BY <1>2, <1>3, <2>1 DEF PairOf, ProposedPair
  <2> QED BY <2>1, <2>2
<1>4. CASE entity.target # None
  BY <1>1, <1>4 DEF EditTarget, PairOf
<1> QED BY <1>3, <1>4

LEMMA AskFieldAsks ==
  ASSUME TypeInv, NEW c \in Client, NEW x \in Column, NEW set \in Setting,
         AskField(c, x, set), set.status = "MANUAL" => set.target # None,
         set.user /\ set.status = "MANUAL" =>
           Valid(schema, PairOf(schema, entity).target, x, set.target)
  PROVE  \E s, m : Begins(c, s, m) /\ AskedFor(s, m)
<1> DEFINE m == [NoMem EXCEPT !.kind = "field", !.col = x, !.set = set,
                              !.gen = gen, !.v = schema]
<1>1. schema \in DOMAIN Schema /\ schema \in Nat /\ gen \in Nat
  BY Versions DEF TypeInv, TypeOK
<1>2. /\ m \in Memory /\ m.kind = "field" /\ m.col = x /\ m.set = set /\ m.gen = gen
      /\ m.v = schema /\ m.v1 = 0 /\ m.round = 0
  BY <1>1, NoMemType DEF Memory, Kinds
<1>3. Begins(c, "write", m)
  BY DEF AskField
<1> HIDE DEF m
<1>4. Placed("write", m, schema)
  BY <1>1, <1>2 DEF Placed
<1>5. AskedFor("write", m)
  BY <1>2, <1>4 DEF AskedFor, AskField, Editable
<1> QED BY <1>3, <1>5

LEMMA Asks ==
  ASSUME TypeInv, NEW c \in Client, Ask(c)
  PROVE  \E s, m : Begins(c, s, m) /\ AskedFor(s, m)
<1>1. schema \in DOMAIN Schema /\ schema \in Nat /\ gen \in Nat
  BY Versions DEF TypeInv, TypeOK
<1>2. ASSUME NEW tables \in SUBSET {Home}, AskSelect(c, tables)
      PROVE  \E s, m : Begins(c, s, m) /\ AskedFor(s, m)
  <2> DEFINE m == [NoMem EXCEPT !.kind = "select", !.tables = tables]
  <2>1. m \in Memory /\ m.v = 0 /\ m.v1 = 0 /\ m.round = 0
    BY NoMemType DEF Memory, Kinds
  <2>2. Begins(c, "clear", m) /\ run = None
    BY <1>2 DEF AskSelect, Editable
  <2> HIDE DEF m
  <2>3. AskedFor("clear", m)
    BY <1>1, <2>1, <2>2 DEF AskedFor, Placed
  <2> QED BY <2>2, <2>3
<1>3. ASSUME NEW x \in Column, NEW y \in Column, AskMap(c, x, y)
      PROVE  \E s, m : Begins(c, s, m) /\ AskedFor(s, m)
  <2> DEFINE set == [status |-> "MANUAL", target |-> y, user |-> TRUE]
  <2>1. set \in Setting /\ set.status = "MANUAL" /\ set.target = y /\ y # None
    BY PlanAssumption DEF Setting, Statuses
  <2>2. Valid(schema, PairOf(schema, entity).target, x, y) /\ AskField(c, x, set)
    BY <1>3, EditTargetIs DEF AskMap
  <2> HIDE DEF set
  <2> QED BY <2>1, <2>2, AskFieldAsks
<1>4. ASSUME NEW x \in Column, AskIgnore(c, x)
      PROVE  \E s, m : Begins(c, s, m) /\ AskedFor(s, m)
  <2> DEFINE set == [status |-> "IGNORED", target |-> None, user |-> TRUE]
  <2>1. set \in Setting /\ set.status # "MANUAL"
    BY DEF Setting, Statuses
  <2>2. AskField(c, x, set)
    BY <1>4 DEF AskIgnore
  <2> HIDE DEF set
  <2> QED BY <2>1, <2>2, AskFieldAsks
<1>5. ASSUME NEW x \in Column, AskUnmap(c, x)
      PROVE  \E s, m : Begins(c, s, m) /\ AskedFor(s, m)
  <2> DEFINE set == [status |-> "UNMAPPED", target |-> None, user |-> TRUE]
  <2>1. set \in Setting /\ set.status # "MANUAL"
    BY DEF Setting, Statuses
  <2>2. AskField(c, x, set)
    BY <1>5 DEF AskUnmap
  <2> HIDE DEF set
  <2> QED BY <2>1, <2>2, AskFieldAsks
<1>6. ASSUME NEW x \in Column, AskReset(c, x)
      PROVE  \E s, m : Begins(c, s, m) /\ AskedFor(s, m)
  <2> DEFINE p == Proposal(schema, EditTarget, x)
             set == [status |-> p.status, target |-> p.target, user |-> FALSE]
  <2>1. p.status \in Statuses \ {"MANUAL"} /\ p.target \in Column \cup {None}
    BY <1>1, ProposalType DEF Statuses
  <2>2. AskField(c, x, set)
    BY <1>6 DEF AskReset
  <2> HIDE DEF p
  <2>3. set \in Setting /\ set.status # "MANUAL"
    BY <2>1 DEF Setting
  <2> HIDE DEF set
  <2> QED BY <2>2, <2>3, AskFieldAsks
<1>7. ASSUME NEW x \in Column, AskSettings(c, x)
      PROVE  \E s, m : Begins(c, s, m) /\ AskedFor(s, m)
  <2> DEFINE m == [NoMem EXCEPT !.kind = "settings", !.col = x, !.gen = gen]
  <2>1. m \in Memory /\ m.v = 0 /\ m.v1 = 0 /\ m.round = 0 /\ m.kind = "settings" /\ m.col = x
    BY <1>1, NoMemType DEF Memory, Kinds
  <2>2. Begins(c, "write", m) /\ run = None
    BY <1>7 DEF AskSettings, Editable
  <2> HIDE DEF m
  <2>3. AskedFor("write", m)
    BY <1>1, <2>1, <2>2 DEF AskedFor, Placed
  <2> QED BY <2>2, <2>3
<1>8. ASSUME NEW t \in Target \cup {None}, AskTarget(c, t)
      PROVE  \E s, m : Begins(c, s, m) /\ AskedFor(s, m)
  <2> DEFINE pair == [target |-> t, state |-> IF t = None THEN "UNMAPPED" ELSE "CONFIRMED"]
             m == [NoMem EXCEPT !.kind = "target", !.gen = gen, !.pair = pair]
  <2>1. pair \in Pair /\ pair # None
    BY PlanAssumption DEF Pair
  <2>2. Begins(c, "write", m) /\ run = None
    BY <1>8 DEF AskTarget, Editable
  <2> HIDE DEF pair
  <2>3. m \in Memory /\ m.v = 0 /\ m.v1 = 0 /\ m.round = 0 /\ m.kind = "target" /\ m.pair = pair
    BY <1>1, <2>1, NoMemType DEF Memory, Kinds
  <2> HIDE DEF m
  <2>4. AskedFor("write", m)
    BY <1>1, <2>1, <2>2, <2>3 DEF AskedFor, Placed
  <2> QED BY <2>2, <2>4
<1>9. ASSUME NEW x \in Column, NEW lossy \in BOOLEAN, AskPipeline(c, x, lossy)
      PROVE  \E s, m : Begins(c, s, m) /\ AskedFor(s, m)
  <2> DEFINE m == [NoMem EXCEPT !.kind = "pipeline", !.col = x, !.set = lossy, !.gen = gen]
  <2>1. /\ m \in Memory /\ m.v = 0 /\ m.v1 = 0 /\ m.round = 0 /\ m.kind = "pipeline"
        /\ m.col = x /\ m.set = lossy
    BY <1>1, NoMemType DEF Memory, Kinds
  <2>2. Begins(c, "write", m)
    BY <1>9 DEF AskPipeline
  <2> HIDE DEF m
  <2>3. AskedFor("write", m)
    BY <1>1, <2>1 DEF AskedFor, Placed
  <2> QED BY <2>2, <2>3
<1>10. ASSUME NEW S \in SUBSET LossyColumns, AskAccept(c, S)
       PROVE  \E s, m : Begins(c, s, m) /\ AskedFor(s, m)
  <2> DEFINE m == [NoMem EXCEPT !.kind = "accept", !.accepted = S]
  <2>1. m \in Memory /\ m.v = 0 /\ m.v1 = 0 /\ m.round = 0 /\ m.kind = "accept"
    BY NoMemType DEF Memory, Kinds, LossyColumns
  <2>2. Begins(c, "write", m) /\ run = None
    BY <1>10 DEF AskAccept, Editable
  <2> HIDE DEF m
  <2>3. AskedFor("write", m)
    BY <1>1, <2>1, <2>2 DEF AskedFor, Placed
  <2> QED BY <2>2, <2>3
<1>11. ASSUME AskOptions(c)
       PROVE  \E s, m : Begins(c, s, m) /\ AskedFor(s, m)
  <2> DEFINE m == [NoMem EXCEPT !.kind = "options", !.accepted = accepted]
  <2>1. m \in Memory /\ m.v = 0 /\ m.v1 = 0 /\ m.round = 0 /\ m.kind = "options"
    BY NoMemType DEF Memory, Kinds, TypeInv, TypeOK
  <2>2. Begins(c, "write", m) /\ run = None
    BY <1>11 DEF AskOptions, Editable
  <2> HIDE DEF m
  <2>3. AskedFor("write", m)
    BY <1>1, <2>1, <2>2 DEF AskedFor, Placed
  <2> QED BY <2>2, <2>3
<1>12. ASSUME AskCheck(c)
       PROVE  \E s, m : Begins(c, s, m) /\ AskedFor(s, m)
  <2> DEFINE m == [NoMem EXCEPT !.kind = "check"]
  <2>1. m \in Memory /\ m.v = 0 /\ m.v1 = 0 /\ m.round = 0
    BY NoMemType DEF Memory, Kinds
  <2>2. Begins(c, "reload", m)
    BY <1>12 DEF AskCheck
  <2> HIDE DEF m
  <2>3. AskedFor("reload", m)
    BY <1>1, <2>1 DEF AskedFor, Placed
  <2> QED BY <2>2, <2>3
<1>13. ASSUME AskStart(c)
       PROVE  \E s, m : Begins(c, s, m) /\ AskedFor(s, m)
  <2> DEFINE m == [NoMem EXCEPT !.kind = "start", !.round = 1]
  <2>1. m \in Memory /\ m.v = 0 /\ m.v1 = 0 /\ m.round = 1
    BY NoMemType DEF Memory, Kinds
  <2>2. Begins(c, "reload", m)
    BY <1>13 DEF AskStart
  <2> HIDE DEF m
  <2>3. AskedFor("reload", m)
    BY <1>1, <2>1 DEF AskedFor, Placed
  <2> QED BY <2>2, <2>3
<1> QED BY <1>2, <1>3, <1>4, <1>5, <1>6, <1>7, <1>8, <1>9, <1>10, <1>11, <1>12, <1>13 DEF Ask

\* The request of c comes to statement s, with memory m.
Moved(c, s, m) ==
  /\ at[c] # "idle" /\ s \in Places /\ m \in Memory /\ Placed(s, m, schema)
  /\ at' = [at EXCEPT ![c] = s] /\ mem' = [mem EXCEPT ![c] = m]
  /\ overlapped' = IF s = "idle" THEN overlapped \ {c} ELSE overlapped
  /\ schema' = schema

LEMMA EndsMoves ==
  ASSUME TypeInv, NEW c \in Client, at[c] # "idle", Ends(c), schema' = schema
  PROVE  Moved(c, "idle", NoMem)
<1>1. schema \in Nat
  BY Versions DEF TypeInv, TypeOK
<1> QED BY <1>1, NoMemType, NoMemPlaced DEF Moved, Ends, Places

LEMMA RevalidatesMoves ==
  ASSUME TypeInv, NEW c \in Client, at[c] # "idle", Revalidates(c), schema' = schema
  PROVE  Moved(c, "reload", NoMem)
<1>1. schema \in Nat
  BY Versions DEF TypeInv, TypeOK
<1> QED BY <1>1, NoMemType, NoMemPlaced DEF Moved, Revalidates, Goes, Places

LEMMA GoesMoves ==
  ASSUME TypeInv, NEW c \in Client, at[c] # "idle", NEW s \in Places, s # "idle", Goes(c, s),
         NEW m \in Memory, mem' = [mem EXCEPT ![c] = m], Placed(s, m, schema), schema' = schema
  PROVE  Moved(c, s, m)
  BY DEF Moved, Goes

LEMMA StaysMoves ==
  ASSUME TypeInv, NEW c \in Client, at[c] # "idle", NEW s \in Places, s # "idle", Goes(c, s),
         UNCHANGED mem, Placed(s, mem[c], schema), schema' = schema
  PROVE  Moved(c, s, mem[c])
<1>1. mem[c] \in Memory /\ mem' = [mem EXCEPT ![c] = mem[c]]
  BY DEF TypeInv
<1> QED BY <1>1, GoesMoves

\* Every statement of a request leaves it at another one, or ends it.
LEMMA RunsOn ==
  ASSUME TypeInv, NEW c \in Client, GoOn(c) \/ Breaks(c)
  PROVE  \E s, m : Moved(c, s, m)
<1> DEFINE m == mem[c]
<1>1. /\ schema \in DOMAIN Schema /\ schema \in Nat /\ gen \in Nat /\ entity \in Pair \cup {None}
      /\ rows \in [Column -> Row \cup {None}] /\ accepted \subseteq Column
  BY Versions DEF TypeInv, TypeOK
<1>2. m \in Memory /\ Placed(at[c], m, schema) /\ at[c] \in Places /\ mem \in [Client -> Memory]
  BY DEF TypeInv
<1>3. NoRows \in [Column -> Row \cup {None}]
  BY DEF NoRows
<1>4. CASE Ends(c) /\ schema' = schema /\ at[c] # "idle"
  BY <1>4, EndsMoves
<1>5. CASE Revalidates(c) /\ schema' = schema /\ at[c] # "idle"
  BY <1>5, RevalidatesMoves
<1>6. CASE Reload(c)
  <2> DEFINE n == [m EXCEPT !.tables = IF entity = None THEN {} ELSE {Home}]
  <2>1. n \in Memory /\ n.v = m.v /\ n.v1 = m.v1 /\ n.round = m.round
    BY <1>2 DEF Memory
  <2>2. Goes(c, "clear") /\ mem' = [mem EXCEPT ![c] = n] /\ at[c] # "idle" /\ schema' = schema
    BY <1>2, <1>6 DEF Reload
  <2> HIDE DEF n
  <2>3. Placed("clear", n, schema)
    BY <1>2, <2>1 DEF Placed
  <2> QED BY <2>1, <2>2, <2>3, GoesMoves DEF Places
<1>7. CASE Clear(c)
  <2> DEFINE kept == IF m.tables = {} THEN None ELSE entity
             s == IF m.tables = {} THEN "judge" ELSE "describe"
             n == [m EXCEPT !.v = schema, !.rows = NoRows,
                            !.v1 = IF m.round = 1 THEN schema ELSE @,
                            !.gen = IF kept = None THEN 0 ELSE gen,
                            !.pair = IF m.tables = {} THEN None ELSE PairOf(schema, kept)]
  <2>1. PairOf(schema, kept) \in Pair /\ PairOf(schema, kept) # None
    BY <1>1, PairOfFacts
  <2>2. /\ n \in Memory /\ n.v = schema /\ n.v1 = (IF m.round = 1 THEN schema ELSE m.v1)
        /\ n.round = m.round /\ (s = "describe" => n.pair # None)
    BY <1>1, <1>2, <1>3, <2>1 DEF Memory
  <2>3. Goes(c, s) /\ mem' = [mem EXCEPT ![c] = n] /\ at[c] # "idle" /\ schema' = schema
    BY <1>2, <1>7 DEF Clear
  <2> HIDE DEF n
  <2>4. Placed(s, n, schema)
    BY <1>1, <1>2, <2>2 DEF Placed
  <2> QED BY <2>2, <2>3, <2>4, GoesMoves DEF Places
<1>8. CASE Describe(c)
  <2> DEFINE n == [m EXCEPT !.v = schema, !.gen = gen', !.rows = rows]
  <2>1. gen' \in Nat
    BY <1>1, <1>8 DEF Describe
  <2>2. /\ n \in Memory /\ n.v = schema /\ n.v1 = m.v1 /\ n.round = m.round /\ n.pair = m.pair
    BY <1>1, <1>2, <2>1 DEF Memory
  <2>3. /\ Goes(c, "sync") /\ mem' = [mem EXCEPT ![c] = n] /\ at[c] = "describe"
        /\ schema' = schema
    BY <1>2, <1>8 DEF Describe
  <2> HIDE DEF n
  <2>4. Placed("sync", n, schema)
    BY <1>1, <1>2, <2>2, <2>3 DEF Placed
  <2> QED BY <2>2, <2>3, <2>4, GoesMoves DEF Places
<1>9. CASE Sync(c)
  <2>1. Placed("judge", m, schema)
    BY <1>2, <1>9 DEF Placed, Sync
  <2> QED BY <1>9, <2>1, StaysMoves DEF Sync, Places
<1>10. CASE Judge(c)
  <2> DEFINE n == [m EXCEPT !.rows = NoRows, !.pair = None,
                            !.verdict = Blocks(m.v, m.pair, FieldsOf(RowsToJudge(c)))]
  <2>1. Blocks(m.v, m.pair, FieldsOf(RowsToJudge(c))) \in BOOLEAN
    BY DEF Blocks
  <2>2. n \in Memory /\ n.v = m.v /\ n.v1 = m.v1 /\ n.round = m.round
    BY <1>2, <1>3, <2>1 DEF Memory
  <2>3. Goes(c, "store") /\ mem' = [mem EXCEPT ![c] = n] /\ at[c] = "judge" /\ schema' = schema
    BY <1>2, <1>10 DEF Judge
  <2> HIDE DEF n
  <2>4. Placed("store", n, schema)
    BY <1>1, <1>2, <2>2, <2>3 DEF Placed
  <2> QED BY <2>2, <2>3, <2>4, GoesMoves DEF Places
<1>11. CASE Store(c) /\ ~Ends(c)
  <2>1. PICK s \in {"gate", "assess"} : /\ Goes(c, s) /\ UNCHANGED mem /\ at[c] = "store"
                                        /\ (m.round = IF s = "gate" THEN 1 ELSE 2)
                                        /\ schema' = schema
    <3>1. m.round \in {0, 1, 2}
      BY <1>2 DEF Placed, Memory
    <3> QED BY <1>11, <3>1 DEF Store
  <2>2. Placed(s, m, schema)
    BY <1>2, <2>1 DEF Placed
  <2> QED BY <2>1, <2>2, StaysMoves DEF Places
<1>12. CASE Gate(c) /\ ~Ends(c)
  <2> DEFINE n == [m EXCEPT !.accepted = accepted, !.round = 2]
  <2>1. n \in Memory /\ n.v = m.v /\ n.v1 = m.v1 /\ n.round = 2
    BY <1>1, <1>2 DEF Memory
  <2>2. Goes(c, "reload") /\ mem' = [mem EXCEPT ![c] = n] /\ at[c] # "idle" /\ schema' = schema
    BY <1>2, <1>12 DEF Gate
  <2> HIDE DEF n
  <2>3. Placed("reload", n, schema)
    BY <1>2, <2>1 DEF Placed
  <2> QED BY <2>1, <2>2, <2>3, GoesMoves DEF Places
<1>13. CASE (Assess(c) \/ Lossy(c)) /\ ~Ends(c)
  <2>1. PICK s \in {"lossy", "insert"} : /\ Goes(c, s) /\ UNCHANGED mem /\ at[c] \in {"assess", "lossy"}
                                         /\ schema' = schema
    BY <1>13 DEF Assess, Lossy
  <2>2. Placed(s, m, schema)
    BY <1>2, <2>1 DEF Placed
  <2> QED BY <2>1, <2>2, StaysMoves DEF Places
<1>14. schema' = schema /\ at[c] # "idle"
  BY DEF GoOn, Breaks, Trouble, WriteField, WriteTarget, WriteRules, WriteOptions, Reload, Clear, Describe,
         Stumble, Sync, SyncPart, Judge, Store, Gate, Assess, Lossy, Insert
<1>15. \/ Ends(c) \/ Revalidates(c) \/ Reload(c) \/ Clear(c) \/ Describe(c) \/ Sync(c) \/ Judge(c)
       \/ Store(c) \/ Gate(c) \/ Assess(c) \/ Lossy(c)
  BY DEF GoOn, Breaks, Trouble, WriteField, WriteTarget, WriteRules, WriteOptions, Stumble, SyncPart, Insert
<1> QED BY <1>4, <1>5, <1>6, <1>7, <1>8, <1>9, <1>10, <1>11, <1>12, <1>13, <1>14, <1>15

\* The plan itself stays well formed.
DataInv ==
  /\ gen \in Nat /\ gen > 0 /\ blocked \in BOOLEAN /\ stale \in BOOLEAN
  /\ entity \in Pair \cup {None} /\ rows \in [Column -> Row \cup {None}]
  /\ accepted \subseteq Column /\ (entity = None => rows = NoRows) /\ HandMade(rows)
  /\ asked \in Nat /\ troubles \in Nat
  /\ decision \in [Column -> [status : Statuses, target : Column \cup {None}] \cup {None}]

LEMMA EditedType ==
  ASSUME NEW r \in Row, NEW set \in Setting,
         set.status = "MANUAL" => set.target # None
  PROVE  /\ Edited(r, set) \in Row /\ Edited(r, set).user = set.user
         /\ Edited(r, set).status = set.status
         /\ Edited(r, set).target = TargetOf(r, set)
         /\ TargetOf(r, set) \in Column \cup {None}
         /\ set.status = "MANUAL" => TargetOf(r, set) = set.target
<1>1. TargetOf(r, set) \in Column \cup {None}
  BY DEF TargetOf, Row, Setting
<1>2. set.status = "MANUAL" => TargetOf(r, set) = set.target
  BY DEF TargetOf
<1> HIDE DEF TargetOf
<1> QED BY <1>1, <1>2 DEF Edited, Row, Setting

LEMMA DataStep ==
  ASSUME TypeInv, NEW c \in Client, GoOn(c) \/ Breaks(c)
  PROVE  DataInv'
<1> DEFINE m == mem[c]
<1>1. DataInv
  BY DEF DataInv, TypeInv, TypeOK
<1>2. m \in Memory /\ Placed(at[c], m, schema)
  BY DEF TypeInv
<1>3. NoRows \in [Column -> Row \cup {None}] /\ HandMade(NoRows)
  BY DEF NoRows, HandMade
<1>4. NoRows \in [Column -> [status : Statuses, target : Column \cup {None}] \cup {None}]
  BY DEF NoRows
<1>5. None \notin Row
  BY PlanAssumption
<1>6. CASE WriteField(c)
  <2> DEFINE x == m.col
             set == m.set
  <2>1. x \in Column /\ set \in Setting /\ (set.status = "MANUAL" => set.target # None)
    BY <1>2, <1>6 DEF Placed, WriteField
  <2>2. rows' = rows \/ (rows[x] # None /\ rows' = [rows EXCEPT ![x] = Edited(rows[x], set)])
    BY <1>6 DEF WriteField
  <2>3. rows' \in [Column -> Row \cup {None}] /\ HandMade(rows')
    <3>1. CASE rows' = rows
      BY <1>1, <3>1 DEF DataInv
    <3>2. CASE rows[x] # None /\ rows' = [rows EXCEPT ![x] = Edited(rows[x], set)]
      <4>1. rows[x] \in Row
        BY <1>1, <2>1, <3>2 DEF DataInv
      <4>2. /\ Edited(rows[x], set) \in Row
            /\ Edited(rows[x], set).status = "MANUAL" => Edited(rows[x], set).target # None
        BY <2>1, <4>1, EditedType
      <4> QED BY <1>1, <2>1, <3>2, <4>2 DEF DataInv, HandMade
    <3> QED BY <2>2, <3>1, <3>2
  <2>4. entity' = None => rows' = NoRows
    BY <1>1, <1>6, <2>1, <2>2 DEF DataInv, WriteField, NoRows
  <2>5. decision' \in [Column -> [status : Statuses, target : Column \cup {None}] \cup {None}]
    <3> DEFINE d == [status |-> set.status, target |-> TargetOf(rows[x], set)]
    <3>1. \/ decision' = [decision EXCEPT ![x] = None]
          \/ rows[x] # None /\ decision' = [decision EXCEPT ![x] = d]
      BY <1>6 DEF WriteField, Decides
    <3>2. CASE rows[x] # None /\ decision' = [decision EXCEPT ![x] = d]
      <4>1. rows[x] \in Row
        BY <1>1, <2>1, <3>2 DEF DataInv
      <4>2. d.status \in Statuses /\ d.target \in Column \cup {None}
        BY <2>1, <4>1, EditedType DEF Setting
      <4>3. d \in [status : Statuses, target : Column \cup {None}]
        BY <4>2
      <4> HIDE DEF d
      <4> QED BY <1>1, <3>2, <4>3 DEF DataInv
    <3> QED BY <1>1, <3>1, <3>2 DEF DataInv
  <2> QED BY <1>1, <1>6, <2>3, <2>4, <2>5 DEF DataInv, WriteField, bounds
<1>7. CASE WriteTarget(c)
  <2>1. entity' \in Pair \cup {None} /\ (entity' = None => rows' = NoRows)
    BY <1>1, <1>2, <1>7 DEF DataInv, WriteTarget, Placed, Memory
  <2> QED BY <1>1, <1>4, <1>7, <2>1 DEF DataInv, WriteTarget, bounds
<1>8. CASE WriteRules(c)
  <2> DEFINE x == m.col
             l == IF m.kind = "pipeline" THEN m.set ELSE rows[x].lossy
             r == [rows[x] EXCEPT !.user = TRUE, !.lossy = l]
  <2>1. x \in Column /\ (m.kind = "pipeline" => m.set \in BOOLEAN)
    BY <1>2, <1>8 DEF Placed, WriteRules
  <2>2. rows' = rows \/ (rows[x] # None /\ rows' = [rows EXCEPT ![x] = r])
    BY <1>1, <1>8, <2>1 DEF WriteRules, DataInv
  <2>3. rows' \in [Column -> Row \cup {None}] /\ HandMade(rows')
    <3>1. CASE rows' = rows
      BY <1>1, <3>1 DEF DataInv
    <3>2. CASE rows[x] # None /\ rows' = [rows EXCEPT ![x] = r]
      <4>1. rows[x] \in Row
        BY <1>1, <2>1, <3>2 DEF DataInv
      <4>2. l \in BOOLEAN
        BY <2>1, <4>1 DEF Row
      <4> HIDE DEF l
      <4>3. r \in Row /\ r.status = rows[x].status /\ r.target = rows[x].target
        BY <4>1, <4>2 DEF Row
      <4> HIDE DEF r
      <4> QED BY <1>1, <2>1, <3>2, <4>3 DEF DataInv, HandMade
    <3> QED BY <2>2, <3>1, <3>2
  <2>4. entity' = None => rows' = NoRows
    BY <1>1, <1>8, <2>1, <2>2 DEF DataInv, WriteRules, NoRows
  <2> QED BY <1>1, <1>8, <2>3, <2>4 DEF DataInv, WriteRules, bounds
<1>9. CASE WriteOptions(c)
  BY <1>1, <1>2, <1>9 DEF DataInv, WriteOptions, Memory, bounds
<1>10. CASE Clear(c)
  BY <1>1, <1>3, <1>4, <1>10 DEF DataInv, Clear, bounds
<1>11. CASE Describe(c)
  <2>1. entity' \in Pair /\ entity' # None
    BY <1>2, <1>11 DEF Placed, Describe, Memory
  <2> QED BY <1>1, <1>11, <2>1 DEF DataInv, Describe, bounds
<1>12. CASE Sync(c) \/ SyncPart(c)
  <2>1. PICK D : rows' = IF Gone(c) THEN rows ELSE SyncedBy(c, D)
    BY <1>12 DEF Sync, SyncPart
  <2>2. m.v \in DOMAIN Schema
    BY <1>2, <1>12 DEF Placed, Sync, SyncPart
  <2>3. m.rows \in [Column -> Row \cup {None}]
    BY <1>2 DEF Memory
  <2>4. rows' \in [Column -> Row \cup {None}] /\ HandMade(rows')
    BY <1>1, <2>1, <2>2, <2>3, SyncedType DEF DataInv, SyncedBy
  <2>5. entity' = None => rows' = NoRows
    BY <1>1, <1>12, <2>1 DEF DataInv, Sync, SyncPart, Gone
  <2>6. /\ troubles' \in Nat /\ stale' \in BOOLEAN
        /\ UNCHANGED <<entity, gen, blocked, accepted, asked, decision>>
    <3>1. CASE Sync(c)
      BY <1>1, <3>1 DEF DataInv, Sync, bounds
    <3>2. CASE SyncPart(c)
      <4>1. UNCHANGED <<entity, gen, blocked, accepted, asked, decision>>
        BY <3>2 DEF SyncPart
      <4>2. (troubles' = troubles /\ stale' = stale) \/ (troubles' = troubles + 1 /\ stale' = TRUE)
        BY <3>2 DEF SyncPart, Trouble
      <4>3. troubles \in Nat /\ stale \in BOOLEAN
        BY <1>1 DEF DataInv
      <4>4. troubles + 1 \in Nat
        BY <4>3
      <4>5. stale' \in BOOLEAN
        BY <4>2, <4>3
      <4>6. troubles' \in Nat
        BY <4>2, <4>3, <4>4
      <4> QED BY <4>1, <4>5, <4>6
    <3> QED BY <1>12, <3>1, <3>2
  <2> QED BY <1>1, <2>4, <2>5, <2>6 DEF DataInv
<1>13. CASE Store(c)
  BY <1>1, <1>2, <1>13 DEF DataInv, Store, Memory, bounds
<1>14. CASE Breaks(c)
  BY <1>1, <1>14 DEF DataInv, Breaks, Trouble, plan
<1>15. CASE \/ Reload(c) \/ Stumble(c) \/ Judge(c) \/ Gate(c) \/ Assess(c) \/ Lossy(c) \/ Insert(c)
  BY <1>1, <1>15 DEF DataInv, Reload, Stumble, Judge, Gate, Assess, Lossy, Insert, plan, bounds
<1> QED BY <1>6, <1>7, <1>8, <1>9, <1>10, <1>11, <1>12, <1>13, <1>14, <1>15 DEF GoOn

LEMMA Began ==
  ASSUME TypeInv, NEW c \in Client, NEW s, NEW m, Begins(c, s, m), AskedFor(s, m)
  PROVE  /\ s \in Places /\ m \in Memory /\ Placed(s, m, schema)
         /\ at[c] = "idle" /\ s # "idle"
         /\ at' = [at EXCEPT ![c] = s] /\ mem' = [mem EXCEPT ![c] = m]
         /\ UNCHANGED <<schema, entity, gen, rows, blocked, accepted, run, decision>>
  BY DEF Begins, AskedFor, Places, plan

LEMMA TypeInit ==
  ASSUME Init
  PROVE  TypeInv /\ entity # None
<1>1. /\ schema = 1 /\ gen = 1 /\ accepted = {} /\ overlapped = {} /\ stale = FALSE
      /\ asked = 0 /\ troubles = 0
  BY DEF Init
<1>2. schema \in DOMAIN Schema
  BY <1>1, PlanAssumption
<1>3. entity \in Pair /\ entity # None
  BY <1>1, <1>2, ProposedPairIs, PlanAssumption DEF Init
<1>4. NoRows \in [Column -> Row \cup {None}] /\ HandMade(NoRows)
  BY DEF NoRows, HandMade
<1>5. rows \in [Column -> Row \cup {None}] /\ HandMade(rows)
  BY <1>1, <1>2, <1>4, SyncedType DEF Init
<1>6. blocked \in BOOLEAN
  BY DEF Init, Blocks
<1>7. at \in [Client -> Places] /\ mem \in [Client -> Memory]
      /\ \A c \in Client : Placed(at[c], mem[c], schema)
  BY <1>1, NoMemType, NoMemPlaced DEF Init, Places
<1>8. decision \in [Column -> [status : Statuses, target : Column \cup {None}] \cup {None}]
  BY DEF Init, NoRows
<1>9. TypeOK
  BY <1>1, <1>2, <1>3, <1>5, <1>6 DEF TypeOK
<1> QED BY <1>1, <1>3, <1>5, <1>7, <1>8, <1>9 DEF TypeInv

LEMMA TypeStep ==
  ASSUME TypeInv, [Next]_vars, overlapped' \subseteq Client
  PROVE  TypeInv'
<1>1. DataInv /\ schema \in DOMAIN Schema /\ schema \in Nat
  BY Versions DEF DataInv, TypeInv, TypeOK
<1>2. ASSUME NEW c \in Client, Ask(c) PROVE TypeInv'
  <2>1. PICK s, m : Begins(c, s, m) /\ AskedFor(s, m)
    BY <1>2, Asks
  <2>2. /\ s \in Places /\ m \in Memory /\ Placed(s, m, schema)
        /\ at' = [at EXCEPT ![c] = s] /\ mem' = [mem EXCEPT ![c] = m]
        /\ UNCHANGED <<schema, entity, gen, rows, blocked, accepted, run, decision>>
    BY <2>1, Began
  <2>0. schema <= schema
    BY <1>1
  <2>3. /\ at' \in [Client -> Places] /\ mem' \in [Client -> Memory]
        /\ \A d \in Client : Placed(at'[d], mem'[d], schema)
    BY <1>1, <2>0, <2>2, OneMoves
  <2>4. asked' \in Nat /\ troubles' \in Nat /\ stale' \in BOOLEAN
    BY <1>1, <2>1 DEF Begins, DataInv
  <2> QED BY <1>1, <2>2, <2>3, <2>4 DEF TypeInv, TypeOK, DataInv
<1>3. ASSUME NEW c \in Client, GoOn(c) \/ Breaks(c) PROVE TypeInv'
  <2>1. PICK s, m : Moved(c, s, m)
    BY <1>3, RunsOn
  <2>0. schema <= schema /\ schema' = schema
    BY <1>1, <2>1 DEF Moved
  <2>2. /\ at' \in [Client -> Places] /\ mem' \in [Client -> Memory]
        /\ \A d \in Client : Placed(at'[d], mem'[d], schema)
    BY <1>1, <2>0, <2>1, OneMoves DEF Moved
  <2>3. DataInv'
    BY <1>3, DataStep
  <2> QED BY <1>1, <2>0, <2>2, <2>3 DEF TypeInv, TypeOK, DataInv
<1>4. CASE RunEnds
  BY <1>4 DEF RunEnds, TypeInv, TypeOK, HandMade, plan, history, bounds
<1>5. CASE SchemaChanges
  <2>1. schema' \in DOMAIN Schema /\ schema' = schema + 1
    BY <1>1, <1>5, PlanAssumption DEF SchemaChanges
  <2>2. ASSUME NEW d \in Client PROVE Placed(at[d], mem[d], schema')
    <3>1. Placed(at[d], mem[d], schema) /\ mem[d].v \in Nat /\ mem[d].v1 \in Nat
      BY DEF TypeInv, Memory
    <3> QED BY <1>1, <2>1, <3>1 DEF Placed
  <2> QED BY <1>5, <2>1, <2>2 DEF SchemaChanges, TypeInv, TypeOK, NoRows, HandMade, plan, bounds
<1>6. CASE UNCHANGED vars
  BY <1>6 DEF vars, TypeInv, TypeOK, HandMade, plan, history, bounds
<1> QED BY <1>2, <1>3, <1>4, <1>5, <1>6 DEF Next

-----------------------------------------------------------------------------
(* A request that met no other one is alone.                               *)

AloneInv ==
  /\ overlapped \subseteq Busy
  /\ \A c \in Busy \ overlapped : Busy = {c}
  /\ overlapped # {} => stale

LEMMA AloneAsk ==
  ASSUME TypeInv, AloneInv, NEW c \in Client, NEW s, NEW m, Begins(c, s, m), AskedFor(s, m)
  PROVE  /\ AloneInv' /\ Busy' = Busy \cup {c}
         /\ c \notin overlapped' => Busy = {} /\ overlapped = {} /\ overlapped' = {} /\ stale' = stale
         /\ \A d \in Busy' \ overlapped' : d = c
<1>1. /\ at[c] = "idle" /\ s # "idle" /\ at' = [at EXCEPT ![c] = s]
      /\ at \in [Client -> Places]
  BY Began DEF TypeInv
<1>2. c \notin Busy /\ Busy' = Busy \cup {c}
  BY <1>1 DEF Busy
<1>3. /\ overlapped' = IF Busy = {} THEN overlapped ELSE overlapped \cup Busy \cup {c}
      /\ stale' = (stale \/ Busy # {})
  BY <1>2 DEF Begins
<1>4. CASE Busy = {}
  <2>1. overlapped = {} /\ overlapped' = {} /\ Busy' = {c}
    BY <1>2, <1>3, <1>4 DEF AloneInv
  <2> QED BY <1>3, <1>4, <2>1, <1>2 DEF AloneInv, TypeInv, TypeOK
<1>5. CASE Busy # {}
  <2>1. overlapped' = Busy' /\ stale' = TRUE
    BY <1>2, <1>3, <1>5 DEF AloneInv
  <2> QED BY <2>1, <1>2 DEF AloneInv
<1> QED BY <1>4, <1>5

LEMMA AloneGo ==
  ASSUME TypeInv, AloneInv, NEW c \in Client, NEW s, NEW m, Moved(c, s, m),
         stale' = stale \/ stale' = TRUE \/ c \notin overlapped
  PROVE  /\ AloneInv' /\ c \in Busy
         /\ c \notin overlapped => Busy = {c}
         /\ \A d \in Busy' \ overlapped' : d = c /\ s # "idle" /\ c \notin overlapped
<1>1. /\ at[c] # "idle" /\ at' = [at EXCEPT ![c] = s] /\ at \in [Client -> Places]
      /\ overlapped' = IF s = "idle" THEN overlapped \ {c} ELSE overlapped
  BY DEF Moved, TypeInv
<1>2. c \in Busy /\ Busy' = IF s = "idle" THEN Busy \ {c} ELSE Busy
  BY <1>1 DEF Busy
<1>3. c \notin overlapped => Busy = {c} /\ overlapped = {}
  BY <1>2 DEF AloneInv
<1>4. \A d \in Busy \ overlapped : d = c
  BY <1>2 DEF AloneInv
<1>5. overlapped' # {} => stale'
  <2>1. CASE c \notin overlapped
    BY <2>1, <1>1, <1>3
  <2>2. CASE c \in overlapped
    BY <2>2, <1>1 DEF AloneInv
  <2> QED BY <2>1, <2>2
<1>6. CASE s = "idle"
  BY <1>1, <1>2, <1>3, <1>4, <1>5, <1>6 DEF AloneInv
<1>7. CASE s # "idle"
  BY <1>1, <1>2, <1>3, <1>4, <1>5, <1>7 DEF AloneInv
<1> QED BY <1>6, <1>7

\* Only the store of a request nothing met makes the issues current.
LEMMA StaleStays ==
  ASSUME NEW c \in Client, GoOn(c) \/ Breaks(c)
  PROVE  /\ stale' = stale \/ stale' = TRUE \/ c \notin overlapped
         /\ stale' = stale \/ stale' = TRUE \/ (Store(c) /\ c \notin overlapped)
<1>1. CASE Store(c)
  BY <1>1 DEF Store
<1>2. CASE Breaks(c)
  BY <1>2 DEF Breaks, Trouble
<1>3. CASE GoOn(c) /\ ~Store(c)
  BY <1>3 DEF GoOn, WriteField, WriteTarget, WriteRules, WriteOptions, Reload, Clear, Describe,
         Stumble, Sync, SyncPart, Trouble, Judge, Gate, Assess, Lossy, Insert
<1> QED BY <1>1, <1>2, <1>3

LEMMA AloneInit == ASSUME Init PROVE AloneInv
  BY DEF Init, AloneInv, Busy

LEMMA AloneStep ==
  ASSUME TypeInv, AloneInv, [Next]_vars
  PROVE  AloneInv'
<1>1. ASSUME NEW c \in Client, Ask(c) PROVE AloneInv'
  BY <1>1, Asks, AloneAsk
<1>2. ASSUME NEW c \in Client, GoOn(c) \/ Breaks(c) PROVE AloneInv'
  BY <1>2, RunsOn, AloneGo, StaleStays
<1>3. CASE RunEnds
  BY <1>3 DEF RunEnds, AloneInv, Busy, history
<1>4. CASE SchemaChanges
  BY <1>4 DEF SchemaChanges, AloneInv, Busy
<1>5. CASE UNCHANGED vars
  BY <1>5 DEF vars, AloneInv, Busy, history
<1> QED BY <1>1, <1>2, <1>3, <1>4, <1>5 DEF Next

LEMMA TypesHold == Spec => [](TypeInv /\ AloneInv)
<1>1. Init => TypeInv /\ AloneInv
  BY TypeInit, AloneInit
<1>2. TypeInv /\ AloneInv /\ [Next]_vars => (TypeInv /\ AloneInv)'
  <2> SUFFICES ASSUME TypeInv, AloneInv, [Next]_vars PROVE TypeInv' /\ AloneInv'
    OBVIOUS
  <2>1. AloneInv'
    BY AloneStep
  <2>2. overlapped' \subseteq Client
    BY <2>1 DEF AloneInv, Busy
  <2> QED BY <2>1, <2>2, TypeStep
<1> QED BY <1>1, <1>2, PTL DEF Spec

(* The tables, mappings, issues and options of a plan are well formed in   *)
(* every state its requests can leave it in, and a plan without its table  *)
(* has no mapping left.                                                    *)
THEOREM TypeCorrect == Spec => []TypeOK
<1>1. TypeInv => TypeOK
  BY DEF TypeInv
<1> QED BY <1>1, TypesHold, PTL

-----------------------------------------------------------------------------
(* What one rebuild brings about, and a second one leaves alone.           *)

\* The rows are those of the columns of version v, and every mapping is valid
\* but those found by themselves that a person has given rules since.
Brought(v, e, rs) ==
  \A x \in Column :
    /\ rs[x] # None <=> x \in Schema[v].source
    /\ Mapped(rs[x]) /\ ~(rs[x].status = "AUTO_MAPPED" /\ rs[x].user) =>
         Valid(v, e.target, x, rs[x].target)

Proposed(v, t, x, r) ==
  r.status = Proposal(v, t, x).status /\ r.target = Proposal(v, t, x).target

\* ... and every row no person has touched is the proposal for its column.
Settled(v, e, rs) ==
  /\ Brought(v, e, rs)
  /\ \A x \in Column : rs[x] # None /\ ~rs[x].user => Proposed(v, e.target, x, rs[x])

LEMMA SyncedBrought ==
  ASSUME NEW v \in DOMAIN Schema, NEW e, NEW rs \in [Column -> Row \cup {None}], HandMade(rs)
  PROVE  Brought(v, e, Synced(v, e.target, rs, rs, Column))
<1> DEFINE new == Synced(v, e.target, rs, rs, Column)
<1> SUFFICES ASSUME NEW x \in Column
             PROVE  /\ new[x] # None <=> x \in Schema[v].source
                    /\ Mapped(new[x]) /\ ~(new[x].status = "AUTO_MAPPED" /\ new[x].user) =>
                         Valid(v, e.target, x, new[x].target)
  BY DEF Brought
<1>1. rs[x] \in Row \cup {None} /\ None \notin Row
  BY PlanAssumption
<1>2. CASE x \notin Schema[v].source
  <2>1. new[x] = None
    BY <1>2, SyncedRemoved
  <2> QED BY <1>2, <2>1 DEF Mapped
<1>3. CASE x \in Schema[v].source /\ (rs[x] = None \/ ~rs[x].user)
  <2>1. /\ new[x] # None /\ new[x].status = Proposal(v, e.target, x).status
        /\ new[x].target = Proposal(v, e.target, x).target
    BY <1>1, <1>3, SyncedNew, SyncedOwn
  <2> HIDE DEF new
  <2> QED BY <1>3, <2>1, ProposalType DEF Mapped
<1>4. CASE x \in Schema[v].source /\ rs[x] # None /\ rs[x].user
  <2>1. CASE rs[x].status = "MANUAL" /\ rs[x].target # None /\ ~Valid(v, e.target, x, rs[x].target)
    <3>1. new[x] \in Row /\ new[x].status = "INCOMPATIBLE"
      BY <1>4, <2>1, SyncedInvalid
    <3> HIDE DEF new
    <3> QED BY <1>1, <1>4, <3>1 DEF Mapped
  <2>2. CASE ~(rs[x].status = "MANUAL" /\ rs[x].target # None /\ ~Valid(v, e.target, x, rs[x].target))
    <3>1. new[x] = rs[x]
      BY <1>4, <2>2, SyncedTouched
    <3> HIDE DEF new
    <3> QED BY <1>4, <2>2, <3>1 DEF Mapped, HandMade
  <2> QED BY <2>1, <2>2
<1> QED BY <1>1, <1>2, <1>3, <1>4

LEMMA SyncedSettled ==
  ASSUME NEW v \in DOMAIN Schema, NEW e, NEW rs \in [Column -> Row \cup {None}], HandMade(rs),
         Brought(v, e, rs)
  PROVE  Settled(v, e, Synced(v, e.target, rs, rs, Column))
<1> DEFINE new == Synced(v, e.target, rs, rs, Column)
<1>1. Brought(v, e, new)
  BY SyncedBrought
<1>2. ASSUME NEW x \in Column, new[x] # None, ~new[x].user
      PROVE  Proposed(v, e.target, x, new[x])
  <2>1. rs[x] \in Row \cup {None} /\ None \notin Row
    BY PlanAssumption
  <2>2. x \in Schema[v].source
    BY <1>1, <1>2 DEF Brought
  <2>3. CASE rs[x] = None \/ ~rs[x].user
    BY <2>1, <2>2, <2>3, SyncedNew, SyncedOwn DEF Proposed
  <2>4. CASE rs[x] # None /\ rs[x].user
    <3>1. rs[x].status = "MANUAL" => Valid(v, e.target, x, rs[x].target)
      BY <2>4 DEF Brought, Mapped
    <3>2. new[x] = rs[x]
      BY <2>2, <2>4, <3>1, SyncedTouched
    <3> QED BY <1>2, <2>4, <3>2
  <2> QED BY <2>3, <2>4
<1> QED BY <1>1, <1>2 DEF Settled

\* A pass that reads what it finds settled, or what differs from it only in
\* what a person has touched since, changes nothing.
Agree(v, e, now, read) ==
  \A x \in Column :
    /\ read[x] = None <=> now[x] = None
    /\ read[x] # None =>
         /\ read[x].status = now[x].status /\ read[x].target = now[x].target
         /\ read[x].user => now[x].user
         /\ ~read[x].user => Proposed(v, e.target, x, read[x])

LEMMA SyncedKeepsSettled ==
  ASSUME NEW v \in DOMAIN Schema, NEW e, NEW now \in [Column -> Row \cup {None}],
         NEW read \in [Column -> Row \cup {None}], NEW D,
         Brought(v, e, now), Agree(v, e, now, read)
  PROVE  Synced(v, e.target, now, read, D) = now
<1> DEFINE new == Synced(v, e.target, now, read, D)
<1>1. ASSUME NEW x \in Column PROVE new[x] = now[x]
  <2>1. now[x] \in Row \cup {None} /\ read[x] \in Row \cup {None} /\ None \notin Row
    BY PlanAssumption
  <2>2. new[x] \in Row \cup {None}
    BY SyncedRow
  <2>3. now[x] # None <=> x \in Schema[v].source
    BY DEF Brought
  <2>4. read[x] = None <=> now[x] = None
    BY DEF Agree
  <2>5. CASE x \notin D \/ x \notin Schema[v].source
    BY <2>3, <2>4, <2>5, SyncedOutside, SyncedRemoved
  <2>6. CASE x \in D /\ x \in Schema[v].source /\ ~read[x].user
    <3>1. /\ new[x] # None /\ new[x].user = now[x].user /\ new[x].lossy = now[x].lossy
          /\ new[x].status = Proposal(v, e.target, x).status
          /\ new[x].target = Proposal(v, e.target, x).target
      BY <2>1, <2>3, <2>4, <2>6, SyncedOwn
    <3>2. /\ now[x].status = Proposal(v, e.target, x).status
          /\ now[x].target = Proposal(v, e.target, x).target
      BY <2>3, <2>4, <2>6 DEF Agree, Proposed
    <3>3. new[x] \in Row /\ now[x] \in Row
      BY <2>1, <2>2, <2>3, <2>6, <3>1
    <3> HIDE DEF new
    <3> QED BY <3>1, <3>2, <3>3 DEF Row
  <2>7. CASE x \in D /\ x \in Schema[v].source /\ read[x].user
    <3>1. read[x].status = "MANUAL" => Valid(v, e.target, x, read[x].target)
      BY <2>3, <2>4, <2>7 DEF Brought, Agree, Mapped
    <3> QED BY <2>3, <2>4, <2>7, <3>1, SyncedTouched
  <2> QED BY <2>5, <2>6, <2>7
<1>2. new = [x \in Column |-> new[x]]
  BY DEF Synced
<1> HIDE DEF new
<1>3. new = now
  BY <1>1, <1>2
<1> QED BY <1>3 DEF new

\* A pass keeps the row of a column that it read a standing decision about.
LEMMA SyncedKeepsDecided ==
  ASSUME NEW v \in DOMAIN Schema, NEW t, NEW now \in [Column -> Row \cup {None}],
         NEW read \in [Column -> Row \cup {None}], NEW D, NEW x \in Column,
         x \in Schema[v].source, now[x] # None, read[x] # None, read[x].user,
         read[x].status = "MANUAL" => Valid(v, t, x, read[x].target)
  PROVE  Synced(v, t, now, read, D)[x] = now[x]
<1>1. CASE x \notin D
  BY <1>1, SyncedOutside
<1>2. CASE x \in D
  BY <1>2, SyncedTouched
<1> QED BY <1>1, <1>2

-----------------------------------------------------------------------------
(* What a request that met no other one knows of the plan, statement by    *)
(* statement: that what it holds in memory is still so.                    *)

Judging == {"judge", "store", "gate", "assess", "lossy", "insert"}

Known(s, m) ==
  /\ s = "write" /\ m.kind = "field" /\ m.set.user =>
       /\ entity # None /\ m.gen = gen /\ rows[m.col] # None
       /\ m.v \in DOMAIN Schema /\ m.col \in Schema[m.v].source
       /\ m.set.status = "MANUAL" =>
            Valid(m.v, PairOf(m.v, entity).target, m.col, m.set.target)
  /\ s = "describe" =>
       /\ IF m.gen = 0 THEN entity = None ELSE entity # None /\ gen = m.gen
       /\ m.pair = PairOf(m.v, entity)
  /\ s = "sync" => entity = m.pair /\ gen = m.gen /\ m.rows = rows
  /\ s = "judge" => entity = m.pair /\ (entity # None => gen = m.gen)
  /\ s = "store" => m.verdict = Blocks(m.v, entity, FieldsOf(rows))
  /\ s = "assess" => blocked = Blocks(m.v, entity, FieldsOf(rows))
  /\ s \in {"lossy", "insert"} => ~Blocks(m.v, entity, FieldsOf(rows))
  /\ s = "insert" => LossyColumns \subseteq m.accepted
  /\ s \in {"describe", "sync", "judge", "store"} /\ m.v # schema => stale
  /\ s \in Judging /\ entity # None => Brought(m.v, entity, rows)

\* The second rebuild of a start finds what the first one left, when it finds
\* the same version.
Rebuilt(s, m) ==
  /\ m.round = 1 /\ s \notin {"reload", "clear"} => m.v1 <= m.v
  /\ m.round = 1 /\ s = "describe" => m.v1 = m.v
  /\ m.round = 2 => m.v1 <= m.v
  /\ m.round \in {1, 2} /\ m.v1 = m.v /\ s \in Judging \cup {"sync"} /\ entity # None =>
       PairOf(m.v, entity) = entity
  /\ m.round = 2 /\ m.v1 = m.v /\ s \in {"reload", "clear", "describe", "sync"} =>
       entity # None /\ PairOf(m.v, entity) = entity /\ Brought(m.v, entity, rows)
  /\ m.round = 2 /\ m.v1 = m.v /\ s \in Judging /\ entity # None => Settled(m.v, entity, rows)

WorkInv(c) == Known(at[c], mem[c]) /\ Rebuilt(at[c], mem[c])

AllWork == \A c \in Busy \ overlapped : WorkInv(c)

LEMMA WorkOfNone ==
  ASSUME NEW c \in Client, mem'[c].round = 0, at'[c] \in {"reload", "clear"}
  PROVE  WorkInv(c)'
  BY DEF WorkInv, Known, Rebuilt, Judging

LEMMA WorkReload ==
  ASSUME TypeInv, NEW c \in Client, WorkInv(c), Reload(c)
  PROVE  WorkInv(c)'
<1> DEFINE m == mem[c]
           n == [m EXCEPT !.tables = IF entity = None THEN {} ELSE {Home}]
<1>1. m \in Memory
  BY DEF TypeInv
<1>2. n.v = m.v /\ n.v1 = m.v1 /\ n.round = m.round
  BY <1>1 DEF Memory
<1>3. at'[c] = "clear" /\ mem'[c] = n /\ UNCHANGED <<entity, rows>> /\ at[c] = "reload"
  BY DEF Reload, Goes, TypeInv, plan
<1> HIDE DEF n
<1> QED BY <1>2, <1>3 DEF WorkInv, Known, Rebuilt, Judging

LEMMA WorkClear ==
  ASSUME TypeInv, NEW c \in Client, WorkInv(c), Clear(c)
  PROVE  WorkInv(c)'
<1> DEFINE m == mem[c]
           kept == IF m.tables = {} THEN None ELSE entity
<1>0. PICK n : n = [m EXCEPT !.v = schema, !.rows = NoRows,
                             !.v1 = IF m.round = 1 THEN schema ELSE @,
                             !.gen = IF kept = None THEN 0 ELSE gen,
                             !.pair = IF m.tables = {} THEN None ELSE PairOf(schema, kept)]
  OBVIOUS
<1>1. m \in Memory /\ schema \in Nat /\ gen > 0 /\ gen \in Nat /\ m.v1 \in Nat /\ m.v1 <= schema
  BY Versions DEF TypeInv, TypeOK, Placed, Memory
<1>2. /\ n.v = schema /\ n.v1 = (IF m.round = 1 THEN schema ELSE m.v1) /\ n.round = m.round
      /\ n.gen = (IF kept = None THEN 0 ELSE gen)
      /\ n.pair = (IF m.tables = {} THEN None ELSE PairOf(schema, kept))
  BY <1>0, <1>1 DEF Memory
<1>3. /\ at[c] = "clear" /\ at'[c] = IF m.tables = {} THEN "judge" ELSE "describe"
      /\ mem'[c] = n /\ entity' = kept /\ rows' = (IF kept = None THEN NoRows ELSE rows)
      /\ UNCHANGED <<schema, gen>>
  BY <1>0 DEF Clear, Goes, TypeInv
<1>4. CASE m.tables = {}
  <2>1. at'[c] = "judge" /\ entity' = None
    BY <1>3, <1>4
  <2>2. Known("judge", n)'
    BY <1>2, <1>3, <1>4 DEF Known, Judging
  <2>3. Rebuilt("judge", n)'
    BY <1>1, <1>2, <1>3, <1>4 DEF Rebuilt, Judging
  <2> QED BY <1>3, <2>1, <2>2, <2>3 DEF WorkInv
<1>5. CASE m.tables # {}
  <2>1. at'[c] = "describe" /\ entity' = entity
    BY <1>3, <1>5
  <2>2. rows' = rows
    BY <1>3, <1>5 DEF TypeInv, TypeOK
  <2>3. Known("describe", n)'
    BY <1>1, <1>2, <1>3, <1>5 DEF Known, Judging
  <2>4. m.v \in Nat /\ m.v <= schema /\ m.round \in Nat
    BY DEF TypeInv, Placed, Memory
  <2>5. m.round = 2 => m.v1 <= m.v /\ (n.v1 = n.v => m.v1 = m.v)
    BY <1>1, <1>2, <2>4 DEF WorkInv, Rebuilt
  <2>6. m.round = 2 /\ n.v1 = n.v =>
          entity # None /\ PairOf(n.v, entity) = entity /\ Brought(n.v, entity, rows)
    <3>1. SUFFICES ASSUME m.round = 2, n.v1 = n.v
                   PROVE  entity # None /\ PairOf(n.v, entity) = entity /\ Brought(n.v, entity, rows)
      OBVIOUS
    <3>2. m.v1 = m.v /\ n.v = m.v
      BY <1>2, <2>4, <2>5, <3>1
    <3> QED BY <1>3, <3>1, <3>2 DEF WorkInv, Rebuilt
  <2>7. (n.round = 1 => n.v1 = n.v) /\ n.v1 <= n.v /\ n.v \in Nat
    BY <1>1, <1>2
  <2>8. Rebuilt("describe", n)'
    BY <1>2, <1>3, <2>1, <2>2, <2>6, <2>7 DEF Rebuilt, Judging
  <2> QED BY <1>3, <2>1, <2>3, <2>8 DEF WorkInv
<1> QED BY <1>4, <1>5

LEMMA WorkDescribe ==
  ASSUME TypeInv, NEW c \in Client, WorkInv(c), Describe(c)
  PROVE  WorkInv(c)'
<1> DEFINE m == mem[c]
<1>0. PICK n : n = [m EXCEPT !.v = schema, !.gen = gen', !.rows = rows]
  OBVIOUS
<1>1. m \in Memory /\ at[c] = "describe" /\ Placed(at[c], m, schema) /\ schema \in Nat
  BY Versions DEF TypeInv, TypeOK, Describe
<1>2. /\ n.v = schema /\ n.v1 = m.v1 /\ n.round = m.round /\ n.pair = m.pair
      /\ n.gen = gen' /\ n.rows = rows
  BY <1>0, <1>1 DEF Memory
<1>3. /\ at'[c] = "sync" /\ mem'[c] = n /\ entity' = m.pair /\ UNCHANGED <<schema, rows, stale>>
  BY <1>0 DEF Describe, Goes, TypeInv
<1>4. /\ m.pair = PairOf(m.v, entity) /\ m.v \in DOMAIN Schema /\ entity \in Pair \cup {None}
      /\ m.v \in Nat /\ m.v1 \in Nat /\ m.v <= schema
  <2>1. m.pair = PairOf(m.v, entity)
    BY <1>1 DEF WorkInv, Known
  <2>2. m.v \in DOMAIN Schema /\ m.v <= schema
    BY <1>1 DEF Placed
  <2>3. entity \in Pair \cup {None}
    BY DEF TypeInv, TypeOK
  <2>4. m.v \in Nat /\ m.v1 \in Nat
    BY <1>1 DEF Memory
  <2> QED BY <2>1, <2>2, <2>3, <2>4
<1>5. m.pair = PairOf(m.v, m.pair)
  BY <1>4, PairOfFacts
<1>6. Known("sync", n)'
  BY <1>2, <1>3 DEF Known, Judging
<1>7. m.round \in {1, 2} => m.v1 <= m.v
  BY <1>1, <1>4 DEF WorkInv, Rebuilt
<1>8. m.round \in {1, 2} /\ n.v1 = n.v => m.v = schema /\ m.v1 = m.v
  BY <1>1, <1>2, <1>4, <1>7
<1>9. Rebuilt("sync", n)'
  BY <1>1, <1>2, <1>3, <1>4, <1>5, <1>7, <1>8 DEF WorkInv, Rebuilt, Judging
<1> QED BY <1>3, <1>6, <1>9 DEF WorkInv

LEMMA WorkSync ==
  ASSUME TypeInv, NEW c \in Client, WorkInv(c), Sync(c)
  PROVE  WorkInv(c)'
<1>0. PICK n : n = mem[c]
  OBVIOUS
<1>1. /\ at[c] = "sync" /\ n \in Memory /\ n.v \in DOMAIN Schema /\ n.pair # None
      /\ rows \in [Column -> Row \cup {None}] /\ HandMade(rows)
  BY <1>0 DEF TypeInv, TypeOK, Placed, Sync
<1>2. entity = n.pair /\ gen = n.gen /\ n.rows = rows /\ (n.v # schema => stale)
  BY <1>0, <1>1 DEF WorkInv, Known
<1>3. /\ at'[c] = "judge" /\ mem'[c] = n /\ UNCHANGED <<schema, entity, gen, stale>>
  BY <1>0 DEF Sync, Goes, TypeInv
<1>4. rows' = Synced(n.v, entity.target, rows, rows, Column)
  BY <1>0, <1>1, <1>2 DEF Sync, Gone, SyncedBy
<1>5. Brought(n.v, entity, rows')
  BY <1>1, <1>4, SyncedBrought
<1>6. Known("judge", n)'
  BY <1>2, <1>3, <1>5 DEF Known, Judging
<1>7. Brought(n.v, entity, rows) => Settled(n.v, entity, rows')
  BY <1>1, <1>4, SyncedSettled
<1>8. Rebuilt("judge", n)'
  BY <1>0, <1>1, <1>3, <1>7 DEF WorkInv, Rebuilt, Judging
<1> QED BY <1>3, <1>6, <1>8 DEF WorkInv

LEMMA WorkJudge ==
  ASSUME TypeInv, NEW c \in Client, WorkInv(c), Judge(c)
  PROVE  WorkInv(c)'
<1> DEFINE m == mem[c]
<1>0. PICK n : n = [m EXCEPT !.rows = NoRows, !.pair = None,
                             !.verdict = Blocks(m.v, m.pair, FieldsOf(RowsToJudge(c)))]
  OBVIOUS
<1>1. m \in Memory /\ at[c] = "judge" /\ (entity = None => rows = NoRows)
  BY DEF TypeInv, TypeOK, Judge
<1>2. /\ n.v = m.v /\ n.v1 = m.v1 /\ n.round = m.round
      /\ n.verdict = Blocks(m.v, m.pair, FieldsOf(RowsToJudge(c)))
  BY <1>0, <1>1 DEF Memory
<1>3. /\ at'[c] = "store" /\ mem'[c] = n /\ UNCHANGED <<schema, entity, rows, stale>>
  BY <1>0 DEF Judge, Goes, TypeInv, plan
<1>4. /\ entity = m.pair /\ (entity # None => gen = m.gen) /\ (m.v # schema => stale)
      /\ (entity # None => Brought(m.v, entity, rows))
  BY <1>1 DEF WorkInv, Known, Judging
<1>5. RowsToJudge(c) = rows
  BY <1>1, <1>4 DEF RowsToJudge, Gone
<1>6. Known("store", n)'
  BY <1>2, <1>3, <1>4, <1>5 DEF Known, Judging
<1>7. Rebuilt("store", n)'
  BY <1>1, <1>2, <1>3 DEF WorkInv, Rebuilt, Judging
<1> QED BY <1>3, <1>6, <1>7 DEF WorkInv

LEMMA WorkStore ==
  ASSUME TypeInv, NEW c \in Client, WorkInv(c), Store(c), ~Ends(c)
  PROVE  WorkInv(c)'
<1>0. PICK n : n = mem[c]
  OBVIOUS
<1>1. at[c] = "store" /\ n.round \in {0, 1, 2}
  <2>1. n \in Memory /\ n.round <= 2
    BY <1>0 DEF TypeInv, Placed
  <2>2. n.round \in Nat
    BY <2>1 DEF Memory
  <2> QED BY <2>1, <2>2 DEF Store
<1>2. PICK s \in {"gate", "assess"} : at'[c] = s
  BY <1>0, <1>1 DEF Store, Goes, TypeInv
<1>3. mem'[c] = n /\ blocked' = n.verdict /\ UNCHANGED <<schema, entity, rows>>
  BY <1>0, <1>1 DEF Store
<1>4. Known(s, n)'
  BY <1>0, <1>1, <1>2, <1>3 DEF WorkInv, Known, Judging
<1>5. Rebuilt(s, n)'
  BY <1>0, <1>1, <1>2, <1>3 DEF WorkInv, Rebuilt, Judging
<1> QED BY <1>2, <1>3, <1>4, <1>5 DEF WorkInv

LEMMA WorkGate ==
  ASSUME TypeInv, NEW c \in Client, WorkInv(c), Gate(c), ~Ends(c)
  PROVE  WorkInv(c)'
<1> DEFINE m == mem[c]
<1>0. PICK n : n = [m EXCEPT !.accepted = accepted, !.round = 2]
  OBVIOUS
<1>1. /\ m \in Memory /\ at[c] = "gate" /\ m.round = 1 /\ m.v \in DOMAIN Schema /\ m.v \in Nat
  BY Versions DEF TypeInv, Placed, Gate, Memory
<1>2. n.v = m.v /\ n.v1 = m.v1 /\ n.round = 2
  BY <1>0, <1>1 DEF Memory
<1>3. /\ at'[c] = "reload" /\ mem'[c] = n /\ UNCHANGED <<schema, entity, rows>> /\ entity # None
  BY <1>0 DEF Gate, Goes, TypeInv, plan, Passes
<1>4. /\ m.v1 <= m.v /\ Brought(m.v, entity, rows)
      /\ m.v1 = m.v => PairOf(m.v, entity) = entity
  BY <1>1, <1>3 DEF WorkInv, Known, Rebuilt, Judging
<1>5. Known("reload", n)'
  BY DEF Known, Judging
<1>6. Rebuilt("reload", n)'
  BY <1>1, <1>2, <1>3, <1>4 DEF Rebuilt, Judging
<1> QED BY <1>3, <1>5, <1>6 DEF WorkInv

LEMMA WorkAssess ==
  ASSUME TypeInv, NEW c \in Client, WorkInv(c), Assess(c) \/ Lossy(c), ~Ends(c)
  PROVE  WorkInv(c)'
<1>0. PICK n : n = mem[c]
  OBVIOUS
<1>1. PICK s : /\ at'[c] = s /\ mem'[c] = n /\ UNCHANGED <<schema, entity, rows>>
               /\ \/ at[c] = "assess" /\ s = "lossy" /\ ~blocked
                  \/ at[c] = "lossy" /\ s = "insert" /\ Unaccepted(c) = {}
  BY <1>0 DEF Assess, Lossy, Goes, TypeInv, plan
<1>2. /\ ~Blocks(n.v, entity, FieldsOf(rows))
      /\ entity # None => Brought(n.v, entity, rows)
  BY <1>0, <1>1 DEF WorkInv, Known, Judging
<1>3. LossyColumns' = LossyColumns /\ (s = "insert" => LossyColumns \subseteq n.accepted)
  BY <1>0, <1>1 DEF LossyColumns, Unaccepted
<1>4. Known(s, n)'
  BY <1>1, <1>2, <1>3 DEF Known, Judging
<1>5. Rebuilt(s, n)'
  BY <1>0, <1>1 DEF WorkInv, Rebuilt, Judging
<1> QED BY <1>1, <1>4, <1>5 DEF WorkInv

LEMMA WorkAsk ==
  ASSUME TypeInv, NEW c \in Client, NEW s, NEW m, Begins(c, s, m), AskedFor(s, m)
  PROVE  WorkInv(c)'
<1>1. /\ at'[c] = s /\ mem'[c] = m /\ schema \in DOMAIN Schema
      /\ UNCHANGED <<schema, entity, gen, rows>>
      /\ s \in {"write", "clear", "reload"} /\ m.round # 2
  BY Began DEF TypeInv, TypeOK, AskedFor, Memory
<1>2. Known(s, m)'
  BY <1>1 DEF AskedFor, Known, Judging
<1>3. Rebuilt(s, m)'
  BY <1>1, Began DEF Rebuilt, Judging, AskedFor, Placed
<1> QED BY <1>1, <1>2, <1>3 DEF WorkInv

LEMMA WorkUnchanged ==
  ASSUME NEW c \in Client, WorkInv(c), UNCHANGED <<entity, gen, rows, blocked>>,
         at'[c] = at[c], mem'[c] = mem[c], UNCHANGED <<schema, stale>> \/ stale'
  PROVE  WorkInv(c)'
<1>0. PICK n, s : n = mem[c] /\ s = at[c]
  OBVIOUS
<1>1. LossyColumns' = LossyColumns
  BY DEF LossyColumns
<1>2. Known(s, n)'
  BY <1>0, <1>1 DEF WorkInv, Known
<1>3. Rebuilt(s, n)'
  BY <1>0 DEF WorkInv, Rebuilt
<1> QED BY <1>0, <1>2, <1>3 DEF WorkInv

LEMMA WorkStep ==
  ASSUME TypeInv, AloneInv, AllWork, [Next]_vars
  PROVE  AllWork'
<1>1. ASSUME NEW c \in Client, Ask(c) PROVE AllWork'
  <2>1. PICK s, m : Begins(c, s, m) /\ AskedFor(s, m)
    BY <1>1, Asks
  <2>2. \A d \in Busy' \ overlapped' : d = c
    BY <2>1, AloneAsk
  <2>3. WorkInv(c)'
    BY <2>1, WorkAsk
  <2> QED BY <2>2, <2>3 DEF AllWork
<1>2. ASSUME NEW c \in Client, GoOn(c) \/ Breaks(c) PROVE AllWork'
  <2>1. PICK s, m : Moved(c, s, m)
    BY <1>2, RunsOn
  <2>2. /\ c \in Busy
        /\ \A d \in Busy' \ overlapped' : d = c /\ s # "idle" /\ c \notin overlapped
    BY <1>2, <2>1, AloneGo, StaleStays
  <2>3. SUFFICES ASSUME s # "idle", c \notin overlapped PROVE WorkInv(c)'
    BY <2>2 DEF AllWork
  <2>4. WorkInv(c)
    BY <2>2, <2>3 DEF AllWork
  <2>5. at'[c] = s /\ ~Ends(c)
    BY <2>1, <2>3 DEF Moved, TypeInv, Ends
  <2>6. CASE Revalidates(c)
    <3>1. at'[c] = "reload" /\ mem'[c].round = 0
      BY <2>6, NoMemType DEF Revalidates, Goes, TypeInv
    <3> QED BY <3>1, WorkOfNone
  <2>7. \/ Revalidates(c) \/ Reload(c) \/ Clear(c) \/ Describe(c) \/ Sync(c) \/ Judge(c)
        \/ Store(c) \/ Gate(c) \/ Assess(c) \/ Lossy(c)
    BY <1>2, <2>5 DEF GoOn, Breaks, Trouble, WriteField, WriteTarget, WriteRules, WriteOptions, Stumble,
       SyncPart, Insert
  <2> QED BY <2>4, <2>5, <2>6, <2>7, WorkReload, WorkClear, WorkDescribe, WorkSync, WorkJudge,
             WorkStore, WorkGate, WorkAssess
<1>3. CASE RunEnds
  <2>1. /\ UNCHANGED <<entity, gen, rows, blocked, at, mem, schema, stale>>
        /\ Busy' = Busy /\ overlapped' = overlapped
    BY <1>3 DEF RunEnds, plan, history, Busy
  <2>2. ASSUME NEW c \in Busy \ overlapped PROVE WorkInv(c)'
    BY <2>1, WorkUnchanged DEF AllWork, Busy
  <2> QED BY <2>1, <2>2 DEF AllWork
<1>4. CASE SchemaChanges
  <2>1. /\ UNCHANGED <<entity, gen, rows, blocked, at, mem>> /\ stale'
        /\ Busy' = Busy /\ overlapped' = overlapped
    BY <1>4 DEF SchemaChanges, plan, Busy
  <2>2. ASSUME NEW c \in Busy \ overlapped PROVE WorkInv(c)'
    BY <2>1, WorkUnchanged DEF AllWork, Busy
  <2> QED BY <2>1, <2>2 DEF AllWork
<1>5. CASE UNCHANGED vars
  <2>1. /\ UNCHANGED <<entity, gen, rows, blocked, at, mem, schema, stale>>
        /\ Busy' = Busy /\ overlapped' = overlapped
    BY <1>5 DEF vars, plan, history, Busy
  <2>2. ASSUME NEW c \in Busy \ overlapped PROVE WorkInv(c)'
    BY <2>1, WorkUnchanged DEF AllWork, Busy
  <2> QED BY <2>1, <2>2 DEF AllWork
<1> QED BY <1>1, <1>2, <1>3, <1>4, <1>5 DEF Next

-----------------------------------------------------------------------------
(* The issues of a plan.                                                   *)

\* A request at one of these statements has left the plan as its issues say,
\* if no other one is about.
Quiet == {"idle", "write", "gate", "assess", "lossy", "insert"}

CurrentInv ==
  ~stale /\ (\A c \in Client : at[c] \in Quiet) =>
    blocked = Blocks(schema, entity, FieldsOf(rows))

LEMMA CurrentStep ==
  ASSUME TypeInv, AloneInv, AllWork, CurrentInv, [Next]_vars
  PROVE  CurrentInv'
<1> SUFFICES ASSUME ~stale', \A c \in Client : at'[c] \in Quiet
             PROVE  (blocked = Blocks(schema, entity, FieldsOf(rows)))'
  BY DEF CurrentInv
<1>1. ASSUME NEW c \in Client, Ask(c)
      PROVE  (blocked = Blocks(schema, entity, FieldsOf(rows)))'
  <2>1. PICK s, m : Begins(c, s, m) /\ AskedFor(s, m)
    BY <1>1, Asks
  <2>2. /\ UNCHANGED <<schema, entity, rows, blocked>>
        /\ at[c] = "idle" /\ at' = [at EXCEPT ![c] = s] /\ at \in [Client -> Places]
    BY <2>1, Began DEF TypeInv
  <2>3. \A d \in Client : at[d] \in Quiet
    BY <2>2 DEF Quiet
  <2>4. ~stale
    BY <2>1 DEF Begins
  <2> QED BY <2>2, <2>3, <2>4 DEF CurrentInv
<1>2. ASSUME NEW c \in Client, GoOn(c) \/ Breaks(c)
      PROVE  (blocked = Blocks(schema, entity, FieldsOf(rows)))'
  <2>1. PICK s, m : Moved(c, s, m)
    BY <1>2, RunsOn
  <2>2. /\ s \in Quiet /\ schema' = schema /\ at \in [Client -> Places] /\ c \in Busy
        /\ at' = [at EXCEPT ![c] = s]
    BY <1>2, <2>1, AloneGo, StaleStays DEF Moved, TypeInv
  <2>3. c \notin overlapped /\ WorkInv(c)
    <3>1. c \notin overlapped
      BY <1>2, StaleStays DEF AloneInv
    <3> QED BY <2>2, <3>1 DEF AllWork
  <2>4. CASE Store(c)
    <3>0. PICK n : n = mem[c]
      OBVIOUS
    <3>1. n.verdict = Blocks(n.v, entity, FieldsOf(rows)) /\ (n.v # schema => stale)
      BY <2>3, <2>4, <3>0 DEF Store, WorkInv, Known
    <3>2. n.v = schema
      BY <2>4, <3>0, <3>1 DEF Store
    <3> QED BY <2>4, <3>0, <3>1, <3>2 DEF Store
  <2>5. CASE at[c] \in Quiet /\ UNCHANGED <<entity, rows, blocked, stale>>
    <3>1. \A d \in Client : at[d] \in Quiet
      BY <2>2, <2>5
    <3> QED BY <2>2, <2>5, <3>1 DEF CurrentInv
  <2>6. CASE Gate(c) \/ Assess(c) \/ Lossy(c) \/ Insert(c) \/ (WriteOptions(c) /\ s # "reload")
    <3>1. at[c] \in Quiet /\ UNCHANGED <<entity, rows, blocked, stale>>
      BY <2>6 DEF Gate, Assess, Lossy, Insert, WriteOptions, plan, Quiet
    <3> QED BY <2>5, <3>1
  <2>7. ~Stumble(c) /\ ~SyncPart(c)
    <3>1. ~Stumble(c)
      BY <2>3 DEF Stumble, WorkInv, Known
    <3>2. ASSUME SyncPart(c) PROVE FALSE
      <4>1. entity = mem[c].pair /\ gen = mem[c].gen /\ mem[c].rows = rows /\ mem[c].pair # None
        BY <2>3, <3>2 DEF SyncPart, WorkInv, Known, TypeInv, Placed
      <4>2. Conflict(c) = {}
        BY <4>1 DEF Conflict, Gone
      <4> QED BY <3>2, <4>2 DEF SyncPart, Trouble
    <3> QED BY <3>1, <3>2
  <2>8. at'[c] = s /\ s # "reload" /\ s \notin {"clear", "describe", "sync", "judge", "store"}
    BY <2>2 DEF Quiet
  <2>9. ~Breaks(c)
    BY DEF Breaks, Trouble
  <2>10. ~Revalidates(c) /\ ~Reload(c) /\ ~Clear(c) /\ ~Describe(c) /\ ~Sync(c) /\ ~Judge(c)
    BY <2>2, <2>8 DEF Revalidates, Reload, Clear, Describe, Sync, Judge, Goes
  <2> QED BY <1>2, <2>4, <2>6, <2>7, <2>8, <2>9, <2>10
          DEF GoOn, WriteField, WriteTarget, WriteRules
<1>3. CASE RunEnds
  BY <1>3 DEF RunEnds, CurrentInv, plan, history
<1>4. CASE SchemaChanges
  BY <1>4 DEF SchemaChanges
<1>5. CASE UNCHANGED vars
  BY <1>5 DEF vars, CurrentInv, plan, history
<1> QED BY <1>1, <1>2, <1>3, <1>4, <1>5 DEF Next

-----------------------------------------------------------------------------
(* What the statements that several proofs look at leave behind.           *)

\* Rules make a row a person's, and change nothing of what it maps.
LEMMA RulesLeave ==
  ASSUME TypeInv, NEW c \in Client, WriteRules(c), NEW x \in Column
  PROVE  /\ rows'[x] = None <=> rows[x] = None
         /\ rows[x] # None =>
              /\ rows'[x].status = rows[x].status /\ rows'[x].target = rows[x].target
              /\ rows'[x] = rows[x] \/ rows'[x].user
<1> DEFINE m == mem[c]
           y == m.col
           l == IF m.kind = "pipeline" THEN m.set ELSE rows[y].lossy
           r == [rows[y] EXCEPT !.user = TRUE, !.lossy = l]
<1>1. /\ y \in Column /\ (m.kind = "pipeline" => m.set \in BOOLEAN)
      /\ rows \in [Column -> Row \cup {None}] /\ None \notin Row
  BY PlanAssumption DEF TypeInv, TypeOK, Placed, WriteRules
<1>2. rows' = rows \/ (rows[y] # None /\ rows' = [rows EXCEPT ![y] = r])
  BY <1>1 DEF WriteRules
<1>3. CASE rows' = rows \/ x # y
  BY <1>1, <1>2, <1>3
<1>4. CASE x = y /\ rows[y] # None /\ rows' = [rows EXCEPT ![y] = r]
  <2>1. rows[y] \in Row
    BY <1>1, <1>4
  <2>2. l \in BOOLEAN
    BY <1>1, <2>1 DEF Row
  <2> HIDE DEF l
  <2>3. r \in Row /\ r.user /\ r.status = rows[y].status /\ r.target = rows[y].target
    BY <2>1, <2>2 DEF Row
  <2> HIDE DEF r
  <2> QED BY <1>1, <1>4, <2>3
<1> QED BY <1>2, <1>3, <1>4

LEMMA ClearLeaves ==
  ASSUME TypeInv, NEW c \in Client, Clear(c), mem[c].tables # {}, entity # None
  PROVE  /\ at'[c] = "describe" /\ mem'[c].v = schema /\ mem'[c].gen = gen
         /\ mem'[c].pair = PairOf(schema, entity)
         /\ UNCHANGED <<schema, entity, gen, rows, run>>
<1> DEFINE m == mem[c]
           n == [m EXCEPT !.v = schema, !.rows = NoRows,
                          !.v1 = IF m.round = 1 THEN schema ELSE @,
                          !.gen = gen, !.pair = PairOf(schema, entity)]
<1>1. at'[c] = "describe" /\ mem'[c] = n /\ UNCHANGED <<schema, entity, gen, rows, run>>
  BY DEF Clear, Goes, TypeInv
<1>2. n.v = schema /\ n.gen = gen /\ n.pair = PairOf(schema, entity)
  BY DEF TypeInv, Memory
<1> HIDE DEF n
<1> QED BY <1>1, <1>2

LEMMA DescribeLeaves ==
  ASSUME TypeInv, NEW c \in Client, Describe(c)
  PROVE  /\ at'[c] = "sync" /\ mem'[c].v = schema /\ mem'[c].gen = gen'
         /\ mem'[c].pair = mem[c].pair /\ mem'[c].rows = rows
<1> DEFINE m == mem[c]
           n == [m EXCEPT !.v = schema, !.gen = gen', !.rows = rows]
<1>1. at'[c] = "sync" /\ mem'[c] = n
  BY DEF Describe, Goes, TypeInv
<1>2. n.v = schema /\ n.gen = gen' /\ n.pair = m.pair /\ n.rows = rows
  BY DEF TypeInv, Memory
<1> HIDE DEF n
<1> QED BY <1>1, <1>2

-----------------------------------------------------------------------------
(* What a person decided about a column.                                   *)

Carries(r, d) == r # None /\ r.user /\ r.status = d.status /\ r.target = d.target

\* A request at statement s with memory m will not undo decision d about x.
Heeds(s, m, x, d) ==
  /\ s \in {"describe", "sync"} => m.v = schema
  /\ s \in {"describe", "sync"} /\ m.gen = gen => m.pair = PairOf(schema, entity)
  /\ s = "sync" /\ m.gen = gen => Carries(m.rows[x], d)

Standing(x) ==
  decision[x] # None =>
    /\ entity # None /\ Carries(rows[x], decision[x]) /\ x \in Schema[schema].source
    /\ decision[x].status = "MANUAL" =>
         Valid(schema, PairOf(schema, entity).target, x, decision[x].target)
    /\ \A c \in Client : Heeds(at[c], mem[c], x, decision[x])

LEMMA StandingMoves ==
  ASSUME TypeInv, NEW x \in Column, Standing(x), decision[x] # None, NEW c \in Client,
         NEW s, NEW m, at' = [at EXCEPT ![c] = s], mem' = [mem EXCEPT ![c] = m],
         UNCHANGED <<schema, gen>>, decision'[x] = decision[x],
         entity' # None, PairOf(schema, entity') = PairOf(schema, entity),
         Carries(rows'[x], decision[x]), Heeds(s, m, x, decision[x])
  PROVE  Standing(x)'
<1>0. PICK dec : dec = decision[x]
  OBVIOUS
<1>1. ASSUME NEW d \in Client PROVE Heeds(at[d], mem[d], x, dec)'
  <2>0. PICK t, n : t = at'[d] /\ n = mem'[d]
    OBVIOUS
  <2>1. Heeds(t, n, x, dec)
    <3>1. CASE d = c
      BY <1>0, <2>0, <3>1 DEF TypeInv
    <3>2. CASE d # c
      BY <1>0, <2>0, <3>2 DEF TypeInv, Standing
    <3> QED BY <3>1, <3>2
  <2>2. Heeds(t, n, x, dec)'
    BY <2>1 DEF Heeds
  <2> QED BY <2>0, <2>2
<1> QED BY <1>0, <1>1 DEF Standing

\* The decision is made.
LEMMA StandingDecided ==
  ASSUME TypeInv, AloneInv, AllWork, NEW x \in Column, Standing(x), NEW c \in Client,
         WriteField(c), decision'[x] # None
  PROVE  Standing(x)'
<1> DEFINE m == mem[c]
           set == m.set
           d == [status |-> set.status, target |-> TargetOf(rows[x], set)]
<1>1. /\ at[c] = "write" /\ m.kind = "field" /\ m.col \in Column /\ set \in Setting
      /\ (set.status = "MANUAL" => set.target # None) /\ rows \in [Column -> Row \cup {None}]
  BY DEF WriteField, TypeInv, TypeOK, Placed
<1>2. /\ UNCHANGED <<schema, entity, gen>> /\ at' = [at EXCEPT ![c] = "reload"]
      /\ mem' = [mem EXCEPT ![c] = NoMem]
  BY DEF WriteField, Revalidates, Goes
<1>3. CASE x # m.col
  <2>1. decision'[x] = decision[x] /\ rows'[x] = rows[x]
    BY <1>1, <1>3 DEF WriteField, Decides, TypeInv
  <2>2. Heeds("reload", NoMem, x, decision[x])
    BY DEF Heeds
  <2>3. PairOf(schema, entity') = PairOf(schema, entity) /\ entity' # None
        /\ Carries(rows'[x], decision[x])
    BY <1>2, <2>1 DEF Standing
  <2> QED BY <1>2, <2>1, <2>2, <2>3, StandingMoves
<1>4. CASE x = m.col
  <2>1. /\ set.user /\ c \notin overlapped /\ m.v = schema /\ gen = m.gen /\ rows[x] # None
        /\ decision'[x] = d
    BY <1>1, <1>4 DEF WriteField, Decides, TypeInv
  <2>2. rows'[x] = Edited(rows[x], set)
    BY <1>1, <1>4, <2>1 DEF WriteField
  <2>3. rows[x] \in Row
    BY <1>1, <2>1
  <2>4. rows'[x] \in Row /\ rows'[x].user /\ rows'[x].status = set.status
        /\ rows'[x].target = TargetOf(rows[x], set)
        /\ (set.status = "MANUAL" => TargetOf(rows[x], set) = set.target)
    BY <1>1, <2>1, <2>2, <2>3, EditedType
  <2>5. Carries(rows'[x], d)
    BY <2>4, PlanAssumption DEF Carries
  <2>6. c \in Busy /\ WorkInv(c) /\ Busy = {c}
    BY <1>1, <2>1 DEF Busy, AllWork, AloneInv
  <2>7. /\ entity # None /\ x \in Schema[schema].source
        /\ set.status = "MANUAL" => Valid(schema, PairOf(schema, entity).target, x, set.target)
    BY <1>1, <1>4, <2>1, <2>6 DEF WorkInv, Known
  <2>8. ASSUME NEW e \in Client PROVE Heeds(at[e], mem[e], x, decision[x])'
    <3>1. at'[e] \in {"idle", "reload"}
      BY <1>2, <2>6 DEF Busy, TypeInv
    <3> QED BY <3>1 DEF Heeds
  <2>9. d.status = set.status /\ d.target = TargetOf(rows[x], set)
    OBVIOUS
  <2> HIDE DEF d
  <2> QED BY <1>2, <2>1, <2>4, <2>5, <2>7, <2>8, <2>9 DEF Standing
<1> QED BY <1>3, <1>4

LEMMA StandingSynced ==
  ASSUME TypeInv, NEW x \in Column, Standing(x), decision[x] # None, NEW c \in Client,
         Sync(c) \/ SyncPart(c)
  PROVE  rows'[x] = rows[x]
<1>0. PICK m : m = mem[c]
  OBVIOUS
<1>1. PICK D : rows' = IF Gone(c) THEN rows ELSE Synced(m.v, m.pair.target, rows, m.rows, D)
  BY <1>0 DEF Sync, SyncPart, SyncedBy
<1>2. SUFFICES ASSUME ~Gone(c) PROVE rows'[x] = rows[x]
  BY <1>1
<1>3. /\ at[c] = "sync" /\ m.v \in DOMAIN Schema /\ m \in Memory /\ m.gen = gen
      /\ rows \in [Column -> Row \cup {None}] /\ m.rows \in [Column -> Row \cup {None}]
  BY <1>0, <1>2 DEF Sync, SyncPart, TypeInv, TypeOK, Placed, Memory, Gone
<1>4. /\ m.v = schema /\ m.pair = PairOf(schema, entity) /\ Carries(m.rows[x], decision[x])
      /\ Carries(rows[x], decision[x]) /\ x \in Schema[schema].source
      /\ decision[x].status = "MANUAL" =>
           Valid(schema, PairOf(schema, entity).target, x, decision[x].target)
  BY <1>0, <1>3 DEF Standing, Heeds
<1>5. Synced(m.v, m.pair.target, rows, m.rows, D)[x] = rows[x]
  BY <1>3, <1>4, SyncedKeepsDecided DEF Carries
<1> QED BY <1>1, <1>2, <1>5

LEMMA StandingStep ==
  ASSUME TypeInv, AloneInv, AllWork, NEW x \in Column, Standing(x), [Next]_vars
  PROVE  Standing(x)'
<1>1. ASSUME NEW c \in Client, Ask(c) PROVE Standing(x)'
  <2>1. SUFFICES ASSUME decision'[x] # None PROVE Standing(x)'
    BY DEF Standing
  <2>2. PICK s, m : Begins(c, s, m) /\ AskedFor(s, m)
    BY <1>1, Asks
  <2>3. /\ at' = [at EXCEPT ![c] = s] /\ mem' = [mem EXCEPT ![c] = m]
        /\ UNCHANGED <<schema, entity, gen, rows, decision>>
        /\ s \notin {"describe", "sync"}
    BY <2>2, Began DEF AskedFor
  <2>4. Heeds(s, m, x, decision[x])
    BY <2>3 DEF Heeds
  <2>5. /\ decision[x] # None /\ PairOf(schema, entity') = PairOf(schema, entity) /\ entity' # None
        /\ Carries(rows'[x], decision[x]) /\ decision'[x] = decision[x]
    BY <2>1, <2>3 DEF Standing
  <2> QED BY <2>3, <2>4, <2>5, StandingMoves
<1>2. ASSUME NEW c \in Client, GoOn(c) \/ Breaks(c) PROVE Standing(x)'
  <2>1. SUFFICES ASSUME decision'[x] # None PROVE Standing(x)'
    BY DEF Standing
  <2>2. PICK s, m : Moved(c, s, m)
    BY <1>2, RunsOn
  <2>3. /\ at' = [at EXCEPT ![c] = s] /\ mem' = [mem EXCEPT ![c] = m] /\ schema' = schema
        /\ at'[c] = s /\ mem'[c] = m /\ mem[c] \in Memory /\ Placed(at[c], mem[c], schema)
    BY <2>2 DEF Moved, TypeInv
  <2>4. /\ schema \in DOMAIN Schema /\ entity \in Pair \cup {None} /\ gen \in Nat
        /\ rows \in [Column -> Row \cup {None}]
    BY DEF TypeInv, TypeOK
  <2>5. decision[x] # None =>
          /\ entity # None /\ Carries(rows[x], decision[x])
          /\ Heeds(at[c], mem[c], x, decision[x])
    BY DEF Standing
  \* The statements that leave the table and the row of x alone.
  <2>6. ASSUME s \notin {"describe", "sync"}, UNCHANGED <<entity, gen, decision>>,
               decision[x] # None => Carries(rows'[x], decision[x])
        PROVE  Standing(x)'
    <3>1. Heeds(s, m, x, decision[x])
      BY <2>6 DEF Heeds
    <3>2. /\ decision[x] # None /\ PairOf(schema, entity') = PairOf(schema, entity)
          /\ entity' # None /\ Carries(rows'[x], decision[x]) /\ decision'[x] = decision[x]
      BY <2>1, <2>5, <2>6
    <3> QED BY <2>3, <2>6, <3>1, <3>2, StandingMoves
  <2>7. CASE WriteField(c)
    BY <2>1, <2>7, StandingDecided
  <2>8. CASE WriteTarget(c)
    BY <2>1, <2>8 DEF WriteTarget, NoRows
  <2>9. CASE WriteRules(c)
    <3>1. s = "reload" /\ UNCHANGED <<entity, gen, decision>>
      BY <2>3, <2>9 DEF WriteRules, Revalidates, Goes, TypeInv
    <3>2. decision[x] # None => Carries(rows'[x], decision[x])
      BY <2>5, <2>9, RulesLeave DEF Carries
    <3> QED BY <2>6, <3>1, <3>2
  <2>10. CASE Clear(c)
    <3>1. mem[c].tables # {} /\ entity # None /\ UNCHANGED <<entity, gen, rows, decision>>
      BY <2>1, <2>10 DEF Clear, NoRows
    <3>2. s = "describe" /\ m.v = schema /\ m.pair = PairOf(schema, entity)
      BY <2>3, <2>10, <3>1, ClearLeaves
    <3>3. Heeds(s, m, x, decision[x])
      BY <3>2 DEF Heeds
    <3>4. /\ decision[x] # None /\ PairOf(schema, entity') = PairOf(schema, entity)
          /\ entity' # None /\ Carries(rows'[x], decision[x]) /\ decision'[x] = decision[x]
      BY <2>1, <2>5, <3>1
    <3> QED BY <2>3, <3>1, <3>3, <3>4, StandingMoves
  <2>11. CASE Describe(c)
    <3>1. decision[x] # None /\ decision' = decision /\ rows' = rows
      BY <2>1, <2>11 DEF Describe
    <3>2. /\ at[c] = "describe" /\ gen' = gen /\ mem[c].gen = gen /\ entity' = mem[c].pair
      BY <2>5, <2>11, <3>1 DEF Describe
    <3>3. mem[c].v = schema /\ entity' = PairOf(schema, entity)
      BY <2>5, <3>1, <3>2 DEF Heeds
    <3>4. PairOf(schema, entity') = PairOf(schema, entity) /\ entity' # None
      BY <2>4, <3>3, PairOfFacts
    <3>5. s = "sync" /\ m.v = schema /\ m.gen = gen /\ m.rows = rows /\ m.pair = mem[c].pair
      BY <2>3, <2>11, <3>2, <3>3, DescribeLeaves
    <3>6. Heeds(s, m, x, decision[x])
      BY <2>5, <3>1, <3>2, <3>3, <3>5 DEF Heeds
    <3> QED BY <2>3, <2>5, <3>1, <3>2, <3>4, <3>6, StandingMoves
  <2>12. CASE Sync(c) \/ SyncPart(c)
    <3>1. s \notin {"describe", "sync"} /\ UNCHANGED <<entity, gen, decision>>
      BY <2>3, <2>12 DEF Sync, SyncPart, Goes, Ends, TypeInv
    <3>2. rows'[x] = rows[x]
      BY <2>1, <2>12, <3>1, StandingSynced
    <3> QED BY <2>5, <2>6, <3>1, <3>2
  <2>13. CASE Breaks(c) \/ WriteOptions(c) \/ Reload(c) \/ Stumble(c) \/ Judge(c) \/ Gate(c)
              \/ Assess(c) \/ Lossy(c) \/ Insert(c) \/ Store(c)
    <3>1. UNCHANGED <<entity, gen, rows, decision>>
      BY <2>13 DEF Breaks, Trouble, WriteOptions, Reload, Stumble, Judge, Gate, Assess, Lossy, Insert,
         Store, plan
    <3>2. Store(c) => Ends(c) \/ Goes(c, "gate") \/ Goes(c, "assess")
      <4>1. mem[c].round \in {0, 1, 2}
        BY <2>3 DEF Placed, Memory
      <4> QED BY <4>1 DEF Store
    <3>3. s \notin {"describe", "sync"}
      BY <2>3, <2>13, <3>2 DEF Breaks, Trouble, WriteOptions, Revalidates, Reload, Stumble, Judge, Gate, Assess, Lossy,
         Insert, Goes, Ends, TypeInv
    <3> QED BY <2>5, <2>6, <3>1, <3>3
  <2> QED BY <1>2, <2>7, <2>8, <2>9, <2>10, <2>11, <2>12, <2>13 DEF GoOn
<1>3. CASE RunEnds \/ UNCHANGED vars
  <2>1. UNCHANGED <<schema, entity, gen, rows, decision, at, mem>>
    BY <1>3 DEF RunEnds, vars, plan, history
  <2> QED BY <2>1 DEF Standing, Heeds
<1>4. CASE SchemaChanges
  BY <1>4 DEF SchemaChanges, Standing, NoRows
<1> QED BY <1>1, <1>2, <1>3, <1>4 DEF Next

-----------------------------------------------------------------------------
(* The start of a run, and the plan while it is active.                    *)

LEMMA RunStarts ==
  ASSUME TypeInv, AloneInv, AllWork, NEW c \in Client, Insert(c), run = None, ~run'.raced
  PROVE  /\ entity # None /\ rows \in [Column -> Row \cup {None}]
         /\ run'.plan = Snapshot(entity, rows)
         /\ run'.accepted = mem[c].accepted /\ run'.v1 = mem[c].v1 /\ run'.v = mem[c].v
         /\ ~Blocks(run'.v, entity, FieldsOf(rows)) /\ LossyColumns \subseteq run'.accepted
         /\ Brought(run'.v, entity, rows)
         /\ run'.v1 <= run'.v /\ run'.v <= schema
         /\ run'.v1 = run'.v => PairOf(run'.v, entity) = entity /\ Settled(run'.v, entity, rows)
         /\ Busy = {c}
<1>1. /\ run'.plan = Snapshot(entity, rows) /\ run'.accepted = mem[c].accepted
      /\ run'.v1 = mem[c].v1 /\ run'.v = mem[c].v /\ c \notin overlapped /\ at[c] = "insert"
  BY DEF Insert
<1>2. c \in Busy /\ Busy = {c} /\ WorkInv(c)
  BY <1>1 DEF Busy, AloneInv, AllWork
<1>3. mem[c].round = 2 /\ mem[c].v <= schema /\ rows \in [Column -> Row \cup {None}]
  BY <1>1 DEF TypeInv, TypeOK, Placed
<1>4. ~Blocks(mem[c].v, entity, FieldsOf(rows)) /\ LossyColumns \subseteq mem[c].accepted
  BY <1>1, <1>2 DEF WorkInv, Known
<1>5. entity # None
  BY <1>4 DEF Blocks
<1>6. Brought(mem[c].v, entity, rows)
  BY <1>1, <1>2, <1>5 DEF WorkInv, Known, Judging
<1>7. /\ mem[c].v1 <= mem[c].v
      /\ mem[c].v1 = mem[c].v =>
           PairOf(mem[c].v, entity) = entity /\ Settled(mem[c].v, entity, rows)
  BY <1>1, <1>2, <1>3, <1>5 DEF WorkInv, Rebuilt, Judging
<1> QED BY <1>1, <1>2, <1>3, <1>4, <1>5, <1>6, <1>7

LEMMA SnapshotIs ==
  ASSUME NEW e, NEW rs, e # None
  PROVE  /\ Snapshot(e, rs).pair = e /\ Snapshot(e, rs).fields = FieldsOf(rs)
         /\ Snapshot(e, rs).lossy = {x \in Column : Mapped(rs[x]) /\ rs[x].lossy}
         /\ Snapshot(e, rs).touched =
              {x \in Column : Mapped(rs[x]) /\ rs[x].status = "AUTO_MAPPED" /\ rs[x].user}
  BY DEF Snapshot

LEMMA RunKept ==
  ASSUME NEW c \in Client, Ask(c) \/ GoOn(c) \/ Breaks(c), run' # run
  PROVE  Insert(c) /\ run = None
<1>1. ~Ask(c)
  BY DEF Ask, AskSelect, AskMap, AskIgnore, AskUnmap, AskReset, AskField, AskSettings, AskTarget,
         AskPipeline, AskAccept, AskOptions, AskCheck, AskStart, Begins
<1>2. ~Breaks(c)
  BY DEF Breaks, Trouble
<1> QED BY <1>1, <1>2 DEF GoOn, WriteField, WriteTarget, WriteRules, WriteOptions, Reload, Clear,
        Describe, Stumble, Sync, SyncPart, Judge, Store, Gate, Assess, Lossy, Insert

LEMMA CheckedStep ==
  ASSUME TypeInv, AloneInv, AllWork, StartedAsChecked, [Next]_vars
  PROVE  StartedAsChecked'
<1>1. CASE run' = run
  BY <1>1 DEF StartedAsChecked
<1>2. CASE run' = None
  BY <1>2 DEF StartedAsChecked
<1>3. ASSUME NEW c \in Client, Insert(c), run = None, ~run'.raced PROVE StartedAsChecked'
  <2> DEFINE v == run'.v
  <2>1. /\ entity # None /\ run'.plan = Snapshot(entity, rows)
        /\ ~Blocks(v, entity, FieldsOf(rows)) /\ LossyColumns \subseteq run'.accepted
        /\ Brought(v, entity, rows)
    BY <1>3, RunStarts
  <2>2. /\ run'.plan.pair = entity /\ run'.plan.fields = FieldsOf(rows)
        /\ run'.plan.lossy = {x \in Column : Mapped(rows[x]) /\ rows[x].lossy}
        /\ run'.plan.touched =
             {x \in Column : Mapped(rows[x]) /\ rows[x].status = "AUTO_MAPPED" /\ rows[x].user}
    BY <2>1, SnapshotIs
  <2>3. run'.plan.lossy \subseteq run'.accepted
    BY <2>1, <2>2 DEF LossyColumns
  <2>4. ASSUME NEW f \in run'.plan.fields
        PROVE  /\ f[1] \in Schema[v].source
               /\ f[1] \notin run'.plan.touched => Valid(v, entity.target, f[1], f[2])
    <3>1. PICK x \in Column : Mapped(rows[x]) /\ f = <<x, rows[x].target>>
      BY <2>2, <2>4 DEF FieldsOf
    <3>2. f[1] = x /\ f[2] = rows[x].target
      BY <3>1
    <3> QED BY <2>1, <2>2, <3>1, <3>2 DEF Brought, Mapped
  <2> QED BY <2>1, <2>2, <2>3, <2>4 DEF StartedAsChecked
<1>4. ASSUME run' # run, run' # None
      PROVE  \E c \in Client : Insert(c) /\ run = None
  <2>1. ~RunEnds /\ ~SchemaChanges /\ ~UNCHANGED vars
    BY <1>4 DEF RunEnds, SchemaChanges, vars
  <2> QED BY <1>4, <2>1, RunKept DEF Next
<1>5. CASE run' # run /\ run' # None
  BY <1>3, <1>4, <1>5 DEF StartedAsChecked
<1> QED BY <1>1, <1>2, <1>5

\* A request at statement s with memory m leaves the locked plan as it is.
Spares(s, m) ==
  /\ s = "write" => m.kind = "pipeline"
  /\ s = "clear" => m.tables # {}
  /\ s \in {"describe", "sync"} => m.v = schema /\ m.pair = entity /\ m.gen = gen
  /\ s = "sync" => Agree(schema, entity, rows, m.rows)

Locks == run # None /\ ~run.raced /\ run.v1 = schema

LockInv ==
  /\ run # None => run.v1 \in Nat /\ run.v1 <= schema
  /\ Locks =>
       /\ entity # None /\ entity = run.plan.pair /\ FieldsOf(rows) = run.plan.fields
       /\ PairOf(schema, entity) = entity /\ Settled(schema, entity, rows)
       /\ \A c \in Client : Spares(at[c], mem[c])

LEMMA LockMoves ==
  ASSUME TypeInv, LockInv, Locks, NEW c \in Client, NEW s, NEW m,
         at' = [at EXCEPT ![c] = s], mem' = [mem EXCEPT ![c] = m],
         UNCHANGED <<schema, entity, gen, rows, run>>, Spares(s, m)
  PROVE  LockInv'
<1>1. ASSUME NEW d \in Client PROVE Spares(at[d], mem[d])'
  <2>0. PICK t, n : t = at'[d] /\ n = mem'[d]
    OBVIOUS
  <2>1. Spares(t, n)
    <3>1. CASE d = c
      BY <2>0, <3>1 DEF TypeInv
    <3>2. CASE d # c
      BY <2>0, <3>2 DEF TypeInv, LockInv
    <3> QED BY <3>1, <3>2
  <2>2. Spares(t, n)'
    BY <2>1 DEF Spares
  <2> QED BY <2>0, <2>2
<1> QED BY <1>1 DEF LockInv, Locks

\* New rules leave what a locked plan maps.
LEMMA LockRules ==
  ASSUME TypeInv, LockInv, Locks, NEW c \in Client, WriteRules(c)
  PROVE  LockInv'
<1>1. /\ UNCHANGED <<schema, entity, gen, run>>
      /\ at' = [at EXCEPT ![c] = "reload"] /\ mem' = [mem EXCEPT ![c] = NoMem]
  BY DEF WriteRules, Revalidates, Goes
<1>2. \A x \in Column :
        /\ rows'[x] = None <=> rows[x] = None
        /\ rows[x] # None =>
             /\ rows'[x].status = rows[x].status /\ rows'[x].target = rows[x].target
             /\ rows'[x] = rows[x] \/ rows'[x].user
  BY RulesLeave
<1>3. \A x \in Column : Mapped(rows'[x]) <=> Mapped(rows[x])
  BY <1>2 DEF Mapped
<1>4. FieldsOf(rows') = FieldsOf(rows)
  BY <1>2, <1>3 DEF FieldsOf, Mapped
<1>5. Settled(schema, entity, rows')
  <2>1. Settled(schema, entity, rows)
    BY DEF LockInv
  <2>2. Brought(schema, entity, rows')
    BY <1>2, <1>3, <2>1 DEF Settled, Brought, Mapped
  <2>3. \A x \in Column : rows'[x] # None /\ ~rows'[x].user => Proposed(schema, entity.target, x, rows'[x])
    BY <1>2, <2>1 DEF Settled
  <2> QED BY <2>2, <2>3 DEF Settled
<1>6. ASSUME NEW d \in Client PROVE Spares(at[d], mem[d])'
  <2>0. PICK t, n : t = at'[d] /\ n = mem'[d]
    OBVIOUS
  <2>1. CASE d = c
    BY <1>1, <2>0, <2>1 DEF Spares, TypeInv
  <2>2. CASE d # c
    <3>1. Spares(t, n)
      BY <1>1, <2>0, <2>2 DEF TypeInv, LockInv
    <3>2. ASSUME Agree(schema, entity, rows, n.rows) PROVE Agree(schema, entity, rows', n.rows)
      BY <1>2, <3>2 DEF Agree
    <3>3. Spares(t, n)'
      BY <1>1, <3>1, <3>2 DEF Spares
    <3> QED BY <2>0, <3>3
  <2> QED BY <2>1, <2>2
<1> QED BY <1>1, <1>4, <1>5, <1>6 DEF LockInv, Locks

LEMMA LockSynced ==
  ASSUME TypeInv, LockInv, Locks, NEW c \in Client, Sync(c) \/ SyncPart(c)
  PROVE  rows' = rows
<1>0. PICK m : m = mem[c]
  OBVIOUS
<1>1. PICK D : rows' = IF Gone(c) THEN rows ELSE Synced(m.v, m.pair.target, rows, m.rows, D)
  BY <1>0 DEF Sync, SyncPart, SyncedBy
<1>2. /\ at[c] = "sync" /\ m.v \in DOMAIN Schema /\ rows \in [Column -> Row \cup {None}]
      /\ m.rows \in [Column -> Row \cup {None}]
  BY <1>0 DEF Sync, SyncPart, TypeInv, TypeOK, Placed, Memory
<1>3. m.v = schema /\ m.pair = entity /\ Agree(schema, entity, rows, m.rows)
      /\ Brought(schema, entity, rows)
  BY <1>0, <1>2 DEF LockInv, Spares, Settled
<1>4. Synced(schema, entity.target, rows, m.rows, D) = rows
  BY <1>2, <1>3, SyncedKeepsSettled
<1> QED BY <1>1, <1>3, <1>4

\* The run that is inserted locks a plan that is settled.
LEMMA LockBegins ==
  ASSUME TypeInv, AloneInv, AllWork, NEW c \in Client, Insert(c), run = None
  PROVE  LockInv'
<1>1. run'.v1 = mem[c].v1 /\ schema' = schema
  BY DEF Insert
<1>2. mem[c].v1 \in Nat /\ mem[c].v1 <= schema
  BY DEF TypeInv, Placed, Memory
<1>3. ASSUME Locks'
      PROVE  (/\ entity # None /\ entity = run.plan.pair /\ FieldsOf(rows) = run.plan.fields
              /\ PairOf(schema, entity) = entity /\ Settled(schema, entity, rows)
              /\ \A d \in Client : Spares(at[d], mem[d]))'
  <2>1. ~run'.raced /\ run'.v1 = schema
    BY <1>1, <1>3 DEF Locks
  <2>2. /\ entity # None /\ run'.plan = Snapshot(entity, rows)
        /\ run'.v1 <= run'.v /\ run'.v <= schema /\ run'.v = mem[c].v
        /\ run'.v1 = run'.v => PairOf(run'.v, entity) = entity /\ Settled(run'.v, entity, rows)
        /\ Busy = {c}
    BY <2>1, RunStarts
  <2>3. run'.v = schema
    <3>1. mem[c].v \in Nat /\ schema \in Nat
      BY Versions DEF TypeInv, TypeOK, Memory
    <3> QED BY <2>1, <2>2, <3>1
  <2>4. UNCHANGED <<entity, gen, rows>> /\ at' = [at EXCEPT ![c] = "idle"]
    BY DEF Insert, Ends, plan
  <2>5. run'.plan.pair = entity /\ run'.plan.fields = FieldsOf(rows)
    BY <2>2, SnapshotIs
  <2>6. ASSUME NEW d \in Client PROVE Spares(at[d], mem[d])'
    <3>1. at'[d] = "idle"
      BY <2>2, <2>4 DEF Busy, TypeInv
    <3> QED BY <3>1 DEF Spares
  <2> QED BY <1>1, <2>1, <2>2, <2>3, <2>4, <2>5, <2>6
<1> QED BY <1>1, <1>2, <1>3 DEF LockInv

LEMMA LockStep ==
  ASSUME TypeInv, AloneInv, AllWork, LockInv, [Next]_vars
  PROVE  LockInv'
<1>0. schema \in DOMAIN Schema /\ schema \in Nat
  BY Versions DEF TypeInv, TypeOK
<1>1. ASSUME NEW c \in Client, Ask(c) PROVE LockInv'
  <2>1. PICK s, m : Begins(c, s, m) /\ AskedFor(s, m)
    BY <1>1, Asks
  <2>2. /\ at' = [at EXCEPT ![c] = s] /\ mem' = [mem EXCEPT ![c] = m]
        /\ UNCHANGED <<schema, entity, gen, rows, run>>
    BY <2>1, Began
  <2>3. CASE Locks
    <3>1. Spares(s, m)
      BY <2>1, <2>3 DEF AskedFor, Spares, Locks
    <3> QED BY <2>2, <2>3, <3>1, LockMoves
  <2>4. CASE ~Locks
    BY <2>2, <2>4 DEF LockInv, Locks
  <2> QED BY <2>3, <2>4
<1>2. ASSUME NEW c \in Client, GoOn(c) \/ Breaks(c) PROVE LockInv'
  <2>1. PICK s, m : Moved(c, s, m)
    BY <1>2, RunsOn
  <2>2. /\ at' = [at EXCEPT ![c] = s] /\ mem' = [mem EXCEPT ![c] = m] /\ schema' = schema
        /\ at'[c] = s /\ mem'[c] = m /\ mem[c] \in Memory /\ Placed(at[c], mem[c], schema)
    BY <2>1 DEF Moved, TypeInv
  <2>3. CASE run' # run
    BY <1>2, <2>3, RunKept, LockBegins
  <2>4. CASE run' = run /\ ~Locks
    BY <2>2, <2>4 DEF LockInv, Locks
  <2>5. CASE run' = run /\ Locks
    <3>1. /\ entity # None /\ PairOf(schema, entity) = entity /\ Settled(schema, entity, rows)
          /\ Spares(at[c], mem[c])
      BY <2>5 DEF LockInv
    <3>2. ASSUME s \notin {"write", "clear", "describe", "sync"}, UNCHANGED <<entity, gen, rows>>
          PROVE  LockInv'
      <4>1. Spares(s, m)
        BY <3>2 DEF Spares
      <4> QED BY <2>2, <2>5, <3>2, <4>1, LockMoves
    <3>3. CASE WriteField(c) \/ WriteTarget(c)
      BY <3>1, <3>3 DEF WriteField, WriteTarget, Spares
    <3>4. CASE WriteRules(c)
      BY <2>5, <3>4, LockRules
    <3>5. CASE Reload(c)
      <4>1. s = "clear" /\ m.tables = {Home} /\ UNCHANGED <<entity, gen, rows>>
        BY <2>2, <3>1, <3>5 DEF Reload, Goes, TypeInv, Memory, plan
      <4>2. Spares(s, m)
        BY <4>1 DEF Spares
      <4> QED BY <2>2, <2>5, <4>1, <4>2, LockMoves
    <3>6. CASE Clear(c)
      <4>1. mem[c].tables # {}
        BY <3>1, <3>6 DEF Clear, Spares
      <4>2. /\ s = "describe" /\ m.v = schema /\ m.gen = gen /\ m.pair = PairOf(schema, entity)
            /\ UNCHANGED <<entity, gen, rows>>
        BY <2>2, <3>1, <3>6, <4>1, ClearLeaves
      <4>3. Spares(s, m)
        BY <3>1, <4>2 DEF Spares
      <4> QED BY <2>2, <2>5, <4>2, <4>3, LockMoves
    <3>7. CASE Describe(c)
      <4>1. at[c] = "describe" /\ mem[c].v = schema /\ mem[c].pair = entity /\ mem[c].gen = gen
        BY <3>1, <3>7 DEF Describe, Spares
      <4>2. UNCHANGED <<entity, gen, rows>>
        BY <3>1, <3>7, <4>1 DEF Describe
      <4>3. s = "sync" /\ m.v = schema /\ m.pair = entity /\ m.gen = gen /\ m.rows = rows
        BY <2>2, <3>7, <4>1, <4>2, DescribeLeaves
      <4>4. Agree(schema, entity, rows, rows)
        BY <3>1 DEF Agree, Settled
      <4>5. Spares(s, m)
        BY <4>3, <4>4 DEF Spares
      <4> QED BY <2>2, <2>5, <4>2, <4>5, LockMoves
    <3>8. CASE Sync(c) \/ SyncPart(c)
      <4>1. rows' = rows
        BY <2>5, <3>8, LockSynced
      <4>2. s \notin {"write", "clear", "describe", "sync"} /\ UNCHANGED <<entity, gen>>
        BY <2>2, <3>8 DEF Sync, SyncPart, Goes, Ends, TypeInv
      <4> QED BY <3>2, <4>1, <4>2
    <3>9. CASE Breaks(c) \/ WriteOptions(c) \/ Stumble(c) \/ Judge(c) \/ Gate(c)
               \/ Assess(c) \/ Lossy(c) \/ Insert(c) \/ Store(c)
      <4>1. UNCHANGED <<entity, gen, rows>>
        BY <3>9 DEF Breaks, Trouble, WriteOptions, Stumble, Judge, Gate, Assess, Lossy, Insert, Store, plan
      <4>2. Store(c) => Ends(c) \/ Goes(c, "gate") \/ Goes(c, "assess")
        <5>1. mem[c].round \in {0, 1, 2}
          BY <2>2 DEF Placed, Memory
        <5> QED BY <5>1 DEF Store
      <4>3. s \notin {"write", "clear", "describe", "sync"}
        BY <2>2, <3>9, <4>2 DEF Breaks, Trouble, WriteOptions, Revalidates, Stumble, Judge, Gate, Assess,
           Lossy, Insert, Goes, Ends, TypeInv
      <4> QED BY <3>2, <4>1, <4>3
    <3> QED BY <1>2, <3>3, <3>4, <3>5, <3>6, <3>7, <3>8, <3>9 DEF GoOn
  <2> QED BY <2>3, <2>4, <2>5
<1>3. CASE RunEnds
  BY <1>3 DEF RunEnds, LockInv, Locks
<1>4. CASE SchemaChanges
  BY <1>0, <1>4 DEF SchemaChanges, LockInv, Locks
<1>5. CASE UNCHANGED vars
  <2>1. UNCHANGED <<schema, entity, gen, rows, run, at, mem>>
    BY <1>5 DEF vars, plan
  <2> QED BY <2>1 DEF LockInv, Locks, Spares
<1> QED BY <1>1, <1>2, <1>3, <1>4, <1>5 DEF Next

-----------------------------------------------------------------------------
(* What holds of every plan.                                               *)

Inv ==
  /\ TypeInv /\ AloneInv /\ AllWork
  /\ CurrentInv /\ StartedAsChecked /\ LockInv
  /\ \A x \in Column : Standing(x)

LEMMA InvHolds == Spec => []Inv
<1>1. Init => Inv
  <2> SUFFICES ASSUME Init PROVE Inv
    OBVIOUS
  <2>1. TypeInv /\ AloneInv
    BY TypeInit, AloneInit
  <2>2. AllWork
    BY DEF AllWork, Busy, Init
  <2>3. CurrentInv
    BY DEF Init, CurrentInv
  <2>4. StartedAsChecked /\ LockInv
    BY DEF Init, StartedAsChecked, LockInv, Locks
  <2>5. \A x \in Column : Standing(x)
    BY DEF Init, Standing, NoRows
  <2> QED BY <2>1, <2>2, <2>3, <2>4, <2>5 DEF Inv
<1>2. Inv /\ [Next]_vars => Inv'
  <2> SUFFICES ASSUME Inv, [Next]_vars PROVE Inv'
    OBVIOUS
  <2>0. TypeInv /\ AloneInv /\ AllWork
    BY DEF Inv
  <2>1. AloneInv'
    BY <2>0, AloneStep
  <2>2. overlapped' \subseteq Client
    BY <2>1 DEF AloneInv, Busy
  <2>3. TypeInv'
    BY <2>0, <2>2, TypeStep
  <2>4. AllWork' /\ CurrentInv' /\ StartedAsChecked' /\ LockInv'
    BY <2>0, WorkStep, CurrentStep, CheckedStep, LockStep DEF Inv
  <2>5. ASSUME NEW x \in Column PROVE Standing(x)'
    BY <2>0, StandingStep DEF Inv
  <2> QED BY <2>1, <2>3, <2>4, <2>5 DEF Inv
<1> QED BY <1>1, <1>2, PTL DEF Spec

(* A run that started with no other request about carries out what was     *)
(* checked: no blocker, no rule that discards information and nobody       *)
(* accepted, and only columns both sides have, those given rules since     *)
(* they were mapped by themselves excepted.  The gates of startRun look at *)
(* a plan that two rebuilds have changed since the request began.          *)
THEOREM StartsChecked == Spec => []StartedAsChecked
<1>1. Inv => StartedAsChecked
  BY DEF Inv
<1> QED BY <1>1, InvHolds, PTL

(* While a run is active the tables and mappings of its plan are those the *)
(* run carries out, whatever requests rebuild the plan in the meantime.    *)
THEOREM LockedStays == Spec => []LockedPlanStays
<1>1. Inv => LockedPlanStays
  BY DEF Inv, LockInv, Locks, LockedPlanStays
<1> QED BY <1>1, InvHolds, PTL

(* No rebuild undoes what a person decided about a column, whichever other *)
(* requests it meets, breaks with or is cut short by.                      *)
THEOREM DecisionsKept == Spec => []DecisionsStand
<1>1. Inv => DecisionsStand
  <2> SUFFICES ASSUME Inv, NEW x \in Column, decision[x] # None
               PROVE  /\ rows[x] # None /\ rows[x].user
                      /\ [status |-> rows[x].status, target |-> rows[x].target] = decision[x]
    BY DEF DecisionsStand
  <2>1. Carries(rows[x], decision[x])
    BY DEF Inv, Standing
  <2>2. decision[x] \in [status : Statuses, target : Column \cup {None}]
    BY DEF Inv, TypeInv
  <2> QED BY <2>1, <2>2 DEF Carries
<1> QED BY <1>1, InvHolds, PTL

(* Between requests a plan is shown blocked if and only if what it holds   *)
(* is, when the last request neither met another one nor broke and the     *)
(* systems are as it read them.                                            *)
THEOREM IssuesCurrent == Spec => []IssuesAreCurrent
<1>1. Inv => IssuesAreCurrent
  BY DEF Inv, CurrentInv, IssuesAreCurrent, Busy, Quiet
<1> QED BY <1>1, InvHolds, PTL
=============================================================================
