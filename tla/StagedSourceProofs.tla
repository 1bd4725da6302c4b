-------------------------- MODULE StagedSourceProofs --------------------------
(* Proofs about StagedSource, for any files, tables, requests and readers,  *)
(* batch and page sizes, and numbers of imports, removals and faults.       *)
EXTENDS StagedSource, WellFoundedInduction, SequenceTheorems, TLAPS

-----------------------------------------------------------------------------
(* What a file holds.                                                      *)

\* The rows of the first batches, those before position n.
Begun(f, t, n) == {row \in Content(f, t) : row.ordinal < n}

AnyRow == UNION {Content(f, t) : f \in File, t \in Table}

LEMMA Positions ==
  ASSUME NEW f \in File, NEW t \in Table
  PROVE  Len(Keys(f, t)) \in Nat /\ DOMAIN Keys(f, t) = 1..Len(Keys(f, t))
<1>1. PICK S : Keys(f, t) \in Seq(S)
  BY StagedAssumption
<1> QED BY <1>1

LEMMA RowsOfAFile ==
  ASSUME NEW f \in File, NEW t \in Table
  PROVE  /\ \A row \in Content(f, t) :
              row.ordinal \in Nat /\ row.ordinal > 0 /\ row.ordinal <= Len(Keys(f, t))
         /\ \A row, other \in Content(f, t) : row.ordinal = other.ordinal => row = other
         /\ Content(f, t) \subseteq AnyRow
<1>1. ASSUME NEW i \in DOMAIN Keys(f, t)
      PROVE  /\ Row(f, t, i).ordinal = i
             /\ i \in Nat /\ i > 0 /\ i <= Len(Keys(f, t))
  BY Positions DEF Row
<1>2. ASSUME NEW row \in Content(f, t), NEW other \in Content(f, t), row.ordinal = other.ordinal
      PROVE  row = other
  <2>1. PICK i, j \in DOMAIN Keys(f, t) : row = Row(f, t, i) /\ other = Row(f, t, j)
    BY DEF Content
  <2> QED BY <1>1, <1>2, <2>1
<1>3. Content(f, t) \subseteq AnyRow
  BY DEF AnyRow
<1> QED BY <1>1, <1>2, <1>3 DEF Content

\* The batches are the file.
LEMMA Batches ==
  ASSUME NEW f \in File, NEW t \in Table, NEW n \in Nat, n > 0
  PROVE  /\ Begun(f, t, 1) = {}
         /\ Begun(f, t, n) \cup {row \in Content(f, t) : row.ordinal \in n..(n + Batch - 1)}
              = Begun(f, t, n + Batch)
         /\ n > Len(Keys(f, t)) => Begun(f, t, n) = Content(f, t)
<1>1. Begun(f, t, 1) = {}
  BY RowsOfAFile DEF Begun
<1>2. ASSUME NEW row \in Content(f, t)
      PROVE  row.ordinal < n \/ row.ordinal \in n..(n + Batch - 1) <=> row.ordinal < n + Batch
  BY RowsOfAFile, StagedAssumption
<1>3. n > Len(Keys(f, t)) => Begun(f, t, n) = Content(f, t)
  <2> SUFFICES ASSUME n > Len(Keys(f, t)), NEW row \in Content(f, t) PROVE row.ordinal < n
    BY DEF Begun
  <2> QED BY RowsOfAFile, Positions
<1> QED BY <1>1, <1>2, <1>3 DEF Begun

Before == {pair \in Nat \X Nat : pair[1] < pair[2]}

\* Of numbers one is the least; if they have a bound, one is the greatest.
LEMMA Least ==
  ASSUME NEW S \in SUBSET Nat, S # {}
  PROVE  \E m \in S : \A n \in S : m <= n
<1>1. IsWellFoundedOn(Before, Nat)
  BY NatLessThanWellFounded DEF OpToRel, Before
<1>2. PICK m \in S : \A n \in S : <<n, m>> \notin Before
  BY <1>1, WFMin
<1>3. ASSUME NEW n \in S PROVE m <= n
  <2>1. m \in Nat /\ n \in Nat /\ <<n, m>> \in Nat \X Nat /\ ~(n < m)
    BY <1>2 DEF Before
  <2> QED BY <2>1
<1> QED BY <1>3

LEMMA Greatest ==
  ASSUME NEW S \in SUBSET Nat, S # {}, NEW b \in Nat, \A n \in S : n <= b
  PROVE  \E m \in S : \A n \in S : n <= m
<1> DEFINE Bounds == {c \in Nat : \A n \in S : n <= c}
<1>1. b \in Bounds /\ Bounds \in SUBSET Nat
  OBVIOUS
<1>2. PICK m \in Bounds : \A n \in Bounds : m <= n
  <2> HIDE DEF Bounds
  <2> QED BY <1>1, Least
<1>3. m \in S
  <2> SUFFICES ASSUME m \notin S PROVE FALSE
    OBVIOUS
  <2>1. ASSUME NEW n \in S PROVE n < m
    BY <1>2
  <2>2. PICK n \in S : n < m
    BY <2>1
  <2>3. m \in Nat /\ m - 1 \in Nat
    BY <2>2
  <2>4. \A k \in S : k <= m - 1
    BY <2>1, <2>3
  <2> QED BY <1>2, <2>3, <2>4
<1> QED BY <1>2, <1>3

-----------------------------------------------------------------------------
(* Types, and where a request is.                                          *)

Importing == {"clear", "insert", "describe"}
Asking == {"removing", "renaming", "undescribe"}

\* What a request knows at each of its statements.
Placed(c) ==
  /\ at[c] \in Importing => file[c] \in File
  /\ at[c] \in Importing \cup Asking => left[c] # <<>>
  /\ at[c] \in Asking \cup {"idle"} => file[c] = None /\ changed[c] = {}
  /\ at[c] # "insert" => next[c] = 1
  /\ next[c] > 0

\* The rows stored for a table have a last one.
Bounded(t) == \E n \in Nat : \A row \in rows[t] : row.ordinal <= n

TypeInv ==
  /\ TypeOK
  /\ got \in [Reader -> SUBSET AnyRow]
  /\ \A c \in Client : Placed(c)
  /\ \A t \in Table : Bounded(t)

LEMMA Ordinals ==
  /\ AnyRow = UNION {Content(f, t) : f \in File, t \in Table}
  /\ \A row \in AnyRow : row.ordinal \in Nat /\ row.ordinal > 0
  BY RowsOfAFile DEF AnyRow

LEMMA InitTypeInv == Init => TypeInv
<1> SUFFICES ASSUME Init PROVE TypeInv
  OBVIOUS
<1>1. TypeOK
  BY StagedAssumption DEF Init, TypeOK, Place, Writing
<1>2. got \in [Reader -> SUBSET AnyRow] /\ \A c \in Client : Placed(c)
  BY StagedAssumption DEF Init, Placed, Importing, Asking
<1>3. ASSUME NEW t \in Table PROVE Bounded(t)
  BY DEF Init, Bounded
<1> QED BY <1>1, <1>2, <1>3 DEF TypeInv

\* The table at hand, and the ones after it.
LEMMA AtHand ==
  ASSUME TypeInv, NEW c \in Client, at[c] \in Importing \cup Asking
  PROVE  /\ Head(left[c]) \in Table
         /\ Tail(left[c]) \in Seq(Table)
         /\ Len(left[c]) # 1 => Tail(left[c]) # <<>>
<1>1. left[c] \in Seq(Table) /\ left[c] # <<>>
  BY DEF TypeInv, TypeOK, Placed
<1>2. ASSUME Len(left[c]) # 1 PROVE Tail(left[c]) # <<>>
  <2>1. Len(Tail(left[c])) = Len(left[c]) - 1 /\ Len(left[c]) \in Nat
    BY <1>1, HeadTailProperties
  <2>2. Len(Tail(left[c])) # 0
    BY <1>2, <2>1
  <2>3. ASSUME NEW s, s = <<>> PROVE Len(s) = 0
    BY <2>3
  <2> QED BY <2>2, <2>3
<1>3. Head(left[c]) \in Table /\ Tail(left[c]) \in Seq(Table)
  BY <1>1, HeadTailProperties
<1> QED BY <1>2, <1>3

LEMMA DoneKeepsTypes ==
  ASSUME TypeInv, NEW c \in Client, Done(c)
  PROVE  /\ at' \in [Client -> Place] /\ file' \in [Client -> File \cup {None}]
         /\ left' \in [Client -> Seq(Table)] /\ changed' \in [Client -> SUBSET Table]
         /\ next' \in [Client -> Nat]
         /\ \A d \in Client : Placed(d)'
<1>1. /\ at' \in [Client -> Place] /\ file' \in [Client -> File \cup {None}]
      /\ left' \in [Client -> Seq(Table)] /\ changed' \in [Client -> SUBSET Table]
      /\ next' \in [Client -> Nat]
  BY DEF TypeInv, TypeOK, Done, Place
<1>2. ASSUME NEW d \in Client PROVE Placed(d)'
  BY DEF TypeInv, TypeOK, Placed, Done, Importing, Asking
<1> QED BY <1>1, <1>2

\* What a batch adds.
LEMMA BatchIs ==
  ASSUME TypeInv, NEW c \in Client, at[c] = "insert"
  PROVE  /\ file[c] \in File /\ Head(left[c]) \in Table
         /\ BatchOf(c) \subseteq Content(file[c], Head(left[c]))
         /\ \A row \in BatchOf(c) : row.ordinal <= Len(Keys(file[c], Head(left[c])))
         /\ next[c] \in Nat /\ next[c] > 0 /\ next[c] + Batch \in Nat
<1>1. file[c] \in File /\ Head(left[c]) \in Table
  BY AtHand DEF TypeInv, Placed, Importing
<1>2. next[c] \in Nat /\ next[c] > 0 /\ next[c] + Batch \in Nat
  BY StagedAssumption DEF TypeInv, TypeOK, Placed
<1> QED BY <1>1, <1>2, RowsOfAFile DEF BatchOf

LEMMA InsertKeepsTypes ==
  ASSUME TypeInv, NEW c \in Client, Insert(c)
  PROVE  TypeInv'
<1> DEFINE t == Head(left[c])
<1>1. at[c] = "insert" /\ rows' = [rows EXCEPT ![t] = @ \cup BatchOf(c)]
  BY DEF Insert
<1>2. BatchOf(c) \subseteq AnyRow
  BY <1>1, BatchIs, RowsOfAFile
<1>3. rows' \in [Table -> SUBSET AnyRow]
  <2>1. rows \in [Table -> SUBSET AnyRow]
    BY Ordinals DEF TypeInv, TypeOK
  <2> HIDE DEF t
  <2>2. rows[t] \cup BatchOf(c) \in SUBSET AnyRow
    BY <1>1, <1>2, <2>1, BatchIs DEF t
  <2> QED BY <1>1, <2>1, <2>2
<1>4. at' \in [Client -> Place] /\ next' \in [Client -> Nat]
  BY <1>1, BatchIs, StagedAssumption DEF TypeInv, TypeOK, Insert, Place, Writing
<1>5. TypeOK'
  BY <1>3, <1>4, Ordinals DEF TypeInv, TypeOK, Insert, history, reader, bounds
<1>6. ASSUME NEW d \in Client PROVE Placed(d)'
  BY <1>1, BatchIs, StagedAssumption DEF TypeInv, TypeOK, Insert, Placed, Importing, Asking
<1>7. ASSUME NEW u \in Table PROVE Bounded(u)'
  <2>1. PICK n \in Nat : \A row \in rows[u] : row.ordinal <= n
    BY DEF TypeInv, Bounded
  <2>2. rows[u] \subseteq AnyRow
    BY Ordinals DEF TypeInv, TypeOK
  <2>3. Len(Keys(file[c], t)) \in Nat
    BY <1>1, BatchIs, Positions
  <2>4. PICK k \in Nat : k >= n /\ k >= Len(Keys(file[c], t))
    BY <2>3
  <2>5. ASSUME NEW row \in rows'[u] PROVE row.ordinal <= k
    <3>1. row \in rows[u] \/ row \in BatchOf(c)
      BY <1>1 DEF TypeInv, TypeOK
    <3>2. row.ordinal \in Nat
      BY <1>2, <2>2, <3>1, Ordinals
    <3> HIDE DEF t
    <3>3. CASE row \in rows[u]
      BY <2>1, <2>4, <3>2, <3>3
    <3>4. CASE row \in BatchOf(c)
      <4>1. row.ordinal <= Len(Keys(file[c], t))
        BY <1>1, <3>4, BatchIs DEF t
      <4> QED BY <2>3, <2>4, <3>2, <4>1
    <3> QED BY <3>1, <3>3, <3>4
  <2> QED BY <2>5 DEF Bounded
<1>8. got' \in [Reader -> SUBSET AnyRow]
  BY DEF Insert, reader, TypeInv
<1> QED BY <1>5, <1>6, <1>7, <1>8 DEF TypeInv

\* A step that stores no row.
LEMMA NoNewRow ==
  ASSUME TypeInv, TypeOK', got' \in [Reader -> SUBSET AnyRow],
         \A c \in Client : Placed(c)', \A t \in Table : rows'[t] \subseteq rows[t]
  PROVE  TypeInv'
<1>1. ASSUME NEW t \in Table PROVE Bounded(t)'
  BY DEF TypeInv, Bounded
<1> QED BY <1>1 DEF TypeInv

LEMMA ClearKeepsTypes ==
  ASSUME TypeInv, NEW c \in Client, Clear(c) \/ RemoveRows(c)
  PROVE  TypeInv'
<1>1. /\ at[c] \in {"clear", "removing"} /\ Head(left[c]) \in Table
      /\ at' = [at EXCEPT ![c] = IF at[c] = "clear" THEN "insert" ELSE "undescribe"]
      /\ rows' = [rows EXCEPT ![Head(left[c])] = {}]
      /\ torn' \subseteq torn \cup {Head(left[c])}
      /\ disturbed' \subseteq disturbed \cup Reader
      /\ UNCHANGED <<about, cache, file, left, changed, next, fetching, reader, outdated, bounds>>
  BY AtHand DEF Clear, RemoveRows, Empty, Touches, Importing, Asking
<1>2. TypeOK'
  BY <1>1 DEF TypeInv, TypeOK, Place, Writing, reader, bounds
<1>3. ASSUME NEW d \in Client PROVE Placed(d)'
  BY <1>1 DEF TypeInv, TypeOK, Placed, Importing, Asking
<1>4. got' \in [Reader -> SUBSET AnyRow] /\ \A t \in Table : rows'[t] \subseteq rows[t]
  BY <1>1 DEF TypeInv, TypeOK, reader
<1> QED BY <1>2, <1>3, <1>4, NoNewRow

\* The last position of a page is the position of one of its rows.
LEMMA LastOfAPage ==
  ASSUME TypeInv, NEW r \in Reader, reading[r] # None,
         NEW page \in SUBSET Rest(r), page # {}
  PROVE  /\ page \subseteq AnyRow /\ page \subseteq rows[reading[r]]
         /\ Last(page) \in Nat
         /\ \E row \in page : row.ordinal = Last(page)
         /\ \A row \in page : row.ordinal <= Last(page)
<1> DEFINE t == reading[r]
           S == {row.ordinal : row \in page}
<1>1. t \in Table /\ rows[t] \subseteq AnyRow
  BY Ordinals DEF TypeInv, TypeOK
<1>2. page \subseteq rows[t]
  BY DEF Rest
<1>3. S \in SUBSET Nat /\ S # {}
  BY <1>1, <1>2, Ordinals
<1>4. PICK b \in Nat : \A row \in rows[t] : row.ordinal <= b
  BY <1>1 DEF TypeInv, Bounded
<1>5. \A n \in S : n <= b
  BY <1>2, <1>4
<1>6. \E m \in S : \A n \in S : n <= m
  <2> HIDE DEF S
  <2> QED BY <1>3, <1>5, Greatest
<1>7. Last(page) \in S /\ \A row \in page : row.ordinal <= Last(page)
  BY <1>6 DEF Last
<1> QED BY <1>1, <1>2, <1>3, <1>7

LEMMA ReadKeepsTypes ==
  ASSUME TypeInv, NEW r \in Reader, ReadPage(r)
  PROVE  TypeInv'
<1>1. PICK page \in SUBSET Rest(r) :
        /\ page # {}
        /\ got' = [got EXCEPT ![r] = @ \cup page]
        /\ after' = [after EXCEPT ![r] = Last(page)]
  BY DEF ReadPage, After
<1>2. reading[r] # None /\ UNCHANGED <<stored, cache, request, fetching, reading, history, bounds>>
  BY DEF ReadPage
<1>3. Last(page) \in Nat /\ page \subseteq AnyRow
  BY <1>1, <1>2, LastOfAPage
<1>4. got' \in [Reader -> SUBSET AnyRow]
  <2>1. got[r] \cup page \in SUBSET AnyRow
    BY <1>3 DEF TypeInv
  <2> QED BY <1>1, <2>1 DEF TypeInv
<1>5. TypeOK'
  BY <1>1, <1>2, <1>3 DEF TypeInv, TypeOK, stored, request, history, bounds
<1>6. ASSUME NEW c \in Client PROVE Placed(c)'
  BY <1>2 DEF TypeInv, Placed, request
<1>7. \A t \in Table : rows'[t] \subseteq rows[t]
  BY <1>2 DEF stored
<1> QED BY <1>4, <1>5, <1>6, <1>7, NoNewRow

LEMMA DescribeKeepsTypes ==
  ASSUME TypeInv, NEW c \in Client, Describe(c)
  PROVE  TypeInv'
<1> DEFINE t == Head(left[c])
<1>1. /\ at[c] = "describe" /\ file[c] \in File /\ next[c] = 1
      /\ t \in Table /\ Tail(left[c]) \in Seq(Table)
      /\ Len(left[c]) # 1 => Tail(left[c]) # <<>>
  BY AtHand DEF Describe, TypeInv, Placed, Importing
<1>2. /\ about' = [about EXCEPT ![t] = file[c]]
      /\ outdated' \subseteq outdated \cup {t}
      /\ UNCHANGED <<rows, cache, fetching, reading, after, got, torn, disturbed, bounds>>
  BY DEF Describe, reader
<1>3. /\ about' \in [Table -> File \cup {None}] /\ outdated' \subseteq Table
  BY <1>1, <1>2 DEF TypeInv, TypeOK
<1> HIDE DEF t
<1>4. /\ at' \in [Client -> Place] /\ file' \in [Client -> File \cup {None}]
      /\ left' \in [Client -> Seq(Table)] /\ changed' \in [Client -> SUBSET Table]
      /\ next' \in [Client -> Nat]
      /\ \A d \in Client : Placed(d)'
  <2>1. CASE Done(c)
    BY <2>1, DoneKeepsTypes
  <2>2. CASE /\ at' = [at EXCEPT ![c] = IF Len(left[c]) = 1 THEN "forget" ELSE "clear"]
             /\ left' = [left EXCEPT ![c] = Tail(@)]
             /\ changed' = [changed EXCEPT ![c] = @ \cup {t}]
             /\ UNCHANGED <<file, next>>
    <3>1. /\ at' \in [Client -> Place] /\ file' \in [Client -> File \cup {None}]
          /\ left' \in [Client -> Seq(Table)] /\ changed' \in [Client -> SUBSET Table]
          /\ next' \in [Client -> Nat]
      BY <1>1, <2>2 DEF TypeInv, TypeOK, Place, Writing
    <3>2. ASSUME NEW d \in Client PROVE Placed(d)'
      BY <1>1, <2>2 DEF TypeInv, TypeOK, Placed, Importing, Asking
    <3> QED BY <3>1, <3>2
  <2> QED BY <2>1, <2>2 DEF Describe, t
<1>5. TypeOK'
  BY <1>2, <1>3, <1>4 DEF TypeInv, TypeOK, bounds
<1> QED BY <1>2, <1>4, <1>5, NoNewRow DEF TypeInv

LEMMA StepTypeInv == TypeInv /\ [Next]_vars => TypeInv'
<1> SUFFICES ASSUME TypeInv, [Next]_vars PROVE TypeInv'
  OBVIOUS
<1>1. ASSUME NEW c \in Client, Import(c) PROVE TypeInv'
  <2>1. /\ at[c] = "idle" /\ imports < NumFiles /\ at' = [at EXCEPT ![c] = "clear"]
        /\ file' = [file EXCEPT ![c] = imports + 1]
        /\ left' = [left EXCEPT ![c] = Sheets(imports + 1)]
        /\ UNCHANGED <<stored, cache, changed, next, fetching, reader, history>>
        /\ imports' = imports + 1 /\ UNCHANGED <<removals, faults>>
    BY <1>1 DEF Import
  <2>2. imports + 1 \in File /\ Sheets(imports + 1) \in Seq(Table) /\ Sheets(imports + 1) # <<>>
    BY <2>1, StagedAssumption DEF TypeInv, TypeOK, File
  <2>3. imports' \in 0..NumFiles
    BY <2>1, StagedAssumption DEF TypeInv, TypeOK
  <2>5. TypeOK'
    BY <2>1, <2>2, <2>3 DEF TypeInv, TypeOK, Place, stored, reader, history
  <2>4. ASSUME NEW d \in Client PROVE Placed(d)'
    BY <2>1, <2>2 DEF TypeInv, TypeOK, Placed, Importing, Asking
  <2> QED BY <2>1, <2>4, <2>5, NoNewRow DEF TypeInv, stored, reader
<1>2. ASSUME NEW c \in Client, Forget(c) \/ Breaks(c) PROVE TypeInv'
  <2>1. Done(c) /\ UNCHANGED <<stored, fetching, reader, disturbed>>
    BY <1>2 DEF Forget, Breaks
  <2>2. cache' \in [Table -> File \cup {None}]
    BY <1>2 DEF Forget, Breaks, DropAll, TypeInv, TypeOK
  <2>3. torn' \subseteq Table
    BY <1>2, AtHand DEF Forget, Breaks, Writing, Importing, Asking, TypeInv, TypeOK
  <2>4. outdated' \subseteq Table
    BY <1>2 DEF Forget, Breaks, TypeInv, TypeOK
  <2>6. imports' \in 0..NumFiles /\ removals' \in 0..MaxRemovals /\ faults' \in 0..MaxFaults
    BY <1>2, StagedAssumption DEF Forget, Breaks, TypeInv, TypeOK, bounds
  <2>5. TypeOK'
    BY <2>1, <2>2, <2>3, <2>4, <2>6, DoneKeepsTypes DEF TypeInv, TypeOK, stored, reader
  <2> QED BY <2>1, <2>5, DoneKeepsTypes, NoNewRow DEF TypeInv, stored, reader
<1>3. ASSUME NEW c \in Client, NEW t \in Table, AskFor(c, t, "removing") \/ AskFor(c, t, "renaming")
      PROVE  TypeInv'
  <2>1. PICK what \in {"removing", "renaming"} : AskFor(c, t, what)
    BY <1>3
  <2>2. <<t>> \in Seq(Table) /\ <<t>> # <<>>
    OBVIOUS
  <2>3. removals' \in 0..MaxRemovals
    BY <2>1, StagedAssumption DEF AskFor, TypeInv, TypeOK
  <2>4. TypeOK'
    BY <2>1, <2>2, <2>3 DEF AskFor, TypeInv, TypeOK, Place, stored, reader, history
  <2>5. ASSUME NEW d \in Client PROVE Placed(d)'
    BY <2>1, <2>2 DEF AskFor, TypeInv, TypeOK, Placed, Importing, Asking
  <2> QED BY <2>1, <2>4, <2>5, NoNewRow DEF AskFor, TypeInv, stored, reader
<1>4. ASSUME NEW c \in Client, RemoveTable(c) \/ Rename(c) PROVE TypeInv'
  <2>1. /\ at[c] \in {"undescribe", "renaming"} /\ Head(left[c]) \in Table
        /\ at' = [at EXCEPT ![c] = "forget"]
        /\ changed' = [changed EXCEPT ![c] = {Head(left[c])}]
        /\ UNCHANGED <<rows, cache, file, left, next, fetching, reader, history, bounds>>
    BY <1>4, AtHand DEF RemoveTable, Rename, Asking, stored
  <2>2. about' \in [Table -> File \cup {None}]
    <3>1. CASE RemoveTable(c)
      BY <2>1, <3>1 DEF RemoveTable, TypeInv, TypeOK
    <3>2. CASE Rename(c)
      BY <3>2 DEF Rename, stored, TypeInv, TypeOK
    <3> QED BY <1>4, <3>1, <3>2
  <2>3. TypeOK'
    BY <2>1, <2>2 DEF TypeInv, TypeOK, Place, reader, history, bounds
  <2>4. ASSUME NEW d \in Client PROVE Placed(d)'
    BY <2>1 DEF TypeInv, TypeOK, Placed, Importing, Asking
  <2> QED BY <2>1, <2>3, <2>4, NoNewRow DEF TypeInv, reader
<1>5. ASSUME NEW t \in Table, Fetch(t) \/ Expire(t) PROVE TypeInv'
  <2>1. TypeOK'
    <3>1. CASE Fetch(t)
      <4>1. about[t] \in File
        BY <3>1 DEF Fetch, TypeInv, TypeOK
      <4> QED BY <3>1, <4>1 DEF Fetch, TypeInv, TypeOK, stored, request, reader, history, bounds
    <3>2. CASE Expire(t)
      BY <3>2 DEF Expire, TypeInv, TypeOK, stored, request, reader, history, bounds
    <3> QED BY <1>5, <3>1, <3>2
  <2> QED BY <1>5, <2>1, NoNewRow DEF Fetch, Expire, TypeInv, Placed, stored, request, reader
<1>6. ASSUME Keep PROVE TypeInv'
  <2>1. TypeOK'
    BY <1>6 DEF Keep, TypeInv, TypeOK, stored, request, reader, history, bounds
  <2> QED BY <1>6, <2>1, NoNewRow DEF Keep, TypeInv, Placed, stored, request, reader
<1>7. ASSUME NEW r \in Reader, NEW t \in Table, StartRead(r, t) PROVE TypeInv'
  <2>1. TypeOK'
    BY <1>7 DEF StartRead, TypeInv, TypeOK, stored, request, bounds
  <2> QED BY <1>7, <2>1, NoNewRow DEF StartRead, TypeInv, Placed, stored, request
<1>8. ASSUME NEW r \in Reader, EndRead(r) PROVE TypeInv'
  <2>1. TypeOK'
    BY <1>8 DEF EndRead, TypeInv, TypeOK, stored, request, history, bounds
  <2> QED BY <1>8, <2>1, NoNewRow DEF EndRead, TypeInv, Placed, stored, request
<1>9. CASE UNCHANGED vars
  BY <1>9 DEF vars, stored, request, reader, history, bounds, TypeInv, TypeOK, Placed, Bounded
<1> QED
  BY <1>1, <1>2, <1>3, <1>4, <1>5, <1>6, <1>7, <1>8, <1>9, InsertKeepsTypes, ClearKeepsTypes,
     ReadKeepsTypes, DescribeKeepsTypes DEF Next, RequestStep, ReaderStep

(* Every variable keeps its type, and no number of requests, faults and     *)
(* removals passes its bound.                                               *)
THEOREM TypeCorrect == Spec => []TypeOK
<1>1. TypeInv => TypeOK
  BY DEF TypeInv
<1> QED BY <1>1, InitTypeInv, StepTypeInv, PTL DEF Spec

-----------------------------------------------------------------------------
(* What is stored for a table: what its description says, or what the one   *)
(* request that is writing it has written so far.                           *)

Whole(t) == IF about[t] = None THEN {} ELSE Content(about[t], t)

\* What c has written of the table at hand.
Written(c) ==
  LET t == Head(left[c])
  IN /\ at[c] = "insert" => rows[t] = Begun(file[c], t, next[c])
     /\ at[c] = "describe" => rows[t] = Content(file[c], t)
     /\ at[c] = "undescribe" => rows[t] = {}

TableInv(t) ==
  t \notin torn =>
    /\ \A c, d \in WritersOf(t) : c = d
    /\ \A c \in WritersOf(t) : Written(c)
    /\ WritersOf(t) = {} => rows[t] = Whole(t)

\* A step of a request that has nothing to do with the table.
LEMMA OfAnother ==
  ASSUME NEW t \in Table, TableInv(t), NEW c \in Client,
         \A d \in Client \ {c} :
           at'[d] = at[d] /\ left'[d] = left[d] /\ file'[d] = file[d] /\ next'[d] = next[d],
         c \notin WritersOf(t), c \notin WritersOf(t)',
         rows'[t] = rows[t], about'[t] = about[t], t \in torn => t \in torn'
  PROVE  TableInv(t)' /\ WritersOf(t)' = WritersOf(t)
<1>1. WritersOf(t)' = WritersOf(t)
  BY DEF WritersOf
<1>2. ASSUME NEW d \in WritersOf(t), Written(d) PROVE Written(d)'
  <2>1. d \in Client /\ d # c /\ Head(left[d]) = t
    BY DEF WritersOf
  <2> QED BY <1>2, <2>1 DEF Written, Begun
<1> QED BY <1>1, <1>2 DEF TableInv, Whole

\* The request that writes a table nobody else is writing.
LEMMA OfItsWriter ==
  ASSUME NEW t \in Table, NEW c \in Client,
         \A d \in Client \ {c} : at'[d] = at[d] /\ left'[d] = left[d],
         t \notin torn' => WritersOf(t) \subseteq {c},
         t \notin torn' /\ c \in WritersOf(t)' => Written(c)',
         t \notin torn' /\ c \notin WritersOf(t)' => rows'[t] = Whole(t)'
  PROVE  TableInv(t)'
<1> SUFFICES ASSUME t \notin torn' PROVE TableInv(t)'
  BY DEF TableInv
<1>1. WritersOf(t)' \subseteq {c}
  BY DEF WritersOf
<1> QED BY <1>1 DEF TableInv

LEMMA Writers ==
  ASSUME TypeInv, NEW t \in Table, NEW c \in Client
  PROVE  /\ c \in WritersOf(t) <=> at[c] \in Writing /\ Head(left[c]) = t
         /\ c \in WritersOf(t)' <=> at'[c] \in Writing /\ Head(left'[c]) = t
  BY DEF WritersOf

LEMMA ClearStoresTables ==
  ASSUME TypeInv, NEW t \in Table, TableInv(t), NEW c \in Client, Clear(c) \/ RemoveRows(c)
  PROVE  TableInv(t)'
<1> DEFINE h == Head(left[c])
<1>1. /\ at[c] \in {"clear", "removing"} /\ h \in Table
      /\ at' = [at EXCEPT ![c] = IF at[c] = "clear" THEN "insert" ELSE "undescribe"]
      /\ rows' = [rows EXCEPT ![h] = {}]
      /\ Touches(c, h)
      /\ UNCHANGED <<about, cache, file, left, changed, next, fetching, reader, outdated>>
  BY AtHand DEF Clear, RemoveRows, Empty, Importing, Asking
<1>2. at'[c] = IF at[c] = "clear" THEN "insert" ELSE "undescribe"
  BY <1>1 DEF TypeInv, TypeOK
<1>3. \A d \in Client \ {c} : at'[d] = at[d]
  BY <1>1 DEF TypeInv, TypeOK
<1>4. CASE t = h
  <2>1. WritersOf(t) \subseteq {c} \/ t \in torn'
    BY <1>1, <1>4 DEF Touches
  <2>2. c \in WritersOf(t)'
    BY <1>1, <1>2, <1>4 DEF WritersOf, Writing
  <2>3. rows'[t] = {} /\ next'[c] = 1
    BY <1>1, <1>4 DEF TypeInv, TypeOK, Placed
  <2>4. at[c] = "clear" => file'[c] \in File
    BY <1>1 DEF TypeInv, Placed, Importing
  <2>5. Written(c)'
    <3>1. at[c] = "clear" => rows'[t] = Begun(file'[c], t, next'[c])
      BY <2>3, <2>4, Batches
    <3>2. Head(left'[c]) = t
      BY <1>1, <1>4
    <3> HIDE DEF h
    <3> QED BY <1>2, <2>3, <3>1, <3>2 DEF Written
  <2>6. \A d \in Client \ {c} : at'[d] = at[d] /\ left'[d] = left[d]
    BY <1>1, <1>3
  <2>7. t \notin torn' => WritersOf(t) \subseteq {c}
    BY <2>1
  <2> HIDE DEF h
  <2> QED BY <2>2, <2>5, <2>6, <2>7, OfItsWriter
<1>5. CASE t # h
  <2>1. rows'[t] = rows[t] /\ (t \in torn => t \in torn')
    BY <1>1, <1>5 DEF Touches, TypeInv, TypeOK
  <2>2. c \notin WritersOf(t) /\ c \notin WritersOf(t)'
    BY <1>1, <1>2, <1>5 DEF WritersOf, Writing
  <2> QED BY <1>1, <1>3, <2>1, <2>2, OfAnother
<1> QED BY <1>4, <1>5

LEMMA InsertStoresTables ==
  ASSUME TypeInv, NEW t \in Table, TableInv(t), NEW c \in Client, Insert(c)
  PROVE  TableInv(t)'
<1> DEFINE h == Head(left[c])
           end == next[c] + Batch > Len(Keys(file[c], h))
<1>1. /\ at[c] = "insert"
      /\ rows' = [rows EXCEPT ![h] = @ \cup BatchOf(c)]
      /\ next' = [next EXCEPT ![c] = IF end THEN 1 ELSE @ + Batch]
      /\ at' = [at EXCEPT ![c] = IF end THEN "describe" ELSE "insert"]
      /\ UNCHANGED <<about, file, left, torn>>
  BY DEF Insert, history
<1>2. /\ h \in Table /\ file[c] \in File
      /\ next[c] \in Nat /\ next[c] > 0 /\ next[c] + Batch \in Nat /\ next[c] + Batch > 0
  BY <1>1, BatchIs, StagedAssumption
<1>3. /\ at'[c] = IF end THEN "describe" ELSE "insert"
      /\ next'[c] = IF end THEN 1 ELSE next[c] + Batch
      /\ rows'[h] = rows[h] \cup BatchOf(c)
  BY <1>1, <1>2 DEF TypeInv, TypeOK
<1>4. \A d \in Client \ {c} : at'[d] = at[d] /\ next'[d] = next[d]
  BY <1>1 DEF TypeInv, TypeOK
<1>5. CASE t = h
  <2>1. c \in WritersOf(t) /\ c \in WritersOf(t)'
    BY <1>1, <1>3, <1>5 DEF WritersOf, Writing
  <2>2. t \notin torn' => WritersOf(t) \subseteq {c}
    BY <1>1, <2>1 DEF TableInv
  <2>3. ASSUME t \notin torn' PROVE Written(c)'
    <3>1. rows[t] = Begun(file[c], t, next[c])
      BY <1>1, <1>5, <2>1, <2>3 DEF TableInv, Written
    <3>2. rows'[t] = Begun(file[c], t, next[c] + Batch)
      <4>1. BatchOf(c) = {row \in Content(file[c], t) : row.ordinal \in next[c]..(next[c] + Batch - 1)}
        BY <1>5 DEF BatchOf
      <4>2. rows'[t] = rows[t] \cup BatchOf(c)
        BY <1>3, <1>5
      <4> HIDE DEF h, end
      <4> QED BY <1>2, <3>1, <4>1, <4>2, Batches
    <3>3. end => rows'[t] = Content(file[c], t)
      BY <1>2, <1>5, <3>2, Batches
    <3> QED BY <1>1, <1>3, <1>5, <3>2, <3>3 DEF Written
  <2>4. \A d \in Client \ {c} : at'[d] = at[d] /\ left'[d] = left[d]
    BY <1>1, <1>4
  <2> HIDE DEF h
  <2> QED BY <2>1, <2>2, <2>3, <2>4, OfItsWriter
<1>6. CASE t # h
  <2>1. rows'[t] = rows[t]
    BY <1>1, <1>6 DEF TypeInv, TypeOK
  <2>2. c \notin WritersOf(t) /\ c \notin WritersOf(t)'
    BY <1>1, <1>6 DEF WritersOf
  <2> QED BY <1>1, <1>4, <2>1, <2>2, OfAnother
<1> QED BY <1>5, <1>6

\* A request that writes no more: what it wrote is described, or torn.
LEMMA StopsWriting ==
  ASSUME TypeInv, NEW t \in Table, TableInv(t), NEW c \in Client,
         at'[c] \notin Writing,
         \A d \in Client \ {c} :
           at'[d] = at[d] /\ left'[d] = left[d] /\ file'[d] = file[d] /\ next'[d] = next[d],
         rows'[t] = rows[t], t \in torn => t \in torn',
         c \notin WritersOf(t) => about'[t] = about[t],
         c \in WritersOf(t) /\ t \notin torn' => rows[t] = Whole(t)'
  PROVE  TableInv(t)'
<1>1. c \notin WritersOf(t)'
  BY Writers
<1>2. CASE c \notin WritersOf(t)
  BY <1>1, <1>2, OfAnother
<1>3. CASE c \in WritersOf(t)
  <2>1. t \notin torn' => WritersOf(t) \subseteq {c}
    BY <1>3 DEF TableInv
  <2>2. \A d \in Client \ {c} : at'[d] = at[d] /\ left'[d] = left[d]
    OBVIOUS
  <2>3. t \notin torn' /\ c \notin WritersOf(t)' => rows'[t] = Whole(t)'
    BY <1>3
  <2> QED BY <1>1, <2>1, <2>2, <2>3, OfItsWriter
<1> QED BY <1>2, <1>3

LEMMA DoneIs ==
  ASSUME TypeInv, NEW c \in Client, Done(c)
  PROVE  /\ at'[c] = "idle" /\ file'[c] = None /\ changed'[c] = {}
         /\ \A d \in Client \ {c} :
              /\ at'[d] = at[d] /\ left'[d] = left[d] /\ file'[d] = file[d]
              /\ next'[d] = next[d] /\ changed'[d] = changed[d]
  BY DEF Done, TypeInv, TypeOK

LEMMA DescribeIs ==
  ASSUME TypeInv, NEW c \in Client, Describe(c)
  PROVE  /\ at[c] = "describe" /\ Head(left[c]) \in Table /\ file[c] \in File /\ file[c] # None
         /\ about' = [about EXCEPT ![Head(left[c])] = file[c]]
         /\ at'[c] \in {"idle", "forget", "clear"}
         /\ \A d \in Client \ {c} :
              /\ at'[d] = at[d] /\ left'[d] = left[d] /\ file'[d] = file[d]
              /\ next'[d] = next[d] /\ changed'[d] = changed[d]
         /\ \/ Done(c) /\ file[c] \in List
            \/ file'[c] = file[c] /\ changed'[c] = changed[c] \cup {Head(left[c])}
         /\ UNCHANGED <<rows, cache, fetching, reading, after, got, torn, disturbed>>
<1>1. at[c] = "describe" /\ about' = [about EXCEPT ![Head(left[c])] = file[c]]
      /\ UNCHANGED <<rows, cache, fetching, reading, after, got, torn, disturbed>>
  BY DEF Describe, reader
<1>2. Head(left[c]) \in Table /\ file[c] \in File /\ file[c] # None
  BY <1>1, AtHand, StagedAssumption DEF TypeInv, Placed, Importing
<1>3. CASE Done(c) /\ file[c] \in List
  BY <1>1, <1>2, <1>3, DoneIs
<1>4. CASE /\ at' = [at EXCEPT ![c] = IF Len(left[c]) = 1 THEN "forget" ELSE "clear"]
           /\ left' = [left EXCEPT ![c] = Tail(@)]
           /\ changed' = [changed EXCEPT ![c] = @ \cup {Head(left[c])}]
           /\ UNCHANGED <<file, next>>
  BY <1>1, <1>2, <1>4 DEF TypeInv, TypeOK
<1> QED BY <1>3, <1>4 DEF Describe

LEMMA DescribeStoresTables ==
  ASSUME TypeInv, NEW t \in Table, TableInv(t), NEW c \in Client, Describe(c)
  PROVE  TableInv(t)'
<1> DEFINE h == Head(left[c])
<1>1. /\ at[c] = "describe" /\ h \in Table /\ file[c] # None
      /\ about' = [about EXCEPT ![h] = file[c]]
      /\ at'[c] \notin Writing
      /\ \A d \in Client \ {c} :
           at'[d] = at[d] /\ left'[d] = left[d] /\ file'[d] = file[d] /\ next'[d] = next[d]
      /\ UNCHANGED <<rows, torn>>
  BY DescribeIs DEF Writing
<1>2. c \notin WritersOf(t) => about'[t] = about[t]
  BY <1>1, Writers DEF TypeInv, TypeOK, Writing
<1>3. ASSUME c \in WritersOf(t), t \notin torn' PROVE rows[t] = Whole(t)'
  <2>1. t = h
    BY <1>3, Writers
  <2>2. rows[t] = Content(file[c], t)
    BY <1>1, <1>3, <2>1 DEF TableInv, Written
  <2>3. about'[t] = file[c]
    BY <1>1, <2>1 DEF TypeInv, TypeOK
  <2> QED BY <1>1, <2>2, <2>3 DEF Whole
<1> HIDE DEF h
<1> QED BY <1>1, <1>2, <1>3, StopsWriting

LEMMA RemoveStoresTables ==
  ASSUME TypeInv, NEW t \in Table, TableInv(t), NEW c \in Client, RemoveTable(c)
  PROVE  TableInv(t)'
<1> DEFINE h == Head(left[c])
<1>1. /\ at[c] = "undescribe" /\ h \in Table
      /\ about' = [about EXCEPT ![h] = None]
      /\ at'[c] \notin Writing
      /\ \A d \in Client \ {c} :
           at'[d] = at[d] /\ left'[d] = left[d] /\ file'[d] = file[d] /\ next'[d] = next[d]
      /\ UNCHANGED <<rows, torn>>
  BY AtHand DEF RemoveTable, Asking, Writing, TypeInv, TypeOK, history
<1>2. c \notin WritersOf(t) => about'[t] = about[t]
  BY <1>1, Writers DEF TypeInv, TypeOK, Writing
<1>3. ASSUME c \in WritersOf(t), t \notin torn' PROVE rows[t] = Whole(t)'
  <2>1. t = h
    BY <1>3, Writers
  <2>2. rows[t] = {}
    BY <1>1, <1>3, <2>1 DEF TableInv, Written
  <2>3. about'[t] = None
    BY <1>1, <2>1 DEF TypeInv, TypeOK
  <2> QED BY <2>2, <2>3 DEF Whole
<1> HIDE DEF h
<1> QED BY <1>1, <1>2, <1>3, StopsWriting

LEMMA EndStoresTables ==
  ASSUME TypeInv, NEW t \in Table, TableInv(t), NEW c \in Client, Forget(c) \/ Breaks(c)
  PROVE  TableInv(t)'
<1>1. Done(c) /\ UNCHANGED stored
  BY DEF Forget, Breaks
<1>2. c \in WritersOf(t) => t \in torn'
  BY Writers DEF Forget, Breaks, Writing
<1>3. t \in torn => t \in torn'
  BY DEF Forget, Breaks
<1>4. at'[c] \notin Writing
  BY <1>1, DoneIs DEF Writing
<1>5. \A d \in Client \ {c} :
        at'[d] = at[d] /\ left'[d] = left[d] /\ file'[d] = file[d] /\ next'[d] = next[d]
  BY <1>1, DoneIs
<1>6. rows'[t] = rows[t] /\ about'[t] = about[t]
  BY <1>1 DEF stored
<1> QED BY <1>2, <1>3, <1>4, <1>5, <1>6, StopsWriting

LEMMA StepTableInv ==
  ASSUME TypeInv, NEW t \in Table, TableInv(t), [Next]_vars
  PROVE  TableInv(t)'
<1>1. ASSUME NEW c \in Client, Import(c) \/ Rename(c) PROVE TableInv(t)'
  <2>1. /\ at[c] \notin Writing /\ at'[c] \notin Writing
        /\ \A d \in Client \ {c} :
             at'[d] = at[d] /\ left'[d] = left[d] /\ file'[d] = file[d] /\ next'[d] = next[d]
        /\ UNCHANGED <<rows, about, torn>>
    BY <1>1 DEF Import, Rename, Writing, stored, history, TypeInv, TypeOK
  <2>2. c \notin WritersOf(t)
    BY <2>1, Writers
  <2> QED BY <2>1, <2>2, StopsWriting
<1>2. ASSUME NEW c \in Client, NEW u \in Table, AskFor(c, u, "removing") \/ AskFor(c, u, "renaming")
      PROVE  TableInv(t)'
  <2>1. /\ at[c] \notin Writing /\ at'[c] \notin Writing
        /\ \A d \in Client \ {c} :
             at'[d] = at[d] /\ left'[d] = left[d] /\ file'[d] = file[d] /\ next'[d] = next[d]
        /\ UNCHANGED <<rows, about, torn>>
    BY <1>2 DEF AskFor, Writing, stored, history, TypeInv, TypeOK
  <2>2. c \notin WritersOf(t)
    BY <2>1, Writers
  <2> QED BY <2>1, <2>2, StopsWriting
<1>3. CASE UNCHANGED <<stored, request, torn>>
  BY <1>3 DEF stored, request, TableInv, WritersOf, Written, Whole, Begun
<1>4. ASSUME NEW r \in Reader, ReaderStep(r) PROVE UNCHANGED <<stored, request, torn>>
  BY <1>4 DEF ReaderStep, StartRead, ReadPage, EndRead, history
<1>5. ASSUME (\E u \in Table : Fetch(u) \/ Expire(u)) \/ Keep PROVE UNCHANGED <<stored, request, torn>>
  BY <1>5 DEF Fetch, Expire, Keep, history
<1>6. UNCHANGED vars => UNCHANGED <<stored, request, torn>>
  BY DEF vars, history
<1> QED
  BY <1>1, <1>2, <1>3, <1>4, <1>5, <1>6, ClearStoresTables, InsertStoresTables, DescribeStoresTables,
     RemoveStoresTables, EndStoresTables DEF Next, RequestStep

-----------------------------------------------------------------------------
(* The cache of descriptions.                                              *)

\* Tables whose description may not be what the cache holds.  The import of a
\* list has said so itself, and is not waited for.
Stale(t) == t \in outdated \/ \E c \in Client : file[c] \notin List /\ t \in changed[c]

CacheInv(t) ==
  ~ Stale(t) =>
    /\ cache[t] \in {None, about[t]}
    /\ fetching # None /\ fetching.table = t => fetching.file = about[t]

\* A step that changes neither the description nor the cache.
LEMMA NotDescribed ==
  ASSUME NEW t \in Table, CacheInv(t), Stale(t) => Stale(t)',
         cache'[t] = cache[t], about'[t] = about[t], fetching' = fetching
  PROVE  CacheInv(t)'
  BY DEF CacheInv

LEMMA ForgetKeepsCache ==
  ASSUME TypeInv, NEW t \in Table, CacheInv(t), NEW c \in Client, Forget(c)
  PROVE  CacheInv(t)'
<1>1. cache'[t] = None /\ fetching' = fetching
  BY DEF Forget, DropAll
<1>2. ~ Stale(t)' => fetching = None \/ fetching.table # t
  BY DEF Forget, Stale
<1> QED BY <1>1, <1>2 DEF CacheInv

LEMMA DescribeKeepsCache ==
  ASSUME TypeInv, NEW t \in Table, CacheInv(t), NEW c \in Client, Describe(c)
  PROVE  CacheInv(t)'
<1>1. outdated' = IF file[c] \in List THEN outdated \cup {Head(left[c])} ELSE outdated
  BY DEF Describe
<1>2. Head(left[c]) = t => Stale(t)'
  BY <1>1, DescribeIs DEF Stale
<1>3. Head(left[c]) # t => about'[t] = about[t]
  BY DescribeIs DEF TypeInv, TypeOK
<1>4. Stale(t) => Stale(t)'
  <2>1. t \in outdated => Stale(t)'
    BY <1>1 DEF Stale
  <2>2. ASSUME NEW d \in Client, file[d] \notin List, t \in changed[d] PROVE Stale(t)'
    <3>1. CASE d = c
      BY <2>2, <3>1, DescribeIs DEF Stale
    <3>2. CASE d # c
      BY <2>2, <3>2, DescribeIs DEF Stale
    <3> QED BY <3>1, <3>2
  <2> QED BY <2>1, <2>2 DEF Stale
<1>5. cache' = cache /\ fetching' = fetching
  BY DescribeIs
<1> QED BY <1>2, <1>3, <1>4, <1>5, NotDescribed DEF CacheInv

LEMMA BreaksKeepsCache ==
  ASSUME TypeInv, NEW t \in Table, CacheInv(t), NEW c \in Client, Breaks(c)
  PROVE  CacheInv(t)'
<1>1. Done(c) /\ outdated' = outdated \cup changed[c] /\ UNCHANGED <<stored, cache, fetching>>
  BY DEF Breaks
<1>2. ASSUME NEW d \in Client, file[d] \notin List, t \in changed[d] PROVE Stale(t)'
  BY <1>1, <1>2, DoneIs DEF Stale
<1>3. Stale(t) => Stale(t)'
  BY <1>1, <1>2 DEF Stale
<1> QED BY <1>1, <1>3, NotDescribed DEF stored

\* The other statements of a request: only those after which a request owes
\* the cache something change a description.
LEMMA RequestKeepsCache ==
  ASSUME TypeInv, NEW t \in Table, CacheInv(t), NEW c \in Client,
         \/ Import(c) \/ Clear(c) \/ Insert(c) \/ RemoveRows(c) \/ RemoveTable(c) \/ Rename(c)
         \/ \E u \in Table : AskFor(c, u, "removing") \/ AskFor(c, u, "renaming")
  PROVE  CacheInv(t)'
<1>1. CASE UNCHANGED <<about, cache, fetching, file, changed, outdated>>
  BY <1>1, NotDescribed DEF Stale
<1>2. Clear(c) \/ Insert(c) \/ RemoveRows(c)
        => UNCHANGED <<about, cache, fetching, file, changed, outdated>>
  BY DEF Clear, Insert, RemoveRows, history
<1>3. (\E u \in Table : AskFor(c, u, "removing") \/ AskFor(c, u, "renaming"))
        => UNCHANGED <<about, cache, fetching, file, changed, outdated>>
  BY DEF AskFor, stored, history
<1>4. ASSUME Import(c) \/ RemoveTable(c) \/ Rename(c), Stale(t) PROVE Stale(t)'
  <2>1. changed[c] = {}
    BY <1>4 DEF Import, RemoveTable, Rename, TypeInv, Placed, Asking
  <2>2. \A d \in Client \ {c} : file'[d] = file[d] /\ changed'[d] = changed[d]
    BY <1>4 DEF Import, RemoveTable, Rename, TypeInv, TypeOK
  <2>3. outdated' = outdated
    BY <1>4 DEF Import, RemoveTable, Rename, history
  <2> QED BY <1>4, <2>1, <2>2, <2>3 DEF Stale
<1>5. CASE Import(c) \/ Rename(c)
  BY <1>4, <1>5, NotDescribed DEF Import, Rename, stored
<1>6. CASE RemoveTable(c)
  <2>1. Head(left[c]) # t => about'[t] = about[t]
    BY <1>6, AtHand DEF RemoveTable, Asking, TypeInv, TypeOK
  <2>2. Head(left[c]) = t => Stale(t)'
    <3>1. t \in changed'[c] \/ Head(left[c]) # t
      BY <1>6 DEF RemoveTable, TypeInv, TypeOK
    <3>2. file'[c] = None /\ None \notin List
      BY <1>6, StagedAssumption DEF RemoveTable, TypeInv, Placed, Asking
    <3> QED BY <3>1, <3>2 DEF Stale
  <2>3. cache' = cache /\ fetching' = fetching
    BY <1>6 DEF RemoveTable
  <2> QED BY <1>4, <1>6, <2>1, <2>2, <2>3, NotDescribed DEF CacheInv
<1> QED BY <1>1, <1>2, <1>3, <1>5, <1>6

LEMMA StepCacheInv ==
  ASSUME TypeInv, NEW t \in Table, CacheInv(t), [Next]_vars
  PROVE  CacheInv(t)'
<1>1. ASSUME NEW u \in Table, Fetch(u) PROVE CacheInv(t)'
  <2>1. fetching' = [table |-> u, file |-> about[u]] /\ UNCHANGED <<stored, cache, request, history>>
    BY <1>1 DEF Fetch
  <2> QED BY <2>1 DEF CacheInv, Stale, stored, request, history
<1>2. ASSUME Keep PROVE CacheInv(t)'
  <2>1. /\ fetching # None /\ fetching' = None
        /\ cache' = [cache EXCEPT ![fetching.table] = fetching.file]
        /\ UNCHANGED <<stored, request, history>>
    BY <1>2 DEF Keep
  <2>2. ~ Stale(t) => cache'[t] \in {None, about[t]}
    BY <2>1 DEF CacheInv, TypeInv, TypeOK
  <2> QED BY <2>1, <2>2 DEF CacheInv, Stale, stored, request, history
<1>3. ASSUME NEW u \in Table, Expire(u) PROVE CacheInv(t)'
  <2>1. cache'[t] \in {None, cache[t]}
    BY <1>3 DEF Expire, TypeInv, TypeOK
  <2> QED BY <1>3, <2>1 DEF Expire, CacheInv, Stale, stored, request, history
<1>4. CASE UNCHANGED <<about, cache, fetching, file, changed, outdated>>
  BY <1>4, NotDescribed DEF Stale
<1>5. ASSUME NEW r \in Reader, ReaderStep(r)
      PROVE  UNCHANGED <<about, cache, fetching, file, changed, outdated>>
  BY <1>5 DEF ReaderStep, StartRead, ReadPage, EndRead, stored, request, history
<1>6. UNCHANGED vars => UNCHANGED <<about, cache, fetching, file, changed, outdated>>
  BY DEF vars, stored, request, history
<1> QED
  BY <1>1, <1>2, <1>3, <1>4, <1>5, <1>6, ForgetKeepsCache, DescribeKeepsCache, BreaksKeepsCache,
     RequestKeepsCache DEF Next, RequestStep

-----------------------------------------------------------------------------
(* A reader whose table nobody has written has read its first rows, and in  *)
(* the end all of them.                                                     *)

\* Nobody is writing t, and nobody left it half-way.
Quiet(t) == WritersOf(t) = {} /\ t \notin torn

ReadInv(r) ==
  /\ got[r] = {} => after[r] = 0
  /\ r \notin disturbed /\ reading[r] # None =>
       /\ Quiet(reading[r]) /\ about[reading[r]] # None
       /\ got[r] = {row \in rows[reading[r]] : row.ordinal <= after[r]}
  /\ r \notin disturbed /\ reading[r] = None /\ got[r] # {} =>
       \E f \in File, t \in Table : got[r] = Content(f, t)

\* A request leaves a quiet table as it is, or disturbs who reads it.
LEMMA QuietTables ==
  ASSUME TypeInv, NEW t \in Table, Quiet(t), NEW c \in Client, RequestStep(c)
  PROVE  \/ \A r \in Reader : reading[r] = t => r \in disturbed'
         \/ Quiet(t)' /\ rows'[t] = rows[t] /\ about'[t] = about[t]
<1>1. c \notin WritersOf(t) /\ (at[c] \in Writing => Head(left[c]) # t)
  BY DEF Quiet, WritersOf
<1>2. ASSUME \A d \in Client \ {c} : at'[d] = at[d] /\ left'[d] = left[d],
             at'[c] \in Writing => Head(left'[c]) # t
      PROVE  WritersOf(t)' = {}
  BY <1>2 DEF Quiet, WritersOf
<1>3. CASE Clear(c) \/ RemoveRows(c)
  <2>1. /\ at[c] \in {"clear", "removing"} /\ Head(left[c]) \in Table
        /\ rows' = [rows EXCEPT ![Head(left[c])] = {}]
        /\ Touches(c, Head(left[c])) /\ UNCHANGED <<about, left>>
        /\ \A d \in Client \ {c} : at'[d] = at[d]
    BY <1>3, AtHand DEF Clear, RemoveRows, Empty, Importing, Asking, TypeInv, TypeOK
  <2>2. CASE Head(left[c]) = t
    BY <2>1, <2>2 DEF Touches
  <2>3. CASE Head(left[c]) # t
    <3>1. t \notin torn' /\ rows'[t] = rows[t] /\ about'[t] = about[t]
      BY <2>1, <2>3 DEF Touches, Quiet, TypeInv, TypeOK
    <3>2. WritersOf(t)' = {}
      BY <1>2, <2>1, <2>3
    <3> QED BY <3>1, <3>2 DEF Quiet
  <2> QED BY <2>2, <2>3
<1>4. CASE Insert(c)
  <2>1. /\ Head(left[c]) # t /\ UNCHANGED <<about, left, torn>>
        /\ rows' = [rows EXCEPT ![Head(left[c])] = @ \cup BatchOf(c)]
        /\ \A d \in Client \ {c} : at'[d] = at[d]
    BY <1>1, <1>4 DEF Insert, Writing, history, TypeInv, TypeOK
  <2>2. WritersOf(t)' = {}
    BY <1>2, <2>1
  <2>3. rows'[t] = rows[t]
    BY <2>1 DEF TypeInv, TypeOK
  <2> QED BY <2>1, <2>2, <2>3 DEF Quiet
<1>5. CASE Describe(c)
  <2>1. Head(left[c]) # t
    BY <1>1, <1>5, DescribeIs DEF Writing
  <2>2. about'[t] = about[t] /\ UNCHANGED <<rows, torn>>
    BY <1>5, <2>1, DescribeIs DEF TypeInv, TypeOK
  <2>3. WritersOf(t)' = {}
    BY <1>2, <1>5, DescribeIs DEF Writing
  <2> QED BY <2>2, <2>3 DEF Quiet
<1>6. CASE Forget(c) \/ Breaks(c)
  <2>1. Done(c) /\ UNCHANGED stored /\ t \notin torn'
    BY <1>1, <1>6 DEF Forget, Breaks, Quiet
  <2>2. WritersOf(t)' = {}
    BY <1>2, <2>1, DoneIs DEF Writing
  <2> QED BY <2>1, <2>2 DEF Quiet, stored
<1>7. CASE RemoveTable(c)
  <2>1. /\ Head(left[c]) # t /\ UNCHANGED <<rows, torn>>
        /\ about' = [about EXCEPT ![Head(left[c])] = None]
        /\ \A d \in Client \ {c} : at'[d] = at[d] /\ left'[d] = left[d]
        /\ at'[c] \notin Writing
    BY <1>1, <1>7 DEF RemoveTable, Writing, history, TypeInv, TypeOK
  <2>2. WritersOf(t)' = {}
    BY <1>2, <2>1
  <2>3. about'[t] = about[t]
    BY <2>1 DEF TypeInv, TypeOK
  <2> QED BY <2>1, <2>2, <2>3 DEF Quiet
<1>8. CASE \/ Import(c) \/ Rename(c)
           \/ \E u \in Table : AskFor(c, u, "removing") \/ AskFor(c, u, "renaming")
  <2>1. /\ UNCHANGED <<rows, about, torn>> /\ at'[c] \notin Writing
        /\ \A d \in Client \ {c} : at'[d] = at[d] /\ left'[d] = left[d]
    BY <1>8 DEF Import, Rename, AskFor, Writing, stored, history, TypeInv, TypeOK
  <2>2. WritersOf(t)' = {}
    BY <1>2, <2>1
  <2> QED BY <2>1, <2>2 DEF Quiet
<1> QED BY <1>3, <1>4, <1>5, <1>6, <1>7, <1>8 DEF RequestStep

LEMMA RequestsAndReaders ==
  ASSUME NEW c \in Client, RequestStep(c)
  PROVE  UNCHANGED reader /\ disturbed \subseteq disturbed'
  BY DEF RequestStep, Import, Clear, Insert, Describe, Forget, Breaks, RemoveRows, RemoveTable,
         Rename, AskFor, Touches, history

\* Keyset paging: the next page begins where the last one ended.
LEMMA NextPage ==
  ASSUME TypeInv, \A t \in Table : TableInv(t), NEW r \in Reader, ReadInv(r), ReadPage(r)
  PROVE  ReadInv(r)'
<1> DEFINE t == reading[r]
<1>1. PICK page \in SUBSET Rest(r) :
        /\ page # {} /\ IsPage(r, page)
        /\ got' = [got EXCEPT ![r] = @ \cup page]
        /\ after' = [after EXCEPT ![r] = Last(page)]
  BY DEF ReadPage, After
<1>2. t # None /\ t \in Table /\ UNCHANGED <<stored, request, reading, history>>
  BY DEF ReadPage, TypeInv, TypeOK
<1>3. got'[r] = got[r] \cup page /\ after'[r] = Last(page) /\ got'[r] # {}
  BY <1>1 DEF TypeInv, TypeOK
<1>4. ASSUME r \notin disturbed'
      PROVE  got'[r] = {row \in rows[t] : row.ordinal <= Last(page)}
  <2>1. /\ Quiet(t) /\ about[t] # None
        /\ got[r] = {row \in rows[t] : row.ordinal <= after[r]}
    BY <1>2, <1>4 DEF ReadInv, history
  <2>2. /\ page \subseteq rows[t] /\ Last(page) \in Nat
        /\ \A row \in page : row.ordinal <= Last(page)
    BY <1>1, <1>2, LastOfAPage
  <2>3. PICK final \in page : final.ordinal = Last(page)
    BY <1>1, <1>2, LastOfAPage
  <2>4. after[r] \in Nat /\ \A row \in rows[t] : row.ordinal \in Nat
    BY <1>2, Ordinals DEF TypeInv, TypeOK
  <2>5. \A row \in page : row.ordinal > after[r]
    BY DEF Rest
  <2>6. after[r] < Last(page)
    BY <2>3, <2>5
  <2>7. ASSUME NEW row \in got[r] \cup page PROVE row \in rows[t] /\ row.ordinal <= Last(page)
    <3>1. CASE row \in got[r]
      BY <2>1, <2>2, <2>4, <2>6, <3>1
    <3>2. CASE row \in page
      BY <2>2, <3>2
    <3> QED BY <3>1, <3>2
  <2>8. ASSUME NEW row \in rows[t], row.ordinal <= Last(page), row \notin got[r] PROVE row \in page
    <3> SUFFICES ASSUME row \notin page PROVE FALSE
      OBVIOUS
    <3>1. row \in Rest(r)
      BY <2>1, <2>4, <2>8 DEF Rest
    <3>2. final.ordinal <= row.ordinal
      BY <1>1, <3>1 DEF IsPage
    <3>3. final.ordinal = row.ordinal
      BY <2>2, <2>3, <2>4, <2>8, <3>2
    <3>4. final = row
      <4>1. rows[t] = Content(about[t], t) /\ about[t] \in File
        BY <1>2, <2>1 DEF Quiet, TableInv, Whole, TypeInv, TypeOK
      <4> QED BY <1>2, <2>2, <3>3, <4>1, RowsOfAFile
    <3> QED BY <3>4
  <2> QED BY <1>3, <2>7, <2>8
<1> QED BY <1>2, <1>3, <1>4 DEF ReadInv, Quiet, WritersOf, stored, request, history

LEMMA OtherReaders ==
  ASSUME NEW r \in Reader, ReadInv(r), UNCHANGED <<stored, request, torn>>,
         reading'[r] = reading[r], after'[r] = after[r], got'[r] = got[r],
         disturbed \subseteq disturbed'
  PROVE  ReadInv(r)'
  BY DEF ReadInv, Quiet, WritersOf, stored, request

LEMMA RequestKeepsReaders ==
  ASSUME TypeInv, NEW r \in Reader, ReadInv(r), NEW c \in Client, RequestStep(c)
  PROVE  ReadInv(r)'
<1>1. UNCHANGED <<reading, after, got>> /\ disturbed \subseteq disturbed'
  BY RequestsAndReaders DEF reader
<1>2. ASSUME r \notin disturbed', reading[r] # None
      PROVE  /\ Quiet(reading[r]) /\ about[reading[r]] # None
             /\ got[r] = {row \in rows[reading[r]] : row.ordinal <= after[r]}
             /\ Quiet(reading[r])' /\ rows'[reading[r]] = rows[reading[r]]
             /\ about'[reading[r]] = about[reading[r]]
  <2>1. /\ Quiet(reading[r]) /\ about[reading[r]] # None
        /\ got[r] = {row \in rows[reading[r]] : row.ordinal <= after[r]}
    BY <1>1, <1>2 DEF ReadInv
  <2>2. PICK t \in Table : t = reading[r]
    BY <1>2 DEF TypeInv, TypeOK
  <2>3. Quiet(t)' /\ rows'[t] = rows[t] /\ about'[t] = about[t]
    BY <1>2, <2>1, <2>2, QuietTables
  <2>4. Quiet(reading[r])'
    BY <1>1, <2>2, <2>3 DEF Quiet, WritersOf
  <2> QED BY <2>1, <2>2, <2>3, <2>4
<1>3. reading'[r] = reading[r] /\ after'[r] = after[r] /\ got'[r] = got[r]
  BY <1>1
<1> QED BY <1>1, <1>2, <1>3 DEF ReadInv, Quiet, WritersOf

LEMMA StepReadInv ==
  ASSUME TypeInv, \A t \in Table : TableInv(t), NEW r \in Reader, ReadInv(r), [Next]_vars
  PROVE  ReadInv(r)'
<1>1. ASSUME NEW q \in Reader, NEW t \in Table, StartRead(q, t) PROVE ReadInv(r)'
  <2>1. /\ reading[q] = None /\ got[q] = {} /\ about[t] # None
        /\ reading' = [reading EXCEPT ![q] = t]
        /\ disturbed' = IF WritersOf(t) # {} \/ t \in torn THEN disturbed \cup {q} ELSE disturbed
        /\ UNCHANGED <<stored, request, after, got, torn>>
    BY <1>1 DEF StartRead
  <2>2. CASE q = r
    <3>1. reading'[r] = t /\ t # None /\ got'[r] = {} /\ after'[r] = 0
      BY <2>1, <2>2, StagedAssumption DEF ReadInv, TypeInv, TypeOK
    <3>2. {row \in rows[t] : row.ordinal <= 0} = {}
      <4>1. \A row \in rows[t] : row.ordinal \in Nat /\ row.ordinal > 0
        BY Ordinals DEF TypeInv, TypeOK
      <4>2. \A row \in rows[t] : ~ (row.ordinal <= 0)
        BY <4>1
      <4> QED BY <4>2
    <3>3. r \notin disturbed' => Quiet(t)
      BY <2>1, <2>2 DEF Quiet
    <3> QED BY <2>1, <3>1, <3>2, <3>3 DEF ReadInv, Quiet, WritersOf, stored, request
  <2>3. CASE q # r
    <3>1. reading'[r] = reading[r] /\ after'[r] = after[r] /\ got'[r] = got[r]
      BY <2>1, <2>3 DEF TypeInv, TypeOK
    <3> QED BY <2>1, <3>1, OtherReaders
  <2> QED BY <2>2, <2>3
<1>2. ASSUME NEW q \in Reader, ReadPage(q) PROVE ReadInv(r)'
  <2>1. CASE q = r
    BY <1>2, <2>1, NextPage
  <2>2. CASE q # r
    <3>1. reading'[r] = reading[r] /\ after'[r] = after[r] /\ got'[r] = got[r]
      BY <1>2, <2>2 DEF ReadPage, TypeInv, TypeOK
    <3> QED BY <1>2, <3>1, OtherReaders DEF ReadPage, history
  <2> QED BY <2>1, <2>2
<1>3. ASSUME NEW q \in Reader, EndRead(q) PROVE ReadInv(r)'
  <2>1. /\ reading[q] # None /\ Rest(q) = {} /\ reading' = [reading EXCEPT ![q] = None]
        /\ UNCHANGED <<stored, request, after, got, history>>
    BY <1>3 DEF EndRead
  <2>2. CASE q = r
    <3>1. reading'[r] = None /\ reading[r] \in Table /\ got'[r] = got[r] /\ after'[r] = after[r]
      BY <2>1, <2>2 DEF TypeInv, TypeOK
    <3>2. ASSUME r \notin disturbed
          PROVE  \E f \in File, t \in Table : got[r] = Content(f, t)
      <4>1. /\ Quiet(reading[r]) /\ about[reading[r]] # None
            /\ got[r] = {row \in rows[reading[r]] : row.ordinal <= after[r]}
        BY <2>1, <2>2, <3>2 DEF ReadInv
      <4>2. \A row \in rows[reading[r]] : row.ordinal \in Nat /\ after[r] \in Nat
        BY <3>1, Ordinals DEF TypeInv, TypeOK
      <4>3. got[r] = rows[reading[r]]
        BY <2>1, <2>2, <4>1, <4>2 DEF Rest
      <4>4. rows[reading[r]] = Content(about[reading[r]], reading[r]) /\ about[reading[r]] \in File
        BY <3>1, <4>1 DEF Quiet, TableInv, Whole, TypeInv, TypeOK
      <4> QED BY <3>1, <4>3, <4>4
    <3> QED BY <2>1, <3>1, <3>2 DEF ReadInv, history
  <2>3. CASE q # r
    <3>1. reading'[r] = reading[r] /\ after'[r] = after[r] /\ got'[r] = got[r]
      BY <2>1, <2>3 DEF TypeInv, TypeOK
    <3> QED BY <2>1, <3>1, OtherReaders DEF history
  <2> QED BY <2>2, <2>3
<1>4. CASE (\E t \in Table : Fetch(t) \/ Expire(t)) \/ Keep
  BY <1>4, OtherReaders DEF Fetch, Expire, Keep, reader, history
<1>5. CASE UNCHANGED vars
  BY <1>5, OtherReaders DEF vars, reader, history
<1> QED BY <1>1, <1>2, <1>3, <1>4, <1>5, RequestKeepsReaders DEF Next, ReaderStep

-----------------------------------------------------------------------------
(* The theorems.                                                           *)

IInv ==
  /\ TypeInv
  /\ \A t \in Table : TableInv(t) /\ CacheInv(t)
  /\ \A r \in Reader : ReadInv(r)

LEMMA Invariant == Spec => []IInv
<1>1. Init => IInv
  <2> SUFFICES ASSUME Init PROVE IInv
    OBVIOUS
  <2>1. ASSUME NEW t \in Table PROVE TableInv(t) /\ CacheInv(t)
    BY <2>1 DEF Init, TableInv, WritersOf, Writing, Whole, CacheInv
  <2>2. ASSUME NEW r \in Reader PROVE ReadInv(r)
    BY <2>2 DEF Init, ReadInv
  <2> QED BY <2>1, <2>2, InitTypeInv DEF IInv
<1>2. IInv /\ [Next]_vars => IInv'
  BY StepTypeInv, StepTableInv, StepCacheInv, StepReadInv DEF IInv
<1> QED BY <1>1, <1>2, PTL DEF Spec

(* "Two snapshots concatenated are not a bigger snapshot", for any files    *)
(* and any number of requests, wherever one dies: a table that was not torn *)
(* and that nobody is writing holds one file, the one it is described by.   *)
THEOREM OneFile == Spec => []TableIsOneFile
<1>1. IInv => TableIsOneFile
  BY DEF IInv, TableInv, TableIsOneFile, Whole
<1> QED BY <1>1, Invariant, PTL

(* What is cached is what staged_tables says, as soon as no request has     *)
(* something left to tell the cache: but for lists, broken requests and     *)
(* descriptions that were being fetched.                                    *)
THEOREM CacheIsTrue == Spec => []CacheIsCurrent
<1>1. IInv => CacheIsCurrent
  BY DEF IInv, CacheInv, Stale, CacheIsCurrent
<1> QED BY <1>1, Invariant, PTL

(* Paging on the position neither skips a row nor reads one twice, whatever *)
(* the page size: a reader whose table nobody writes ends with one file.    *)
THEOREM ReadsOneFile == Spec => []ReadInPeace
<1>1. IInv => ReadInPeace
  BY DEF IInv, ReadInv, ReadInPeace
<1> QED BY <1>1, Invariant, PTL
=============================================================================
