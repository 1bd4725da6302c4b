---------------------------- MODULE StagedSource ----------------------------
(***************************************************************************)
(* Files kept as tables: server/src/services/staged-source-service.ts      *)
(* writes them, connectors/staged/staged-connector.ts reads them, and      *)
(* services/metadata-service.ts caches their description.                  *)
(*                                                                         *)
(* One action is one SQL statement.  None of them share a transaction:     *)
(* an import deletes the rows of a table, inserts the new ones in batches, *)
(* describes the table, goes on with the next sheet and in the end drops   *)
(* the cache.  A file is a number; what is in it is given by Keys and      *)
(* Sheets.  Values of cells are left out: a row is its file, its position  *)
(* and its record id.                                                      *)
(***************************************************************************)
EXTENDS Naturals, Sequences, FiniteSets

CONSTANTS
  Table,         \* logical names of tables of one staged environment
  Client,        \* requests being served at a time
  Reader,        \* executions that read tables page by page
  Keys(_, _),    \* record ids of a file's sheet for a table, by position
  Sheets(_),     \* the tables of a file, in the order of its sheets
  List,          \* files that are SharePoint lists
  Batch,         \* INSERT_BATCH
  PageSize,      \* ReadOptions.pageSize
  NumFiles,      \* bound: imports
  MaxRemovals,   \* bound: removals and renamings
  MaxFaults,     \* bound: requests that fail or die half-way
  None           \* no row, no value

File == 1..NumFiles

ASSUME StagedAssumption ==
  /\ Batch \in Nat \ {0} /\ PageSize \in Nat \ {0} /\ NumFiles \in Nat
  /\ MaxRemovals \in Nat /\ MaxFaults \in Nat
  /\ None \notin File /\ None \notin Table /\ List \subseteq File
  /\ \A f \in File : Sheets(f) \in Seq(Table) /\ Sheets(f) # <<>>
  /\ \A f \in File, t \in Table :
       /\ Keys(f, t) \in Seq({Keys(f, t)[i] : i \in DOMAIN Keys(f, t)})
       /\ \A i, j \in DOMAIN Keys(f, t) : Keys(f, t)[i] = Keys(f, t)[j] => i = j

VARIABLES
  rows,      \* staged_rows of each table
  about,     \* staged_tables: the file a table is described by, or None
  cache,     \* metadata_tables: the description kept, or None
  at,        \* where each request is
  file,      \* the file a request imports
  left,      \* the tables it has not finished, the one at hand first
  changed,   \* the tables it has changed, until the cache is dropped
  next,      \* the position of the next batch
  fetching,  \* getTables between reading a description and keeping it
  reading,   \* the table of each reader
  after,     \* the last position it has read
  got,       \* the rows it has read
  torn,      \* history: tables whose last writers got in each other's way or died
  outdated,  \* history: tables changed behind the cache's back
  disturbed, \* history: readers whose table changed while they read it
  imports, removals, faults

stored == <<rows, about>>
request == <<at, file, left, changed, next>>
reader == <<reading, after, got>>
history == <<torn, outdated, disturbed>>
bounds == <<imports, removals, faults>>
vars == <<stored, cache, request, fetching, reader, history, bounds>>

Row(f, t, i) == [file |-> f, id |-> Keys(f, t)[i], ordinal |-> i]
Content(f, t) == {Row(f, t, i) : i \in DOMAIN Keys(f, t)}

Writing == {"insert", "describe", "undescribe"}
Place == {"idle", "clear", "removing", "renaming", "forget"} \cup Writing

(* The type invariant.                                                     *)
TypeOK ==
  /\ rows \in [Table -> SUBSET UNION {Content(f, t) : f \in File, t \in Table}]
  /\ about \in [Table -> File \cup {None}] /\ cache \in [Table -> File \cup {None}]
  /\ at \in [Client -> Place]
  /\ file \in [Client -> File \cup {None}]
  /\ left \in [Client -> Seq(Table)]
  /\ changed \in [Client -> SUBSET Table]
  /\ next \in [Client -> Nat]
  /\ fetching \in [table: Table, file: File] \cup {None}
  /\ reading \in [Reader -> Table \cup {None}] /\ after \in [Reader -> Nat]
  /\ torn \subseteq Table /\ outdated \subseteq Table /\ disturbed \subseteq Reader
  /\ imports \in 0..NumFiles /\ removals \in 0..MaxRemovals /\ faults \in 0..MaxFaults

Init ==
  /\ rows = [t \in Table |-> {}]
  /\ about = [t \in Table |-> None] /\ cache = [t \in Table |-> None]
  /\ at = [c \in Client |-> "idle"]
  /\ file = [c \in Client |-> None]
  /\ left = [c \in Client |-> <<>>]
  /\ changed = [c \in Client |-> {}]
  /\ next = [c \in Client |-> 1]
  /\ fetching = None
  /\ reading = [r \in Reader |-> None]
  /\ after = [r \in Reader |-> 0] /\ got = [r \in Reader |-> {}]
  /\ torn = {} /\ outdated = {} /\ disturbed = {}
  /\ imports = 0 /\ removals = 0 /\ faults = 0

-----------------------------------------------------------------------------
\* The requests that are half-way through changing t.
WritersOf(t) == {c \in Client : at[c] \in Writing /\ Head(left[c]) = t}

\* A request begins to change t.  Alone, it makes good what was torn before.
Touches(c, t) ==
  /\ torn' = IF WritersOf(t) \ {c} = {} THEN torn \ {t} ELSE torn \cup {t}
  /\ disturbed' = disturbed \cup {r \in Reader : reading[r] = t}

\* A request is answered, or has died.
Done(c) ==
  /\ at' = [at EXCEPT ![c] = "idle"]
  /\ file' = [file EXCEPT ![c] = None]
  /\ left' = [left EXCEPT ![c] = <<>>]
  /\ changed' = [changed EXCEPT ![c] = {}]
  /\ next' = [next EXCEPT ![c] = 1]

-----------------------------------------------------------------------------
(* Imports.                                                                *)

\* The file is read and split into tables before anything is stored.
Import(c) ==
  /\ at[c] = "idle" /\ imports < NumFiles
  /\ imports' = imports + 1
  /\ at' = [at EXCEPT ![c] = "clear"]
  /\ file' = [file EXCEPT ![c] = imports + 1]
  /\ left' = [left EXCEPT ![c] = Sheets(imports + 1)]
  /\ UNCHANGED <<stored, cache, changed, next, fetching, reader, history, removals, faults>>

\* Mutant: an import adds to what is there.
ClearNothing(t) == UNCHANGED rows

Empty(t) == rows' = [rows EXCEPT ![t] = {}]

\* store: the rows of the table are deleted.
Clear(c) ==
  LET t == Head(left[c])
  IN /\ at[c] = "clear"
     /\ Empty(t)
     /\ Touches(c, t)
     /\ at' = [at EXCEPT ![c] = "insert"]
     /\ UNCHANGED <<about, cache, file, left, changed, next, fetching, reader, outdated, bounds>>

\* The rows of the next batch.
BatchOf(c) ==
  {row \in Content(file[c], Head(left[c])) : row.ordinal \in next[c]..(next[c] + Batch - 1)}

\* The primary key is the table and the record id.
Conflict(c) ==
  \E new \in BatchOf(c), old \in rows[Head(left[c])] : new.id = old.id

Insert(c) ==
  LET t == Head(left[c])
      end == next[c] + Batch > Len(Keys(file[c], t))
  IN /\ at[c] = "insert" /\ ~Conflict(c)
     /\ rows' = [rows EXCEPT ![t] = @ \cup BatchOf(c)]
     /\ next' = [next EXCEPT ![c] = IF end THEN 1 ELSE @ + Batch]
     /\ at' = [at EXCEPT ![c] = IF end THEN "describe" ELSE "insert"]
     /\ UNCHANGED <<about, cache, file, left, changed, fetching, reader, history, bounds>>

\* The upsert of staged_tables.  After the last table of a file the cache is
\* dropped; the import of a list ends here.
Describe(c) ==
  LET t == Head(left[c])
      last == Len(left[c]) = 1
      list == file[c] \in List
  IN /\ at[c] = "describe"
     /\ about' = [about EXCEPT ![t] = file[c]]
     /\ outdated' = IF list THEN outdated \cup {t} ELSE outdated
     /\ IF last /\ list
        THEN Done(c)
        ELSE /\ at' = [at EXCEPT ![c] = IF last THEN "forget" ELSE "clear"]
             /\ left' = [left EXCEPT ![c] = Tail(@)]
             /\ changed' = [changed EXCEPT ![c] = @ \cup {t}]
             /\ UNCHANGED <<file, next>>
     /\ UNCHANGED <<rows, cache, fetching, reader, torn, disturbed, bounds>>

\* Mutant: only the list of tables is dropped.
DropCatalog == UNCHANGED cache

DropAll == cache' = [t \in Table |-> None]

\* forget.  A description that is being fetched was read before.
Forget(c) ==
  /\ at[c] = "forget"
  /\ DropAll
  /\ outdated' = IF fetching = None THEN {} ELSE {fetching.table}
  /\ Done(c)
  /\ UNCHANGED <<stored, fetching, reader, torn, disturbed, bounds>>

\* A statement fails, two rows with one key among them, or the server dies:
\* nothing of what was done is taken back, and nothing more is done.
Breaks(c) ==
  /\ at[c] # "idle"
  /\ faults' = IF at[c] = "insert" /\ Conflict(c) THEN faults ELSE faults + 1
  /\ faults' <= MaxFaults
  /\ torn' = IF at[c] \in Writing THEN torn \cup {Head(left[c])} ELSE torn
  /\ outdated' = outdated \cup changed[c]
  /\ Done(c)
  /\ UNCHANGED <<stored, cache, fetching, reader, disturbed, imports, removals>>

-----------------------------------------------------------------------------
(* removeTable and renameTable.                                            *)

\* Both begin by looking whether the table is there.
AskFor(c, t, what) ==
  /\ at[c] = "idle" /\ about[t] # None /\ removals < MaxRemovals
  /\ removals' = removals + 1
  /\ at' = [at EXCEPT ![c] = what]
  /\ left' = [left EXCEPT ![c] = <<t>>]
  /\ UNCHANGED <<stored, cache, file, changed, next, fetching, reader, history, imports,
                 faults>>

RemoveRows(c) ==
  LET t == Head(left[c])
  IN /\ at[c] = "removing"
     /\ rows' = [rows EXCEPT ![t] = {}]
     /\ Touches(c, t)
     /\ at' = [at EXCEPT ![c] = "undescribe"]
     /\ UNCHANGED <<about, cache, file, left, changed, next, fetching, reader, outdated, bounds>>

RemoveTable(c) ==
  LET t == Head(left[c])
  IN /\ at[c] = "undescribe"
     /\ about' = [about EXCEPT ![t] = None]
     /\ changed' = [changed EXCEPT ![c] = {t}]
     /\ at' = [at EXCEPT ![c] = "forget"]
     /\ UNCHANGED <<rows, cache, file, left, next, fetching, reader, history, bounds>>

\* The display name is not part of what a table holds.
Rename(c) ==
  /\ at[c] = "renaming"
  /\ changed' = [changed EXCEPT ![c] = {Head(left[c])}]
  /\ at' = [at EXCEPT ![c] = "forget"]
  /\ UNCHANGED <<stored, cache, file, left, next, fetching, reader, history, bounds>>

-----------------------------------------------------------------------------
(* The cache of descriptions.                                              *)

\* getTables finds nothing in the cache, or is told to refresh it.
Fetch(t) ==
  /\ fetching = None /\ about[t] # None
  /\ fetching' = [table |-> t, file |-> about[t]]
  /\ UNCHANGED <<stored, cache, request, reader, history, bounds>>

Keep ==
  /\ fetching # None
  /\ cache' = [cache EXCEPT ![fetching.table] = fetching.file]
  /\ fetching' = None
  /\ UNCHANGED <<stored, request, reader, history, bounds>>

\* METADATA_TTL_MS have passed.
Expire(t) ==
  /\ cache[t] # None
  /\ cache' = [cache EXCEPT ![t] = None]
  /\ UNCHANGED <<stored, request, fetching, reader, history, bounds>>

-----------------------------------------------------------------------------
(* queryRecords: keyset paging on the position.                            *)

StartRead(r, t) ==
  /\ reading[r] = None /\ got[r] = {} /\ about[t] # None
  /\ reading' = [reading EXCEPT ![r] = t]
  /\ disturbed' = IF WritersOf(t) # {} \/ t \in torn THEN disturbed \cup {r} ELSE disturbed
  /\ UNCHANGED <<stored, cache, request, fetching, after, got, torn, outdated, bounds>>

Rest(r) == {row \in rows[reading[r]] : row.ordinal > after[r]}

\* A page: the first PageSize rows after the last position read.
IsPage(r, page) ==
  LET rest == Rest(r)
  IN /\ Cardinality(page) = IF Cardinality(rest) < PageSize THEN Cardinality(rest) ELSE PageSize
     /\ \A row \in page, other \in rest \ page : row.ordinal <= other.ordinal

Last(page) == CHOOSE n \in {row.ordinal : row \in page} : \A row \in page : row.ordinal <= n

\* Mutant: the next page begins two positions on.
AfterNext(page) == Last(page) + 1

\* Where the next page goes on.
After(page) == Last(page)

ReadPage(r) ==
  /\ reading[r] # None
  /\ \E page \in SUBSET Rest(r) :
       /\ page # {} /\ IsPage(r, page)
       /\ got' = [got EXCEPT ![r] = @ \cup page]
       /\ after' = [after EXCEPT ![r] = After(page)]
  /\ UNCHANGED <<stored, cache, request, fetching, reading, history, bounds>>

\* The last page is empty: the reader has what it takes to be the table.
EndRead(r) ==
  /\ reading[r] # None /\ Rest(r) = {}
  /\ reading' = [reading EXCEPT ![r] = None]
  /\ UNCHANGED <<stored, cache, request, fetching, after, got, history, bounds>>

RequestStep(c) ==
  \/ Import(c) \/ Clear(c) \/ Insert(c) \/ Describe(c) \/ Forget(c)
  \/ Breaks(c) \/ RemoveRows(c) \/ RemoveTable(c) \/ Rename(c)
  \/ \E t \in Table : AskFor(c, t, "removing") \/ AskFor(c, t, "renaming")

ReaderStep(r) ==
  \/ \E t \in Table : StartRead(r, t)
  \/ ReadPage(r) \/ EndRead(r)

Next ==
  \/ \E c \in Client : RequestStep(c)
  \/ \E r \in Reader : ReaderStep(r)
  \/ \E t \in Table : Fetch(t) \/ Expire(t)
  \/ Keep

Spec == Init /\ [][Next]_vars

-----------------------------------------------------------------------------
(* "A file is a snapshot, and two snapshots concatenated are not a bigger  *)
(* snapshot": a table nobody is importing holds the rows of one file, the  *)
(* one it is described by, or nothing.  Excepted are tables two requests   *)
(* changed at a time or one left half-way; the next import that has the    *)
(* table to itself puts it right, whatever was there.                      *)
TableIsOneFile ==
  \A t \in Table \ torn : WritersOf(t) = {} =>
    rows[t] = IF about[t] = None THEN {} ELSE Content(about[t], t)

(* No description outlives the table it describes: what is cached is what  *)
(* staged_tables says, from the moment the request that changed the table  *)
(* is answered ("worse than having nothing cached at all").  Excepted are  *)
(* lists, whose import never drops the cache, requests that broke after    *)
(* changing a table, and a description that was being fetched meanwhile.   *)
CacheIsCurrent ==
  \A t \in Table \ (outdated \cup UNION {changed[c] : c \in Client}) :
    cache[t] \in {None, about[t]}

(* What a reader takes to be a table is one file, whole: while nothing is  *)
(* written to its table.                                                   *)
ReadInPeace ==
  \A r \in Reader \ disturbed : reading[r] = None /\ got[r] # {} =>
    \E f \in File, t \in Table : got[r] = Content(f, t)

(* "Stable across pages because nothing can insert between them": the same *)
(* whatever is imported meanwhile.                                         *)
ReadIsOneFile ==
  \A r \in Reader : reading[r] = None /\ got[r] # {} =>
    \E f \in File, t \in Table : got[r] = Content(f, t)
=============================================================================
