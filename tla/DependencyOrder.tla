-------------------------- MODULE DependencyOrder --------------------------
(***************************************************************************)
(* The order in which the tables of a plan are migrated:                   *)
(* server/src/services/dependency-graph.ts, analyzeDependencies.  A table  *)
(* waits for the tables its lookups point to; circles of lookups are       *)
(* broken by deferring an optional one to pass 2.                          *)
(*                                                                         *)
(* Tables are the numbers of their names in alphabetical order.  A lookup  *)
(* is a column of a table and one of the tables it may point to, inside    *)
(* the selection: a column may point to several tables, and several        *)
(* columns to one.  The order in which the lookups of a table are looked at     *)
(* (that of their names) is any.                                           *)
(***************************************************************************)
EXTENDS Naturals, Sequences, FiniteSets

CONSTANTS
  NumTables,  \* tables selected
  Column,     \* names of lookup columns
  Inputs      \* the sets of lookups analysed

Table == 1..NumTables
Lookup == [from: Table, column: Column, to: Table, required: BOOLEAN]

ASSUME DependencyAssumption ==
  /\ NumTables \in Nat
  /\ Inputs \subseteq SUBSET Lookup

VARIABLES
  edges,      \* the lookups among the selected tables
  phase,      \* "components", "cycles", "order", "done"
  index, low, \* Tarjan's numbers of a table, 0 before it is visited
  stack,      \* Tarjan's stack
  frames,     \* the work list: tables entered, each with neighbours to see
  components, \* the components found
  todo,       \* cyclic components whose cycles are still to break
  current,    \* the component at hand, {} between two
  remaining,  \* its lookups not deferred
  trail,      \* findCycle: the path, each table with its lookups to follow
  searched,   \* findCycle: tables left without a cycle
  deferred,   \* lookups put off to pass 2
  stuck,      \* components whose cycles cannot be broken
  order       \* the tables placed

tarjan == <<index, low, stack, frames, components>>
breaking == <<todo, current, remaining, trail, searched, deferred, stuck>>
vars == <<edges, phase, tarjan, breaking, order>>

Init ==
  /\ edges \in Inputs
  /\ phase = "components"
  /\ index = [n \in Table |-> 0] /\ low = [n \in Table |-> 0]
  /\ stack = <<>> /\ frames = <<>> /\ components = {}
  /\ todo = {} /\ current = {} /\ remaining = {}
  /\ trail = <<>> /\ searched = {} /\ deferred = {} /\ stuck = {}
  /\ order = <<>>

Last(s) == s[Len(s)]
ButLast(s) == SubSeq(s, 1, Len(s) - 1)
Elements(s) == {s[i] : i \in 1..Len(s)}

\* n is the first of the tables of S in alphabetical order.
First(n, S) == n \in S /\ \A m \in S : n <= m

-----------------------------------------------------------------------------
(* stronglyConnectedComponents: Tarjan's algorithm without recursion.      *)

Neighbours(n) == {e.to : e \in {x \in edges : x.from = n}}
Visited == {n \in Table : index[n] > 0}
Smaller(a, b) == IF a < b THEN a ELSE b

\* A table is numbered, put on the stack and worked on.
Enter(n, work) ==
  LET number == Cardinality(Visited) + 1
  IN /\ index' = [index EXCEPT ![n] = number]
     /\ low' = [low EXCEPT ![n] = number]
     /\ stack' = Append(stack, n)
     /\ frames' = Append(work, [node |-> n, left |-> Neighbours(n)])

Root(n) ==
  /\ phase = "components" /\ frames = <<>> /\ First(n, Table \ Visited)
  /\ Enter(n, <<>>)
  /\ UNCHANGED <<edges, phase, components, breaking, order>>

\* Mutant: a table of a finished component still counts.
LooksBackAlways(n) == index[n] > 0

\* A visited table lowers the number only while it is on the stack.
LooksBack(n) == n \in Elements(stack)

\* The next neighbour of the table at hand.
Look(next) ==
  LET top == Last(frames)
      work == Append(ButLast(frames), [top EXCEPT !.left = @ \ {next}])
  IN /\ phase = "components" /\ frames # <<>> /\ next \in top.left
     /\ IF next \notin Visited
        THEN Enter(next, work)
        ELSE /\ low' = [low EXCEPT ![top.node] =
                          IF LooksBack(next) THEN Smaller(@, index[next]) ELSE @]
             /\ frames' = work
             /\ UNCHANGED <<index, stack>>
     /\ UNCHANGED <<edges, phase, components, breaking, order>>

\* All neighbours seen: the parent learns the number, a component is complete.
Retreat ==
  LET n == Last(frames).node
      work == ButLast(frames)
      at == CHOOSE i \in 1..Len(stack) : stack[i] = n
  IN /\ phase = "components" /\ frames # <<>> /\ Last(frames).left = {}
     /\ frames' = work
     /\ low' = IF work = <<>> THEN low
               ELSE [low EXCEPT ![Last(work).node] = Smaller(@, low[n])]
     /\ IF low[n] = index[n]
        THEN /\ components' = components \cup {Elements(SubSeq(stack, at, Len(stack)))}
             /\ stack' = SubSeq(stack, 1, at - 1)
        ELSE UNCHANGED <<components, stack>>
     /\ UNCHANGED <<edges, phase, index, breaking, order>>

Intra(c) == {e \in edges : e.from \in c /\ e.to \in c}
Cyclic(c) == Cardinality(c) > 1 \/ Intra(c) # {}

EndComponents ==
  /\ phase = "components" /\ frames = <<>> /\ Visited = Table
  /\ phase' = "cycles"
  /\ todo' = {c \in components : Cyclic(c)}
  /\ UNCHANGED <<edges, tarjan, current, remaining, trail, searched, deferred, stuck, order>>

-----------------------------------------------------------------------------
(* Breaking the cycles of each component.                                  *)

\* findCycle begins anew after each lookup that is deferred.
SearchAnew == trail' = <<>> /\ searched' = {}

OpenComponent(c) ==
  /\ phase = "cycles" /\ current = {} /\ c \in todo
  /\ current' = c
  /\ todo' = todo \ {c}
  /\ remaining' = Intra(c)
  /\ SearchAnew
  /\ UNCHANGED <<edges, phase, tarjan, deferred, stuck, order>>

\* The path enters n through a lookup.
Step(n, via, path) ==
  trail' = Append(path, [node |-> n, via |-> via,
                         left |-> {e \in remaining : e.from = n}])

SearchFrom(n) ==
  /\ phase = "cycles" /\ current # {} /\ trail = <<>> /\ First(n, current \ searched)
  /\ Step(n, {}, <<>>)
  /\ UNCHANGED <<edges, phase, tarjan, todo, current, remaining, searched, deferred, stuck,
                 order>>

OnTrail(n) == \E i \in 1..Len(trail) : trail[i].node = n

\* Mutant: the whole path is taken for the cycle.
WholePath(e) == {e} \cup UNION {trail[j].via : j \in 1..Len(trail)}

\* The cycle a lookup to a table of the path closes.
Cycle(e) ==
  LET i == CHOOSE j \in 1..Len(trail) : trail[j].node = e.to
  IN {e} \cup UNION {trail[j].via : j \in (i + 1)..Len(trail)}

\* A lookup that closes no cycle: a new table is entered, or one passed by.
Follow(e) ==
  LET top == Last(trail)
      path == Append(ButLast(trail), [top EXCEPT !.left = @ \ {e}])
  IN /\ phase = "cycles" /\ trail # <<>> /\ e \in top.left /\ ~OnTrail(e.to)
     /\ IF e.to \in searched THEN trail' = path ELSE Step(e.to, {e}, path)
     /\ UNCHANGED <<edges, phase, tarjan, todo, current, remaining, searched, deferred,
                    stuck, order>>

Backtrack ==
  /\ phase = "cycles" /\ trail # <<>> /\ Last(trail).left = {}
  /\ searched' = searched \cup {Last(trail).node}
  /\ trail' = ButLast(trail)
  /\ UNCHANGED <<edges, phase, tarjan, todo, current, remaining, deferred, stuck, order>>

\* How many lookups of other tables point to n.
InDegree(n) == Cardinality({e \in edges : e.to = n /\ e.from # n})

\* Mutant: any lookup of the cycle will do.
MayDeferAny(x, cycle) == x \in cycle

\* The candidates, and the preferred one: leaving the table most depend on.
MayDefer(x, cycle) ==
  /\ x \in cycle /\ ~x.required
  /\ \A y \in cycle : ~y.required => InDegree(y.from) <= InDegree(x.from)

\* Mutant: the deferred lookup stays among those searched.
DeferKeeping(x) ==
  /\ deferred' = deferred \cup {x}
  /\ UNCHANGED remaining

Defer(x) ==
  /\ deferred' = deferred \cup {x}
  /\ remaining' = remaining \ {x}

\* A cycle is found and an optional lookup of it deferred.
Break(e, x) ==
  /\ phase = "cycles" /\ trail # <<>> /\ e \in Last(trail).left /\ OnTrail(e.to)
  /\ MayDefer(x, Cycle(e))
  /\ Defer(x)
  /\ SearchAnew
  /\ UNCHANGED <<edges, phase, tarjan, todo, current, stuck, order>>

\* A cycle of required lookups: the component is given up.
GiveUp(e) ==
  /\ phase = "cycles" /\ trail # <<>> /\ e \in Last(trail).left /\ OnTrail(e.to)
  /\ \A x \in Cycle(e) : x.required
  /\ stuck' = stuck \cup {current}
  /\ current' = {}
  /\ SearchAnew
  /\ UNCHANGED <<edges, phase, tarjan, todo, remaining, deferred, order>>

\* No cycle is left.
CloseComponent ==
  /\ phase = "cycles" /\ current # {} /\ trail = <<>> /\ current \subseteq searched
  /\ current' = {}
  /\ SearchAnew
  /\ UNCHANGED <<edges, phase, tarjan, todo, remaining, deferred, stuck, order>>

EndCycles ==
  /\ phase = "cycles" /\ current = {} /\ todo = {}
  /\ phase' = "order"
  /\ UNCHANGED <<edges, tarjan, breaking, order>>

-----------------------------------------------------------------------------
(* Kahn's algorithm.                                                       *)

Placed == Elements(order)

\* Mutant: tables of the same component do not wait for each other.
DepsOutside(n) ==
  {e.to : e \in {x \in edges : x.from = n /\ ~\E c \in components : {n, x.to} \subseteq c}}

\* The other tables a table waits for.
Deps(n) == {e.to : e \in {x \in edges \ deferred : x.from = n /\ x.to # n}}

\* A reference of a table to itself that is not deferred blocks it.
SelfBlocked(n) == \E e \in edges \ deferred : e.from = n /\ e.to = n

Ready == {n \in Table \ Placed : Deps(n) \subseteq Placed /\ ~SelfBlocked(n)}

Place(n) ==
  /\ phase = "order" /\ First(n, Ready)
  /\ order' = Append(order, n)
  /\ UNCHANGED <<edges, phase, tarjan, breaking>>

EndOrder ==
  /\ phase = "order" /\ Ready = {}
  /\ phase' = "done"
  /\ UNCHANGED <<edges, tarjan, breaking, order>>

Unordered == Table \ Placed

Next ==
  \/ \E n \in Table : Root(n) \/ Look(n) \/ SearchFrom(n) \/ Place(n)
  \/ Retreat \/ EndComponents
  \/ \E c \in todo : OpenComponent(c)
  \/ \E e \in remaining : Follow(e) \/ GiveUp(e) \/ \E x \in remaining : Break(e, x)
  \/ Backtrack \/ CloseComponent \/ EndCycles
  \/ EndOrder

Spec == Init /\ [][Next]_vars

FairSpec == Spec /\ WF_vars(Next)

-----------------------------------------------------------------------------
\* m can be reached from n along lookups of E.
Reaches(E, n, m) ==
  \A S \in SUBSET Table :
    n \in S /\ (\A e \in E : e.from \in S => e.to \in S) => m \in S

\* n is on a circle of lookups of E.
OnCircle(E, n) == \E e \in E : e.from = n /\ Reaches(E, e.to, n)

(* The type invariant, with the place of each calculation.                 *)
TypeOK ==
  /\ edges \in Inputs
  /\ phase \in {"components", "cycles", "order", "done"}
  /\ index \in [Table -> Nat] /\ low \in [Table -> Nat]
  /\ stack \in Seq(Table)
  /\ components \subseteq SUBSET Table /\ todo \subseteq SUBSET Table
  /\ stuck \subseteq SUBSET Table /\ current \subseteq Table
  /\ remaining \subseteq edges /\ deferred \subseteq edges
  /\ searched \subseteq Table
  /\ order \in Seq(Table)

(* The components are what they should be: the tables each of which can    *)
(* be reached from each (stronglyConnectedComponents).                     *)
ComponentsAreMutual ==
  phase # "components" =>
    components = {{m \in Table : Reaches(edges, n, m) /\ Reaches(edges, m, n)} : n \in Table}

(* Whatever a table's lookups point to, other than itself, comes before    *)
(* it, unless the lookup is optional and deferred: when a record is        *)
(* written in pass 1 every other reference can be resolved ("two-pass      *)
(* strategy").  No table comes twice.                                      *)
OrderRespects ==
  \A i \in 1..Len(order) :
    /\ \A e \in edges : e.from = order[i] /\ e.to # e.from =>
         \/ \E j \in 1..(i - 1) : order[j] = e.to
         \/ e \in deferred /\ ~e.required
    /\ \A j \in 1..(i - 1) : order[j] # order[i]

(* Nothing is deferred without need: a lookup is deferred only while it    *)
(* lies on a circle of lookups that are not.                               *)
DeferredOnCircle ==
  [][\A e \in deferred' \ deferred : Reaches(edges \ deferred, e.to, e.from)]_vars

(* A component is given up exactly when it has a circle of required        *)
(* lookups; the tables of such a circle get no place, and every table      *)
(* without one leads to a component that was given up ("Depends on tables  *)
(* with an unresolved circular dependency").  So every table is placed     *)
(* unless required lookups go round in a circle.                           *)
Compulsory == {e \in edges : e.required}
OnlyRequiredCirclesBlock ==
  phase = "done" =>
    /\ \A c \in components : c \in stuck <=> \E n \in c : OnCircle(Compulsory, n)
    /\ \A n \in Table : OnCircle(Compulsory, n) => n \in Unordered
    /\ \A n \in Unordered : \E m \in UNION stuck : Reaches(edges \ deferred, n, m)

(* The loops "for (;;)" end for every input.                               *)
Terminates == <>(phase = "done")
=============================================================================
