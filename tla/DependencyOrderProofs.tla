----------------------- MODULE DependencyOrderProofs -----------------------
(* Proofs about DependencyOrder, for any number of tables and any lookups: *)
(* that the order is one, that the components are the right ones, and that *)
(* what is deferred or given up has to be.                                 *)
EXTENDS DependencyOrder, FiniteSetTheorems, WellFoundedInduction, TLAPS

-----------------------------------------------------------------------------
(* Sequences.                                                              *)

LEMMA AppendElements ==
  ASSUME NEW S, NEW s \in Seq(S), NEW x \in S
  PROVE  /\ Append(s, x) \in Seq(S)
         /\ Elements(Append(s, x)) = Elements(s) \cup {x}
<1> DEFINE t == Append(s, x)
<1>1. t \in Seq(S) /\ Len(t) = Len(s) + 1 /\ t[Len(t)] = x /\ \A i \in 1..Len(s) : t[i] = s[i]
  OBVIOUS
<1> HIDE DEF t
<1>2. Elements(t) \subseteq Elements(s) \cup {x}
  BY <1>1 DEF Elements
<1>3. Elements(s) \cup {x} \subseteq Elements(t)
  <2>1. x \in Elements(t)
    BY <1>1 DEF Elements
  <2>2. ASSUME NEW i \in 1..Len(s) PROVE s[i] \in Elements(t)
    BY <1>1 DEF Elements
  <2> QED BY <2>1, <2>2 DEF Elements
<1> QED BY <1>1, <1>2, <1>3 DEF t

(* The parts of a sequence before and from a place.                        *)
LEMMA SplitElements ==
  ASSUME NEW S, NEW s \in Seq(S), NEW at \in 1..Len(s)
  PROVE  /\ SubSeq(s, 1, at - 1) \in Seq(S) /\ Len(SubSeq(s, 1, at - 1)) = at - 1
         /\ \A i \in 1..(at - 1) : SubSeq(s, 1, at - 1)[i] = s[i]
         /\ Elements(SubSeq(s, at, Len(s))) = {s[i] : i \in at..Len(s)}
<1>1. /\ SubSeq(s, 1, at - 1) \in Seq(S) /\ Len(SubSeq(s, 1, at - 1)) = at - 1
      /\ \A i \in 1..(at - 1) : SubSeq(s, 1, at - 1)[i] = s[i]
  OBVIOUS
<1> DEFINE t == SubSeq(s, at, Len(s))
<1>2. Len(t) = Len(s) - at + 1 /\ \A i \in 1..Len(t) : t[i] = s[at + i - 1]
  OBVIOUS
<1> HIDE DEF t
<1>3. Elements(t) \subseteq {s[i] : i \in at..Len(s)}
  BY <1>2 DEF Elements
<1>4. ASSUME NEW i \in at..Len(s) PROVE s[i] \in Elements(t)
  <2>1. i - at + 1 \in 1..Len(t) /\ t[i - at + 1] = s[i]
    BY <1>2
  <2> QED BY <2>1 DEF Elements
<1> QED BY <1>1, <1>3, <1>4 DEF t

-----------------------------------------------------------------------------
(* What is deferred, and the order.                                        *)

OrderInv ==
  /\ order \in Seq(Table)
  /\ edges \in SUBSET Lookup /\ deferred \subseteq edges
  /\ \A e \in deferred : ~e.required
  /\ phase \in {"components", "cycles"} => order = <<>>
  /\ OrderRespects

LEMMA PlaceKeepsOrder ==
  ASSUME OrderInv, NEW n \in Table, Place(n)
  PROVE  OrderInv'
<1>1. /\ order' = Append(order, n) /\ n \in Table \ Placed /\ Deps(n) \subseteq Placed
      /\ UNCHANGED <<edges, deferred, phase>> /\ phase = "order"
  BY DEF Place, First, Ready, breaking
<1>2. /\ order' \in Seq(Table) /\ Len(order') = Len(order) + 1
      /\ order'[Len(order')] = n /\ \A i \in 1..Len(order) : order'[i] = order[i]
  BY <1>1 DEF OrderInv
<1>3. ASSUME NEW e \in edges, e.from = n, e.to # n, e \notin deferred
      PROVE  \E j \in 1..Len(order) : order[j] = e.to
  <2>1. e.to \in Deps(n)
    BY <1>3 DEF Deps
  <2> QED BY <1>1, <2>1 DEF Placed, Elements
<1>4. \A j \in 1..Len(order) : order[j] # n
  BY <1>1 DEF Placed, Elements
<1>5. ASSUME NEW i \in 1..Len(order)
      PROVE  /\ \A e \in edges : e.from = order'[i] /\ e.to # e.from =>
                  \/ \E j \in 1..(i - 1) : order'[j] = e.to
                  \/ e \in deferred /\ ~e.required
             /\ \A j \in 1..(i - 1) : order'[j] # order'[i]
  <2>1. \A j \in 1..i : j \in 1..Len(order) /\ order'[j] = order[j]
    BY <1>2, Len(order) \in Nat DEF OrderInv
  <2>2. i \in 1..i /\ \A j \in 1..(i - 1) : j \in 1..i
    OBVIOUS
  <2> QED BY <1>5, <2>1, <2>2 DEF OrderInv, OrderRespects
<1>6. \A e \in edges : e.from = n /\ e.to # e.from =>
        \/ \E j \in 1..Len(order) : order'[j] = e.to
        \/ e \in deferred /\ ~e.required
  BY <1>2, <1>3 DEF OrderInv
<1>7. \A i \in 1..Len(order') : i \in 1..Len(order) \/ (i = Len(order) + 1 /\ i - 1 = Len(order))
  <2>1. Len(order) \in Nat
    BY DEF OrderInv
  <2>2. \A a \in Nat : \A i \in 1..(a + 1) : i \in 1..a \/ (i = a + 1 /\ i - 1 = a)
    OBVIOUS
  <2> QED BY <1>2, <2>1, <2>2
<1>8. OrderRespects'
  BY <1>1, <1>2, <1>4, <1>5, <1>6, <1>7 DEF OrderRespects
<1> QED BY <1>1, <1>2, <1>8 DEF OrderInv

LEMMA BreakKeepsOrder ==
  ASSUME OrderInv, NEW e, NEW x \in remaining, Break(e, x), remaining \subseteq edges
  PROVE  OrderInv'
<1>1. /\ deferred' = deferred \cup {x} /\ ~x.required /\ phase = "cycles"
      /\ UNCHANGED <<edges, phase, order>>
  BY DEF Break, Defer, MayDefer
<1>2. order' = <<>> /\ Len(order') = 0
  BY <1>1 DEF OrderInv
<1>3. OrderRespects'
  BY <1>2 DEF OrderRespects
<1> QED BY <1>1, <1>2, <1>3 DEF OrderInv

(* Every other step leaves the order and what is deferred as they are.     *)
LEMMA StepKeepsOrder ==
  ASSUME OrderInv, remaining \subseteq edges, [Next]_vars
  PROVE  OrderInv'
<1>1. ASSUME NEW n \in Table, Root(n) \/ Look(n) \/ SearchFrom(n)
      PROVE  UNCHANGED <<edges, deferred, order, phase>>
  BY <1>1 DEF Root, Look, SearchFrom, breaking
<1>2. ASSUME NEW c \in todo, OpenComponent(c)
      PROVE  UNCHANGED <<edges, deferred, order, phase>>
  BY <1>2 DEF OpenComponent
<1>3. ASSUME NEW e \in remaining, Follow(e) \/ GiveUp(e)
      PROVE  UNCHANGED <<edges, deferred, order, phase>>
  BY <1>3 DEF Follow, GiveUp
<1>4. ASSUME Retreat \/ Backtrack \/ CloseComponent \/ UNCHANGED vars
      PROVE  UNCHANGED <<edges, deferred, order, phase>>
  BY <1>4 DEF Retreat, Backtrack, CloseComponent, vars, breaking
<1>5. ASSUME EndComponents \/ EndCycles \/ EndOrder
      PROVE  /\ UNCHANGED <<edges, deferred, order>>
             /\ phase' \in {"components", "cycles"} => phase = "components"
  BY <1>5 DEF EndComponents, EndCycles, EndOrder, breaking
<1>6. ASSUME UNCHANGED <<edges, deferred, order>>,
             phase' \in {"components", "cycles"} => phase \in {"components", "cycles"}
      PROVE  OrderInv'
  <2>1. OrderRespects' <=> OrderRespects
    BY <1>6 DEF OrderRespects
  <2> QED BY <1>6, <2>1 DEF OrderInv
<1> QED
  BY <1>1, <1>2, <1>3, <1>4, <1>5, <1>6, PlaceKeepsOrder, BreakKeepsOrder DEF Next

-----------------------------------------------------------------------------
(* Components do not overlap: what has a number is on the stack once, or   *)
(* in one component.  The tables being worked on are on the stack in the   *)
(* order they were entered, so a completed component takes none of them.   *)

Frame == [node: Table, left: SUBSET Table]

StackInv ==
  /\ edges \in SUBSET Lookup
  /\ index \in [Table -> Nat]
  /\ stack \in Seq(Table) /\ frames \in Seq(Frame) /\ components \subseteq SUBSET Table
  /\ \A i, j \in 1..Len(stack) : stack[i] = stack[j] => i = j
  /\ \A i \in 1..Len(stack) : index[stack[i]] > 0

FramesInv ==
  /\ \A k \in 1..Len(frames) : \E i \in 1..Len(stack) : stack[i] = frames[k].node
  /\ \A k, l \in 1..Len(frames) : k < l =>
       \E i, j \in 1..Len(stack) :
         i < j /\ stack[i] = frames[k].node /\ stack[j] = frames[l].node

ApartInv ==
  /\ \A c \in components : \A n \in c :
       index[n] > 0 /\ \A i \in 1..Len(stack) : stack[i] # n
  /\ \A c, d \in components : c = d \/ c \cap d = {}

ComponentsInv == StackInv /\ FramesInv /\ ApartInv

LEMMA NumberIsPositive == Cardinality(Visited) + 1 \in Nat /\ Cardinality(Visited) + 1 > 0
<1>1. IsFiniteSet(Table)
  BY DependencyAssumption, FS_Interval DEF Table
<1>2. IsFiniteSet(Visited)
  BY <1>1, FS_Subset DEF Visited
<1>3. Cardinality(Visited) \in Nat
  BY <1>2, FS_CardinalityType
<1> QED BY <1>3

(* A table that had no number is entered.                                  *)
LEMMA EnterKeepsApart ==
  ASSUME ComponentsInv, NEW n \in Table, n \notin Visited,
         NEW work \in Seq(Frame), Len(work) = Len(frames),
         \A k \in 1..Len(frames) : work[k].node = frames[k].node,
         Enter(n, work), UNCHANGED <<edges, components>>
  PROVE  ComponentsInv'
<1> DEFINE number == Cardinality(Visited) + 1
<1>1. number \in Nat /\ number > 0
  BY NumberIsPositive
<1> HIDE DEF number
<1>2. /\ index' = [index EXCEPT ![n] = number]
      /\ stack' = Append(stack, n)
      /\ frames' = Append(work, [node |-> n, left |-> Neighbours(n)])
  BY DEF Enter, number
<1>3. /\ stack' \in Seq(Table) /\ Len(stack') = Len(stack) + 1 /\ Len(stack) \in Nat
      /\ stack'[Len(stack) + 1] = n /\ \A i \in 1..Len(stack) : stack'[i] = stack[i]
  BY <1>2 DEF ComponentsInv, StackInv
<1>4. Neighbours(n) \in SUBSET Table
  BY DEF Neighbours, ComponentsInv, StackInv, Lookup
<1>5. [node |-> n, left |-> Neighbours(n)] \in Frame
  BY <1>4 DEF Frame
<1>6. /\ frames' \in Seq(Frame) /\ Len(frames') = Len(frames) + 1 /\ Len(frames) \in Nat
      /\ frames'[Len(frames) + 1].node = n
      /\ \A k \in 1..Len(frames) : frames'[k].node = frames[k].node
  BY <1>2, <1>5 DEF ComponentsInv, StackInv
<1>7. index \in [Table -> Nat] /\ index[n] = 0
  BY DEF ComponentsInv, StackInv, Visited
<1>8. \A m \in Table : index'[m] \in Nat /\ (index[m] > 0 => index'[m] > 0) /\ index'[n] > 0
  BY <1>1, <1>2, <1>7
<1>9. \A i \in 1..Len(stack) : stack[i] \in Table /\ stack[i] # n
  BY <1>7 DEF ComponentsInv, StackInv
<1>10. \A i \in 1..Len(stack') : i \in 1..Len(stack) \/ i = Len(stack) + 1
  BY <1>3
<1>11. \A k \in 1..Len(frames') : k \in 1..Len(frames) \/ k = Len(frames) + 1
  BY <1>6
<1>12. StackInv'
  <2>1. index' \in [Table -> Nat]
    BY <1>1, <1>2, <1>7
  <2>2. \A i, j \in 1..Len(stack') : stack'[i] = stack'[j] => i = j
    BY <1>3, <1>9, <1>10 DEF ComponentsInv, StackInv
  <2>3. \A i \in 1..Len(stack') : index'[stack'[i]] > 0
    BY <1>3, <1>8, <1>9, <1>10 DEF ComponentsInv, StackInv
  <2> QED BY <1>3, <1>6, <2>1, <2>2, <2>3 DEF ComponentsInv, StackInv
<1>13. FramesInv'
  <2>1. ASSUME NEW k \in 1..Len(frames)
        PROVE  \E i \in 1..Len(stack) : i \in 1..Len(stack') /\ stack'[i] = frames'[k].node
    BY <1>3, <1>6 DEF ComponentsInv, FramesInv
  <2>2. Len(stack) + 1 \in 1..Len(stack') /\ \A i \in 1..Len(stack) : i < Len(stack) + 1
    BY <1>3
  <2>3. \A k \in 1..Len(frames') : \E i \in 1..Len(stack') : stack'[i] = frames'[k].node
    BY <1>3, <1>6, <1>11, <2>1, <2>2
  <2>4. ASSUME NEW k \in 1..Len(frames), NEW l \in 1..Len(frames), k < l
        PROVE  \E i, j \in 1..Len(stack') :
                 i < j /\ stack'[i] = frames'[k].node /\ stack'[j] = frames'[l].node
    <3>1. PICK i \in 1..Len(stack), j \in 1..Len(stack) :
            i < j /\ stack[i] = frames[k].node /\ stack[j] = frames[l].node
      BY <2>4 DEF ComponentsInv, FramesInv
    <3> QED BY <1>3, <1>6, <3>1
  <2>5. ASSUME NEW k \in 1..Len(frames)
        PROVE  \E i, j \in 1..Len(stack') :
                 i < j /\ stack'[i] = frames'[k].node /\ stack'[j] = frames'[Len(frames) + 1].node
    BY <1>3, <1>6, <2>1, <2>2
  <2>6. ASSUME NEW k \in 1..Len(frames'), NEW l \in 1..Len(frames'), k < l
        PROVE  \E i, j \in 1..Len(stack') :
                 i < j /\ stack'[i] = frames'[k].node /\ stack'[j] = frames'[l].node
    <3>1. k \in 1..Len(frames)
      BY <1>6, <2>6
    <3> QED BY <1>11, <2>4, <2>5, <2>6, <3>1
  <2> QED BY <2>3, <2>6 DEF FramesInv
<1>14. ApartInv'
  <2>1. \A c \in components : \A m \in c : m \in Table /\ m # n
    BY <1>7 DEF ComponentsInv, StackInv, ApartInv
  <2> QED BY <1>3, <1>8, <1>10, <2>1 DEF ComponentsInv, ApartInv
<1> QED BY <1>12, <1>13, <1>14 DEF ComponentsInv

(* A component is complete: it is what the stack holds from its table on.  *)
LEMMA RetreatKeepsApart ==
  ASSUME ComponentsInv, Retreat
  PROVE  ComponentsInv'
<1> DEFINE n == Last(frames).node
           last == Len(frames)
           at == CHOOSE i \in 1..Len(stack) : stack[i] = n
<1>1. /\ frames # <<>> /\ frames' = SubSeq(frames, 1, last - 1)
      /\ UNCHANGED <<edges, index>>
      /\ \/ /\ components' = components \cup {Elements(SubSeq(stack, at, Len(stack)))}
            /\ stack' = SubSeq(stack, 1, at - 1)
         \/ UNCHANGED <<components, stack>>
  BY DEF Retreat, ButLast
<1>2. last \in Nat /\ last \in 1..last /\ n = frames[last].node
  BY <1>1 DEF ComponentsInv, StackInv, Last
<1>3. /\ frames' \in Seq(Frame) /\ Len(frames') = last - 1
      /\ \A k \in 1..(last - 1) : frames'[k] = frames[k]
  BY <1>1, <1>2, SplitElements DEF ComponentsInv, StackInv
<1>4. /\ \A k \in 1..last : \E i \in 1..Len(stack) : stack[i] = frames[k].node
      /\ \A k, l \in 1..last : k < l =>
           \E i, j \in 1..Len(stack) :
             i < j /\ stack[i] = frames[k].node /\ stack[j] = frames[l].node
  BY DEF ComponentsInv, FramesInv
<1> HIDE DEF n, last
<1>5. at \in 1..Len(stack) /\ stack[at] = n /\ Len(stack) \in Nat
  <2>1. \E i \in 1..Len(stack) : stack[i] = n
    BY <1>2, <1>4
  <2>2. at \in 1..Len(stack) /\ stack[at] = n
    BY <2>1
  <2> QED BY <2>2 DEF ComponentsInv, StackInv
<1> HIDE DEF at
<1>6. \A k \in 1..(last - 1) : k \in 1..last /\ k < last
  BY <1>2
<1>7. CASE UNCHANGED <<components, stack>>
  <2>1. StackInv' /\ ApartInv'
    BY <1>1, <1>3, <1>7 DEF ComponentsInv, StackInv, ApartInv
  <2>2. ASSUME NEW k \in 1..Len(frames')
        PROVE  \E i \in 1..Len(stack') : stack'[i] = frames'[k].node
    <3>1. k \in 1..(last - 1) /\ frames'[k] = frames[k]
      BY <1>3
    <3>2. \E i \in 1..Len(stack) : stack[i] = frames[k].node
      BY <1>4, <1>6, <3>1
    <3> QED BY <1>7, <3>1, <3>2
  <2>3. ASSUME NEW k \in 1..Len(frames'), NEW l \in 1..Len(frames'), k < l
        PROVE  \E i, j \in 1..Len(stack') :
                 i < j /\ stack'[i] = frames'[k].node /\ stack'[j] = frames'[l].node
    <3>1. k \in 1..last /\ l \in 1..last
      BY <1>3, <1>6
    <3>2. PICK i \in 1..Len(stack), j \in 1..Len(stack) :
            i < j /\ stack[i] = frames[k].node /\ stack[j] = frames[l].node
      BY <1>4, <2>3, <3>1
    <3> QED BY <1>3, <1>7, <3>2
  <2> QED BY <2>1, <2>2, <2>3 DEF ComponentsInv, FramesInv
<1>8. CASE /\ components' = components \cup {Elements(SubSeq(stack, at, Len(stack)))}
           /\ stack' = SubSeq(stack, 1, at - 1)
  <2> DEFINE new == Elements(SubSeq(stack, at, Len(stack)))
  <2>1. /\ stack' \in Seq(Table) /\ Len(stack') = at - 1
        /\ \A i \in 1..(at - 1) : stack'[i] = stack[i]
        /\ new = {stack[i] : i \in at..Len(stack)}
    BY <1>5, <1>8, SplitElements DEF ComponentsInv, StackInv
  <2> HIDE DEF new
  <2>2. \A i \in 1..(at - 1) : i \in 1..Len(stack) /\ i < at
    BY <1>5
  <2>3. \A i \in at..Len(stack) : i \in 1..Len(stack) /\ i >= at
    BY <1>5
  <2>4. new \subseteq Table
    BY <2>1, <2>3 DEF ComponentsInv, StackInv
  <2>5. StackInv'
    BY <1>1, <1>3, <1>8, <2>1, <2>2, <2>4 DEF ComponentsInv, StackInv, new
  <2>6. ASSUME NEW k \in 1..(last - 1)
        PROVE  \E i \in 1..(at - 1) : stack[i] = frames[k].node
    <3> k \in 1..last /\ k < last /\ last \in 1..last
      BY <1>2, <1>6
    <3>1. PICK i \in 1..Len(stack), j \in 1..Len(stack) :
            i < j /\ stack[i] = frames[k].node /\ stack[j] = n
      BY <1>2, <1>4
    <3>2. j = at
      BY <1>5, <3>1 DEF ComponentsInv, StackInv
    <3> QED BY <3>1, <3>2
  <2>7. \A k \in 1..Len(frames') : \E i \in 1..Len(stack') : stack'[i] = frames'[k].node
    BY <1>3, <2>1, <2>6
  <2>8. ASSUME NEW k \in 1..Len(frames'), NEW l \in 1..Len(frames'), k < l
        PROVE  \E i, j \in 1..Len(stack') :
                 i < j /\ stack'[i] = frames'[k].node /\ stack'[j] = frames'[l].node
    <3>1. k \in 1..(last - 1) /\ l \in 1..(last - 1) /\ k \in 1..last /\ l \in 1..last
      BY <1>3, <1>6
    <3>2. PICK i \in 1..Len(stack), j \in 1..Len(stack) :
            i < j /\ stack[i] = frames[k].node /\ stack[j] = frames[l].node
      BY <2>8, <3>1, <1>4
    <3>3. PICK m \in 1..(at - 1) : stack[m] = frames[l].node
      BY <2>6, <3>1
    <3>4. m = j
      BY <2>2, <3>2, <3>3 DEF ComponentsInv, StackInv
    <3>5. i \in 1..(at - 1) /\ j \in 1..(at - 1)
      BY <1>5, <3>2, <3>4
    <3> QED BY <1>3, <2>1, <3>1, <3>2, <3>5
  <2>9. FramesInv'
    BY <2>7, <2>8 DEF FramesInv
  <2>10. \A m \in new : index[m] > 0 /\ \A i \in 1..(at - 1) : stack[i] # m
    <3> SUFFICES ASSUME NEW i \in at..Len(stack)
                 PROVE  index[stack[i]] > 0 /\ \A j \in 1..(at - 1) : stack[j] # stack[i]
      BY <2>1
    <3>1. i \in 1..Len(stack) /\ i >= at /\ i \in Int /\ at \in Int
      BY <2>3, <1>5
    <3>2. ASSUME NEW j \in 1..(at - 1) PROVE stack[j] # stack[i]
      <4>1. j \in 1..Len(stack) /\ j # i
        BY <2>2, <3>1
      <4> QED BY <3>1, <4>1 DEF ComponentsInv, StackInv
    <3> QED BY <3>1, <3>2 DEF ComponentsInv, StackInv
  <2>11. \A c \in components : c \cap new = {}
    BY <2>1, <2>3 DEF ComponentsInv, ApartInv
  <2>12. ApartInv'
    <3>1. components' = components \cup {new}
      BY <1>8 DEF new
    <3>2. \A c \in components' : \A m \in c :
            index'[m] > 0 /\ \A i \in 1..Len(stack') : stack'[i] # m
      BY <1>1, <2>1, <2>2, <2>10, <3>1 DEF ComponentsInv, ApartInv
    <3>3. \A c, d \in components' : c = d \/ c \cap d = {}
      BY <2>11, <3>1 DEF ComponentsInv, ApartInv
    <3> QED BY <3>2, <3>3 DEF ApartInv
  <2> QED BY <2>5, <2>9, <2>12 DEF ComponentsInv
<1> QED BY <1>1, <1>7, <1>8 DEF at, n

(* The top of a work list is replaced.                                     *)
LEMMA ReplaceTop ==
  ASSUME NEW S, NEW s \in Seq(S), s # <<>>, NEW x \in S
  PROVE  LET t == Append(ButLast(s), x)
         IN /\ t \in Seq(S) /\ Len(t) = Len(s) /\ t[Len(s)] = x
            /\ \A k \in 1..(Len(s) - 1) : t[k] = s[k]
<1>1. Len(s) \in Nat /\ Len(s) \in 1..Len(s) /\ Last(s) \in S /\ Last(s) = s[Len(s)]
  BY DEF Last
<1>2. /\ ButLast(s) \in Seq(S) /\ Len(ButLast(s)) = Len(s) - 1
      /\ \A k \in 1..(Len(s) - 1) : ButLast(s)[k] = s[k]
  BY <1>1, SplitElements DEF ButLast
<1> QED BY <1>1, <1>2

LEMMA StepKeepsApart ==
  ASSUME ComponentsInv, [Next]_vars
  PROVE  ComponentsInv'
<1>1. ASSUME NEW n \in Table, Root(n) PROVE ComponentsInv'
  <2>1. n \notin Visited /\ frames = <<>> /\ Enter(n, <<>>) /\ UNCHANGED <<edges, components>>
    BY <1>1 DEF Root, First
  <2>2. <<>> \in Seq(Frame) /\ Len(<<>>) = 0 /\ Len(frames) = 0
    BY <2>1
  <2> QED BY <2>1, <2>2, EnterKeepsApart
<1>2. ASSUME NEW n \in Table, Look(n) PROVE ComponentsInv'
  <2> DEFINE top == Last(frames)
             seen == [top EXCEPT !.left = @ \ {n}]
             work == Append(ButLast(frames), seen)
  <2>1. /\ frames # <<>> /\ UNCHANGED <<edges, components>>
        /\ \/ n \notin Visited /\ Enter(n, work)
           \/ frames' = work /\ UNCHANGED <<index, stack>>
    BY <1>2 DEF Look
  <2>2. frames \in Seq(Frame) /\ Len(frames) \in Nat /\ Len(frames) \in 1..Len(frames)
    BY <2>1 DEF ComponentsInv, StackInv
  <2>3. top \in Frame /\ top = frames[Len(frames)]
    BY <2>2 DEF Last
  <2>4. seen \in Frame /\ seen.node = frames[Len(frames)].node
    BY <2>3 DEF Frame
  <2> HIDE DEF seen
  <2>5. /\ work \in Seq(Frame) /\ Len(work) = Len(frames) /\ work[Len(frames)] = seen
        /\ \A k \in 1..(Len(frames) - 1) : work[k] = frames[k]
    BY <2>1, <2>2, <2>4, ReplaceTop
  <2> HIDE DEF work
  <2>6. ASSUME NEW k \in 1..Len(frames) PROVE work[k].node = frames[k].node
    <3>1. k = Len(frames) \/ k \in 1..(Len(frames) - 1)
      BY <2>2
    <3> QED BY <2>4, <2>5, <3>1
  <2>7. CASE n \notin Visited /\ Enter(n, work)
    BY <2>1, <2>5, <2>6, <2>7, EnterKeepsApart
  <2>8. CASE frames' = work /\ UNCHANGED <<index, stack>>
    <3>1. FramesInv'
      <4>1. \A k \in 1..Len(frames') : k \in 1..Len(frames) /\ frames'[k].node = frames[k].node
        BY <2>5, <2>6, <2>8
      <4>2. \A k \in 1..Len(frames') : \E i \in 1..Len(stack') : stack'[i] = frames'[k].node
        BY <2>8, <4>1 DEF ComponentsInv, FramesInv
      <4>3. ASSUME NEW k \in 1..Len(frames'), NEW l \in 1..Len(frames'), k < l
            PROVE  \E i, j \in 1..Len(stack') :
                     i < j /\ stack'[i] = frames'[k].node /\ stack'[j] = frames'[l].node
        <5>1. PICK i \in 1..Len(stack), j \in 1..Len(stack) :
                i < j /\ stack[i] = frames[k].node /\ stack[j] = frames[l].node
          BY <4>1, <4>3 DEF ComponentsInv, FramesInv
        <5> QED BY <2>8, <4>1, <5>1
      <4> QED BY <4>2, <4>3 DEF FramesInv
    <3> QED BY <2>1, <2>5, <2>8, <3>1 DEF ComponentsInv, StackInv, ApartInv
  <2> QED BY <2>1, <2>7, <2>8
<1>3. ASSUME UNCHANGED <<edges, tarjan>> PROVE ComponentsInv'
  <2>1. StackInv' /\ ApartInv'
    BY <1>3 DEF tarjan, ComponentsInv, StackInv, ApartInv
  <2>2. UNCHANGED <<frames, stack>> /\ FramesInv
    BY <1>3 DEF tarjan, ComponentsInv
  <2>3. FramesInv'
    <3>1. \A k \in 1..Len(frames') : \E i \in 1..Len(stack') : stack'[i] = frames'[k].node
      BY <2>2 DEF FramesInv
    <3>2. ASSUME NEW k \in 1..Len(frames'), NEW l \in 1..Len(frames'), k < l
          PROVE  \E i, j \in 1..Len(stack') :
                   i < j /\ stack'[i] = frames'[k].node /\ stack'[j] = frames'[l].node
      BY <2>2, <3>2 DEF FramesInv
    <3> QED BY <3>1, <3>2 DEF FramesInv
  <2> QED BY <2>1, <2>3 DEF ComponentsInv
<1>4. ASSUME NEW n \in Table, SearchFrom(n) \/ Place(n) PROVE UNCHANGED <<edges, tarjan>>
  BY <1>4 DEF SearchFrom, Place
<1>5. ASSUME NEW c \in todo, OpenComponent(c) PROVE UNCHANGED <<edges, tarjan>>
  BY <1>5 DEF OpenComponent
<1>6. ASSUME NEW e \in remaining, NEW x \in remaining, Follow(e) \/ GiveUp(e) \/ Break(e, x)
      PROVE  UNCHANGED <<edges, tarjan>>
  BY <1>6 DEF Follow, GiveUp, Break
<1>7. ASSUME \/ EndComponents \/ Backtrack \/ CloseComponent \/ EndCycles \/ EndOrder
             \/ UNCHANGED vars
      PROVE  UNCHANGED <<edges, tarjan>>
  BY <1>7 DEF EndComponents, Backtrack, CloseComponent, EndCycles, EndOrder, vars
<1> QED
  BY <1>1, <1>2, <1>3, <1>4, <1>5, <1>6, <1>7, RetreatKeepsApart DEF Next

-----------------------------------------------------------------------------
(* The component at hand: its lookups are searched, those deferred before  *)
(* belong to other components.                                             *)

BreakInv ==
  /\ todo \subseteq components /\ remaining \subseteq edges
  /\ current # {} => /\ current \in components \ todo
                     /\ remaining \subseteq Intra(current) \ deferred
  /\ \A e \in deferred : \E c \in components \ todo : e \in Intra(c)
  /\ phase = "components" => deferred = {} /\ todo = {} /\ current = {}
  /\ current = {} => trail = <<>>

LEMMA StepKeepsBreaking ==
  ASSUME BreakInv, ComponentsInv, [Next]_vars
  PROVE  BreakInv'
<1> USE DEF BreakInv, Intra
<1>1. ASSUME NEW n \in Table, Root(n) \/ Look(n) PROVE BreakInv'
  BY <1>1 DEF Root, Look, breaking
<1>2. CASE Retreat
  BY <1>2 DEF Retreat, breaking
<1>3. CASE EndComponents
  BY <1>3 DEF EndComponents, tarjan
<1>4. ASSUME NEW c \in todo, OpenComponent(c) PROVE BreakInv'
  <2>1. /\ current' = c /\ todo' = todo \ {c} /\ remaining' = Intra(c) /\ trail' = <<>>
        /\ phase = "cycles" /\ current = {}
        /\ UNCHANGED <<edges, phase, components, deferred>>
    BY <1>4 DEF OpenComponent, SearchAnew, tarjan
  <2>2. ASSUME NEW e \in deferred, e \in Intra(c) PROVE FALSE
    <3>1. PICK d \in components \ todo : e \in Intra(d)
      BY <2>2
    <3>2. c # d /\ e.from \in c /\ e.from \in d
      BY <2>2, <3>1
    <3> QED BY <3>1, <3>2 DEF ComponentsInv, ApartInv
  <2> QED BY <2>1, <2>2
<1>5. ASSUME NEW n \in Table, SearchFrom(n) PROVE BreakInv'
  BY <1>5 DEF SearchFrom, tarjan
<1>6. ASSUME NEW n \in Table, Place(n) PROVE BreakInv'
  BY <1>6 DEF Place, tarjan, breaking
<1>7. ASSUME NEW e \in remaining, Follow(e) PROVE BreakInv'
  BY <1>7 DEF Follow, tarjan
<1>8. ASSUME NEW e \in remaining, GiveUp(e) PROVE BreakInv'
  BY <1>8 DEF GiveUp, SearchAnew, tarjan
<1>9. ASSUME NEW e \in remaining, NEW x \in remaining, Break(e, x) PROVE BreakInv'
  <2>1. /\ deferred' = deferred \cup {x} /\ remaining' = remaining \ {x} /\ trail' = <<>>
        /\ phase = "cycles" /\ trail # <<>>
        /\ UNCHANGED <<edges, phase, components, todo, current>>
    BY <1>9 DEF Break, Defer, SearchAnew, tarjan
  <2> QED BY <2>1
<1>10. CASE Backtrack
  BY <1>10 DEF Backtrack, ButLast, tarjan
<1>11. CASE CloseComponent
  BY <1>11 DEF CloseComponent, SearchAnew, tarjan
<1>12. CASE EndCycles \/ EndOrder \/ UNCHANGED vars
  BY <1>12 DEF EndCycles, EndOrder, vars, tarjan, breaking
<1> QED
  BY <1>1, <1>2, <1>3, <1>4, <1>5, <1>6, <1>7, <1>8, <1>9, <1>10, <1>11, <1>12 DEF Next

-----------------------------------------------------------------------------
(* The path of findCycle is made of lookups, so its tables lead to those   *)
(* that follow.                                                            *)

LEMMA ReachesSelf ==
  ASSUME NEW E, NEW n
  PROVE  Reaches(E, n, n)
BY DEF Reaches

LEMMA ReachesOn ==
  ASSUME NEW E, NEW n, NEW e \in E, Reaches(E, n, e.from)
  PROVE  Reaches(E, n, e.to)
BY DEF Reaches

LEMMA ReachesMore ==
  ASSUME NEW E, NEW F, E \subseteq F, NEW n, NEW m, Reaches(E, n, m)
  PROVE  Reaches(F, n, m)
BY DEF Reaches

LEMMA ReachesThrough ==
  ASSUME NEW E, NEW n, NEW m, NEW o, Reaches(E, n, m), Reaches(E, m, o)
  PROVE  Reaches(E, n, o)
BY DEF Reaches

Link == [node: Table, via: SUBSET Lookup, left: SUBSET Lookup]

\* t is a path along lookups of E.
Linked(t, E) ==
  /\ t \in Seq(Link)
  /\ \A i \in 1..Len(t) : \A e \in t[i].left : e \in E /\ e.from = t[i].node
  /\ \A i \in 2..Len(t) : \A e \in t[i].via :
       e \in E /\ e.from = t[i - 1].node /\ e.to = t[i].node
  /\ \A i, j \in 1..Len(t) : i <= j => Reaches(E, t[i].node, t[j].node)

LEMMA NoLinks ==
  ASSUME NEW E
  PROVE  Linked(<<>>, E)
BY DEF Linked

LEMMA FirstLink ==
  ASSUME NEW E \in SUBSET Lookup, NEW n \in Table
  PROVE  Linked(<<[node |-> n, via |-> {}, left |-> {e \in E : e.from = n}]>>, E)
<1> DEFINE t == <<[node |-> n, via |-> {}, left |-> {e \in E : e.from = n}]>>
<1>1. t \in Seq(Link) /\ Len(t) = 1 /\ t[1].node = n /\ t[1].left = {e \in E : e.from = n}
  BY DEF Link
<1> HIDE DEF t
<1>2. \A i, j \in 1..Len(t) : i <= j => Reaches(E, t[i].node, t[j].node)
  BY <1>1, ReachesSelf
<1> QED BY <1>1, <1>2 DEF Linked, t

LEMMA LessLeft ==
  ASSUME NEW E, NEW t, Linked(t, E), t # <<>>, NEW e
  PROVE  LET path == Append(ButLast(t), [Last(t) EXCEPT !.left = @ \ {e}])
         IN /\ Linked(path, E) /\ path # <<>> /\ Len(path) = Len(t)
            /\ Last(path).node = Last(t).node
<1> DEFINE top == [Last(t) EXCEPT !.left = @ \ {e}]
           path == Append(ButLast(t), top)
<1>1. t \in Seq(Link) /\ Len(t) \in Nat /\ Len(t) \in 1..Len(t) /\ Last(t) = t[Len(t)]
  BY DEF Linked, Last
<1>2. Last(t) \in Link
  BY <1>1
<1>3. /\ top \in Link /\ top.node = t[Len(t)].node /\ top.via = t[Len(t)].via
      /\ top.left \subseteq t[Len(t)].left
  BY <1>1, <1>2 DEF Link
<1> HIDE DEF top
<1>4. /\ path \in Seq(Link) /\ Len(path) = Len(t) /\ path[Len(t)] = top
      /\ \A k \in 1..(Len(t) - 1) : path[k] = t[k]
  BY <1>1, <1>3, ReplaceTop
<1> HIDE DEF path
<1>5. ASSUME NEW k \in 1..Len(t)
      PROVE  /\ path[k].node = t[k].node /\ path[k].via = t[k].via
             /\ path[k].left \subseteq t[k].left
  <2>1. k = Len(t) \/ k \in 1..(Len(t) - 1)
    BY <1>1
  <2> QED BY <1>3, <1>4, <2>1
<1>6. path # <<>> /\ Last(path) = top
  BY <1>1, <1>4 DEF Last
<1>7. \A i \in 2..Len(t) : i \in 1..Len(t) /\ i - 1 \in 1..Len(t)
  BY <1>1
<1>8. Linked(path, E)
  <2>1. \A i \in 1..Len(t) : \A x \in path[i].left : x \in E /\ x.from = path[i].node
    BY <1>5 DEF Linked
  <2>2. \A i \in 2..Len(t) : \A x \in path[i].via :
          x \in E /\ x.from = path[i - 1].node /\ x.to = path[i].node
    BY <1>5, <1>7 DEF Linked
  <2>3. \A i, j \in 1..Len(t) : i <= j => Reaches(E, path[i].node, path[j].node)
    BY <1>5 DEF Linked
  <2> QED BY <1>4, <2>1, <2>2, <2>3 DEF Linked
<1> QED BY <1>1, <1>3, <1>4, <1>6, <1>8 DEF path, top

LEMMA MoreLinks ==
  ASSUME NEW E \in SUBSET Lookup, NEW t, Linked(t, E), t # <<>>,
         NEW e \in E, e.from = Last(t).node
  PROVE  Linked(Append(t, [node |-> e.to, via |-> {e}, left |-> {x \in E : x.from = e.to}]), E)
<1> DEFINE link == [node |-> e.to, via |-> {e}, left |-> {x \in E : x.from = e.to}]
           path == Append(t, link)
           last == Len(t)
<1>1. t \in Seq(Link) /\ last \in Nat /\ last \in 1..last /\ e.from = t[last].node
  BY DEF Linked, Last
<1>2. link \in Link /\ link.node = e.to /\ link.via = {e} /\ \A x \in link.left : x \in E /\ x.from = e.to
  BY DEF Link, Lookup
<1> HIDE DEF link
<1>3. /\ path \in Seq(Link) /\ Len(path) = last + 1 /\ path[last + 1] = link
      /\ \A k \in 1..last : path[k] = t[k]
  BY <1>1, <1>2
<1>4. /\ \A i \in 1..last : \A x \in t[i].left : x \in E /\ x.from = t[i].node
      /\ \A i \in 2..last : \A x \in t[i].via :
           x \in E /\ x.from = t[i - 1].node /\ x.to = t[i].node
      /\ \A i, j \in 1..last : i <= j => Reaches(E, t[i].node, t[j].node)
  BY DEF Linked
<1> HIDE DEF path, last
<1>5. \A i \in 1..Len(path) : i = last + 1 \/ i \in 1..last
  BY <1>1, <1>3
<1>6. \A i \in 1..Len(path) : \A x \in path[i].left : x \in E /\ x.from = path[i].node
  BY <1>2, <1>3, <1>4, <1>5
<1>7. ASSUME NEW i \in 2..Len(path), NEW x \in path[i].via
      PROVE  x \in E /\ x.from = path[i - 1].node /\ x.to = path[i].node
  <2>1. CASE i = last + 1
    <3>1. i - 1 = last
      BY <1>1, <2>1
    <3> QED BY <1>1, <1>2, <1>3, <1>7, <2>1, <3>1
  <2>2. CASE i \in 2..last
    <3>1. i \in 1..last /\ i - 1 \in 1..last
      BY <1>1, <2>2
    <3> QED BY <1>3, <1>4, <1>7, <2>2, <3>1
  <2> QED BY <1>1, <1>3, <2>1, <2>2
<1>8. ASSUME NEW i \in 1..Len(path), NEW j \in 1..Len(path), i <= j
      PROVE  Reaches(E, path[i].node, path[j].node)
  <2>1. CASE j \in 1..last
    <3>1. i \in 1..last
      BY <1>1, <1>3, <1>8, <2>1
    <3> QED BY <1>3, <1>4, <1>8, <2>1, <3>1
  <2>2. CASE j = last + 1 /\ i \in 1..last
    <3>1. i <= last
      BY <1>1, <2>2
    <3>2. Reaches(E, t[i].node, e.from)
      BY <1>1, <1>4, <2>2, <3>1
    <3> QED BY <1>2, <1>3, <2>2, <3>2, ReachesOn
  <2>3. CASE i = last + 1 /\ j = last + 1
    BY <2>3, ReachesSelf
  <2> QED BY <1>1, <1>3, <1>5, <1>8, <2>1, <2>2, <2>3
<1> QED BY <1>3, <1>6, <1>7, <1>8 DEF Linked, path, link

LEMMA FewerLinks ==
  ASSUME NEW E, NEW t, Linked(t, E), t # <<>>
  PROVE  Linked(ButLast(t), E)
<1>1. t \in Seq(Link) /\ Len(t) \in Nat /\ Len(t) \in 1..Len(t)
  BY DEF Linked
<1>2. /\ ButLast(t) \in Seq(Link) /\ Len(ButLast(t)) = Len(t) - 1
      /\ \A k \in 1..(Len(t) - 1) : ButLast(t)[k] = t[k]
  BY <1>1, SplitElements DEF ButLast
<1>3. /\ \A i \in 1..(Len(t) - 1) : i \in 1..Len(t)
      /\ \A i \in 2..(Len(t) - 1) : i \in 2..Len(t) /\ i - 1 \in 1..(Len(t) - 1) /\ i \in 1..(Len(t) - 1)
  BY <1>1
<1> QED BY <1>2, <1>3 DEF Linked

(* A lookup of the circle that has been found leads back to its own table. *)
LEMMA CycleLeadsBack ==
  ASSUME NEW E, Linked(trail, E), trail # <<>>, NEW e \in Last(trail).left, OnTrail(e.to),
         NEW x \in Cycle(e)
  PROVE  x \in E /\ Reaches(E, x.to, x.from)
<1> DEFINE last == Len(trail)
           i == CHOOSE j \in 1..Len(trail) : trail[j].node = e.to
<1>1. last \in Nat /\ last \in 1..last /\ e \in E /\ e.from = trail[last].node
  BY DEF Linked, Last
<1>2. i \in 1..last /\ trail[i].node = e.to
  BY DEF OnTrail
<1>3. x = e \/ \E j \in (i + 1)..last : x \in trail[j].via
  BY DEF Cycle
<1> HIDE DEF i
<1>4. /\ \A j \in 2..last : \A y \in trail[j].via :
           y \in E /\ y.from = trail[j - 1].node /\ y.to = trail[j].node
      /\ \A j, k \in 1..last : j <= k => Reaches(E, trail[j].node, trail[k].node)
  BY DEF Linked
<1> HIDE DEF last
<1>5. CASE x = e
  <2>1. i <= last
    BY <1>1, <1>2
  <2> QED BY <1>1, <1>2, <1>4, <1>5, <2>1
<1>6. ASSUME NEW j \in (i + 1)..last, x \in trail[j].via
      PROVE  x \in E /\ Reaches(E, x.to, x.from)
  <2>1. j \in 2..last /\ j \in 1..last /\ j <= last /\ j - 1 \in 1..last /\ i <= j - 1
    BY <1>1, <1>2
  <2>2. x \in E /\ x.from = trail[j - 1].node /\ x.to = trail[j].node
    BY <1>4, <1>6, <2>1
  <2>3. Reaches(E, x.to, e.from)
    BY <1>1, <1>4, <2>1, <2>2
  <2>4. Reaches(E, x.to, e.to)
    BY <1>1, <2>3, ReachesOn
  <2>5. Reaches(E, e.to, x.from)
    BY <1>2, <1>4, <2>1, <2>2
  <2> QED BY <2>2, <2>4, <2>5, ReachesThrough
<1> QED BY <1>3, <1>5, <1>6

PathInv == Linked(trail, remaining)

LEMMA StepKeepsPath ==
  ASSUME PathInv, BreakInv, ComponentsInv, [Next]_vars
  PROVE  PathInv'
<1>1. remaining \in SUBSET Lookup
  BY DEF BreakInv, ComponentsInv, StackInv
<1>2. ASSUME trail' = <<>> PROVE PathInv'
  BY <1>2, NoLinks DEF PathInv
<1>3. ASSUME UNCHANGED <<trail, remaining>> PROVE PathInv'
  BY <1>3 DEF PathInv
<1>4. ASSUME NEW n \in Table, Root(n) \/ Look(n) \/ Place(n)
      PROVE  UNCHANGED <<trail, remaining>>
  BY <1>4 DEF Root, Look, Place, breaking
<1>5. ASSUME NEW n \in Table, SearchFrom(n) PROVE PathInv'
  <2>1. /\ trail' = <<[node |-> n, via |-> {}, left |-> {e \in remaining : e.from = n}]>>
        /\ remaining' = remaining
    BY <1>5 DEF SearchFrom, Step
  <2> QED BY <1>1, <2>1, FirstLink DEF PathInv
<1>6. ASSUME NEW e \in remaining, Follow(e) PROVE PathInv'
  <2> DEFINE path == Append(ButLast(trail), [Last(trail) EXCEPT !.left = @ \ {e}])
  <2>1. /\ trail # <<>> /\ e \in Last(trail).left /\ remaining' = remaining
        /\ \/ trail' = path
           \/ trail' = Append(path, [node |-> e.to, via |-> {e},
                                     left |-> {x \in remaining : x.from = e.to}])
    BY <1>6 DEF Follow, Step
  <2>2. Linked(path, remaining) /\ path # <<>> /\ Last(path).node = Last(trail).node
    BY <2>1, LessLeft DEF PathInv
  <2>3. e.from = Last(trail).node
    <3>1. Len(trail) \in 1..Len(trail)
      BY <2>1 DEF PathInv, Linked
    <3> QED BY <2>1, <3>1 DEF PathInv, Linked, Last
  <2> HIDE DEF path
  <2>4. Linked(Append(path, [node |-> e.to, via |-> {e},
                             left |-> {x \in remaining : x.from = e.to}]), remaining)
    BY <1>1, <2>2, <2>3, MoreLinks
  <2> QED BY <2>1, <2>2, <2>4 DEF PathInv
<1>7. CASE Backtrack
  BY <1>7, FewerLinks DEF Backtrack, PathInv
<1>8. ASSUME NEW c \in todo, OpenComponent(c) PROVE trail' = <<>>
  BY <1>8 DEF OpenComponent, SearchAnew
<1>9. ASSUME NEW e \in remaining, NEW x \in remaining, GiveUp(e) \/ Break(e, x)
      PROVE  trail' = <<>>
  BY <1>9 DEF GiveUp, Break, SearchAnew
<1>10. ASSUME CloseComponent PROVE trail' = <<>>
  BY <1>10 DEF CloseComponent, SearchAnew
<1>11. ASSUME Retreat \/ EndComponents \/ EndCycles \/ EndOrder \/ UNCHANGED vars
       PROVE  UNCHANGED <<trail, remaining>>
  BY <1>11 DEF Retreat, EndComponents, EndCycles, EndOrder, vars, breaking
<1> QED
  BY <1>2, <1>3, <1>4, <1>5, <1>6, <1>7, <1>8, <1>9, <1>10, <1>11 DEF Next

-----------------------------------------------------------------------------
(* The components found are the right ones.  A table is open while it is on *)
(* the stack and finished when it is in a component; the tables being      *)
(* worked on, the frames, are open, in the order of their numbers.          *)

Open == Elements(stack)
Finished == UNION components
Node(k) == frames[k].node

\* Numbers grow along the stack.
NumbersInv ==
  /\ low \in [Table -> Nat]
  /\ \A n \in Table : index[n] <= Cardinality(Visited)
  /\ \A i, j \in 1..Len(stack) : i < j => index[stack[i]] < index[stack[j]]
  /\ Visited = Open \cup Finished

\* A lookup of a visited table to one that is not is still to be looked at.
SeenInv ==
  /\ \A k \in 1..Len(frames) : frames[k].left \subseteq Neighbours(Node(k))
  /\ \A e \in edges : e.from \in Visited /\ e.to \notin Visited =>
       \E k \in 1..Len(frames) : Node(k) = e.from /\ e.to \in frames[k].left

\* A frame leads to all open tables above it, each of which leads to a frame
\* below it.
PathsInv ==
  /\ \A k \in 1..Len(frames) : \A m \in Open :
       index[Node(k)] <= index[m] => Reaches(edges, Node(k), m)
  /\ \A m \in Open : \E k \in 1..Len(frames) :
       index[Node(k)] <= index[m] /\ Reaches(edges, m, Node(k))

\* Lookup e was looked at, of a table that belongs to frame k and no later one.
Seen(k, e) ==
  /\ e.from \in Open /\ e.to \in Open /\ index[Node(k)] <= index[e.from]
  /\ \A l \in (k + 1)..Len(frames) : index[e.from] < index[Node(l)]
  /\ ~(e.from = Node(k) /\ e.to \in frames[k].left)

\* The low number of a frame is that of an open table it leads to, and no
\* lookup seen so far leads further down.
LowInv ==
  \A k \in 1..Len(frames) :
    /\ low[Node(k)] <= index[Node(k)]
    /\ \E m \in Open : index[m] = low[Node(k)] /\ Reaches(edges, Node(k), m)
    /\ \A e \in edges : Seen(k, e) => low[Node(k)] <= index[e.to]

\* What leads to each other.
Mutual(n) == {m \in Table : Reaches(edges, n, m) /\ Reaches(edges, m, n)}

MutualInv ==
  /\ \A c \in components : c # {} /\ \A n \in c : c = Mutual(n)
  /\ \A e \in edges : e.from \in Finished => e.to \in Finished
  /\ phase # "components" => frames = <<>> /\ Visited = Table

\* What the search for components keeps.
SearchInv == NumbersInv /\ SeenInv /\ PathsInv /\ LowInv

LEMMA OpenTables ==
  ASSUME ComponentsInv, NumbersInv
  PROVE  /\ Open \subseteq Visited /\ Visited \subseteq Table /\ Finished \cap Open = {}
         /\ \A n \in Table : index[n] \in Nat /\ low[n] \in Nat
         /\ \A k \in 1..Len(frames) : Node(k) \in Open /\ Node(k) \in Table
         /\ \A k, l \in 1..Len(frames) : k < l => index[Node(k)] < index[Node(l)]
         /\ \A i \in 1..Len(stack), j \in 1..Len(stack) :
              i < j <=> index[stack[i]] < index[stack[j]]
<1>1. /\ stack \in Seq(Table) /\ Len(stack) \in Nat /\ index \in [Table -> Nat]
      /\ \A i \in 1..Len(stack) : stack[i] \in Table /\ stack[i] \in Open
  BY DEF ComponentsInv, StackInv, Open, Elements
<1>2. Open \subseteq Visited /\ Visited \subseteq Table
  BY <1>1 DEF Open, Elements, Visited, ComponentsInv, StackInv
<1>3. Finished \cap Open = {}
  BY DEF Finished, Open, Elements, ComponentsInv, ApartInv
<1>4. \A n \in Table : index[n] \in Nat /\ low[n] \in Nat
  BY <1>1 DEF NumbersInv
<1>5. \A k \in 1..Len(frames) : Node(k) \in Open /\ Node(k) \in Table
  <2> SUFFICES ASSUME NEW k \in 1..Len(frames) PROVE Node(k) \in Open /\ Node(k) \in Table
    OBVIOUS
  <2>1. \E i \in 1..Len(stack) : stack[i] = Node(k)
    BY DEF ComponentsInv, FramesInv, Node
  <2> QED BY <1>1, <2>1
<1>6. ASSUME NEW k \in 1..Len(frames), NEW l \in 1..Len(frames), k < l
      PROVE  index[Node(k)] < index[Node(l)]
  <2>1. PICK i \in 1..Len(stack), j \in 1..Len(stack) :
          i < j /\ stack[i] = Node(k) /\ stack[j] = Node(l)
    BY <1>6 DEF ComponentsInv, FramesInv, Node
  <2> QED BY <2>1 DEF NumbersInv
<1>7. ASSUME NEW i \in 1..Len(stack), NEW j \in 1..Len(stack)
      PROVE  i < j <=> index[stack[i]] < index[stack[j]]
  <2>1. i \in Int /\ j \in Int /\ index[stack[i]] \in Nat /\ index[stack[j]] \in Nat
    BY <1>1, <1>4
  <2>2. CASE i = j
    BY <2>1, <2>2
  <2>3. CASE i < j
    BY <2>1, <2>3 DEF NumbersInv
  <2>4. CASE j < i
    BY <2>1, <2>4 DEF NumbersInv
  <2> QED BY <2>1, <2>2, <2>3, <2>4
<1> QED BY <1>2, <1>3, <1>4, <1>5, <1>6, <1>7

LEMMA FramesAre ==
  ASSUME ComponentsInv
  PROVE  /\ Len(frames) \in Nat
         /\ frames # <<>> => Len(frames) > 0 /\ Len(frames) \in 1..Len(frames)
  BY DEF ComponentsInv, StackInv

-----------------------------------------------------------------------------
(* What the steps of the search do.                                        *)

Entering(n, number) ==
  /\ n \in Table \ Visited /\ number \in Nat /\ \A m \in Table : index[m] < number
  /\ \A m \in Table : /\ index'[m] = IF m = n THEN number ELSE index[m]
                      /\ low'[m] = IF m = n THEN number ELSE low[m]
  /\ Visited' = Visited \cup {n} /\ Open' = Open \cup {n}
  /\ Len(frames) \in Nat /\ Len(frames') = Len(frames) + 1
  /\ frames'[Len(frames) + 1] = [node |-> n, left |-> Neighbours(n)]
  /\ \A k \in 1..Len(frames) : /\ frames'[k].node = frames[k].node
                               /\ frames'[k].left \subseteq frames[k].left
                               /\ frames[k].left \subseteq frames'[k].left \cup {n}
  /\ frames # <<>> => \E e \in edges : e.from = Node(Len(frames)) /\ e.to = n
  /\ UNCHANGED <<edges, components>>

LEMMA Enters ==
  ASSUME ComponentsInv, NumbersInv, NEW n \in Table \ Visited,
         NEW work \in Seq(Frame), Len(work) = Len(frames),
         \A k \in 1..Len(frames) : /\ work[k].node = frames[k].node
                                   /\ work[k].left \subseteq frames[k].left
                                   /\ frames[k].left \subseteq work[k].left \cup {n},
         frames # <<>> => \E e \in edges : e.from = Node(Len(frames)) /\ e.to = n,
         Enter(n, work), UNCHANGED <<edges, components>>
  PROVE  NumbersInv' /\ \E number : Entering(n, number)
<1> DEFINE number == Cardinality(Visited) + 1
<1>0. IsFiniteSet(Visited) /\ Cardinality(Visited) \in Nat
  <2>1. IsFiniteSet(Table)
    BY DependencyAssumption, FS_Interval DEF Table
  <2>2. IsFiniteSet(Visited)
    BY <2>1, FS_Subset DEF Visited
  <2> QED BY <2>2, FS_CardinalityType
<1>1. number \in Nat /\ number > 0
  BY <1>0
<1>2. \A m \in Table : index[m] < number /\ index[m] \in Nat
  <2> SUFFICES ASSUME NEW m \in Table PROVE index[m] < number /\ index[m] \in Nat
    OBVIOUS
  <2>1. index[m] \in Nat /\ index[m] <= Cardinality(Visited)
    BY DEF NumbersInv, ComponentsInv, StackInv
  <2> QED BY <1>0, <2>1
<1>3. /\ index' = [index EXCEPT ![n] = number] /\ low' = [low EXCEPT ![n] = number]
      /\ stack' = Append(stack, n)
      /\ frames' = Append(work, [node |-> n, left |-> Neighbours(n)])
  BY DEF Enter
<1>4. \A m \in Table : /\ index'[m] = IF m = n THEN number ELSE index[m]
                       /\ low'[m] = IF m = n THEN number ELSE low[m]
  BY <1>3 DEF ComponentsInv, StackInv, NumbersInv
<1>5. Visited' = Visited \cup {n}
  BY <1>1, <1>4 DEF Visited
<1>6. Cardinality(Visited') = number
  BY <1>0, <1>5, FS_AddElement
<1> HIDE DEF number
<1>7. stack \in Seq(Table) /\ Open' = Open \cup {n}
  BY <1>3, AppendElements DEF ComponentsInv, StackInv, Open
<1>8. [node |-> n, left |-> Neighbours(n)] \in Frame
  BY DEF Neighbours, ComponentsInv, StackInv, Lookup, Frame
<1>9. /\ Len(frames) \in Nat /\ Len(frames') = Len(frames) + 1
      /\ frames'[Len(frames) + 1] = [node |-> n, left |-> Neighbours(n)]
      /\ \A k \in 1..Len(frames) : frames'[k] = work[k]
  BY <1>3, <1>8 DEF ComponentsInv, StackInv
<1>10. Entering(n, number)
  BY <1>1, <1>2, <1>4, <1>5, <1>7, <1>9 DEF Entering
<1>11. NumbersInv'
  <2>1. low' \in [Table -> Nat]
    BY <1>1, <1>3 DEF NumbersInv
  <2>2. \A m \in Table : index'[m] <= number
    BY <1>1, <1>2, <1>4
  <2>3. ASSUME NEW i \in 1..Len(stack'), NEW j \in 1..Len(stack'), i < j
        PROVE  index'[stack'[i]] < index'[stack'[j]]
    <3>1. /\ Len(stack) \in Nat /\ Len(stack') = Len(stack) + 1 /\ stack'[Len(stack) + 1] = n
          /\ \A h \in 1..Len(stack) : stack'[h] = stack[h]
      BY <1>3, <1>7
    <3>2. i \in 1..Len(stack) /\ (j \in 1..Len(stack) \/ j = Len(stack) + 1)
      BY <2>3, <3>1
    <3>3. \A h \in 1..Len(stack) : stack[h] \in Table /\ stack[h] # n
      BY <1>7 DEF ComponentsInv, StackInv, Visited
    <3>4. index'[stack'[i]] = index[stack[i]] /\ index[stack[i]] < number
      BY <1>2, <1>4, <3>1, <3>2, <3>3
    <3>5. CASE j = Len(stack) + 1
      BY <1>4, <3>1, <3>4, <3>5
    <3>6. CASE j \in 1..Len(stack)
      <4>1. index'[stack'[j]] = index[stack[j]]
        BY <1>4, <3>1, <3>3, <3>6
      <4> QED BY <2>3, <3>2, <3>4, <3>6, <4>1 DEF NumbersInv
    <3> QED BY <3>2, <3>5, <3>6
  <2>4. Visited' = (Open \cup Finished)'
    BY <1>5, <1>7 DEF NumbersInv, Finished
  <2> QED BY <1>6, <2>1, <2>2, <2>3, <2>4 DEF NumbersInv
<1> QED BY <1>10, <1>11

LEMMA EnterKeepsSearch ==
  ASSUME ComponentsInv, SearchInv, NEW n, NEW number, Entering(n, number)
  PROVE  SeenInv' /\ PathsInv' /\ LowInv'
<1>0. PICK last : last = Len(frames)
  OBVIOUS
<1>1. /\ Open \subseteq Visited /\ Visited \subseteq Table
      /\ \A m \in Table : index[m] \in Nat /\ low[m] \in Nat
      /\ \A k \in 1..last : Node(k) \in Open /\ Node(k) \in Table
      /\ \A k, l \in 1..last : k < l => index[Node(k)] < index[Node(l)]
  BY <1>0, OpenTables DEF SearchInv
<1>2. /\ n \in Table \ Visited /\ number \in Nat /\ \A m \in Table : index[m] < number
      /\ \A m \in Table : /\ index'[m] = IF m = n THEN number ELSE index[m]
                          /\ low'[m] = IF m = n THEN number ELSE low[m]
      /\ Visited' = Visited \cup {n} /\ Open' = Open \cup {n}
      /\ UNCHANGED <<edges, components>>
  BY DEF Entering
<1>3. last \in Nat /\ Len(frames') = last + 1
  BY <1>0 DEF Entering
<1>4. Node(last + 1)' = n /\ frames'[last + 1].left = Neighbours(n)
  BY <1>0 DEF Entering, Node
<1>5. \A k \in 1..last : /\ Node(k)' = Node(k)
                         /\ frames'[k].left \subseteq frames[k].left
                         /\ frames[k].left \subseteq frames'[k].left \cup {n}
  BY <1>0 DEF Entering, Node
<1>6. frames # <<>> => last \in 1..last /\ \E e \in edges : e.from = Node(last) /\ e.to = n
  BY <1>0, <1>3, FramesAre DEF Entering
<1>7. last # 0 => frames # <<>>
  BY <1>0
<1>8. /\ 1..Len(frames') = (1..last) \cup {last + 1} /\ last + 1 \notin 1..last
  BY <1>3
<1>9. \A m \in Open : m \in Table /\ m # n
  BY <1>1, <1>2
<1>10. SeenInv'
  <2>1. \A m : Neighbours(m)' = Neighbours(m)
    BY <1>2 DEF Neighbours
  <2>2. \A k \in 1..Len(frames') : frames'[k].left \subseteq Neighbours(Node(k)')
    BY <1>0, <1>4, <1>5, <1>8 DEF SearchInv, SeenInv
  <2>3. ASSUME NEW e \in edges, e.from \in Visited', e.to \notin Visited'
        PROVE  \E k \in 1..Len(frames') : Node(k)' = e.from /\ e.to \in frames'[k].left
    <3>1. CASE e.from = n
      <4>1. e.to \in Neighbours(n)
        BY <3>1 DEF Neighbours
      <4> QED BY <1>4, <1>8, <3>1, <4>1
    <3>2. CASE e.from # n
      <4>1. e.from \in Visited /\ e.to \notin Visited /\ e.to # n
        BY <1>2, <2>3, <3>2
      <4>2. PICK k \in 1..last : Node(k) = e.from /\ e.to \in frames[k].left
        BY <1>0, <4>1 DEF SearchInv, SeenInv
      <4> QED BY <1>5, <1>8, <4>1, <4>2
    <3> QED BY <3>1, <3>2
  <2> QED BY <1>2, <2>1, <2>2, <2>3 DEF SeenInv
<1>11. ASSUME NEW k \in 1..last PROVE Reaches(edges, Node(k), n)
  <2>1. last \in 1..last /\ k <= last
    BY <1>3
  <2>2. PICK e \in edges : e.from = Node(last) /\ e.to = n
    BY <1>6, <1>7, <2>1
  <2>3. index[Node(k)] <= index[Node(last)]
    BY <1>1, <1>3, <2>1
  <2>4. Reaches(edges, Node(k), Node(last))
    BY <1>0, <1>1, <2>1, <2>3 DEF SearchInv, PathsInv
  <2> QED BY <2>2, <2>4, ReachesOn
<1>12. PathsInv'
  <2>1. ASSUME NEW k \in 1..Len(frames'), NEW m \in Open', index'[Node(k)'] <= index'[m]
        PROVE  Reaches(edges, Node(k)', m)
    <3>1. CASE m = n /\ k = last + 1
      BY <1>4, <3>1, ReachesSelf
    <3>2. CASE m = n /\ k \in 1..last
      BY <1>5, <1>11, <3>2
    <3>3. CASE m \in Open /\ k = last + 1
      BY <1>2, <1>4, <1>9, <2>1, <3>3, <1>1
    <3>4. CASE m \in Open /\ k \in 1..last
      <4>1. index[Node(k)] <= index[m]
        BY <1>1, <1>2, <1>5, <1>9, <2>1, <3>4
      <4> QED BY <1>0, <1>5, <3>4, <4>1 DEF SearchInv, PathsInv
    <3> QED BY <1>2, <1>8, <3>1, <3>2, <3>3, <3>4
  <2>2. ASSUME NEW m \in Open'
        PROVE  \E k \in 1..Len(frames') :
                 index'[Node(k)'] <= index'[m] /\ Reaches(edges, m, Node(k)')
    <3>1. CASE m = n
      BY <1>2, <1>4, <1>8, <3>1, ReachesSelf
    <3>2. CASE m \in Open
      <4>1. PICK k \in 1..last : index[Node(k)] <= index[m] /\ Reaches(edges, m, Node(k))
        BY <1>0, <3>2 DEF SearchInv, PathsInv
      <4>2. index'[Node(k)'] <= index'[m]
        BY <1>1, <1>2, <1>5, <1>9, <3>2, <4>1
      <4> QED BY <1>5, <1>8, <4>1, <4>2
    <3> QED BY <1>2, <3>1, <3>2
  <2> QED BY <1>2, <2>1, <2>2 DEF PathsInv
<1>13. ASSUME NEW k \in 1..Len(frames')
       PROVE  /\ low'[Node(k)'] <= index'[Node(k)']
              /\ \E m \in Open' : index'[m] = low'[Node(k)'] /\ Reaches(edges, Node(k)', m)
              /\ \A e \in edges : Seen(k, e)' => low'[Node(k)'] <= index'[e.to]
  <2>1. CASE k = last + 1
    <3>1. Node(k)' = n /\ low'[n] = number /\ index'[n] = number /\ n \in Open'
      BY <1>2, <1>4, <2>1
    <3>2. ASSUME NEW e \in edges, Seen(k, e)' PROVE FALSE
      <4>1. e.from \in Open' /\ number <= index'[e.from] /\ ~(e.from = n /\ e.to \in Neighbours(n))
        BY <1>2, <1>4, <2>1, <3>1, <3>2 DEF Seen
      <4>2. e.from # n
        BY <4>1 DEF Neighbours
      <4>3. e.from \in Table /\ index'[e.from] = index[e.from]
        BY <1>2, <1>9, <4>1, <4>2
      <4> QED BY <1>1, <1>2, <4>1, <4>3
    <3> QED BY <1>2, <3>1, <3>2, ReachesSelf
  <2>2. CASE k \in 1..last
    <3>1. /\ Node(k)' = Node(k) /\ Node(k) \in Table /\ Node(k) # n
          /\ low'[Node(k)] = low[Node(k)] /\ index'[Node(k)] = index[Node(k)]
      BY <1>1, <1>2, <1>5, <1>9, <2>2
    <3>2. /\ low[Node(k)] <= index[Node(k)]
          /\ \E m \in Open : index[m] = low[Node(k)] /\ Reaches(edges, Node(k), m)
          /\ \A e \in edges : Seen(k, e) => low[Node(k)] <= index[e.to]
      BY <1>0, <2>2 DEF SearchInv, LowInv
    <3>3. \E m \in Open' : index'[m] = low'[Node(k)'] /\ Reaches(edges, Node(k)', m)
      BY <1>2, <1>9, <3>1, <3>2
    <3>4. ASSUME NEW e \in edges, Seen(k, e)' PROVE low[Node(k)] <= index'[e.to]
      <4>1. /\ e.from \in Open' /\ e.to \in Open' /\ index[Node(k)] <= index'[e.from]
            /\ \A l \in (k + 1)..Len(frames') : index'[e.from] < index'[Node(l)']
            /\ ~(e.from = Node(k) /\ e.to \in frames'[k].left)
        BY <3>1, <3>4 DEF Seen
      <4>2. CASE e.to = n
        BY <1>1, <1>2, <3>1, <3>2, <4>2
      <4>3. CASE e.to # n
        <5>1. last + 1 \in (k + 1)..Len(frames')
          BY <1>3, <2>2
        <5>2. index'[e.from] < number
          BY <1>2, <1>4, <4>1, <5>1
        <5>3. e.from # n /\ e.from \in Open /\ e.to \in Open
          BY <1>2, <4>1, <4>3, <5>2
        <5>4. index'[e.from] = index[e.from] /\ index'[e.to] = index[e.to]
          BY <1>2, <1>9, <5>3, <4>3
        <5>5. ASSUME NEW l \in (k + 1)..last PROVE index[e.from] < index[Node(l)]
          <6>1. l \in (k + 1)..Len(frames') /\ l \in 1..last
            BY <1>3, <2>2
          <6>2. Node(l)' = Node(l) /\ Node(l) \in Table /\ Node(l) # n
            BY <1>1, <1>5, <1>9, <6>1
          <6>3. index'[Node(l)] = index[Node(l)]
            BY <1>2, <6>2
          <6> QED BY <4>1, <5>4, <6>1, <6>2, <6>3
        <5>6. ~(e.from = Node(k) /\ e.to \in frames[k].left)
          BY <1>5, <2>2, <4>1, <4>3
        <5>7. Seen(k, e)
          BY <1>0, <4>1, <5>3, <5>4, <5>5, <5>6 DEF Seen
        <5> QED BY <3>2, <5>4, <5>7
      <4> QED BY <4>2, <4>3
    <3> QED BY <3>1, <3>2, <3>3, <3>4
  <2> QED BY <1>8, <2>1, <2>2
<1>14. LowInv'
  BY <1>2, <1>13 DEF LowInv
<1> QED BY <1>10, <1>12, <1>14

\* A neighbour that has a number is looked at.
Looking(next, last) ==
  /\ last \in 1..Len(frames) /\ last = Len(frames) /\ next \in Visited
  /\ \E e \in edges : e.from = Node(last) /\ e.to = next
  /\ Len(frames') = last
  /\ \A k \in 1..last : frames'[k].node = frames[k].node
  /\ \A k \in 1..(last - 1) : frames'[k].left = frames[k].left
  /\ frames'[last].left = frames[last].left \ {next}
  /\ \A m \in Table :
       low'[m] = IF m = Node(last) /\ next \in Open THEN Smaller(low[m], index[next]) ELSE low[m]
  /\ UNCHANGED <<edges, components, index, stack>>

LEMMA LooksAt ==
  ASSUME ComponentsInv, SearchInv, NEW next \in Table, Look(next), next \in Visited
  PROVE  NumbersInv' /\ Looking(next, Len(frames))
<1>0. PICK last : last = Len(frames)
  OBVIOUS
<1> DEFINE top == Last(frames)
           seen == [top EXCEPT !.left = @ \ {next}]
           work == Append(ButLast(frames), seen)
<1>1. /\ frames # <<>> /\ next \in top.left /\ frames' = work
      /\ low' = [low EXCEPT ![top.node] = IF next \in Open THEN Smaller(@, index[next]) ELSE @]
      /\ UNCHANGED <<edges, components, index, stack>>
  BY DEF Look, LooksBack, Open
<1>2. last \in 1..last /\ last = Len(frames) /\ last \in Nat /\ top = frames[last] /\ top \in Frame
  BY <1>0, <1>1, FramesAre DEF ComponentsInv, StackInv, Last
<1>3. seen \in Frame /\ seen.node = top.node /\ seen.left = top.left \ {next}
  BY <1>2 DEF Frame
<1> HIDE DEF seen
<1>4. /\ Len(work) = last /\ work[last] = seen /\ \A k \in 1..(last - 1) : work[k] = frames[k]
  BY <1>1, <1>2, <1>3, ReplaceTop DEF ComponentsInv, StackInv
<1> HIDE DEF work
<1>5. \A k \in 1..last : k = last \/ k \in 1..(last - 1)
  BY <1>2
<1>6. \A k \in 1..last : frames'[k].node = frames[k].node
  BY <1>1, <1>2, <1>3, <1>4, <1>5
<1>7. Node(last) = top.node /\ Node(last) \in Table
  BY <1>2, OpenTables DEF Node, SearchInv
<1>8. low \in [Table -> Nat] /\ index \in [Table -> Nat]
  BY DEF SearchInv, NumbersInv, ComponentsInv, StackInv
<1>9. \A m \in Table :
        low'[m] = IF m = Node(last) /\ next \in Open THEN Smaller(low[m], index[next]) ELSE low[m]
  BY <1>1, <1>7, <1>8
<1>10. \E e \in edges : e.from = Node(last) /\ e.to = next
  <2>1. next \in Neighbours(Node(last))
    BY <1>1, <1>2 DEF SearchInv, SeenInv, Node
  <2> QED BY <2>1 DEF Neighbours
<1>11. Looking(next, last)
  BY <1>1, <1>2, <1>3, <1>4, <1>6, <1>9, <1>10 DEF Looking
<1>12. NumbersInv'
  <2>1. Smaller(low[top.node], index[next]) \in Nat
    BY <1>7, <1>8 DEF Smaller
  <2>2. low' \in [Table -> Nat]
    BY <1>1, <1>8, <2>1
  <2>3. Visited' = Visited /\ Open' = Open /\ Finished' = Finished
    BY <1>1 DEF Visited, Open, Elements, Finished
  <2> QED BY <1>1, <2>2, <2>3 DEF SearchInv, NumbersInv
<1> QED BY <1>0, <1>11, <1>12

LEMMA LookKeepsSearch ==
  ASSUME ComponentsInv, SearchInv, NEW next, NEW last, Looking(next, last)
  PROVE  SeenInv' /\ PathsInv' /\ LowInv'
<1>1. /\ Open \subseteq Visited /\ Visited \subseteq Table
      /\ \A m \in Table : index[m] \in Nat /\ low[m] \in Nat
      /\ \A k \in 1..last : Node(k) \in Open /\ Node(k) \in Table
      /\ \A k, l \in 1..last : k < l => index[Node(k)] < index[Node(l)]
  BY OpenTables DEF SearchInv, Looking
<1>2. /\ Visited' = Visited /\ Open' = Open /\ next \in Visited
      /\ UNCHANGED <<edges, index>>
      /\ \A m \in Table : low'[m] =
           IF m = Node(last) /\ next \in Open THEN Smaller(low[m], index[next]) ELSE low[m]
  BY DEF Looking, Visited, Open, Elements
<1>3. last = Len(frames) /\ Len(frames') = last /\ last \in 1..last /\ last \in Nat
  BY FramesAre DEF Looking
<1>4. /\ \A k \in 1..last : /\ Node(k)' = Node(k)
                            /\ frames'[k].left \subseteq frames[k].left
                            /\ frames[k].left \subseteq frames'[k].left \cup {next}
      /\ \A k \in 1..(last - 1) : frames'[k].left = frames[k].left
  <2>1. \A k \in 1..last : k = last \/ k \in 1..(last - 1)
    BY <1>3
  <2> QED BY <1>3, <2>1 DEF Looking, Node
<1>5. SeenInv'
  <2>1. \A m : Neighbours(m)' = Neighbours(m)
    BY <1>2 DEF Neighbours
  <2>2. \A k \in 1..Len(frames') : frames'[k].left \subseteq Neighbours(Node(k)')
    BY <1>3, <1>4 DEF SearchInv, SeenInv
  <2>3. ASSUME NEW e \in edges, e.from \in Visited, e.to \notin Visited
        PROVE  \E k \in 1..Len(frames') : Node(k)' = e.from /\ e.to \in frames'[k].left
    <3>1. PICK k \in 1..last : Node(k) = e.from /\ e.to \in frames[k].left
      BY <1>3, <2>3 DEF SearchInv, SeenInv
    <3> QED BY <1>2, <1>3, <1>4, <2>3, <3>1
  <2> QED BY <1>2, <2>1, <2>2, <2>3 DEF SeenInv
<1>6. PathsInv'
  <2>1. \A k \in 1..last : \A m \in Open :
          index[Node(k)] <= index[m] => Reaches(edges, Node(k), m)
    BY <1>3 DEF SearchInv, PathsInv
  <2>2. \A m \in Open : \E k \in 1..last :
          index[Node(k)] <= index[m] /\ Reaches(edges, m, Node(k))
    BY <1>3 DEF SearchInv, PathsInv
  <2> QED BY <1>2, <1>3, <1>4, <2>1, <2>2 DEF PathsInv
<1>7. ASSUME NEW k \in 1..last
      PROVE  /\ low'[Node(k)] <= index[Node(k)]
             /\ \E m \in Open : index[m] = low'[Node(k)] /\ Reaches(edges, Node(k), m)
             /\ \A e \in edges : Seen(k, e)' => low'[Node(k)] <= index[e.to]
  <2>1. /\ low[Node(k)] <= index[Node(k)]
        /\ \E m \in Open : index[m] = low[Node(k)] /\ Reaches(edges, Node(k), m)
        /\ \A e \in edges : Seen(k, e) => low[Node(k)] <= index[e.to]
    BY <1>3 DEF SearchInv, LowInv
  <2>2. Node(k) \in Table /\ index[Node(k)] \in Nat /\ low[Node(k)] \in Nat /\ index[next] \in Nat
    BY <1>1, <1>2
  <2>3. /\ low'[Node(k)] \in Nat /\ low'[Node(k)] <= low[Node(k)]
        /\ \/ low'[Node(k)] = low[Node(k)]
           \/ low'[Node(k)] = index[next] /\ next \in Open /\ Node(k) = Node(last)
        /\ Node(k) = Node(last) /\ next \in Open => low'[Node(k)] <= index[next]
    BY <1>2, <2>2 DEF Smaller
  <2>4. low'[Node(k)] <= index[Node(k)]
    BY <2>1, <2>2, <2>3
  <2>5. \E m \in Open : index[m] = low'[Node(k)] /\ Reaches(edges, Node(k), m)
    <3>1. CASE low'[Node(k)] = low[Node(k)]
      BY <2>1, <3>1
    <3>2. CASE low'[Node(k)] = index[next] /\ next \in Open /\ Node(k) = Node(last)
      <4>1. Reaches(edges, Node(last), next)
        <5>1. PICK e \in edges : e.from = Node(last) /\ e.to = next
          BY DEF Looking
        <5> QED BY <5>1, ReachesSelf, ReachesOn
      <4> QED BY <3>2, <4>1
    <3> QED BY <2>3, <3>1, <3>2
  <2>6. ASSUME NEW e \in edges, Seen(k, e)' PROVE low'[Node(k)] <= index[e.to]
    <3>1. /\ e.from \in Open /\ e.to \in Open /\ index[Node(k)] <= index[e.from]
          /\ \A l \in (k + 1)..last : index[e.from] < index[Node(l)']
          /\ ~(e.from = Node(k) /\ e.to \in frames'[k].left)
      BY <1>2, <1>3, <1>4, <2>6 DEF Seen
    <3>2. \A l \in (k + 1)..last : index[e.from] < index[Node(l)]
      BY <1>3, <1>4, <3>1
    <3>3. index[e.to] \in Nat
      BY <1>1, <3>1
    <3>4. CASE e.from = Node(k) /\ e.to \in frames[k].left
      <4>1. e.to = next /\ e.to \notin frames'[k].left
        BY <1>4, <3>1, <3>4
      <4>2. k = last
        BY <1>3, <1>4, <3>4, <4>1
      <4> QED BY <2>3, <3>1, <4>1, <4>2
    <3>5. CASE ~(e.from = Node(k) /\ e.to \in frames[k].left)
      <4>1. Seen(k, e)
        BY <1>3, <3>1, <3>2, <3>5 DEF Seen
      <4> QED BY <2>1, <2>2, <2>3, <3>3, <4>1
    <3> QED BY <3>4, <3>5
  <2> QED BY <2>4, <2>5, <2>6
<1>8. LowInv'
  BY <1>2, <1>3, <1>4, <1>7 DEF LowInv
<1> QED BY <1>5, <1>6, <1>8

\* All neighbours of the last frame are seen, and it is taken away.
Leaving(n, last) ==
  /\ last \in 1..Len(frames) /\ last = Len(frames) /\ Len(frames') = last - 1
  /\ n = Node(last) /\ frames[last].left = {}
  /\ \A k \in 1..(last - 1) : frames'[k] = frames[k]
  /\ \A m \in Table :
       low'[m] = IF last > 1 /\ m = Node(last - 1) THEN Smaller(low[m], low[n]) ELSE low[m]
  /\ UNCHANGED <<edges, index>>

\* Its table stays on the stack, or takes with it all that is above it.
Staying(n) == low[n] # index[n] /\ UNCHANGED <<components, stack>>

Popping(n) ==
  /\ low[n] = index[n]
  /\ Open' = {m \in Open : index[m] < index[n]}
  /\ components' = components \cup {Open \ Open'}

LEMMA Retreats ==
  ASSUME ComponentsInv, SearchInv, Retreat
  PROVE  /\ NumbersInv'
         /\ \E n : Leaving(n, Len(frames)) /\ (Staying(n) \/ Popping(n))
<1>0. PICK last, n : last = Len(frames) /\ n = Last(frames).node
  OBVIOUS
<1> DEFINE work == ButLast(frames)
           at == CHOOSE i \in 1..Len(stack) : stack[i] = n
<1>1. /\ frames # <<>> /\ Last(frames).left = {} /\ frames' = work
      /\ low' = IF work = <<>> THEN low
                ELSE [low EXCEPT ![Last(work).node] = Smaller(@, low[n])]
      /\ IF low[n] = index[n]
         THEN /\ components' = components \cup {Elements(SubSeq(stack, at, Len(stack)))}
              /\ stack' = SubSeq(stack, 1, at - 1)
         ELSE UNCHANGED <<components, stack>>
      /\ UNCHANGED <<edges, index>>
  BY <1>0 DEF Retreat
<1>2. /\ last \in 1..last /\ last = Len(frames) /\ last \in Nat /\ n = Node(last)
      /\ frames[last].left = {} /\ frames \in Seq(Frame)
  BY <1>0, <1>1, FramesAre DEF ComponentsInv, StackInv, Last, Node
<1>3. work \in Seq(Frame) /\ Len(work) = last - 1 /\ \A k \in 1..(last - 1) : work[k] = frames[k]
  BY <1>2, SplitElements DEF ButLast
<1>4. work = <<>> <=> ~(last > 1)
  BY <1>2, <1>3
<1>5. last > 1 => Last(work).node = Node(last - 1) /\ Node(last - 1) \in Table
  <2> SUFFICES ASSUME last > 1
               PROVE  Last(work).node = Node(last - 1) /\ Node(last - 1) \in Table
    OBVIOUS
  <2>1. last - 1 \in 1..(last - 1) /\ last - 1 \in 1..last
    BY <1>2
  <2> QED BY <1>2, <1>3, <2>1, OpenTables DEF Last, Node, SearchInv
<1>6. n \in Table /\ n \in Open /\ low \in [Table -> Nat] /\ index \in [Table -> Nat]
  BY <1>2, OpenTables DEF SearchInv, NumbersInv, ComponentsInv, StackInv
<1> HIDE DEF work
<1>7. /\ \A m \in Table :
           low'[m] = IF last > 1 /\ m = Node(last - 1) THEN Smaller(low[m], low[n]) ELSE low[m]
      /\ low' \in [Table -> Nat]
  <2>1. CASE last > 1
    <3>1. low' = [low EXCEPT ![Node(last - 1)] = Smaller(@, low[n])]
      BY <1>1, <1>4, <1>5, <2>1
    <3>2. \A m \in Table : Smaller(low[m], low[n]) \in Nat
      BY <1>6 DEF Smaller
    <3> QED BY <1>5, <1>6, <2>1, <3>1, <3>2
  <2>2. CASE ~(last > 1)
    BY <1>1, <1>4, <1>6, <2>2
  <2> QED BY <2>1, <2>2
<1>8. Leaving(n, last)
  BY <1>1, <1>2, <1>3, <1>7 DEF Leaving
<1>9. Visited' = Visited
  BY <1>1 DEF Visited
<1>10. CASE low[n] # index[n]
  <2>1. UNCHANGED <<components, stack>>
    BY <1>1, <1>10
  <2>2. Open' = Open /\ Finished' = Finished
    BY <2>1 DEF Open, Elements, Finished
  <2>3. NumbersInv'
    BY <1>1, <1>7, <1>9, <2>1, <2>2 DEF SearchInv, NumbersInv
  <2> QED BY <1>0, <1>8, <1>10, <2>1, <2>3 DEF Staying
<1>11. CASE low[n] = index[n]
  <2>1. at \in 1..Len(stack) /\ stack[at] = n /\ stack \in Seq(Table) /\ Len(stack) \in Nat
    <3>1. \E i \in 1..Len(stack) : stack[i] = n
      BY <1>6 DEF Open, Elements
    <3>2. at \in 1..Len(stack) /\ stack[at] = n
      BY <3>1
    <3> QED BY <3>2 DEF ComponentsInv, StackInv
  <2>2. /\ components' = components \cup {Elements(SubSeq(stack, at, Len(stack)))}
        /\ stack' = SubSeq(stack, 1, at - 1)
    BY <1>1, <1>11
  <2> HIDE DEF at
  <2>3. /\ stack' \in Seq(Table) /\ Len(stack') = at - 1
        /\ \A i \in 1..(at - 1) : stack'[i] = stack[i]
        /\ Elements(SubSeq(stack, at, Len(stack))) = {stack[i] : i \in at..Len(stack)}
    BY <2>1, <2>2, SplitElements
  <2>4. \A i \in 1..(at - 1) : i \in 1..Len(stack)
    BY <2>1
  <2>5. ASSUME NEW i \in 1..Len(stack)
        PROVE  i < at <=> index[stack[i]] < index[n]
    BY <2>1, OpenTables DEF SearchInv
  <2>6. Open' = {m \in Open : index[m] < index[n]}
    <3>1. ASSUME NEW i \in 1..(at - 1) PROVE stack[i] \in Open /\ index[stack[i]] < index[n]
      <4>1. i \in 1..Len(stack) /\ i < at
        BY <2>1
      <4> QED BY <2>5, <4>1 DEF Open, Elements
    <3>2. ASSUME NEW m \in Open, index[m] < index[n]
          PROVE  \E i \in 1..(at - 1) : stack[i] = m
      <4>1. PICK i \in 1..Len(stack) : stack[i] = m
        BY DEF Open, Elements
      <4>2. i < at
        BY <2>5, <3>2, <4>1
      <4> QED BY <2>1, <4>1, <4>2
    <3>3. Open' = {stack[i] : i \in 1..(at - 1)}
      BY <2>3 DEF Open, Elements
    <3> QED BY <3>1, <3>2, <3>3
  <2>7. {stack[i] : i \in at..Len(stack)} = Open \ Open'
    <3>1. ASSUME NEW i \in at..Len(stack) PROVE stack[i] \in Open \ Open'
      <4>1. i \in 1..Len(stack) /\ ~(i < at)
        BY <2>1
      <4> QED BY <2>5, <2>6, <4>1 DEF Open, Elements
    <3>2. ASSUME NEW m \in Open \ Open' PROVE \E i \in at..Len(stack) : stack[i] = m
      <4>1. PICK i \in 1..Len(stack) : stack[i] = m
        BY DEF Open, Elements
      <4>2. ~(i < at)
        BY <2>5, <2>6, <3>2, <4>1
      <4> QED BY <2>1, <4>1, <4>2
    <3> QED BY <3>1, <3>2
  <2>8. Popping(n)
    BY <1>11, <2>2, <2>3, <2>6, <2>7 DEF Popping
  <2>9. NumbersInv'
    <3>1. \A m \in Table : index'[m] <= Cardinality(Visited')
      BY <1>1, <1>9 DEF SearchInv, NumbersInv
    <3>2. ASSUME NEW i \in 1..Len(stack'), NEW j \in 1..Len(stack'), i < j
          PROVE  index'[stack'[i]] < index'[stack'[j]]
      <4>1. i \in 1..Len(stack) /\ j \in 1..Len(stack) /\ i \in 1..(at - 1) /\ j \in 1..(at - 1)
        BY <2>1, <2>3
      <4> QED BY <1>1, <2>3, <3>2, <4>1 DEF SearchInv, NumbersInv
    <3>3. Visited' = Open' \cup Finished'
      <4>1. Finished' = Finished \cup (Open \ Open')
        BY <2>2, <2>3, <2>7 DEF Finished
      <4> QED BY <1>9, <2>6, <4>1 DEF SearchInv, NumbersInv
    <3> QED BY <1>7, <3>1, <3>2, <3>3 DEF NumbersInv
  <2> QED BY <1>0, <1>8, <2>8, <2>9
<1> QED BY <1>10, <1>11

LEMMA StayKeepsSearch ==
  ASSUME ComponentsInv, SearchInv, NEW n, NEW last, Leaving(n, last), Staying(n)
  PROVE  SeenInv' /\ PathsInv' /\ LowInv'
<1>1. /\ Open \subseteq Visited /\ Visited \subseteq Table
      /\ \A m \in Table : index[m] \in Nat /\ low[m] \in Nat
      /\ \A k \in 1..last : Node(k) \in Open /\ Node(k) \in Table
      /\ \A k, l \in 1..last : k < l => index[Node(k)] < index[Node(l)]
  BY OpenTables DEF SearchInv, Leaving
<1>2. /\ Visited' = Visited /\ Open' = Open
      /\ UNCHANGED <<edges, index>>
      /\ n = Node(last) /\ frames[last].left = {} /\ low[n] # index[n]
      /\ \A m \in Table :
           low'[m] = IF last > 1 /\ m = Node(last - 1) THEN Smaller(low[m], low[n]) ELSE low[m]
  BY DEF Leaving, Staying, Visited, Open, Elements
<1>3. last = Len(frames) /\ Len(frames') = last - 1 /\ last \in 1..last /\ last \in Nat
  BY FramesAre DEF Leaving
<1>4. \A k \in 1..(last - 1) :
        Node(k)' = Node(k) /\ frames'[k].left = frames[k].left /\ k \in 1..last /\ k < last
  BY <1>3 DEF Leaving, Node
<1>5. \A k \in 1..last : k = last \/ k \in 1..(last - 1)
  BY <1>3
<1>6. SeenInv'
  <2>1. \A m : Neighbours(m)' = Neighbours(m)
    BY <1>2 DEF Neighbours
  <2>2. \A k \in 1..Len(frames') : frames'[k].left \subseteq Neighbours(Node(k)')
    BY <1>3, <1>4 DEF SearchInv, SeenInv
  <2>3. ASSUME NEW e \in edges, e.from \in Visited, e.to \notin Visited
        PROVE  \E k \in 1..Len(frames') : Node(k)' = e.from /\ e.to \in frames'[k].left
    <3>1. PICK k \in 1..last : Node(k) = e.from /\ e.to \in frames[k].left
      BY <1>3, <2>3 DEF SearchInv, SeenInv
    <3> QED BY <1>2, <1>3, <1>4, <1>5, <3>1
  <2> QED BY <1>2, <2>1, <2>2, <2>3 DEF SeenInv
<1>7. \A k \in 1..last :
        /\ low[Node(k)] <= index[Node(k)]
        /\ \E m \in Open : index[m] = low[Node(k)] /\ Reaches(edges, Node(k), m)
        /\ \A e \in edges : Seen(k, e) => low[Node(k)] <= index[e.to]
  BY <1>3 DEF SearchInv, LowInv
<1>8. \A k \in 1..last : \A m \in Open :
        index[Node(k)] <= index[m] => Reaches(edges, Node(k), m)
  BY <1>3 DEF SearchInv, PathsInv
<1>9. \A m \in Open : \E k \in 1..last :
        index[Node(k)] <= index[m] /\ Reaches(edges, m, Node(k))
  BY <1>3 DEF SearchInv, PathsInv
<1>10. \E k \in 1..(last - 1) : index[Node(k)] < index[n] /\ Reaches(edges, n, Node(k))
  <2>1. PICK m \in Open : index[m] = low[n] /\ Reaches(edges, n, m)
    BY <1>2, <1>3, <1>7
  <2>2. PICK k \in 1..last : index[Node(k)] <= index[m] /\ Reaches(edges, m, Node(k))
    BY <1>9
  <2>3. index[Node(k)] \in Nat /\ index[m] \in Nat /\ index[n] \in Nat /\ low[n] <= index[n]
    BY <1>1, <1>2, <1>3, <1>7
  <2>4. index[Node(k)] < index[n] /\ k # last
    BY <1>2, <2>1, <2>2, <2>3
  <2> QED BY <1>5, <2>1, <2>2, <2>4, ReachesThrough
<1>11. PathsInv'
  <2>1. ASSUME NEW m \in Open
        PROVE  \E k \in 1..(last - 1) : index[Node(k)] <= index[m] /\ Reaches(edges, m, Node(k))
    <3>1. PICK k \in 1..last : index[Node(k)] <= index[m] /\ Reaches(edges, m, Node(k))
      BY <1>9
    <3>2. CASE k = last
      <4>1. PICK l \in 1..(last - 1) : index[Node(l)] < index[n] /\ Reaches(edges, n, Node(l))
        BY <1>10
      <4>2. index[Node(l)] \in Nat /\ index[m] \in Nat /\ index[n] \in Nat
        BY <1>1, <1>2, <1>3, <1>4
      <4> QED BY <1>2, <3>1, <3>2, <4>1, <4>2, ReachesThrough
    <3> QED BY <1>5, <3>1, <3>2
  <2> QED BY <1>2, <1>3, <1>4, <1>8, <2>1 DEF PathsInv
<1>12. ASSUME NEW k \in 1..(last - 1)
       PROVE  /\ low'[Node(k)] <= index[Node(k)]
              /\ \E m \in Open : index[m] = low'[Node(k)] /\ Reaches(edges, Node(k), m)
              /\ \A e \in edges : Seen(k, e)' => low'[Node(k)] <= index[e.to]
  <2>1. /\ Node(k) \in Table /\ index[Node(k)] \in Nat /\ low[Node(k)] \in Nat /\ low[n] \in Nat
        /\ n \in Open /\ index[n] \in Nat /\ index[Node(k)] < index[n]
    BY <1>1, <1>2, <1>3, <1>4
  <2>2. /\ low'[Node(k)] \in Nat /\ low'[Node(k)] <= low[Node(k)]
        /\ low'[Node(k)] = low[Node(k)] \/ low'[Node(k)] = low[n]
        /\ k = last - 1 => low'[Node(k)] <= low[n]
    <3>1. k = last - 1 => last > 1
      BY <1>3
    <3> QED BY <1>2, <2>1, <3>1 DEF Smaller
  <2>3. low'[Node(k)] <= index[Node(k)]
    BY <1>4, <1>7, <2>1, <2>2
  <2>4. \E m \in Open : index[m] = low'[Node(k)] /\ Reaches(edges, Node(k), m)
    <3>1. CASE low'[Node(k)] = low[Node(k)]
      BY <1>4, <1>7, <3>1
    <3>2. CASE low'[Node(k)] = low[n]
      <4>1. PICK m \in Open : index[m] = low[n] /\ Reaches(edges, n, m)
        BY <1>2, <1>3, <1>7
      <4>2. Reaches(edges, Node(k), n)
        BY <1>4, <1>8, <2>1
      <4> QED BY <3>2, <4>1, <4>2, ReachesThrough
    <3> QED BY <2>2, <3>1, <3>2
  <2>5. ASSUME NEW e \in edges, Seen(k, e)' PROVE low'[Node(k)] <= index[e.to]
    <3>1. /\ e.from \in Open /\ e.to \in Open /\ index[Node(k)] <= index[e.from]
          /\ \A l \in (k + 1)..(last - 1) : index[e.from] < index[Node(l)']
          /\ ~(e.from = Node(k) /\ e.to \in frames[k].left)
      BY <1>2, <1>3, <1>4, <2>5 DEF Seen
    <3>2. \A l \in (k + 1)..(last - 1) : l \in 1..(last - 1) /\ index[e.from] < index[Node(l)]
      BY <1>4, <3>1
    <3>3. index[e.to] \in Nat /\ index[e.from] \in Nat
      BY <1>1, <3>1
    <3>4. CASE index[e.from] < index[n]
      <4>1. \A l \in (k + 1)..last : l = last \/ l \in (k + 1)..(last - 1)
        BY <1>3
      <4>2. Seen(k, e)
        BY <1>2, <1>3, <3>1, <3>2, <3>4, <4>1 DEF Seen
      <4> QED BY <1>4, <1>7, <2>1, <2>2, <3>3, <4>2
    <3>5. CASE ~(index[e.from] < index[n])
      <4>1. k = last - 1
        <5>1. CASE k # last - 1
          <6>1. k + 1 \in (k + 1)..(last - 1)
            BY <1>3, <5>1
          <6>2. index[e.from] < index[Node(k + 1)] /\ k + 1 \in 1..last /\ k + 1 < last
            BY <1>4, <3>2, <6>1
          <6>3. index[Node(k + 1)] < index[n] /\ index[Node(k + 1)] \in Nat
            BY <1>1, <1>2, <1>3, <6>2
          <6> QED BY <2>1, <3>3, <3>5, <6>2, <6>3
        <5> QED BY <5>1
      <4>2. index[n] <= index[e.from]
        BY <2>1, <3>3, <3>5
      <4>3. \A l \in (last + 1)..Len(frames) : FALSE
        BY <1>3
      <4>4. Seen(last, e)
        BY <1>2, <3>1, <4>2, <4>3 DEF Seen
      <4>5. low[n] <= index[e.to]
        BY <1>2, <1>3, <1>7, <4>4
      <4> QED BY <2>1, <2>2, <3>3, <4>1, <4>5
    <3> QED BY <3>4, <3>5
  <2> QED BY <2>3, <2>4, <2>5
<1>13. LowInv'
  BY <1>2, <1>3, <1>4, <1>12 DEF LowInv
<1> QED BY <1>6, <1>11, <1>13

LEMMA PopKeepsSearch ==
  ASSUME ComponentsInv, SearchInv, NEW n, NEW last, Leaving(n, last), Popping(n)
  PROVE  SeenInv' /\ PathsInv' /\ LowInv'
<1>1. /\ Open \subseteq Visited /\ Visited \subseteq Table
      /\ \A m \in Table : index[m] \in Nat /\ low[m] \in Nat
      /\ \A k \in 1..last : Node(k) \in Open /\ Node(k) \in Table
      /\ \A k, l \in 1..last : k < l => index[Node(k)] < index[Node(l)]
  BY OpenTables DEF SearchInv, Leaving
<1>2. /\ Visited' = Visited /\ Open' = {m \in Open : index[m] < index[n]}
      /\ UNCHANGED <<edges, index>>
      /\ n = Node(last) /\ frames[last].left = {} /\ low[n] = index[n]
      /\ \A m \in Table :
           low'[m] = IF last > 1 /\ m = Node(last - 1) THEN Smaller(low[m], low[n]) ELSE low[m]
  BY DEF Leaving, Popping, Visited
<1>3. last = Len(frames) /\ Len(frames') = last - 1 /\ last \in 1..last /\ last \in Nat
  BY FramesAre DEF Leaving
<1>4. \A k \in 1..(last - 1) :
        Node(k)' = Node(k) /\ frames'[k].left = frames[k].left /\ k \in 1..last /\ k < last
  BY <1>3 DEF Leaving, Node
<1>5. \A k \in 1..last : k = last \/ k \in 1..(last - 1)
  BY <1>3
<1>6. SeenInv'
  <2>1. \A m : Neighbours(m)' = Neighbours(m)
    BY <1>2 DEF Neighbours
  <2>2. \A k \in 1..Len(frames') : frames'[k].left \subseteq Neighbours(Node(k)')
    BY <1>3, <1>4 DEF SearchInv, SeenInv
  <2>3. ASSUME NEW e \in edges, e.from \in Visited, e.to \notin Visited
        PROVE  \E k \in 1..Len(frames') : Node(k)' = e.from /\ e.to \in frames'[k].left
    <3>1. PICK k \in 1..last : Node(k) = e.from /\ e.to \in frames[k].left
      BY <1>3, <2>3 DEF SearchInv, SeenInv
    <3> QED BY <1>2, <1>3, <1>4, <1>5, <3>1
  <2> QED BY <1>2, <2>1, <2>2, <2>3 DEF SeenInv
<1>7. \A k \in 1..last :
        /\ low[Node(k)] <= index[Node(k)]
        /\ \E m \in Open : index[m] = low[Node(k)] /\ Reaches(edges, Node(k), m)
        /\ \A e \in edges : Seen(k, e) => low[Node(k)] <= index[e.to]
  BY <1>3 DEF SearchInv, LowInv
<1>8. PathsInv'
  <2>1. \A k \in 1..last : \A m \in Open :
          index[Node(k)] <= index[m] => Reaches(edges, Node(k), m)
    BY <1>3 DEF SearchInv, PathsInv
  <2>2. ASSUME NEW m \in Open'
        PROVE  \E k \in 1..(last - 1) : index[Node(k)] <= index[m] /\ Reaches(edges, m, Node(k))
    <3>1. m \in Open /\ index[m] < index[n] /\ index[m] \in Nat /\ index[n] \in Nat
      BY <1>1, <1>2, <1>3
    <3>2. PICK k \in 1..last : index[Node(k)] <= index[m] /\ Reaches(edges, m, Node(k))
      BY <1>3, <3>1 DEF SearchInv, PathsInv
    <3>3. k # last
      BY <1>2, <3>1, <3>2
    <3> QED BY <1>5, <3>2, <3>3
  <2>3. \A m \in Open' : m \in Open
    BY <1>2
  <2>4. UNCHANGED <<edges, index>>
    BY <1>2
  <2> QED BY <1>3, <1>4, <2>1, <2>2, <2>3, <2>4 DEF PathsInv
<1>9. ASSUME NEW k \in 1..(last - 1)
      PROVE  /\ low'[Node(k)] <= index[Node(k)]
             /\ \E m \in Open' : index[m] = low'[Node(k)] /\ Reaches(edges, Node(k), m)
             /\ \A e \in edges : Seen(k, e)' => low'[Node(k)] <= index[e.to]
  <2>1. /\ Node(k) \in Table /\ index[Node(k)] \in Nat /\ low[Node(k)] \in Nat
        /\ low[Node(k)] <= index[Node(k)]
        /\ n \in Table /\ index[n] \in Nat /\ low[n] \in Nat /\ index[Node(k)] < index[n]
    BY <1>1, <1>2, <1>3, <1>4, <1>7
  <2>2. low'[Node(k)] = low[Node(k)]
    BY <1>2, <2>1 DEF Smaller
  <2>3. \E m \in Open' : index[m] = low'[Node(k)] /\ Reaches(edges, Node(k), m)
    <3>1. PICK m \in Open : index[m] = low[Node(k)] /\ Reaches(edges, Node(k), m)
      BY <1>4, <1>7
    <3>2. m \in Open'
      BY <1>2, <2>1, <3>1
    <3> QED BY <2>2, <3>1, <3>2
  <2>4. ASSUME NEW e \in edges, Seen(k, e)' PROVE low[Node(k)] <= index[e.to]
    <3>1. /\ e.from \in Open' /\ e.to \in Open' /\ index[Node(k)] <= index[e.from]
          /\ \A l \in (k + 1)..(last - 1) : index[e.from] < index[Node(l)']
          /\ ~(e.from = Node(k) /\ e.to \in frames[k].left)
      BY <1>2, <1>3, <1>4, <2>4 DEF Seen
    <3>2. \A l \in (k + 1)..(last - 1) : l \in 1..(last - 1) /\ index[e.from] < index[Node(l)]
      BY <1>4, <3>1
    <3>3. \A l \in (k + 1)..last : l = last \/ l \in (k + 1)..(last - 1)
      BY <1>3
    <3>4. e.from \in Open /\ e.to \in Open /\ index[e.from] < index[n]
      BY <1>2, <3>1
    <3>5. Seen(k, e)
      BY <1>2, <1>3, <3>1, <3>2, <3>3, <3>4 DEF Seen
    <3> QED BY <1>4, <1>7, <3>5
  <2> QED BY <2>1, <2>2, <2>3, <2>4
<1>10. LowInv'
  <2>1. UNCHANGED <<edges, index>>
    BY <1>2
  <2> QED BY <1>3, <1>4, <1>9, <2>1 DEF LowInv
<1> QED BY <1>6, <1>8, <1>10

\* What a popped table leads to is popped with it or in a component.
LEMMA PoppedIsClosed ==
  ASSUME ComponentsInv, SearchInv, MutualInv, NEW n, NEW last, Leaving(n, last), Popping(n),
         NEW e \in edges, e.from \in Finished \cup (Open \ Open')
  PROVE  e.to \in Finished \cup (Open \ Open')
<1>1. CASE e.from \in Finished
  BY <1>1 DEF MutualInv
<1>2. CASE e.from \in Open \ Open'
  <2>1. /\ Open \subseteq Visited /\ Visited \subseteq Table /\ Visited = Open \cup Finished
        /\ \A m \in Table : index[m] \in Nat
        /\ \A k \in 1..last : Node(k) \in Open /\ Node(k) \in Table
        /\ \A k, l \in 1..last : k < l => index[Node(k)] < index[Node(l)]
    BY OpenTables DEF SearchInv, NumbersInv, Leaving
  <2>2. last = Len(frames) /\ last \in 1..last /\ last \in Nat
    BY FramesAre DEF Leaving
  <2>3. /\ n = Node(last) /\ frames[last].left = {} /\ low[n] = index[n]
        /\ Open' = {m \in Open : index[m] < index[n]}
    BY DEF Leaving, Popping
  <2>4. n \in Open /\ index[n] \in Nat /\ index[e.from] \in Nat /\ index[n] <= index[e.from]
    BY <1>2, <2>1, <2>2, <2>3
  <2>5. ASSUME NEW k \in 1..last, Node(k) = e.from PROVE k = last
    <3>1. CASE k # last
      <4>1. k < last
        BY <2>2, <3>1
      <4>2. index[Node(k)] < index[n] /\ index[Node(k)] \in Nat
        BY <2>1, <2>2, <2>3, <4>1
      <4> QED BY <2>4, <2>5, <4>2
    <3> QED BY <3>1
  <2>6. e.to \in Visited
    <3> SUFFICES ASSUME e.to \notin Visited PROVE FALSE
      OBVIOUS
    <3>1. PICK k \in 1..last : Node(k) = e.from /\ e.to \in frames[k].left
      BY <1>2, <2>1, <2>2 DEF SearchInv, SeenInv
    <3> QED BY <2>3, <2>5, <3>1
  <2>7. CASE e.to \in Open
    <3>1. \A l \in (last + 1)..Len(frames) : FALSE
      BY <2>2
    <3>2. Seen(last, e)
      BY <1>2, <2>3, <2>4, <2>7, <3>1 DEF Seen
    <3>3. index[n] <= index[e.to]
      BY <2>2, <2>3, <3>2 DEF SearchInv, LowInv
    <3>4. index[e.to] \in Nat
      BY <2>1, <2>7
    <3> QED BY <2>3, <2>4, <2>7, <3>3, <3>4
  <2> QED BY <2>1, <2>6, <2>7
<1> QED BY <1>1, <1>2

LEMMA PopKeepsMutual ==
  ASSUME ComponentsInv, SearchInv, MutualInv, phase = "components", phase' = phase,
         NEW n, NEW last, Leaving(n, last), Popping(n)
  PROVE  MutualInv'
<1>0. PICK new : new = Open \ Open'
  OBVIOUS
<1>1. /\ Open \subseteq Table /\ Finished \cap Open = {}
      /\ \A m \in Table : index[m] \in Nat
      /\ \A k \in 1..last : Node(k) \in Open
  BY OpenTables DEF SearchInv, Leaving
<1>2. /\ UNCHANGED edges /\ components' = components \cup {new}
      /\ n = Node(last) /\ last \in 1..last /\ last = Len(frames)
      /\ Open' = {m \in Open : index[m] < index[n]}
  BY <1>0, FramesAre DEF Leaving, Popping
<1>3. n \in new /\ n \in Table /\ new \subseteq Open /\ index[n] \in Nat
  BY <1>0, <1>1, <1>2
<1>4. Finished' = Finished \cup new
  BY <1>2 DEF Finished
<1>5. \A e \in edges : e.from \in Finished \cup new => e.to \in Finished \cup new
  BY <1>0, PoppedIsClosed
<1>6. Finished \subseteq Table
  BY DEF Finished, ComponentsInv, StackInv
<1>7. ASSUME NEW x \in new, NEW m, Reaches(edges, x, m) PROVE m \in Finished \cup new
  <2>1. Finished \cup new \in SUBSET Table
    BY <1>1, <1>3, <1>6
  <2> QED BY <1>5, <1>7, <2>1 DEF Reaches
<1>8. ASSUME NEW x \in new
      PROVE  x \in Table /\ Reaches(edges, n, x) /\ Reaches(edges, x, n)
  <2>1. x \in Open /\ x \in Table /\ ~(index[x] < index[n]) /\ index[x] \in Nat
    BY <1>0, <1>1, <1>2
  <2>2. Reaches(edges, n, x)
    BY <1>2, <1>3, <2>1 DEF SearchInv, PathsInv
  <2>3. PICK k \in 1..last : index[Node(k)] <= index[x] /\ Reaches(edges, x, Node(k))
    BY <1>2, <2>1 DEF SearchInv, PathsInv
  <2>4. Node(k) \in Open /\ Node(k) \in new
    BY <1>1, <1>7, <2>3
  <2>5. k = last
    <3> SUFFICES ASSUME k # last PROVE FALSE
      OBVIOUS
    <3>1. k < last
      BY <1>2, FramesAre
    <3>2. index[Node(k)] < index[n]
      BY <1>2, <3>1, OpenTables DEF SearchInv
    <3> QED BY <1>0, <1>2, <2>4, <3>2
  <2> QED BY <1>2, <2>1, <2>2, <2>3, <2>5
<1>9. ASSUME NEW x \in new PROVE new = Mutual(x)
  <2>1. ASSUME NEW m \in new PROVE m \in Mutual(x)
    BY <1>8, <2>1, ReachesThrough DEF Mutual
  <2>2. ASSUME NEW m \in Mutual(x) PROVE m \in new
    <3>1. m \in Table /\ Reaches(edges, x, m) /\ Reaches(edges, m, x) /\ m \in Finished \cup new
      BY <1>7 DEF Mutual
    <3>2. CASE m \in Finished
      <4>1. \A e \in edges : e.from \in Finished => e.to \in Finished
        BY DEF MutualInv
      <4>2. x \in Finished
        BY <1>6, <3>1, <3>2, <4>1 DEF Reaches
      <4> QED BY <1>1, <1>3, <4>2
    <3> QED BY <3>1, <3>2
  <2> QED BY <2>1, <2>2
<1>10. \A m : Mutual(m)' = Mutual(m)
  BY <1>2 DEF Mutual, Reaches
<1> QED BY <1>2, <1>3, <1>4, <1>5, <1>9, <1>10 DEF MutualInv

LEMMA StepKeepsComponents ==
  ASSUME ComponentsInv, SearchInv, MutualInv, [Next]_vars
  PROVE  SearchInv' /\ MutualInv'
<1>1. \A m : UNCHANGED edges => Mutual(m)' = Mutual(m)
  BY DEF Mutual, Reaches
<1>2. ASSUME UNCHANGED <<edges, components>>, phase = "components", phase' = phase
      PROVE  MutualInv'
  BY <1>1, <1>2 DEF MutualInv, Finished
<1>3. ASSUME NEW n \in Table, Root(n) PROVE SearchInv' /\ MutualInv'
  <2>1. /\ n \in Table \ Visited /\ frames = <<>> /\ Enter(n, <<>>)
        /\ UNCHANGED <<edges, components>> /\ phase = "components" /\ phase' = phase
    BY <1>3 DEF Root, First
  <2>2. <<>> \in Seq(Frame) /\ Len(<<>>) = Len(frames) /\ \A k \in 1..Len(frames) : FALSE
    BY <2>1
  <2>3. NumbersInv' /\ \E number : Entering(n, number)
    BY <2>1, <2>2, Enters DEF SearchInv
  <2> QED BY <1>2, <2>1, <2>3, EnterKeepsSearch DEF SearchInv
<1>4. ASSUME NEW n \in Table, Look(n) PROVE SearchInv' /\ MutualInv'
  <2>1. phase = "components" /\ phase' = phase /\ UNCHANGED <<edges, components>>
    BY <1>4 DEF Look
  <2>2. CASE n \in Visited
    BY <1>2, <1>4, <2>1, <2>2, LooksAt, LookKeepsSearch DEF SearchInv
  <2>3. CASE n \notin Visited
    <3> DEFINE top == Last(frames)
               seen == [top EXCEPT !.left = @ \ {n}]
               work == Append(ButLast(frames), seen)
    <3>1. frames # <<>> /\ n \in top.left /\ Enter(n, work)
      BY <1>4, <2>3 DEF Look
    <3>2. PICK last : last = Len(frames)
      OBVIOUS
    <3>3. last \in 1..last /\ last \in Nat /\ top = frames[last] /\ top \in Frame
      BY <3>1, <3>2, FramesAre DEF ComponentsInv, StackInv, Last
    <3>4. seen \in Frame /\ seen.node = top.node /\ seen.left = top.left \ {n}
      BY <3>3 DEF Frame
    <3> HIDE DEF seen
    <3>5. /\ work \in Seq(Frame) /\ Len(work) = last /\ work[last] = seen
          /\ \A k \in 1..(last - 1) : work[k] = frames[k]
      BY <3>1, <3>2, <3>4, ReplaceTop DEF ComponentsInv, StackInv
    <3> HIDE DEF work
    <3>6. ASSUME NEW k \in 1..last
          PROVE  /\ work[k].node = frames[k].node
                 /\ work[k].left \subseteq frames[k].left
                 /\ frames[k].left \subseteq work[k].left \cup {n}
      <4>1. k = last \/ k \in 1..(last - 1)
        BY <3>3
      <4> QED BY <3>3, <3>4, <3>5, <4>1
    <3>7. \E e \in edges : e.from = Node(last) /\ e.to = n
      <4>1. n \in Neighbours(Node(last))
        BY <3>1, <3>2, <3>3 DEF SearchInv, SeenInv, Node
      <4> QED BY <4>1 DEF Neighbours
    <3>8. NumbersInv' /\ \E number : Entering(n, number)
      BY <2>1, <2>3, <3>1, <3>2, <3>5, <3>6, <3>7, Enters DEF SearchInv
    <3> QED BY <1>2, <2>1, <3>8, EnterKeepsSearch DEF SearchInv
  <2> QED BY <2>2, <2>3
<1>5. ASSUME Retreat PROVE SearchInv' /\ MutualInv'
  <2>1. phase = "components" /\ phase' = phase
    BY <1>5 DEF Retreat
  <2>2. PICK n : Leaving(n, Len(frames)) /\ (Staying(n) \/ Popping(n))
    BY <1>5, Retreats
  <2>3. NumbersInv'
    BY <1>5, Retreats
  <2>4. CASE Staying(n)
    <3>1. UNCHANGED <<edges, components>>
      BY <2>2, <2>4 DEF Leaving, Staying
    <3> QED BY <1>2, <2>1, <2>2, <2>3, <2>4, <3>1, StayKeepsSearch DEF SearchInv
  <2>5. CASE Popping(n)
    BY <2>1, <2>2, <2>3, <2>5, PopKeepsSearch, PopKeepsMutual DEF SearchInv
  <2> QED BY <2>2, <2>4, <2>5
<1>6. ASSUME UNCHANGED <<edges, tarjan>> PROVE SearchInv'
  <2>1. UNCHANGED <<edges, index, low, stack, frames, components>>
    BY <1>6 DEF tarjan
  <2>2. /\ Open' = Open /\ Finished' = Finished /\ Visited' = Visited
        /\ \A k : Node(k)' = Node(k)
        /\ \A m : Neighbours(m)' = Neighbours(m)
    BY <2>1 DEF Open, Elements, Finished, Visited, Node, Neighbours
  <2>3. \A k, e : Seen(k, e)' <=> Seen(k, e)
    BY <2>1, <2>2 DEF Seen
  <2>4. NumbersInv'
    BY <2>1, <2>2 DEF SearchInv, NumbersInv
  <2>5. SeenInv'
    BY <2>1, <2>2 DEF SearchInv, SeenInv
  <2>6. PathsInv'
    BY <2>1, <2>2 DEF SearchInv, PathsInv
  <2>7. LowInv'
    BY <2>1, <2>2, <2>3 DEF SearchInv, LowInv
  <2> QED BY <2>4, <2>5, <2>6, <2>7 DEF SearchInv
<1>7. ASSUME UNCHANGED <<edges, tarjan>>, phase' # phase => phase # "components"
      PROVE  MutualInv'
  BY <1>7 DEF tarjan, MutualInv, Mutual, Finished, Visited, Reaches
<1>8. ASSUME EndComponents PROVE SearchInv' /\ MutualInv'
  <2>1. UNCHANGED <<edges, tarjan>> /\ frames = <<>> /\ Visited = Table
    BY <1>8 DEF EndComponents
  <2>2. UNCHANGED <<edges, components, index>> /\ frames' = <<>>
    BY <2>1 DEF tarjan
  <2>3. Visited' = Table /\ Finished' = Finished
    BY <2>1, <2>2 DEF Visited, Finished
  <2> QED BY <1>1, <1>6, <2>1, <2>2, <2>3 DEF MutualInv
<1>9. ASSUME NEW n \in Table, SearchFrom(n) \/ Place(n)
      PROVE  UNCHANGED <<edges, tarjan, phase>>
  BY <1>9 DEF SearchFrom, Place
<1>10. ASSUME NEW c \in todo, OpenComponent(c) PROVE UNCHANGED <<edges, tarjan, phase>>
  BY <1>10 DEF OpenComponent
<1>11. ASSUME NEW e \in remaining, NEW x \in remaining, Follow(e) \/ GiveUp(e) \/ Break(e, x)
       PROVE  UNCHANGED <<edges, tarjan, phase>>
  BY <1>11 DEF Follow, GiveUp, Break
<1>12. ASSUME Backtrack \/ CloseComponent \/ EndCycles \/ EndOrder \/ UNCHANGED vars
       PROVE  UNCHANGED <<edges, tarjan>> /\ (phase' # phase => phase # "components")
  BY <1>12 DEF Backtrack, CloseComponent, EndCycles, EndOrder, vars
<1> QED
  BY <1>3, <1>4, <1>5, <1>6, <1>7, <1>8, <1>9, <1>10, <1>11, <1>12 DEF Next

LEMMA ComponentsAre ==
  ASSUME ComponentsInv, SearchInv, MutualInv
  PROVE  ComponentsAreMutual
<1> SUFFICES ASSUME phase # "components"
             PROVE  components = {Mutual(n) : n \in Table}
  BY DEF ComponentsAreMutual, Mutual
<1>1. frames = <<>> /\ Len(frames) = 0 /\ Visited = Table
  BY DEF MutualInv
<1>2. Open = {}
  BY <1>1 DEF SearchInv, PathsInv
<1>3. Finished = Table
  BY <1>1, <1>2 DEF SearchInv, NumbersInv
<1>4. ASSUME NEW n \in Table PROVE Mutual(n) \in components
  <2>1. PICK c \in components : n \in c
    BY <1>3 DEF Finished
  <2> QED BY <2>1 DEF MutualInv
<1>5. ASSUME NEW c \in components PROVE \E n \in Table : c = Mutual(n)
  <2>1. PICK n \in c : c = Mutual(n)
    BY DEF MutualInv
  <2> QED BY <2>1 DEF ComponentsInv, StackInv
<1> QED BY <1>4, <1>5

-----------------------------------------------------------------------------
(* Circles.  Of the lookups searched none closes a circle, a component is  *)
(* left with none or given up for one of required lookups, and Kahn's      *)
(* algorithm stops only at a circle.                                       *)

Before == {pair \in Nat \X Nat : pair[1] < pair[2]}

\* Of numbers one is the least.
LEMMA Least ==
  ASSUME NEW S \in SUBSET Nat, S # {}
  PROVE  \E m \in S : \A n \in S : m <= n
<1>1. IsWellFoundedOn(Before, Nat)
  BY NatLessThanWellFounded DEF OpToRel, Before
<1>2. PICK m \in S : \A n \in S : <<n, m>> \notin Before
  BY <1>1, WFMin
<1>3. ASSUME NEW n \in S PROVE m <= n
  <2>1. m \in Nat /\ n \in Nat /\ <<n, m>> \in Nat \X Nat /\ ~(n < m)
    BY <1>2 DEF Before
  <2> QED BY <2>1
<1> QED BY <1>3

LEMMA CircleOfMore ==
  ASSUME NEW E, NEW F, E \subseteq F, NEW n, OnCircle(E, n)
  PROVE  OnCircle(F, n)
<1>1. PICK e \in E : e.from = n /\ Reaches(E, e.to, n)
  BY DEF OnCircle
<1> QED BY <1>1, ReachesMore DEF OnCircle

LEMMA CircleIsThere ==
  ASSUME NEW E, NEW e \in E, Reaches(E, e.to, e.from)
  PROVE  OnCircle(E, e.from)
BY DEF OnCircle

(* A circle stays in the component of its tables.                          *)
LEMMA CircleInside ==
  ASSUME ComponentsInv, MutualInv, NEW E, E \subseteq edges,
         NEW c \in components, NEW n \in c, OnCircle(E, n)
  PROVE  OnCircle(E \cap Intra(c), n)
<1>1. PICK e \in E : e.from = n /\ Reaches(E, e.to, n)
  BY DEF OnCircle
<1>2. /\ n \in Table /\ c = {m \in Table : Reaches(edges, n, m) /\ Reaches(edges, m, n)}
      /\ \A x \in edges : x.from \in Table /\ x.to \in Table
  BY DEF MutualInv, Mutual, ComponentsInv, StackInv, Lookup
<1>3. ASSUME NEW x \in edges, Reaches(edges, n, x.from), Reaches(edges, x.to, n)
      PROVE  x.from \in c /\ x.to \in c
  <2>1. Reaches(edges, n, x.to)
    BY <1>3, ReachesOn
  <2>2. Reaches(edges, x.from, n)
    BY <1>3, ReachesSelf, ReachesOn, ReachesThrough
  <2> QED BY <1>2, <1>3, <2>1, <2>2
<1>4. ASSUME NEW S \in SUBSET Table, e.to \in S,
             \A x \in E \cap Intra(c) : x.from \in S => x.to \in S
      PROVE  n \in S
  <2> DEFINE T == {m \in Table : Reaches(edges, n, m) /\ (Reaches(edges, m, n) => m \in S)}
  <2>1. e.to \in T
    BY <1>1, <1>2, <1>4, ReachesSelf, ReachesOn
  <2>2. ASSUME NEW x \in E, x.from \in T PROVE x.to \in T
    <3>1. x \in edges /\ x.to \in Table /\ Reaches(edges, n, x.from) /\ Reaches(edges, n, x.to)
      BY <1>2, <2>2, ReachesOn
    <3>2. ASSUME Reaches(edges, x.to, n) PROVE x.to \in S
      <4>1. x.from \in c /\ x.to \in c
        BY <1>3, <3>1, <3>2
      <4>2. x \in E \cap Intra(c) /\ x.from \in S
        BY <1>2, <2>2, <3>1, <4>1 DEF Intra
      <4> QED BY <1>4, <4>2
    <3> QED BY <3>1, <3>2
  <2>3. n \in T
    <3>1. T \in SUBSET Table
      OBVIOUS
    <3> HIDE DEF T
    <3> QED BY <1>1, <2>1, <2>2, <3>1 DEF Reaches
  <2> QED BY <2>3, ReachesSelf
<1>5. Reaches(E \cap Intra(c), e.to, n)
  BY <1>4 DEF Reaches
<1>6. e \in Intra(c)
  <2>1. e \in edges /\ Reaches(edges, e.to, n)
    BY <1>1, ReachesMore
  <2>2. e.from \in c /\ e.to \in c
    BY <1>1, <1>3, <2>1, ReachesSelf
  <2> QED BY <2>1, <2>2 DEF Intra
<1> QED BY <1>1, <1>5, <1>6 DEF OnCircle

-----------------------------------------------------------------------------
(* findCycle: tables left behind lead to others left behind and to no      *)
(* circle; those on the path are left with what is still to follow.        *)

CircleInv ==
  /\ searched \subseteq Table
  /\ \A e \in remaining : e.from \in searched => e.to \in searched
  /\ \A n \in searched : ~OnCircle(remaining, n)
  /\ \A i \in 1..Len(trail) : trail[i].node \notin searched
  /\ \A i, j \in 1..Len(trail) : trail[i].node = trail[j].node => i = j
  /\ \A i \in 1..Len(trail) : \A e \in remaining : e.from = trail[i].node =>
       \/ e \in trail[i].left
       \/ e.to \in searched
       \/ i < Len(trail) /\ e.to = trail[i + 1].node
  /\ \A i \in 2..Len(trail) : trail[i].via # {}

LEMMA NothingSearched ==
  ASSUME trail = <<>>, searched = {}
  PROVE  CircleInv
<1>1. Len(trail) = 0
  OBVIOUS
<1> QED BY <1>1 DEF CircleInv

LEMMA FollowKeepsCircles ==
  ASSUME CircleInv, PathInv, BreakInv, ComponentsInv, NEW e \in remaining, Follow(e)
  PROVE  CircleInv'
<1>0. PICK last : last = Len(trail)
  OBVIOUS
<1> DEFINE top == [Last(trail) EXCEPT !.left = @ \ {e}]
           path == Append(ButLast(trail), top)
           link == [node |-> e.to, via |-> {e}, left |-> {x \in remaining : x.from = e.to}]
<1>1. /\ trail # <<>> /\ e \in Last(trail).left /\ ~OnTrail(e.to)
      /\ UNCHANGED <<remaining, searched>>
      /\ trail' = IF e.to \in searched THEN path ELSE Append(path, link)
  BY DEF Follow, Step
<1>2. /\ trail \in Seq(Link) /\ last \in Nat /\ last \in 1..last /\ last = Len(trail)
      /\ Last(trail) = trail[last] /\ Last(trail) \in Link
  BY <1>0, <1>1 DEF PathInv, Linked, Last
<1>3. top \in Link /\ top.node = trail[last].node /\ top.via = trail[last].via
      /\ top.left = trail[last].left \ {e}
  BY <1>2 DEF Link
<1>4. link \in Link /\ link.node = e.to /\ link.via = {e}
      /\ link.left = {x \in remaining : x.from = e.to}
  <2>1. e \in Lookup /\ remaining \subseteq Lookup
    BY DEF BreakInv, ComponentsInv, StackInv
  <2> QED BY <2>1 DEF Link, Lookup
<1> HIDE DEF top, link
<1>5. /\ path \in Seq(Link) /\ Len(path) = last /\ path[last] = top
      /\ \A k \in 1..(last - 1) : path[k] = trail[k]
  BY <1>1, <1>2, <1>3, ReplaceTop
<1> HIDE DEF path
<1>6. ASSUME NEW i \in 1..last
      PROVE  /\ path[i].node = trail[i].node /\ path[i].via = trail[i].via
             /\ trail[i].left \subseteq path[i].left \cup {e}
             /\ i < last => path[i].left = trail[i].left
  <2>1. i = last \/ i \in 1..(last - 1)
    BY <1>2
  <2> QED BY <1>3, <1>5, <2>1
<1>7. e.from = trail[last].node
  BY <1>1, <1>2 DEF PathInv, Linked
<1>8. /\ \A i \in 1..last : trail[i].node \notin searched /\ trail[i].node # e.to
      /\ \A i, j \in 1..last : trail[i].node = trail[j].node => i = j
      /\ \A i \in 1..last : \A x \in remaining : x.from = trail[i].node =>
           \/ x \in trail[i].left
           \/ x.to \in searched
           \/ i < last /\ x.to = trail[i + 1].node
      /\ \A i \in 2..last : trail[i].via # {}
  BY <1>0, <1>1 DEF CircleInv, OnTrail
<1>9. \A i \in 2..last : i \in 1..last
  BY <1>2
<1>10. \A i \in 1..last : i < last => i + 1 \in 1..last
  BY <1>2
<1>11. ASSUME NEW i \in 1..last, NEW x \in remaining, x.from = trail[i].node
       PROVE  \/ x \in path[i].left \/ x = e \/ x.to \in searched
              \/ i < last /\ x.to = path[i + 1].node
  BY <1>6, <1>8, <1>10, <1>11
<1>12. CASE e.to \in searched
  <2>1. trail' = path
    BY <1>1, <1>12
  <2>2. \A i \in 1..last : \A x \in remaining : x.from = path[i].node =>
           x \in path[i].left \/ x.to \in searched \/ (i < last /\ x.to = path[i + 1].node)
    BY <1>6, <1>11, <1>12
  <2>3. /\ \A i \in 1..last : path[i].node \notin searched
        /\ \A i, j \in 1..last : path[i].node = path[j].node => i = j
        /\ \A i \in 2..last : path[i].via # {}
    BY <1>6, <1>8, <1>9
  <2> QED BY <1>1, <1>5, <2>1, <2>2, <2>3 DEF CircleInv
<1>13. CASE e.to \notin searched
  <2>0. PICK t : t = trail'
    OBVIOUS
  <2>1. /\ Len(t) = last + 1 /\ t[last + 1] = link
        /\ \A i \in 1..last : t[i] = path[i]
    BY <1>1, <1>2, <1>4, <1>5, <1>13, <2>0
  <2>2. \A i \in 1..(last + 1) : i = last + 1 \/ i \in 1..last
    BY <1>2
  <2>3. \A i \in 1..last : i + 1 \in 1..(last + 1) /\ i < last + 1 /\ (i < last \/ i = last)
    BY <1>2
  <2>4. ASSUME NEW i \in 1..(last + 1), NEW x \in remaining, x.from = t[i].node
        PROVE  x \in t[i].left \/ x.to \in searched \/ (i < last + 1 /\ x.to = t[i + 1].node)
    <3>1. CASE i = last + 1
      BY <1>4, <2>1, <2>4, <3>1
    <3>2. CASE i \in 1..last
      <4>1. \/ x \in path[i].left \/ x = e \/ x.to \in searched
            \/ i < last /\ x.to = path[i + 1].node
        BY <1>6, <1>11, <2>1, <2>4, <3>2
      <4>2. CASE x = e
        <5>1. i = last
          BY <1>2, <1>6, <1>7, <1>8, <2>1, <2>4, <3>2, <4>2
        <5> QED BY <1>4, <2>1, <2>3, <4>2, <5>1, <3>2
      <4>3. CASE i < last /\ x.to = path[i + 1].node
        BY <1>10, <2>1, <2>3, <3>2, <4>3
      <4> QED BY <2>1, <3>2, <4>1, <4>2, <4>3
    <3> QED BY <2>2, <3>1, <3>2
  <2>5. \A i \in 1..(last + 1) : t[i].node \notin searched
    BY <1>4, <1>6, <1>8, <1>13, <2>1, <2>2
  <2>6. \A i, j \in 1..(last + 1) : t[i].node = t[j].node => i = j
    BY <1>4, <1>6, <1>8, <2>1, <2>2
  <2>7. ASSUME NEW i \in 2..(last + 1) PROVE t[i].via # {}
    <3>1. i = last + 1 \/ i \in 2..last
      BY <1>2
    <3> QED BY <1>4, <1>6, <1>8, <1>9, <2>1, <3>1
  <2> QED BY <1>1, <2>0, <2>1, <2>4, <2>5, <2>6, <2>7 DEF CircleInv
<1> QED BY <1>12, <1>13

LEMMA BacktrackKeepsCircles ==
  ASSUME CircleInv, PathInv, Backtrack
  PROVE  CircleInv'
<1>0. PICK last, n : last = Len(trail) /\ n = Last(trail).node
  OBVIOUS
<1>1. /\ trail # <<>> /\ Last(trail).left = {} /\ searched' = searched \cup {n}
      /\ trail' = ButLast(trail) /\ remaining' = remaining
  BY <1>0 DEF Backtrack
<1>2. /\ trail \in Seq(Link) /\ last \in Nat /\ last \in 1..last /\ last = Len(trail)
      /\ Last(trail) = trail[last] /\ n = trail[last].node /\ n \in Table
  <2>1. /\ trail \in Seq(Link) /\ last \in Nat /\ last \in 1..last /\ last = Len(trail)
        /\ Last(trail) = trail[last]
    BY <1>0, <1>1 DEF PathInv, Linked, Last
  <2>2. trail[last] \in Link
    BY <2>1
  <2> QED BY <1>0, <2>1, <2>2 DEF Link
<1>3. /\ Len(trail') = last - 1 /\ \A k \in 1..(last - 1) : trail'[k] = trail[k]
  BY <1>1, <1>2, SplitElements DEF ButLast
<1>4. \A k \in 1..(last - 1) : k \in 1..last /\ k # last /\ (k < last - 1 => k + 1 \in 1..(last - 1))
  BY <1>2
<1>5. /\ \A e \in remaining : e.from \in searched => e.to \in searched
      /\ \A m \in searched : ~OnCircle(remaining, m)
      /\ \A i \in 1..last : trail[i].node \notin searched
      /\ \A i, j \in 1..last : trail[i].node = trail[j].node => i = j
      /\ \A i \in 1..last : \A e \in remaining : e.from = trail[i].node =>
           \/ e \in trail[i].left \/ e.to \in searched
           \/ i < last /\ e.to = trail[i + 1].node
      /\ \A i \in 2..last : trail[i].via # {}
      /\ searched \subseteq Table
  BY <1>0 DEF CircleInv
<1>6. ASSUME NEW e \in remaining, e.from = n PROVE e.to \in searched
  BY <1>1, <1>2, <1>5, <1>6
<1>7. ~OnCircle(remaining, n)
  <2> SUFFICES ASSUME NEW e \in remaining, e.from = n, Reaches(remaining, e.to, n) PROVE FALSE
    BY DEF OnCircle
  <2>1. n \in searched
    BY <1>5, <1>6 DEF Reaches
  <2> QED BY <1>2, <1>5, <2>1
<1>8. \A i \in 1..(last - 1) : \A e \in remaining : e.from = trail'[i].node =>
        \/ e \in trail'[i].left \/ e.to \in searched'
        \/ i < last - 1 /\ e.to = trail'[i + 1].node
  <2> SUFFICES ASSUME NEW i \in 1..(last - 1), NEW e \in remaining, e.from = trail'[i].node,
                      e \notin trail'[i].left, e.to \notin searched'
               PROVE  i < last - 1 /\ e.to = trail'[i + 1].node
    OBVIOUS
  <2>1. i < last /\ e.to = trail[i + 1].node
    BY <1>1, <1>3, <1>4, <1>5
  <2>2. i + 1 # last
    BY <1>1, <1>2, <2>1
  <2>3. i < last - 1
    BY <1>2, <2>1, <2>2
  <2> QED BY <1>3, <1>4, <2>1, <2>3
<1>9. \A i \in 1..(last - 1) : trail'[i].node \notin searched'
  BY <1>1, <1>2, <1>3, <1>4, <1>5
<1>10. \A i, j \in 1..(last - 1) : trail'[i].node = trail'[j].node => i = j
  BY <1>3, <1>4, <1>5
<1>11. ASSUME NEW i \in 2..(last - 1) PROVE trail'[i].via # {}
  <2>1. i \in 2..last /\ i \in 1..(last - 1)
    BY <1>2
  <2> QED BY <1>3, <1>5, <2>1
<1>12. searched' \subseteq Table /\ \A m \in searched' : ~OnCircle(remaining', m)
  BY <1>1, <1>2, <1>5, <1>7
<1>13. \A e \in remaining' : e.from \in searched' => e.to \in searched'
  BY <1>1, <1>5, <1>6
<1> QED BY <1>1, <1>3, <1>8, <1>9, <1>10, <1>11, <1>12, <1>13 DEF CircleInv

LEMMA StepKeepsCircles ==
  ASSUME CircleInv, PathInv, BreakInv, ComponentsInv, [Next]_vars
  PROVE  CircleInv'
<1>1. ASSUME trail' = <<>>, searched' = {} PROVE CircleInv'
  <2>1. Len(trail') = 0
    BY <1>1
  <2> QED BY <1>1, <2>1 DEF CircleInv
<1>2. ASSUME UNCHANGED <<trail, remaining, searched>> PROVE CircleInv'
  BY <1>2 DEF CircleInv, OnCircle, Reaches
<1>3. ASSUME NEW n \in Table, Root(n) \/ Look(n) \/ Place(n)
      PROVE  UNCHANGED <<trail, remaining, searched>>
  BY <1>3 DEF Root, Look, Place, breaking
<1>4. ASSUME NEW n \in Table, SearchFrom(n) PROVE CircleInv'
  <2>0. PICK t : t = trail'
    OBVIOUS
  <2>1. /\ t = <<[node |-> n, via |-> {}, left |-> {e \in remaining : e.from = n}]>>
        /\ UNCHANGED <<remaining, searched>> /\ n \notin searched
    BY <1>4, <2>0 DEF SearchFrom, Step, First
  <2>2. Len(t) = 1 /\ t[1].node = n /\ t[1].left = {e \in remaining : e.from = n}
    BY <2>1
  <2>3. /\ \A i \in 1..Len(t) : t[i].node \notin searched
        /\ \A i, j \in 1..Len(t) : t[i].node = t[j].node => i = j
        /\ \A i \in 1..Len(t) : \A e \in remaining : e.from = t[i].node => e \in t[i].left
        /\ \A i \in 2..Len(t) : t[i].via # {}
    BY <2>1, <2>2
  <2>4. /\ searched \subseteq Table
        /\ \A e \in remaining : e.from \in searched => e.to \in searched
        /\ \A m \in searched : ~OnCircle(remaining, m)
    BY DEF CircleInv
  <2> QED BY <2>0, <2>1, <2>3, <2>4 DEF CircleInv
<1>5. ASSUME NEW c \in todo, OpenComponent(c) PROVE trail' = <<>> /\ searched' = {}
  BY <1>5 DEF OpenComponent, SearchAnew
<1>6. ASSUME NEW e \in remaining, NEW x \in remaining, GiveUp(e) \/ Break(e, x)
      PROVE  trail' = <<>> /\ searched' = {}
  BY <1>6 DEF GiveUp, Break, SearchAnew
<1>7. ASSUME CloseComponent PROVE trail' = <<>> /\ searched' = {}
  BY <1>7 DEF CloseComponent, SearchAnew
<1>8. ASSUME Retreat \/ EndComponents \/ EndCycles \/ EndOrder \/ UNCHANGED vars
      PROVE  UNCHANGED <<trail, remaining, searched>>
  BY <1>8 DEF Retreat, EndComponents, EndCycles, EndOrder, vars, breaking
<1> QED
  BY <1>1, <1>2, <1>3, <1>4, <1>5, <1>6, <1>7, <1>8, FollowKeepsCircles, BacktrackKeepsCircles
  DEF Next

-----------------------------------------------------------------------------
(* What becomes of a component.                                            *)

\* Components whose circles are all broken.
Broken == components \ (todo \cup stuck \cup {current})

BrokenInv ==
  /\ phase # "components" =>
       \A c \in Broken : \A n \in c : ~OnCircle(Intra(c) \ deferred, n)
  /\ current # {} => remaining = Intra(current) \ deferred
  /\ stuck \subseteq components \ todo /\ current \notin stuck
  /\ \A c \in stuck : \E n \in c : OnCircle(Compulsory, n)
  /\ phase = "components" => stuck = {}
  /\ phase \in {"order", "done"} => todo = {} /\ current = {}
  /\ phase = "done" => Ready = {}
  /\ \A n \in Placed : ~SelfBlocked(n)

LEMMA RequiredCircle ==
  ASSUME CircleInv, PathInv, ComponentsInv, BreakInv, NEW e \in remaining, GiveUp(e)
  PROVE  OnCircle(Compulsory, e.from)
<1>0. PICK last, i : /\ last = Len(trail)
                     /\ i = CHOOSE j \in 1..Len(trail) : trail[j].node = e.to
  OBVIOUS
<1>1. /\ trail # <<>> /\ e \in Last(trail).left /\ OnTrail(e.to)
      /\ \A x \in {e} \cup UNION {trail[j].via : j \in (i + 1)..last} : x.required
  BY <1>0 DEF GiveUp, Cycle
<1>2. trail \in Seq(Link) /\ last \in Nat /\ last \in 1..last /\ e.from = trail[last].node
  BY <1>0, <1>1 DEF PathInv, Linked, Last
<1>3. i \in 1..last /\ trail[i].node = e.to
  BY <1>0, <1>1 DEF OnTrail
<1>4. /\ \A j \in 2..last : trail[j].via # {}
      /\ \A j \in 2..last : \A x \in trail[j].via :
           x \in remaining /\ x.from = trail[j - 1].node /\ x.to = trail[j].node
  BY <1>0 DEF CircleInv, PathInv, Linked
<1>5. e \in Compulsory
  BY <1>1 DEF Compulsory, BreakInv
<1>6. ASSUME NEW S \in SUBSET Table, e.to \in S, \A x \in Compulsory : x.from \in S => x.to \in S
      PROVE  e.from \in S
  <2> DEFINE Astray == {j \in i..last : trail[j].node \notin S}
  <2> SUFFICES ASSUME Astray # {} PROVE FALSE
    BY <1>2, <1>3
  <2>1. Astray \in SUBSET Nat
    BY <1>2, <1>3
  <2>2. PICK j \in Astray : \A k \in Astray : j <= k
    <3> HIDE DEF Astray
    <3> QED BY <2>1, Least
  <2>3. j \in i..last /\ trail[j].node \notin S /\ j # i
    BY <1>3, <1>6, <2>2
  <2>4. j \in (i + 1)..last /\ j \in 2..last /\ j - 1 \in i..last /\ ~(j <= j - 1)
    BY <1>2, <1>3, <2>3
  <2>5. trail[j - 1].node \in S
    BY <2>2, <2>4
  <2>6. PICK x \in trail[j].via : TRUE
    BY <1>4, <2>4
  <2>7. x \in Compulsory /\ x.from = trail[j - 1].node /\ x.to = trail[j].node
    BY <1>1, <1>4, <2>4 DEF Compulsory, BreakInv
  <2> QED BY <1>6, <2>3, <2>5, <2>7
<1>7. Reaches(Compulsory, e.to, e.from)
  BY <1>6 DEF Reaches
<1> QED BY <1>5, <1>7, CircleIsThere

LEMMA StepKeepsBroken ==
  ASSUME BrokenInv, CircleInv, PathInv, BreakInv, MutualInv, ComponentsInv, OrderInv, [Next]_vars
  PROVE  BrokenInv'
<1>0. {} \notin components
  BY DEF MutualInv
<1>1. ASSUME UNCHANGED <<edges, components, todo, current, remaining, deferred, stuck, order, phase>>
      PROVE  BrokenInv'
  <2>1. /\ Broken' = Broken /\ Ready' = Ready /\ Compulsory' = Compulsory /\ Placed' = Placed
        /\ \A c : Intra(c)' = Intra(c)
        /\ \A n : SelfBlocked(n)' <=> SelfBlocked(n)
    BY <1>1 DEF Broken, Ready, Compulsory, Placed, Intra, SelfBlocked, Deps, Elements
  <2> QED BY <1>1, <2>1 DEF BrokenInv, OnCircle, Reaches
<1>2. ASSUME phase = "components", phase' = phase, UNCHANGED <<edges, breaking, order>>,
             components \subseteq components'
      PROVE  BrokenInv'
  <2>1. Placed' = Placed /\ \A n : SelfBlocked(n)' <=> SelfBlocked(n)
    BY <1>2 DEF Placed, SelfBlocked, Elements, breaking
  <2>2. stuck = {} /\ stuck' = {} /\ current = {} /\ current' = {}
    BY <1>2 DEF BrokenInv, BreakInv, breaking
  <2> QED BY <1>2, <2>1, <2>2 DEF BrokenInv
<1>3. ASSUME NEW n \in Table, Root(n) \/ Look(n) PROVE BrokenInv'
  BY <1>2, <1>3 DEF Root, Look
<1>4. CASE Retreat
  <2>1. components \subseteq components'
    BY <1>4 DEF Retreat
  <2> QED BY <1>2, <1>4, <2>1 DEF Retreat
<1>5. ASSUME UNCHANGED <<edges, components>>
      PROVE  Compulsory' = Compulsory /\ \A c : Intra(c)' = Intra(c)
  BY <1>5 DEF Compulsory, Intra
<1>6. CASE EndComponents
  <2>1. /\ todo' = {c \in components : Cyclic(c)} /\ phase = "components" /\ phase' = "cycles"
        /\ UNCHANGED <<edges, components, current, deferred, stuck, order>>
    BY <1>6 DEF EndComponents, tarjan
  <2>2. stuck = {} /\ current = {} /\ deferred = {} /\ order = <<>>
    BY <2>1 DEF BrokenInv, BreakInv, OrderInv
  <2>3. Placed' = {}
    BY <2>1, <2>2 DEF Placed, Elements
  <2>4. ASSUME NEW c \in Broken', NEW n \in c PROVE ~OnCircle((Intra(c) \ deferred)', n)
    <3>1. Intra(c) = {} /\ Intra(c)' = Intra(c)
      BY <1>5, <2>1 DEF Broken, Cyclic
    <3> QED BY <3>1 DEF OnCircle
  <2> QED BY <2>1, <2>2, <2>3, <2>4 DEF BrokenInv
<1>7. ASSUME NEW c \in todo, OpenComponent(c) PROVE BrokenInv'
  <2>1. /\ current' = c /\ todo' = todo \ {c} /\ remaining' = Intra(c)
        /\ phase = "cycles" /\ current = {}
        /\ UNCHANGED <<edges, phase, components, deferred, stuck, order>>
    BY <1>7 DEF OpenComponent, tarjan
  <2>2. Broken' = Broken
    BY <1>0, <2>1 DEF Broken
  <2>3. c \notin stuck
    BY DEF BrokenInv
  <2>4. ASSUME NEW e \in deferred, e \in Intra(c) PROVE FALSE
    <3>1. PICK d \in components \ todo : e \in Intra(d)
      BY DEF BreakInv
    <3>2. c # d /\ e.from \in c /\ e.from \in d /\ c \in components
      BY <2>4, <3>1 DEF Intra, BreakInv
    <3> QED BY <3>1, <3>2 DEF ComponentsInv, ApartInv
  <2>5. \A d : Intra(d)' = Intra(d)
    BY <1>5, <2>1
  <2>6. Compulsory' = Compulsory /\ Placed' = Placed /\ \A n : SelfBlocked(n)' <=> SelfBlocked(n)
    BY <2>1 DEF Compulsory, Placed, Elements, SelfBlocked
  <2>7. \A d \in Broken' : \A n \in d : ~OnCircle((Intra(d) \ deferred)', n)
    BY <2>1, <2>2, <2>5 DEF BrokenInv
  <2>8. remaining' = (Intra(current) \ deferred)'
    BY <2>1, <2>4, <2>5
  <2> QED BY <2>1, <2>3, <2>6, <2>7, <2>8 DEF BrokenInv
<1>8. ASSUME NEW n \in Table, SearchFrom(n) PROVE BrokenInv'
  BY <1>1, <1>8 DEF SearchFrom, tarjan
<1>9. ASSUME NEW e \in remaining, Follow(e) PROVE BrokenInv'
  BY <1>1, <1>9 DEF Follow, tarjan
<1>10. CASE Backtrack
  BY <1>1, <1>10 DEF Backtrack, tarjan
<1>11. ASSUME NEW e \in remaining, GiveUp(e) PROVE BrokenInv'
  <2>1. /\ stuck' = stuck \cup {current} /\ current' = {} /\ phase = "cycles"
        /\ current # {}
        /\ UNCHANGED <<edges, phase, components, todo, deferred, order>>
    BY <1>11 DEF GiveUp, tarjan, BreakInv
  <2>2. Broken' = Broken
    BY <1>0, <2>1 DEF Broken
  <2>3. \A c : Intra(c)' = Intra(c)
    BY <1>5, <2>1
  <2>4. Compulsory' = Compulsory /\ Placed' = Placed /\ \A n : SelfBlocked(n)' <=> SelfBlocked(n)
    BY <2>1 DEF Compulsory, Placed, Elements, SelfBlocked
  <2>5. \A d \in Broken' : \A n \in d : ~OnCircle((Intra(d) \ deferred)', n)
    BY <2>1, <2>2, <2>3 DEF BrokenInv
  <2>6. e.from \in current /\ current \in components \ todo
    BY <2>1 DEF BreakInv, Intra
  <2>7. OnCircle(Compulsory, e.from)
    BY <1>11, RequiredCircle
  <2>8. \A c \in stuck' : \E n \in c : OnCircle(Compulsory', n)
    BY <2>1, <2>4, <2>6, <2>7 DEF BrokenInv
  <2>9. stuck' \subseteq components' \ todo' /\ current' \notin stuck'
    BY <1>0, <2>1, <2>6 DEF BrokenInv
  <2> QED BY <2>1, <2>4, <2>5, <2>8, <2>9 DEF BrokenInv
<1>12. ASSUME NEW e \in remaining, NEW x \in remaining, Break(e, x) PROVE BrokenInv'
  <2>1. /\ deferred' = deferred \cup {x} /\ remaining' = remaining \ {x} /\ phase = "cycles"
        /\ UNCHANGED <<edges, phase, components, todo, current, stuck, order>>
    BY <1>12 DEF Break, Defer, tarjan
  <2>2. Broken' = Broken /\ Compulsory' = Compulsory
    BY <2>1 DEF Broken, Compulsory
  <2>3. \A c : Intra(c)' = Intra(c)
    BY <1>5, <2>1
  <2>4. Placed' = {}
    BY <2>1 DEF Placed, Elements, OrderInv
  <2>5. \A d \in Broken' : \A n \in d : ~OnCircle((Intra(d) \ deferred)', n)
    <3>1. \A d : (Intra(d) \ deferred)' \subseteq Intra(d) \ deferred
      BY <2>1, <2>3
    <3>2. \A d \in Broken : \A n \in d : ~OnCircle(Intra(d) \ deferred, n)
      BY <2>1 DEF BrokenInv
    <3> QED BY <2>2, <3>1, <3>2, CircleOfMore
  <2>6. current' # {} => remaining' = (Intra(current) \ deferred)'
    BY <2>1, <2>3 DEF BrokenInv
  <2> QED BY <2>1, <2>2, <2>4, <2>5, <2>6 DEF BrokenInv
<1>13. CASE CloseComponent
  <2>1. /\ current # {} /\ current \subseteq searched /\ current' = {} /\ phase = "cycles"
        /\ UNCHANGED <<edges, phase, components, todo, deferred, stuck, order>>
    BY <1>13 DEF CloseComponent, tarjan
  <2>2. Broken' \subseteq Broken \cup {current}
    BY <2>1 DEF Broken
  <2>3. \A c : Intra(c)' = Intra(c)
    BY <1>5, <2>1
  <2>4. Compulsory' = Compulsory /\ Placed' = Placed /\ \A n : SelfBlocked(n)' <=> SelfBlocked(n)
    BY <2>1 DEF Compulsory, Placed, Elements, SelfBlocked
  <2>5. \A n \in current : ~OnCircle(Intra(current) \ deferred, n)
    BY <2>1 DEF BrokenInv, CircleInv
  <2>6. \A d \in Broken' : \A n \in d : ~OnCircle((Intra(d) \ deferred)', n)
    BY <2>1, <2>2, <2>3, <2>5 DEF BrokenInv
  <2>7. {} \notin stuck
    BY <1>0 DEF BrokenInv
  <2> QED BY <2>1, <2>4, <2>6, <2>7 DEF BrokenInv
<1>14. CASE EndCycles \/ EndOrder
  <2>1. /\ UNCHANGED <<edges, components, todo, current, remaining, deferred, stuck, order>>
        /\ \/ phase = "cycles" /\ phase' = "order" /\ current = {} /\ todo = {}
           \/ phase = "order" /\ phase' = "done" /\ Ready = {}
    BY <1>14 DEF EndCycles, EndOrder, tarjan, breaking
  <2>2. /\ Broken' = Broken /\ Ready' = Ready /\ Compulsory' = Compulsory /\ Placed' = Placed
        /\ \A c : Intra(c)' = Intra(c)
        /\ \A n : SelfBlocked(n)' <=> SelfBlocked(n)
    BY <2>1 DEF Broken, Ready, Compulsory, Placed, Intra, SelfBlocked, Deps, Elements
  <2> QED BY <2>1, <2>2 DEF BrokenInv
<1>15. ASSUME NEW n \in Table, Place(n) PROVE BrokenInv'
  <2>1. /\ UNCHANGED <<edges, components, todo, current, remaining, deferred, stuck, phase>>
        /\ phase = "order" /\ order' = Append(order, n) /\ ~SelfBlocked(n)
    BY <1>15 DEF Place, tarjan, breaking, First, Ready
  <2>2. Placed' = Placed \cup {n}
    BY <2>1, AppendElements DEF OrderInv, Placed
  <2>3. /\ Broken' = Broken /\ Compulsory' = Compulsory
        /\ \A c : Intra(c)' = Intra(c)
        /\ \A m : SelfBlocked(m)' <=> SelfBlocked(m)
    BY <2>1 DEF Broken, Compulsory, Intra, SelfBlocked
  <2> QED BY <2>1, <2>2, <2>3 DEF BrokenInv
<1>16. CASE UNCHANGED vars
  BY <1>1, <1>16 DEF vars, tarjan, breaking
<1> QED
  BY <1>3, <1>4, <1>6, <1>7, <1>8, <1>9, <1>10, <1>11, <1>12, <1>13, <1>14, <1>15, <1>16 DEF Next

-----------------------------------------------------------------------------
(* Kahn's algorithm.                                                       *)

(* Tables each of which has a lookup to another of them have a circle: the *)
(* one that leads to the fewest lies on it.                                *)
LEMMA NowhereToStop ==
  ASSUME NEW E \in SUBSET Lookup, NEW U \in SUBSET Table, U # {},
         \A n \in U : \E e \in E : e.from = n /\ e.to \in U
  PROVE  \E n \in U : OnCircle(E, n)
<1> DEFINE Ahead(n) == {m \in Table : Reaches(E, n, m)}
           Sizes == {Cardinality(Ahead(n)) : n \in U}
<1>1. ASSUME NEW n PROVE IsFiniteSet(Ahead(n)) /\ Cardinality(Ahead(n)) \in Nat
  <2>1. IsFiniteSet(Table)
    BY DependencyAssumption, FS_Interval DEF Table
  <2>2. IsFiniteSet(Ahead(n))
    BY <2>1, FS_Subset
  <2> QED BY <2>2, FS_CardinalityType
<1>2. PICK n \in U : \A m \in U : Cardinality(Ahead(n)) <= Cardinality(Ahead(m))
  <2> HIDE DEF Ahead
  <2>1. Sizes \in SUBSET Nat /\ Sizes # {}
    BY <1>1
  <2>2. PICK s \in Sizes : \A t \in Sizes : s <= t
    <3> HIDE DEF Sizes
    <3> QED BY <2>1, Least
  <2> QED BY <2>2
<1>3. PICK e \in E : e.from = n /\ e.to \in U
  OBVIOUS
<1>4. Ahead(e.to) \subseteq Ahead(n)
  <2>1. Reaches(E, n, e.to)
    BY <1>3, ReachesSelf, ReachesOn
  <2> QED BY <2>1, ReachesThrough
<1>5. Ahead(e.to) = Ahead(n)
  <2>1. /\ Cardinality(Ahead(n)) <= Cardinality(Ahead(e.to))
        /\ Cardinality(Ahead(e.to)) \in Nat /\ Cardinality(Ahead(n)) \in Nat
        /\ IsFiniteSet(Ahead(n))
    BY <1>1, <1>2, <1>3
  <2> HIDE DEF Ahead
  <2>2. /\ Cardinality(Ahead(e.to)) <= Cardinality(Ahead(n))
        /\ Cardinality(Ahead(e.to)) = Cardinality(Ahead(n)) => Ahead(e.to) = Ahead(n)
    BY <1>4, <2>1, FS_Subset
  <2> QED BY <2>1, <2>2
<1>6. n \in Ahead(n)
  BY ReachesSelf
<1> QED BY <1>3, <1>5, <1>6 DEF OnCircle

LEMMA OnlyCirclesBlock ==
  ASSUME BrokenInv, MutualInv, ComponentsAreMutual, ComponentsInv, OrderInv
  PROVE  OnlyRequiredCirclesBlock
<1> SUFFICES ASSUME phase = "done"
             PROVE  /\ \A c \in components : c \in stuck <=> \E n \in c : OnCircle(Compulsory, n)
                    /\ \A n \in Table : OnCircle(Compulsory, n) => n \in Unordered
                    /\ \A n \in Unordered :
                         \E m \in UNION stuck : Reaches(edges \ deferred, n, m)
  BY DEF OnlyRequiredCirclesBlock
<1>1. Compulsory \subseteq edges /\ Compulsory \cap deferred = {} /\ edges \in SUBSET Lookup
  BY DEF Compulsory, OrderInv
<1>2. Broken = components \ stuck
  BY DEF BrokenInv, Broken, MutualInv
<1>3. ASSUME NEW E, E \subseteq edges \ deferred, NEW c \in components, NEW n \in c, OnCircle(E, n)
      PROVE  c \in stuck
  <2>1. OnCircle(E \cap Intra(c), n)
    BY <1>3, CircleInside
  <2>2. OnCircle(Intra(c) \ deferred, n)
    BY <1>3, <2>1, CircleOfMore
  <2> QED BY <1>2, <2>2 DEF BrokenInv
<1>4. ASSUME NEW c \in components PROVE c \in stuck <=> \E n \in c : OnCircle(Compulsory, n)
  BY <1>1, <1>3 DEF BrokenInv
<1>5. ASSUME NEW n \in Table, OnCircle(Compulsory, n) PROVE n \in Unordered
  <2> SUFFICES ASSUME n \in Placed PROVE FALSE
    BY DEF Unordered
  <2>1. PICK i \in 1..Len(order) : order[i] = n
    BY DEF Placed, Elements
  <2>2. Len(order) \in Nat /\ order \in Seq(Table)
    BY DEF OrderInv
  <2> DEFINE S == {order[j] : j \in 1..(i - 1)}
  <2>3. \A j \in 1..(i - 1) : j \in 1..Len(order) /\ order[j] \in Table
    BY <2>2
  <2>4. PICK e \in Compulsory : e.from = n /\ Reaches(Compulsory, e.to, n)
    BY <1>5 DEF OnCircle
  <2>5. e.to # n
    BY <1>1, <2>4 DEF BrokenInv, SelfBlocked
  <2>6. e.to \in S
    BY <1>1, <2>1, <2>4, <2>5 DEF OrderInv, OrderRespects
  <2>7. ASSUME NEW x \in Compulsory, x.from \in S PROVE x.to \in S
    <3>1. PICK j \in 1..(i - 1) : order[j] = x.from
      BY <2>7
    <3>2. j \in 1..Len(order) /\ \A k \in 1..(j - 1) : k \in 1..(i - 1)
      BY <2>2, <2>3
    <3>3. CASE x.to = x.from
      BY <2>7, <3>3
    <3>4. CASE x.to # x.from
      BY <1>1, <3>1, <3>2, <3>4 DEF OrderInv, OrderRespects
    <3> QED BY <3>3, <3>4
  <2>8. n \in S
    <3>1. S \in SUBSET Table
      BY <2>3
    <3> HIDE DEF S
    <3> QED BY <2>4, <2>6, <2>7, <3>1 DEF Reaches
  <2> QED BY <2>1, <2>8 DEF OrderInv, OrderRespects
<1>6. ASSUME NEW n \in Unordered
      PROVE  \E m \in UNION stuck : Reaches(edges \ deferred, n, m)
  <2> DEFINE E == edges \ deferred
             U == {m \in Unordered : \A o \in UNION stuck : ~Reaches(E, m, o)}
  <2> SUFFICES ASSUME U # {} PROVE FALSE
    OBVIOUS
  <2>1. E \in SUBSET Lookup /\ U \in SUBSET Table
    BY <1>1 DEF Unordered
  <2>2. ASSUME NEW m \in Table PROVE \E c \in components : m \in c
    <3>1. components = {{o \in Table : Reaches(edges, k, o) /\ Reaches(edges, o, k)} : k \in Table}
      BY DEF ComponentsAreMutual
    <3>2. m \in {o \in Table : Reaches(edges, m, o) /\ Reaches(edges, o, m)}
      BY ReachesSelf
    <3> QED BY <3>1, <3>2
  <2>3. ASSUME NEW m \in U PROVE ~OnCircle(E, m)
    <3> SUFFICES ASSUME OnCircle(E, m) PROVE FALSE
      OBVIOUS
    <3>1. PICK c \in components : m \in c
      BY <2>1, <2>2
    <3>2. c \in stuck
      BY <1>3, <3>1
    <3> QED BY <3>1, <3>2, ReachesSelf
  <2>4. ASSUME NEW m \in U PROVE \E e \in E : e.from = m /\ e.to \in U
    <3>1. m \in Table /\ m \notin Placed /\ m \notin Ready
      BY DEF Unordered, BrokenInv
    <3>2. ~SelfBlocked(m)
      <4> SUFFICES ASSUME NEW e \in E, e.from = m, e.to = m PROVE FALSE
        BY DEF SelfBlocked
      <4> QED BY <2>3, ReachesSelf DEF OnCircle
    <3>3. PICK d \in Deps(m) : d \notin Placed
      BY <3>1, <3>2 DEF Ready
    <3>4. PICK e \in E : e.from = m /\ e.to = d
      BY DEF Deps
    <3>5. d \in Unordered
      BY <2>1, <3>3, <3>4 DEF Unordered, Lookup
    <3>6. Reaches(E, m, d)
      BY <3>4, ReachesSelf, ReachesOn
    <3>7. d \in U
      BY <3>5, <3>6, ReachesThrough
    <3> QED BY <3>4, <3>7
  <2> HIDE DEF E, U
  <2> QED BY <2>1, <2>3, <2>4, NowhereToStop
<1> QED BY <1>4, <1>5, <1>6

-----------------------------------------------------------------------------
(* The theorems.                                                           *)

IInv ==
  /\ OrderInv /\ ComponentsInv /\ BreakInv /\ PathInv
  /\ SearchInv /\ MutualInv /\ CircleInv /\ BrokenInv

LEMMA InitIInv == Init => IInv
<1> SUFFICES ASSUME Init PROVE IInv
  OBVIOUS
<1>1. edges \in SUBSET Lookup
  BY DependencyAssumption DEF Init
<1>2. OrderInv
  BY <1>1 DEF Init, OrderInv, OrderRespects
<1>3. ComponentsInv
  BY <1>1 DEF Init, ComponentsInv, StackInv, FramesInv, ApartInv
<1>4. BreakInv
  BY DEF Init, BreakInv
<1>5. PathInv
  BY NoLinks DEF Init, PathInv
<1>6. Visited = {} /\ Open = {} /\ Finished = {} /\ Len(frames) = 0 /\ Len(stack) = 0
  BY DEF Init, Visited, Open, Elements, Finished
<1>7. NumbersInv
  <2>1. Cardinality(Visited) = 0
    BY <1>6, FS_EmptySet
  <2> QED BY <1>6, <2>1 DEF Init, NumbersInv
<1>8. SeenInv /\ PathsInv /\ LowInv
  BY <1>6 DEF SeenInv, PathsInv, LowInv
<1>9. MutualInv
  BY <1>6 DEF Init, MutualInv
<1>10. CircleInv
  BY NothingSearched DEF Init
<1>11. BrokenInv
  <2>1. Placed = {}
    BY DEF Init, Placed, Elements
  <2> QED BY <2>1 DEF Init, BrokenInv
<1> QED
  BY <1>2, <1>3, <1>4, <1>5, <1>7, <1>8, <1>9, <1>10, <1>11 DEF IInv, SearchInv

LEMMA StepIInv == IInv /\ [Next]_vars => IInv'
<1> SUFFICES ASSUME IInv, [Next]_vars PROVE IInv'
  OBVIOUS
<1>1. remaining \subseteq edges
  BY DEF IInv, BreakInv
<1> QED
  BY <1>1, StepKeepsOrder, StepKeepsApart, StepKeepsBreaking, StepKeepsPath,
     StepKeepsComponents, StepKeepsCircles, StepKeepsBroken DEF IInv

(* The variables of the three calculations have their types.               *)
THEOREM TypeCorrect == Spec => []TypeOK
<1> DEFINE Started == edges \in Inputs /\ phase \in {"components", "cycles", "order", "done"}
<1>1. Init => Started
  BY DEF Init
<1>2. Started /\ [Next]_vars => Started'
  <2> SUFFICES ASSUME Started, [Next]_vars PROVE Started'
    OBVIOUS
  <2>1. edges' = edges
    BY DEF Next, Root, Look, SearchFrom, Place, Retreat, EndComponents, OpenComponent, Follow,
       GiveUp, Break, Backtrack, CloseComponent, EndCycles, EndOrder, vars
  <2>2. phase' = phase \/ phase' \in {"cycles", "order", "done"}
    BY DEF Next, Root, Look, SearchFrom, Place, Retreat, EndComponents, OpenComponent, Follow,
       GiveUp, Break, Backtrack, CloseComponent, EndCycles, EndOrder, vars
  <2> QED BY <2>1, <2>2
<1>3. IInv /\ Started => TypeOK
  BY DEF IInv, OrderInv, ComponentsInv, StackInv, SearchInv, NumbersInv, BreakInv, CircleInv,
     BrokenInv, TypeOK
<1> QED BY <1>1, <1>2, <1>3, InitIInv, StepIInv, PTL DEF Spec

(* In the order analyzeDependencies returns, for any tables and lookups,   *)
(* what a table's lookups point to comes before it, unless the lookup is   *)
(* optional and deferred to pass 2.                                        *)
THEOREM OrderIsRespected == Spec => []OrderRespects
<1>1. IInv => OrderRespects
  BY DEF IInv, OrderInv
<1> QED BY InitIInv, StepIInv, <1>1, PTL DEF Spec

LEMMA DeferredLeadsBack ==
  ASSUME IInv, [Next]_vars, NEW x \in deferred' \ deferred
  PROVE  Reaches(edges \ deferred, x.to, x.from)
<1>1. PICK e \in remaining : \E y \in remaining : Break(e, y)
  <2>1. ASSUME NEW n \in Table, Root(n) \/ Look(n) \/ SearchFrom(n) \/ Place(n)
        PROVE  deferred' = deferred
    BY <2>1 DEF Root, Look, SearchFrom, Place, breaking
  <2>2. ASSUME NEW c \in todo, OpenComponent(c) PROVE deferred' = deferred
    BY <2>2 DEF OpenComponent
  <2>3. ASSUME NEW e \in remaining, Follow(e) \/ GiveUp(e) PROVE deferred' = deferred
    BY <2>3 DEF Follow, GiveUp
  <2>4. ASSUME \/ Retreat \/ EndComponents \/ Backtrack \/ CloseComponent \/ EndCycles
               \/ EndOrder \/ UNCHANGED vars
        PROVE  deferred' = deferred
    BY <2>4 DEF Retreat, EndComponents, Backtrack, CloseComponent, EndCycles, EndOrder, vars,
                breaking
  <2> QED BY <2>1, <2>2, <2>3, <2>4 DEF Next
<1>2. PICK y \in remaining : Break(e, y)
  BY <1>1
<1>3. /\ trail # <<>> /\ e \in Last(trail).left /\ OnTrail(e.to)
      /\ y \in Cycle(e) /\ deferred' = deferred \cup {y}
  BY <1>2 DEF Break, MayDefer, Defer
<1>4. x = y
  BY <1>3
<1>5. Reaches(remaining, x.to, x.from)
  BY <1>3, <1>4, CycleLeadsBack DEF IInv, PathInv
<1>6. remaining \subseteq edges \ deferred
  BY <1>3 DEF IInv, BreakInv, Intra
<1> QED BY <1>5, <1>6, ReachesMore

(* No lookup is deferred without need: one that is lies on a circle of     *)
(* lookups of which none has been deferred.                                *)
THEOREM DeferredOnCircles == Spec => DeferredOnCircle
<1>1. IInv /\ [Next]_vars =>
        [\A e \in deferred' \ deferred : Reaches(edges \ deferred, e.to, e.from)]_vars
  BY DeferredLeadsBack
<1> QED BY InitIInv, StepIInv, <1>1, PTL DEF Spec, DeferredOnCircle

(* stronglyConnectedComponents is right, for any tables and lookups: when  *)
(* it ends each component is what can be reached from, and reaches, each   *)
(* of its tables, and every table is in one.                               *)
THEOREM ComponentsMutual == Spec => []ComponentsAreMutual
<1>1. IInv => ComponentsAreMutual
  BY ComponentsAre DEF IInv
<1> QED BY InitIInv, StepIInv, <1>1, PTL DEF Spec

(* Only circles of required lookups keep a table from its place: a         *)
(* component is given up if and only if it has one, and what gets no place *)
(* leads to such a component.                                              *)
THEOREM RequiredCirclesBlock == Spec => []OnlyRequiredCirclesBlock
<1>1. IInv => OnlyRequiredCirclesBlock
  BY ComponentsAre, OnlyCirclesBlock DEF IInv
<1> QED BY InitIInv, StepIInv, <1>1, PTL DEF Spec
=============================================================================
