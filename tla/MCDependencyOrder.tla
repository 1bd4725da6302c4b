------------------------- MODULE MCDependencyOrder -------------------------
EXTENDS DependencyOrder, FiniteSetsExt, TLC

CONSTANTS MaxLookups, may, must

\* Every set of at most MaxLookups lookups of three tables, through an optional and
\* a required column of each.
OfThree == {e \in Lookup : e.from <= 3 /\ e.to <= 3 /\ (e.required <=> e.column = must)}
Small == UNION {kSubset(k, OfThree) : k \in 0..MaxLookups}

\* Every set of optional lookups of two tables, through two columns.
Parallel == SUBSET {e \in Lookup : e.from <= 2 /\ e.to <= 2 /\ ~e.required}

\* Four tables: two circles of two, one leading to the other, and a ring with
\* a chord, under all names and with every lookup optional or required.
Shapes == {{<<1, 2>>, <<2, 1>>, <<3, 4>>, <<4, 3>>, <<2, 3>>},
           {<<1, 2>>, <<2, 3>>, <<3, 4>>, <<4, 1>>, <<3, 1>>}}
Renamed == {{<<p[a[1]], p[a[2]]>> : a \in shape} : p \in Permutations(Table), shape \in Shapes}
Large == UNION {{{[from |-> a[1], column |-> IF a \in needed THEN must ELSE may, to |-> a[2],
                     required |-> a \in needed] : a \in shape} :
                   needed \in SUBSET shape} : shape \in Renamed}

SmallAndLarge == Small \cup Parallel \cup Large
=============================================================================
