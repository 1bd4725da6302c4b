------------------------------- MODULE MCPlan -------------------------------
EXTENDS Plan, TLC

CONSTANTS a, b, home, other

\* The target has the table, with one of the columns; then a deployment adds a
\* column and another removes one: "a" to "b" fits, a key to a text column.
SchemaOf ==
  <<[source |-> {a, b}, target |-> (home :> {a, b}) @@ (other :> {a})],
    [source |-> {a, b}, target |-> (home :> {b}) @@ (other :> {a, b})]>>

FitsOf == {<<a, a>>, <<a, b>>, <<b, b>>}

Symmetry == Permutations(Client)
=============================================================================
