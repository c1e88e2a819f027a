----------------------------- MODULE MCPgStart ------------------------------
(* Small instances of PgStart for TLC.                                     *)
EXTENDS PgStart, TLC

CONSTANTS c1, c2, c3, n1, n2

ThreeClients   == {c1, c2, c3}
TwoSpaces      == {n1, n2, Empty}
StartSymmetry  == Permutations(ThreeClients) \cup Permutations({n1, n2})
OneKey         == {Empty, "k"}

Step(name, dependsOn) == [name |-> name, dependsOn |-> dependsOn]

\* A workflow of two steps, and ones that Start refuses: no name, no step, a
\* step without a name, a name used twice, an unknown dependency.
Orders ==
  {[name |-> "order", activities |-> <<Step("validate", {}), Step("charge", {"validate"})>>],
   [name |-> Empty, activities |-> <<Step("validate", {})>>],
   [name |-> "order", activities |-> <<>>],
   [name |-> "order", activities |-> <<Step(Empty, {})>>],
   [name |-> "order", activities |-> <<Step("charge", {}), Step("charge", {})>>],
   [name |-> "order", activities |-> <<Step("charge", {"validate"})>>]}
=============================================================================
