---------------------------- MODULE MCTransport -----------------------------
(***************************************************************************)
(* Transport for TLC: two nodes with names of their own, and an alias that *)
(* either may be reached by.  Connections are only compared, and the nodes *)
(* can be swapped together with their names.                               *)
(***************************************************************************)
EXTENDS Transport, TLC

CONSTANTS a, b, nameA, nameB, alias

MCAnnounced == [n \in Nodes |-> IF n = a THEN nameA ELSE nameB]

MCAt == nameA :> {a} @@ nameB :> {b} @@ alias :> {a, b}

\* Without the alias: a may listen where b is expected.
MCReused == nameA :> {a} @@ nameB :> {a, b}

ConnSymmetry == Permutations(Conns)

Same == [x \in {a, b, nameA, nameB} |-> x]
Swap == a :> b @@ b :> a @@ nameA :> nameB @@ nameB :> nameA

Symmetry == {p @@ q : p \in Permutations(Conns), q \in {Same, Swap}}

=============================================================================
