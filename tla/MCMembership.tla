---------------------------- MODULE MCMembership ----------------------------
(* Constants of the runs of Membership. *)
EXTENDS Membership, TLC

CONSTANTS p1, p2, u1, u2

UserOf == (p1 :> u1) @@ (p2 :> u2)

\* A client that asks twice joins twice, or joins and pushes.
TriesOf  == (p1 :> 1) @@ (p2 :> 2)
TwoTries == (p1 :> 2) @@ (p2 :> 2)

\* Two clients of equal tries, each with its user, can be exchanged.
Same == [x \in {p1, p2, u1, u2} |-> x]
Swap == p1 :> p2 @@ p2 :> p1 @@ u1 :> u2 @@ u2 :> u1
Symmetry == {q : q \in {Same, Swap}}

=============================================================================
