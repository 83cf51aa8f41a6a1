---------------------------- MODULE LogicalClock ----------------------------
(***************************************************************************)
(* Logical time of ConverGO: the vector clock every site keeps             *)
(* (cvrdt/clock.go) and the LogicalId that stamps every operation, with    *)
(* the order the replicated log is sorted by (cvrdt/operations.go).        *)
(*                                                                         *)
(* A Go map from site ids to int is a total function on Sites: an entry    *)
(* that is missing from the map reads as 0 everywhere the code looks at it.*)
(* Site ids are strings compared with <; a site is a number, its rank in   *)
(* that order.                                                             *)
(***************************************************************************)
EXTENDS Integers

CONSTANTS
    Sites,      \* site ids, by rank in the order of their strings
    MaxValue    \* cvrdt.MaxValue, the value at which a clock saturates

ASSUME SitesAssumption == Sites \subseteq Nat
ASSUME MaxValueAssumption == MaxValue \in Nat \ {0}

MinValue == 0

VectorClocks == [Sites -> Nat]

LogicalIds == [siteId : Sites, clock : VectorClocks]

NewVectorClock == [t \in Sites |-> MinValue]

Increment(vc, s) ==
    IF vc[s] < MaxValue THEN [vc EXCEPT ![s] = @ + 1] ELSE vc

Update(vc, receivedVector) ==
    [t \in Sites |-> IF receivedVector[t] > vc[t] THEN receivedVector[t] ELSE vc[t]]

GetLogicalClock(lid) == lid.clock[lid.siteId]

\* Mutant: one smaller entry is taken for precedence, whatever the others say.
HappenedBefore_AnyEntry(lid, other) ==
    \E t \in Sites : lid.clock[t] < other.clock[t]

HappenedBefore(lid, other) ==
    /\ \A t \in Sites : lid.clock[t] <= other.clock[t]
    /\ \E t \in Sites : lid.clock[t] < other.clock[t]

\* Mutant: the site id alone decides.
less_SiteOnly(lid, other) == lid.siteId < other.siteId

\* Mutant: no tie-break between concurrent operations.
less_NoTieBreak(lid, other) == HappenedBefore(lid, other)

less(lid, other) ==
    \/ HappenedBefore(lid, other)
    \/ ~HappenedBefore(other, lid) /\ lid.siteId < other.siteId

equals(lid, other) ==
    /\ lid.siteId = other.siteId
    /\ GetLogicalClock(lid) = GetLogicalClock(other)

Compare(lid, other) ==
    IF equals(lid, other) THEN 0 ELSE IF less(lid, other) THEN -1 ELSE 1

=============================================================================
