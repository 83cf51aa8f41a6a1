-------------------------- MODULE WootCvrdt_proofs --------------------------
(***************************************************************************)
(* Proofs about the replicated document and its history DAG, for two       *)
(* sites, any text, and any number of edits, pushes and deliveries.        *)
(*                                                                         *)
(* The strings of the sites never hold the same characters at the same     *)
(* time, so what they agree on is an order of all the characters there     *)
(* are: an assignment of places (rank) such that every character lies      *)
(* between the neighbours its author saw, and two characters that lie      *)
(* between each other's neighbours are ordered by their ids (Legal).  The  *)
(* module shows                                                            *)
(*   - that a new character has a place in such an order, and that the     *)
(*     recursion of IntegrateIns ends and finds it in every string that    *)
(*     holds the neighbours, whatever else it holds;                       *)
(*   - that what UpdateState makes of a payload, or of an edit, is the     *)
(*     string of the operations in the log, in that order;                 *)
(*   - that the logs of the documents are those of SortedLogs, whose       *)
(*     proofs provide the order of operations that UpdateState relies on.  *)
(* Strings of the same operations in the same order are equal, which is    *)
(* convergence.                                                            *)
(*                                                                         *)
(* What the invariant says of the logs is all the history DAG is built     *)
(* from: the ids of a log tell its operations apart, and the log has them  *)
(* after their causes (WellOrdered), so the nodes form a strict order of   *)
(* finitely many (IsCausal) and the edges its transitive reduction         *)
(* (IsReduction).                                                          *)
(***************************************************************************)
EXTENDS OperationDAG, SequenceTheorems, FiniteSetTheorems, TLAPS

USE SitesAssumption, MaxValueAssumption

\* The proofs about the logs of the documents, without the characters.
Proved == INSTANCE SortedLogs_proofs WITH
    clock  <- [s \in Sites |-> site[s].clock],
    state  <- [s \in Sites |-> OnlyIds(state[s])],
    pushed <- {OnlyIds(ops) : ops \in pushed}

\* The bound that SortedLogs assumes is one of BoundsAssumption.
LEMMA BoundOfPushes == MaxPushes \in Nat
BY BoundsAssumption

\* A set of natural numbers that is not empty has a least element.
LEMMA LeastNumber == \A S \in SUBSET Nat : S # {} => \E m \in S : \A k \in S : m <= k
BY Proved!LeastElement, BoundOfPushes, Zenon

-----------------------------------------------------------------------------
(* The order of the characters.                                            *)

\* The ids of characters, limiters included.
CharIds == [siteId : Sites, clock : 0..MaxValue]

\* The limiters of all sites have the first clock and the last.
IsLimiter(cid) == cid.clock \in {0, MaxValue}

\* The ids of the characters of C.
Names(C) == {c.id : c \in C}

\* The ids a character of C may name as its neighbour.
Known(C) == Names(C) \cup {cid \in CharIds : IsLimiter(cid)}

\* Assignments of places to character ids: the limiters of all sites share the
\* first place and the last.
Ranks ==
    {rank \in [CharIds -> Nat] :
        \E end \in Nat : \A e \in CharIds :
            /\ end > 0
            /\ e.clock = 0 => rank[e] = 0
            /\ e.clock = MaxValue => rank[e] = end
            /\ ~IsLimiter(e) => 0 < rank[e] /\ rank[e] < end}

\* d lies between the neighbours of c.
Reaches(rank, c, d) == rank[c.previousId] < rank[d.id] /\ rank[d.id] < rank[c.nextId]

\* The characters of C lie between the neighbours their author saw.
Placed(C, rank) ==
    \A c \in C :
        /\ ~IsLimiter(c.id)
        /\ c.previousId \in Known(C)
        /\ c.nextId \in Known(C)
        /\ Reaches(rank, c, c)

\* No two characters share an id or a place.
Distinct(C, rank) == \A c, d \in C : c.id = d.id \/ rank[c.id] = rank[d.id] => c = d

\* Characters that lie between each other's neighbours are ordered by their ids.
OrderedByIds(C, rank) ==
    \A c, d \in C :
        Reaches(rank, c, d) /\ Reaches(rank, d, c) /\ WCharacterIdLess(c.id, d.id)
            => rank[c.id] < rank[d.id]

\* Among some characters there is one that was inserted before all the others.
Grounded(C) ==
    \A S \in SUBSET C : S # {} =>
        \E c \in S : c.previousId \notin Names(S) /\ c.nextId \notin Names(S)

\* rank orders the characters of C as their insertions ask for.
Legal(C, rank) ==
    /\ C \subseteq WChars
    /\ rank \in Ranks
    /\ Placed(C, rank)
    /\ Distinct(C, rank)
    /\ OrderedByIds(C, rank)
    /\ Grounded(C)

\* The order of character ids is strict and total.
LEMMA IdOrder ==
    ASSUME NEW x \in CharIds, NEW y \in CharIds, NEW z \in CharIds
    PROVE  /\ ~WCharacterIdLess(x, x)
           /\ x = y \/ WCharacterIdLess(x, y) \/ WCharacterIdLess(y, x)
           /\ WCharacterIdLess(x, y) => ~WCharacterIdLess(y, x)
           /\ WCharacterIdLess(x, y) /\ WCharacterIdLess(y, z) => WCharacterIdLess(x, z)
<1>0. \A e \in CharIds : e.siteId \in Sites /\ e.clock \in 0..MaxValue
    BY DEF CharIds
<1>1. \A e \in CharIds : e.siteId \in Nat
    BY <1>0
<1>3. \A e \in CharIds : e.clock \in Nat
    BY <1>0
<1>2. x = y \/ x.siteId # y.siteId \/ x.clock # y.clock
    BY DEF CharIds
<1> QED
    BY <1>1, <1>2, <1>3 DEF WCharacterIdLess

\* The ids of a character are ids.
LEMMA CharTypes ==
    ASSUME NEW c \in WChars
    PROVE  c.id \in CharIds /\ c.previousId \in CharIds /\ c.nextId \in CharIds
BY DEF WChars, CharIds

\* What is known has a place.
LEMMA KnownTypes ==
    ASSUME NEW C \in SUBSET WChars, NEW rank \in Ranks
    PROVE  /\ Known(C) \subseteq CharIds
           /\ Names(C) \subseteq Known(C)
           /\ \A e \in CharIds : rank[e] \in Nat
           /\ \A c \in C : c.id \in Names(C)
BY CharTypes DEF Known, Names, Ranks

\* A new character may be put between the characters at l and r, as far as
\* the characters outside are concerned.
Good(C, rank, c, l, r) ==
    /\ l \in Known(C)
    /\ r \in Known(C)
    /\ rank[c.previousId] <= rank[l] /\ rank[l] < rank[r] /\ rank[r] <= rank[c.nextId]
    /\ \A x \in C :
          /\ rank[c.previousId] < rank[x.id] /\ rank[x.id] <= rank[l]
          /\ rank[l] < rank[x.nextId]
          => WCharacterIdLess(x.id, c.id)
    /\ \A x \in C :
          /\ rank[r] <= rank[x.id] /\ rank[x.id] < rank[c.nextId]
          /\ rank[x.previousId] < rank[r]
          => WCharacterIdLess(c.id, x.id)

\* The characters between l and r whose neighbours enclose both.
Enclosers(C, rank, l, r) ==
    {x \in C : /\ rank[l] < rank[x.id] /\ rank[x.id] < rank[r]
               /\ rank[x.previousId] <= rank[l] /\ rank[r] <= rank[x.nextId]}

\* As long as a character lies between two, one does whose neighbours enclose
\* them.
LEMMA SomeEncloses ==
    ASSUME NEW C, NEW rank, Legal(C, rank), NEW l \in CharIds, NEW r \in CharIds,
           NEW y \in C, rank[l] < rank[y.id], rank[y.id] < rank[r]
    PROVE  Enclosers(C, rank, l, r) # {}
<1> DEFINE S == {x \in C : rank[l] < rank[x.id] /\ rank[x.id] < rank[r]}
<1>1. C \in SUBSET WChars /\ rank \in Ranks
    BY DEF Legal
<1>2. PICK x \in S : x.previousId \notin Names(S) /\ x.nextId \notin Names(S)
    BY DEF Legal, Grounded
<1>3. /\ x \in C /\ x.previousId \in Known(C) /\ x.nextId \in Known(C)
      /\ rank[x.previousId] < rank[x.id] /\ rank[x.id] < rank[x.nextId]
    BY DEF Legal, Placed, Reaches
<1>4. /\ rank[l] \in Nat /\ rank[r] \in Nat /\ rank[x.id] \in Nat
      /\ rank[x.previousId] \in Nat /\ rank[x.nextId] \in Nat
    BY <1>1, <1>3, KnownTypes, CharTypes
<1>5. \A e \in Known(C) : e \in CharIds /\ (e \in Names(C) \/ e.clock \in {0, MaxValue})
    BY <1>1, KnownTypes DEF Known, IsLimiter
<1>6. PICK end \in Nat : \A e \in CharIds :
            /\ e.clock = 0 => rank[e] = 0
            /\ e.clock = MaxValue => rank[e] = end
            /\ rank[e] \in 0..end
    <2>1. PICK end \in Nat : \A e \in CharIds :
            /\ end > 0
            /\ e.clock = 0 => rank[e] = 0
            /\ e.clock = MaxValue => rank[e] = end
            /\ ~IsLimiter(e) => 0 < rank[e] /\ rank[e] < end
        BY <1>1 DEF Ranks
    <2>2. \A e \in CharIds : rank[e] \in Nat
        BY <1>1, KnownTypes
    <2> QED
        BY <2>1, <2>2 DEF IsLimiter
<1>7. ASSUME rank[l] < rank[x.previousId] PROVE FALSE
    <2>1. rank[x.previousId] # 0 /\ rank[x.previousId] < rank[r]
        BY <1>2, <1>3, <1>4, <1>7
    <2>2. rank[r] <= end
        BY <1>4, <1>6
    <2>3. x.previousId \in Names(C)
        BY <1>3, <1>4, <1>5, <1>6, <2>1, <2>2
    <2> QED
        BY <1>2, <1>7, <2>1, <2>3 DEF Names
<1>8. ASSUME rank[x.nextId] < rank[r] PROVE FALSE
    <2>1. rank[x.nextId] # 0 /\ rank[x.nextId] > rank[l]
        BY <1>2, <1>3, <1>4, <1>8
    <2>2. rank[r] <= end
        BY <1>4, <1>6
    <2>3. x.nextId \in Names(C)
        BY <1>3, <1>4, <1>5, <1>6, <1>8, <2>1, <2>2
    <2> QED
        BY <1>2, <1>8, <2>1, <2>3 DEF Names
<1> QED
    BY <1>2, <1>3, <1>4, <1>7, <1>8 DEF Enclosers

\* A set of numbers assigned to a set that is not empty has a least one.
LEMMA LeastOf ==
    ASSUME NEW S, S # {}, NEW f, \A x \in S : f[x] \in Nat
    PROVE  \E m \in S : \A x \in S : f[m] <= f[x]
<1> DEFINE N == {f[x] : x \in S}
<1>1. PICK n \in N : \A k \in N : n <= k
    <2>1. N \in SUBSET Nat /\ N # {}
        OBVIOUS
    <2> HIDE DEF N
    <2> QED
        BY <2>1, LeastNumber, Zenon
<1> QED
    BY <1>1

\* And a greatest one, when they are bounded.
LEMMA GreatestOf ==
    ASSUME NEW S, S # {}, NEW f, NEW b \in Nat, \A x \in S : f[x] \in Nat /\ f[x] <= b
    PROVE  \E m \in S : \A x \in S : f[x] <= f[m]
<1> DEFINE N == {b - f[x] : x \in S}
<1>1. PICK n \in N : \A k \in N : n <= k
    <2>1. N \in SUBSET Nat /\ N # {}
        OBVIOUS
    <2> HIDE DEF N
    <2> QED
        BY <2>1, LeastNumber, Zenon
<1>2. PICK m \in S : n = b - f[m]
    OBVIOUS
<1>3. ASSUME NEW x \in S PROVE f[x] <= f[m]
    <2>1. b - f[m] <= b - f[x]
        BY <1>1, <1>2
    <2>2. f[x] \in Nat /\ f[m] \in Nat
        OBVIOUS
    <2> QED
        BY <2>1, <2>2
<1> QED
    BY <1>3

\* A new character: it names known characters as its neighbours, in order.
New(C, rank, c) ==
    /\ c \in WChars
    /\ ~IsLimiter(c.id)
    /\ c.id \notin Names(C)
    /\ c.previousId \in Known(C)
    /\ c.nextId \in Known(C)
    /\ rank[c.previousId] < rank[c.nextId]

\* As long as a character lies between l and r, the new one may be put between
\* two that are closer.
LEMMA GoodShrinks ==
    ASSUME NEW C, NEW rank, Legal(C, rank), NEW c, New(C, rank, c),
           NEW l, NEW r, Good(C, rank, c, l, r),
           NEW y \in C, rank[l] < rank[y.id], rank[y.id] < rank[r]
    PROVE  \E l2, r2 : Good(C, rank, c, l2, r2) /\ rank[r2] - rank[l2] < rank[r] - rank[l]
<1> DEFINE E == Enclosers(C, rank, l, r)
           R == {r} \cup {x.id : x \in {z \in E : ~WCharacterIdLess(z.id, c.id)}}
<1>1. C \in SUBSET WChars /\ rank \in Ranks
    BY DEF Legal
<1>2. l \in Known(C) /\ r \in Known(C) /\ l \in CharIds /\ r \in CharIds
    BY <1>1, KnownTypes DEF Good
<1>3. E # {}
    BY <1>2, SomeEncloses
<1>4. \A x \in C :
         /\ x.id \in CharIds /\ x.previousId \in CharIds /\ x.nextId \in CharIds
         /\ rank[x.id] \in Nat /\ rank[x.previousId] \in Nat /\ rank[x.nextId] \in Nat
         /\ x.id \in Known(C)
         /\ rank[x.previousId] < rank[x.id] /\ rank[x.id] < rank[x.nextId]
         /\ x.id # c.id
    BY <1>1, KnownTypes, CharTypes DEF Legal, Placed, Reaches, New, Names
<1>5. /\ c.id \in CharIds
      /\ rank[l] \in Nat /\ rank[r] \in Nat
      /\ rank[c.previousId] \in Nat /\ rank[c.nextId] \in Nat
    BY <1>1, <1>2, KnownTypes, CharTypes DEF New
<1>6. \A x \in E : x \in C /\ rank[l] < rank[x.id] /\ rank[x.id] < rank[r]
                   /\ rank[x.previousId] <= rank[l] /\ rank[r] <= rank[x.nextId]
    BY DEF Enclosers
<1>7. \A k \in R : rank[k] \in Nat /\ rank[l] < rank[k] /\ rank[k] <= rank[r] /\ k \in Known(C)
    BY <1>2, <1>4, <1>5, <1>6 DEF Good
<1>8. PICK r2 \in R : \A k \in R : rank[r2] <= rank[k]
    <2> HIDE DEF R
    <2>1. R # {}
        BY DEF R
    <2> QED
        BY <1>7, <2>1, LeastOf
<1> DEFINE L == {l} \cup {x.id : x \in {z \in E : rank[z.id] < rank[r2]}}
<1>9. \A k \in L : rank[k] \in Nat /\ rank[l] <= rank[k] /\ rank[k] < rank[r2] /\ k \in Known(C)
    BY <1>2, <1>4, <1>5, <1>6, <1>7, <1>8
<1>10. PICK l2 \in L : \A k \in L : rank[k] <= rank[l2]
    <2> HIDE DEF L
    <2>1. L # {}
        BY DEF L
    <2>2. rank[r2] \in Nat /\ \A k \in L : rank[k] <= rank[r2]
        BY <1>7, <1>9
    <2> QED
        BY <1>9, <2>1, <2>2, GreatestOf
<1>11. \A x \in E : rank[x.id] < rank[r2] => WCharacterIdLess(x.id, c.id)
    BY <1>4, <1>6, <1>7, <1>8
<1>12. rank[r2] - rank[l2] < rank[r] - rank[l]
    <2>1. CASE r2 = r
        <3>1. PICK x \in E : TRUE
            BY <1>3
        <3>2. rank[x.id] <= rank[l2] /\ rank[l] < rank[x.id] /\ rank[x.id] \in Nat
            BY <1>4, <1>6, <1>10, <2>1
        <3> QED
            BY <1>5, <1>9, <1>10, <2>1, <3>2
    <2>2. CASE r2 # r
        <3>1. rank[r2] < rank[r]
            BY <1>6, <1>8, <2>2
        <3> QED
            BY <1>5, <1>7, <1>8, <1>9, <1>10, <3>1
    <2> QED
        BY <2>1, <2>2
<1>13. ASSUME NEW x \in C, rank[c.previousId] < rank[x.id], rank[x.id] <= rank[l2],
              rank[l2] < rank[x.nextId]
       PROVE  WCharacterIdLess(x.id, c.id)
    <2>1. CASE rank[x.id] <= rank[l]
        BY <1>4, <1>5, <1>9, <1>10, <1>13, <2>1 DEF Good
    <2>2. CASE ~(rank[x.id] <= rank[l])
        <3>1. PICK e \in E : l2 = e.id /\ rank[e.id] < rank[r2]
            BY <1>4, <1>5, <1>10, <1>13, <2>2
        <3>2. WCharacterIdLess(e.id, c.id) /\ e \in C
            BY <1>6, <1>11, <3>1
        <3>3. CASE x = e
            BY <3>2, <3>3
        <3>4. CASE x # e
            <4>1. rank[x.id] # rank[e.id] /\ x.id # e.id
                BY <3>2, <3>4 DEF Legal, Distinct
            <4>2. Reaches(rank, x, e) /\ Reaches(rank, e, x)
                BY <1>4, <1>5, <1>6, <1>13, <2>2, <3>1, <3>2, <4>1 DEF Reaches
            <4>3. ~WCharacterIdLess(e.id, x.id)
                BY <1>4, <1>13, <3>1, <3>2, <4>2 DEF Legal, OrderedByIds
            <4> QED
                BY <1>4, <1>5, <3>2, <4>1, <4>3, IdOrder
        <3> QED
            BY <3>3, <3>4
    <2> QED
        BY <2>1, <2>2
<1>14. ASSUME NEW x \in C, rank[r2] <= rank[x.id], rank[x.id] < rank[c.nextId],
              rank[x.previousId] < rank[r2]
       PROVE  WCharacterIdLess(c.id, x.id)
    <2>1. CASE rank[r] <= rank[x.id]
        BY <1>4, <1>5, <1>7, <1>8, <1>14, <2>1 DEF Good
    <2>2. CASE ~(rank[r] <= rank[x.id])
        <3>1. PICK e \in E : r2 = e.id /\ ~WCharacterIdLess(e.id, c.id)
            BY <1>4, <1>5, <1>8, <1>14, <2>2
        <3>2. WCharacterIdLess(c.id, e.id) /\ e \in C
            BY <1>4, <1>5, <1>6, <3>1, IdOrder
        <3>3. CASE x = e
            BY <3>2, <3>3
        <3>4. CASE x # e
            <4>1. rank[x.id] # rank[e.id] /\ x.id # e.id
                BY <3>2, <3>4 DEF Legal, Distinct
            <4>2. Reaches(rank, x, e) /\ Reaches(rank, e, x)
                BY <1>4, <1>5, <1>6, <1>14, <2>2, <3>1, <3>2, <4>1 DEF Reaches
            <4>3. ~WCharacterIdLess(x.id, e.id)
                BY <1>4, <1>14, <3>1, <3>2, <4>2 DEF Legal, OrderedByIds
            <4> QED
                BY <1>4, <1>5, <3>2, <4>1, <4>3, IdOrder
        <3> QED
            BY <3>3, <3>4
    <2> QED
        BY <2>1, <2>2
<1>15. Good(C, rank, c, l2, r2)
    <2>1. rank[c.previousId] <= rank[l2] /\ rank[r2] <= rank[c.nextId]
        BY <1>5, <1>7, <1>8, <1>9, <1>10 DEF Good
    <2> QED
        BY <1>7, <1>8, <1>9, <1>10, <1>13, <1>14, <2>1 DEF Good
<1> QED
    BY <1>12, <1>15

\* Between some two known characters that may stand around the new one no
\* other stands.
LEMMA AdjacentExist ==
    ASSUME NEW C, NEW rank, Legal(C, rank), NEW c, New(C, rank, c)
    PROVE  \E l, r : /\ Good(C, rank, c, l, r)
                     /\ \A y \in C : rank[y.id] <= rank[l] \/ rank[r] <= rank[y.id]
<1> DEFINE Gap(m) == \E l, r : Good(C, rank, c, l, r) /\ m = rank[r] - rank[l]
           Gaps == {m \in Nat : Gap(m)}
<1>1. C \in SUBSET WChars /\ rank \in Ranks
    BY DEF Legal
<1>2. \A e \in Known(C) : rank[e] \in Nat
    BY <1>1, KnownTypes
<1>3. \A x \in C : rank[x.id] \in Nat
    BY <1>1, KnownTypes
<1>4. \A l, r : Good(C, rank, c, l, r) => rank[r] - rank[l] \in Gaps
    BY <1>2 DEF Good
<1>5. Good(C, rank, c, c.previousId, c.nextId)
    <2>1. rank[c.previousId] \in Nat /\ rank[c.nextId] \in Nat
        BY <1>2 DEF New
    <2> QED
        BY <1>3, <2>1 DEF Good, New
<1>6. PICK m \in Gaps : \A k \in Gaps : m <= k
    <2>1. Gaps \in SUBSET Nat /\ Gaps # {}
        BY <1>4, <1>5
    <2> HIDE DEF Gaps
    <2> QED
        BY <2>1, LeastNumber, Zenon
<1>7. PICK l, r : Good(C, rank, c, l, r) /\ m = rank[r] - rank[l]
    OBVIOUS
<1>8. ASSUME NEW y \in C, ~(rank[y.id] <= rank[l] \/ rank[r] <= rank[y.id])
      PROVE  FALSE
    <2>1. rank[l] \in Nat /\ rank[r] \in Nat
        BY <1>2, <1>7 DEF Good
    <2>2. rank[l] < rank[y.id] /\ rank[y.id] < rank[r]
        BY <1>3, <1>8, <2>1
    <2>3. PICK l2, r2 : Good(C, rank, c, l2, r2) /\ rank[r2] - rank[l2] < rank[r] - rank[l]
        BY <1>7, <2>2, GoodShrinks
    <2>4. rank[r2] - rank[l2] \in Gaps
        BY <1>4, <2>3, Zenon
    <2> HIDE DEF Gaps
    <2>5. m <= rank[r2] - rank[l2]
        BY <1>6, <2>4
    <2>6. m \in Nat
        BY DEF Gaps
    <2>7. rank[l2] \in Nat /\ rank[r2] \in Nat
        BY <1>2, <2>3 DEF Good
    <2> QED
        BY <1>7, <2>1, <2>3, <2>5, <2>6, <2>7
<1> QED
    BY <1>7, <1>8

\* The characters keep their order in new.
Keeps(C, rank, new) == \A e, f \in Known(C) : rank[e] < rank[f] <=> new[e] < new[f]

\* A new character has a place in the order of the others.
LEMMA PlaceExists ==
    ASSUME NEW C, NEW rank, Legal(C, rank), NEW c, New(C, rank, c)
    PROVE  \E new : Legal(C \cup {c}, new) /\ Keeps(C, rank, new)
<1>1. C \in SUBSET WChars /\ rank \in Ranks /\ c \in WChars /\ C \cup {c} \in SUBSET WChars
    BY DEF Legal, New
<1>2. PICK l, r : /\ Good(C, rank, c, l, r)
                  /\ \A y \in C : rank[y.id] <= rank[l] \/ rank[r] <= rank[y.id]
    BY AdjacentExist, Zenon
<1>3. PICK end \in Nat : \A e \in CharIds :
            /\ end > 0
            /\ e.clock = 0 => rank[e] = 0
            /\ e.clock = MaxValue => rank[e] = end
            /\ ~IsLimiter(e) => 0 < rank[e] /\ rank[e] < end
    BY <1>1 DEF Ranks
<1>4. \A e \in CharIds : rank[e] \in Nat /\ rank[e] <= end
    BY <1>1, <1>3, KnownTypes DEF IsLimiter
<1>5. Known(C) \subseteq CharIds /\ l \in Known(C) /\ r \in Known(C) /\ c.id \notin Known(C)
    BY <1>1, <1>2, KnownTypes DEF Good, Known, New, IsLimiter
<1>6. \A e \in Known(C) : rank[e] <= rank[l] \/ rank[r] <= rank[e]
    <2> SUFFICES ASSUME NEW e \in Known(C) PROVE rank[e] <= rank[l] \/ rank[r] <= rank[e]
        OBVIOUS
    <2>1. CASE e \in Names(C)
        BY <1>2, <2>1 DEF Names
    <2>2. CASE e \in CharIds /\ IsLimiter(e)
        BY <1>3, <1>4, <1>5, <2>2 DEF IsLimiter
    <2> QED
        BY <2>1, <2>2 DEF Known
<1> DEFINE new == [e \in CharIds |-> IF e = c.id THEN rank[l] + rank[l] + 1 ELSE rank[e] + rank[e]]
<1>7. c.id \in CharIds /\ c.previousId \in CharIds /\ c.nextId \in CharIds
    BY <1>1, CharTypes
<1>8. new[c.id] = rank[l] + rank[l] + 1 /\ rank[l] \in Nat /\ rank[r] \in Nat
    BY <1>4, <1>5, <1>7
<1>9. \A e \in Known(C) : new[e] = rank[e] + rank[e] /\ rank[e] \in Nat
    BY <1>4, <1>5
<1>10. \A e \in CharIds : e # c.id => new[e] = rank[e] + rank[e] /\ rank[e] \in Nat
    BY <1>4
<1>11. \A e \in CharIds : new[e] \in Nat
    BY <1>4, <1>8, <1>10
<1>12. new \in [CharIds -> Nat]
    BY <1>11
<1> HIDE DEF new
<1>13. Keeps(C, rank, new)
    BY <1>9 DEF Keeps
<1>14. \A e \in Known(C) : /\ new[e] < new[c.id] <=> rank[e] <= rank[l]
                           /\ new[c.id] < new[e] <=> rank[r] <= rank[e]
                           /\ new[e] # new[c.id]
    <2> SUFFICES ASSUME NEW e \in Known(C)
                 PROVE  /\ new[e] < new[c.id] <=> rank[e] <= rank[l]
                        /\ new[c.id] < new[e] <=> rank[r] <= rank[e]
                        /\ new[e] # new[c.id]
        OBVIOUS
    <2>1. rank[l] < rank[r] /\ rank[e] \in Nat /\ new[e] = rank[e] + rank[e]
        BY <1>2, <1>9 DEF Good
    <2>2. rank[e] <= rank[l] \/ rank[r] <= rank[e]
        BY <1>6
    <2> QED
        BY <1>8, <2>1, <2>2
<1>15. new \in Ranks
    <2>1. rank[l] < end
        BY <1>2, <1>4, <1>5, <1>8 DEF Good
    <2>2. 0 < new[c.id] /\ new[c.id] < end + end
        BY <1>8, <2>1
    <2>3. ~IsLimiter(c.id)
        BY DEF New
    <2>4. \A e \in CharIds :
            /\ end + end > 0
            /\ e.clock = 0 => new[e] = 0
            /\ e.clock = MaxValue => new[e] = end + end
            /\ ~IsLimiter(e) => 0 < new[e] /\ new[e] < end + end
        BY <1>3, <1>10, <2>2, <2>3 DEF IsLimiter
    <2>5. end + end \in Nat
        OBVIOUS
    <2> QED
        BY <1>12, <2>4, <2>5, Zenon DEF Ranks
<1>16. \A x \in C : /\ x.id \in Known(C) /\ x.previousId \in Known(C) /\ x.nextId \in Known(C)
                    /\ x.id # c.id /\ x.id \in CharIds
    BY <1>1, KnownTypes DEF Legal, Placed, New, Names
<1>17. c.previousId \in Known(C) /\ c.nextId \in Known(C)
    BY DEF New
<1>18. Known(C) \subseteq Known(C \cup {c})
    BY DEF Known, Names
<1>19. Reaches(new, c, c)
    BY <1>2, <1>14, <1>17 DEF Reaches, Good
<1>20. Placed(C \cup {c}, new)
    <2>1. \A x \in C : Reaches(new, x, x)
        BY <1>13, <1>16 DEF Keeps, Legal, Placed, Reaches
    <2> QED
        BY <1>16, <1>17, <1>18, <1>19, <2>1 DEF Placed, Legal, New
<1>21. Distinct(C \cup {c}, new)
    <2>1. ASSUME NEW x \in C, NEW y \in C, new[x.id] = new[y.id] PROVE rank[x.id] = rank[y.id]
        <3>1. /\ new[x.id] = rank[x.id] + rank[x.id] /\ rank[x.id] \in Nat
              /\ new[y.id] = rank[y.id] + rank[y.id] /\ rank[y.id] \in Nat
            BY <1>9, <1>16
        <3>2. \A m, n \in Nat : m + m = n + n => m = n
            OBVIOUS
        <3> QED
            BY <2>1, <3>1, <3>2, Zenon
    <2>2. \A x \in C : new[x.id] # new[c.id]
        BY <1>14, <1>16
    <2> QED
        BY <1>16, <2>1, <2>2 DEF Distinct, Legal
<1>22. OrderedByIds(C \cup {c}, new)
    <2> SUFFICES ASSUME NEW x \in C \cup {c}, NEW y \in C \cup {c},
                        Reaches(new, x, y), Reaches(new, y, x), WCharacterIdLess(x.id, y.id)
                 PROVE  new[x.id] < new[y.id]
        BY DEF OrderedByIds
    <2>1. CASE x \in C /\ y \in C
        <3>1. Reaches(rank, x, y) /\ Reaches(rank, y, x)
            BY <1>13, <1>16, <2>1 DEF Keeps, Reaches
        <3>2. rank[x.id] < rank[y.id]
            BY <2>1, <3>1 DEF Legal, OrderedByIds
        <3> QED
            BY <1>13, <1>16, <2>1, <3>2 DEF Keeps
    <2>2. CASE x = c /\ y = c
        BY <1>7, <2>2, IdOrder
    <2>3. CASE x \in C /\ y = c
        <3> SUFFICES ASSUME ~(new[x.id] < new[c.id]) PROVE FALSE
            BY <2>3
        <3>1. rank[r] <= rank[x.id]
            BY <1>6, <1>14, <1>16, <2>3
        <3>2. rank[x.id] < rank[c.nextId]
            BY <1>13, <1>16, <1>17, <2>3 DEF Reaches, Keeps
        <3>3. rank[x.previousId] <= rank[l]
            BY <1>14, <1>16, <2>3 DEF Reaches
        <3>4. rank[x.previousId] < rank[r]
            BY <1>2, <1>8, <1>9, <1>16, <2>3, <3>3 DEF Good
        <3>5. WCharacterIdLess(c.id, x.id)
            BY <1>2, <2>3, <3>1, <3>2, <3>4 DEF Good
        <3> QED
            BY <1>7, <1>16, <2>3, <3>5, IdOrder
    <2>4. CASE x = c /\ y \in C
        <3> SUFFICES ASSUME ~(new[c.id] < new[y.id]) PROVE FALSE
            BY <2>4
        <3>1. rank[y.id] <= rank[l]
            BY <1>6, <1>14, <1>16, <2>4
        <3>2. rank[c.previousId] < rank[y.id]
            BY <1>13, <1>16, <1>17, <2>4 DEF Reaches, Keeps
        <3>3. rank[r] <= rank[y.nextId]
            BY <1>14, <1>16, <2>4 DEF Reaches
        <3>4. rank[l] < rank[y.nextId]
            BY <1>2, <1>8, <1>9, <1>16, <2>4, <3>3 DEF Good
        <3>5. WCharacterIdLess(y.id, c.id)
            BY <1>2, <2>4, <3>1, <3>2, <3>4 DEF Good
        <3> QED
            BY <1>7, <1>16, <2>4, <3>5, IdOrder
    <2> QED
        BY <2>1, <2>2, <2>3, <2>4
<1>23. Grounded(C \cup {c})
    <2> SUFFICES ASSUME NEW S \in SUBSET (C \cup {c}), S # {}
                 PROVE  \E x \in S : x.previousId \notin Names(S) /\ x.nextId \notin Names(S)
        BY DEF Grounded
    <2>1. CASE S \cap C = {}
        <3>1. S = {c} /\ Names(S) = {c.id}
            BY <2>1 DEF Names
        <3> QED
            BY <1>5, <1>17, <3>1
    <2>2. CASE S \cap C # {}
        <3>1. PICK x \in S \cap C : x.previousId \notin Names(S \cap C) /\ x.nextId \notin Names(S \cap C)
            BY <2>2 DEF Legal, Grounded
        <3>2. Names(S) \subseteq Names(S \cap C) \cup {c.id}
            BY DEF Names
        <3>3. x.previousId # c.id /\ x.nextId # c.id
            BY <1>5, <1>16
        <3> QED
            BY <3>1, <3>2, <3>3
    <2> QED
        BY <2>1, <2>2
<1>24. Legal(C \cup {c}, new)
    BY <1>1, <1>15, <1>20, <1>21, <1>22, <1>23 DEF Legal
<1> QED
    BY <1>13, <1>24

-----------------------------------------------------------------------------
(* Recursion.                                                              *)

\* f follows next from everything that is not done, and is b where it is.
Follows(f, S, done, b, next) == f = [x \in S |-> IF x \in done THEN b[x] ELSE f[next[x]]]

\* A recursion that comes down a measure ends.
LEMMA RecursionEnds ==
    ASSUME NEW S, NEW done, NEW b, NEW next, NEW m, NEW n \in Nat,
           \A x \in S : m[x] \in 0..n,
           \A x \in S \ done : next[x] \in S /\ m[next[x]] < m[x]
    PROVE  \E f : Follows(f, S, done, b, next)
<1> DEFINE Part(d) == {x \in S : m[x] < d}
           Ends(d) == \E f : Follows(f, Part(d), done, b, next)
           Bad == {d \in 0..(n + 1) : ~Ends(d)}
<1>1. Ends(0)
    <2>1. Part(0) = {}
        OBVIOUS
    <2> DEFINE f == [x \in Part(0) |-> b[x]]
    <2>2. f = [x \in Part(0) |-> IF x \in done THEN b[x] ELSE f[next[x]]]
        BY <2>1
    <2> HIDE DEF f
    <2> QED
        BY <2>2 DEF Follows
<1> HIDE DEF Ends
<1>2. Ends(n + 1)
    <2> SUFFICES ASSUME Bad # {} PROVE FALSE
        OBVIOUS
    <2>1. PICK d \in Bad : \A k \in Bad : d <= k
        <3>1. Bad \in SUBSET Nat
            OBVIOUS
        <3> HIDE DEF Bad
        <3> QED
            BY <3>1, LeastNumber, Zenon
    <2>2. d \in 1..(n + 1) /\ d - 1 \in 0..(n + 1) /\ ~Ends(d)
        BY <1>1, <2>1
    <2>3. Ends(d - 1)
        <3>1. d - 1 \notin Bad
            BY <2>1, <2>2
        <3> QED
            BY <2>2, <3>1
    <2>4. PICK f : f = [x \in Part(d - 1) |-> IF x \in done THEN b[x] ELSE f[next[x]]]
        BY <2>3 DEF Ends, Follows
    <2> DEFINE g == [x \in Part(d) |-> IF x \in done THEN b[x] ELSE f[next[x]]]
    <2>5. ASSUME NEW x \in Part(d - 1) PROVE g[x] = f[x]
        <3>1. x \in Part(d)
            BY <2>2
        <3> HIDE DEF Part
        <3> QED
            BY <2>4, <3>1
    <2>6. ASSUME NEW x \in Part(d), x \notin done PROVE f[next[x]] = g[next[x]]
        <3>1. next[x] \in Part(d - 1)
            BY <2>2, <2>6
        <3> HIDE DEF g, Part
        <3> QED
            BY <2>5, <3>1
    <2> HIDE DEF Part
    <2>7. g = [x \in Part(d) |-> IF x \in done THEN b[x] ELSE g[next[x]]]
        BY <2>6
    <2> HIDE DEF g
    <2>8. Ends(d)
        BY <2>7 DEF Ends, Follows
    <2> QED
        BY <2>2, <2>8
<1>3. Part(n + 1) = S
    OBVIOUS
<1> QED
    BY <1>2, <1>3 DEF Ends

-----------------------------------------------------------------------------
(* Strings.                                                                *)

\* The character as its author inserted it, before any deletion.
Shown(char) == [char EXCEPT !.visible = TRUE]

\* w is the string of site s with the characters of D, in the order of rank.
IsString(w, s, D, rank) ==
    /\ w \in Seq(WChars \cup Limiters)
    /\ Len(w) >= 2
    /\ w[1] = GetNewSpecialStartWChar(s)
    /\ w[Len(w)] = GetNewSpecialEndWChar(s)
    /\ \A k \in 2..(Len(w) - 1) : w[k] \in WChars /\ Shown(w[k]) \in D
    /\ \A d \in D : \E k \in 2..(Len(w) - 1) : w[k].id = d.id
    /\ \A i, j \in 1..Len(w) : i < j => rank[w[i].id] < rank[w[j].id]

\* Some characters with their neighbours are in order when all are.
LEMMA LegalPart ==
    ASSUME NEW C, NEW rank, Legal(C, rank), NEW D \in SUBSET C,
           \A d \in D : d.previousId \in Known(D) /\ d.nextId \in Known(D)
    PROVE  Legal(D, rank)
<1>1. D \subseteq WChars /\ rank \in Ranks
    BY DEF Legal
<1>2. Placed(D, rank)
    BY DEF Legal, Placed
<1>3. Distinct(D, rank)
    BY DEF Legal, Distinct
<1>4. OrderedByIds(D, rank)
    BY DEF Legal, OrderedByIds
<1>5. Grounded(D)
    BY DEF Legal, Grounded
<1> QED
    BY <1>1, <1>2, <1>3, <1>4, <1>5 DEF Legal

\* Hiding a character changes neither its name nor its neighbours.
LEMMA ShownIsSame ==
    ASSUME NEW char \in WChars
    PROVE  /\ Shown(char) \in WChars
           /\ Shown(char).id = char.id
           /\ Shown(char).previousId = char.previousId
           /\ Shown(char).nextId = char.nextId
           /\ Shown(char).alphaValue = char.alphaValue
BY DEF Shown, WChars

\* The characters of a string and their places.
LEMMA StringTypes ==
    ASSUME NEW D, NEW rank, Legal(D, rank), NEW s \in Sites,
           NEW w, IsString(w, s, D, rank)
    PROVE  /\ Len(w) \in Nat /\ DOMAIN w = 1..Len(w)
           /\ \A k \in 1..Len(w) : w[k].id \in CharIds /\ rank[w[k].id] \in Nat
           /\ w[1].id = [siteId |-> s, clock |-> 0]
           /\ w[Len(w)].id = [siteId |-> s, clock |-> MaxValue]
           /\ \A k \in 2..(Len(w) - 1) :
                 /\ w[k].id \in Names(D) /\ ~IsLimiter(w[k].id)
                 /\ w[k].previousId \in Known(D) /\ w[k].previousId \in CharIds
                 /\ w[k].nextId \in Known(D) /\ w[k].nextId \in CharIds
                 /\ rank[w[k].previousId] < rank[w[k].id]
                 /\ rank[w[k].id] < rank[w[k].nextId]
           /\ Known(D) \subseteq CharIds
<1>1. D \in SUBSET WChars /\ rank \in Ranks
    BY DEF Legal
<1>2. Len(w) \in Nat /\ DOMAIN w = 1..Len(w)
    BY DEF IsString
<1>3. w[1].id = [siteId |-> s, clock |-> 0] /\ w[1].id \in CharIds
    BY DEF IsString, GetNewSpecialStartWChar, WCharacterId, SPECIAL_START_CHAR_CLOCK, CharIds
<1>4. w[Len(w)].id = [siteId |-> s, clock |-> MaxValue] /\ w[Len(w)].id \in CharIds
    BY DEF IsString, GetNewSpecialEndWChar, WCharacterId, SPECIAL_END_CHAR_CLOCK, CharIds
<1>5. ASSUME NEW k \in 2..(Len(w) - 1)
      PROVE  /\ w[k].id \in CharIds
             /\ w[k].id \in Names(D) /\ ~IsLimiter(w[k].id)
             /\ w[k].previousId \in Known(D) /\ w[k].previousId \in CharIds
             /\ w[k].nextId \in Known(D) /\ w[k].nextId \in CharIds
             /\ rank[w[k].previousId] < rank[w[k].id]
             /\ rank[w[k].id] < rank[w[k].nextId]
    <2> DEFINE d == Shown(w[k])
    <2>1. w[k] \in WChars /\ d \in D
        BY <1>5 DEF IsString
    <2>2. d.id = w[k].id /\ d.previousId = w[k].previousId /\ d.nextId = w[k].nextId
        BY <2>1, ShownIsSame
    <2>3. d.id \in CharIds /\ d.previousId \in CharIds /\ d.nextId \in CharIds
        BY <2>1, <2>2, CharTypes
    <2> HIDE DEF d
    <2>4. d.previousId \in Known(D) /\ d.nextId \in Known(D)
        BY <2>1 DEF Legal, Placed
    <2>5. ~IsLimiter(d.id) /\ rank[d.previousId] < rank[d.id] /\ rank[d.id] < rank[d.nextId]
        BY <2>1 DEF Legal, Placed, Reaches
    <2>6. d.id \in Names(D)
        BY <2>1 DEF Names
    <2> QED
        BY <2>2, <2>3, <2>4, <2>5, <2>6
<1>6. \A k \in 1..Len(w) : k = 1 \/ k = Len(w) \/ k \in 2..(Len(w) - 1)
    <2>1. \A n \in Nat : \A k \in 1..n : k = 1 \/ k = n \/ k \in 2..(n - 1)
        OBVIOUS
    <2> QED
        BY <1>2, <2>1, Zenon
<1>7. \A k \in 1..Len(w) : w[k].id \in CharIds
    BY <1>3, <1>4, <1>5, <1>6
<1>8. \A e \in CharIds : rank[e] \in Nat
    BY <1>1, KnownTypes
<1>9. Known(D) \subseteq CharIds
    BY <1>1, KnownTypes
<1> QED
    BY <1>2, <1>3, <1>4, <1>5, <1>7, <1>8, <1>9

\* The order of a string is the order of the places.
LEMMA StringOrder ==
    ASSUME NEW D, NEW rank, Legal(D, rank), NEW s \in Sites,
           NEW w, IsString(w, s, D, rank), NEW i \in 1..Len(w), NEW j \in 1..Len(w)
    PROVE  /\ i < j <=> rank[w[i].id] < rank[w[j].id]
           /\ i <= j <=> rank[w[i].id] <= rank[w[j].id]
           /\ i = j <=> rank[w[i].id] = rank[w[j].id]
<1>1. /\ i < j => rank[w[i].id] < rank[w[j].id]
      /\ j < i => rank[w[j].id] < rank[w[i].id]
    BY DEF IsString
<1>2. rank[w[i].id] \in Nat /\ rank[w[j].id] \in Nat
    BY StringTypes
<1> QED
    BY <1>1, <1>2

\* Ids that are equal have one place.
LEMMA EqualIdsSamePlace ==
    ASSUME NEW rank \in Ranks, NEW x \in CharIds, NEW y \in CharIds, WCharacterIdEquals(x, y)
    PROVE  rank[x] = rank[y]
BY DEF Ranks, WCharacterIdEquals, SPECIAL_START_CHAR_CLOCK, SPECIAL_END_CHAR_CLOCK

\* GetPos finds every character that is known, at its place.
LEMMA GetPosIsExact ==
    ASSUME NEW D, NEW rank, Legal(D, rank), NEW s \in Sites,
           NEW w, IsString(w, s, D, rank), NEW cid \in Known(D)
    PROVE  /\ GetPos(w, cid) \in 1..Len(w)
           /\ rank[w[GetPos(w, cid)].id] = rank[cid]
<1> DEFINE I == {i \in 1..Len(w) : WCharacterIdEquals(w[i].id, cid)}
<1>1. rank \in Ranks /\ cid \in CharIds /\ Len(w) \in Nat
    BY StringTypes DEF Legal
<1>2. I # {}
    <2>1. CASE cid \in Names(D)
        <3>1. PICK k \in 2..(Len(w) - 1) : w[k].id = cid
            <4>1. PICK d \in D : d.id = cid
                BY <2>1, Zenon DEF Names
            <4>2. \E k \in 2..(Len(w) - 1) : w[k].id = d.id
                BY DEF IsString
            <4> QED
                BY <4>1, <4>2, Zenon
        <3>2. k \in 1..Len(w) /\ WCharacterIdEquals(w[k].id, cid)
            BY <1>1, <3>1 DEF WCharacterIdEquals
        <3> QED
            BY <3>2
    <2>2. CASE cid.clock = 0
        <3>1. 1 \in 1..Len(w)
            BY <1>1 DEF IsString
        <3>2. w[1].id = [siteId |-> s, clock |-> 0]
            BY DEF IsString, GetNewSpecialStartWChar, WCharacterId, SPECIAL_START_CHAR_CLOCK
        <3>3. WCharacterIdEquals(w[1].id, cid)
            BY <2>2, <3>2 DEF WCharacterIdEquals, SPECIAL_START_CHAR_CLOCK
        <3> QED
            BY <3>1, <3>3
    <2>3. CASE cid.clock = MaxValue
        <3>1. Len(w) \in 1..Len(w)
            BY <1>1 DEF IsString
        <3>2. w[Len(w)].id = [siteId |-> s, clock |-> MaxValue]
            BY DEF IsString, GetNewSpecialEndWChar, WCharacterId, SPECIAL_END_CHAR_CLOCK
        <3>3. WCharacterIdEquals(w[Len(w)].id, cid)
            BY <2>3, <3>2 DEF WCharacterIdEquals, SPECIAL_END_CHAR_CLOCK
        <3> QED
            BY <3>1, <3>3
    <2> QED
        BY <2>1, <2>2, <2>3 DEF Known, IsLimiter
<1>3. GetPos(w, cid) = Min(I)
    BY <1>2 DEF GetPos, SelectInSeq
<1>4. PICK m \in I : \A k \in I : m <= k
    <2>1. I \in SUBSET Nat
        BY <1>1
    <2> HIDE DEF I
    <2> QED
        BY <1>2, <2>1, LeastNumber, Zenon
<1>5. Min(I) \in I
    <2> HIDE DEF I
    <2> QED
        BY <1>4 DEF Min
<1>6. w[Min(I)].id \in CharIds
    BY <1>5, StringTypes
<1> QED
    BY <1>1, <1>3, <1>5, <1>6, EqualIdsSamePlace

\* Enclosing finds the characters whose neighbours are not closer.
LEMMA EnclosingIsExact ==
    ASSUME NEW D, NEW rank, Legal(D, rank), NEW s \in Sites,
           NEW w, IsString(w, s, D, rank), NEW p \in 1..Len(w), NEW n \in 1..Len(w)
    PROVE  /\ Enclosing(w, p, n) \subseteq (p + 1)..(n - 1)
           /\ \A k \in (p + 1)..(n - 1) :
                 /\ k \in 2..(Len(w) - 1)
                 /\ k \in Enclosing(w, p, n) <=>
                       /\ rank[w[k].previousId] <= rank[w[p].id]
                       /\ rank[w[n].id] <= rank[w[k].nextId]
<1>1. Enclosing(w, p, n) \subseteq (p + 1)..(n - 1)
    BY DEF Enclosing
<1> SUFFICES ASSUME NEW k \in (p + 1)..(n - 1)
             PROVE  /\ k \in 2..(Len(w) - 1)
                    /\ k \in Enclosing(w, p, n) <=>
                          /\ rank[w[k].previousId] <= rank[w[p].id]
                          /\ rank[w[n].id] <= rank[w[k].nextId]
    BY <1>1
<1>2. Len(w) \in Nat
    BY StringTypes
<1>3. k \in 2..(Len(w) - 1)
    BY <1>2
<1>4. w[k].previousId \in Known(D) /\ w[k].nextId \in Known(D)
    BY <1>3, StringTypes
<1> DEFINE posCP == GetPos(w, w[k].previousId)
           posCN == GetPos(w, w[k].nextId)
<1>5. /\ posCP \in 1..Len(w) /\ rank[w[posCP].id] = rank[w[k].previousId]
      /\ posCN \in 1..Len(w) /\ rank[w[posCN].id] = rank[w[k].nextId]
    BY <1>4, GetPosIsExact
<1>6. k \in Enclosing(w, p, n) <=> posCP # 0 /\ posCN # 0 /\ posCP <= p /\ n <= posCN
    BY DEF Enclosing
<1> HIDE DEF posCP, posCN
<1>7. posCP <= p <=> rank[w[posCP].id] <= rank[w[p].id]
    BY <1>5, StringOrder
<1>8. n <= posCN <=> rank[w[n].id] <= rank[w[posCN].id]
    BY <1>5, StringOrder
<1> QED
    BY <1>2, <1>3, <1>5, <1>6, <1>7, <1>8

\* Between two positions that are not next to each other something encloses.
LEMMA SomethingEncloses ==
    ASSUME NEW D, NEW rank, Legal(D, rank), NEW s \in Sites,
           NEW w, IsString(w, s, D, rank), NEW p \in 1..Len(w), NEW n \in 1..Len(w), p + 1 < n
    PROVE  Enclosing(w, p, n) # {}
<1>1. Len(w) \in Nat
    BY StringTypes
<1>2. p + 1 \in 2..(Len(w) - 1) /\ p + 1 \in 1..Len(w)
    BY <1>1
<1> DEFINE q == p + 1
<1>a. q \in 2..(Len(w) - 1) /\ q \in 1..Len(w) /\ p < q /\ q < n
    BY <1>2
<1> HIDE DEF q
<1>b. w[q].id \in Names(D)
    BY <1>a, StringTypes
<1>3. PICK y \in D : y.id = w[q].id
    BY <1>b DEF Names
<1>4. rank[w[p].id] < rank[y.id] /\ rank[y.id] < rank[w[n].id]
    BY <1>a, <1>3 DEF IsString
<1>5. w[p].id \in CharIds /\ w[n].id \in CharIds
    BY StringTypes
<1>6. PICK x \in Enclosers(D, rank, w[p].id, w[n].id) : TRUE
    BY <1>3, <1>4, <1>5, SomeEncloses
<1>7. /\ x \in D /\ rank[w[p].id] < rank[x.id] /\ rank[x.id] < rank[w[n].id]
      /\ rank[x.previousId] <= rank[w[p].id] /\ rank[w[n].id] <= rank[x.nextId]
    BY DEF Enclosers
<1>8. PICK k \in 2..(Len(w) - 1) : w[k].id = x.id
    BY <1>7 DEF IsString
<1>9. k \in 1..Len(w)
    BY <1>1
<1>10. p < k /\ k < n
    BY <1>7, <1>8, <1>9, StringOrder
<1>11. k \in (p + 1)..(n - 1)
    BY <1>1, <1>9, <1>10
<1>12. w[k] \in WChars /\ Shown(w[k]) \in D
    BY DEF IsString
<1>13. Shown(w[k]) = x
    BY <1>7, <1>8, <1>12, ShownIsSame DEF Legal, Distinct
<1>14. w[k].previousId = x.previousId /\ w[k].nextId = x.nextId
    BY <1>12, <1>13, ShownIsSame
<1> QED
    BY <1>7, <1>11, <1>14, EnclosingIsExact

\* One round of InsertPosition.
Turn(w, wchar, range) ==
    LET p         == range[1]
        n         == range[2]
        enclosing == Enclosing(w, p, n)
        notLess   == {k \in enclosing : ~WCharacterIdLess(w[k].id, wchar.id)}
        right     == Min(notLess \cup {n})
        left      == Max({k \in enclosing : k < right} \cup {p})
    IN  <<left, right>>

\* The arguments of the recursion of InsertPosition.
Pairs(n) == (1..n) \X (1..n)

\* pos is the recursive function of InsertPosition.
IsPlacing(pos, w, wchar) ==
    pos = [range \in Pairs(Len(w)) |->
              IF range[2] <= range[1] + 1 THEN range[2]
              ELSE IF Enclosing(w, range[1], range[2]) = {} THEN 0
              ELSE pos[Turn(w, wchar, range)]]

\* The bounds of the next round are enclosing characters, if not the old ones.
LEMMA TurnIsCloser ==
    ASSUME NEW w, NEW wchar, NEW m \in Nat, Len(w) = m,
           NEW p \in 1..m, NEW n \in 1..m, p + 1 < n, Enclosing(w, p, n) # {}
    PROVE  \E left \in p..n, right \in p..n :
              /\ Turn(w, wchar, <<p, n>>) = <<left, right>>
              /\ left < right /\ right - left < n - p
              /\ left # p => left \in Enclosing(w, p, n)
              /\ right # n => right \in Enclosing(w, p, n) /\ ~WCharacterIdLess(w[right].id, wchar.id)
              /\ left # p => WCharacterIdLess(w[left].id, wchar.id)
<1> DEFINE enclosing == Enclosing(w, p, n)
           notLess   == {k \in enclosing : ~WCharacterIdLess(w[k].id, wchar.id)}
           R         == notLess \cup {n}
           right     == Min(R)
           L         == {k \in enclosing : k < right} \cup {p}
           left      == Max(L)
<1>1. Turn(w, wchar, <<p, n>>) = <<left, right>>
    BY DEF Turn
<1>2. enclosing \subseteq (p + 1)..(n - 1)
    BY DEF Enclosing
<1>3. right \in R /\ \A k \in R : right <= k
    <2>1. R \in SUBSET Nat /\ R # {}
        BY <1>2
    <2> HIDE DEF R
    <2>2. \E r \in R : \A k \in R : r <= k
        BY <2>1, LeastNumber, Zenon
    <2> QED
        BY <2>2 DEF Min
<1>4. right \in (p + 1)..n
    BY <1>2, <1>3
<1>5. left \in L /\ \A k \in L : k <= left
    <2> DEFINE f == [k \in L |-> k]
    <2>1. \A k \in L : f[k] \in Nat /\ f[k] <= n
        BY <1>2
    <2>2. L # {}
        OBVIOUS
    <2>3. \A k \in L : f[k] = k
        OBVIOUS
    <2> HIDE DEF L, f
    <2>4. \E x \in L : \A k \in L : f[k] <= f[x]
        BY <2>1, <2>2, GreatestOf
    <2>5. \E x \in L : \A k \in L : k <= x
        BY <2>3, <2>4
    <2>6. \A k \in L : k \in Nat
        BY <2>1, <2>3
    <2>7. \E x \in L : \A k \in L : x >= k
        BY <2>5, <2>6
    <2> QED
        BY <2>6, <2>7 DEF Max
<1>6. left \in p..n /\ left < right
    BY <1>2, <1>4, <1>5
<1>7. right - left < n - p
    <2>1. CASE notLess = {}
        <3>1. right = n
            BY <1>3, <2>1
        <3>2. PICK k \in enclosing : TRUE
            OBVIOUS
        <3>3. k \in L
            BY <1>2, <3>1
        <3>4. k <= left /\ k \in (p + 1)..(n - 1)
            BY <1>2, <1>5, <3>2, <3>3
        <3> HIDE DEF left, right
        <3> QED
            BY <1>6, <3>1, <3>4
    <2>2. CASE notLess # {}
        <3>1. PICK k \in notLess : TRUE
            BY <2>2
        <3>2. right <= k /\ k < n
            BY <1>2, <1>3, <3>1
        <3> QED
            BY <1>2, <1>4, <1>6, <3>1, <3>2
    <2> QED
        BY <2>1, <2>2
<1>8. left # p => left \in enclosing /\ left < right
    BY <1>5
<1>9. left # p => WCharacterIdLess(w[left].id, wchar.id)
    <2> SUFFICES ASSUME left # p, ~WCharacterIdLess(w[left].id, wchar.id) PROVE FALSE
        OBVIOUS
    <2>1. left \in R
        BY <1>8
    <2>2. right <= left
        BY <1>3, <2>1
    <2> QED
        BY <1>4, <1>6, <2>2
<1>11. right \in p..n
    BY <1>4
<1> HIDE DEF left, right
<1>10. right # n => right \in enclosing /\ ~WCharacterIdLess(w[right].id, wchar.id)
    BY <1>3
<1> HIDE DEF enclosing
<1> QED
    BY <1>1, <1>6, <1>7, <1>8, <1>9, <1>10, <1>11 DEF enclosing

\* The recursion of IntegrateIns ends.
LEMMA PlacingExists ==
    ASSUME NEW w, NEW wchar, NEW m \in Nat, Len(w) = m
    PROVE  \E pos : IsPlacing(pos, w, wchar)
<1> DEFINE S    == Pairs(m)
           done == {x \in S : x[2] <= x[1] + 1 \/ Enclosing(w, x[1], x[2]) = {}}
           b    == [x \in S |-> IF x[2] <= x[1] + 1 THEN x[2] ELSE 0]
           next == [x \in S |-> Turn(w, wchar, x)]
           gap  == [x \in S |-> IF x[1] < x[2] THEN x[2] - x[1] ELSE 0]
<1>1. \A x \in S : gap[x] \in 0..m
    BY DEF Pairs
<1>2. ASSUME NEW x \in S \ done PROVE next[x] \in S /\ gap[next[x]] < gap[x]
    <2>1. PICK p \in 1..m, n \in 1..m : x = <<p, n>>
        BY DEF Pairs
    <2>2. p + 1 < n /\ Enclosing(w, p, n) # {}
        BY <1>2, <2>1
    <2>3. PICK left \in p..n, right \in p..n :
              Turn(w, wchar, <<p, n>>) = <<left, right>> /\ left < right /\ right - left < n - p
        BY <2>2, TurnIsCloser
    <2>4. next[x] = <<left, right>> /\ <<left, right>> \in S
        BY <2>1, <2>3 DEF Pairs
    <2>5. gap[x] = n - p /\ gap[<<left, right>>] = right - left
        BY <2>1, <2>2, <2>3, <2>4
    <2> HIDE DEF S, gap, next
    <2> QED
        BY <2>3, <2>4, <2>5
<1>3. \E f : Follows(f, S, done, b, next)
    <2> HIDE DEF S, done, b, next, gap
    <2> QED
        BY <1>1, <1>2, RecursionEnds
<1>4. PICK f : f = [x \in S |-> IF x \in done THEN b[x] ELSE f[next[x]]]
    BY <1>3 DEF Follows
<1>5. f = [x \in S |-> IF x[2] <= x[1] + 1 THEN x[2]
                       ELSE IF Enclosing(w, x[1], x[2]) = {} THEN 0
                       ELSE f[Turn(w, wchar, x)]]
    BY <1>4
<1> HIDE DEF S
<1> QED
    BY <1>5 DEF IsPlacing, S

\* InsertPosition is such a recursion.
LEMMA InsertPositionIsPlacing ==
    ASSUME NEW w, NEW wchar, NEW m \in Nat, Len(w) = m, NEW p, NEW n
    PROVE  \E pos : IsPlacing(pos, w, wchar) /\ InsertPosition(w, wchar, p, n) = pos[<<p, n>>]
<1> DEFINE pos == CHOOSE f : IsPlacing(f, w, wchar)
<1>1. InsertPosition(w, wchar, p, n) = pos[<<p, n>>]
    BY DEF InsertPosition, IsPlacing, Pairs, Turn
<1>2. IsPlacing(pos, w, wchar)
    BY PlacingExists
<1> QED
    BY <1>1, <1>2

\* at is the position of wchar in the order.
IsPlaceOf(at, w, wchar, p, n, rank) ==
    /\ at \in (p + 1)..n
    /\ rank[w[at - 1].id] < rank[wchar.id]
    /\ rank[wchar.id] < rank[w[at].id]

\* Facts of arithmetic that the provers need by name.
LEMMA LessTransitive ==
    \A x, y, z \in Nat : /\ x <= y /\ y < z => x < z
                         /\ x < y /\ y <= z => x < z
OBVIOUS

\* Whatever the characters in between, IntegrateIns finds the place that the
\* order has for the character.
LEMMA PlacingIsRight ==
    ASSUME NEW D, NEW rank, Legal(D, rank), NEW s \in Sites,
           NEW w, IsString(w, s, D, rank),
           NEW wchar \in WChars, wchar.id \notin Names(D), Legal(D \cup {wchar}, rank),
           NEW pos, IsPlacing(pos, w, wchar)
    PROVE  \A p, n \in 1..Len(w) :
              /\ rank[wchar.previousId] <= rank[w[p].id] /\ rank[w[n].id] <= rank[wchar.nextId]
              /\ rank[w[p].id] < rank[wchar.id] /\ rank[wchar.id] < rank[w[n].id]
              => IsPlaceOf(pos[<<p, n>>], w, wchar, p, n, rank)
<1> DEFINE Right(p, n) ==
              /\ rank[wchar.previousId] <= rank[w[p].id] /\ rank[w[n].id] <= rank[wchar.nextId]
              /\ rank[w[p].id] < rank[wchar.id] /\ rank[wchar.id] < rank[w[n].id]
           Wrong(p, n) == Right(p, n) /\ ~IsPlaceOf(pos[<<p, n>>], w, wchar, p, n, rank)
           Gaps == {g \in Nat : \E p, n \in 1..Len(w) : Wrong(p, n) /\ g = n - p}
<1>1. Len(w) \in Nat /\ rank \in Ranks
    BY StringTypes DEF Legal
<1>2. wchar.id \in CharIds /\ wchar.previousId \in CharIds /\ wchar.nextId \in CharIds
    BY CharTypes
<1>3. \A e \in CharIds : rank[e] \in Nat
    BY <1>1 DEF Ranks
<1>4. \A k \in 1..Len(w) : w[k].id \in CharIds
    BY StringTypes
<1>5. ASSUME NEW p \in 1..Len(w), NEW n \in 1..Len(w), Right(p, n)
      PROVE  p < n
    <2>1. rank[w[p].id] < rank[w[n].id]
        BY <1>2, <1>3, <1>4, <1>5
    <2> QED
        BY <2>1, StringOrder
<1> SUFFICES ASSUME NEW p0 \in 1..Len(w), NEW n0 \in 1..Len(w), Wrong(p0, n0) PROVE FALSE
    OBVIOUS
<1>6. PICK g \in Gaps : \A h \in Gaps : g <= h
    <2>1. p0 < n0
        BY <1>5
    <2>2. n0 - p0 \in Gaps
        BY <1>1, <2>1
    <2>3. Gaps \in SUBSET Nat
        OBVIOUS
    <2> HIDE DEF Gaps
    <2> QED
        BY <2>2, <2>3, LeastNumber, Zenon
<1>7. PICK p \in 1..Len(w), n \in 1..Len(w) : Wrong(p, n) /\ g = n - p
    OBVIOUS
<1>8. p < n
    BY <1>5, <1>7
<1>9. <<p, n>> \in Pairs(Len(w))
    BY DEF Pairs
<1>10. pos[<<p, n>>] = IF n <= p + 1 THEN n
                       ELSE IF Enclosing(w, p, n) = {} THEN 0
                       ELSE pos[Turn(w, wchar, <<p, n>>)]
    BY <1>9 DEF IsPlacing
<1>11. CASE n <= p + 1
    <2>1. n = p + 1 /\ pos[<<p, n>>] = n
        BY <1>1, <1>8, <1>10, <1>11
    <2>2. n - 1 = p
        BY <2>1
    <2> QED
        BY <1>7, <2>1, <2>2 DEF IsPlaceOf
<1>12. CASE ~(n <= p + 1)
    <2>1. p + 1 < n
        BY <1>1, <1>12
    <2>2. Enclosing(w, p, n) # {}
        BY <2>1, SomethingEncloses
    <2>3. PICK left \in p..n, right \in p..n :
              /\ Turn(w, wchar, <<p, n>>) = <<left, right>>
              /\ left < right /\ right - left < n - p
              /\ left # p => left \in Enclosing(w, p, n)
              /\ right # n => right \in Enclosing(w, p, n) /\ ~WCharacterIdLess(w[right].id, wchar.id)
              /\ left # p => WCharacterIdLess(w[left].id, wchar.id)
        BY <1>1, <2>1, <2>2, TurnIsCloser
    <2>4. pos[<<p, n>>] = pos[<<left, right>>]
        <3>1. pos[<<p, n>>] = pos[Turn(w, wchar, <<p, n>>)]
            BY <1>10, <1>12, <2>2
        <3> QED
            BY <2>3, <3>1
    <2>5. left \in 1..Len(w) /\ right \in 1..Len(w)
        BY <1>1
    <2>6. ASSUME NEW k \in Enclosing(w, p, n)
          PROVE  /\ k \in (p + 1)..(n - 1) /\ k \in 1..Len(w)
                 /\ rank[wchar.previousId] <= rank[w[k].id] /\ rank[w[k].id] <= rank[wchar.nextId]
                 /\ WCharacterIdLess(w[k].id, wchar.id) => rank[w[k].id] < rank[wchar.id]
                 /\ ~WCharacterIdLess(w[k].id, wchar.id) => rank[wchar.id] < rank[w[k].id]
        <3>1. /\ k \in (p + 1)..(n - 1) /\ k \in 2..(Len(w) - 1)
              /\ rank[w[k].previousId] <= rank[w[p].id]
              /\ rank[w[n].id] <= rank[w[k].nextId]
            BY EnclosingIsExact
        <3>2. k \in 1..Len(w) /\ p < k /\ k < n
            <4>1. \A m \in Nat : \A i, j \in 1..m : \A h \in (i + 1)..(j - 1) :
                      h \in 1..m /\ i < h /\ h < j
                OBVIOUS
            <4> QED
                BY <1>1, <3>1, <4>1, Zenon
        <3>3. rank[w[p].id] < rank[w[k].id] /\ rank[w[k].id] < rank[w[n].id]
            BY <3>2, StringOrder
        <3> DEFINE d == Shown(w[k])
        <3>4. w[k] \in WChars /\ d \in D
            BY <3>1 DEF IsString
        <3>5. d.id = w[k].id /\ d.previousId = w[k].previousId /\ d.nextId = w[k].nextId
            BY <3>4, ShownIsSame
        <3>6. w[k].id \in CharIds /\ w[k].previousId \in CharIds /\ w[k].nextId \in CharIds
            BY <3>4, CharTypes
        <3> HIDE DEF d
        <3>13. Right(p, n)
            BY <1>7
        <3>14. /\ rank[wchar.previousId] \in Nat /\ rank[wchar.nextId] \in Nat /\ rank[wchar.id] \in Nat
               /\ rank[w[p].id] \in Nat /\ rank[w[n].id] \in Nat /\ rank[w[k].id] \in Nat
               /\ rank[w[k].previousId] \in Nat /\ rank[w[k].nextId] \in Nat
            BY <1>2, <1>3, <1>4, <3>6
        <3> HIDE DEF Gaps, Wrong
        <3>15. rank[wchar.previousId] < rank[w[k].id] /\ rank[w[k].id] < rank[wchar.nextId]
            BY <3>3, <3>13, <3>14, LessTransitive, Zenon
        <3>16. rank[w[k].previousId] < rank[wchar.id] /\ rank[wchar.id] < rank[w[k].nextId]
            BY <3>1, <3>13, <3>14, LessTransitive, Zenon
        <3>7. Reaches(rank, wchar, d)
            BY <3>5, <3>15 DEF Reaches
        <3>8. Reaches(rank, d, wchar)
            BY <3>5, <3>16 DEF Reaches
        <3>9. d.id # wchar.id
            BY <3>4 DEF Names
        <3>10. /\ WCharacterIdLess(d.id, wchar.id) => rank[d.id] < rank[wchar.id]
               /\ WCharacterIdLess(wchar.id, d.id) => rank[wchar.id] < rank[d.id]
            BY <3>4, <3>7, <3>8 DEF Legal, OrderedByIds
        <3>11. ~WCharacterIdLess(d.id, wchar.id) => WCharacterIdLess(wchar.id, d.id)
            BY <1>2, <3>5, <3>6, <3>9, IdOrder
        <3>12. rank[wchar.previousId] <= rank[w[k].id] /\ rank[w[k].id] <= rank[wchar.nextId]
            BY <1>2, <1>3, <3>5, <3>6, <3>7 DEF Reaches
        <3> QED
            BY <3>1, <3>2, <3>5, <3>10, <3>11, <3>12
    <2>7. /\ rank[wchar.previousId] <= rank[w[left].id] /\ rank[w[left].id] < rank[wchar.id]
        <3>1. CASE left = p
            BY <1>7, <3>1
        <3>2. CASE left # p
            BY <2>3, <2>6, <3>2
        <3> QED
            BY <3>1, <3>2
    <2>8. rank[w[right].id] <= rank[wchar.nextId] /\ rank[wchar.id] < rank[w[right].id]
        <3>1. CASE right = n
            BY <1>7, <3>1
        <3>2. CASE right # n
            BY <2>3, <2>6, <3>2
        <3> QED
            BY <3>1, <3>2
    <2>9. Right(left, right)
        BY <2>7, <2>8
    <2>10. right - left \notin Gaps
        <3>1. right - left < g
            BY <1>7, <2>3
        <3>2. g \in Nat /\ right - left \in Nat
            BY <2>3
        <3> HIDE DEF Gaps
        <3> QED
            BY <1>6, <3>1, <3>2
    <2>11. right - left \in Nat
        BY <2>3
    <2>12. IsPlaceOf(pos[<<left, right>>], w, wchar, left, right, rank)
        BY <2>5, <2>9, <2>10, <2>11
    <2>13. (left + 1)..right \subseteq (p + 1)..n
        BY <1>1
    <2>14. IsPlaceOf(pos[<<p, n>>], w, wchar, p, n, rank)
        BY <2>4, <2>12, <2>13 DEF IsPlaceOf
    <2> QED
        BY <1>7, <2>14
<1> QED
    BY <1>11, <1>12

-----------------------------------------------------------------------------
(* What integration does to a string.                                      *)

\* InsertAt is that of the proofs about sorted logs.
LEMMA InsertAtFacts ==
    ASSUME NEW U, NEW w \in Seq(U), NEW j \in 0..Len(w), NEW char \in U
    PROVE  /\ InsertAt(w, j + 1, char) \in Seq(U)
           /\ Len(InsertAt(w, j + 1, char)) = Len(w) + 1
           /\ \A i \in 1..(Len(w) + 1) :
                 /\ i <= j => InsertAt(w, j + 1, char)[i] = w[i]
                 /\ i = j + 1 => InsertAt(w, j + 1, char)[i] = char
                 /\ j + 1 < i => InsertAt(w, j + 1, char)[i] = w[i - 1]
<1>1. Proved!InsertAt(w, j + 1, char) = InsertAt(w, j + 1, char)
    BY DEF Proved!InsertAt, InsertAt
<1>2. Proved!InsertAt(w, j + 1, char) \in Seq(U)
    BY Proved!InsertAtProperties, BoundOfPushes
<1>3. Len(Proved!InsertAt(w, j + 1, char)) = Len(w) + 1
    BY Proved!InsertAtProperties, BoundOfPushes
<1>4. \A i \in 1..(Len(w) + 1) :
             Proved!InsertAt(w, j + 1, char)[i] =
                 IF i <= j THEN w[i] ELSE IF i = j + 1 THEN char ELSE w[i - 1]
    BY Proved!InsertAtProperties, BoundOfPushes
<1>5. \A i \in 1..(Len(w) + 1) : j + 1 < i => ~(i <= j) /\ i # j + 1
    OBVIOUS
<1>6. \A i \in 1..(Len(w) + 1) : i = j + 1 => ~(i <= j)
    OBVIOUS
<1> QED
    BY <1>1, <1>2, <1>3, <1>4, <1>5, <1>6

\* InsertAt puts a character before a position and moves the others.
LEMMA InsertedString ==
    ASSUME NEW U, NEW w \in Seq(U), NEW at \in 1..(Len(w) + 1), NEW char \in U
    PROVE  /\ InsertAt(w, at, char) \in Seq(U)
           /\ Len(InsertAt(w, at, char)) = Len(w) + 1
           /\ \A i \in 1..(Len(w) + 1) :
                 /\ i < at => InsertAt(w, at, char)[i] = w[i]
                 /\ i = at => InsertAt(w, at, char)[i] = char
                 /\ at < i => InsertAt(w, at, char)[i] = w[i - 1]
<1>1. PICK j \in 0..Len(w) : at = j + 1
    <2>1. at - 1 \in 0..Len(w) /\ at = (at - 1) + 1
        OBVIOUS
    <2> QED
        BY <2>1
<1>2. \A i \in 1..(Len(w) + 1) : i < at <=> i <= j
    BY <1>1
<1> DEFINE v == InsertAt(w, j + 1, char)
<1>3. v \in Seq(U)
    BY InsertAtFacts
<1>4. Len(v) = Len(w) + 1
    BY InsertAtFacts
<1>5. \A i \in 1..(Len(w) + 1) :
         /\ i <= j => v[i] = w[i]
         /\ i = j + 1 => v[i] = char
         /\ j + 1 < i => v[i] = w[i - 1]
    BY InsertAtFacts
<1>6. v = InsertAt(w, at, char)
    BY <1>1
<1> HIDE DEF v
<1>7. \A i \in 1..(Len(w) + 1) :
         /\ i < at => v[i] = w[i]
         /\ i = at => v[i] = char
         /\ at < i => v[i] = w[i - 1]
    BY <1>1, <1>2, <1>5
<1> QED
    BY <1>3, <1>4, <1>6, <1>7

\* The characters of v between the limiters are those of w, and some others.
Adds(v, w, chars) ==
    /\ \A k \in 2..(Len(v) - 1) : v[k] \in chars \/ \E j \in 2..(Len(w) - 1) : v[k] = w[j]
    /\ \A j \in 2..(Len(w) - 1) : \E k \in 2..(Len(v) - 1) : v[k] = w[j]

\* IntegrateIns puts a new character where the order has it.
LEMMA InsertionKeepsString ==
    ASSUME NEW D, NEW rank, Legal(D, rank), NEW s \in Sites,
           NEW w, IsString(w, s, D, rank),
           NEW wchar \in WChars, Shown(wchar) = wchar, wchar.id \notin Names(D),
           wchar.previousId \in Known(D), wchar.nextId \in Known(D),
           Legal(D \cup {wchar}, rank),
           NEW p \in 1..Len(w), rank[w[p].id] = rank[wchar.previousId],
           NEW n \in 1..Len(w), rank[w[n].id] = rank[wchar.nextId],
           NEW at, at = InsertPosition(w, wchar, p, n),
           NEW v, v = InsertAt(w, at, wchar)
    PROVE  at # 0 /\ IsString(v, s, D \cup {wchar}, rank) /\ Adds(v, w, {wchar})
<1>1. Len(w) \in Nat /\ w \in Seq(WChars \cup Limiters) /\ Len(w) >= 2
    BY DEF IsString
<1>2. /\ wchar.id \in CharIds /\ wchar.previousId \in CharIds /\ wchar.nextId \in CharIds
      /\ rank \in Ranks
    BY CharTypes DEF Legal
<1>3. rank[wchar.previousId] < rank[wchar.id] /\ rank[wchar.id] < rank[wchar.nextId]
    BY DEF Legal, Placed, Reaches
<1>4. /\ rank[wchar.id] \in Nat /\ rank[wchar.previousId] \in Nat /\ rank[wchar.nextId] \in Nat
      /\ \A k \in 1..Len(w) : rank[w[k].id] \in Nat
    BY <1>2, StringTypes DEF Ranks
<1>5. IsPlaceOf(at, w, wchar, p, n, rank)
    <2>1. PICK pos : IsPlacing(pos, w, wchar) /\ InsertPosition(w, wchar, p, n) = pos[<<p, n>>]
        BY <1>1, InsertPositionIsPlacing
    <2>2. /\ rank[wchar.previousId] <= rank[w[p].id] /\ rank[w[n].id] <= rank[wchar.nextId]
          /\ rank[w[p].id] < rank[wchar.id] /\ rank[wchar.id] < rank[w[n].id]
        BY <1>3, <1>4
    <2>3. IsPlaceOf(pos[<<p, n>>], w, wchar, p, n, rank)
        BY <2>1, <2>2, PlacingIsRight
    <2> QED
        BY <2>1, <2>3
<1>6. /\ at \in 2..Len(w) /\ at - 1 \in 1..Len(w) /\ at \in 1..Len(w) /\ at \in 1..(Len(w) + 1)
      /\ rank[w[at - 1].id] < rank[wchar.id] /\ rank[wchar.id] < rank[w[at].id]
    BY <1>1, <1>5 DEF IsPlaceOf
<1>7. /\ v \in Seq(WChars \cup Limiters) /\ Len(v) = Len(w) + 1
      /\ \A i \in 1..(Len(w) + 1) : /\ i < at => v[i] = w[i]
                                    /\ i = at => v[i] = wchar
                                    /\ at < i => v[i] = w[i - 1]
    <2> DEFINE U == WChars \cup Limiters
    <2>1. w \in Seq(U) /\ wchar \in U
        BY <1>1
    <2> HIDE DEF U
    <2>6. PICK j \in 1..(Len(w) + 1) : j = at
        BY <1>6
    <2> DEFINE x == InsertAt(w, j, wchar)
    <2>2. x \in Seq(U)
        BY <2>1, InsertedString
    <2>3. Len(x) = Len(w) + 1
        BY <2>1, InsertedString
    <2>4. \A i \in 1..(Len(w) + 1) : /\ i < j => x[i] = w[i]
                                     /\ i = j => x[i] = wchar
                                     /\ j < i => x[i] = w[i - 1]
        BY <2>1, InsertedString
    <2>5. x = v
        BY <2>6
    <2> HIDE DEF x
    <2> QED
        BY <2>2, <2>3, <2>4, <2>5, <2>6 DEF U
<1>8. v[1] = w[1] /\ v[Len(v)] = w[Len(w)]
    <2>1. 1 \in 1..(Len(w) + 1) /\ 1 < at
        BY <1>1, <1>6
    <2>2. Len(w) + 1 \in 1..(Len(w) + 1) /\ at < Len(w) + 1
        BY <1>1, <1>6
    <2>3. v[Len(w) + 1] = w[Len(w) + 1 - 1]
        BY <1>7, <2>2
    <2> QED
        BY <1>1, <1>7, <2>1, <2>3
<1>9. \A k \in 2..(Len(v) - 1) :
         v[k] = wchar \/ \E j \in 2..(Len(w) - 1) : v[k] = w[j]
    <2>3. v[at] = wchar
        BY <1>6, <1>7
    <2> SUFFICES ASSUME NEW k \in 2..(Len(v) - 1), k # at
                 PROVE  \E j \in 2..(Len(w) - 1) : v[k] = w[j]
        BY <2>3, Zenon
    <2>1. CASE k < at
        <3>1. k \in 2..(Len(w) - 1) /\ k \in 1..(Len(w) + 1)
            BY <1>1, <1>6, <1>7, <2>1
        <3> QED
            BY <1>7, <2>1, <3>1
    <2>2. CASE at < k
        <3>1. k - 1 \in 2..(Len(w) - 1) /\ k \in 1..(Len(w) + 1)
            BY <1>1, <1>6, <1>7, <2>2
        <3>2. v[k] = w[k - 1]
            BY <1>7, <2>2, <3>1
        <3> QED
            BY <3>1, <3>2
    <2> QED
        BY <1>6, <2>1, <2>2
<1>10. \A j \in 2..(Len(w) - 1) : \E k \in 2..(Len(v) - 1) : v[k] = w[j]
    <2> SUFFICES ASSUME NEW j \in 2..(Len(w) - 1) PROVE \E k \in 2..(Len(v) - 1) : v[k] = w[j]
        OBVIOUS
    <2>1. CASE j < at
        <3>1. j \in 2..(Len(v) - 1) /\ j \in 1..(Len(w) + 1)
            BY <1>1, <1>7
        <3> QED
            BY <1>7, <2>1, <3>1
    <2>2. CASE ~(j < at)
        <3> DEFINE k == j + 1
        <3>1. k \in 2..(Len(v) - 1) /\ k \in 1..(Len(w) + 1) /\ at < k /\ k - 1 = j
            BY <1>1, <1>6, <1>7, <2>2
        <3> HIDE DEF k
        <3>2. v[k] = w[j]
            BY <1>7, <3>1
        <3> QED
            BY <3>1, <3>2
    <2> QED
        BY <2>1, <2>2
<1>11. \E k \in 2..(Len(v) - 1) : v[k] = wchar
    BY <1>1, <1>6, <1>7
<1>12. \A k \in 2..(Len(v) - 1) : v[k] \in WChars /\ Shown(v[k]) \in D \cup {wchar}
    BY <1>9 DEF IsString
<1>13. ASSUME NEW d \in D \cup {wchar} PROVE \E k \in 2..(Len(v) - 1) : v[k].id = d.id
    <2>1. CASE d = wchar
        BY <1>11, <2>1
    <2>2. CASE d \in D
        <3>1. PICK j \in 2..(Len(w) - 1) : w[j].id = d.id
            BY <2>2 DEF IsString
        <3> QED
            BY <1>10, <3>1
    <2> QED
        BY <2>1, <2>2
<1>14. ASSUME NEW i \in 1..Len(v), NEW j \in 1..Len(v), i < j
       PROVE  rank[v[i].id] < rank[v[j].id]
    <2>1. i \in 1..(Len(w) + 1) /\ j \in 1..(Len(w) + 1)
        BY <1>7
    <2>2. CASE j < at
        <3>1. i < at /\ i \in 1..Len(w) /\ j \in 1..Len(w)
            BY <1>6, <1>14, <2>1, <2>2
        <3> QED
            BY <1>7, <1>14, <2>1, <2>2, <3>1 DEF IsString
    <2>3. CASE j = at
        <3>1. i < at /\ i \in 1..Len(w) /\ i <= at - 1
            BY <1>6, <1>14, <2>1, <2>3
        <3>2. rank[w[i].id] <= rank[w[at - 1].id]
            BY <1>6, <3>1, StringOrder
        <3>3. rank[w[i].id] < rank[wchar.id]
            BY <1>4, <1>6, <3>1, <3>2, LessTransitive, Zenon
        <3> QED
            BY <1>7, <2>1, <2>3, <3>1, <3>3
    <2>4. CASE at < j
        <3>1. j - 1 \in 1..Len(w) /\ at < j /\ at <= j - 1
            BY <1>1, <1>6, <2>1, <2>4
        <3>2. v[j] = w[j - 1]
            BY <1>7, <2>1, <3>1
        <3>3. rank[w[at].id] <= rank[w[j - 1].id]
            BY <1>6, <3>1, StringOrder
        <3>4. rank[wchar.id] < rank[w[j - 1].id]
            BY <1>4, <1>6, <3>1, <3>3, LessTransitive, Zenon
        <3>5. CASE i = at
            BY <1>7, <2>1, <3>2, <3>4, <3>5
        <3>6. CASE i < at
            <4>1. i \in 1..Len(w) /\ i <= at - 1 /\ i < j - 1
                BY <1>6, <2>1, <2>4, <3>6
            <4>2. rank[w[i].id] < rank[w[j - 1].id]
                BY <3>1, <4>1, StringOrder
            <4> QED
                BY <1>7, <2>1, <3>2, <3>6, <4>2
        <3>7. CASE at < i
            <4>1. i - 1 \in 1..Len(w) /\ at < i /\ i - 1 < j - 1
                BY <1>1, <1>6, <1>14, <2>1, <3>7
            <4>2. v[i] = w[i - 1]
                BY <1>7, <2>1, <4>1
            <4>3. rank[w[i - 1].id] < rank[w[j - 1].id]
                BY <3>1, <4>1, StringOrder
            <4> QED
                BY <3>2, <4>2, <4>3
        <3> QED
            BY <1>6, <2>1, <3>5, <3>6, <3>7
    <2> QED
        BY <1>6, <2>1, <2>2, <2>3, <2>4
<1>15. Len(v) >= 2
    BY <1>1, <1>7
<1>16. IsString(v, s, D \cup {wchar}, rank)
    BY <1>7, <1>8, <1>12, <1>13, <1>14, <1>15 DEF IsString
<1>17. Adds(v, w, {wchar})
    BY <1>9, <1>10 DEF Adds
<1> QED
    BY <1>6, <1>16, <1>17

\* Hiding a character changes nothing else.
LEMMA HidingKeepsString ==
    ASSUME NEW D, NEW rank, NEW s \in Sites, NEW w, IsString(w, s, D, rank),
           NEW at \in 2..(Len(w) - 1), NEW v, v = [w EXCEPT ![at].visible = FALSE]
    PROVE  /\ IsString(v, s, D, rank)
           /\ Len(v) = Len(w)
           /\ \A k \in 2..(Len(w) - 1) : /\ v[k].id = w[k].id
                                         /\ k # at => v[k] = w[k]
           /\ v[at].visible = FALSE
<1>1. w \in Seq(WChars \cup Limiters) /\ Len(w) \in Nat /\ Len(w) >= 2 /\ DOMAIN w = 1..Len(w)
    BY DEF IsString
<1>2. w[at] \in WChars /\ Shown(w[at]) \in D /\ at \in 1..Len(w)
    BY <1>1 DEF IsString
<1> DEFINE char == [w[at] EXCEPT !.visible = FALSE]
<1>3. char \in WChars /\ Shown(char) = Shown(w[at]) /\ char.id = w[at].id /\ char.visible = FALSE
    BY <1>2 DEF WChars, Shown
<1>4. v = [w EXCEPT ![at] = char]
    OBVIOUS
<1> HIDE DEF char
<1>5. v \in Seq(WChars \cup Limiters) /\ Len(v) = Len(w)
    <2> DEFINE U == WChars \cup Limiters
    <2>1. w \in Seq(U) /\ char \in U /\ at \in 1..Len(w)
        BY <1>1, <1>2, <1>3
    <2> HIDE DEF U
    <2>2. [w EXCEPT ![at] = char] \in Seq(U) /\ Len([w EXCEPT ![at] = char]) = Len(w)
        BY <2>1, ExceptSeq
    <2> QED
        BY <1>4, <2>2 DEF U
<1>6. \A k \in 1..Len(w) : v[k] = IF k = at THEN char ELSE w[k]
    BY <1>1, <1>4
<1>7. \A k \in 1..Len(w) : v[k].id = w[k].id
    BY <1>3, <1>6
<1>8. v[1] = w[1] /\ v[Len(v)] = w[Len(w)]
    <2>1. 1 \in 1..Len(w) /\ Len(w) \in 1..Len(w) /\ 1 # at /\ Len(w) # at
        BY <1>1
    <2> QED
        BY <1>5, <1>6, <2>1
<1>9. \A k \in 2..(Len(w) - 1) : k \in 1..Len(w)
    BY <1>1
<1>10. \A k \in 2..(Len(w) - 1) : v[k] \in WChars /\ Shown(v[k]) \in D
    BY <1>2, <1>3, <1>6, <1>9 DEF IsString
<1>11. \A d \in D : \E k \in 2..(Len(w) - 1) : v[k].id = d.id
    BY <1>7, <1>9 DEF IsString
<1>12. \A i, j \in 1..Len(v) : i < j => rank[v[i].id] < rank[v[j].id]
    BY <1>5, <1>7 DEF IsString
<1>13. IsString(v, s, D, rank)
    BY <1>1, <1>5, <1>8, <1>10, <1>11, <1>12 DEF IsString
<1>14. v[at].visible = FALSE
    BY <1>2, <1>3, <1>6
<1> QED
    BY <1>5, <1>6, <1>7, <1>9, <1>13, <1>14

\* A string stays one when places are made for further characters.
LEMMA StringKeepsOrder ==
    ASSUME NEW C, NEW rank, Legal(C, rank), NEW new, Keeps(C, rank, new),
           NEW D \in SUBSET C, NEW s \in Sites, NEW w, IsString(w, s, D, rank)
    PROVE  IsString(w, s, D, new)
<1>1. Len(w) \in Nat
    BY DEF IsString
<1>2. w[1].id = [siteId |-> s, clock |-> 0] /\ w[1].id \in Known(C)
    BY DEF IsString, GetNewSpecialStartWChar, WCharacterId, SPECIAL_START_CHAR_CLOCK,
           Known, IsLimiter, CharIds
<1>3. w[Len(w)].id = [siteId |-> s, clock |-> MaxValue] /\ w[Len(w)].id \in Known(C)
    BY DEF IsString, GetNewSpecialEndWChar, WCharacterId, SPECIAL_END_CHAR_CLOCK,
           Known, IsLimiter, CharIds
<1>4. ASSUME NEW k \in 2..(Len(w) - 1) PROVE w[k].id \in Known(C)
    <2>1. w[k] \in WChars /\ Shown(w[k]) \in C
        BY DEF IsString
    <2> QED
        BY <2>1, ShownIsSame DEF Known, Names
<1>5. \A k \in 1..Len(w) : k = 1 \/ k = Len(w) \/ k \in 2..(Len(w) - 1)
    <2>1. \A n \in Nat : \A k \in 1..n : k = 1 \/ k = n \/ k \in 2..(n - 1)
        OBVIOUS
    <2> QED
        BY <1>1, <2>1, Zenon
<1>6. \A k \in 1..Len(w) : w[k].id \in Known(C)
    BY <1>2, <1>3, <1>4, <1>5
<1>7. \A i, j \in 1..Len(w) : i < j => new[w[i].id] < new[w[j].id]
    BY <1>6 DEF IsString, Keeps
<1> QED
    BY <1>7 DEF IsString

-----------------------------------------------------------------------------
(* What a string says of the operations it was made by.                    *)

\* The characters the operations of A insert, and those they hide.
Chars(A) == {op.char : op \in {o \in A : o.type = "Insertion"}}

\* The ids of the characters that the operations of A hide.
Deleted(A) == {op.char.id : op \in {o \in A : o.type = "Deletion"}}

\* w is the string of site s after the operations of A.
Reads(w, s, A, rank) ==
    /\ IsString(w, s, Chars(A), rank)
    /\ \A k \in 2..(Len(w) - 1) : w[k].visible <=> w[k].id \notin Deleted(A)

\* Two strings after the same operations agree at k when they agree before it.
LEMMA StringsAgreeAt ==
    ASSUME NEW A, NEW rank, Legal(Chars(A), rank), NEW s \in Sites, NEW t \in Sites,
           NEW w, Reads(w, s, A, rank), NEW v, Reads(v, t, A, rank),
           NEW k \in 2..(Len(w) - 1),
           \A i \in 2..(k - 1) : i <= Len(v) - 1 /\ w[i] = v[i]
    PROVE  k <= Len(v) - 1 /\ w[k] = v[k]
<1> DEFINE D == Chars(A)
<1>1. IsString(w, s, D, rank) /\ IsString(v, t, D, rank) /\ Legal(D, rank)
    BY DEF Reads
<1>2. Len(w) \in Nat /\ Len(v) \in Nat
    BY <1>1, StringTypes
<1>a. \A u, x : IsString(u, x, D, rank) => \A d \in D : \E j \in 2..(Len(u) - 1) : u[j].id = d.id
    BY DEF IsString
<1> HIDE DEF D
<1>3. w[k].id \in Names(D)
    BY <1>1, StringTypes
<1>4. PICK j \in 2..(Len(v) - 1) : v[j].id = w[k].id
    BY <1>1, <1>3, <1>a DEF Names
<1>5. k \in 1..Len(w) /\ j \in 1..Len(v)
    BY <1>2
<1>6. ~(j < k)
    <2> SUFFICES ASSUME j < k PROVE FALSE
        OBVIOUS
    <2>1. j \in 2..(k - 1) /\ j \in 1..Len(w)
        BY <1>2
    <2>2. w[j].id = w[k].id
        BY <1>4, <2>1
    <2> QED
        BY <1>1, <1>5, <2>1, <2>2, StringOrder
<1>7. ~(k < j)
    <2> SUFFICES ASSUME k < j PROVE FALSE
        OBVIOUS
    <2>1. k \in 2..(Len(v) - 1) /\ k \in 1..Len(v)
        BY <1>2
    <2>2. v[k].id \in Names(D)
        BY <1>1, <2>1, StringTypes
    <2>3. PICK i \in 2..(Len(w) - 1) : w[i].id = v[k].id
        BY <1>1, <2>2, <1>a DEF Names
    <2>4. i \in 1..Len(w)
        BY <1>2
    <2>5. rank[v[k].id] < rank[v[j].id]
        BY <1>1, <1>5, <2>1, StringOrder
    <2>6. rank[w[i].id] < rank[w[k].id]
        BY <1>4, <2>3, <2>5
    <2>7. i < k
        BY <1>1, <1>5, <2>4, <2>6, StringOrder
    <2>8. v[i].id = v[k].id /\ i \in 1..Len(v)
        BY <1>2, <2>3, <2>7
    <2> QED
        BY <1>1, <2>1, <2>7, <2>8, StringOrder
<1>8. j = k
    BY <1>5, <1>6, <1>7
<1>9. w[k] \in WChars /\ v[k] \in WChars /\ Shown(w[k]) \in D /\ Shown(v[k]) \in D
    BY <1>1, <1>8 DEF IsString
<1>10. Shown(w[k]) = Shown(v[k])
    <2>1. Shown(w[k]).id = Shown(v[k]).id
        BY <1>4, <1>8, <1>9, ShownIsSame
    <2> QED
        BY <1>1, <1>9, <2>1 DEF Legal, Distinct
<1>11. w[k].visible <=> v[k].visible
    BY <1>4, <1>8 DEF Reads
<1>12. w[k].visible = v[k].visible
    BY <1>9, <1>11 DEF WChars
<1>13. w[k] = v[k]
    <2>1. \A x, y \in WChars : /\ x.id = y.id /\ x.alphaValue = y.alphaValue /\ x.visible = y.visible
                               /\ x.previousId = y.previousId /\ x.nextId = y.nextId
                               => x = y
        BY DEF WChars
    <2>2. /\ w[k].id = v[k].id /\ w[k].alphaValue = v[k].alphaValue
          /\ w[k].previousId = v[k].previousId /\ w[k].nextId = v[k].nextId
        BY <1>9, <1>10, ShownIsSame
    <2> QED
        BY <1>9, <1>12, <2>1, <2>2
<1> QED
    BY <1>8, <1>13

\* So they agree as long as the first goes on.
LEMMA StringsAgreeAlong ==
    ASSUME NEW A, NEW rank, Legal(Chars(A), rank), NEW s \in Sites, NEW t \in Sites,
           NEW w, Reads(w, s, A, rank), NEW v, Reads(v, t, A, rank)
    PROVE  \A k \in 2..(Len(w) - 1) : k <= Len(v) - 1 /\ w[k] = v[k]
<1> DEFINE Bad == {k \in 2..(Len(w) - 1) : ~(k <= Len(v) - 1 /\ w[k] = v[k])}
<1> SUFFICES ASSUME Bad # {} PROVE FALSE
    OBVIOUS
<1>1. PICK k \in Bad : \A i \in Bad : k <= i
    <2>1. Bad \in SUBSET Nat
        OBVIOUS
    <2> HIDE DEF Bad
    <2> QED
        BY <2>1, LeastNumber, Zenon
<1>2. k \in 2..(Len(w) - 1) /\ Len(w) \in Nat
    BY StringTypes DEF Reads
<1>3. \A i \in 2..(k - 1) : i \in 2..(Len(w) - 1) /\ i \notin Bad
    BY <1>1, <1>2
<1>4. \A i \in 2..(k - 1) : i <= Len(v) - 1 /\ w[i] = v[i]
    BY <1>3
<1>5. ~(k <= Len(v) - 1 /\ w[k] = v[k])
    OBVIOUS
<1> HIDE DEF Bad
<1>6. k <= Len(v) - 1 /\ w[k] = v[k]
    BY <1>2, <1>4, StringsAgreeAt
<1> QED
    BY <1>5, <1>6

\* A string with a character has one before its end.
LEMMA LastBetween == \A n \in Nat : n >= 2 /\ n # 2 => n - 1 \in 2..(n - 1)
OBVIOUS

\* The characters between the limiters.
Middle(w) == SubSeq(w, 2, Len(w) - 1)

\* The characters of a string between the limiters, one by one.
LEMMA MiddleOfString ==
    ASSUME NEW A, NEW rank, NEW s \in Sites, NEW w, Reads(w, s, A, rank)
    PROVE  /\ Len(w) \in Nat /\ Len(w) >= 2
           /\ Middle(w) \in Seq(WChars)
           /\ Len(Middle(w)) = Len(w) - 2
           /\ DOMAIN Middle(w) = 1..(Len(w) - 2)
           /\ \A i \in 1..(Len(w) - 2) : Middle(w)[i] = w[i + 1]
<1>1. Len(w) \in Nat /\ Len(w) >= 2
    BY DEF Reads, IsString
<1>2. \A i \in 2..(Len(w) - 1) : w[i] \in WChars
    BY DEF Reads, IsString
<1> DEFINE n == Len(w) - 1
<1>3. n \in Int /\ n >= 1
    BY <1>1
<1>4. n = Len(w) - 1
    OBVIOUS
<1> HIDE DEF n
<1>5. /\ SubSeq(w, 2, n) \in Seq(WChars)
      /\ Len(SubSeq(w, 2, n)) = IF 2 <= n THEN n - 2 + 1 ELSE 0
      /\ \A i \in 1..(n - 2 + 1) : SubSeq(w, 2, n)[i] = w[2 + i - 1]
    BY <1>2, <1>3, <1>4, SubSeqProperties
<1>6. Len(SubSeq(w, 2, n)) = n - 1
    BY <1>3, <1>5
<1>7. \A i \in 1..(n - 1) : SubSeq(w, 2, n)[i] = w[i + 1]
    BY <1>3, <1>5
<1>8. Len(w) - 2 = n - 1
    BY <1>1, <1>4
<1>9. DOMAIN SubSeq(w, 2, n) = 1..(n - 1)
    BY <1>5, <1>6
<1> QED
    BY <1>1, <1>4, <1>5, <1>6, <1>7, <1>8, <1>9 DEF Middle

\* Two strings after the same operations have the same characters between their
\* limiters.
LEMMA StringsAgree ==
    ASSUME NEW A, NEW rank, Legal(Chars(A), rank), NEW s \in Sites, NEW t \in Sites,
           NEW w, Reads(w, s, A, rank), NEW v, Reads(v, t, A, rank)
    PROVE  Middle(w) = Middle(v)
<1>1. \A k \in 2..(Len(w) - 1) : k <= Len(v) - 1 /\ w[k] = v[k]
    BY StringsAgreeAlong
<1>2. \A k \in 2..(Len(v) - 1) : k <= Len(w) - 1 /\ v[k] = w[k]
    BY StringsAgreeAlong
<1>3. Len(w) \in Nat /\ Len(v) \in Nat /\ Len(w) >= 2 /\ Len(v) >= 2
    BY DEF Reads, IsString
<1>4. Len(w) = Len(v)
    <2>1. Len(w) - 1 <= Len(v) - 1
        <3>1. CASE Len(w) = 2
            BY <1>3, <3>1
        <3>2. CASE Len(w) # 2
            <4>1. Len(w) - 1 \in 2..(Len(w) - 1)
                BY <1>3, <3>2, LastBetween, Zenon
            <4> QED
                BY <1>1, <4>1
        <3> QED
            BY <3>1, <3>2
    <2>2. Len(v) - 1 <= Len(w) - 1
        <3>1. CASE Len(v) = 2
            BY <1>3, <3>1
        <3>2. CASE Len(v) # 2
            <4>1. Len(v) - 1 \in 2..(Len(v) - 1)
                BY <1>3, <3>2, LastBetween, Zenon
            <4> QED
                BY <1>2, <4>1
        <3> QED
            BY <3>1, <3>2
    <2> QED
        BY <1>3, <2>1, <2>2
<1>5. /\ Middle(w) \in Seq(WChars) /\ Len(Middle(w)) = Len(w) - 2
      /\ \A i \in 1..(Len(w) - 2) : Middle(w)[i] = w[i + 1]
    BY MiddleOfString
<1>6. /\ Middle(v) \in Seq(WChars) /\ Len(Middle(v)) = Len(v) - 2
      /\ \A i \in 1..(Len(v) - 2) : Middle(v)[i] = v[i + 1]
    BY MiddleOfString
<1>7. \A i \in 1..(Len(w) - 2) : i + 1 \in 2..(Len(w) - 1)
    BY <1>3
<1>8. \A i \in 1..(Len(w) - 2) : Middle(w)[i] = Middle(v)[i]
    BY <1>1, <1>4, <1>5, <1>6, <1>7
<1> QED
    BY <1>4, <1>5, <1>6, <1>8, SeqEqual

\* The characters of a string have the names of the insertions, each once, and
\* are hidden when there is a deletion.
LEMMA TextSaysOperations ==
    ASSUME NEW A, NEW rank, Legal(Chars(A), rank), NEW s \in Sites, NEW w, Reads(w, s, A, rank)
    PROVE  /\ {Middle(w)[k].id : k \in DOMAIN Middle(w)} = Names(Chars(A))
           /\ Len(Middle(w)) = Cardinality(Names(Chars(A)))
           /\ \A k \in DOMAIN Middle(w) : Middle(w)[k].visible <=> Middle(w)[k].id \notin Deleted(A)
<1> DEFINE D == Chars(A)
           m == Middle(w)
           n == Len(w) - 2
<1>1. IsString(w, s, D, rank) /\ Legal(D, rank)
    BY DEF Reads
<1>2. /\ Len(w) \in Nat /\ Len(w) >= 2 /\ Len(m) = Len(w) - 2 /\ DOMAIN m = 1..(Len(w) - 2)
      /\ \A i \in 1..(Len(w) - 2) : m[i] = w[i + 1]
    BY MiddleOfString
<1>3. n \in Nat /\ Len(m) = n /\ DOMAIN m = 1..n /\ \A i \in 1..n : m[i] = w[i + 1]
    BY <1>2
<1>4. /\ \A i \in 1..n : i + 1 \in 2..(Len(w) - 1) /\ i + 1 \in 1..Len(w)
      /\ \A k \in 2..(Len(w) - 1) : k - 1 \in 1..n /\ (k - 1) + 1 = k
    BY <1>2
<1>a. \A d \in D : \E j \in 2..(Len(w) - 1) : w[j].id = d.id
    BY <1>1 DEF IsString
<1>b. \A i \in 1..n : m[i].visible <=> m[i].id \notin Deleted(A)
    BY <1>3, <1>4 DEF Reads
<1> HIDE DEF D, m, n
<1>5. ASSUME NEW i \in 1..n PROVE m[i].id \in Names(D)
    <2>1. w[i + 1].id \in Names(D)
        BY <1>1, <1>4, StringTypes
    <2> QED
        BY <1>3, <2>1
<1>6. ASSUME NEW e \in Names(D) PROVE \E i \in 1..n : m[i].id = e
    <2>1. PICK k \in 2..(Len(w) - 1) : w[k].id = e
        BY <1>a DEF Names
    <2>2. k - 1 \in 1..n /\ m[k - 1] = w[(k - 1) + 1] /\ (k - 1) + 1 = k
        BY <1>3, <1>4
    <2> QED
        BY <2>1, <2>2
<1>7. {m[k].id : k \in DOMAIN m} = Names(D)
    BY <1>3, <1>5, <1>6
<1>8. Cardinality(Names(D)) = n
    <2> DEFINE f == [i \in 1..n |-> m[i].id]
    <2>1. f \in Surjection(1..n, Names(D))
        BY <1>5, <1>6 DEF Surjection
    <2>2. \A i, j \in 1..n : f[i] = f[j] => i = j
        <3> SUFFICES ASSUME NEW i \in 1..n, NEW j \in 1..n, f[i] = f[j] PROVE i = j
            OBVIOUS
        <3>1. w[i + 1].id = w[j + 1].id
            BY <1>3
        <3>2. i + 1 = j + 1
            BY <1>1, <1>4, <3>1, StringOrder
        <3> QED
            BY <3>2
    <2> HIDE DEF f
    <2>3. f \in Injection(1..n, Names(D))
        BY <2>1, <2>2 DEF Injection, IsInjective, Surjection
    <2>4. IsFiniteSet(1..n) /\ Cardinality(1..n) = n
        <3>1. 1 \in Int /\ n \in Int /\ (1 <= n \/ n = 0)
            BY <1>3
        <3>2. IsFiniteSet(1..n) /\ Cardinality(1..n) = IF 1 > n THEN 0 ELSE n - 1 + 1
            BY <3>1, FS_Interval
        <3> QED
            BY <1>3, <3>1, <3>2
    <2>5. Cardinality(1..n) = Cardinality(Names(D))
        BY <2>1, <2>3, <2>4, FS_Surjection
    <2> QED
        BY <2>4, <2>5
<1> QED
    BY <1>3, <1>7, <1>8, <1>b DEF D, m

\* A character is between its neighbours.
LEMMA CharsAreBetween ==
    ASSUME NEW D, NEW rank, Legal(D, rank), NEW s \in Sites, NEW w, IsString(w, s, D, rank),
           NEW k \in 2..(Len(w) - 1)
    PROVE  GetPos(w, w[k].previousId) < k /\ k < GetPos(w, w[k].nextId)
<1>1. /\ w[k].previousId \in Known(D) /\ w[k].nextId \in Known(D)
      /\ rank[w[k].previousId] < rank[w[k].id] /\ rank[w[k].id] < rank[w[k].nextId]
    BY StringTypes
<1>2. k \in 1..Len(w)
    BY StringTypes
<1>3. GetPos(w, w[k].previousId) < k
    <2> DEFINE p == GetPos(w, w[k].previousId)
    <2>1. p \in 1..Len(w) /\ rank[w[p].id] = rank[w[k].previousId]
        BY <1>1, GetPosIsExact
    <2> HIDE DEF p
    <2>2. p < k
        BY <1>1, <1>2, <2>1, StringOrder
    <2> QED
        BY <2>2 DEF p
<1>4. k < GetPos(w, w[k].nextId)
    <2> DEFINE n == GetPos(w, w[k].nextId)
    <2>1. n \in 1..Len(w) /\ rank[w[n].id] = rank[w[k].nextId]
        BY <1>1, GetPosIsExact
    <2> HIDE DEF n
    <2>2. k < n
        BY <1>1, <1>2, <2>1, StringOrder
    <2> QED
        BY <2>2 DEF n
<1> QED
    BY <1>3, <1>4

-----------------------------------------------------------------------------
(* What a site does with an operation whose needs it has.                  *)

\* The values of a site.
Site ==
    [siteId : Sites, clock : VectorClocks, characters : Seq(WChars \cup Limiters),
     pendingOps : Seq(WootOperations), fault : Faults]

\* A site that works, and has nothing waiting.
Running(x, s) ==
    /\ x \in Site
    /\ x.siteId = s
    /\ x.fault = "none"
    /\ x.pendingOps = <<>>

\* The operations of A inserted the characters that op needs.
Supported(op, A) ==
    /\ op.type = "Insertion" => /\ op.char.previousId \in Known(Chars(A))
                                /\ op.char.nextId \in Known(Chars(A))
    /\ op.type = "Deletion" => op.char.id \in Names(Chars(A))

\* What one more operation adds.
LEMMA CharsOfMore ==
    ASSUME NEW A, NEW op
    PROVE  /\ op.type = "Insertion" => /\ Chars(A \cup {op}) = Chars(A) \cup {op.char}
                                       /\ Deleted(A \cup {op}) = Deleted(A)
           /\ op.type = "Deletion" => /\ Chars(A \cup {op}) = Chars(A)
                                      /\ Deleted(A \cup {op}) = Deleted(A) \cup {op.char.id}
<1>1. CASE op.type = "Insertion"
    BY <1>1 DEF Chars, Deleted
<1>2. CASE op.type = "Deletion"
    BY <1>2 DEF Chars, Deleted
<1> QED
    BY <1>1, <1>2

\* The string after an insertion.
LEMMA InsertionReads ==
    ASSUME NEW s \in Sites, NEW A, NEW rank, Legal(Chars(A), rank),
           NEW w, Reads(w, s, A, rank), Deleted(A) \subseteq Names(Chars(A)),
           NEW op, op.type = "Insertion", op.char \in WChars, Shown(op.char) = op.char,
           op.char.id \notin Names(Chars(A)), Supported(op, A),
           Legal(Chars(A \cup {op}), rank),
           NEW p \in 1..Len(w), rank[w[p].id] = rank[op.char.previousId],
           NEW n \in 1..Len(w), rank[w[n].id] = rank[op.char.nextId],
           NEW at, at = InsertPosition(w, op.char, p, n),
           NEW v, v = InsertAt(w, at, op.char)
    PROVE  at # 0 /\ Reads(v, s, A \cup {op}, rank)
<1> DEFINE D == Chars(A)
           c == op.char
<1>1. Chars(A \cup {op}) = D \cup {c} /\ Deleted(A \cup {op}) = Deleted(A)
    BY CharsOfMore
<1>2. at # 0 /\ IsString(v, s, D \cup {c}, rank) /\ Adds(v, w, {c})
    <2>1. c \in WChars /\ Shown(c) = c /\ c.id \notin Names(D)
        OBVIOUS
    <2>2. c.previousId \in Known(D) /\ c.nextId \in Known(D)
        BY DEF Supported
    <2>3. Legal(D, rank) /\ Legal(D \cup {c}, rank) /\ IsString(w, s, D, rank)
        BY <1>1 DEF Reads
    <2>4. /\ rank[w[p].id] = rank[c.previousId] /\ rank[w[n].id] = rank[c.nextId]
          /\ at = InsertPosition(w, c, p, n) /\ v = InsertAt(w, at, c)
        OBVIOUS
    <2> HIDE DEF D, c
    <2> QED
        BY <2>1, <2>2, <2>3, <2>4, InsertionKeepsString
<1>3. c.visible = TRUE
    BY DEF Shown, WChars
<1>4. c.id \notin Deleted(A)
    OBVIOUS
<1>5. \A k \in 2..(Len(v) - 1) : v[k] = c \/ \E j \in 2..(Len(w) - 1) : v[k] = w[j]
    BY <1>2 DEF Adds
<1>6. \A k \in 2..(Len(v) - 1) : v[k].visible <=> v[k].id \notin Deleted(A)
    BY <1>3, <1>4, <1>5 DEF Reads
<1> QED
    BY <1>1, <1>2, <1>6 DEF Reads

\* The position of a character whose name is known.
LEMMA NamedPosition ==
    ASSUME NEW D, NEW rank, Legal(D, rank), NEW s \in Sites, NEW w, IsString(w, s, D, rank),
           NEW cid \in Names(D)
    PROVE  GetPos(w, cid) \in 2..(Len(w) - 1) /\ w[GetPos(w, cid)].id = cid
<1>1. cid \in Known(D)
    BY DEF Known
<1>2. GetPos(w, cid) \in 1..Len(w)
    BY <1>1, GetPosIsExact
<1>3. rank[w[GetPos(w, cid)].id] = rank[cid]
    BY <1>1, GetPosIsExact
<1>4. PICK at \in 1..Len(w) : at = GetPos(w, cid)
    BY <1>2
<1>5. PICK k \in 2..(Len(w) - 1) : w[k].id = cid
    <2>1. PICK d \in D : d.id = cid
        BY Zenon DEF Names
    <2>2. \E k \in 2..(Len(w) - 1) : w[k].id = d.id
        BY DEF IsString
    <2> QED
        BY <2>1, <2>2, Zenon
<1>6. k \in 1..Len(w)
    BY StringTypes
<1>7. rank[w[at].id] = rank[w[k].id]
    BY <1>3, <1>4, <1>5
<1>8. at = k
    BY <1>6, <1>7, StringOrder
<1> QED
    BY <1>4, <1>5, <1>8

\* The string after a deletion.
LEMMA DeletionReads ==
    ASSUME NEW s \in Sites, NEW A, NEW rank, NEW w, Reads(w, s, A, rank), Legal(Chars(A), rank),
           NEW op, op.type = "Deletion",
           NEW at \in 2..(Len(w) - 1), w[at].id = op.char.id,
           NEW v, v = [w EXCEPT ![at].visible = FALSE]
    PROVE  Reads(v, s, A \cup {op}, rank)
<1>1. Chars(A \cup {op}) = Chars(A) /\ Deleted(A \cup {op}) = Deleted(A) \cup {op.char.id}
    BY CharsOfMore
<1>2. /\ IsString(w, s, Chars(A), rank)
      /\ \A k \in 2..(Len(w) - 1) : w[k].visible <=> w[k].id \notin Deleted(A)
    BY DEF Reads
<1>3. /\ IsString(v, s, Chars(A), rank)
      /\ Len(v) = Len(w)
      /\ \A k \in 2..(Len(w) - 1) : /\ v[k].id = w[k].id
                                    /\ k # at => v[k] = w[k]
      /\ v[at].visible = FALSE
    <2> DEFINE D == Chars(A)
    <2>1. IsString(w, s, D, rank)
        BY <1>2
    <2> HIDE DEF D
    <2>2. IsString(v, s, D, rank)
        BY <2>1, HidingKeepsString
    <2>3. Len(v) = Len(w)
        BY <2>1, HidingKeepsString
    <2>4. \A k \in 2..(Len(w) - 1) : /\ v[k].id = w[k].id
                                     /\ k # at => v[k] = w[k]
        BY <2>1, HidingKeepsString
    <2>5. v[at].visible = FALSE
        BY <2>1, HidingKeepsString
    <2> QED
        BY <2>2, <2>3, <2>4, <2>5 DEF D
<1>4. ASSUME NEW k \in 2..(Len(w) - 1)
      PROVE  v[k].visible <=> v[k].id \notin Deleted(A \cup {op})
    <2>1. CASE k = at
        BY <1>1, <1>3, <2>1
    <2>2. CASE k # at
        <3>1. k \in 1..Len(w) /\ at \in 1..Len(w)
            BY <1>2, StringTypes
        <3>2. rank[w[k].id] # rank[w[at].id]
            BY <1>2, <2>2, <3>1, StringOrder
        <3>3. w[k].id # op.char.id
            BY <3>2
        <3> QED
            BY <1>1, <1>2, <1>3, <2>2, <3>3
    <2> QED
        BY <2>1, <2>2
<1> QED
    BY <1>1, <1>3, <1>4 DEF Reads

\* A site with another clock and string.
With(x, clock, w) == [x EXCEPT !.clock = clock, !.characters = w]

\* An insertion makes a character that is not there and that can be seen.
IsFresh(op, A) ==
    op.type = "Insertion" => Shown(op.char) = op.char /\ op.char.id \notin Names(Chars(A))

\* A site that lacks nothing an operation needs executes it, and the string it
\* gets is the one with the operation.
LEMMA ExecutionReads ==
    ASSUME NEW s \in Sites, NEW x, Running(x, s),
           NEW A, NEW rank, Legal(Chars(A), rank), Reads(x.characters, s, A, rank),
           Deleted(A) \subseteq Names(Chars(A)),
           NEW op \in WootOperations, Supported(op, A),
           IsFresh(op, A), Legal(Chars(A \cup {op}), rank)
    PROVE  \E v : /\ Reads(v, s, A \cup {op}, rank)
                  /\ ComputeWootOp(x, op) = Computed(With(x, Update(x.clock, op.id.clock), v), op)
<1> DEFINE w == x.characters
           y == [x EXCEPT !.clock = Update(@, op.id.clock)]
<1>1. op.type \in {"Insertion", "Deletion"} /\ op.char \in WChars
    BY DEF WootOperations
<1>2. Reads(w, s, A, rank) /\ IsString(w, s, Chars(A), rank)
    BY DEF Reads
<1>3. x \in Site /\ x.fault = "none" /\ x.pendingOps = <<>>
    BY DEF Running
<1>4. ASSUME op.type = "Insertion"
      PROVE  \E v : /\ Reads(v, s, A \cup {op}, rank)
                    /\ IsExecutable(x, op)
                    /\ ExecuteExtOp(x, op) = [y EXCEPT !.characters = v]
    <2> DEFINE p == GetPos(w, op.char.previousId)
               n == GetPos(w, op.char.nextId)
               at == InsertPosition(w, op.char, p, n)
               v == InsertAt(w, at, op.char)
    <2>1. op.char.previousId \in Known(Chars(A)) /\ op.char.nextId \in Known(Chars(A))
        BY <1>4 DEF Supported
    <2>2. p \in 1..Len(w) /\ n \in 1..Len(w)
        BY <1>2, <2>1, GetPosIsExact
    <2>3. rank[w[p].id] = rank[op.char.previousId] /\ rank[w[n].id] = rank[op.char.nextId]
        BY <1>2, <2>1, GetPosIsExact
    <2>4. at # 0 /\ Reads(v, s, A \cup {op}, rank)
        <3> HIDE DEF w
        <3>1. PICK q \in 1..Len(w) : q = p
            BY <2>2
        <3>2. PICK m \in 1..Len(w) : m = n
            BY <2>2
        <3>3. rank[w[q].id] = rank[op.char.previousId] /\ rank[w[m].id] = rank[op.char.nextId]
            BY <2>3, <3>1, <3>2
        <3> DEFINE i == InsertPosition(w, op.char, q, m)
        <3>4. i # 0 /\ Reads(InsertAt(w, i, op.char), s, A \cup {op}, rank)
            BY <1>1, <1>2, <1>4, <3>3, InsertionReads DEF IsFresh
        <3> QED
            BY <3>1, <3>2, <3>4
    <2>5. p # 0 /\ n # 0
        BY <2>2
    <2>6. IsExecutable(x, op)
        BY <2>5 DEF IsExecutable, ContainsChar
    <2>7. ExecuteExtOp(x, op) = IntegrateIns(y, op.char, p, n)
        BY <1>4 DEF ExecuteExtOp
    <2>8. y.characters = w
        BY <1>3 DEF Site
    <2>9. IntegrateIns(y, op.char, p, n) = [y EXCEPT !.characters = v]
        BY <2>4, <2>5, <2>8 DEF IntegrateIns
    <2> QED
        BY <2>4, <2>6, <2>7, <2>9
<1>5. ASSUME op.type = "Deletion"
      PROVE  \E v : /\ Reads(v, s, A \cup {op}, rank)
                    /\ IsExecutable(x, op)
                    /\ ExecuteExtOp(x, op) = [y EXCEPT !.characters = v]
    <2> DEFINE at == GetPos(w, op.char.id)
               v == [w EXCEPT ![at].visible = FALSE]
    <2>1. op.char.id \in Names(Chars(A))
        BY <1>5 DEF Supported
    <2>2. at \in 2..(Len(w) - 1) /\ w[at].id = op.char.id
        BY <1>2, <2>1, NamedPosition
    <2>3. Reads(v, s, A \cup {op}, rank)
        <3> HIDE DEF w
        <3>1. PICK k \in 2..(Len(w) - 1) : k = at
            BY <2>2
        <3>2. w[k].id = op.char.id
            BY <2>2, <3>1
        <3>3. Reads([w EXCEPT ![k].visible = FALSE], s, A \cup {op}, rank)
            BY <1>2, <1>5, <3>2, DeletionReads
        <3> QED
            BY <3>1, <3>3
    <2>4. at # 0
        BY <2>2
    <2>5. IsExecutable(x, op)
        BY <1>5, <2>4 DEF IsExecutable, ContainsChar
    <2>6. ExecuteExtOp(x, op) = IntegrateDel(y, at)
        BY <1>5 DEF ExecuteExtOp
    <2>7. y.characters = w
        BY <1>3 DEF Site
    <2>8. IntegrateDel(y, at) = [y EXCEPT !.characters = v]
        BY <1>3, <2>4, <2>7 DEF IntegrateDel, Site
    <2> QED
        BY <2>3, <2>5, <2>6, <2>8
<1>6. PICK v : /\ Reads(v, s, A \cup {op}, rank)
               /\ IsExecutable(x, op)
               /\ ExecuteExtOp(x, op) = [y EXCEPT !.characters = v]
    BY <1>1, <1>4, <1>5
<1>7. tryComputePendings(ExecuteExtOp(x, op)) = ExecuteExtOp(x, op)
    <2>1. ExecuteExtOp(x, op).pendingOps = <<>>
        BY <1>3, <1>6 DEF Site
    <2> QED
        BY <2>1 DEF tryComputePendings
<1>8. ComputeWootOp(x, op) = Computed([y EXCEPT !.characters = v], op)
    BY <1>6, <1>7 DEF ComputeWootOp
<1>9. [y EXCEPT !.characters = v] = With(x, Update(x.clock, op.id.clock), v)
    BY <1>3 DEF Site, With
<1> QED
    BY <1>6, <1>8, <1>9

-----------------------------------------------------------------------------
(* The positions an edit may name.                                         *)

\* f goes through the characters of w and collects the positions it counts.
Collects(f, w, excludeLimiters) ==
    /\ f[0] = <<>>
    /\ \A k \in 1..Len(w) :
          f[k] = IF IsCounted(w[k], excludeLimiters) THEN Append(f[k - 1], k) ELSE f[k - 1]

\* VisiblePositions is what such a loop ends with.
LEMMA VisiblePositionsCollects ==
    ASSUME NEW w, NEW n \in Nat, Len(w) = n, NEW flag
    PROVE  \E f \in [0..n -> Seq(Nat)] :
              Collects(f, w, flag) /\ VisiblePositions(w, flag) = f[n]
<1> DEFINE IsLoop(f) ==
               f = [k \in 0..n |->
                       IF k = 0 THEN <<>>
                       ELSE IF IsCounted(w[k], flag) THEN Append(f[k - 1], k)
                       ELSE f[k - 1]]
           X == Seq(Nat)
           h == [k \in 1..n |-> [a \in X |-> IF IsCounted(w[k], flag) THEN Append(a, k) ELSE a]]
           loop == CHOOSE f : IsLoop(f)
<1>1. VisiblePositions(w, flag) = loop[n]
    BY DEF VisiblePositions
<1>2. <<>> \in X
    OBVIOUS
<1>3. \A k \in 1..n : \A a \in X : Append(a, k) \in X
    OBVIOUS
<1>4. h \in [1..n -> [X -> X]]
    <2> HIDE DEF X
    <2> QED
        BY <1>3
<1>5. PICK g \in [0..n -> X] : g[0] = <<>> /\ \A k \in 1..n : g[k] = h[k][g[k - 1]]
    <2> HIDE DEF X, h
    <2>1. \E g \in [0..n -> X] : Proved!Loop(g, n, <<>>, h)
        BY <1>2, <1>4, Proved!RecursionExists, BoundOfPushes
    <2> QED
        BY <2>1 DEF Proved!Loop
<1>6. \A k \in 1..n : g[k - 1] \in X
    <2> HIDE DEF X
    <2> QED
        BY <1>5
<1>7. \A k \in 1..n : g[k] = IF IsCounted(w[k], flag) THEN Append(g[k - 1], k) ELSE g[k - 1]
    BY <1>5, <1>6
<1>8. IsLoop(g)
    <2>1. \A k \in 0..n : g[k] = IF k = 0 THEN <<>>
                                 ELSE IF IsCounted(w[k], flag) THEN Append(g[k - 1], k)
                                 ELSE g[k - 1]
        <3> SUFFICES ASSUME NEW k \in 0..n
                     PROVE  g[k] = IF k = 0 THEN <<>>
                                   ELSE IF IsCounted(w[k], flag) THEN Append(g[k - 1], k)
                                   ELSE g[k - 1]
            OBVIOUS
        <3>1. CASE k = 0
            BY <1>5, <3>1
        <3>2. CASE k # 0
            <4>1. k \in 1..n
                BY <3>2
            <4>2. g[k] = IF IsCounted(w[k], flag) THEN Append(g[k - 1], k) ELSE g[k - 1]
                BY <1>7, <4>1
            <4> QED
                BY <3>2, <4>2, Zenon
        <3> QED
            BY <3>1, <3>2
    <2>2. g = [k \in 0..n |-> g[k]]
        BY <1>5
    <2> QED
        BY <2>1, <2>2
<1>9. IsLoop(loop)
    BY <1>8, ZenonT(60)
<1> HIDE DEF loop
<1>10. loop[0] = <<>> /\ \A k \in 1..n : loop[k] = IF IsCounted(w[k], flag) THEN Append(loop[k - 1], k) ELSE loop[k - 1]
    <2>1. \A k \in 0..n : loop[k] = IF k = 0 THEN <<>>
                                    ELSE IF IsCounted(w[k], flag) THEN Append(loop[k - 1], k)
                                    ELSE loop[k - 1]
        BY <1>9, Zenon
    <2>2. 0 \in 0..n /\ \A k \in 1..n : k \in 0..n /\ k # 0
        OBVIOUS
    <2> QED
        BY <2>1, <2>2, Zenon
<1>11. loop = g
    <2> DEFINE Bad == {k \in 0..n : loop[k] # g[k]}
    <2>1. Bad = {}
        <3> SUFFICES ASSUME Bad # {} PROVE FALSE
            OBVIOUS
        <3>1. PICK k \in Bad : \A i \in Bad : k <= i
            <4>1. Bad \in SUBSET Nat
                OBVIOUS
            <4> HIDE DEF Bad
            <4> QED
                BY <4>1, LeastNumber, Zenon
        <3>2. k # 0
            BY <1>5, <1>10
        <3>3. k \in 1..n /\ k - 1 \in 0..n /\ k - 1 \notin Bad
            BY <3>1, <3>2
        <3>4. loop[k - 1] = g[k - 1]
            BY <3>3
        <3> QED
            BY <1>7, <1>10, <3>3, <3>4
    <2>2. \A k \in 0..n : loop[k] = g[k]
        BY <2>1
    <2>3. loop = [k \in 0..n |-> loop[k]]
        BY <1>9
    <2> QED
        BY <1>5, <2>2, <2>3
<1> QED
    BY <1>1, <1>10, <1>11, <1>5 DEF Collects

\* v lists positions of w up to k that are counted, in order.
Listed(v, w, k, excludeLimiters) ==
    /\ \A i \in 1..Len(v) : v[i] \in 1..k /\ IsCounted(w[v[i]], excludeLimiters)
    /\ \A i, j \in 1..Len(v) : i < j => v[i] < v[j]

\* A list of counted positions goes on with the next position.
LEMMA ListedGrows ==
    ASSUME NEW w, NEW flag, NEW k \in Nat \ {0}, NEW v \in Seq(Nat), Listed(v, w, k - 1, flag)
    PROVE  /\ Listed(v, w, k, flag)
           /\ IsCounted(w[k], flag) => Listed(Append(v, k), w, k, flag)
<1>1. \A i \in 1..Len(v) : v[i] \in 1..k /\ v[i] < k
    BY DEF Listed
<1>2. Listed(v, w, k, flag)
    BY <1>1 DEF Listed
<1>3. ASSUME IsCounted(w[k], flag) PROVE Listed(Append(v, k), w, k, flag)
    <2> DEFINE u == Append(v, k)
    <2>1. /\ Len(v) \in Nat /\ Len(u) = Len(v) + 1
          /\ \A i \in 1..Len(v) : u[i] = v[i]
          /\ u[Len(v) + 1] = k
        <3>1. k \in Nat
            OBVIOUS
        <3> QED
            BY <3>1, AppendProperties
    <2> HIDE DEF u
    <2>2. \A i \in 1..Len(u) : i \in 1..Len(v) \/ i = Len(v) + 1
        BY <2>1
    <2>3. \A i \in 1..Len(u) : u[i] \in 1..k /\ IsCounted(w[u[i]], flag)
        <3>1. k \in 1..k
            OBVIOUS
        <3> QED
            BY <1>3, <2>1, <2>2, <3>1, <1>2 DEF Listed
    <2>4. ASSUME NEW i \in 1..Len(u), NEW j \in 1..Len(u), i < j PROVE u[i] < u[j]
        <3>1. i \in 1..Len(v)
            BY <2>1, <2>4
        <3>2. CASE j \in 1..Len(v)
            BY <2>1, <2>4, <3>1, <3>2 DEF Listed
        <3>3. CASE j = Len(v) + 1
            BY <1>1, <2>1, <3>1, <3>3
        <3> QED
            BY <2>2, <3>2, <3>3
    <2>5. Listed(u, w, k, flag)
        BY <2>3, <2>4 DEF Listed
    <2> QED
        BY <2>5 DEF u
<1> QED
    BY <1>2, <1>3

\* So the loop lists counted positions.
LEMMA CollectedAreListed ==
    ASSUME NEW w, NEW n \in Nat, Len(w) = n, NEW flag, NEW f \in [0..n -> Seq(Nat)],
           Collects(f, w, flag)
    PROVE  \A k \in 0..n : Listed(f[k], w, k, flag)
<1> DEFINE Bad == {k \in 0..n : ~Listed(f[k], w, k, flag)}
<1> SUFFICES ASSUME Bad # {} PROVE FALSE
    OBVIOUS
<1>1. PICK k \in Bad : \A i \in Bad : k <= i
    <2>1. Bad \in SUBSET Nat
        OBVIOUS
    <2> HIDE DEF Bad
    <2> QED
        BY <2>1, LeastNumber, Zenon
<1>2. k # 0
    <2>1. Listed(f[0], w, 0, flag)
        BY DEF Collects, Listed
    <2> QED
        BY <2>1
<1>3. k \in 1..n /\ k - 1 \in 0..n /\ k - 1 \notin Bad /\ k \in Nat \ {0}
    BY <1>1, <1>2
<1>4. Listed(f[k - 1], w, k - 1, flag) /\ f[k - 1] \in Seq(Nat)
    BY <1>3
<1>5. f[k] = IF IsCounted(w[k], flag) THEN Append(f[k - 1], k) ELSE f[k - 1]
    BY <1>3 DEF Collects
<1>6. ~Listed(f[k], w, k, flag)
    OBVIOUS
<1> HIDE DEF Bad
<1>7. Listed(f[k - 1], w, k, flag)
    BY <1>3, <1>4, ListedGrows
<1>8. IsCounted(w[k], flag) => Listed(Append(f[k - 1], k), w, k, flag)
    BY <1>3, <1>4, ListedGrows
<1> QED
    BY <1>5, <1>6, <1>7, <1>8

\* Leaving the limiters out leaves at least as many positions less two.
LEMMA CollectedWithLimiters ==
    ASSUME NEW w, NEW n \in Nat, Len(w) = n, n >= 2,
           w[1].visible, IsSpecialWChar(w[1]), w[n].visible, IsSpecialWChar(w[n]),
           NEW f \in [0..n -> Seq(Nat)], Collects(f, w, FALSE),
           NEW g \in [0..n -> Seq(Nat)], Collects(g, w, TRUE)
    PROVE  Len(g[n]) + 2 <= Len(f[n])
<1> DEFINE x == [k \in 0..n |-> Len(f[k])]
           y == [k \in 0..n |-> Len(g[k])]
           In(k) == IsCounted(w[k], FALSE)
           Out(k) == ~IsCounted(w[k], TRUE)
<1>1. x \in [0..n -> Nat] /\ y \in [0..n -> Nat]
    BY LenProperties
<1>2. ASSUME NEW k \in 1..n, NEW j \in 0..n, k = j + 1
      PROVE  /\ In(k) => x[k] = x[j] + 1
             /\ ~In(k) => x[k] = x[j]
             /\ ~Out(k) => y[k] = y[j] + 1
             /\ Out(k) => y[k] = y[j]
    <2>1. f[j] \in Seq(Nat) /\ g[j] \in Seq(Nat) /\ k \in Nat /\ k - 1 = j /\ k \in 0..n
        BY <1>2
    <2>2. /\ f[k] = IF IsCounted(w[k], FALSE) THEN Append(f[j], k) ELSE f[j]
          /\ g[k] = IF IsCounted(w[k], TRUE) THEN Append(g[j], k) ELSE g[j]
        BY <2>1 DEF Collects
    <2>3. \A v \in Seq(Nat) : Len(Append(v, k)) = Len(v) + 1
        BY <2>1, AppendProperties
    <2> QED
        BY <2>1, <2>2, <2>3
<1>3. \A k \in 1..n : ~Out(k) => In(k)
    BY DEF IsCounted
<1>4. In(1) /\ Out(1) /\ In(n) /\ Out(n)
    BY DEF IsCounted
<1>5. x[0] = 0 /\ y[0] = 0
    BY DEF Collects
<1>6. Len(f[n]) = x[n] /\ Len(g[n]) = y[n]
    OBVIOUS
<1> HIDE DEF x, y, In, Out
<1> DEFINE Bad == {k \in 1..(n - 1) : ~(y[k] + 1 <= x[k])}
<1>7. Bad = {}
    <2> SUFFICES ASSUME Bad # {} PROVE FALSE
        OBVIOUS
    <2>1. PICK k \in Bad : \A i \in Bad : k <= i
        <3>1. Bad \in SUBSET Nat
            OBVIOUS
        <3> HIDE DEF Bad
        <3> QED
            BY <3>1, LeastNumber, Zenon
    <2>2. x[1] = 1 /\ y[1] = 0
        <3>1. 1 \in 1..n /\ 0 \in 0..n /\ 1 = 0 + 1
            OBVIOUS
        <3>2. x[1] = x[0] + 1 /\ y[1] = y[0]
            BY <1>2, <1>4, <3>1
        <3> QED
            BY <1>5, <3>2
    <2>3. k # 1
        BY <2>2
    <2>4. k \in 1..(n - 1) /\ ~(y[k] + 1 <= x[k])
        OBVIOUS
    <2>5. PICK j \in 1..(n - 1) : k = j + 1
        <3>1. k - 1 \in 1..(n - 1) /\ k = (k - 1) + 1
            BY <2>3, <2>4
        <3> QED
            BY <3>1
    <2>6. j \notin Bad
        BY <2>1, <2>5
    <2>7. y[j] + 1 <= x[j]
        BY <2>6
    <2> HIDE DEF Bad
    <2>8. j \in 0..n /\ k \in 0..n /\ k \in 1..n
        BY <2>4, <2>5
    <2>9. /\ x[k] \in Nat /\ y[k] \in Nat /\ x[j] \in Nat /\ y[j] \in Nat
        BY <1>1, <2>8
    <2>10. /\ In(k) => x[k] = x[j] + 1
           /\ ~In(k) => x[k] = x[j]
           /\ ~Out(k) => y[k] = y[j] + 1
           /\ Out(k) => y[k] = y[j]
           /\ ~Out(k) => In(k)
        BY <1>2, <1>3, <2>5, <2>8
    <2>11. \A a, b, c, d \in Nat : b + 1 <= a /\ c = a + 1 /\ (d = b \/ d = b + 1) => d + 1 <= c
        OBVIOUS
    <2>12. \A a, b, c, d \in Nat : b + 1 <= a /\ c = a /\ d = b => d + 1 <= c
        OBVIOUS
    <2>13. x[k] = x[j] + 1 \/ (x[k] = x[j] /\ y[k] = y[j])
        BY <2>10, Zenon
    <2>14. y[k] = y[j] \/ y[k] = y[j] + 1
        BY <2>10, Zenon
    <2> QED
        BY <2>4, <2>7, <2>9, <2>11, <2>12, <2>13, <2>14, Zenon
<1>8. PICK j \in 1..(n - 1) : n = j + 1
    <2>1. n - 1 \in 1..(n - 1) /\ n = (n - 1) + 1
        OBVIOUS
    <2> QED
        BY <2>1
<1>9. y[j] + 1 <= x[j]
    BY <1>7
<1> HIDE DEF Bad
<1>10. n \in 1..n /\ j \in 0..n /\ n \in 0..n
    BY <1>8
<1>11. x[n] = x[j] + 1 /\ y[n] = y[j]
    BY <1>2, <1>4, <1>8, <1>10
<1>12. /\ x[n] \in Nat /\ y[n] \in Nat /\ x[j] \in Nat /\ y[j] \in Nat
    BY <1>1, <1>10
<1>13. \A a, b, c, d \in Nat : b + 1 <= a /\ c = a + 1 /\ d = b => d + 2 <= c
    OBVIOUS
<1>14. y[n] + 2 <= x[n]
    BY <1>9, <1>11, <1>12, <1>13, Zenon
<1> QED
    BY <1>6, <1>14

\* The minimum of two numbers.
LEMMA MinOfTwo ==
    ASSUME NEW i \in Nat, NEW j \in Nat
    PROVE  /\ i <= j => Min({i, j}) = i
           /\ j <= i => Min({i, j}) = j
<1> DEFINE S == {i, j}
<1>1. Min(S) = CHOOSE k \in S : \A l \in S : k <= l
    BY DEF Min
<1>2. \E k \in S : \A l \in S : k <= l
    BY DEF S
<1>3. Min(S) \in S /\ \A l \in S : Min(S) <= l
    BY <1>1, <1>2, Zenon
<1> HIDE DEF S
<1>4. S = {i, j}
    BY DEF S
<1> QED
    BY <1>3, <1>4

\* Where an edit of the text may aim.
Aims(w) == 0..Len(VisiblePositions(w, TRUE))

\* An insertion at pos finds both its neighbours.
HasNeighbours(w, pos) ==
    \E p \in 1..Len(w), n \in 1..Len(w) :
        /\ p < n
        /\ GetIthVisibleValue(w, pos, FALSE) = p
        /\ GetIthVisibleValue(w, pos + 1, FALSE) = n

\* A deletion at pos finds no character, or one between the limiters.
FindsChar(w, pos) ==
    \/ GetIthVisibleValue(w, pos, TRUE) = 0
    \/ GetIthVisibleValue(w, pos, TRUE) \in 2..(Len(w) - 1)

\* Positions of an edit find characters of the string.
LEMMA EditPositions ==
    ASSUME NEW s \in Sites, NEW D, NEW rank, NEW w, IsString(w, s, D, rank)
    PROVE  /\ \A pos \in Aims(w) : HasNeighbours(w, pos)
           /\ \A pos \in Int : FindsChar(w, pos)
<1> DEFINE n == Len(w)
           V == VisiblePositions(w, FALSE)
           T == VisiblePositions(w, TRUE)
<1>1. n \in Nat /\ n >= 2
    BY DEF IsString
<1>2. /\ w[1].visible /\ IsSpecialWChar(w[1]) /\ w[n].visible /\ IsSpecialWChar(w[n])
    BY DEF IsString, GetNewSpecialStartWChar, GetNewSpecialEndWChar, IsSpecialWChar
<1>3. PICK f \in [0..n -> Seq(Nat)] : Collects(f, w, FALSE) /\ V = f[n]
    BY <1>1, VisiblePositionsCollects
<1>4. PICK g \in [0..n -> Seq(Nat)] : Collects(g, w, TRUE) /\ T = g[n]
    BY <1>1, VisiblePositionsCollects
<1>5. n \in 0..n
    BY <1>1
<1>6. Listed(V, w, n, FALSE) /\ Listed(T, w, n, TRUE)
    <2>1. Listed(f[n], w, n, FALSE)
        BY <1>1, <1>3, <1>5, CollectedAreListed
    <2>2. Listed(g[n], w, n, TRUE)
        BY <1>1, <1>4, <1>5, CollectedAreListed
    <2> QED
        BY <1>3, <1>4, <2>1, <2>2
<1>7. Len(T) + 2 <= Len(V)
    <2>1. Len(g[n]) + 2 <= Len(f[n])
        BY <1>1, <1>2, <1>3, <1>4, CollectedWithLimiters
    <2> QED
        BY <1>3, <1>4, <2>1
<1>8. V \in Seq(Nat) /\ T \in Seq(Nat) /\ Len(V) \in Nat /\ Len(T) \in Nat
    <2>1. f[n] \in Seq(Nat) /\ g[n] \in Seq(Nat)
        BY <1>5
    <2>2. V \in Seq(Nat) /\ T \in Seq(Nat)
        BY <1>3, <1>4, <2>1
    <2> HIDE DEF V, T
    <2> QED
        BY <2>2, LenProperties
<1> HIDE DEF V, T, n
<1>9. ASSUME NEW pos \in 0..Len(T)
      PROVE  \E p \in 1..n, m \in 1..n :
                /\ p < m
                /\ GetIthVisibleValue(w, pos, FALSE) = p
                /\ GetIthVisibleValue(w, pos + 1, FALSE) = m
    <2> DEFINE i == pos + 1
               j == pos + 2
    <2>1. /\ i \in 1..Len(V) /\ j \in 1..Len(V) /\ i < j /\ ~(pos < 0) /\ ~(pos + 1 < 0)
          /\ i \in Nat /\ j \in Nat /\ i <= Len(V) /\ j <= Len(V)
          /\ pos + 1 + 1 = j
        BY <1>7, <1>8
    <2>2. V # <<>>
        BY <1>8, <2>1
    <2>3. Min({Len(V), i}) = i /\ Min({Len(V), j}) = j
        BY <1>8, <2>1, MinOfTwo
    <2>4. GetIthVisibleValue(w, pos, FALSE) = V[i]
        BY <2>1, <2>2, <2>3 DEF GetIthVisibleValue, V
    <2>5. GetIthVisibleValue(w, pos + 1, FALSE) = V[j]
        BY <2>1, <2>2, <2>3 DEF GetIthVisibleValue, V
    <2> HIDE DEF i, j
    <2>6. V[i] \in 1..n /\ V[j] \in 1..n /\ V[i] < V[j]
        BY <1>6, <2>1 DEF Listed
    <2> QED
        BY <2>4, <2>5, <2>6
<1>10. ASSUME NEW pos \in Int, GetIthVisibleValue(w, pos, TRUE) # 0
       PROVE  GetIthVisibleValue(w, pos, TRUE) \in 2..(n - 1)
    <2>1. ~(pos < 0) /\ T # <<>>
        BY <1>10 DEF GetIthVisibleValue, T
    <2>2. GetIthVisibleValue(w, pos, TRUE) = T[Min({Len(T), pos + 1})]
        BY <2>1 DEF GetIthVisibleValue, T
    <2>3. Min({Len(T), pos + 1}) \in 1..Len(T)
        <3>1. pos + 1 \in Nat /\ pos + 1 >= 1 /\ Len(T) \in Nat /\ Len(T) >= 1
            BY <1>8, <2>1
        <3>2. CASE Len(T) <= pos + 1
            BY <3>1, <3>2, MinOfTwo
        <3>3. CASE pos + 1 <= Len(T)
            BY <3>1, <3>3, MinOfTwo
        <3> QED
            BY <3>1, <3>2, <3>3
    <2> DEFINE k == T[Min({Len(T), pos + 1})]
    <2>4. k \in 1..n /\ IsCounted(w[k], TRUE)
        BY <1>6, <2>3 DEF Listed
    <2> HIDE DEF k
    <2>5. k # 1 /\ k # n
        BY <1>2, <2>4 DEF IsCounted
    <2>6. k \in 2..(n - 1)
        BY <1>1, <2>4, <2>5
    <2> QED
        BY <2>2, <2>6 DEF k
<1> QED
    BY <1>9, <1>10 DEF n, T, Aims, HasNeighbours, FindsChar

-----------------------------------------------------------------------------
(* What a site does with an edit.                                          *)

\* The id of the operation of an edit.
NewLid(x, s) == [siteId |-> s, clock |-> Increment(x.clock, s)]

\* The id of the operation of an edit, below the saturation of the clock.
LEMMA TickedClock ==
    ASSUME NEW s \in Sites, NEW x, Running(x, s), x.clock[s] + 1 < MaxValue
    PROVE  /\ Increment(x.clock, s) \in VectorClocks
           /\ NewLid(x, s) \in LogicalIds
           /\ GetLogicalClock(NewLid(x, s)) = x.clock[s] + 1
           /\ GetLogicalClock(NewLid(x, s)) \in 1..(MaxValue - 1)
<1>1. x.clock \in VectorClocks
    BY DEF Running, Site
<1>2. x.clock[s] \in Nat /\ x.clock[s] < MaxValue /\ MaxValue \in Nat
    BY <1>1 DEF VectorClocks
<1>3. Increment(x.clock, s) = [x.clock EXCEPT ![s] = x.clock[s] + 1]
    BY <1>2 DEF Increment
<1>4. Increment(x.clock, s) \in VectorClocks /\ Increment(x.clock, s)[s] = x.clock[s] + 1
    BY <1>1, <1>2, <1>3 DEF VectorClocks
<1> QED
    BY <1>2, <1>4 DEF NewLid, LogicalIds, GetLogicalClock

\* An insertion before the text is refused, after the tick.
LEMMA InsertionIsRefused ==
    ASSUME NEW s \in Sites, NEW x, Running(x, s), NEW op, op.pos = -1
    PROVE  GenerateIns(x, op) = Refused(With(x, Increment(x.clock, s), x.characters), op, "position")
<1>1. GetIthVisibleValue(x.characters, op.pos, FALSE) = 0
    BY DEF GetIthVisibleValue
<1>2. x \in Site /\ x.siteId = s
    BY DEF Running
<1>3. GenerateIns(x, op) = Refused([x EXCEPT !.clock = Increment(@, x.siteId)], op, "position")
    BY <1>1 DEF GenerateIns
<1> QED
    BY <1>2, <1>3 DEF With, Site

\* An insertion puts its character where the order has it.
LEMMA InsertionIsMade ==
    ASSUME NEW s \in Sites, NEW x, Running(x, s), x.clock[s] + 1 < MaxValue,
           NEW A, NEW C, NEW rank, Legal(C, rank), Legal(Chars(A), rank), Chars(A) \subseteq C,
           Reads(x.characters, s, A, rank), Deleted(A) \subseteq Names(Chars(A)),
           [siteId |-> s, clock |-> x.clock[s] + 1] \notin Names(C),
           NEW op, op.content \in Contents,
           op.pos \in Aims(x.characters)
    PROVE  \E c, new, v :
              /\ GenerateIns(x, op) =
                    Computed(With(x, Increment(x.clock, s), v),
                             WootOperation(NewLid(x, s), "Insertion", c))
              /\ c \in WChars /\ Shown(c) = c /\ c.id = [siteId |-> s, clock |-> x.clock[s] + 1]
              /\ c.previousId \in Known(Chars(A)) /\ c.nextId \in Known(Chars(A))
              /\ Legal(C \cup {c}, new) /\ Keeps(C, rank, new)
              /\ Reads(v, s, A \cup {WootOperation(NewLid(x, s), "Insertion", c)}, new)
<1> DEFINE w == x.characters
           D == Chars(A)
           lid == NewLid(x, s)
<1>1. x \in Site /\ x.siteId = s /\ x.fault = "none"
    BY DEF Running
<1>2. IsString(w, s, D, rank)
    BY DEF Reads
<1>3. PICK p \in 1..Len(w), n \in 1..Len(w) :
          /\ p < n
          /\ GetIthVisibleValue(w, op.pos, FALSE) = p
          /\ GetIthVisibleValue(w, op.pos + 1, FALSE) = n
    <2>1. HasNeighbours(x.characters, op.pos)
        BY EditPositions DEF Reads
    <2> QED
        BY <2>1 DEF HasNeighbours
<1> DEFINE c == [id         |-> WCharacterId(s, GetLogicalClock(lid)),
                 alphaValue |-> op.content,
                 visible    |-> TRUE,
                 previousId |-> w[p].id,
                 nextId     |-> w[n].id]
           made == WootOperation(lid, "Insertion", c)
           at == InsertPosition(w, c, p, n)
           v == InsertAt(w, at, c)
           y == [x EXCEPT !.clock = Increment(@, x.siteId)]
<1>4. GetLogicalClock(lid) = x.clock[s] + 1 /\ GetLogicalClock(lid) \in 1..(MaxValue - 1)
    BY TickedClock
<1>5. w[p].id \in CharIds /\ w[n].id \in CharIds /\ w[p].id \in Known(D) /\ w[n].id \in Known(D)
    <2>1. \A k \in 1..Len(w) : k = 1 \/ k = Len(w) \/ k \in 2..(Len(w) - 1)
        <3>1. \A m \in Nat : \A k \in 1..m : k = 1 \/ k = m \/ k \in 2..(m - 1)
            OBVIOUS
        <3>2. Len(w) \in Nat
            BY <1>2 DEF IsString
        <3> QED
            BY <3>1, <3>2, Zenon
    <2>2. w[1].id \in CharIds /\ w[Len(w)].id \in CharIds
          /\ IsLimiter(w[1].id) /\ IsLimiter(w[Len(w)].id)
        <3>1. w[1].id = [siteId |-> s, clock |-> 0] /\ w[Len(w)].id = [siteId |-> s, clock |-> MaxValue]
            BY <1>2, StringTypes
        <3> QED
            BY <3>1 DEF CharIds, IsLimiter
    <2>3. \A k \in 2..(Len(w) - 1) : w[k].id \in Names(D) /\ w[k].id \in CharIds
        <3>1. \A k \in 2..(Len(w) - 1) : w[k].id \in Names(D)
            BY <1>2, StringTypes
        <3>2. Names(D) \subseteq CharIds
            BY <1>2, CharTypes DEF Names, Legal
        <3> QED
            BY <3>1, <3>2
    <2> QED
        BY <2>1, <2>2, <2>3 DEF Known
<1>6. rank[w[p].id] < rank[w[n].id]
    BY <1>2, <1>3 DEF IsString
<1>7. /\ c \in WChars /\ Shown(c) = c /\ c.id = [siteId |-> s, clock |-> x.clock[s] + 1]
      /\ c.previousId = w[p].id /\ c.nextId = w[n].id
    <2>1. WCharacterId(s, GetLogicalClock(lid)) = [siteId |-> s, clock |-> x.clock[s] + 1]
        BY <1>4 DEF WCharacterId
    <2>2. WCharacterId(s, GetLogicalClock(lid)) \in CharIds
        BY <1>4 DEF WCharacterId, CharIds
    <2>3. c \in WChars
        BY <1>5, <2>2 DEF WChars, CharIds
    <2>4. Shown(c) = c
        <3>1. \A d \in WChars : d.visible = TRUE => Shown(d) = d
            BY DEF Shown, WChars
        <3>2. c.visible = TRUE
            OBVIOUS
        <3> HIDE DEF c
        <3> QED
            BY <2>3, <3>1, <3>2
    <2> QED
        BY <2>1, <2>3, <2>4
<1>8. ~IsLimiter(c.id)
    BY <1>4, <1>7 DEF IsLimiter
<1> HIDE DEF c, y, lid
<1>9. New(C, rank, c)
    <2>1. Known(D) \subseteq Known(C)
        BY DEF Known, Names
    <2> QED
        BY <1>5, <1>6, <1>7, <1>8, <2>1 DEF New
<1>10. PICK new : Legal(C \cup {c}, new) /\ Keeps(C, rank, new)
    BY <1>9, PlaceExists
<1>11. Reads(w, s, A, new)
    <2>1. IsString(w, s, D, new)
        BY <1>2, <1>10, StringKeepsOrder
    <2> QED
        BY <2>1 DEF Reads
<1>12. Legal(D, new)
    <2>1. \A d \in D : d.previousId \in Known(D) /\ d.nextId \in Known(D)
        BY DEF Legal, Placed
    <2>2. D \in SUBSET (C \cup {c})
        OBVIOUS
    <2> HIDE DEF D
    <2> QED
        BY <1>10, <2>1, <2>2, LegalPart
<1>13. /\ made.type = "Insertion" /\ made.char = c
      /\ Chars(A \cup {made}) = D \cup {c}
    <2>1. made.type = "Insertion" /\ made.char = c
        BY DEF WootOperation
    <2> HIDE DEF made
    <2> QED
        BY <2>1, CharsOfMore
<1>14. Legal(D \cup {c}, new)
    <2> DEFINE E == D \cup {c}
    <2>1. \A d \in D : d.previousId \in Known(D) /\ d.nextId \in Known(D)
        BY DEF Legal, Placed
    <2>2. Known(D) \subseteq Known(E)
        BY DEF Known, Names
    <2>3. \A d \in E : d.previousId \in Known(E) /\ d.nextId \in Known(E)
        BY <1>5, <1>7, <2>1, <2>2
    <2>4. E \in SUBSET (C \cup {c})
        OBVIOUS
    <2> HIDE DEF E
    <2>5. Legal(E, new)
        BY <1>10, <2>3, <2>4, LegalPart
    <2> QED
        BY <2>5 DEF E
<1>15. at # 0 /\ Reads(v, s, A \cup {made}, new)
    <2> HIDE DEF made, w
    <2>1. Supported(made, A)
        BY <1>5, <1>7, <1>13 DEF Supported
    <2>2. made.char.id \notin Names(Chars(A))
        BY <1>7, <1>13 DEF Names
    <2>3. Legal(Chars(A \cup {made}), new)
        BY <1>13, <1>14
    <2>4. new[w[p].id] = new[made.char.previousId] /\ new[w[n].id] = new[made.char.nextId]
        BY <1>7, <1>13
    <2>5. made.char \in WChars /\ Shown(made.char) = made.char
        BY <1>7, <1>13
    <2>6. at = InsertPosition(w, made.char, p, n) /\ v = InsertAt(w, at, made.char)
        BY <1>13
    <2> HIDE DEF at, v
    <2> QED
        BY <1>11, <1>12, <1>13, <2>1, <2>2, <2>3, <2>4, <2>5, <2>6, InsertionReads
<1>16. p # 0 /\ n # 0
    OBVIOUS
<1>17. GenerateIns(x, op) = Computed(IntegrateIns(y, c, p, n), made)
    <2>1. [siteId |-> x.siteId, clock |-> y.clock] = lid
        BY <1>1 DEF y, lid, NewLid, Site
    <2> DEFINE prevPos == GetIthVisibleValue(w, op.pos, FALSE)
               nextPos == GetIthVisibleValue(w, op.pos + 1, FALSE)
               l == [siteId |-> x.siteId, clock |-> y.clock]
               d == [id         |-> WCharacterId(x.siteId, GetLogicalClock(l)),
                     alphaValue |-> op.content,
                     visible    |-> TRUE,
                     previousId |-> w[prevPos].id,
                     nextId     |-> w[nextPos].id]
    <2>2. d = c
        BY <1>1, <1>3, <2>1 DEF c
    <2>3. prevPos = p /\ nextPos = n /\ ~(prevPos = 0 \/ nextPos = 0)
        BY <1>3, <1>16
    <2>4. GenerateIns(x, op) =
             IF prevPos = 0 \/ nextPos = 0
             THEN Refused(y, op, "position")
             ELSE Computed(IntegrateIns(y, d, prevPos, nextPos), WootOperation(l, "Insertion", d))
        BY DEF GenerateIns, y
    <2> HIDE DEF prevPos, nextPos, l, d
    <2>5. GenerateIns(x, op) = Computed(IntegrateIns(y, d, prevPos, nextPos), WootOperation(l, "Insertion", d))
        BY <2>3, <2>4
    <2> QED
        BY <2>1, <2>2, <2>3, <2>5 DEF l
<1>18. IntegrateIns(y, c, p, n) = With(x, Increment(x.clock, s), v)
    <2>1. y.characters = w
        BY <1>1 DEF y, Site
    <2>2. IntegrateIns(y, c, p, n) = [y EXCEPT !.characters = v]
        BY <1>15, <1>16, <2>1 DEF IntegrateIns
    <2> QED
        BY <1>1, <2>2 DEF With, y, Site
<1> QED
    BY <1>5, <1>7, <1>10, <1>15, <1>17, <1>18 DEF lid

\* A deletion is refused without a tick, or hides a character the string has.
LEMMA DeletionIsMade ==
    ASSUME NEW s \in Sites, NEW x, Running(x, s), x.clock[s] + 1 < MaxValue,
           NEW A, NEW rank, Legal(Chars(A), rank), Reads(x.characters, s, A, rank),
           NEW op, op.pos \in Int
    PROVE  \/ GenerateDel(x, op) = Refused(x, op, "position")
           \/ \E c, v :
                 /\ GenerateDel(x, op) =
                       Computed(With(x, Increment(x.clock, s), v),
                                WootOperation(NewLid(x, s), "Deletion", c))
                 /\ c \in WChars /\ c.id \in Names(Chars(A))
                 /\ Reads(v, s, A \cup {WootOperation(NewLid(x, s), "Deletion", c)}, rank)
<1> DEFINE w == x.characters
           D == Chars(A)
           at == GetIthVisibleValue(w, op.pos, TRUE)
           y == [x EXCEPT !.clock = Increment(@, x.siteId)]
           v == [w EXCEPT ![at].visible = FALSE]
           c == v[at]
           made == WootOperation(NewLid(x, s), "Deletion", c)
<1>1. x \in Site /\ x.siteId = s /\ x.fault = "none"
    BY DEF Running
<1>2. IsString(w, s, D, rank)
    BY DEF Reads
<1>3. at = 0 \/ at \in 2..(Len(w) - 1)
    <2>1. FindsChar(x.characters, op.pos)
        BY EditPositions DEF Reads
    <2> QED
        BY <2>1 DEF FindsChar
<1>4. at = 0 => GenerateDel(x, op) = Refused(x, op, "position")
    BY DEF GenerateDel
<1>5. ASSUME at \in 2..(Len(w) - 1)
      PROVE  /\ GenerateDel(x, op) = Computed(With(x, Increment(x.clock, s), v), made)
             /\ c \in WChars /\ c.id \in Names(D)
             /\ Reads(v, s, A \cup {made}, rank)
    <2>1. at # 0
        <3> HIDE DEF at, w
        <3>1. Len(w) \in Nat
            BY <1>2 DEF IsString
        <3> QED
            BY <1>5, <3>1
    <2>2. y.characters = w
        BY <1>1 DEF Site
    <2>3. IntegrateDel(y, at) = [y EXCEPT !.characters[at].visible = FALSE]
        BY <2>1 DEF IntegrateDel
    <2>4. IntegrateDel(y, at) = [y EXCEPT !.characters = v]
        BY <1>1, <2>2, <2>3 DEF Site
    <2>5. [y EXCEPT !.characters = v] = With(x, Increment(x.clock, s), v)
        BY <1>1 DEF With, Site
    <2>6. [y EXCEPT !.characters = v].characters = v
        BY <1>1 DEF Site
    <2>7. [siteId |-> x.siteId, clock |-> y.clock] = NewLid(x, s)
        BY <1>1 DEF NewLid, Site
    <2>8. GenerateDel(x, op) = Computed(With(x, Increment(x.clock, s), v), made)
        <3> DEFINE l == [siteId |-> x.siteId, clock |-> y.clock]
                   next == IntegrateDel(y, at)
        <3>1. GenerateDel(x, op) =
                 IF at = 0 THEN Refused(x, op, "position")
                 ELSE Computed(next, WootOperation(l, "Deletion", next.characters[at]))
            BY DEF GenerateDel
        <3>2. next = With(x, Increment(x.clock, s), v) /\ next.characters = v /\ l = NewLid(x, s)
            BY <2>4, <2>5, <2>6, <2>7
        <3> HIDE DEF next, l, at, v
        <3> QED
            BY <2>1, <3>1, <3>2
    <2>9. /\ IsString(v, s, D, rank) /\ Len(v) = Len(w)
          /\ v[at].id = w[at].id
        <3> HIDE DEF at, w, D
        <3>0. PICK u : u = [w EXCEPT ![at].visible = FALSE]
            OBVIOUS
        <3>1. IsString(u, s, D, rank)
            BY <1>2, <1>5, <3>0, HidingKeepsString
        <3>4. Len(u) = Len(w)
            BY <1>2, <1>5, <3>0, HidingKeepsString
        <3>2. \A k \in 2..(Len(w) - 1) : u[k].id = w[k].id
            BY <1>2, <1>5, <3>0, HidingKeepsString
        <3>3. u = v
            BY <3>0
        <3> HIDE DEF v
        <3> QED
            BY <1>5, <3>1, <3>2, <3>3, <3>4
    <2>10. c \in WChars /\ c.id = w[at].id /\ c.id \in Names(D)
        <3> HIDE DEF v, at, D, w
        <3>1. c \in WChars
            BY <1>5, <2>9 DEF IsString
        <3>2. w[at].id \in Names(D)
            <4>1. Legal(D, rank)
                BY DEF D
            <4>2. \A k \in 2..(Len(w) - 1) : w[k].id \in Names(D)
                BY <1>2, <4>1, StringTypes
            <4> QED
                BY <1>5, <4>2
        <3> QED
            BY <2>9, <3>1, <3>2
    <2>11. made.type = "Deletion" /\ made.char = c
        BY DEF WootOperation
    <2>12. Reads(v, s, A \cup {made}, rank)
        <3>1. Reads(w, s, A, rank)
            OBVIOUS
        <3>2. w[at].id = made.char.id
            BY <2>10, <2>11
        <3>3. \E u : u = v /\ u = [w EXCEPT ![at].visible = FALSE]
            OBVIOUS
        <3> HIDE DEF made, at, w, v
        <3> QED
            BY <1>5, <2>11, <3>1, <3>2, <3>3, DeletionReads
    <2> QED
        BY <2>8, <2>10, <2>12
<1> QED
    <2> HIDE DEF c, v, at, D, w
    <2>1. CASE at = 0
        BY <1>4, <2>1
    <2>2. CASE at \in 2..(Len(w) - 1)
        BY <1>5, <2>2 DEF D
    <2> QED
        BY <1>3, <2>1, <2>2

-----------------------------------------------------------------------------
(* The logs of the document, operations with their characters.             *)

\* The operations in the logs.
Ops == UNION {ToSet(state[s]) : s \in Sites}

\* The ids of the operations of A.
IdsIn(A) == {op.id : op \in A}

\* The operation as SortedLogs has it.
OnlyId(op) == [id |-> op.id]

\* An id stands for one operation.
IdsTell(B) == \A o, p \in B : o.id = p.id => o = p

\* What happened before stands first in the order of the logs.
CausesFirst(B) == \A o, p \in B : HappenedBefore(o.id, p.id) => Proved!CompareOperation(o, p) < 0

\* A has the causes of its operations among those of B.
Caused(A, B) == \A p \in A, o \in B : HappenedBefore(o.id, p.id) => o \in A

\* The instance has the operators of LogicalClock and of the community modules.
LEMMA SameOrder ==
    /\ Proved!VectorClocks = VectorClocks
    /\ Proved!LogicalIds = LogicalIds
    /\ \A c, d : Proved!Update(c, d) = Update(c, d)
    /\ \A c, s : Proved!Increment(c, s) = Increment(c, s)
    /\ \A o : Proved!GetLogicalClock(o) = GetLogicalClock(o)
    /\ \A o, p : /\ Proved!HappenedBefore(o, p) = HappenedBefore(o, p)
                 /\ Proved!equals(o, p) = equals(o, p)
    /\ \A w : Proved!ToSet(w) = ToSet(w)
<1>1. Proved!VectorClocks = VectorClocks
    BY DEF Proved!VectorClocks, VectorClocks
<1>2. Proved!LogicalIds = LogicalIds
    BY <1>1 DEF Proved!LogicalIds, LogicalIds
<1>3. \A c, d : Proved!Update(c, d) = Update(c, d)
    BY DEF Proved!Update, Update
<1>4. \A c, s : Proved!Increment(c, s) = Increment(c, s)
    BY DEF Proved!Increment, Increment
<1>5. \A o : Proved!GetLogicalClock(o) = GetLogicalClock(o)
    BY DEF Proved!GetLogicalClock, GetLogicalClock
<1>6. \A o, p : Proved!HappenedBefore(o, p) = HappenedBefore(o, p)
    BY Zenon DEF Proved!HappenedBefore, HappenedBefore
<1>7. \A o, p : Proved!equals(o, p) = equals(o, p)
    BY <1>5, Zenon DEF Proved!equals, equals
<1>8. \A w : Proved!ToSet(w) = ToSet(w)
    BY DEF Proved!ToSet, ToSet
<1> QED
    BY <1>1, <1>2, <1>3, <1>4, <1>5, <1>6, <1>7, <1>8

\* A sorted log is a sequence of its operations.
LEMMA LogTypes ==
    ASSUME NEW U, NEW w \in Proved!SortedOver(U)
    PROVE  /\ w \in Seq(U) /\ Len(w) \in Nat /\ DOMAIN w = 1..Len(w)
           /\ \A i \in 1..Len(w) : w[i] \in U /\ w[i] \in ToSet(w)
           /\ ToSet(w) = {w[i] : i \in 1..Len(w)}
           /\ ToSet(w) \subseteq U
<1>1. w \in Seq(U)
    BY DEF Proved!SortedOver
<1>2. Len(w) \in Nat /\ DOMAIN w = 1..Len(w) /\ \A i \in 1..Len(w) : w[i] \in U
    BY <1>1, LenProperties, ElementOfSeq
<1>3. ToSet(w) = {w[i] : i \in 1..Len(w)}
    BY <1>2 DEF ToSet
<1> QED
    BY <1>1, <1>2, <1>3

\* The log without the characters is a sorted log of ids.
LEMMA OnlyIdsTypes ==
    ASSUME NEW U, NEW w \in Seq(U)
    PROVE  /\ Len(OnlyIds(w)) = Len(w) /\ DOMAIN OnlyIds(w) = 1..Len(w)
           /\ OnlyIds(w) \in Seq({OnlyId(op) : op \in U})
           /\ \A i \in 1..Len(w) : OnlyIds(w)[i] = OnlyId(w[i])
           /\ ToSet(OnlyIds(w)) = {OnlyId(op) : op \in ToSet(w)}
           /\ Proved!Ids(OnlyIds(w)) = IdsIn(ToSet(w))
<1>1. Len(w) \in Nat /\ DOMAIN w = 1..Len(w) /\ \A i \in 1..Len(w) : w[i] \in U
    BY LenProperties, ElementOfSeq
<1> DEFINE V == {OnlyId(op) : op \in U}
           n == Len(w)
<1>2. OnlyIds(w) = [i \in 1..n |-> OnlyId(w[i])]
    BY <1>1 DEF OnlyIds, OnlyId
<1>3. \A i \in 1..n : OnlyId(w[i]) \in V
    BY <1>1
<1>4. OnlyIds(w) \in [1..n -> V]
    <2> HIDE DEF V, n
    <2> QED
        BY <1>2, <1>3
<1>5. OnlyIds(w) \in Seq(V)
    <2> HIDE DEF V
    <2> QED
        BY <1>1, <1>4, SeqDef
<1>6. Len(OnlyIds(w)) = n /\ DOMAIN OnlyIds(w) = 1..n
    <2> HIDE DEF V
    <2> QED
        BY <1>1, <1>4, <1>5, LenProperties
<1>7. \A i \in 1..n : OnlyIds(w)[i] = OnlyId(w[i])
    BY <1>2
<1>8. ToSet(OnlyIds(w)) = {OnlyId(op) : op \in ToSet(w)}
    BY <1>1, <1>6, <1>7 DEF ToSet
<1>9. Proved!Ids(OnlyIds(w)) = IdsIn(ToSet(w))
    BY <1>1, <1>6, <1>7 DEF ToSet, Proved!Ids, IdsIn, OnlyId
<1> QED
    BY <1>5, <1>6, <1>7, <1>8, <1>9

\* The comparison looks at the ids only.
LEMMA CompareIds ==
    \A o, p : Proved!CompareOperation(OnlyId(o), OnlyId(p)) = Proved!CompareOperation(o, p)
BY DEF Proved!CompareOperation, OnlyId

\* A sorted log stays sorted without the characters.
LEMMA SortedOnlyIds ==
    ASSUME NEW U, NEW w \in Proved!SortedOver(U)
    PROVE  OnlyIds(w) \in Proved!SortedOver({OnlyId(op) : op \in U})
<1>1. w \in Seq(U) /\ Proved!Sorted(w)
    BY DEF Proved!SortedOver
<1> DEFINE V == {OnlyId(op) : op \in U}
<1>2. /\ Len(OnlyIds(w)) = Len(w)
      /\ OnlyIds(w) \in Seq(V)
      /\ \A i \in 1..Len(w) : OnlyIds(w)[i] = OnlyId(w[i])
    BY <1>1, OnlyIdsTypes
<1>3. Proved!Sorted(OnlyIds(w))
    BY <1>1, <1>2, CompareIds DEF Proved!Sorted
<1> HIDE DEF V
<1>4. OnlyIds(w) \in Proved!SortedOver(V)
    BY <1>2, <1>3 DEF Proved!SortedOver
<1> QED
    BY <1>4 DEF V

\* The order of ids is one of operations.
LEMMA OrderOfIds ==
    ASSUME NEW U, IdsTell(U)
    PROVE  Proved!StrictOrder({OnlyId(op) : op \in U}) <=> Proved!StrictOrder(U)
<1>1. \A o, p \in U : OnlyId(o) = OnlyId(p) <=> o = p
    BY DEF IdsTell, OnlyId
<1>2. \A o, p \in U : Proved!CompareOperation(OnlyId(o), OnlyId(p)) = Proved!CompareOperation(o, p)
    BY CompareIds
<1>3. Proved!StrictOrder({OnlyId(op) : op \in U}) => Proved!StrictOrder(U)
    BY <1>1, <1>2 DEF Proved!StrictOrder
<1>4. Proved!StrictOrder(U) => Proved!StrictOrder({OnlyId(op) : op \in U})
    BY <1>1, <1>2 DEF Proved!StrictOrder
<1> QED
    BY <1>3, <1>4

\* The logs are sorted slices of the operations there are.
LogsTyped ==
    /\ state \in [Sites -> Proved!SortedOver(Ops)]
    /\ pushed \subseteq Proved!SortedOver(Ops)
    /\ IdsTell(Ops)

\* The ids in the logs are those of the operations.
LEMMA IdsOfOps ==
    ASSUME LogsTyped
    PROVE  Proved!AllIds = IdsIn(Ops)
<1>1. \A s \in Sites : state[s] \in Seq(Ops)
    BY LogTypes DEF LogsTyped
<1>2. \A s \in Sites : Proved!Ids(OnlyIds(state[s])) = IdsIn(ToSet(state[s]))
    BY <1>1, OnlyIdsTypes
<1>3. Proved!AllIds = UNION {Proved!Ids(OnlyIds(state[s])) : s \in Sites}
    BY DEF Proved!AllIds
<1>4. Proved!AllIds = UNION {IdsIn(ToSet(state[s])) : s \in Sites}
    BY <1>2, <1>3
<1> QED
    BY <1>4 DEF IdsIn, Ops

\* What the proofs about the logs say of their operations.
LEMMA OpsOrder ==
    ASSUME Proved!LogsInv, NEW a, NEW b, Sites = {a, b}, LogsTyped
    PROVE  /\ Proved!StrictOrder(Ops)
           /\ CausesFirst(Ops)
           /\ \A o, p \in Ops : equals(o.id, p.id) => o = p
           /\ \A o \in Ops : o.id \in LogicalIds
<1>1. /\ Proved!StrictOrder(Proved!Made)
      /\ Proved!AllIds \subseteq Proved!LogicalIds
      /\ \A o, p \in Proved!AllIds : Proved!equals(o, p) => o = p
      /\ \A o, p \in Proved!Made : Proved!HappenedBefore(o.id, p.id) => Proved!CompareOperation(o, p) < 0
    BY BoundOfPushes, Proved!LogsOrder
<1>2. \A o \in Ops : o.id \in Proved!AllIds
    BY IdsOfOps DEF IdsIn
<1>3. \A o \in Ops : o.id \in LogicalIds
    BY <1>1, <1>2, SameOrder
<1>4. \A o \in Ops : OnlyId(o) \in Proved!Made /\ OnlyId(o).id = o.id
    BY <1>1, <1>2 DEF Proved!Made, OnlyId
<1>5. \A o, p \in Ops : equals(o.id, p.id) => o = p
    <2>1. \A o, p \in Ops : equals(o.id, p.id) => o.id = p.id
        BY <1>1, <1>2, SameOrder
    <2> QED
        BY <2>1 DEF LogsTyped, IdsTell
<1>6. CausesFirst(Ops)
    <2> SUFFICES ASSUME NEW o \in Ops, NEW p \in Ops, HappenedBefore(o.id, p.id)
                 PROVE  Proved!CompareOperation(o, p) < 0
        BY DEF CausesFirst
    <2>1. Proved!HappenedBefore(OnlyId(o).id, OnlyId(p).id)
        BY <1>4, SameOrder
    <2>2. Proved!CompareOperation(OnlyId(o), OnlyId(p)) < 0
        BY <1>1, <1>4, <2>1
    <2> QED
        BY <2>2, CompareIds
<1>7. Proved!StrictOrder(Ops)
    <2>1. Proved!StrictOrder({OnlyId(o) : o \in Ops})
        <3>1. {OnlyId(o) : o \in Ops} \subseteq Proved!Made
            BY <1>4
        <3> QED
            BY <1>1, <3>1, BoundOfPushes, Proved!OrderOfPart
    <2> QED
        BY <2>1, OrderOfIds DEF LogsTyped
<1> QED
    BY <1>3, <1>5, <1>6, <1>7

\* The logs that circulate have causes, and each site its own operations.
LEMMA OpsClose ==
    ASSUME Proved!LogsInv, LogsTyped
    PROVE  /\ \A w \in {state[s] : s \in Sites} \cup pushed : Caused(ToSet(w), Ops)
           /\ \A o \in Ops : o.id.siteId \in Sites =>
                 /\ o \in ToSet(state[o.id.siteId])
                 /\ 1 <= GetLogicalClock(o.id)
                 /\ GetLogicalClock(o.id) <= site[o.id.siteId].clock[o.id.siteId]
<1>1. /\ \A w \in Proved!Sent : \A p \in Proved!Ids(w) : \A o \in Proved!AllIds :
              p \in Proved!AllIds /\ (Proved!HappenedBefore(o, p) => o \in Proved!Ids(w))
      /\ \A o \in Proved!AllIds :
              /\ o \in Proved!Ids([s \in Sites |-> OnlyIds(state[s])][o.siteId])
              /\ 1 <= Proved!GetLogicalClock(o)
              /\ Proved!GetLogicalClock(o) <= [s \in Sites |-> site[s].clock][o.siteId][o.siteId]
    BY BoundOfPushes, Proved!LogsClose
<1>2. \A o \in Ops : o.id \in Proved!AllIds
    BY IdsOfOps DEF IdsIn
<1>3. ASSUME NEW w \in {state[s] : s \in Sites} \cup pushed, NEW p \in ToSet(w), NEW o \in Ops,
             HappenedBefore(o.id, p.id)
      PROVE  o \in ToSet(w)
    <2>1. w \in Seq(Ops) /\ ToSet(w) \subseteq Ops
        BY LogTypes DEF LogsTyped
    <2>2. Proved!Ids(OnlyIds(w)) = IdsIn(ToSet(w))
        BY <2>1, OnlyIdsTypes
    <2>3. OnlyIds(w) \in Proved!Sent
        BY DEF Proved!Sent
    <2>4. p.id \in Proved!Ids(OnlyIds(w))
        BY <2>2 DEF IdsIn
    <2>5. Proved!HappenedBefore(o.id, p.id)
        BY <1>3, SameOrder
    <2>6. o.id \in Proved!Ids(OnlyIds(w))
        BY <1>1, <1>2, <2>3, <2>4, <2>5
    <2>7. PICK q \in ToSet(w) : q.id = o.id
        BY <2>2, <2>6 DEF IdsIn
    <2> QED
        BY <2>1, <2>7 DEF LogsTyped, IdsTell
<1>4. ASSUME NEW o \in Ops, o.id.siteId \in Sites
      PROVE  /\ o \in ToSet(state[o.id.siteId])
             /\ 1 <= GetLogicalClock(o.id)
             /\ GetLogicalClock(o.id) <= site[o.id.siteId].clock[o.id.siteId]
    <2> DEFINE t == o.id.siteId
    <2>1. o.id \in Proved!Ids(OnlyIds(state[t]))
        BY <1>1, <1>2, <1>4
    <2>2. 1 <= GetLogicalClock(o.id) /\ GetLogicalClock(o.id) <= site[t].clock[t]
        BY <1>1, <1>2, <1>4, SameOrder
    <2>3. state[t] \in Proved!SortedOver(Ops)
        BY <1>4 DEF LogsTyped
    <2>4. state[t] \in Seq(Ops) /\ ToSet(state[t]) \subseteq Ops
        BY <2>3, LogTypes
    <2>5. PICK q \in ToSet(state[t]) : q.id = o.id
        <3> HIDE DEF t
        <3>1. Proved!Ids(OnlyIds(state[t])) = IdsIn(ToSet(state[t]))
            BY <2>4, OnlyIdsTypes
        <3> QED
            BY <2>1, <3>1 DEF IdsIn, t
    <2> QED
        BY <2>2, <2>4, <2>5 DEF LogsTyped, IdsTell
<1> QED
    BY <1>3, <1>4 DEF Caused

\* The operation an edit makes is new, and above all its site has.
LEMMA NewOpIsAbove ==
    ASSUME Proved!LogsInv, LogsTyped, NEW s \in Sites, site[s].siteId = s,
           site[s].clock[s] < MaxValue, NEW op, op.id = NewLid(site[s], s)
    PROVE  /\ op.id \in LogicalIds
           /\ op.id \notin IdsIn(Ops)
           /\ \A o \in ToSet(state[s]) : HappenedBefore(o.id, op.id)
           /\ Proved!IsAfter(op, ToSet(state[s]))
           /\ Proved!CompareOperation(op, op) = 0
<1> DEFINE made == Proved!NewOperation(s)
<1>1. made = OnlyId(op)
    BY SameOrder DEF Proved!NewOperation, OnlyId, NewLid
<1>2. Proved!CanTick(s)
    BY DEF Proved!CanTick
<1>3. /\ made.id \in Proved!LogicalIds
      /\ made.id \notin Proved!AllIds
      /\ \A o \in Proved!Ids([t \in Sites |-> OnlyIds(state[t])][s]) : Proved!HappenedBefore(o, made.id)
      /\ Proved!IsAfter(made, Proved!ToSet([t \in Sites |-> OnlyIds(state[t])][s]))
      /\ Proved!CompareOperation(made, made) = 0
    BY <1>2, BoundOfPushes, Proved!NewIdIsAbove
<1> HIDE DEF made
<1>4. made.id = op.id
    BY <1>1 DEF OnlyId
<1>5. state[s] \in Seq(Ops)
    BY LogTypes DEF LogsTyped
<1>6. /\ Proved!Ids(OnlyIds(state[s])) = IdsIn(ToSet(state[s]))
      /\ Proved!ToSet(OnlyIds(state[s])) = {OnlyId(o) : o \in ToSet(state[s])}
    BY <1>5, OnlyIdsTypes, SameOrder
<1>7. \A o \in ToSet(state[s]) : HappenedBefore(o.id, op.id)
    BY <1>3, <1>4, <1>6, SameOrder DEF IdsIn
<1>8. Proved!IsAfter(op, ToSet(state[s]))
    BY <1>1, <1>3, <1>6, CompareIds DEF Proved!IsAfter
<1>9. Proved!CompareOperation(op, op) = 0
    BY <1>1, <1>3, CompareIds
<1> QED
    BY <1>3, <1>4, <1>7, <1>8, <1>9, IdsOfOps, SameOrder

-----------------------------------------------------------------------------
(* Searching, inserting and merging operations with their characters.      *)

\* The functions of CvRDTState that the instance has too.
LEMMA SameSearch ==
    /\ \A o, p : Proved!CompareOperation(o, p) = CompareOperation(o, p)
    /\ \A w, o : Proved!binarySearch(w, o) = binarySearch(w, o)
    /\ \A w, o : Proved!contains(w, o) = contains(w, o)
    /\ \A w, o : Proved!insert(w, o) = insert(w, o)
    /\ \A w, v : Proved!Merge(w, v) = Merge(w, v)
    /\ Proved!EmptyState = EmptyState
<1>1. \A o, p : Proved!less(o, p) = less(o, p)
    BY SameOrder, Zenon DEF Proved!less, less
<1>2. \A o, p : Proved!Compare(o, p) = Compare(o, p)
    BY <1>1, SameOrder, Zenon DEF Proved!Compare, Compare
<1>3. \A o, p : Proved!CompareOperation(o, p) = CompareOperation(o, p)
    BY <1>2, Zenon DEF Proved!CompareOperation, CompareOperation
<1>4. \A w, o : Proved!binarySearch(w, o) = binarySearch(w, o)
    BY DEF Proved!binarySearch, binarySearch, Proved!CompareOperation, CompareOperation,
           Proved!Compare, Compare, Proved!equals, equals, Proved!less, less,
           Proved!HappenedBefore, HappenedBefore, Proved!GetLogicalClock, GetLogicalClock
<1>5. \A w, o : Proved!contains(w, o) = contains(w, o)
    BY <1>4 DEF Proved!contains, contains
<1>6. \A w, i, o : Proved!InsertAt(w, i, o) = InsertAt(w, i, o)
    BY DEF Proved!InsertAt, InsertAt
<1>7. \A w, o : Proved!insert(w, o) = insert(w, o)
    BY <1>4, <1>6 DEF Proved!insert, insert
<1>8. \A w, v : Proved!Merge(w, v) = Merge(w, v)
    BY <1>5, <1>7, ZenonT(60) DEF Proved!Merge, Merge
<1>9. Proved!EmptyState = EmptyState
    BY DEF Proved!EmptyState, EmptyState
<1> QED
    BY <1>3, <1>4, <1>5, <1>7, <1>8, <1>9

\* contains is exact, insert and Merge add operations to sorted logs.
LEMMA LogOperators ==
    ASSUME NEW U, Proved!StrictOrder(U), NEW w \in Proved!SortedOver(U)
    PROVE  /\ EmptyState \in Proved!SortedOver(U) /\ ToSet(EmptyState) = {}
           /\ \A op \in U : contains(w, op) <=> op \in ToSet(w)
           /\ \A op \in U : /\ insert(w, op) \in Proved!SortedOver(U)
                            /\ ToSet(insert(w, op)) = ToSet(w) \cup {op}
           /\ \A v \in Proved!SortedOver(U) :
                 /\ Merge(w, v) \in Proved!SortedOver(U)
                 /\ ToSet(Merge(w, v)) = ToSet(w) \cup ToSet(v)
<1>1. Proved!EmptyState \in Proved!SortedOver(U) /\ Proved!ToSet(Proved!EmptyState) = {}
    BY BoundOfPushes, Proved!EmptyStateIsSorted
<1>2. \A op \in U : Proved!contains(w, op) <=> op \in Proved!ToSet(w)
    BY BoundOfPushes, Proved!ContainsIsExact
<1>3. \A op \in U : /\ Proved!insert(w, op) \in Proved!SortedOver(U)
                    /\ Proved!ToSet(Proved!insert(w, op)) = Proved!ToSet(w) \cup {op}
    BY BoundOfPushes, Proved!InsertKeepsSorted
<1>4. \A v \in Proved!SortedOver(U) :
          /\ Proved!Merge(w, v) \in Proved!SortedOver(U)
          /\ Proved!ToSet(Proved!Merge(w, v)) = Proved!ToSet(w) \cup Proved!ToSet(v)
    BY BoundOfPushes, Proved!MergeIsUnion
<1>5. /\ Proved!EmptyState = EmptyState
      /\ \A o : Proved!contains(w, o) = contains(w, o)
      /\ \A o : Proved!insert(w, o) = insert(w, o)
      /\ \A v : Proved!Merge(w, v) = Merge(w, v)
      /\ \A v : Proved!ToSet(v) = ToSet(v)
    BY SameSearch, SameOrder
<1>6. EmptyState \in Proved!SortedOver(U) /\ ToSet(EmptyState) = {}
    BY <1>1, <1>5
<1>7. \A op \in U : contains(w, op) <=> op \in ToSet(w)
    BY <1>2, <1>5
<1>8. \A op \in U : /\ insert(w, op) \in Proved!SortedOver(U)
                    /\ ToSet(insert(w, op)) = ToSet(w) \cup {op}
    BY <1>3, <1>5
<1>9. \A v \in Proved!SortedOver(U) :
          /\ Merge(w, v) \in Proved!SortedOver(U)
          /\ ToSet(Merge(w, v)) = ToSet(w) \cup ToSet(v)
    BY <1>4, <1>5
<1> QED
    BY <1>6, <1>7, <1>8, <1>9

\* A sorted log of ids is determined by its set, whatever ordered set it is over.
LEMMA LogOfIdsIsUnique ==
    ASSUME NEW U, IdsTell(U), Proved!StrictOrder(U), NEW w \in Proved!SortedOver(U),
           NEW V, NEW v \in Proved!SortedOver(V),
           ToSet(v) = {OnlyId(op) : op \in ToSet(w)}
    PROVE  OnlyIds(w) = v
<1> DEFINE X == {OnlyId(op) : op \in U}
<1>1. Proved!StrictOrder(X)
    BY OrderOfIds
<1>2. w \in Seq(U) /\ ToSet(w) \subseteq U
    BY LogTypes
<1>3. OnlyIds(w) \in Proved!SortedOver(X) /\ ToSet(OnlyIds(w)) = ToSet(v)
    BY <1>2, SortedOnlyIds, OnlyIdsTypes
<1>4. ToSet(v) \subseteq X
    BY <1>2
<1> HIDE DEF X
<1>5. v \in Proved!SortedOver(X)
    BY <1>4, SameOrder, BoundOfPushes, Proved!SortedOverOwn
<1>6. Proved!ToSet(OnlyIds(w)) = Proved!ToSet(v)
    BY <1>3, SameOrder
<1> QED
    BY <1>1, <1>3, <1>5, <1>6, BoundOfPushes, Proved!SortedLogIsUnique

\* new has the operations of ops at the positions in K.
Takes(new, ops, K) == ToSet(new) = {ops[k] : k \in K}

\* The log of what an update computed: newState takes the operations at the
\* positions in K.
LEMMA NewStateCollects ==
    ASSUME NEW U, Proved!StrictOrder(U), NEW ops \in Seq(U), NEW n \in Nat, Len(ops) = n,
           NEW K, K \subseteq 1..n, NEW results, Len(results) = n,
           \A k \in 1..n : /\ results[k].err \in {"none", "pending"} <=> k \in K
                           /\ k \in K => results[k].op = ops[k]
    PROVE  /\ NewState(results) \in Proved!SortedOver(U)
           /\ Takes(NewState(results), ops, K)
<1> DEFINE IsNew(f) ==
               f = [k \in 0..n |->
                       IF k = 0 THEN EmptyState
                       ELSE IF results[k].err \in {"none", "pending"} THEN insert(f[k - 1], results[k].op)
                       ELSE f[k - 1]]
           new == CHOOSE f : IsNew(f)
<1>2. NewState(results) = new[n]
    BY DEF NewState
<1>3. EmptyState \in Proved!SortedOver(U) /\ ToSet(EmptyState) = {} /\ Proved!EmptyState = EmptyState
    <2>1. Proved!EmptyState \in Proved!SortedOver(U) /\ Proved!ToSet(Proved!EmptyState) = {}
        BY BoundOfPushes, Proved!EmptyStateIsSorted
    <2>2. Proved!EmptyState = EmptyState
        BY SameSearch
    <2> QED
        BY <2>1, <2>2, SameOrder
<1>4. \E f : IsNew(f)
    <2>1. PICK f : f \in [0..n -> Proved!SortedOver(U)] /\ Proved!Inserts(f, EmptyState, ops, K)
        BY <1>3, BoundOfPushes, Proved!InsertsExists
    <2>2. f[0] = EmptyState
          /\ \A k \in 1..n : f[k] = IF k \in K THEN insert(f[k - 1], ops[k]) ELSE f[k - 1]
        BY <2>1, SameSearch DEF Proved!Inserts
    <2>3. ASSUME NEW k \in 0..n
          PROVE  f[k] = IF k = 0 THEN EmptyState
                        ELSE IF results[k].err \in {"none", "pending"} THEN insert(f[k - 1], results[k].op)
                        ELSE f[k - 1]
        <3>1. CASE k = 0
            BY <2>2, <3>1
        <3>2. CASE k # 0
            <4>1. k \in 1..n
                BY <3>2
            <4> QED
                BY <2>2, <3>2, <4>1
        <3> QED
            BY <3>1, <3>2
    <2>4. IsNew(f)
        BY <2>1, <2>3
    <2> QED
        BY <2>4
<1>5. IsNew(new)
    BY <1>4
<1> HIDE DEF new
<1>6. Proved!Inserts(new, EmptyState, ops, K)
    <2>1. new[0] = EmptyState
        BY <1>5
    <2>2. ASSUME NEW k \in 1..n
          PROVE  new[k] = IF k \in K THEN insert(new[k - 1], ops[k]) ELSE new[k - 1]
        <3>1. k \in 0..n /\ k # 0
            OBVIOUS
        <3> QED
            BY <1>5, <3>1
    <2> QED
        BY <2>1, <2>2, SameSearch DEF Proved!Inserts
<1>7. new[n] \in Proved!SortedOver(U) /\ Proved!Adds(new[n], EmptyState, Proved!At(ops, K))
    <2>1. K \subseteq 1..Len(ops)
        OBVIOUS
    <2> QED
        BY <1>3, <1>6, <2>1, BoundOfPushes, Proved!InsertsAdds, Zenon
<1>8. Takes(new[n], ops, K)
    BY <1>3, <1>7, SameOrder DEF Proved!Adds, Proved!At, Takes
<1> QED
    BY <1>2, <1>7, <1>8

-----------------------------------------------------------------------------
(* The loop of UpdateState.                                                *)

\* What the loop does with an operation, after the result before.
NextResult(s, before, op) ==
    IF before.err = "position" \/ before.site.fault # "none" THEN before
    ELSE IF contains(state[s], op) THEN [before EXCEPT !.err = "contained"]
    ELSE ComputeOp(before.site, op)

\* f goes through the first n operations.
IsRun(f, s, ops, n) ==
    f = [k \in 0..n |-> IF k = 0 THEN [site |-> site[s], err |-> "contained"]
                        ELSE NextResult(s, f[k - 1], ops[k])]

\* The loop ends, whatever the operations do.
LEMMA RunExists ==
    ASSUME NEW s, NEW ops, NEW n \in Nat
    PROVE  \E f : IsRun(f, s, ops, n)
<1> DEFINE Bad == {m \in Nat : ~\E f : IsRun(f, s, ops, m)}
<1>1. Bad \in SUBSET Nat
    OBVIOUS
<1>2. ASSUME NEW m \in Bad, \A k \in Bad : m <= k
      PROVE  FALSE
    <2>1. m # 0
        <3> DEFINE f == [k \in 0..0 |-> [site |-> site[s], err |-> "contained"]]
        <3>1. IsRun(f, s, ops, 0)
            BY DEF IsRun
        <3> QED
            BY <3>1
    <2>2. m \in Nat /\ m - 1 \in Nat /\ m - 1 \notin Bad
        BY <1>2, <2>1
    <2>3. PICK f : IsRun(f, s, ops, m - 1)
        BY <2>2
    <2> DEFINE g == [k \in 0..m |-> IF k = m THEN NextResult(s, f[m - 1], ops[m]) ELSE f[k]]
    <2>4. IsRun(g, s, ops, m)
        <3>1. ASSUME NEW k \in 0..m
              PROVE  g[k] = IF k = 0 THEN [site |-> site[s], err |-> "contained"]
                            ELSE NextResult(s, g[k - 1], ops[k])
            <4>1. CASE k = m
                <5>1. k - 1 \in 0..m /\ k - 1 # m
                    BY <2>1, <2>2, <4>1
                <5> QED
                    BY <2>1, <4>1, <5>1
            <4>2. CASE k # m /\ k # 0
                <5>1. k - 1 \in 0..m /\ k - 1 # m /\ k \in 0..(m - 1)
                    BY <2>2, <4>2
                <5>2. f[k] = NextResult(s, f[k - 1], ops[k])
                    BY <2>3, <4>2, <5>1 DEF IsRun
                <5> QED
                    BY <4>2, <5>1, <5>2
            <4>3. CASE k # m /\ k = 0
                <5>1. k \in 0..(m - 1)
                    BY <2>2, <4>3
                <5> QED
                    BY <2>3, <4>3, <5>1 DEF IsRun
            <4> QED
                BY <4>1, <4>2, <4>3
        <3> QED
            BY <3>1 DEF IsRun
    <2> HIDE DEF g
    <2> QED
        BY <1>2, <2>4
<1> HIDE DEF Bad
<1>3. Bad = {}
    BY <1>1, <1>2, LeastNumber, Zenon
<1> QED
    BY <1>3 DEF Bad

\* ComputeNewOps is that loop.
LEMMA ComputeNewOpsRuns ==
    ASSUME NEW s, NEW ops, NEW n \in Nat, Len(ops) = n
    PROVE  IsRun(ComputeNewOps(s, ops), s, ops, n)
<1>1. ComputeNewOps(s, ops) = CHOOSE f : IsRun(f, s, ops, n)
    BY DEF ComputeNewOps, IsRun, NextResult
<1> QED
    BY <1>1, RunExists

-----------------------------------------------------------------------------
(* Operations that can be executed.                                        *)

\* Some operation before op inserted the character n.
Comes(n, op, B) ==
    \E i \in B : i.type = "Insertion" /\ i.char.id = n /\ HappenedBefore(i.id, op.id)

\* The author of op had the characters that op names, and an insertion has the
\* character its id numbers.
OpOK(op, B) ==
    /\ op \in WootOperations
    /\ GetLogicalClock(op.id) \in 1..(MaxValue - 1)
    /\ op.type = "Insertion" =>
          /\ Shown(op.char) = op.char
          /\ op.char.id = [siteId |-> op.id.siteId, clock |-> GetLogicalClock(op.id)]
          /\ IsLimiter(op.char.previousId) \/ Comes(op.char.previousId, op, B)
          /\ IsLimiter(op.char.nextId) \/ Comes(op.char.nextId, op, B)
    /\ op.type = "Deletion" => Comes(op.char.id, op, B)

\* All operations of B are such.
OpsOK(B) == \A op \in B : OpOK(op, B)

\* The site and its own clock tell an operation from the others.
OneEach(B) == \A o, p \in B : equals(o.id, p.id) => o = p

\* Every character that an operation of A names is limiter or inserted in A.
Closed(A) == \A op \in A : Supported(op, A)

\* An operation can be executed where its causes were.
LEMMA CausesSupport ==
    ASSUME NEW B, OpsOK(B), NEW op \in B, NEW A,
           \A i \in B : HappenedBefore(i.id, op.id) => i \in A
    PROVE  Supported(op, A)
<1>1. OpOK(op, B) /\ op.char \in WChars
    BY DEF OpsOK, OpOK, WootOperations
<1>2. op.char.previousId \in CharIds /\ op.char.nextId \in CharIds
    BY <1>1, CharTypes
<1>3. \A n : Comes(n, op, B) => n \in Names(Chars(A))
    BY DEF Comes, Names, Chars
<1> QED
    BY <1>1, <1>2, <1>3 DEF OpOK, Supported, Known

\* A set that has the causes of its operations is closed.
LEMMA CausedIsClosed ==
    ASSUME NEW B, OpsOK(B), NEW A, A \subseteq B, Caused(A, B)
    PROVE  Closed(A)
BY CausesSupport DEF Closed, Caused

\* More operations support no less.
LEMMA SupportedByMore ==
    ASSUME NEW A, NEW C, A \subseteq C, NEW op, Supported(op, A)
    PROVE  Supported(op, C)
<1>1. Names(Chars(A)) \subseteq Names(Chars(C))
    BY DEF Names, Chars
<1> QED
    BY <1>1 DEF Supported, Known

\* A closed set stays closed with an operation it supports.
LEMMA ClosedGrows ==
    ASSUME NEW A, Closed(A), NEW op, Supported(op, A)
    PROVE  Closed(A \cup {op})
BY SupportedByMore DEF Closed

\* The characters that a closed set of operations makes are legal, and those
\* it hides are among them.
LEMMA ClosedIsLegal ==
    ASSUME NEW B, NEW rank, Legal(Chars(B), rank), NEW A, A \subseteq B, Closed(A)
    PROVE  /\ Legal(Chars(A), rank)
           /\ Deleted(A) \subseteq Names(Chars(A))
<1>1. Chars(A) \in SUBSET Chars(B)
    BY DEF Chars
<1>2. \A d \in Chars(A) : d.previousId \in Known(Chars(A)) /\ d.nextId \in Known(Chars(A))
    BY DEF Closed, Supported, Chars
<1>3. Legal(Chars(A), rank)
    BY <1>1, <1>2, LegalPart
<1>4. Deleted(A) \subseteq Names(Chars(A))
    BY DEF Closed, Supported, Deleted
<1> QED
    BY <1>3, <1>4

\* The character of an operation that is missing is missing.
LEMMA MissingChar ==
    ASSUME NEW B, OpsOK(B), OneEach(B), NEW op \in B, op.type = "Insertion",
           NEW A, A \subseteq B, op \notin A
    PROVE  op.char.id \notin Names(Chars(A))
<1> SUFFICES ASSUME NEW i \in A, i.type = "Insertion", i.char.id = op.char.id PROVE FALSE
    BY DEF Names, Chars
<1>1. /\ i.char.id = [siteId |-> i.id.siteId, clock |-> GetLogicalClock(i.id)]
      /\ op.char.id = [siteId |-> op.id.siteId, clock |-> GetLogicalClock(op.id)]
    BY DEF OpsOK, OpOK
<1>2. i.id.siteId = op.id.siteId /\ GetLogicalClock(i.id) = GetLogicalClock(op.id)
    <2>1. \A p, q, m, n : [siteId |-> p, clock |-> m] = [siteId |-> q, clock |-> n] => p = q /\ m = n
        <3> TAKE p, q, m, n
        <3> HAVE [siteId |-> p, clock |-> m] = [siteId |-> q, clock |-> n]
        <3>1. [siteId |-> p, clock |-> m].siteId = [siteId |-> q, clock |-> n].siteId
            OBVIOUS
        <3>2. [siteId |-> p, clock |-> m].clock = [siteId |-> q, clock |-> n].clock
            OBVIOUS
        <3> QED
            BY <3>1, <3>2
    <2>2. [siteId |-> i.id.siteId, clock |-> GetLogicalClock(i.id)]
             = [siteId |-> op.id.siteId, clock |-> GetLogicalClock(op.id)]
        BY <1>1, Zenon
    <2> QED
        BY <2>1, <2>2, Zenon
<1>3. equals(i.id, op.id)
    BY <1>2 DEF equals
<1> QED
    BY <1>3 DEF OneEach

-----------------------------------------------------------------------------
(* The clock after several operations.                                     *)

\* c is the least clock above c0 and the ids.
IsJoin(c, c0, ids) ==
    /\ c \in VectorClocks
    /\ Proved!Below(c0, c)
    /\ Proved!Covers(c, ids)
    /\ \A e \in VectorClocks : Proved!Below(c0, e) /\ Proved!Covers(e, ids) => Proved!Below(c, e)

\* There is one.
LEMMA JoinIsUnique ==
    ASSUME NEW c0, NEW ids, NEW c, IsJoin(c, c0, ids), NEW d, IsJoin(d, c0, ids)
    PROVE  c = d
<1>1. c \in Proved!VectorClocks /\ d \in Proved!VectorClocks
    BY SameOrder DEF IsJoin
<1>2. Proved!Below(c, d) /\ Proved!Below(d, c)
    BY DEF IsJoin
<1> QED
    BY <1>1, <1>2, BoundOfPushes, Proved!BelowIsAntisymmetric

\* Before the first operation it is the clock itself.
LEMMA JoinOfNone ==
    ASSUME NEW c0 \in VectorClocks
    PROVE  IsJoin(c0, c0, {})
BY DEF IsJoin, Proved!Below, Proved!Covers, VectorClocks

\* Update takes one id more.
LEMMA JoinOfMore ==
    ASSUME NEW c0 \in VectorClocks, NEW ids, ids \subseteq LogicalIds, NEW c, IsJoin(c, c0, ids),
           NEW lid \in LogicalIds
    PROVE  IsJoin(Update(c, lid.clock), c0, ids \cup {lid})
<1> DEFINE d == Update(c, lid.clock)
<1>1. c \in Proved!VectorClocks /\ lid.clock \in Proved!VectorClocks /\ c0 \in Proved!VectorClocks
    BY SameOrder DEF IsJoin, LogicalIds
<1>2. Proved!Update(c, lid.clock) = d
    BY SameOrder
<1>3. /\ d \in Proved!VectorClocks
      /\ Proved!Below(c, d)
      /\ Proved!Below(lid.clock, d)
      /\ \A e \in Proved!VectorClocks :
            Proved!Below(c, e) /\ Proved!Below(lid.clock, e) => Proved!Below(d, e)
    BY <1>1, <1>2, BoundOfPushes, Proved!UpdateIsLeast
<1> HIDE DEF d
<1>4. \A b \in VectorClocks : Proved!Below(b, c) => Proved!Below(b, d)
    <2> SUFFICES ASSUME NEW b \in VectorClocks, Proved!Below(b, c), NEW t \in Sites PROVE b[t] <= d[t]
        BY DEF Proved!Below
    <2>1. b[t] \in Nat /\ c[t] \in Nat /\ d[t] \in Nat
        BY <1>1, <1>3 DEF Proved!VectorClocks, VectorClocks
    <2>2. b[t] <= c[t] /\ c[t] <= d[t]
        BY <1>3 DEF Proved!Below
    <2> QED
        BY <2>1, <2>2
<1>5. Proved!Below(c0, d)
    BY <1>4 DEF IsJoin
<1>6. ASSUME NEW l \in ids PROVE Proved!Below(l.clock, d)
    BY <1>4, <1>6 DEF IsJoin, Proved!Covers, LogicalIds
<1>7. ASSUME NEW e \in VectorClocks, Proved!Below(c0, e), Proved!Covers(e, ids \cup {lid})
      PROVE  Proved!Below(d, e)
    <2>1. Proved!Below(c, e) /\ Proved!Below(lid.clock, e)
        BY <1>7 DEF IsJoin, Proved!Covers
    <2> QED
        BY <1>3, <1>7, <2>1, SameOrder
<1>8. Proved!Covers(d, ids \cup {lid})
    BY <1>3, <1>6 DEF Proved!Covers
<1> QED
    BY <1>3, <1>5, <1>7, <1>8, SameOrder DEF IsJoin, d

\* In a sorted log a cause stands before its effect.
LEMMA CausesStandFirst ==
    ASSUME NEW B, Proved!StrictOrder(B), CausesFirst(B), NEW w \in Proved!SortedOver(B),
           NEW i \in 1..Len(w), NEW j \in 1..Len(w), HappenedBefore(w[i].id, w[j].id)
    PROVE  i < j
<1>1. Len(w) \in Nat /\ w[i] \in B /\ w[j] \in B
    BY LogTypes
<1>2. Proved!CompareOperation(w[i], w[j]) < 0
    BY <1>1 DEF CausesFirst
<1>3. i # j /\ ~(Proved!CompareOperation(w[j], w[i]) < 0)
    BY <1>1, <1>2 DEF Proved!StrictOrder
<1>4. ~(j < i)
    BY <1>3 DEF Proved!SortedOver, Proved!Sorted
<1> QED
    BY <1>1, <1>3, <1>4

-----------------------------------------------------------------------------
(* Executing a payload.                                                    *)

\* A working site whose clock and string change works on.
LEMMA RunsOn ==
    ASSUME NEW s \in Sites, NEW x, Running(x, s), NEW c \in VectorClocks,
           NEW D, NEW rank, NEW v, IsString(v, s, D, rank)
    PROVE  /\ Running(With(x, c, v), s)
           /\ With(x, c, v).clock = c
           /\ With(x, c, v).characters = v
<1>1. v \in Seq(WChars \cup Limiters)
    BY DEF IsString
<1> QED
    BY <1>1 DEF Running, With, Site

\* A site that has the causes of an operation executes it.
LEMMA OperationExecutes ==
    ASSUME NEW s \in Sites, NEW B, OpsOK(B), OneEach(B), NEW rank, Legal(Chars(B), rank),
           NEW A, A \subseteq B, Closed(A),
           NEW x, Running(x, s), Reads(x.characters, s, A, rank),
           NEW op \in B, op \notin A, Supported(op, A)
    PROVE  \E v : /\ Reads(v, s, A \cup {op}, rank)
                  /\ ComputeOp(x, op) = Computed(With(x, Update(x.clock, op.id.clock), v), op)
                  /\ Running(With(x, Update(x.clock, op.id.clock), v), s)
<1>1. op \in WootOperations /\ OpOK(op, B)
    BY DEF OpsOK, OpOK
<1>2. Legal(Chars(A), rank) /\ Deleted(A) \subseteq Names(Chars(A))
    BY ClosedIsLegal
<1>3. Closed(A \cup {op}) /\ A \cup {op} \subseteq B
    BY ClosedGrows
<1>4. Legal(Chars(A \cup {op}), rank)
    BY <1>3, ClosedIsLegal
<1>5. IsFresh(op, A)
    BY <1>1, MissingChar DEF OpOK, IsFresh
<1>6. PICK v : /\ Reads(v, s, A \cup {op}, rank)
               /\ ComputeWootOp(x, op) = Computed(With(x, Update(x.clock, op.id.clock), v), op)
    BY <1>1, <1>2, <1>4, <1>5, ExecutionReads
<1>7. ComputeOp(x, op) = ComputeWootOp(x, op)
    BY <1>1 DEF ComputeOp, WootOperations
<1>9. Update(x.clock, op.id.clock) \in VectorClocks
    <2>1. x.clock \in VectorClocks /\ op.id.clock \in VectorClocks
        BY <1>1 DEF Running, Site, WootOperations, LogicalIds
    <2> QED
        BY <2>1 DEF Update, VectorClocks
<1>10. Running(With(x, Update(x.clock, op.id.clock), v), s)
    BY <1>6, <1>9, RunsOn DEF Reads
<1> QED
    BY <1>6, <1>7, <1>10

\* The operations the site has after k of the payload.
Had(s, ops, k) == ToSet(state[s]) \cup {ops[i] : i \in 1..k}

\* The ids of those it lacked.
Missed(s, ops, k) == {ops[i].id : i \in {j \in 1..k : ops[j] \notin ToSet(state[s])}}

\* The result of the loop after k operations.
Progress(result, s, ops, k, rank) ==
    /\ {"site", "err"} \subseteq DOMAIN result
    /\ Running(result.site, s)
    /\ Reads(result.site.characters, s, Had(s, ops, k), rank)
    /\ IsJoin(result.site.clock, site[s].clock, Missed(s, ops, k))
    /\ result.err \in {"none", "contained"}
    /\ k # 0 => /\ result.err = "none" <=> ops[k] \notin ToSet(state[s])
                /\ result.err = "none" => result.op = ops[k]

\* One round of the loop.
LEMMA RoundExecutes ==
    ASSUME NEW s \in Sites, NEW B, OpsOK(B), OneEach(B), NEW rank, Legal(Chars(B), rank),
           Proved!StrictOrder(B), state[s] \in Proved!SortedOver(B), Caused(ToSet(state[s]), B),
           site[s].clock \in VectorClocks,
           NEW ops \in Proved!SortedOver(B), Caused(ToSet(ops), B), CausesFirst(B),
           NEW k \in 1..Len(ops), NEW before, Progress(before, s, ops, k - 1, rank)
    PROVE  Progress(NextResult(s, before, ops[k]), s, ops, k, rank)
<1> DEFINE w == state[s]
           A == Had(s, ops, k - 1)
           op == ops[k]
           n == Len(ops)
<1>1. /\ n \in Nat /\ DOMAIN ops = 1..n /\ \A i \in 1..n : ops[i] \in B /\ ops[i] \in ToSet(ops)
      /\ ToSet(ops) = {ops[i] : i \in 1..n}
    BY LogTypes
<1>2. ToSet(w) \subseteq B /\ Closed(ToSet(w))
    BY LogTypes, CausedIsClosed
<1>3. /\ k \in Nat /\ k - 1 \in Nat /\ k # 0 /\ op \in B
      /\ \A i \in 1..(k - 1) : i \in 1..n
      /\ 1..k = 1..(k - 1) \cup {k}
    <2> HIDE DEF n
    <2>1. k \in Nat /\ k - 1 \in Nat /\ k # 0
        BY <1>1
    <2>2. \A i \in 1..(k - 1) : i \in 1..n
        BY <1>1, <2>1 DEF n
    <2>3. 1..k = 1..(k - 1) \cup {k}
        BY <2>1
    <2> QED
        BY <1>1, <2>1, <2>2, <2>3 DEF n
<1>4. A \subseteq B
    BY <1>1, <1>2, <1>3 DEF Had
<1>5. Had(s, ops, k) = A \cup {op}
    BY <1>3 DEF Had
<1>6. contains(w, op) <=> op \in ToSet(w)
    BY <1>3, LogOperators
<1>7. before.err # "position" /\ before.site.fault = "none"
    BY DEF Progress, Running
<1>8. CASE op \in ToSet(w)
    <2>1. NextResult(s, before, op) = [before EXCEPT !.err = "contained"]
        BY <1>6, <1>7, <1>8 DEF NextResult
    <2> DEFINE r == [before EXCEPT !.err = "contained"]
    <2>2. {"site", "err"} \subseteq DOMAIN r /\ r.site = before.site /\ r.err = "contained"
        BY DEF Progress
    <2>3. Had(s, ops, k) = A
        BY <1>5, <1>8 DEF Had
    <2>4. Missed(s, ops, k) = Missed(s, ops, k - 1)
        <3>1. {j \in 1..k : ops[j] \notin ToSet(state[s])}
                = {j \in 1..(k - 1) : ops[j] \notin ToSet(state[s])}
            BY <1>3, <1>8
        <3> QED
            BY <3>1 DEF Missed
    <2> HIDE DEF r
    <2>5. Progress(r, s, ops, k, rank)
        BY <1>8, <2>2, <2>3, <2>4 DEF Progress
    <2> QED
        BY <2>1, <2>5 DEF r
<1>9. CASE op \notin ToSet(w)
    <2>1. NextResult(s, before, op) = ComputeOp(before.site, op)
        BY <1>6, <1>7, <1>9 DEF NextResult
    <2>2. op \notin A
        <3>1. ASSUME NEW i \in 1..(k - 1) PROVE ops[i] # op
            <4>1. i \in 1..n /\ i < k
                BY <1>1, <1>3
            <4>2. Proved!CompareOperation(ops[i], ops[k]) < 0
                BY <1>1, <4>1 DEF Proved!SortedOver, Proved!Sorted
            <4>3. Proved!CompareOperation(op, op) = 0
                BY <1>3 DEF Proved!StrictOrder
            <4> QED
                BY <4>2, <4>3
        <3> QED
            BY <1>9, <3>1 DEF Had
    <2>3. Closed(A) /\ Supported(op, A)
        <3>1. ASSUME NEW p \in A, NEW i \in B, HappenedBefore(i.id, p.id) PROVE i \in A
            <4>1. CASE p \in ToSet(w)
                BY <3>1, <4>1 DEF Caused, Had
            <4>2. CASE p \notin ToSet(w)
                <5>1. PICK j \in 1..(k - 1) : p = ops[j]
                    BY <4>2 DEF Had
                <5>2. j \in 1..n /\ j < k
                    BY <1>1, <1>3
                <5>3. i \in ToSet(ops)
                    BY <1>1, <3>1, <5>1, <5>2 DEF Caused
                <5>4. PICK m \in 1..n : i = ops[m]
                    BY <1>1, <5>3
                <5>5. m < j
                    BY <1>1, <3>1, <5>1, <5>2, <5>4, CausesStandFirst
                <5>6. m \in 1..(k - 1)
                    BY <1>3, <5>2, <5>5
                <5> QED
                    BY <5>4, <5>6 DEF Had
            <4> QED
                BY <4>1, <4>2
        <3>2. Closed(A)
            BY <1>4, <3>1, CausedIsClosed DEF Caused
        <3>3. ASSUME NEW i \in B, HappenedBefore(i.id, op.id) PROVE i \in A
            <4>1. i \in ToSet(ops)
                BY <1>1, <3>3 DEF Caused
            <4>2. PICK m \in 1..n : i = ops[m]
                BY <1>1, <4>1
            <4>3. m < k
                BY <1>1, <3>3, <4>2, CausesStandFirst
            <4>4. m \in 1..(k - 1)
                BY <1>3, <4>3
            <4> QED
                BY <4>2, <4>4 DEF Had
        <3>4. Supported(op, A)
            BY <1>3, <3>3, CausesSupport
        <3> QED
            BY <3>2, <3>4
    <2> DEFINE x == before.site
    <2>4. Running(x, s) /\ Reads(x.characters, s, A, rank)
          /\ IsJoin(x.clock, site[s].clock, Missed(s, ops, k - 1))
        BY DEF Progress
    <2> HIDE DEF A, op, x
    <2>5. PICK v : /\ Reads(v, s, A \cup {op}, rank)
                   /\ ComputeOp(x, op) = Computed(With(x, Update(x.clock, op.id.clock), v), op)
                   /\ Running(With(x, Update(x.clock, op.id.clock), v), s)
        BY <1>3, <1>4, <2>2, <2>3, <2>4, OperationExecutes
    <2> DEFINE y == With(x, Update(x.clock, op.id.clock), v)
    <2>6. y.characters = v /\ y.clock = Update(x.clock, op.id.clock)
        BY <2>4 DEF With, Running, Site
    <2>7. op.id \in LogicalIds
        BY <1>3 DEF OpsOK, OpOK, WootOperations
    <2>8. Missed(s, ops, k) = Missed(s, ops, k - 1) \cup {op.id}
        <3>1. {j \in 1..k : ops[j] \notin ToSet(state[s])}
                = {j \in 1..(k - 1) : ops[j] \notin ToSet(state[s])} \cup {k}
            BY <1>3, <1>9 DEF op
        <3> QED
            BY <3>1 DEF Missed, op
    <2>9. IsJoin(y.clock, site[s].clock, Missed(s, ops, k))
        <3>1. Missed(s, ops, k - 1) \subseteq LogicalIds
            BY <1>1, <1>3 DEF Missed, OpsOK, OpOK, WootOperations
        <3>2. site[s].clock \in VectorClocks
            OBVIOUS
        <3>3. IsJoin(x.clock, site[s].clock, Missed(s, ops, k - 1))
            BY <2>4
        <3>4. IsJoin(Update(x.clock, op.id.clock), site[s].clock, Missed(s, ops, k - 1) \cup {op.id})
            BY <2>7, <3>1, <3>2, <3>3, JoinOfMore
        <3> HIDE DEF y
        <3> QED
            BY <2>6, <2>8, <3>4
    <2> DEFINE r == Computed(y, op)
    <2>10. {"site", "err"} \subseteq DOMAIN r /\ r.site = y /\ r.err = "none" /\ r.op = op
        BY DEF Computed
    <2> HIDE DEF y, r
    <2>11. Progress(r, s, ops, k, rank)
        BY <1>5, <1>9, <2>5, <2>6, <2>9, <2>10 DEF Progress, y, op
    <2> QED
        BY <2>1, <2>5, <2>11 DEF r, y, x, op
<1> QED
    BY <1>8, <1>9

\* Every round of the loop executes its operation.
LEMMA PayloadExecutes ==
    ASSUME NEW s \in Sites, NEW B, OpsOK(B), OneEach(B), NEW rank, Legal(Chars(B), rank),
           Proved!StrictOrder(B), state[s] \in Proved!SortedOver(B), Caused(ToSet(state[s]), B),
           Running(site[s], s), Reads(site[s].characters, s, ToSet(state[s]), rank),
           NEW ops \in Proved!SortedOver(B), Caused(ToSet(ops), B), CausesFirst(B),
           NEW n \in Nat, n = Len(ops), NEW f, IsRun(f, s, ops, n)
    PROVE  \A k \in 0..n : Progress(f[k], s, ops, k, rank)
<1> DEFINE Bad == {k \in 0..n : ~Progress(f[k], s, ops, k, rank)}
<1>0. site[s].clock \in VectorClocks
    BY DEF Running, Site
<1>1. ASSUME NEW m \in Bad, \A k \in Bad : m <= k
      PROVE  FALSE
    <2>1. m # 0
        <3>1. f[0] = [site |-> site[s], err |-> "contained"]
            BY DEF IsRun
        <3>2. Had(s, ops, 0) = ToSet(state[s]) /\ Missed(s, ops, 0) = {}
            BY DEF Had, Missed
        <3>3. IsJoin(site[s].clock, site[s].clock, {})
            BY <1>0, JoinOfNone
        <3>4. /\ {"site", "err"} \subseteq DOMAIN f[0]
              /\ f[0].site = site[s] /\ f[0].err = "contained"
            BY <3>1
        <3>5. Progress(f[0], s, ops, 0, rank)
            BY <3>2, <3>3, <3>4 DEF Progress
        <3> QED
            BY <3>5
    <2>2. m \in 1..n /\ m - 1 \in 0..n /\ m - 1 \notin Bad
        BY <1>1, <2>1
    <2>3. Progress(f[m - 1], s, ops, m - 1, rank)
        BY <2>2
    <2>4. f[m] = NextResult(s, f[m - 1], ops[m])
        BY <2>2 DEF IsRun
    <2>5. PICK before : before = f[m - 1]
        OBVIOUS
    <2>6. Progress(before, s, ops, m - 1, rank) /\ m \in 1..Len(ops)
        BY <2>2, <2>3, <2>5
    <2>7. Progress(NextResult(s, before, ops[m]), s, ops, m, rank)
        BY <1>0, <2>6, RoundExecutes
    <2> QED
        BY <1>1, <2>4, <2>5, <2>7
<1>2. Bad \in SUBSET Nat
    OBVIOUS
<1> HIDE DEF Bad
<1>3. Bad = {}
    BY <1>1, <1>2, LeastNumber, Zenon
<1> QED
    BY <1>3 DEF Bad

\* What an update with a payload does to the site and the log.
Updated(s, ops, rank) ==
    \E x, w :
        /\ site' = [site EXCEPT ![s] = x]
        /\ state' = [state EXCEPT ![s] = w]
        /\ Running(x, s)
        /\ Reads(x.characters, s, ToSet(state[s]) \cup ToSet(ops), rank)
        /\ IsJoin(x.clock, site[s].clock, IdsIn(ToSet(ops) \ ToSet(state[s])))
        /\ \E new \in Proved!SortedOver(ToSet(state[s]) \cup ToSet(ops)) :
              ToSet(new) = ToSet(ops) \ ToSet(state[s]) /\ w = Merge(state[s], new)

\* UpdateState executes the operations that the log lacks, and merges them.
LEMMA PayloadUpdates ==
    ASSUME NEW s \in Sites, NEW B, OpsOK(B), OneEach(B), NEW rank, Legal(Chars(B), rank),
           Proved!StrictOrder(B), state[s] \in Proved!SortedOver(B), Caused(ToSet(state[s]), B),
           Running(site[s], s), Reads(site[s].characters, s, ToSet(state[s]), rank),
           NEW ops \in Proved!SortedOver(B), Caused(ToSet(ops), B), CausesFirst(B),
           UpdateState(s, ops)
    PROVE  Updated(s, ops, rank)
<1> DEFINE n == Len(ops)
           f == ComputeNewOps(s, ops)
           K == {k \in 1..n : ops[k] \notin ToSet(state[s])}
           results == [k \in 1..n |-> f[k]]
           new == NewState(results)
<1>1. /\ n \in Nat /\ ops \in Seq(B) /\ DOMAIN ops = 1..n /\ \A i \in 1..n : ops[i] \in B
      /\ ToSet(ops) = {ops[i] : i \in 1..n} /\ ToSet(ops) \subseteq B /\ ToSet(state[s]) \subseteq B
    BY LogTypes
<1>2. IsRun(f, s, ops, n)
    BY <1>1, ComputeNewOpsRuns
<1>3. \A k \in 0..n : Progress(f[k], s, ops, k, rank)
    <2> HIDE DEF f
    <2> QED
        BY <1>1, <1>2, PayloadExecutes
<1>4. n \in 0..n
    BY <1>1
<1>5. Progress(f[n], s, ops, n, rank)
    BY <1>3, <1>4
<1>6. /\ Had(s, ops, n) = ToSet(state[s]) \cup ToSet(ops)
      /\ Missed(s, ops, n) = IdsIn(ToSet(ops) \ ToSet(state[s]))
    BY <1>1 DEF Had, Missed, IdsIn
<1>7. /\ new \in Proved!SortedOver(ToSet(state[s]) \cup ToSet(ops))
      /\ ToSet(new) = ToSet(ops) \ ToSet(state[s])
    <2> DEFINE U == ToSet(state[s]) \cup ToSet(ops)
    <2>1. ASSUME NEW k \in 1..n
          PROVE  /\ results[k].err \in {"none", "pending"} <=> k \in K
                 /\ k \in K => results[k].op = ops[k]
        <3>1. k \in 0..n /\ k # 0
            BY <1>1
        <3>2. Progress(f[k], s, ops, k, rank)
            BY <1>3, <3>1
        <3>3. /\ f[k].err \in {"none", "contained"}
              /\ f[k].err = "none" <=> ops[k] \notin ToSet(state[s])
              /\ f[k].err = "none" => f[k].op = ops[k]
            BY <3>1, <3>2, Zenon DEF Progress
        <3>4. results[k] = f[k]
            OBVIOUS
        <3> HIDE DEF f, results
        <3> QED
            BY <3>3, <3>4
    <2>2. Len(results) = n
        <3> HIDE DEF f
        <3> QED
            BY <1>1
    <2>3. K \subseteq 1..n
        OBVIOUS
    <2>4. {ops[k] : k \in K} = ToSet(ops) \ ToSet(state[s])
        BY <1>1
    <2>5. Proved!StrictOrder(U)
        BY <1>1, BoundOfPushes, Proved!OrderOfPart
    <2>6. ops \in Seq(U)
        <3>1. \A i \in 1..n : ops[i] \in U
            BY <1>1
        <3> HIDE DEF U
        <3> QED
            BY <1>1, <3>1, SeqDef
    <2> HIDE DEF U, K, results, n
    <2>8. Len(ops) = n /\ n \in Nat
        BY <1>1 DEF n
    <2>9. NewState(results) \in Proved!SortedOver(U)
        BY <2>1, <2>2, <2>3, <2>5, <2>6, <2>8, NewStateCollects
    <2>10. Takes(NewState(results), ops, K)
        BY <2>1, <2>2, <2>3, <2>5, <2>6, <2>8, NewStateCollects
    <2>7. NewState(results) \in Proved!SortedOver(U) /\ ToSet(NewState(results)) = {ops[k] : k \in K}
        BY <2>9, <2>10 DEF Takes
    <2> QED
        BY <2>4, <2>7 DEF U
<1>8. /\ site' = [site EXCEPT ![s] = f[n].site]
      /\ state' = [state EXCEPT ![s] = Merge(state[s], new)]
    <2>1. f[n].err # "position" /\ f[n].site.fault = "none"
        BY <1>5 DEF Progress, Running
    <2>2. /\ site' = [site EXCEPT ![s] = f[n].site]
          /\ state' = [state EXCEPT ![s] =
                          IF f[n].err = "position" \/ f[n].site.fault # "none"
                          THEN @ ELSE Merge(@, new)]
        BY DEF UpdateState
    <2> HIDE DEF f, new
    <2> QED
        BY <2>1, <2>2
<1> DEFINE x == f[n].site
           w == Merge(state[s], new)
<1>9. /\ Running(x, s)
      /\ Reads(x.characters, s, ToSet(state[s]) \cup ToSet(ops), rank)
      /\ IsJoin(x.clock, site[s].clock, IdsIn(ToSet(ops) \ ToSet(state[s])))
    BY <1>5, <1>6 DEF Progress
<1>10. \E u \in Proved!SortedOver(ToSet(state[s]) \cup ToSet(ops)) :
              ToSet(u) = ToSet(ops) \ ToSet(state[s]) /\ w = Merge(state[s], u)
    <2> HIDE DEF new
    <2> QED
        BY <1>7
<1>11. site' = [site EXCEPT ![s] = x] /\ state' = [state EXCEPT ![s] = w]
    BY <1>8
<1> HIDE DEF x, w
<1> QED
    BY <1>9, <1>10, <1>11 DEF Updated

-----------------------------------------------------------------------------
(* Steps of the document are steps of the logs.                            *)

\* The clock after a payload is the one that SortedLogs has.
LEMMA JoinIsTop ==
    ASSUME NEW c0 \in VectorClocks, NEW new, Proved!Ids(new) \subseteq LogicalIds,
           NEW c, IsJoin(c, c0, Proved!Ids(new))
    PROVE  c = Update(c0, Proved!Top(new))
<1> DEFINE ids == Proved!Ids(new)
           top == Proved!Top(new)
           d == Update(c0, top)
<1>1. c \in Proved!VectorClocks /\ Proved!Covers(c, ids) /\ ids \subseteq Proved!LogicalIds
    BY SameOrder DEF IsJoin
<1>2. Proved!IsTop(top, ids)
    BY <1>1, BoundOfPushes, Proved!TopIsTop
<1> HIDE DEF top, ids
<1>3. /\ top \in VectorClocks /\ Proved!Covers(top, ids)
      /\ \A e \in VectorClocks : Proved!Covers(e, ids) => Proved!Below(top, e)
    BY <1>2, SameOrder DEF Proved!IsTop
<1>4. /\ d \in VectorClocks /\ Proved!Below(c0, d) /\ Proved!Below(top, d)
      /\ \A e \in VectorClocks : Proved!Below(c0, e) /\ Proved!Below(top, e) => Proved!Below(d, e)
    <2>1. c0 \in Proved!VectorClocks /\ top \in Proved!VectorClocks /\ Proved!Update(c0, top) = d
        BY <1>3, SameOrder
    <2>2. /\ Proved!Update(c0, top) \in Proved!VectorClocks
          /\ Proved!Below(c0, Proved!Update(c0, top))
          /\ Proved!Below(top, Proved!Update(c0, top))
          /\ \A e \in Proved!VectorClocks :
                Proved!Below(c0, e) /\ Proved!Below(top, e) => Proved!Below(Proved!Update(c0, top), e)
        BY <2>1, BoundOfPushes, Proved!UpdateIsLeast
    <2> QED
        BY <2>1, <2>2, SameOrder
<1> HIDE DEF d
<1>5. Proved!Covers(d, ids)
    <2> SUFFICES ASSUME NEW l \in ids PROVE Proved!Below(l.clock, d)
        BY DEF Proved!Covers
    <2>1. l.clock \in VectorClocks
        BY <1>1, SameOrder DEF LogicalIds
    <2>2. Proved!Below(l.clock, top)
        BY <1>3 DEF Proved!Covers
    <2> QED
        <3>1. l.clock \in Proved!VectorClocks /\ top \in Proved!VectorClocks /\ d \in Proved!VectorClocks
            BY <1>3, <1>4, <2>1, SameOrder
        <3> DEFINE b == l.clock
        <3> HIDE DEF b
        <3>2. Proved!Below(b, d)
            BY <1>4, <2>2, <3>1, BoundOfPushes, Proved!BelowIsTransitive DEF b
        <3> QED
            BY <3>2 DEF b
<1>6. IsJoin(d, c0, ids)
    BY <1>3, <1>4, <1>5 DEF IsJoin
<1>7. c = d
    BY <1>6, JoinIsUnique DEF ids
<1> QED
    BY <1>7 DEF d, top

\* The log after a payload is the one that SortedLogs has.
LEMMA DeliveredLog ==
    ASSUME NEW U, IdsTell(U), Proved!StrictOrder(U),
           NEW st \in Proved!SortedOver(U), NEW ops \in Proved!SortedOver(U),
           NEW new \in Proved!SortedOver(U), ToSet(new) = ToSet(ops) \ ToSet(st)
    PROVE  /\ OnlyIds(Merge(st, new))
                 = Proved!Merge(OnlyIds(st), Proved!NewState(OnlyIds(st), OnlyIds(ops)))
           /\ Proved!Ids(Proved!NewState(OnlyIds(st), OnlyIds(ops))) = IdsIn(ToSet(ops) \ ToSet(st))
           /\ Merge(st, new) \in Proved!SortedOver(U)
           /\ ToSet(Merge(st, new)) = ToSet(st) \cup ToSet(ops)
<1> DEFINE X == {OnlyId(op) : op \in U}
           w == Merge(st, new)
           st2 == OnlyIds(st)
           ops2 == OnlyIds(ops)
           new2 == Proved!NewState(st2, ops2)
           w2 == Proved!Merge(st2, new2)
<1>1. Proved!StrictOrder(X)
    BY OrderOfIds
<1>2. st2 \in Proved!SortedOver(X) /\ ops2 \in Proved!SortedOver(X)
    BY SortedOnlyIds
<1>3. /\ st \in Seq(U) /\ ops \in Seq(U) /\ ToSet(st) \subseteq U /\ ToSet(ops) \subseteq U
    BY LogTypes
<1>4. /\ ToSet(st2) = {OnlyId(op) : op \in ToSet(st)}
      /\ ToSet(ops2) = {OnlyId(op) : op \in ToSet(ops)}
    BY <1>3, OnlyIdsTypes
<1>5. w \in Proved!SortedOver(U) /\ ToSet(w) = ToSet(st) \cup ToSet(new)
    BY LogOperators
<1> HIDE DEF X, st2, ops2, w
<1>6. new2 \in Proved!SortedOver(X) /\ Proved!ToSet(new2) = Proved!ToSet(ops2) \ Proved!ToSet(st2)
    BY <1>1, <1>2, BoundOfPushes, Proved!NewStateIsDifference
<1> HIDE DEF new2
<1>7. w2 \in Proved!SortedOver(X) /\ Proved!ToSet(w2) = Proved!ToSet(st2) \cup Proved!ToSet(new2)
    BY <1>1, <1>2, <1>6, BoundOfPushes, Proved!MergeIsUnion
<1> HIDE DEF w2
<1>8. ToSet(w2) = ToSet(st2) \cup ToSet(ops2)
    BY <1>6, <1>7, SameOrder
<1>9. ToSet(w) = ToSet(st) \cup ToSet(ops)
    BY <1>5
<1>10. ToSet(w2) = {OnlyId(op) : op \in ToSet(w)}
    BY <1>4, <1>8, <1>9
<1>11. OnlyIds(w) = w2
    BY <1>5, <1>7, <1>10, LogOfIdsIsUnique
<1>12. \A o, p \in U : OnlyId(o) = OnlyId(p) <=> o = p
    BY DEF IdsTell, OnlyId
<1>13. ToSet(new2) = {OnlyId(op) : op \in ToSet(ops) \ ToSet(st)}
    <2>1. ToSet(new2) = ToSet(ops2) \ ToSet(st2)
        BY <1>6, SameOrder
    <2> QED
        BY <1>3, <1>4, <1>12, <2>1
<1>14. Proved!Ids(new2) = IdsIn(ToSet(ops) \ ToSet(st))
    <2>1. Proved!Ids(new2) = {op.id : op \in ToSet(new2)}
        BY DEF Proved!Ids, ToSet
    <2>2. \A S : {op.id : op \in {OnlyId(o) : o \in S}} = {o.id : o \in S}
        <3>1. \A o : OnlyId(o).id = o.id
            BY DEF OnlyId
        <3> QED
            BY <3>1
    <2> DEFINE S == ToSet(ops) \ ToSet(st)
    <2>3. ToSet(new2) = {OnlyId(o) : o \in S}
        BY <1>13
    <2> HIDE DEF S
    <2>4. Proved!Ids(new2) = {o.id : o \in S}
        BY <2>1, <2>2, <2>3
    <2> QED
        BY <2>4 DEF IdsIn, S
<1> QED
    BY <1>5, <1>9, <1>11, <1>14 DEF w, w2, new2, st2, ops2

\* An edit puts its operation at the end of both logs.
LEMMA EditedLog ==
    ASSUME NEW U, IdsTell(U), Proved!StrictOrder(U), NEW st \in Proved!SortedOver(U),
           NEW op \in U, NEW new \in Proved!SortedOver(U), ToSet(new) = {op}
    PROVE  /\ OnlyIds(Merge(st, new))
                 = Proved!Merge(OnlyIds(st), Proved!insert(Proved!EmptyState, OnlyId(op)))
           /\ Merge(st, new) \in Proved!SortedOver(U)
           /\ ToSet(Merge(st, new)) = ToSet(st) \cup {op}
<1> DEFINE X == {OnlyId(o) : o \in U}
           w == Merge(st, new)
           st2 == OnlyIds(st)
           op2 == OnlyId(op)
           new2 == Proved!insert(Proved!EmptyState, op2)
           w2 == Proved!Merge(st2, new2)
<1>1. Proved!StrictOrder(X) /\ op2 \in X
    BY OrderOfIds
<1>2. st2 \in Proved!SortedOver(X)
    BY SortedOnlyIds
<1>3. st \in Seq(U)
    BY LogTypes
<1>4. ToSet(st2) = {OnlyId(o) : o \in ToSet(st)}
    BY <1>3, OnlyIdsTypes
<1>5. w \in Proved!SortedOver(U) /\ ToSet(w) = ToSet(st) \cup ToSet(new)
    BY LogOperators
<1> HIDE DEF X, st2, w, op2
<1>6. new2 \in Proved!SortedOver(X) /\ Proved!ToSet(new2) = {op2}
    <2>1. Proved!EmptyState \in Proved!SortedOver(X) /\ Proved!ToSet(Proved!EmptyState) = {}
        BY BoundOfPushes, Proved!EmptyStateIsSorted
    <2>2. /\ new2 \in Proved!SortedOver(X)
          /\ Proved!ToSet(new2) = Proved!ToSet(Proved!EmptyState) \cup {op2}
        BY <1>1, <2>1, BoundOfPushes, Proved!InsertKeepsSorted
    <2> QED
        BY <2>1, <2>2
<1> HIDE DEF new2
<1>7. w2 \in Proved!SortedOver(X) /\ Proved!ToSet(w2) = Proved!ToSet(st2) \cup Proved!ToSet(new2)
    BY <1>1, <1>2, <1>6, BoundOfPushes, Proved!MergeIsUnion
<1> HIDE DEF w2
<1>8. ToSet(w2) = {OnlyId(o) : o \in ToSet(w)}
    <2>1. ToSet(w2) = ToSet(st2) \cup {op2}
        BY <1>6, <1>7, SameOrder
    <2> QED
        BY <1>4, <1>5, <2>1 DEF op2
<1>9. OnlyIds(w) = w2
    BY <1>5, <1>7, <1>8, LogOfIdsIsUnique
<1> QED
    BY <1>5, <1>9 DEF w, w2, new2, st2, op2

\* A step changes one site and its log.
Moves(s, x, w) == site' = [site EXCEPT ![s] = x] /\ state' = [state EXCEPT ![s] = w]

\* What the logs and clocks of the instance are after it.
LEMMA MovesLogs ==
    ASSUME NEW s \in Sites, DOMAIN site = Sites, DOMAIN state = Sites, NEW x, NEW w, Moves(s, x, w)
    PROVE  /\ [t \in Sites |-> site'[t].clock]
                 = [[t \in Sites |-> site[t].clock] EXCEPT ![s] = x.clock]
           /\ [t \in Sites |-> OnlyIds(state'[t])]
                 = [[t \in Sites |-> OnlyIds(state[t])] EXCEPT ![s] = OnlyIds(w)]
<1>1. \A t \in Sites : /\ site'[t] = IF t = s THEN x ELSE site[t]
                       /\ state'[t] = IF t = s THEN w ELSE state[t]
    BY DEF Moves
<1>2. \A t \in Sites : site'[t].clock = IF t = s THEN x.clock ELSE site[t].clock
    BY <1>1
<1>3. \A t \in Sites : OnlyIds(state'[t]) = IF t = s THEN OnlyIds(w) ELSE OnlyIds(state[t])
    BY <1>1
<1> QED
    BY <1>2, <1>3

\* The documents have a site and a log for every site.
Documents == site \in [Sites -> Site] /\ \A s \in Sites : Running(site[s], s)

\* A payload that is handled is one that SortedLogs delivers.
LEMMA UpdateDelivers ==
    ASSUME LogsTyped, Proved!StrictOrder(Ops), \A o \in Ops : o.id \in LogicalIds,
           Documents, NEW s \in Sites, NEW ops \in pushed, NEW rank,
           NEW x, NEW w, Moves(s, x, w), pushed' = pushed,
           IsJoin(x.clock, site[s].clock, IdsIn(ToSet(ops) \ ToSet(state[s]))),
           NEW new \in Proved!SortedOver(Ops), ToSet(new) = ToSet(ops) \ ToSet(state[s]),
           w = Merge(state[s], new)
    PROVE  /\ Proved!Deliver(s, OnlyIds(ops))
           /\ w \in Proved!SortedOver(Ops)
           /\ ToSet(w) = ToSet(state[s]) \cup ToSet(ops)
<1> DEFINE st == state[s]
           new2 == Proved!NewState(OnlyIds(st), OnlyIds(ops))
<1>1. st \in Proved!SortedOver(Ops) /\ ops \in Proved!SortedOver(Ops) /\ IdsTell(Ops)
      /\ DOMAIN state = Sites /\ DOMAIN site = Sites
    BY DEF LogsTyped, Documents
<1>2. site[s].clock \in VectorClocks
    BY DEF Documents, Running, Site
<1>3. /\ OnlyIds(w) = Proved!Merge(OnlyIds(st), new2)
      /\ Proved!Ids(new2) = IdsIn(ToSet(ops) \ ToSet(st))
      /\ w \in Proved!SortedOver(Ops)
      /\ ToSet(w) = ToSet(st) \cup ToSet(ops)
    BY <1>1, DeliveredLog
<1> HIDE DEF new2
<1>4. Proved!Ids(new2) \subseteq LogicalIds
    <2>1. ToSet(ops) \subseteq Ops
        BY <1>1, LogTypes
    <2> QED
        BY <1>3, <2>1 DEF IdsIn
<1>5. IsJoin(x.clock, site[s].clock, Proved!Ids(new2))
    BY <1>3
<1>6. x.clock = Update(site[s].clock, Proved!Top(new2))
    BY <1>2, <1>4, <1>5, JoinIsTop
<1>7. /\ [t \in Sites |-> site'[t].clock]
            = [[t \in Sites |-> site[t].clock] EXCEPT ![s] = x.clock]
      /\ [t \in Sites |-> OnlyIds(state'[t])]
            = [[t \in Sites |-> OnlyIds(state[t])] EXCEPT ![s] = OnlyIds(w)]
    BY <1>1, MovesLogs
<1>8. /\ [t \in Sites |-> site[t].clock][s] = site[s].clock
      /\ [t \in Sites |-> OnlyIds(state[t])][s] = OnlyIds(st)
    OBVIOUS
<1>9. {OnlyIds(p) : p \in pushed'} = {OnlyIds(p) : p \in pushed}
    OBVIOUS
<1>10. x.clock = Proved!Update(site[s].clock, Proved!Top(new2))
    BY <1>6, SameOrder
<1>11. Proved!Deliver(s, OnlyIds(ops))
    BY <1>3, <1>7, <1>8, <1>9, <1>10 DEF Proved!Deliver, new2
<1> QED
    BY <1>3, <1>11

\* An edit that makes an operation is one of SortedLogs.
LEMMA EditGenerates ==
    ASSUME LogsTyped, Documents, NEW s \in Sites, site[s].clock[s] < MaxValue,
           NEW op, op.id = NewLid(site[s], s), op.id \notin IdsIn(Ops),
           Proved!StrictOrder(ToSet(state[s]) \cup {op}),
           NEW x, NEW w, Moves(s, x, w), pushed' = pushed,
           x.clock = Increment(site[s].clock, s),
           NEW new \in Proved!SortedOver(ToSet(state[s]) \cup {op}), ToSet(new) = {op},
           w = Merge(state[s], new)
    PROVE  /\ Proved!Generate(s)
           /\ w \in Proved!SortedOver(ToSet(state[s]) \cup {op})
           /\ ToSet(w) = ToSet(state[s]) \cup {op}
<1> DEFINE st == state[s]
           U == ToSet(st) \cup {op}
<1>1. st \in Proved!SortedOver(Ops) /\ IdsTell(Ops) /\ DOMAIN state = Sites /\ DOMAIN site = Sites
    BY DEF LogsTyped, Documents
<1>2. ToSet(st) \subseteq Ops
    BY <1>1, LogTypes
<1>3. IdsTell(U)
    BY <1>1, <1>2 DEF IdsTell, IdsIn
<1>4. st \in Proved!SortedOver(U)
    <2>1. Proved!ToSet(st) \subseteq U
        BY SameOrder
    <2> HIDE DEF U
    <2> QED
        BY <1>1, <2>1, BoundOfPushes, Proved!SortedOverOwn
<1>5. op \in U /\ Proved!StrictOrder(U) /\ new \in Proved!SortedOver(U) /\ ToSet(new) = {op}
    OBVIOUS
<1>6. OnlyIds(Merge(st, new)) = Proved!Merge(OnlyIds(st), Proved!insert(Proved!EmptyState, OnlyId(op)))
      /\ Merge(st, new) \in Proved!SortedOver(U) /\ ToSet(Merge(st, new)) = ToSet(st) \cup {op}
    <2> HIDE DEF U, st
    <2> QED
        BY <1>3, <1>4, <1>5, EditedLog
<1>7. /\ [t \in Sites |-> site'[t].clock]
            = [[t \in Sites |-> site[t].clock] EXCEPT ![s] = x.clock]
      /\ [t \in Sites |-> OnlyIds(state'[t])]
            = [[t \in Sites |-> OnlyIds(state[t])] EXCEPT ![s] = OnlyIds(w)]
    BY <1>1, MovesLogs
<1>8. /\ [t \in Sites |-> site[t].clock][s] = site[s].clock
      /\ [t \in Sites |-> OnlyIds(state[t])][s] = OnlyIds(st)
    OBVIOUS
<1>9. Proved!NewOperation(s) = OnlyId(op)
    BY SameOrder DEF Proved!NewOperation, OnlyId, NewLid
<1>10. x.clock = Proved!Increment(site[s].clock, s)
    BY SameOrder
<1>11. {OnlyIds(p) : p \in pushed'} = {OnlyIds(p) : p \in pushed}
    OBVIOUS
<1>12. Proved!CanTick(s)
    BY <1>8 DEF Proved!CanTick
<1>13. Proved!Generate(s)
    BY <1>6, <1>7, <1>8, <1>9, <1>10, <1>11, <1>12 DEF Proved!Generate
<1> QED
    BY <1>6, <1>13 DEF U, st

\* A refused insertion is one of SortedLogs.
LEMMA EditRefuses ==
    ASSUME DOMAIN site = Sites, DOMAIN state = Sites, NEW s \in Sites, site[s].clock[s] < MaxValue,
           NEW x, Moves(s, x, state[s]), pushed' = pushed,
           x.clock = Increment(site[s].clock, s)
    PROVE  Proved!Refuse(s)
<1>1. /\ [t \in Sites |-> site'[t].clock]
            = [[t \in Sites |-> site[t].clock] EXCEPT ![s] = x.clock]
      /\ [t \in Sites |-> OnlyIds(state'[t])]
            = [[t \in Sites |-> OnlyIds(state[t])] EXCEPT ![s] = OnlyIds(state[s])]
    BY MovesLogs
<1>2. [t \in Sites |-> OnlyIds(state'[t])] = [t \in Sites |-> OnlyIds(state[t])]
    BY <1>1
<1>3. [t \in Sites |-> site[t].clock][s] = site[s].clock
    OBVIOUS
<1>4. {OnlyIds(p) : p \in pushed'} = {OnlyIds(p) : p \in pushed}
    OBVIOUS
<1>5. x.clock = Proved!Increment(site[s].clock, s)
    BY SameOrder
<1>6. Proved!CanTick(s)
    BY <1>3 DEF Proved!CanTick
<1> QED
    BY <1>1, <1>2, <1>3, <1>4, <1>5, <1>6 DEF Proved!Refuse

\* A push is one of SortedLogs: there are no more logs of ids than logs.
LEMMA PushIsPush ==
    ASSUME IsFiniteSet(pushed), NEW s \in Sites, Push(s)
    PROVE  Proved!Push(s)
<1> DEFINE S == pushed \cup {state[s]}
           T == {OnlyIds(ops) : ops \in S}
           f == [ops \in S |-> OnlyIds(ops)]
<1>1. IsFiniteSet(S)
    BY FS_AddElement
<1>2. f \in Surjection(S, T)
    BY DEF Surjection
<1>3. IsFiniteSet(T) /\ Cardinality(T) <= Cardinality(S) /\ Cardinality(S) \in Nat
      /\ Cardinality(T) \in Nat
    <2> HIDE DEF f, T, S
    <2> QED
        BY <1>1, <1>2, FS_Surjection, FS_CardinalityType
<1>4. Cardinality(S) <= MaxPushes /\ pushed' = S /\ site' = site /\ state' = state
    BY DEF Push
<1>5. Cardinality(T) <= MaxPushes
    <2> HIDE DEF S, T
    <2> QED
        BY <1>3, <1>4, BoundOfPushes
<1>6. T = {OnlyIds(ops) : ops \in pushed} \cup {[t \in Sites |-> OnlyIds(state[t])][s]}
    OBVIOUS
<1>7. {OnlyIds(ops) : ops \in pushed'} = T
    BY <1>4
<1>8. \A Q : Proved!Cardinality(Q) = Cardinality(Q)
    BY Zenon DEF Proved!Cardinality, Cardinality
<1>9. /\ [t \in Sites |-> OnlyIds(state'[t])] = [t \in Sites |-> OnlyIds(state[t])]
      /\ [t \in Sites |-> site'[t].clock] = [t \in Sites |-> site[t].clock]
    BY <1>4
<1> HIDE DEF T, S
<1> QED
    BY <1>4, <1>5, <1>6, <1>7, <1>8, <1>9 DEF Proved!Push

-----------------------------------------------------------------------------
(* The loop of UpdateState with an edit.                                   *)

\* An operation before all the others extends their order.
LEMMA OrderExtendsDown ==
    ASSUME NEW U, Proved!StrictOrder(U), NEW first, Proved!CompareOperation(first, first) = 0,
           \A o \in U : Proved!CompareOperation(first, o) = -1 /\ Proved!CompareOperation(o, first) = 1
    PROVE  Proved!StrictOrder(U \cup {first})
<1> DEFINE V == U \cup {first}
<1>1. \A p, q \in V : /\ Proved!CompareOperation(p, q) \in Int
                      /\ Proved!CompareOperation(p, q) = 0 <=> p = q
                      /\ Proved!CompareOperation(p, q) > 0 <=> Proved!CompareOperation(q, p) < 0
    BY DEF Proved!StrictOrder
<1>2. \A p, q \in V : Proved!CompareOperation(p, q) < 0 =>
          \A r \in V : Proved!CompareOperation(q, r) < 0 => Proved!CompareOperation(p, r) < 0
    <2> SUFFICES ASSUME NEW p \in V, NEW q \in V, NEW r \in V,
                        Proved!CompareOperation(p, q) < 0, Proved!CompareOperation(q, r) < 0
                 PROVE  Proved!CompareOperation(p, r) < 0
        OBVIOUS
    <2>1. q \in U /\ r \in U
        OBVIOUS
    <2>2. CASE p = first
        BY <2>1, <2>2
    <2>3. CASE p \in U
        BY <2>1, <2>3 DEF Proved!StrictOrder
    <2> QED
        BY <2>2, <2>3
<1> QED
    BY <1>1, <1>2 DEF Proved!StrictOrder

\* An edit has no operation yet, so no log contains it.
LEMMA EditIsNotContained ==
    ASSUME NEW s \in Sites, NEW U, Proved!StrictOrder(U), NEW w \in Proved!SortedOver(U),
           \A o \in U : o.id \in LogicalIds /\ 1 <= GetLogicalClock(o.id),
           NEW local, local.id = [siteId |-> s, clock |-> NewVectorClock]
    PROVE  ~contains(w, local)
<1>1. PICK z : z = local.id
    OBVIOUS
<1>2. z.siteId = s /\ z.clock = [t \in Sites |-> 0] /\ GetLogicalClock(z) = 0
    BY <1>1 DEF NewVectorClock, MinValue, GetLogicalClock
<1>a. ASSUME NEW o \in U
      PROVE  /\ HappenedBefore(local.id, o.id) /\ ~HappenedBefore(o.id, local.id)
             /\ ~equals(local.id, o.id) /\ ~equals(o.id, local.id)
    <2>1. PICK y : y = o.id
        OBVIOUS
    <2>2. PICK i : i = y.siteId
        OBVIOUS
    <2>3. y \in LogicalIds /\ 1 <= GetLogicalClock(y)
        BY <1>a, <2>1
    <2>4. i \in Sites /\ y.clock \in VectorClocks /\ 1 <= y.clock[i]
        BY <2>2, <2>3 DEF LogicalIds, GetLogicalClock
    <2>5. \A t \in Sites : z.clock[t] = 0 /\ y.clock[t] \in Nat
        BY <1>2, <2>4 DEF VectorClocks
    <2>6. ASSUME NEW t \in Sites PROVE z.clock[t] <= y.clock[t]
        <3>1. \A m, n : m = 0 /\ n \in Nat => m <= n
            OBVIOUS
        <3> QED
            BY <2>5, <3>1, Zenon
    <2>7. z.clock[i] < y.clock[i] /\ ~(y.clock[i] <= z.clock[i]) /\ y.clock[i] # 0
        BY <2>4, <2>5
    <2>8. HappenedBefore(z, y)
        BY <2>4, <2>6, <2>7 DEF HappenedBefore
    <2>9. ~HappenedBefore(y, z)
        BY <2>4, <2>7 DEF HappenedBefore
    <2>10. GetLogicalClock(y) # GetLogicalClock(z)
        BY <1>2, <2>2, <2>7 DEF GetLogicalClock
    <2> QED
        BY <1>1, <2>1, <2>8, <2>9, <2>10 DEF equals
<1>3. \A o \in U : CompareOperation(local, o) = -1 /\ CompareOperation(o, local) = 1
    BY <1>a DEF CompareOperation, Compare, less
<1>4. CompareOperation(local, local) = 0
    BY DEF CompareOperation, Compare, equals
<1>5. Proved!StrictOrder(U \cup {local})
    <2>1. Proved!CompareOperation(local, local) = 0
        BY <1>4, SameSearch
    <2>2. \A o \in U : Proved!CompareOperation(local, o) = -1 /\ Proved!CompareOperation(o, local) = 1
        BY <1>3, SameSearch
    <2> QED
        BY <2>1, <2>2, OrderExtendsDown
<1> DEFINE V == U \cup {local}
<1>6. w \in Proved!SortedOver(V) /\ local \in V
    <2>1. ToSet(w) \subseteq U
        BY LogTypes
    <2>2. Proved!ToSet(w) \subseteq V
        BY <2>1, SameOrder
    <2> HIDE DEF V
    <2>3. w \in Proved!SortedOver(V)
        BY <2>2, BoundOfPushes, Proved!SortedOverOwn
    <2> QED
        BY <2>3 DEF V
<1>7. contains(w, local) <=> local \in ToSet(w)
    <2> HIDE DEF V
    <2>1. Proved!StrictOrder(V)
        BY <1>5 DEF V
    <2> QED
        BY <1>6, <2>1, LogOperators
<1>8. local \notin ToSet(w)
    <2>1. ToSet(w) \subseteq U
        BY LogTypes
    <2>2. local \notin U
        BY <1>1, <1>2
    <2> QED
        BY <2>1, <2>2
<1> QED
    BY <1>7, <1>8

\* What an edit does to its site and log.
LEMMA EditComputes ==
    ASSUME NEW s, NEW local, site[s].fault = "none", ~contains(state[s], local),
           UpdateState(s, <<local>>)
    PROVE  \E r : /\ r = ComputeOp(site[s], local)
                  /\ r.err = "position" => Moves(s, r.site, state[s])
                  /\ r.err = "none" /\ r.site.fault = "none" =>
                        Moves(s, r.site, Merge(state[s], NewState(<<r>>)))
<1> DEFINE ops == <<local>>
           f == ComputeNewOps(s, ops)
           r == ComputeOp(site[s], local)
<1>1. Len(ops) = 1 /\ ops[1] = local
    OBVIOUS
<1>2. IsRun(f, s, ops, 1)
    BY <1>1, ComputeNewOpsRuns
<1>3. f[0] = [site |-> site[s], err |-> "contained"]
    BY <1>2 DEF IsRun
<1>4. f[1] = NextResult(s, f[0], ops[1])
    BY <1>2 DEF IsRun
<1>5. f[1] = r
    <2>1. f[0].err = "contained" /\ f[0].site = site[s]
        BY <1>3
    <2> HIDE DEF f, r, ops
    <2>2. f[1] = ComputeOp(f[0].site, ops[1])
        BY <1>1, <1>4, <2>1 DEF NextResult
    <2> QED
        BY <1>1, <2>1, <2>2 DEF r
<1>6. /\ site' = [site EXCEPT ![s] = f[1].site]
      /\ state' = [state EXCEPT ![s] =
                      IF f[1].err = "position" \/ f[1].site.fault # "none"
                      THEN @ ELSE Merge(@, NewState([k \in 1..1 |-> f[k]]))]
    BY <1>1 DEF UpdateState
<1>7. [k \in 1..1 |-> f[k]] = <<f[1]>>
    <2> HIDE DEF f
    <2> QED
        OBVIOUS
<1>8. /\ site' = [site EXCEPT ![s] = r.site]
      /\ state' = [state EXCEPT ![s] =
                      IF r.err = "position" \/ r.site.fault # "none"
                      THEN state[s] ELSE Merge(state[s], NewState(<<r>>))]
    <2> HIDE DEF f, r
    <2> QED
        BY <1>5, <1>6, <1>7
<1> HIDE DEF r
<1>9. r.err = "position" => Moves(s, r.site, state[s])
    BY <1>8 DEF Moves
<1>10. r.err = "none" /\ r.site.fault = "none" => Moves(s, r.site, Merge(state[s], NewState(<<r>>)))
    BY <1>8 DEF Moves
<1> QED
    BY <1>9, <1>10 DEF r

\* The log of one computed operation.
LEMMA NewStateOfOne ==
    ASSUME NEW U, Proved!StrictOrder(U), NEW op \in U, NEW r, r.err = "none", r.op = op
    PROVE  NewState(<<r>>) \in Proved!SortedOver(U) /\ ToSet(NewState(<<r>>)) = {op}
<1> DEFINE ops == <<op>>
           K == {1}
           results == <<r>>
<1>1. ops \in Seq(U) /\ Len(ops) = 1 /\ Len(results) = 1 /\ K \subseteq 1..1 /\ 1 \in Nat
    OBVIOUS
<1>2. \A k \in 1..1 : /\ results[k].err \in {"none", "pending"} <=> k \in K
                      /\ k \in K => results[k].op = ops[k]
    OBVIOUS
<1>3. {ops[k] : k \in K} = {op}
    OBVIOUS
<1> HIDE DEF ops, K, results
<1>4. PICK n \in Nat : n = 1
    OBVIOUS
<1>5. Len(ops) = n /\ Len(results) = n /\ K \subseteq 1..n
      /\ \A k \in 1..n : /\ results[k].err \in {"none", "pending"} <=> k \in K
                         /\ k \in K => results[k].op = ops[k]
    BY <1>1, <1>2, <1>4
<1>6. NewState(results) \in Proved!SortedOver(U)
    BY <1>1, <1>5, NewStateCollects
<1>7. Takes(NewState(results), ops, K)
    BY <1>1, <1>5, NewStateCollects
<1> QED
    BY <1>3, <1>6, <1>7 DEF Takes, results

-----------------------------------------------------------------------------
(* The inductive invariant of the document.                                *)

\* Every string is what its log says, in one order of all the characters.
StringsRead(rank) ==
    /\ Legal(Chars(Ops), rank)
    /\ \A s \in Sites : Reads(site[s].characters, s, ToSet(state[s]), rank)

\* The logs satisfy the invariant of SortedLogs, every site works and waits for
\* nothing, every operation names characters its author had, and the strings agree
\* on one order of all the characters there are, which none of them holds.
DocInv ==
    /\ Proved!LogsInv
    /\ LogsTyped
    /\ IsFiniteSet(pushed)
    /\ Documents
    /\ OpsOK(Ops)
    /\ \E rank : StringsRead(rank)

\* The order of no characters.
LEMMA FirstOrder ==
    \E rank : /\ Legal({}, rank)
              /\ \A s \in Sites : Reads(NewWString(s), s, {}, rank)
<1> DEFINE rank == [e \in CharIds |-> IF e.clock = 0 THEN 0 ELSE IF e.clock = MaxValue THEN 2 ELSE 1]
<1>1. \A e \in CharIds : e.clock \in Nat /\ (e.clock = 0 => e.clock # MaxValue)
    BY DEF CharIds
<1>2. rank \in Ranks
    <2>1. rank \in [CharIds -> Nat]
        OBVIOUS
    <2>2. \A e \in CharIds :
            /\ 2 > 0
            /\ e.clock = 0 => rank[e] = 0
            /\ e.clock = MaxValue => rank[e] = 2
            /\ ~IsLimiter(e) => 0 < rank[e] /\ rank[e] < 2
        BY <1>1 DEF IsLimiter
    <2>3. 2 \in Nat
        OBVIOUS
    <2> HIDE DEF rank
    <2> QED
        BY <2>1, <2>2, <2>3 DEF Ranks
<1>3. Legal({}, rank)
    <2> HIDE DEF rank
    <2> QED
        BY <1>2 DEF Legal, Placed, Distinct, OrderedByIds, Grounded
<1>4. ASSUME NEW s \in Sites PROVE Reads(NewWString(s), s, {}, rank)
    <2> DEFINE first == GetNewSpecialStartWChar(s)
               last == GetNewSpecialEndWChar(s)
               w == <<first, last>>
    <2>1. first \in Limiters /\ last \in Limiters
        BY DEF Limiters
    <2>2. first.id \in CharIds /\ first.id.clock = 0 /\ last.id \in CharIds /\ last.id.clock = MaxValue
        BY DEF CharIds, GetNewSpecialStartWChar, GetNewSpecialEndWChar, WCharacterId,
               SPECIAL_START_CHAR_CLOCK, SPECIAL_END_CHAR_CLOCK
    <2>3. rank[first.id] = 0 /\ rank[last.id] = 2
        BY <1>1, <2>2
    <2> HIDE DEF rank, first, last
    <2>4. w \in Seq(WChars \cup Limiters) /\ Len(w) = 2 /\ w[1] = first /\ w[2] = last
        BY <2>1
    <2>5. w[1] = GetNewSpecialStartWChar(s) /\ w[Len(w)] = GetNewSpecialEndWChar(s)
        BY <2>4 DEF first, last
    <2> HIDE DEF w
    <2>6. \A i, j \in 1..Len(w) : i < j => rank[w[i].id] < rank[w[j].id]
        <3>1. \A i, j \in 1..2 : i < j => i = 1 /\ j = 2
            OBVIOUS
        <3>2. rank[w[1].id] < rank[w[2].id]
            BY <2>3, <2>4
        <3> QED
            BY <2>4, <3>1, <3>2, Zenon
    <2>7. 2..(Len(w) - 1) = {} /\ Len(w) >= 2
        BY <2>4
    <2>8. Chars({}) = {} /\ Deleted({}) = {}
        BY DEF Chars, Deleted
    <2>9. IsString(w, s, {}, rank)
        BY <2>4, <2>5, <2>6, <2>7 DEF IsString
    <2>10. w = NewWString(s)
        BY DEF w, first, last, NewWString
    <2> QED
        BY <2>7, <2>8, <2>9, <2>10 DEF Reads
<1> QED
    BY <1>3, <1>4

\* The logs of the documents begin as those of SortedLogs.
LEMMA InitIsLogInit == Init => Proved!Init
<1> SUFFICES ASSUME Init PROVE Proved!Init
    OBVIOUS
<1>1. \A s \in Sites : site[s] = NewSite(s) /\ state[s] = EmptyState
    BY DEF Init
<1>2. [s \in Sites |-> site[s].clock] = [s \in Sites |-> Proved!NewVectorClock]
    <2>1. Proved!NewVectorClock = NewVectorClock
        BY DEF NewVectorClock, Proved!NewVectorClock, MinValue, Proved!MinValue
    <2>2. \A s \in Sites : NewSite(s).clock = NewVectorClock
        BY DEF NewSite
    <2>3. \A s \in Sites : site[s].clock = Proved!NewVectorClock
        BY <1>1, <2>1, <2>2
    <2> QED
        BY <2>3
<1>3. OnlyIds(EmptyState) = Proved!EmptyState
    BY DEF OnlyIds, EmptyState, Proved!EmptyState
<1>4. [s \in Sites |-> OnlyIds(state[s])] = [s \in Sites |-> Proved!EmptyState]
    BY <1>1, <1>3
<1> QED
    BY <1>2, <1>4 DEF Proved!Init, Init

\* The documents begin empty.
LEMMA DocInvInit == Init => DocInv
<1> SUFFICES ASSUME Init PROVE DocInv
    OBVIOUS
<1>1. \A s \in Sites : site[s] = NewSite(s) /\ state[s] = EmptyState
    BY DEF Init
<1>2. Ops = {}
    <2>1. ToSet(EmptyState) = {}
        BY BoundOfPushes, Proved!EmptyStateIsSorted, SameOrder DEF EmptyState, Proved!EmptyState
    <2> QED
        BY <1>1, <2>1 DEF Ops
<1>3. LogsTyped
    <2>1. EmptyState \in Proved!SortedOver(Ops)
        BY BoundOfPushes, Proved!EmptyStateIsSorted DEF EmptyState, Proved!EmptyState
    <2>2. state \in [Sites -> Proved!SortedOver(Ops)]
        BY <2>1 DEF Init
    <2> QED
        BY <1>2, <2>2 DEF LogsTyped, IdsTell, Init
<1>4. Documents
    <2>1. \A s \in Sites : Running(NewSite(s), s)
        <3> SUFFICES ASSUME NEW s \in Sites PROVE Running(NewSite(s), s)
            OBVIOUS
        <3>1. NewVectorClock \in VectorClocks
            BY DEF NewVectorClock, VectorClocks, MinValue
        <3>2. NewWString(s) \in Seq(WChars \cup Limiters)
            <4>1. GetNewSpecialStartWChar(s) \in Limiters /\ GetNewSpecialEndWChar(s) \in Limiters
                BY DEF Limiters
            <4> QED
                BY <4>1 DEF NewWString
        <3>3. NewSite(s) \in Site
            <4>1. <<>> \in Seq(WootOperations)
                OBVIOUS
            <4> QED
                BY <3>1, <3>2, <4>1 DEF NewSite, Site, Faults
        <3> QED
            BY <3>3 DEF Running, NewSite
    <2>2. site \in [Sites -> Site]
        BY <2>1 DEF Init, Running
    <2> QED
        BY <1>1, <2>1, <2>2 DEF Documents
<1>5. OpsOK(Ops)
    BY <1>2 DEF OpsOK
<1>6. IsFiniteSet(pushed)
    BY FS_EmptySet DEF Init
<1>7. \E rank : StringsRead(rank)
    <2>1. PICK rank : /\ Legal({}, rank)
                      /\ \A s \in Sites : Reads(NewWString(s), s, {}, rank)
        BY FirstOrder
    <2>2. Chars(Ops) = {}
        BY <1>2 DEF Chars
    <2>3. \A s \in Sites : site[s].characters = NewWString(s) /\ ToSet(state[s]) = {}
        <3>1. \A s \in Sites : NewSite(s).characters = NewWString(s)
            BY DEF NewSite
        <3>2. \A s \in Sites : ToSet(state[s]) \subseteq Ops
            BY DEF Ops
        <3> QED
            BY <1>1, <1>2, <3>1, <3>2
    <2> QED
        BY <2>1, <2>2, <2>3 DEF StringsRead
<1>8. Proved!Init
    BY InitIsLogInit
<1>9. Proved!LogsInv
    BY <1>8, BoundOfPushes, Proved!LogsInvInit
<1> QED
    BY <1>3, <1>4, <1>5, <1>6, <1>7, <1>9 DEF DocInv

-----------------------------------------------------------------------------
(* Steps.                                                                  *)

\* A step that adds the operations of N to one site, whose string reads them
\* in an order that the other strings keep.
Adding(s, x, w, N, rank) ==
    /\ Running(x, s)
    /\ ToSet(w) = ToSet(state[s]) \cup N
    /\ w \in Proved!SortedOver(Ops \cup N)
    /\ IdsTell(Ops \cup N)
    /\ OpsOK(Ops \cup N)
    /\ Legal(Chars(Ops \cup N), rank)
    /\ Reads(x.characters, s, ToSet(w), rank)
    /\ \A t \in Sites : t # s => Reads(site[t].characters, t, ToSet(state[t]), rank)

\* Such a step keeps the invariant, when it keeps that of the logs.
LEMMA AddingKeeps ==
    ASSUME LogsTyped, IsFiniteSet(pushed), Documents, NEW s \in Sites, NEW x, NEW w, NEW N, NEW rank,
           Adding(s, x, w, N, rank), Moves(s, x, w), pushed' = pushed, Proved!LogsInv'
    PROVE  DocInv'
<1>1. state \in [Sites -> Proved!SortedOver(Ops)] /\ pushed \subseteq Proved!SortedOver(Ops)
    BY DEF LogsTyped
<1>2. DOMAIN site = Sites /\ DOMAIN state = Sites
    BY <1>1 DEF Documents
<1>3. \A t \in Sites : /\ site'[t] = IF t = s THEN x ELSE site[t]
                       /\ state'[t] = IF t = s THEN w ELSE state[t]
    BY <1>2 DEF Moves
<1>4. Ops' = Ops \cup N
    <2>1. Ops' = UNION {ToSet(state'[t]) : t \in Sites}
        BY DEF Ops, ToSet
    <2>2. \A t \in Sites : ToSet(state'[t]) = IF t = s THEN ToSet(state[s]) \cup N ELSE ToSet(state[t])
        BY <1>3 DEF Adding
    <2>3. ToSet(state[s]) \subseteq Ops
        BY DEF Ops
    <2> QED
        BY <2>1, <2>2 DEF Ops
<1>5. \A v \in Proved!SortedOver(Ops) : v \in Proved!SortedOver(Ops')
    <2> SUFFICES ASSUME NEW v \in Proved!SortedOver(Ops) PROVE v \in Proved!SortedOver(Ops')
        OBVIOUS
    <2>1. ToSet(v) \subseteq Ops'
        BY <1>4, LogTypes
    <2>2. Proved!ToSet(v) \subseteq Ops'
        BY <2>1, SameOrder
    <2>3. PICK V : V = Ops'
        OBVIOUS
    <2>4. Proved!ToSet(v) \subseteq V
        BY <2>2, <2>3
    <2>5. v \in Proved!SortedOver(V)
        BY <2>4, BoundOfPushes, Proved!SortedOverOwn
    <2> QED
        BY <2>3, <2>5
<1>6. state' \in [Sites -> Proved!SortedOver(Ops')]
    <2>1. w \in Proved!SortedOver(Ops')
        BY <1>4 DEF Adding
    <2>2. state' = [state EXCEPT ![s] = w]
        BY DEF Moves
    <2>3. \A t \in Sites : state'[t] \in Proved!SortedOver(Ops')
        BY <1>1, <1>3, <1>5, <2>1
    <2> QED
        BY <1>2, <2>2, <2>3
<1>7. LogsTyped'
    <2>1. pushed' \subseteq Proved!SortedOver(Ops')
        BY <1>1, <1>5
    <2>2. IdsTell(Ops)'
        BY <1>4 DEF Adding, IdsTell
    <2> QED
        BY <1>6, <2>1, <2>2 DEF LogsTyped
<1>8. IsFiniteSet(pushed)'
    OBVIOUS
<1>9. Documents'
    <2>1. \A t \in Sites : Running(site'[t], t)
        BY <1>3 DEF Adding, Documents
    <2>2. site' \in [Sites -> Site]
        <3>1. x \in Site
            BY DEF Adding, Running
        <3> QED
            BY <3>1 DEF Moves, Documents
    <2> QED
        BY <2>1, <2>2 DEF Documents, Running
<1>10. OpsOK(Ops)'
    BY <1>4 DEF Adding, OpsOK, OpOK, Comes
<1>11. StringsRead(rank)'
    <2>1. \A t \in Sites : Reads(site'[t].characters, t, ToSet(state'[t]), rank)
        BY <1>3 DEF Adding
    <2>2. Legal(Chars(Ops'), rank)
        BY <1>4 DEF Adding
    <2> QED
        BY <2>1, <2>2 DEF StringsRead, Chars
<1> QED
    BY <1>7, <1>8, <1>9, <1>10, <1>11 DEF DocInv

\* A step of SortedLogs keeps what is proved about the logs.
LEMMA LogsStep ==
    ASSUME NEW a, NEW b, Sites = {a, b}, Proved!LogsInv, Proved!Next
    PROVE  Proved!LogsInv'
<1>1. [Proved!Next]_(Proved!vars)
    OBVIOUS
<1> QED
    BY <1>1, BoundOfPushes, Proved!LogsInvNext

\* A payload that is handled.
LEMMA DeliverKeeps ==
    ASSUME NEW a, NEW b, Sites = {a, b}, DocInv, NEW s \in Sites, Deliver(s)
    PROVE  DocInv' /\ Proved!Next
<1>1. PICK ops \in pushed : UpdateState(s, ops)
    BY DEF Deliver
<1>2. pushed' = pushed
    BY DEF Deliver
<1>3. /\ Proved!LogsInv /\ LogsTyped /\ IsFiniteSet(pushed) /\ Documents /\ OpsOK(Ops)
      /\ \E rank : StringsRead(rank)
    BY DEF DocInv
<1>4. PICK rank : StringsRead(rank)
    BY <1>3
<1>5. /\ Proved!StrictOrder(Ops)
      /\ CausesFirst(Ops)
      /\ OneEach(Ops)
      /\ \A o \in Ops : o.id \in LogicalIds
    BY <1>3, OpsOrder DEF OneEach
<1>6. \A v \in {state[t] : t \in Sites} \cup pushed : Caused(ToSet(v), Ops)
    BY <1>3, OpsClose
<1>7. Caused(ToSet(state[s]), Ops) /\ Caused(ToSet(ops), Ops)
    BY <1>6
<1>8. state[s] \in Proved!SortedOver(Ops) /\ ops \in Proved!SortedOver(Ops)
    BY <1>3 DEF LogsTyped
<1>9. Running(site[s], s)
    BY <1>3 DEF Documents
<1>10. Legal(Chars(Ops), rank) /\ Reads(site[s].characters, s, ToSet(state[s]), rank)
    BY <1>4 DEF StringsRead
<1>11. PICK B : B = Ops
    OBVIOUS
<1>12. Updated(s, ops, rank)
    <2>1. /\ OpsOK(B) /\ OneEach(B) /\ Legal(Chars(B), rank) /\ Proved!StrictOrder(B)
          /\ state[s] \in Proved!SortedOver(B) /\ Caused(ToSet(state[s]), B)
          /\ ops \in Proved!SortedOver(B) /\ Caused(ToSet(ops), B) /\ CausesFirst(B)
        BY <1>3, <1>5, <1>7, <1>8, <1>10, <1>11
    <2> QED
        BY <1>1, <1>9, <1>10, <2>1, PayloadUpdates
<1>13. PICK x, w :
        /\ site' = [site EXCEPT ![s] = x]
        /\ state' = [state EXCEPT ![s] = w]
        /\ Running(x, s)
        /\ Reads(x.characters, s, ToSet(state[s]) \cup ToSet(ops), rank)
        /\ IsJoin(x.clock, site[s].clock, IdsIn(ToSet(ops) \ ToSet(state[s])))
        /\ \E new \in Proved!SortedOver(ToSet(state[s]) \cup ToSet(ops)) :
              ToSet(new) = ToSet(ops) \ ToSet(state[s]) /\ w = Merge(state[s], new)
    BY <1>12 DEF Updated
<1>14. PICK U : U = ToSet(state[s]) \cup ToSet(ops)
    OBVIOUS
<1>15. PICK new \in Proved!SortedOver(U) :
              ToSet(new) = ToSet(ops) \ ToSet(state[s]) /\ w = Merge(state[s], new)
    BY <1>13, <1>14
<1>16. ToSet(state[s]) \subseteq Ops /\ ToSet(ops) \subseteq Ops
    BY <1>8, LogTypes
<1>17. new \in Proved!SortedOver(B)
    <2>1. Proved!ToSet(new) \subseteq B
        BY <1>11, <1>15, <1>16, SameOrder
    <2> QED
        BY <1>15, <2>1, BoundOfPushes, Proved!SortedOverOwn
<1>18. new \in Proved!SortedOver(Ops)
    BY <1>11, <1>17
<1>19. Moves(s, x, w)
    BY <1>13 DEF Moves
<1>20. /\ Proved!Deliver(s, OnlyIds(ops))
       /\ w \in Proved!SortedOver(Ops)
       /\ ToSet(w) = ToSet(state[s]) \cup ToSet(ops)
    BY <1>2, <1>3, <1>5, <1>13, <1>15, <1>18, <1>19, UpdateDelivers
<1>21. Proved!Next
    <2>1. OnlyIds(ops) \in {OnlyIds(v) : v \in pushed}
        OBVIOUS
    <2> QED
        BY <1>20, <2>1 DEF Proved!Next
<1>22. Proved!LogsInv'
    BY <1>3, <1>21, LogsStep
<1>23. Adding(s, x, w, ToSet(ops), rank)
    <2>1. Ops \cup ToSet(ops) = Ops
        BY <1>16
    <2>2. Reads(x.characters, s, ToSet(w), rank)
        BY <1>13, <1>20
    <2>3. \A t \in Sites : t # s => Reads(site[t].characters, t, ToSet(state[t]), rank)
        BY <1>4 DEF StringsRead
    <2>4. IdsTell(Ops)
        BY <1>3 DEF LogsTyped
    <2> QED
        BY <1>3, <1>10, <1>13, <1>20, <2>1, <2>2, <2>3, <2>4 DEF Adding
<1>24. DocInv'
    BY <1>2, <1>3, <1>19, <1>22, <1>23, AddingKeeps
<1> QED
    BY <1>21, <1>24

\* An edit that makes an operation.
LEMMA EditKeeps ==
    ASSUME NEW a, NEW b, Sites = {a, b}, DocInv, NEW s \in Sites, site[s].clock[s] + 1 < MaxValue,
           pushed' = pushed, NEW local, local.id = [siteId |-> s, clock |-> NewVectorClock],
           UpdateState(s, <<local>>),
           NEW op, op.id = NewLid(site[s], s), NEW v,
           ComputeOp(site[s], local) = Computed(With(site[s], Increment(site[s].clock, s), v), op),
           OpOK(op, Ops \cup {op}), NEW rank, Legal(Chars(Ops \cup {op}), rank),
           Reads(v, s, ToSet(state[s]) \cup {op}, rank),
           \A t \in Sites : t # s => Reads(site[t].characters, t, ToSet(state[t]), rank)
    PROVE  DocInv' /\ Proved!Next
<1>1. /\ Proved!LogsInv /\ LogsTyped /\ IsFiniteSet(pushed) /\ Documents /\ OpsOK(Ops)
    BY DEF DocInv
<1>2. /\ Proved!StrictOrder(Ops)
      /\ \A o \in Ops : o.id \in LogicalIds
    BY <1>1, OpsOrder
<1>3. \A o \in Ops : o.id.siteId \in Sites => 1 <= GetLogicalClock(o.id)
    BY <1>1, OpsClose
<1>4. state[s] \in Proved!SortedOver(Ops)
    BY <1>1 DEF LogsTyped
<1>5. Running(site[s], s) /\ site[s].siteId = s /\ site[s].fault = "none"
    BY <1>1 DEF Documents, Running
<1>6. site[s].clock[s] < MaxValue
    <2>1. site[s].clock[s] \in Nat
        BY <1>5 DEF Running, Site, VectorClocks
    <2> QED
        BY <2>1
<1>7. /\ op.id \notin IdsIn(Ops)
      /\ Proved!IsAfter(op, ToSet(state[s]))
      /\ Proved!CompareOperation(op, op) = 0
    BY <1>1, <1>5, <1>6, NewOpIsAbove
<1>8. ToSet(state[s]) \subseteq Ops
    BY <1>4, LogTypes
<1>9. PICK A : A = ToSet(state[s])
    OBVIOUS
<1>10. Proved!StrictOrder(A)
    <2>1. PICK B : B = Ops
        OBVIOUS
    <2> QED
        BY <1>2, <1>8, <1>9, <2>1, BoundOfPushes, Proved!OrderOfPart
<1>11. Proved!StrictOrder(ToSet(state[s]) \cup {op})
    BY <1>7, <1>9, <1>10, BoundOfPushes, Proved!OrderExtends
<1>12. ~contains(state[s], local)
    <2>1. PICK B : B = Ops
        OBVIOUS
    <2>2. \A o \in B : o.id \in LogicalIds /\ 1 <= GetLogicalClock(o.id)
        BY <1>2, <1>3, <2>1 DEF LogicalIds
    <2> QED
        BY <1>2, <1>4, <2>1, <2>2, EditIsNotContained
<1>13. PICK r : /\ r = ComputeOp(site[s], local)
                /\ r.err = "none" /\ r.site.fault = "none" =>
                        Moves(s, r.site, Merge(state[s], NewState(<<r>>)))
    BY <1>5, <1>12, EditComputes
<1>14. PICK x : x = With(site[s], Increment(site[s].clock, s), v)
    OBVIOUS
<1>15. r.site = x /\ r.op = op /\ r.err = "none"
    BY <1>13, <1>14 DEF Computed
<1>16. Running(x, s) /\ x.clock = Increment(site[s].clock, s) /\ x.characters = v
    <2>1. Increment(site[s].clock, s) \in VectorClocks
        BY <1>5, TickedClock
    <2>2. IsString(v, s, Chars(ToSet(state[s]) \cup {op}), rank)
        BY DEF Reads
    <2> QED
        BY <1>5, <1>14, <2>1, <2>2, RunsOn
<1>17. PICK new : new = NewState(<<r>>)
    OBVIOUS
<1>18. PICK w : w = Merge(state[s], new)
    OBVIOUS
<1>19. Moves(s, x, w)
    BY <1>13, <1>15, <1>16, <1>17, <1>18 DEF Running
<1>20. new \in Proved!SortedOver(ToSet(state[s]) \cup {op}) /\ ToSet(new) = {op}
    <2>1. PICK U : U = ToSet(state[s]) \cup {op}
        OBVIOUS
    <2>2. op \in U /\ Proved!StrictOrder(U)
        BY <1>11, <2>1
    <2>3. NewState(<<r>>) \in Proved!SortedOver(U) /\ ToSet(NewState(<<r>>)) = {op}
        BY <1>15, <2>2, NewStateOfOne
    <2> QED
        BY <1>17, <2>1, <2>3
<1>21. /\ Proved!Generate(s)
       /\ w \in Proved!SortedOver(ToSet(state[s]) \cup {op})
       /\ ToSet(w) = ToSet(state[s]) \cup {op}
    BY <1>1, <1>6, <1>7, <1>11, <1>16, <1>18, <1>19, <1>20, EditGenerates
<1>22. Proved!Next
    BY <1>21 DEF Proved!Next
<1>23. Proved!LogsInv'
    BY <1>1, <1>22, LogsStep
<1>24. Adding(s, x, w, {op}, rank)
    <2>1. w \in Proved!SortedOver(Ops \cup {op})
        <3>1. PICK U : U = ToSet(state[s]) \cup {op}
            OBVIOUS
        <3>2. PICK V : V = Ops \cup {op}
            OBVIOUS
        <3>3. Proved!ToSet(w) \subseteq V
            BY <1>8, <1>21, <3>2, SameOrder
        <3>4. w \in Proved!SortedOver(V)
            BY <1>21, <3>1, <3>3, BoundOfPushes, Proved!SortedOverOwn
        <3> QED
            BY <3>2, <3>4
    <2>2. IdsTell(Ops \cup {op})
        BY <1>1, <1>7 DEF LogsTyped, IdsTell, IdsIn
    <2>3. OpsOK(Ops \cup {op})
        <3>1. ASSUME NEW o \in Ops PROVE OpOK(o, Ops \cup {op})
            <4>1. OpOK(o, Ops)
                BY <1>1, <3>1 DEF OpsOK
            <4>2. \A n : Comes(n, o, Ops) => Comes(n, o, Ops \cup {op})
                BY DEF Comes
            <4> QED
                BY <4>1, <4>2 DEF OpOK
        <3> QED
            BY <3>1 DEF OpsOK
    <2>4. Reads(x.characters, s, ToSet(w), rank)
        BY <1>16, <1>21
    <2> QED
        BY <1>16, <1>21, <2>1, <2>2, <2>3, <2>4 DEF Adding
<1>25. DocInv'
    BY <1>1, <1>19, <1>23, <1>24, AddingKeeps
<1> QED
    BY <1>22, <1>25

\* What the invariant says of one site before an edit.
LEMMA SiteReads ==
    ASSUME NEW a, NEW b, Sites = {a, b}, DocInv, NEW rank, StringsRead(rank), NEW s \in Sites
    PROVE  /\ Running(site[s], s)
           /\ Legal(Chars(Ops), rank)
           /\ ToSet(state[s]) \subseteq Ops
           /\ Chars(ToSet(state[s])) \subseteq Chars(Ops)
           /\ Legal(Chars(ToSet(state[s])), rank)
           /\ Deleted(ToSet(state[s])) \subseteq Names(Chars(ToSet(state[s])))
           /\ Reads(site[s].characters, s, ToSet(state[s]), rank)
           /\ [siteId |-> s, clock |-> site[s].clock[s] + 1] \notin Names(Chars(Ops))
<1>1. Proved!LogsInv /\ LogsTyped /\ Documents /\ OpsOK(Ops)
    BY DEF DocInv
<1>2. Running(site[s], s)
    BY <1>1 DEF Documents
<1>3. Legal(Chars(Ops), rank) /\ Reads(site[s].characters, s, ToSet(state[s]), rank)
    BY DEF StringsRead
<1>4. ToSet(state[s]) \subseteq Ops
    BY DEF Ops
<1>5. Chars(ToSet(state[s])) \subseteq Chars(Ops)
    BY <1>4 DEF Chars
<1>6. Caused(ToSet(state[s]), Ops)
    BY <1>1, OpsClose
<1>7. PICK B, A : B = Ops /\ A = ToSet(state[s])
    OBVIOUS
<1>8. Closed(A)
    BY <1>1, <1>4, <1>6, <1>7, CausedIsClosed
<1>9. Legal(Chars(A), rank) /\ Deleted(A) \subseteq Names(Chars(A))
    BY <1>3, <1>4, <1>7, <1>8, ClosedIsLegal
<1>10. [siteId |-> s, clock |-> site[s].clock[s] + 1] \notin Names(Chars(Ops))
    <2> SUFFICES ASSUME NEW o \in Ops, o.type = "Insertion",
                        o.char.id = [siteId |-> s, clock |-> site[s].clock[s] + 1]
                 PROVE  FALSE
        BY DEF Names, Chars
    <2>1. /\ o.char.id = [siteId |-> o.id.siteId, clock |-> GetLogicalClock(o.id)]
          /\ GetLogicalClock(o.id) \in 1..(MaxValue - 1)
        BY <1>1 DEF OpsOK, OpOK
    <2>2. PICK i, k : i = o.id.siteId /\ k = GetLogicalClock(o.id)
        OBVIOUS
    <2>3. PICK m : m = site[s].clock[s]
        OBVIOUS
    <2>4. m \in Nat
        BY <1>2, <2>3 DEF Running, Site, VectorClocks
    <2>5. [siteId |-> i, clock |-> k] = [siteId |-> s, clock |-> m + 1]
        BY <2>1, <2>2, <2>3
    <2>6. i = s /\ k = m + 1
        <3>1. [siteId |-> i, clock |-> k].siteId = i /\ [siteId |-> i, clock |-> k].clock = k
            OBVIOUS
        <3>2. [siteId |-> s, clock |-> m + 1].siteId = s /\ [siteId |-> s, clock |-> m + 1].clock = m + 1
            OBVIOUS
        <3> QED
            BY <2>5, <3>1, <3>2, Zenon
    <2>7. k <= m
        BY <1>1, <2>2, <2>3, <2>6, OpsClose
    <2> QED
        BY <2>4, <2>6, <2>7
<1> QED
    BY <1>2, <1>3, <1>4, <1>5, <1>7, <1>9, <1>10

\* A character the author had was inserted before.
LEMMA AuthorHad ==
    ASSUME Proved!LogsInv, LogsTyped, NEW s \in Sites, site[s].siteId = s, site[s].clock[s] < MaxValue,
           NEW op, op.id = NewLid(site[s], s), NEW n, n \in Names(Chars(ToSet(state[s])))
    PROVE  Comes(n, op, Ops \cup {op})
<1>1. PICK o \in ToSet(state[s]) : o.type = "Insertion" /\ o.char.id = n
    BY DEF Names, Chars
<1>2. HappenedBefore(o.id, op.id)
    BY NewOpIsAbove
<1>3. o \in Ops
    BY DEF Ops
<1> QED
    BY <1>1, <1>2, <1>3 DEF Comes

\* A site keeps its text when it has made an order for one more character.
LEMMA OthersRead ==
    ASSUME NEW rank, StringsRead(rank), NEW new, Keeps(Chars(Ops), rank, new), NEW t \in Sites
    PROVE  Reads(site[t].characters, t, ToSet(state[t]), new)
<1>1. Legal(Chars(Ops), rank) /\ Reads(site[t].characters, t, ToSet(state[t]), rank)
    BY DEF StringsRead
<1>2. Chars(ToSet(state[t])) \in SUBSET Chars(Ops)
    BY DEF Chars, Ops
<1>3. PICK C, D, w : C = Chars(Ops) /\ D = Chars(ToSet(state[t])) /\ w = site[t].characters
    OBVIOUS
<1>4. IsString(w, t, D, rank)
    BY <1>1, <1>3 DEF Reads
<1>5. IsString(w, t, D, new)
    BY <1>1, <1>2, <1>3, <1>4, StringKeepsOrder
<1> QED
    BY <1>1, <1>3, <1>5 DEF Reads

\* The length of the text is the number of characters that are seen.
LEMMA LengthOfText ==
    ASSUME NEW s \in Sites, Running(site[s], s)
    PROVE  0..TextLength(s) = Aims(site[s].characters) /\ TextLength(s) \in Nat
<1>1. PICK w : w = site[s].characters
    OBVIOUS
<1>2. w \in Seq(WChars \cup Limiters)
    BY <1>1 DEF Running, Site
<1>3. PICK n \in Nat : n = Len(w)
    BY <1>2, LenProperties
<1>4. PICK v : v = VisiblePositions(w, TRUE)
    OBVIOUS
<1>5. v \in Seq(Nat)
    <2>1. PICK flag : flag = TRUE
        OBVIOUS
    <2>2. \E f \in [0..n -> Seq(Nat)] : Collects(f, w, flag) /\ VisiblePositions(w, flag) = f[n]
        BY <1>3, VisiblePositionsCollects, ZenonT(60)
    <2>3. v = VisiblePositions(w, flag)
        BY <1>4, <2>1, Zenon
    <2> QED
        BY <2>2, <2>3
<1>6. Len(v) \in Nat
    BY <1>5, LenProperties
<1>7. Len([k \in 1..Len(v) |-> w[v[k]].alphaValue]) = Len(v)
    <2>1. PICK m \in Nat : m = Len(v)
        BY <1>6
    <2>2. Len([k \in 1..m |-> w[v[k]].alphaValue]) = m
        OBVIOUS
    <2> QED
        BY <2>1, <2>2
<1>8. GetVisibleContent(w) = [k \in 1..Len(v) |-> w[v[k]].alphaValue]
    BY <1>4 DEF GetVisibleContent
<1> QED
    BY <1>1, <1>4, <1>6, <1>7, <1>8 DEF TextLength, Aims

\* The bounds of the ticks keep the clocks below their saturation.
LEMMA ClockHasRoom ==
    ASSUME NEW s \in Sites, MaxTicks[s] < MaxValue, Running(site[s], s), WithinBounds(s)
    PROVE  site[s].clock[s] + 1 < MaxValue /\ site[s].clock[s] < MaxValue
<1>1. PICK m : m = site[s].clock[s]
    OBVIOUS
<1>2. PICK k : k = MaxTicks[s]
    OBVIOUS
<1>3. m \in Nat
    BY <1>1 DEF Running, Site, VectorClocks
<1>4. k \in Nat
    <2>1. MaxTicks \in [Sites -> 0..MaxValue]
        BY BoundsAssumption, Zenon
    <2> QED
        BY <1>2, <2>1
<1>5. m < k /\ k < MaxValue
    BY <1>1, <1>2 DEF WithinBounds
<1> QED
    BY <1>1, <1>3, <1>4, <1>5

\* A step that leaves the documents as they are.
LEMMA QuietKeeps ==
    ASSUME NEW a, NEW b, Sites = {a, b}, DocInv, site' = site, state' = state, pushed' = pushed
    PROVE  DocInv' /\ UNCHANGED (Proved!vars)
<1>1. UNCHANGED (Proved!vars)
    BY DEF Proved!vars
<1>2. [Proved!Next]_(Proved!vars)
    BY <1>1
<1>3. Proved!LogsInv'
    BY <1>2, BoundOfPushes, Proved!LogsInvNext DEF DocInv
<1>4. /\ LogsTyped /\ IsFiniteSet(pushed) /\ Documents /\ OpsOK(Ops)
      /\ \E rank : StringsRead(rank)
    BY DEF DocInv
<1>5. PICK rank : StringsRead(rank)
    BY <1>4
<1>6. Ops' = Ops
    BY DEF Ops, ToSet
<1>7. LogsTyped'
    BY <1>4, <1>6 DEF LogsTyped, IdsTell
<1>8. Documents'
    BY <1>4 DEF Documents, Running
<1>9. OpsOK(Ops)'
    BY <1>4, <1>6 DEF OpsOK, OpOK, Comes
<1>10. StringsRead(rank)'
    BY <1>5, <1>6 DEF StringsRead, Chars, ToSet
<1> QED
    BY <1>1, <1>3, <1>4, <1>7, <1>8, <1>9, <1>10 DEF DocInv

\* A push.
LEMMA PushKeeps ==
    ASSUME NEW a, NEW b, Sites = {a, b}, DocInv, NEW s \in Sites, Push(s)
    PROVE  DocInv' /\ Proved!Next
<1>1. /\ Proved!LogsInv /\ LogsTyped /\ IsFiniteSet(pushed) /\ Documents /\ OpsOK(Ops)
      /\ \E rank : StringsRead(rank)
    BY DEF DocInv
<1>2. Proved!Next
    <2>1. Proved!Push(s)
        BY <1>1, PushIsPush
    <2> QED
        BY <2>1 DEF Proved!Next
<1>3. Proved!LogsInv'
    BY <1>1, <1>2, LogsStep
<1>4. site' = site /\ state' = state /\ pushed' = pushed \cup {state[s]}
    BY DEF Push
<1>5. PICK rank : StringsRead(rank)
    BY <1>1
<1>6. Ops' = Ops
    BY <1>4 DEF Ops, ToSet
<1>7. LogsTyped'
    BY <1>1, <1>4, <1>6 DEF LogsTyped, IdsTell
<1>8. Documents'
    BY <1>1, <1>4 DEF Documents, Running
<1>9. OpsOK(Ops)'
    BY <1>1, <1>6 DEF OpsOK, OpOK, Comes
<1>10. StringsRead(rank)'
    BY <1>4, <1>5, <1>6 DEF StringsRead, Chars, ToSet
<1>11. IsFiniteSet(pushed)'
    BY <1>1, <1>4, FS_AddElement
<1> QED
    BY <1>2, <1>3, <1>7, <1>8, <1>9, <1>10, <1>11 DEF DocInv

\* The result of ComputeOp for an edit that is refused.
LEMMA RefusalComputes ==
    ASSUME NEW a, NEW b, Sites = {a, b}, DocInv, NEW s \in Sites, pushed' = pushed,
           NEW local, local.id = [siteId |-> s, clock |-> NewVectorClock],
           UpdateState(s, <<local>>),
           NEW x, ComputeOp(site[s], local) = Refused(x, local, "position")
    PROVE  Moves(s, x, state[s])
<1>1. Proved!LogsInv /\ LogsTyped /\ Documents
    BY DEF DocInv
<1>2. /\ Proved!StrictOrder(Ops)
      /\ \A o \in Ops : o.id \in LogicalIds
    BY <1>1, OpsOrder
<1>3. \A o \in Ops : o.id.siteId \in Sites => 1 <= GetLogicalClock(o.id)
    BY <1>1, OpsClose
<1>4. state[s] \in Proved!SortedOver(Ops)
    BY <1>1 DEF LogsTyped
<1>5. site[s].fault = "none"
    BY <1>1 DEF Documents, Running
<1>6. ~contains(state[s], local)
    <2>1. PICK B : B = Ops
        OBVIOUS
    <2>2. \A o \in B : o.id \in LogicalIds /\ 1 <= GetLogicalClock(o.id)
        BY <1>2, <1>3, <2>1 DEF LogicalIds
    <2> QED
        BY <1>2, <1>4, <2>1, <2>2, EditIsNotContained
<1>7. PICK r : r = ComputeOp(site[s], local) /\ (r.err = "position" => Moves(s, r.site, state[s]))
    BY <1>5, <1>6, EditComputes
<1>8. r.err = "position" /\ r.site = x
    BY <1>7 DEF Refused
<1> QED
    BY <1>7, <1>8

\* An insertion before the text.
LEMMA RefusedInsertionKeeps ==
    ASSUME NEW a, NEW b, Sites = {a, b}, DocInv, NEW s \in Sites, pushed' = pushed,
           site[s].clock[s] + 1 < MaxValue, site[s].clock[s] < MaxValue,
           NEW local, local.id = [siteId |-> s, clock |-> NewVectorClock],
           UpdateState(s, <<local>>),
           ComputeOp(site[s], local) =
               Refused(With(site[s], Increment(site[s].clock, s), site[s].characters), local, "position")
    PROVE  DocInv' /\ Proved!Next
<1>1. /\ Proved!LogsInv /\ LogsTyped /\ IsFiniteSet(pushed) /\ Documents /\ OpsOK(Ops)
      /\ \E rank : StringsRead(rank)
    BY DEF DocInv
<1>2. PICK rank : StringsRead(rank)
    BY <1>1
<1>3. PICK x : x = With(site[s], Increment(site[s].clock, s), site[s].characters)
    OBVIOUS
<1>4. Moves(s, x, state[s])
    BY <1>3, RefusalComputes
<1>5. Running(site[s], s) /\ Reads(site[s].characters, s, ToSet(state[s]), rank)
      /\ Legal(Chars(Ops), rank)
    BY <1>1, <1>2 DEF Documents, StringsRead
<1>6. Running(x, s) /\ x.clock = Increment(site[s].clock, s) /\ x.characters = site[s].characters
    <2>1. Increment(site[s].clock, s) \in VectorClocks
        BY <1>5, TickedClock
    <2>2. IsString(site[s].characters, s, Chars(ToSet(state[s])), rank)
        BY <1>5 DEF Reads
    <2> QED
        BY <1>3, <1>5, <2>1, <2>2, RunsOn
<1>7. Proved!Next
    <2>1. DOMAIN site = Sites /\ DOMAIN state = Sites
        BY <1>1 DEF Documents, LogsTyped
    <2>2. Proved!Refuse(s)
        BY <1>4, <1>6, <2>1, EditRefuses
    <2> QED
        BY <2>2 DEF Proved!Next
<1>8. Proved!LogsInv'
    BY <1>1, <1>7, LogsStep
<1>9. PICK w : w = state[s]
    OBVIOUS
<1>10. Adding(s, x, w, {}, rank)
    <2>1. Ops \cup {} = Ops /\ ToSet(state[s]) \cup {} = ToSet(state[s])
        OBVIOUS
    <2>2. w \in Proved!SortedOver(Ops) /\ IdsTell(Ops)
        BY <1>1, <1>9 DEF LogsTyped
    <2>3. \A t \in Sites : Reads(site[t].characters, t, ToSet(state[t]), rank)
        BY <1>2 DEF StringsRead
    <2> QED
        BY <1>1, <1>5, <1>6, <1>9, <2>1, <2>2, <2>3 DEF Adding
<1>11. DocInv'
    <2>1. Moves(s, x, w)
        BY <1>4, <1>9
    <2> QED
        BY <1>1, <1>8, <1>10, <2>1, AddingKeeps
<1> QED
    BY <1>7, <1>11

\* An insertion.
LEMMA InsertionKeeps ==
    ASSUME NEW a, NEW b, Sites = {a, b}, DocInv, NEW s \in Sites, pushed' = pushed,
           site[s].clock[s] + 1 < MaxValue, site[s].clock[s] < MaxValue,
           NEW local, local.id = [siteId |-> s, clock |-> NewVectorClock],
           ComputeOp(site[s], local) = GenerateIns(site[s], local),
           local.content \in Contents, local.pos \in Aims(site[s].characters),
           UpdateState(s, <<local>>)
    PROVE  DocInv' /\ Proved!Next
<1>1. Proved!LogsInv /\ LogsTyped /\ Documents /\ \E rank : StringsRead(rank)
    BY DEF DocInv
<1>2. PICK rank : StringsRead(rank)
    BY <1>1
<1>3. PICK A, C, x : A = ToSet(state[s]) /\ C = Chars(Ops) /\ x = site[s]
    OBVIOUS
<1>4. /\ Running(x, s)
      /\ Legal(C, rank)
      /\ Chars(A) \subseteq C
      /\ Legal(Chars(A), rank)
      /\ Deleted(A) \subseteq Names(Chars(A))
      /\ Reads(x.characters, s, A, rank)
      /\ [siteId |-> s, clock |-> x.clock[s] + 1] \notin Names(C)
    BY <1>2, <1>3, SiteReads
<1>5. x.clock[s] + 1 < MaxValue /\ local.pos \in Aims(x.characters)
    BY <1>3
<1>6. \E c, new, v :
              /\ GenerateIns(x, local) =
                    Computed(With(x, Increment(x.clock, s), v),
                             WootOperation(NewLid(x, s), "Insertion", c))
              /\ c \in WChars /\ Shown(c) = c /\ c.id = [siteId |-> s, clock |-> x.clock[s] + 1]
              /\ c.previousId \in Known(Chars(A)) /\ c.nextId \in Known(Chars(A))
              /\ Legal(C \cup {c}, new) /\ Keeps(C, rank, new)
              /\ Reads(v, s, A \cup {WootOperation(NewLid(x, s), "Insertion", c)}, new)
    BY <1>4, <1>5, InsertionIsMade
<1>7. PICK c, new, v :
              /\ GenerateIns(x, local) =
                    Computed(With(x, Increment(x.clock, s), v),
                             WootOperation(NewLid(x, s), "Insertion", c))
              /\ c \in WChars /\ Shown(c) = c /\ c.id = [siteId |-> s, clock |-> x.clock[s] + 1]
              /\ c.previousId \in Known(Chars(A)) /\ c.nextId \in Known(Chars(A))
              /\ Legal(C \cup {c}, new) /\ Keeps(C, rank, new)
              /\ Reads(v, s, A \cup {WootOperation(NewLid(x, s), "Insertion", c)}, new)
    BY <1>6
<1>8. PICK op : op = WootOperation(NewLid(x, s), "Insertion", c)
    OBVIOUS
<1>9. op.id = NewLid(x, s) /\ op.type = "Insertion" /\ op.char = c /\ op.kind = "woot"
    BY <1>8 DEF WootOperation
<1>10. /\ NewLid(x, s) \in LogicalIds
       /\ GetLogicalClock(NewLid(x, s)) = x.clock[s] + 1
       /\ GetLogicalClock(NewLid(x, s)) \in 1..(MaxValue - 1)
       /\ NewLid(x, s).siteId = s
    BY <1>4, <1>5, TickedClock DEF NewLid
<1>11. \A n : n \in Known(Chars(A)) => IsLimiter(n) \/ Comes(n, op, Ops \cup {op})
    <2>1. site[s].siteId = s
        BY <1>3, <1>4 DEF Running
    <2>2. op.id = NewLid(site[s], s)
        BY <1>3, <1>9
    <2>3. \A n : n \in Names(Chars(A)) => Comes(n, op, Ops \cup {op})
        BY <1>1, <1>3, <2>1, <2>2, AuthorHad
    <2> QED
        BY <2>3 DEF Known
<1>12. OpOK(op, Ops \cup {op})
    <2>1. op \in WootOperations
        BY <1>7, <1>8, <1>10 DEF WootOperation, WootOperations
    <2>2. op.char.id = [siteId |-> op.id.siteId, clock |-> GetLogicalClock(op.id)]
        BY <1>7, <1>9, <1>10
    <2> QED
        BY <1>7, <1>9, <1>10, <1>11, <2>1, <2>2 DEF OpOK
<1>13. Legal(Chars(Ops \cup {op}), new)
    <2>1. Chars(Ops \cup {op}) = Chars(Ops) \cup {op.char}
        BY <1>9, CharsOfMore
    <2> QED
        BY <1>3, <1>7, <1>9, <2>1
<1>14. ComputeOp(site[s], local) = Computed(With(site[s], Increment(site[s].clock, s), v), op)
    BY <1>3, <1>7, <1>8
<1>15. Reads(v, s, ToSet(state[s]) \cup {op}, new)
    BY <1>3, <1>7, <1>8
<1>16. \A t \in Sites : t # s => Reads(site[t].characters, t, ToSet(state[t]), new)
    <2>1. Keeps(Chars(Ops), rank, new)
        BY <1>3, <1>7
    <2> QED
        BY <1>2, <2>1, OthersRead
<1>17. op.id = NewLid(site[s], s)
    BY <1>3, <1>9
<1> QED
    BY <1>12, <1>13, <1>14, <1>15, <1>16, <1>17, EditKeeps

\* A deletion.
LEMMA DeletionKeeps ==
    ASSUME NEW a, NEW b, Sites = {a, b}, DocInv, NEW s \in Sites, pushed' = pushed,
           site[s].clock[s] + 1 < MaxValue, site[s].clock[s] < MaxValue,
           NEW local, local.id = [siteId |-> s, clock |-> NewVectorClock],
           ComputeOp(site[s], local) = GenerateDel(site[s], local),
           local.pos \in Int,
           UpdateState(s, <<local>>)
    PROVE  DocInv' /\ [Proved!Next]_(Proved!vars)
<1>1. Proved!LogsInv /\ LogsTyped /\ Documents /\ \E rank : StringsRead(rank)
    BY DEF DocInv
<1>2. PICK rank : StringsRead(rank)
    BY <1>1
<1>3. PICK A, x : A = ToSet(state[s]) /\ x = site[s]
    OBVIOUS
<1>4. /\ Running(x, s)
      /\ Legal(Chars(Ops), rank)
      /\ Legal(Chars(A), rank)
      /\ Reads(x.characters, s, A, rank)
    BY <1>2, <1>3, SiteReads
<1>5. x.clock[s] + 1 < MaxValue
    BY <1>3
<1>6. \/ GenerateDel(x, local) = Refused(x, local, "position")
      \/ \E c, v :
            /\ GenerateDel(x, local) =
                  Computed(With(x, Increment(x.clock, s), v),
                           WootOperation(NewLid(x, s), "Deletion", c))
            /\ c \in WChars /\ c.id \in Names(Chars(A))
            /\ Reads(v, s, A \cup {WootOperation(NewLid(x, s), "Deletion", c)}, rank)
    BY <1>4, <1>5, DeletionIsMade
<1>7. CASE GenerateDel(x, local) = Refused(x, local, "position")
    <2>1. ComputeOp(site[s], local) = Refused(x, local, "position")
        BY <1>3, <1>7
    <2>2. Moves(s, x, state[s])
        BY <2>1, RefusalComputes
    <2>3. site' = site /\ state' = state
        <3>1. site' = [site EXCEPT ![s] = site[s]] /\ state' = [state EXCEPT ![s] = state[s]]
            BY <1>3, <2>2 DEF Moves
        <3>2. state \in [Sites -> Proved!SortedOver(Ops)] /\ site \in [Sites -> Site]
            BY <1>1 DEF LogsTyped, Documents
        <3>3. state' = state
            BY <3>1, <3>2
        <3>4. site' = site
            BY <3>1, <3>2
        <3> QED
            BY <3>3, <3>4
    <2> QED
        BY <2>3, QuietKeeps
<1>8. CASE \E c, v :
            /\ GenerateDel(x, local) =
                  Computed(With(x, Increment(x.clock, s), v),
                           WootOperation(NewLid(x, s), "Deletion", c))
            /\ c \in WChars /\ c.id \in Names(Chars(A))
            /\ Reads(v, s, A \cup {WootOperation(NewLid(x, s), "Deletion", c)}, rank)
    <2>1. PICK c, v :
            /\ GenerateDel(x, local) =
                  Computed(With(x, Increment(x.clock, s), v),
                           WootOperation(NewLid(x, s), "Deletion", c))
            /\ c \in WChars /\ c.id \in Names(Chars(A))
            /\ Reads(v, s, A \cup {WootOperation(NewLid(x, s), "Deletion", c)}, rank)
        BY <1>8
    <2>2. PICK op : op = WootOperation(NewLid(x, s), "Deletion", c)
        OBVIOUS
    <2>3. op.id = NewLid(x, s) /\ op.type = "Deletion" /\ op.char = c
        BY <2>2 DEF WootOperation
    <2>4. NewLid(x, s) \in LogicalIds /\ GetLogicalClock(NewLid(x, s)) \in 1..(MaxValue - 1)
        BY <1>4, <1>5, TickedClock
    <2>5. op.id = NewLid(site[s], s)
        BY <1>3, <2>3
    <2>6. Comes(c.id, op, Ops \cup {op})
        <3>1. site[s].siteId = s
            BY <1>3, <1>4 DEF Running
        <3>2. c.id \in Names(Chars(ToSet(state[s])))
            BY <1>3, <2>1
        <3> QED
            BY <1>1, <2>5, <3>1, <3>2, AuthorHad
    <2>7. OpOK(op, Ops \cup {op})
        <3>1. op \in WootOperations
            BY <2>1, <2>2, <2>4 DEF WootOperation, WootOperations
        <3> QED
            BY <2>3, <2>4, <2>6, <3>1 DEF OpOK
    <2>8. Legal(Chars(Ops \cup {op}), rank)
        BY <1>4, <2>3, CharsOfMore
    <2>9. ComputeOp(site[s], local) = Computed(With(site[s], Increment(site[s].clock, s), v), op)
        BY <1>3, <2>1, <2>2
    <2>10. Reads(v, s, ToSet(state[s]) \cup {op}, rank)
        BY <1>3, <2>1, <2>2
    <2>11. \A t \in Sites : t # s => Reads(site[t].characters, t, ToSet(state[t]), rank)
        BY <1>2 DEF StringsRead
    <2>12. DocInv' /\ Proved!Next
        BY <2>5, <2>7, <2>8, <2>9, <2>10, <2>11, EditKeeps
    <2> QED
        BY <2>12
<1> QED
    BY <1>6, <1>7, <1>8

\* Logs are pushed whole, as the program pushes them, and the clocks stay below
\* the value they stop at.
ProgramUse ==
    /\ ~SingleOpPushes
    /\ \A s \in Sites : MaxTicks[s] < MaxValue

\* edit insert, at a place of the text or before it.
LEMMA EditInsertKeeps ==
    ASSUME NEW a, NEW b, Sites = {a, b}, ProgramUse, DocInv, NEW s \in Sites, EditInsert(s),
           ~pastEnd'
    PROVE  DocInv' /\ Proved!Next
<1>1. PICK pos \in -1..(TextLength(s) + Overshoot), content \in Contents :
          /\ UpdateState(s, <<LocalOperation(s, "Insertion", pos, content)>>)
          /\ ~(pos > TextLength(s))
    BY DEF EditInsert
<1>2. pushed' = pushed /\ WithinBounds(s)
    BY DEF EditInsert
<1>3. Running(site[s], s)
    BY DEF DocInv, Documents
<1>4. site[s].clock[s] + 1 < MaxValue /\ site[s].clock[s] < MaxValue
    BY <1>2, <1>3, ClockHasRoom DEF ProgramUse
<1>5. PICK local : local = LocalOperation(s, "Insertion", pos, content)
    OBVIOUS
<1>6. /\ local.id = [siteId |-> s, clock |-> NewVectorClock]
      /\ local.kind = "local" /\ local.type = "Insertion"
      /\ local.pos = pos /\ local.content = content
    BY <1>5 DEF LocalOperation
<1>7. ComputeOp(site[s], local) = GenerateIns(site[s], local)
    BY <1>6 DEF ComputeOp
<1>8. UpdateState(s, <<local>>)
    BY <1>1, <1>5
<1>9. pos = -1 \/ pos \in Aims(site[s].characters)
    <2>1. PICK n : n = TextLength(s)
        OBVIOUS
    <2>2. 0..n = Aims(site[s].characters)
        BY <1>3, <2>1, LengthOfText
    <2>3. n \in Nat
        BY <1>3, <2>1, LengthOfText
    <2>4. pos \in -1..n
        <3>1. Overshoot \in Nat
            BY BoundsAssumption
        <3>2. pos \in Int /\ -1 <= pos /\ ~(pos > n)
            BY <1>1, <2>1, <2>3, <3>1
        <3> QED
            BY <2>3, <3>2
    <2> QED
        BY <2>2, <2>3, <2>4
<1>10. CASE pos = -1
    <2>1. ComputeOp(site[s], local) =
               Refused(With(site[s], Increment(site[s].clock, s), site[s].characters), local, "position")
        BY <1>3, <1>6, <1>7, <1>10, InsertionIsRefused
    <2> QED
        BY <1>2, <1>4, <1>6, <1>8, <2>1, RefusedInsertionKeeps
<1>11. CASE pos \in Aims(site[s].characters)
    <2>1. local.content \in Contents /\ local.pos \in Aims(site[s].characters)
        BY <1>6, <1>11
    <2> QED
        BY <1>2, <1>4, <1>6, <1>7, <1>8, <2>1, InsertionKeeps
<1> QED
    BY <1>9, <1>10, <1>11

\* edit delete.
LEMMA EditDeleteKeeps ==
    ASSUME NEW a, NEW b, Sites = {a, b}, ProgramUse, DocInv, NEW s \in Sites, EditDelete(s)
    PROVE  DocInv' /\ [Proved!Next]_(Proved!vars)
<1>1. PICK pos \in -1..TextLength(s) :
          UpdateState(s, <<LocalOperation(s, "Deletion", pos, "")>>)
    BY DEF EditDelete
<1>2. pushed' = pushed /\ WithinBounds(s)
    BY DEF EditDelete
<1>3. Running(site[s], s)
    BY DEF DocInv, Documents
<1>4. site[s].clock[s] + 1 < MaxValue /\ site[s].clock[s] < MaxValue
    BY <1>2, <1>3, ClockHasRoom DEF ProgramUse
<1>5. PICK local : local = LocalOperation(s, "Deletion", pos, "")
    OBVIOUS
<1>6. /\ local.id = [siteId |-> s, clock |-> NewVectorClock]
      /\ local.kind = "local" /\ local.type = "Deletion"
      /\ local.pos = pos
    BY <1>5 DEF LocalOperation
<1>7. ComputeOp(site[s], local) = GenerateDel(site[s], local)
    BY <1>6 DEF ComputeOp
<1>8. UpdateState(s, <<local>>)
    BY <1>1, <1>5
<1>9. local.pos \in Int
    BY <1>6
<1> QED
    BY <1>2, <1>4, <1>6, <1>7, <1>8, <1>9, DeletionKeeps

\* Every step keeps the invariant, and is a step of SortedLogs or none, unless it
\* inserts past the end.
LEMMA DocInvNext ==
    ASSUME NEW a, NEW b, Sites = {a, b}, ProgramUse, DocInv, [Next]_vars, ~pastEnd'
    PROVE  DocInv' /\ [Proved!Next]_(Proved!vars)
<1>1. ASSUME NEW s \in Sites, EditInsert(s) PROVE DocInv' /\ [Proved!Next]_(Proved!vars)
    BY <1>1, EditInsertKeeps
<1>2. ASSUME NEW s \in Sites, EditDelete(s) PROVE DocInv' /\ [Proved!Next]_(Proved!vars)
    BY <1>2, EditDeleteKeeps
<1>3. ASSUME NEW s \in Sites, Push(s) PROVE DocInv' /\ [Proved!Next]_(Proved!vars)
    BY <1>3, PushKeeps
<1>4. ASSUME NEW s \in Sites, PushOne(s) PROVE FALSE
    BY <1>4 DEF PushOne, ProgramUse
<1>5. ASSUME NEW s \in Sites, Deliver(s) PROVE DocInv' /\ [Proved!Next]_(Proved!vars)
    BY <1>5, DeliverKeeps
<1>6. CASE UNCHANGED vars
    <2>1. site' = site /\ state' = state /\ pushed' = pushed
        BY <1>6 DEF vars
    <2> QED
        BY <2>1, QuietKeeps
<1> QED
    BY <1>1, <1>2, <1>3, <1>4, <1>5, <1>6 DEF Next

-----------------------------------------------------------------------------
(* Both instances of SortedLogs say the same of the documents.             *)

\* The instance that the property RefinesSortedLogs uses has the operators of
\* CvRDTState.
LEMMA SameLogSearch ==
    /\ \A w, o : Logs!contains(w, o) = contains(w, o)
    /\ \A w, o : Logs!insert(w, o) = insert(w, o)
    /\ \A w, v : Logs!Merge(w, v) = Merge(w, v)
    /\ Logs!EmptyState = EmptyState
    /\ \A c, d : Logs!Update(c, d) = Update(c, d)
    /\ \A c, s : Logs!Increment(c, s) = Increment(c, s)
<1>1. \A w, o : Logs!binarySearch(w, o) = binarySearch(w, o)
    BY DEF Logs!binarySearch, binarySearch, Logs!CompareOperation, CompareOperation,
           Logs!Compare, Compare, Logs!equals, equals, Logs!less, less,
           Logs!HappenedBefore, HappenedBefore, Logs!GetLogicalClock, GetLogicalClock
<1>2. \A w, o : Logs!contains(w, o) = contains(w, o)
    BY <1>1 DEF Logs!contains, contains
<1>3. \A w, i, o : Logs!InsertAt(w, i, o) = InsertAt(w, i, o)
    BY DEF Logs!InsertAt, InsertAt
<1>4. \A w, o : Logs!insert(w, o) = insert(w, o)
    BY <1>1, <1>3 DEF Logs!insert, insert
<1>5. \A w, v : Logs!Merge(w, v) = Merge(w, v)
    BY <1>2, <1>4, ZenonT(60) DEF Logs!Merge, Merge
<1>6. Logs!EmptyState = EmptyState
    BY DEF Logs!EmptyState, EmptyState
<1>7. \A c, d : Logs!Update(c, d) = Update(c, d)
    BY DEF Logs!Update, Update
<1>8. \A c, s : Logs!Increment(c, s) = Increment(c, s)
    BY DEF Logs!Increment, Increment
<1> QED
    BY <1>2, <1>4, <1>5, <1>6, <1>7, <1>8

\* And it computes the same logs and clocks as the instance of the proofs.
LEMMA SameDelivery ==
    /\ \A w, v : Logs!NewState(w, v) = Proved!NewState(w, v)
    /\ \A w : Logs!Top(w) = Proved!Top(w)
<1>1. /\ \A w, o : Logs!contains(w, o) = Proved!contains(w, o)
      /\ \A w, o : Logs!insert(w, o) = Proved!insert(w, o)
      /\ Logs!EmptyState = Proved!EmptyState
    BY SameLogSearch, SameSearch
<1>2. \A w, v : Logs!NewState(w, v) = Proved!NewState(w, v)
    BY <1>1 DEF Logs!NewState, Proved!NewState
<1>3. \A S : Logs!Max(S) = Proved!Max(S)
    BY DEF Logs!Max, Proved!Max
<1>4. \A w : Logs!Ids(w) = Proved!Ids(w)
    BY DEF Logs!Ids, Proved!Ids
<1>5. \A w : Logs!Top(w) = Proved!Top(w)
    BY <1>3, <1>4 DEF Logs!Top, Proved!Top
<1> QED
    BY <1>2, <1>5

\* So both have the same behaviours.
LEMMA SameLogs ==
    /\ Logs!Init <=> Proved!Init
    /\ Logs!Next <=> Proved!Next
    /\ Logs!vars = Proved!vars
<1>1. /\ \A w, v : Logs!Merge(w, v) = Proved!Merge(w, v)
      /\ \A w, o : Logs!insert(w, o) = Proved!insert(w, o)
      /\ Logs!EmptyState = Proved!EmptyState
      /\ \A c, d : Logs!Update(c, d) = Proved!Update(c, d)
      /\ \A c, s : Logs!Increment(c, s) = Proved!Increment(c, s)
      /\ \A w, v : Logs!NewState(w, v) = Proved!NewState(w, v)
      /\ \A w : Logs!Top(w) = Proved!Top(w)
    BY SameLogSearch, SameSearch, SameOrder, SameDelivery
<1>2. Logs!Init <=> Proved!Init
    BY <1>1 DEF Logs!Init, Proved!Init, Logs!NewVectorClock, Proved!NewVectorClock,
                Logs!MinValue, Proved!MinValue
<1>3. ASSUME NEW s PROVE Logs!Generate(s) <=> Proved!Generate(s)
    BY <1>1 DEF Logs!Generate, Proved!Generate, Logs!CanTick, Proved!CanTick,
                Logs!NewOperation, Proved!NewOperation
<1>4. ASSUME NEW s PROVE Logs!Refuse(s) <=> Proved!Refuse(s)
    BY <1>1 DEF Logs!Refuse, Proved!Refuse, Logs!CanTick, Proved!CanTick
<1>5. ASSUME NEW S PROVE Logs!Cardinality(S) = Proved!Cardinality(S)
    BY DEF Logs!Cardinality, Proved!Cardinality
<1>6. ASSUME NEW s PROVE Logs!Push(s) <=> Proved!Push(s)
    BY <1>5, Zenon DEF Logs!Push, Proved!Push
<1>7. ASSUME NEW s, NEW ops PROVE Logs!Deliver(s, ops) <=> Proved!Deliver(s, ops)
    BY <1>1 DEF Logs!Deliver, Proved!Deliver
<1>8. Logs!Next <=> Proved!Next
    BY <1>3, <1>4, <1>6, <1>7 DEF Logs!Next, Proved!Next
<1>9. Logs!vars = Proved!vars
    BY DEF Logs!vars, Proved!vars
<1> QED
    BY <1>2, <1>8, <1>9

-----------------------------------------------------------------------------
(* What the invariant says of the properties.                              *)

\* The strings are what the logs say, in one order.
LEMMA TextsRead ==
    ASSUME DocInv
    PROVE  \E rank : \A s \in Sites :
              /\ Running(site[s], s)
              /\ Legal(Chars(ToSet(state[s])), rank)
              /\ Reads(site[s].characters, s, ToSet(state[s]), rank)
              /\ Text(s) = Middle(site[s].characters)
<1>1. Proved!LogsInv /\ LogsTyped /\ Documents /\ OpsOK(Ops) /\ \E rank : StringsRead(rank)
    BY DEF DocInv
<1>2. PICK rank : StringsRead(rank)
    BY <1>1
<1>3. ASSUME NEW s \in Sites
      PROVE  Legal(Chars(ToSet(state[s])), rank)
    <2>1. Caused(ToSet(state[s]), Ops) /\ ToSet(state[s]) \subseteq Ops
        BY <1>1, OpsClose DEF Ops
    <2>2. PICK B, A : B = Ops /\ A = ToSet(state[s])
        OBVIOUS
    <2>3. Closed(A)
        BY <1>1, <2>1, <2>2, CausedIsClosed
    <2>4. Legal(Chars(B), rank)
        BY <1>2, <2>2 DEF StringsRead
    <2> QED
        BY <2>1, <2>2, <2>3, <2>4, ClosedIsLegal
<1>4. \A s \in Sites : Text(s) = Middle(site[s].characters)
    BY DEF Text, Middle
<1> QED
    BY <1>1, <1>2, <1>3, <1>4 DEF Documents, StringsRead

\* The invariant gives the types of the sites and logs.
LEMMA TypeOKFollows == DocInv /\ pastEnd \in BOOLEAN => TypeOK
<1> SUFFICES ASSUME DocInv, pastEnd \in BOOLEAN PROVE TypeOK
    OBVIOUS
<1>1. LogsTyped /\ Documents /\ OpsOK(Ops)
    BY DEF DocInv
<1>2. PICK rank : \A s \in Sites :
              /\ Running(site[s], s)
              /\ Legal(Chars(ToSet(state[s])), rank)
              /\ Reads(site[s].characters, s, ToSet(state[s]), rank)
              /\ Text(s) = Middle(site[s].characters)
    BY TextsRead
<1>3. Ops \subseteq WootOperations
    BY <1>1 DEF OpsOK, OpOK
<1>4. ASSUME NEW s \in Sites
      PROVE  /\ site[s].siteId = s
             /\ site[s].clock \in VectorClocks
             /\ site[s].characters[1] = GetNewSpecialStartWChar(s)
             /\ Last(site[s].characters) = GetNewSpecialEndWChar(s)
             /\ ToSet(Text(s)) \subseteq WChars
             /\ ToSet(site[s].pendingOps) \subseteq WootOperations
             /\ site[s].fault \in Faults
             /\ ToSet(state[s]) \subseteq WootOperations
    <2>1. site[s].siteId = s /\ site[s].clock \in VectorClocks /\ site[s].fault \in Faults
        BY <1>2 DEF Running, Site
    <2>2. /\ site[s].characters[1] = GetNewSpecialStartWChar(s)
          /\ Last(site[s].characters) = GetNewSpecialEndWChar(s)
        BY <1>2 DEF Reads, IsString, Last
    <2>3. ToSet(Text(s)) \subseteq WChars
        <3>1. Reads(site[s].characters, s, ToSet(state[s]), rank)
            BY <1>2
        <3>2. Middle(site[s].characters) \in Seq(WChars)
            BY <3>1, MiddleOfString
        <3>3. PICK v : v = Text(s)
            OBVIOUS
        <3>4. v \in Seq(WChars)
            BY <1>2, <3>2, <3>3
        <3>5. ToSet(v) \subseteq WChars
            BY <3>4 DEF ToSet
        <3> QED
            BY <3>3, <3>5
    <2>4. ToSet(site[s].pendingOps) \subseteq WootOperations
        <3>1. site[s].pendingOps = <<>>
            BY <1>2 DEF Running
        <3>2. ToSet(<<>>) = {}
            BY DEF ToSet
        <3> QED
            BY <3>1, <3>2
    <2>5. ToSet(state[s]) \subseteq WootOperations
        BY <1>3 DEF Ops
    <2> QED
        BY <2>1, <2>2, <2>3, <2>4, <2>5
<1>5. \A ops \in pushed : ToSet(ops) \subseteq WootOperations
    BY <1>1, <1>3, LogTypes DEF LogsTyped
<1> QED
    BY <1>4, <1>5 DEF TypeOK

\* Sites that run have no fault, and nothing that waits.
LEMMA NoFaultFollows == DocInv => NoFault /\ NothingPending
BY DEF DocInv, Documents, Running, NoFault, Alive, NothingPending

\* What a string reads is the text of its log.
LEMMA TextMatchesLogFollows == DocInv => TextMatchesLog
<1> SUFFICES ASSUME DocInv, NEW s \in Sites
             PROVE  LET ins == {op.char.id : op \in {o \in ToSet(state[s]) : o.type = "Insertion"}}
                        del == {op.char.id : op \in {o \in ToSet(state[s]) : o.type = "Deletion"}}
                    IN  /\ {Text(s)[k].id : k \in DOMAIN Text(s)} = ins
                        /\ Len(Text(s)) = Cardinality(ins)
                        /\ \A k \in DOMAIN Text(s) : Text(s)[k].visible <=> Text(s)[k].id \notin del
    BY DEF TextMatchesLog
<1>1. PICK rank : \A t \in Sites :
              /\ Running(site[t], t)
              /\ Legal(Chars(ToSet(state[t])), rank)
              /\ Reads(site[t].characters, t, ToSet(state[t]), rank)
              /\ Text(t) = Middle(site[t].characters)
    BY TextsRead
<1>2. PICK A, w, v : A = ToSet(state[s]) /\ w = site[s].characters /\ v = Text(s)
    OBVIOUS
<1>3. Legal(Chars(A), rank) /\ Reads(w, s, A, rank) /\ v = Middle(w)
    BY <1>1, <1>2
<1>4. /\ {Middle(w)[k].id : k \in DOMAIN Middle(w)} = Names(Chars(A))
      /\ Len(Middle(w)) = Cardinality(Names(Chars(A)))
      /\ \A k \in DOMAIN Middle(w) : Middle(w)[k].visible <=> Middle(w)[k].id \notin Deleted(A)
    BY <1>3, TextSaysOperations
<1>5. Names(Chars(A)) = {op.char.id : op \in {o \in A : o.type = "Insertion"}}
    BY DEF Names, Chars
<1>6. Deleted(A) = {op.char.id : op \in {o \in A : o.type = "Deletion"}}
    BY DEF Deleted
<1>7. /\ {v[k].id : k \in DOMAIN v} = Names(Chars(A))
      /\ Len(v) = Cardinality(Names(Chars(A)))
      /\ \A k \in DOMAIN v : v[k].visible <=> v[k].id \notin Deleted(A)
    BY <1>3, <1>4
<1> DEFINE ins == {op.char.id : op \in {o \in ToSet(state[s]) : o.type = "Insertion"}}
           del == {op.char.id : op \in {o \in ToSet(state[s]) : o.type = "Deletion"}}
<1>8. ins = Names(Chars(A)) /\ del = Deleted(A)
    BY <1>2, <1>5, <1>6
<1> HIDE DEF ins, del
<1>9. /\ {v[k].id : k \in DOMAIN v} = ins
      /\ Len(v) = Cardinality(ins)
      /\ \A k \in DOMAIN v : v[k].visible <=> v[k].id \notin del
    BY <1>7, <1>8, Zenon
<1>10. /\ {Text(s)[k].id : k \in DOMAIN Text(s)} = ins
       /\ Len(Text(s)) = Cardinality(ins)
       /\ \A k \in DOMAIN Text(s) : Text(s)[k].visible <=> Text(s)[k].id \notin del
    BY <1>2, <1>9, Zenon
<1> QED
    BY <1>10, Zenon DEF ins, del

\* Characters of strings are between their neighbours.
LEMMA IntentionFollows == DocInv => IntentionPreserved
<1> SUFFICES ASSUME DocInv, NEW s \in Sites, NEW k \in 2..(Len(site[s].characters) - 1)
             PROVE  /\ GetPos(site[s].characters, site[s].characters[k].previousId) < k
                    /\ k < GetPos(site[s].characters, site[s].characters[k].nextId)
    BY DEF IntentionPreserved
<1>1. PICK rank : \A t \in Sites :
              /\ Running(site[t], t)
              /\ Legal(Chars(ToSet(state[t])), rank)
              /\ Reads(site[t].characters, t, ToSet(state[t]), rank)
              /\ Text(t) = Middle(site[t].characters)
    BY TextsRead
<1>2. PICK D, w : D = Chars(ToSet(state[s])) /\ w = site[s].characters
    OBVIOUS
<1>3. Legal(D, rank) /\ IsString(w, s, D, rank)
    BY <1>1, <1>2 DEF Reads
<1>4. k \in 2..(Len(w) - 1)
    BY <1>2
<1>5. GetPos(w, w[k].previousId) < k /\ k < GetPos(w, w[k].nextId)
    BY <1>3, <1>4, CharsAreBetween
<1> QED
    BY <1>2, <1>5

\* Strings that read the same operations are the same between their limiters.
LEMMA ConvergenceFollows == DocInv => StrongConvergence
<1> SUFFICES ASSUME DocInv, NEW s \in Sites, NEW t \in Sites, Ids(state[s]) = Ids(state[t])
             PROVE  Text(s) = Text(t)
    BY DEF StrongConvergence
<1>1. PICK rank : \A u \in Sites :
              /\ Running(site[u], u)
              /\ Legal(Chars(ToSet(state[u])), rank)
              /\ Reads(site[u].characters, u, ToSet(state[u]), rank)
              /\ Text(u) = Middle(site[u].characters)
    BY TextsRead
<1>2. IdsTell(Ops)
    BY DEF DocInv, LogsTyped
<1>3. ToSet(state[s]) \subseteq Ops /\ ToSet(state[t]) \subseteq Ops
    BY DEF Ops
<1>4. ToSet(state[s]) = ToSet(state[t])
    <2>1. \A o \in ToSet(state[s]) : o \in ToSet(state[t])
        BY <1>2, <1>3 DEF Ids, IdsTell
    <2>2. \A o \in ToSet(state[t]) : o \in ToSet(state[s])
        BY <1>2, <1>3 DEF Ids, IdsTell
    <2> QED
        BY <2>1, <2>2
<1>5. PICK A : A = ToSet(state[s])
    OBVIOUS
<1>6. /\ Legal(Chars(A), rank)
      /\ Reads(site[s].characters, s, A, rank)
      /\ Reads(site[t].characters, t, A, rank)
    BY <1>1, <1>4, <1>5
<1>7. Middle(site[s].characters) = Middle(site[t].characters)
    BY <1>6, StringsAgree
<1> QED
    BY <1>1, <1>7

-----------------------------------------------------------------------------
(* The theorems.                                                           *)

\* What the history variable records stays recorded.
LEMMA PastEndNext == ASSUME [Next]_vars, pastEnd \in BOOLEAN
                     PROVE  pastEnd' \in BOOLEAN /\ (pastEnd => pastEnd')
<1>1. ASSUME NEW s \in Sites, EditInsert(s) PROVE pastEnd' \in BOOLEAN /\ (pastEnd => pastEnd')
    <2>1. PICK pos \in -1..(TextLength(s) + Overshoot) : pastEnd' = (pastEnd \/ pos > TextLength(s))
        BY <1>1, Zenon DEF EditInsert
    <2> QED
        BY <2>1
<1>2. ASSUME NEW s \in Sites, EditDelete(s) \/ Push(s) \/ PushOne(s) \/ Deliver(s)
      PROVE  pastEnd' = pastEnd
    BY <1>2, Zenon DEF EditDelete, Push, PushOne, Deliver
<1>3. CASE UNCHANGED vars
    BY <1>3 DEF vars
<1> QED
    BY <1>1, <1>2, <1>3 DEF Next

\* Its type.
LEMMA PastEndIsBoolean == Spec => [](pastEnd \in BOOLEAN)
<1>1. Init => pastEnd \in BOOLEAN
    BY DEF Init
<1>2. pastEnd \in BOOLEAN /\ [Next]_vars => (pastEnd \in BOOLEAN)'
    BY PastEndNext
<1> QED
    BY <1>1, <1>2, PTL DEF Spec

\* The documents of two sites keep the invariant, whatever is typed, pushed and
\* handled, as often and in whatever order, until an insertion past the end of a
\* text is accepted (UpdateState, ComputeOp).
THEOREM TwoSitesKeepDocuments ==
    ASSUME NEW a, NEW b, Sites = {a, b}, ProgramUse
    PROVE  Spec => [](pastEnd \/ DocInv)
<1>1. Init => pastEnd \/ DocInv
    BY DocInvInit
<1>2. pastEnd \in BOOLEAN /\ (pastEnd \/ DocInv) /\ [Next]_vars => (pastEnd \/ DocInv)'
    <2> SUFFICES ASSUME pastEnd \in BOOLEAN, pastEnd \/ DocInv, [Next]_vars, ~pastEnd'
                 PROVE  DocInv'
        OBVIOUS
    <2>1. ~pastEnd
        BY PastEndNext
    <2> QED
        BY <2>1, DocInvNext
<1> QED
    BY <1>1, <1>2, PastEndIsBoolean, PTL DEF Spec

\* The characters decide nothing about the logs and the clocks: as long as no
\* insertion past the end is accepted, every edit, push and merge of the documents
\* is one of SortedLogs (UpdateState).
THEOREM DocumentsImplementSortedLogs ==
    ASSUME NEW a, NEW b, Sites = {a, b}, ProgramUse
    PROVE  Spec /\ []~pastEnd => RefinesSortedLogs
<1>1. Init => Logs!Init
    <2>1. Init => Proved!Init
        BY InitIsLogInit
    <2> QED
        BY <2>1, SameLogs
<1>2. (pastEnd \/ DocInv) /\ ~pastEnd /\ ~pastEnd' /\ [Next]_vars => [Logs!Next]_(Logs!vars)
    <2> SUFFICES ASSUME DocInv, ~pastEnd', [Next]_vars PROVE [Logs!Next]_(Logs!vars)
        OBVIOUS
    <2>1. CASE Proved!Next
        BY <2>1, SameLogs
    <2>2. CASE Proved!vars' = Proved!vars
        BY <2>2 DEF Proved!vars, Logs!vars
    <2> QED
        BY <2>1, <2>2, DocInvNext
<1> QED
    BY <1>1, <1>2, TwoSitesKeepDocuments, PTL DEF Spec, RefinesSortedLogs, Logs!Spec

\* Every site keeps its limiters around the characters, and its logs are made of
\* operations of known sites (GetNewWString, Merge).
THEOREM DocumentsAreTyped ==
    ASSUME NEW a, NEW b, Sites = {a, b}, ProgramUse
    PROVE  Spec => [](pastEnd \/ TypeOK)
BY TwoSitesKeepDocuments, PastEndIsBoolean, TypeOKFollows, PTL

\* Until an insertion past the end is accepted, no handler and no edit panics or
\* recurses for ever: GetById finds the neighbours, and L of IntegrateIns has a
\* character as long as one lies between the bounds (site.go).
THEOREM NothingPanics ==
    ASSUME NEW a, NEW b, Sites = {a, b}, ProgramUse
    PROVE  Spec => [](pastEnd \/ NoFault)
BY TwoSitesKeepDocuments, NoFaultFollows, PTL

\* Logs that are pushed whole bring every operation after the ones it needs: none
\* waits in pendingOps, up to an insertion past the end (UpdateState).
THEOREM NothingWaits ==
    ASSUME NEW a, NEW b, Sites = {a, b}, ProgramUse
    PROVE  Spec => [](pastEnd \/ NothingPending)
BY TwoSitesKeepDocuments, NoFaultFollows, PTL

\* The string of a site has the characters of the insertions in its log, each
\* once, hidden exactly when a deletion of it is in the log, up to an insertion past
\* the end (ExecuteExtOp).
THEOREM TextIsTheLog ==
    ASSUME NEW a, NEW b, Sites = {a, b}, ProgramUse
    PROVE  Spec => [](pastEnd \/ TextMatchesLog)
BY TwoSitesKeepDocuments, TextMatchesLogFollows, PTL

\* At every site a character stays between the two characters its author saw
\* around it, until an insertion past the end is accepted, which has one character
\* on both sides (IntegrateIns).
THEOREM CharactersStayBetween ==
    ASSUME NEW a, NEW b, Sites = {a, b}, ProgramUse
    PROVE  Spec => [](pastEnd \/ IntentionPreserved)
BY TwoSitesKeepDocuments, IntentionFollows, PTL

\* Two sites that have executed the same operations hold the same characters in
\* the same order, whatever order the operations came in, until an insertion past
\* the end is accepted (IntegrateIns).
THEOREM DocumentsConverge ==
    ASSUME NEW a, NEW b, Sites = {a, b}, ProgramUse
    PROVE  Spec => [](pastEnd \/ StrongConvergence)
BY TwoSitesKeepDocuments, ConvergenceFollows, PTL

-----------------------------------------------------------------------------
(* The history DAG, as a graph.                                            *)

\* HasPath is a strict order of finitely many nodes, which pos numbers.
IsCausal(dag, pos) ==
    /\ IsFiniteSet(DOMAIN dag.Nodes)
    /\ pos \in [DOMAIN dag.Nodes -> Nat]
    /\ \A a, b \in DOMAIN dag.Nodes : HasPath(dag, a, b) => pos[a] < pos[b]
    /\ \A a, b, c \in DOMAIN dag.Nodes :
          HasPath(dag, a, b) /\ HasPath(dag, b, c) => HasPath(dag, a, c)

\* The edges are the pairs with nothing in between, and are counted once.
IsReduction(dag) ==
    /\ dag.Edges \subseteq (DOMAIN dag.Nodes) \X (DOMAIN dag.Nodes)
    /\ \A a, b \in DOMAIN dag.Nodes :
          <<a, b>> \in dag.Edges <=>
              /\ HasPath(dag, a, b)
              /\ ~\E c \in DOMAIN dag.Nodes : HasPath(dag, a, c) /\ HasPath(dag, c, b)
    /\ dag.parents = [k \in DOMAIN dag.Nodes |->
                         Cardinality({p \in DOMAIN dag.Nodes : <<p, k>> \in dag.Edges})]

\* Whatever is before b is before the start of an edge to b, or is that start.
LEMMA LastStep ==
    ASSUME NEW dag, NEW pos, IsCausal(dag, pos), IsReduction(dag),
           NEW a \in DOMAIN dag.Nodes, NEW b \in DOMAIN dag.Nodes, HasPath(dag, a, b)
    PROVE  \E c \in DOMAIN dag.Nodes :
               <<c, b>> \in dag.Edges /\ HasPath(dag, c, b) /\ (c = a \/ HasPath(dag, a, c))
<1> DEFINE C == {c \in DOMAIN dag.Nodes : HasPath(dag, c, b) /\ (c = a \/ HasPath(dag, a, c))}
           D == {pos[b] - pos[c] : c \in C}
<1>1. \A c \in C : pos[c] \in Nat /\ pos[b] \in Nat /\ pos[c] < pos[b]
    BY DEF IsCausal
<1>2. D \subseteq Nat /\ D # {}
    <2>1. a \in C
        OBVIOUS
    <2> HIDE DEF C
    <2> QED
        BY <1>1, <2>1
<1>3. PICK m \in D : \A k \in D : m <= k
    <2> HIDE DEF D
    <2> QED
        BY <1>2, LeastNumber
<1>4. PICK c \in C : m = pos[b] - pos[c]
    OBVIOUS
<1>5. ASSUME NEW d \in C PROVE ~(pos[c] < pos[d])
    <2>1. pos[b] - pos[c] <= pos[b] - pos[d]
        BY <1>3, <1>4, <1>5
    <2> QED
        BY <1>1, <1>5, <2>1
<1>6. ASSUME NEW d \in DOMAIN dag.Nodes, HasPath(dag, c, d), HasPath(dag, d, b)
      PROVE  FALSE
    <2>1. c = a \/ HasPath(dag, a, c)
        OBVIOUS
    <2>2. HasPath(dag, a, d)
        BY <1>6, <2>1 DEF IsCausal
    <2>3. d \in C
        BY <1>6, <2>2
    <2>4. pos[c] < pos[d]
        BY <1>6 DEF IsCausal
    <2> QED
        BY <1>5, <2>3, <2>4
<1> QED
    BY <1>6 DEF IsReduction

\* A set of nodes that has the parents of its members has all that is before them.
LEMMA AncestorsInside ==
    ASSUME NEW dag, NEW pos, IsCausal(dag, pos), IsReduction(dag),
           NEW S \in SUBSET DOMAIN dag.Nodes,
           \A p \in DOMAIN dag.Nodes, k \in S : <<p, k>> \in dag.Edges => p \in S,
           NEW a \in DOMAIN dag.Nodes, NEW b \in S, HasPath(dag, a, b)
    PROVE  a \in S
<1> SUFFICES ASSUME a \notin S PROVE FALSE
    OBVIOUS
<1> DEFINE C == {c \in S : HasPath(dag, a, c)}
           D == {pos[c] : c \in C}
<1>1. D \subseteq Nat /\ D # {}
    BY DEF IsCausal
<1>2. PICK m \in D : \A k \in D : m <= k
    <2> HIDE DEF D
    <2> QED
        BY <1>1, LeastNumber
<1>3. PICK c \in C : m = pos[c]
    OBVIOUS
<1>4. PICK d \in DOMAIN dag.Nodes :
          <<d, c>> \in dag.Edges /\ HasPath(dag, d, c) /\ (d = a \/ HasPath(dag, a, d))
    BY LastStep
<1>5. d \in C
    BY <1>4
<1>6. pos[c] <= pos[d]
    BY <1>2, <1>3, <1>5
<1>7. pos[d] < pos[c] /\ pos[d] \in Nat /\ pos[c] \in Nat
    BY <1>4 DEF IsCausal
<1> QED
    BY <1>6, <1>7

\* The pairs of HasPath are those that the edges connect.
LEMMA PathsFollowEdges ==
    ASSUME NEW dag, NEW pos, IsCausal(dag, pos), IsReduction(dag),
           NEW a \in DOMAIN dag.Nodes, NEW b \in DOMAIN dag.Nodes
    PROVE  HasPath(dag, a, b) <=> EdgesLead(dag, a, b)
<1>1. ASSUME HasPath(dag, a, b), NEW S \in SUBSET DOMAIN dag.Nodes,
             \A e \in dag.Edges : e[1] \in S \cup {a} => e[2] \in S,
             b \notin S
      PROVE  FALSE
    <2> DEFINE C == {c \in DOMAIN dag.Nodes : HasPath(dag, a, c) /\ c \notin S}
               D == {pos[c] : c \in C}
    <2>1. D \subseteq Nat /\ D # {}
        BY <1>1 DEF IsCausal
    <2>2. PICK m \in D : \A k \in D : m <= k
        <3> HIDE DEF D
        <3> QED
            BY <2>1, LeastNumber
    <2>3. PICK c \in C : m = pos[c]
        OBVIOUS
    <2>4. PICK d \in DOMAIN dag.Nodes :
              <<d, c>> \in dag.Edges /\ HasPath(dag, d, c) /\ (d = a \/ HasPath(dag, a, d))
        BY LastStep
    <2>5. pos[d] < pos[c] /\ pos[d] \in Nat /\ pos[c] \in Nat
        BY <2>4 DEF IsCausal
    <2>6. d \notin C
        BY <2>2, <2>3, <2>5
    <2>7. d \in S \cup {a}
        BY <2>4, <2>6
    <2>8. <<d, c>>[1] = d /\ <<d, c>>[2] = c
        OBVIOUS
    <2>9. c \in S
        BY <1>1, <2>4, <2>7, <2>8
    <2> QED
        BY <2>9
<1>2. ASSUME EdgesLead(dag, a, b) PROVE HasPath(dag, a, b)
    <2> DEFINE S == {c \in DOMAIN dag.Nodes : HasPath(dag, a, c)}
    <2>1. ASSUME NEW e \in dag.Edges, e[1] \in S \cup {a} PROVE e[2] \in S
        <3>1. PICK x \in DOMAIN dag.Nodes, y \in DOMAIN dag.Nodes : e = <<x, y>>
            BY DEF IsReduction
        <3>2. HasPath(dag, x, y)
            BY <3>1 DEF IsReduction
        <3>3. x = a \/ HasPath(dag, a, x)
            BY <2>1, <3>1
        <3>4. HasPath(dag, a, y)
            BY <3>2, <3>3 DEF IsCausal
        <3> QED
            BY <3>1, <3>4
    <2>2. S \in SUBSET DOMAIN dag.Nodes
        OBVIOUS
    <2>3. b \in S
        <3>1. \A e \in dag.Edges : e[1] \in S \cup {a} => e[2] \in S
            BY <2>1
        <3>2. \A T \in SUBSET DOMAIN dag.Nodes :
                  (\A e \in dag.Edges : e[1] \in T \cup {a} => e[2] \in T) => b \in T
            BY <1>2, Zenon DEF EdgesLead
        <3> HIDE DEF S
        <3> QED
            BY <2>2, <3>1, <3>2, Zenon
    <2> QED
        BY <2>3
<1>3. HasPath(dag, a, b) =>
          \A S \in SUBSET DOMAIN dag.Nodes :
              (\A e \in dag.Edges : e[1] \in S \cup {a} => e[2] \in S) => b \in S
    BY <1>1, Zenon
<1> QED
    BY <1>2, <1>3, Zenon DEF EdgesLead

\* No edge has a node between its ends.
LEMMA EdgesAreDirect ==
    ASSUME NEW dag, IsReduction(dag), NEW e \in dag.Edges
    PROVE  ~\E k \in DOMAIN dag.Nodes : HasPath(dag, e[1], k) /\ HasPath(dag, k, e[2])
<1>1. PICK x \in DOMAIN dag.Nodes, y \in DOMAIN dag.Nodes : e = <<x, y>>
    BY DEF IsReduction
<1>2. ~\E k \in DOMAIN dag.Nodes : HasPath(dag, x, k) /\ HasPath(dag, k, y)
    BY <1>1 DEF IsReduction
<1> QED
    BY <1>1, <1>2

\* The ids of a log tell its operations apart, and come after their causes.
WellOrdered(w) ==
    /\ Len(w) \in Nat /\ DOMAIN w = 1..Len(w)
    /\ \A i, j \in 1..Len(w) : OpKey(w[i]) = OpKey(w[j]) => i = j
    /\ \A i, j \in 1..Len(w) : HappenedBefore(w[i].id, w[j].id) => i < j
    /\ \A i \in 1..Len(w) : w[i].id \in LogicalIds

\* What follows the ids around.
LEMMA CausesOfCauses ==
    \A o, p, q \in LogicalIds : HappenedBefore(o, p) /\ HappenedBefore(p, q) => HappenedBefore(o, q)
<1> SUFFICES ASSUME NEW o \in LogicalIds, NEW p \in LogicalIds, NEW q \in LogicalIds,
                    HappenedBefore(o, p), HappenedBefore(p, q)
             PROVE  HappenedBefore(o, q)
    OBVIOUS
<1>1. \A t \in Sites : o.clock[t] \in Int /\ p.clock[t] \in Int /\ q.clock[t] \in Int
    BY DEF LogicalIds, VectorClocks
<1>2. \A t \in Sites : o.clock[t] <= p.clock[t] /\ p.clock[t] <= q.clock[t]
    BY DEF HappenedBefore
<1>3. PICK t \in Sites : o.clock[t] < p.clock[t]
    BY DEF HappenedBefore
<1>4. o.clock[t] < q.clock[t]
    BY <1>1, <1>2, <1>3
<1>5. \A x, y, z \in Int : x <= y /\ y <= z => x <= z
    OBVIOUS
<1>6. \A u \in Sites : o.clock[u] <= q.clock[u]
    BY <1>1, <1>2, <1>5, Zenon
<1> QED
    BY <1>4, <1>6 DEF HappenedBefore

\* The nodes of the DAG of a log.
LEMMA NodesOfLog ==
    ASSUME NEW w, WellOrdered(w)
    PROVE  /\ DOMAIN BuildDAG(w).Nodes = {OpKey(w[i]) : i \in 1..Len(w)}
           /\ \A i \in 1..Len(w) : BuildDAG(w).Nodes[OpKey(w[i])] = w[i]
           /\ ToSet(w) = {w[i] : i \in 1..Len(w)}
<1>1. ToSet(w) = {w[i] : i \in 1..Len(w)}
    BY DEF ToSet, WellOrdered
<1> DEFINE keys == {OpKey(op) : op \in ToSet(w)}
           f == [k \in keys |-> w[Max({i \in DOMAIN w : OpKey(w[i]) = k})]]
<1>2. BuildDAG(w).Nodes = f
    BY DEF BuildDAG
<1>3. keys = {OpKey(w[i]) : i \in 1..Len(w)}
    BY <1>1
<1>4. ASSUME NEW i \in 1..Len(w) PROVE f[OpKey(w[i])] = w[i]
    <2>1. {j \in DOMAIN w : OpKey(w[j]) = OpKey(w[i])} = {i}
        BY DEF WellOrdered
    <2>2. Max({i}) = i
        BY DEF Max
    <2>3. OpKey(w[i]) \in keys
        BY <1>3
    <2>4. f[OpKey(w[i])] = w[Max({j \in DOMAIN w : OpKey(w[j]) = OpKey(w[i])})]
        BY <2>3
    <2> QED
        BY <2>1, <2>2, <2>4
<1> HIDE DEF keys, f
<1>5. DOMAIN f = keys
    BY DEF f
<1> QED
    BY <1>1, <1>2, <1>3, <1>4, <1>5

\* The pairs of positions that yield an edge: nothing is between.
LEMMA DirectPairs ==
    ASSUME NEW w, WellOrdered(w), NEW i \in 1..Len(w), NEW j \in 1..Len(w)
    PROVE  isDirect(w, w[i], w[j]) <=>
               /\ HappenedBefore(w[i].id, w[j].id)
               /\ ~\E k \in 1..Len(w) : /\ HappenedBefore(w[i].id, w[k].id)
                                        /\ HappenedBefore(w[k].id, w[j].id)
<1>1. ToSet(w) = {w[k] : k \in 1..Len(w)}
    BY NodesOfLog
<1>2. ASSUME HappenedBefore(w[i].id, w[j].id) PROVE OpKey(w[i]) # OpKey(w[j])
    <2>1. i < j /\ i \in Int /\ j \in Int
        BY <1>2 DEF WellOrdered
    <2> QED
        BY <2>1 DEF WellOrdered
<1>3. ASSUME NEW k \in 1..Len(w), HappenedBefore(w[i].id, w[k].id), HappenedBefore(w[k].id, w[j].id)
      PROVE  OpKey(w[k]) \notin {OpKey(w[i]), OpKey(w[j])}
    <2>1. i < k /\ k < j /\ i \in Int /\ j \in Int /\ k \in Int
        BY <1>3 DEF WellOrdered
    <2>2. OpKey(w[k]) # OpKey(w[i]) /\ OpKey(w[k]) # OpKey(w[j])
        BY <2>1 DEF WellOrdered
    <2> QED
        BY <2>2
<1>4. isDirect(w, w[i], w[j]) <=>
          /\ OpKey(w[i]) # OpKey(w[j])
          /\ HappenedBefore(w[i].id, w[j].id)
          /\ ~\E k \in 1..Len(w) :
                /\ OpKey(w[k]) \notin {OpKey(w[i]), OpKey(w[j])}
                /\ HappenedBefore(w[i].id, w[k].id)
                /\ HappenedBefore(w[k].id, w[j].id)
    BY <1>1, Zenon DEF isDirect
<1> QED
    BY <1>2, <1>3, <1>4, Zenon

\* HasPath compares the clocks.
LEMMA PathsOfLog ==
    ASSUME NEW w, WellOrdered(w)
    PROVE  \A i, j \in 1..Len(w) :
               HasPath(BuildDAG(w), OpKey(w[i]), OpKey(w[j])) <=> HappenedBefore(w[i].id, w[j].id)
BY NodesOfLog DEF HasPath

\* The order of the log is one of the nodes.
LEMMA DagIsCausal ==
    ASSUME NEW w, WellOrdered(w)
    PROVE  \E pos : IsCausal(BuildDAG(w), pos)
<1>1. PICK dag : dag = BuildDAG(w)
    OBVIOUS
<1>2. /\ DOMAIN dag.Nodes = {OpKey(w[i]) : i \in 1..Len(w)}
      /\ \A i, j \in 1..Len(w) : HasPath(dag, OpKey(w[i]), OpKey(w[j])) <=> HappenedBefore(w[i].id, w[j].id)
    BY <1>1, NodesOfLog, PathsOfLog
<1>3. PICK key : key = [i \in 1..Len(w) |-> OpKey(w[i])]
    OBVIOUS
<1>4. key \in Surjection(1..Len(w), DOMAIN dag.Nodes)
    BY <1>2, <1>3 DEF Surjection
<1>5. IsFiniteSet(DOMAIN dag.Nodes)
    BY <1>4, FS_Surjection, FS_Interval DEF WellOrdered
<1> DEFINE p == [k \in DOMAIN dag.Nodes |-> CHOOSE i \in 1..Len(w) : OpKey(w[i]) = k]
<1>6. \A i \in 1..Len(w) : p[OpKey(w[i])] = i
    <2> TAKE i \in 1..Len(w)
    <2>1. OpKey(w[i]) \in DOMAIN dag.Nodes
        BY <1>2
    <2>2. p[OpKey(w[i])] \in 1..Len(w) /\ OpKey(w[p[OpKey(w[i])]]) = OpKey(w[i])
        BY <2>1
    <2> QED
        BY <2>2 DEF WellOrdered
<1>7. p \in [DOMAIN dag.Nodes -> Nat]
    <2>1. \A k \in DOMAIN dag.Nodes : p[k] \in 1..Len(w)
        BY <1>2, <1>6
    <2>2. \A k \in DOMAIN dag.Nodes : p[k] \in Nat
        <3> HIDE DEF p
        <3>1. 1..Len(w) \subseteq Nat
            BY DEF WellOrdered
        <3> QED
            BY <2>1, <3>1, Zenon
    <2> QED
        BY <2>2
<1> HIDE DEF p
<1>8. ASSUME NEW x \in DOMAIN dag.Nodes, NEW y \in DOMAIN dag.Nodes, HasPath(dag, x, y)
      PROVE  p[x] < p[y]
    <2>1. PICK i \in 1..Len(w), j \in 1..Len(w) : x = OpKey(w[i]) /\ y = OpKey(w[j])
        BY <1>2
    <2>2. i < j
        BY <1>2, <1>8, <2>1 DEF WellOrdered
    <2> QED
        BY <1>6, <2>1, <2>2
<1>9. ASSUME NEW x \in DOMAIN dag.Nodes, NEW y \in DOMAIN dag.Nodes, NEW z \in DOMAIN dag.Nodes,
             HasPath(dag, x, y), HasPath(dag, y, z)
      PROVE  HasPath(dag, x, z)
    <2>1. PICK i \in 1..Len(w), j \in 1..Len(w), k \in 1..Len(w) :
              x = OpKey(w[i]) /\ y = OpKey(w[j]) /\ z = OpKey(w[k])
        BY <1>2
    <2>2. HappenedBefore(w[i].id, w[j].id) /\ HappenedBefore(w[j].id, w[k].id)
        BY <1>2, <1>9, <2>1
    <2>3. HappenedBefore(w[i].id, w[k].id)
        BY <2>2, CausesOfCauses DEF WellOrdered
    <2> QED
        BY <1>2, <2>1, <2>3
<1>10. IsCausal(dag, p)
    BY <1>5, <1>7, <1>8, <1>9 DEF IsCausal
<1> QED
    BY <1>1, <1>10

\* The edges are those pairs of nodes with nothing in between.
LEMMA EdgesOfLog ==
    ASSUME NEW w, WellOrdered(w)
    PROVE  /\ BuildDAG(w).Edges \subseteq (DOMAIN BuildDAG(w).Nodes) \X (DOMAIN BuildDAG(w).Nodes)
           /\ \A i, j \in 1..Len(w) :
                 <<OpKey(w[i]), OpKey(w[j])>> \in BuildDAG(w).Edges <=> isDirect(w, w[i], w[j])
<1>1. PICK keys : keys = {OpKey(w[i]) : i \in 1..Len(w)}
    OBVIOUS
<1>2. DOMAIN BuildDAG(w).Nodes = keys
    BY <1>1, NodesOfLog
<1> DEFINE direct == {ij \in (1..Len(w)) \X (1..Len(w)) : isDirect(w, w[ij[1]], w[ij[2]])}
           edges == {<<OpKey(w[ij[1]]), OpKey(w[ij[2]])>> : ij \in direct}
<1>3. BuildDAG(w).Edges = edges
    BY DEF BuildDAG, WellOrdered
<1>4. edges \subseteq keys \X keys
    BY <1>1
<1>5. ASSUME NEW i \in 1..Len(w), NEW j \in 1..Len(w), isDirect(w, w[i], w[j])
      PROVE  <<OpKey(w[i]), OpKey(w[j])>> \in edges
    <2>1. <<i, j>> \in direct /\ <<i, j>>[1] = i /\ <<i, j>>[2] = j
        BY <1>5
    <2> HIDE DEF direct
    <2> QED
        BY <2>1
<1>6. ASSUME NEW i \in 1..Len(w), NEW j \in 1..Len(w), <<OpKey(w[i]), OpKey(w[j])>> \in edges
      PROVE  isDirect(w, w[i], w[j])
    <2>1. PICK ij \in direct : <<OpKey(w[i]), OpKey(w[j])>> = <<OpKey(w[ij[1]]), OpKey(w[ij[2]])>>
        BY <1>6
    <2>2. ij[1] \in 1..Len(w) /\ ij[2] \in 1..Len(w) /\ isDirect(w, w[ij[1]], w[ij[2]])
        OBVIOUS
    <2> HIDE DEF direct
    <2>3. OpKey(w[i]) = OpKey(w[ij[1]]) /\ OpKey(w[j]) = OpKey(w[ij[2]])
        BY <2>1
    <2>4. i = ij[1] /\ j = ij[2]
        BY <2>2, <2>3 DEF WellOrdered
    <2> QED
        BY <2>2, <2>4
<1> HIDE DEF edges
<1> QED
    BY <1>2, <1>3, <1>4, <1>5, <1>6

\* Every parent is counted once.
LEMMA ParentsOfLog ==
    ASSUME NEW w, WellOrdered(w), NEW j \in 1..Len(w)
    PROVE  BuildDAG(w).parents[OpKey(w[j])] =
               Cardinality({p \in DOMAIN BuildDAG(w).Nodes : <<p, OpKey(w[j])>> \in BuildDAG(w).Edges})
<1> DEFINE direct == {ij \in (1..Len(w)) \X (1..Len(w)) : isDirect(w, w[ij[1]], w[ij[2]])}
<1>1. PICK S : S = {ij \in direct : OpKey(w[ij[2]]) = OpKey(w[j])}
    OBVIOUS
<1>2. PICK T : T = {p \in DOMAIN BuildDAG(w).Nodes : <<p, OpKey(w[j])>> \in BuildDAG(w).Edges}
    OBVIOUS
<1>3. PICK I : I = {i \in 1..Len(w) : isDirect(w, w[i], w[j])}
    OBVIOUS
<1>4. BuildDAG(w).parents[OpKey(w[j])] = Cardinality(S)
    <2>1. OpKey(w[j]) \in {OpKey(op) : op \in ToSet(w)}
        BY NodesOfLog
    <2>2. DOMAIN w = 1..Len(w)
        BY DEF WellOrdered
    <2> QED
        BY <1>1, <2>1, <2>2 DEF BuildDAG
<1>5. \A i \in I : i \in 1..Len(w) /\ isDirect(w, w[i], w[j])
    BY <1>3
<1>6. S = {<<i, j>> : i \in I}
    <2>1. ASSUME NEW ij \in S PROVE ij \in {<<i, j>> : i \in I}
        <3>1. PICK i \in 1..Len(w), k \in 1..Len(w) : ij = <<i, k>> /\ isDirect(w, w[i], w[k])
            BY <1>1
        <3>2. OpKey(w[k]) = OpKey(w[j])
            BY <1>1, <3>1
        <3>3. k = j
            BY <3>2 DEF WellOrdered
        <3>4. i \in I
            BY <1>3, <3>1, <3>3
        <3> QED
            BY <3>1, <3>3, <3>4
    <2>2. ASSUME NEW i \in I PROVE <<i, j>> \in S
        <3>1. <<i, j>>[1] = i /\ <<i, j>>[2] = j /\ <<i, j>> \in (1..Len(w)) \X (1..Len(w))
            BY <1>5
        <3>2. <<i, j>> \in direct
            BY <1>5, <3>1
        <3> HIDE DEF direct
        <3> QED
            BY <1>1, <3>1, <3>2
    <2> QED
        BY <2>1, <2>2
<1> HIDE DEF direct
<1>7. T = {OpKey(w[i]) : i \in I}
    <2>1. ASSUME NEW p \in T PROVE p \in {OpKey(w[i]) : i \in I}
        <3>1. PICK i \in 1..Len(w) : p = OpKey(w[i])
            BY <1>2, NodesOfLog
        <3>2. isDirect(w, w[i], w[j])
            BY <1>2, <3>1, EdgesOfLog
        <3> QED
            BY <1>3, <3>1, <3>2
    <2>2. ASSUME NEW i \in I PROVE OpKey(w[i]) \in T
        <3>1. <<OpKey(w[i]), OpKey(w[j])>> \in BuildDAG(w).Edges
            BY <1>5, EdgesOfLog
        <3>2. OpKey(w[i]) \in DOMAIN BuildDAG(w).Nodes
            BY <1>5, NodesOfLog
        <3> QED
            BY <1>2, <3>1, <3>2
    <2> QED
        BY <2>1, <2>2
<1>8. IsFiniteSet(I)
    <2>1. IsFiniteSet(1..Len(w))
        BY FS_Interval DEF WellOrdered
    <2> QED
        BY <1>3, <2>1, FS_Subset
<1>9. Cardinality(S) = Cardinality(I)
    <2>1. PICK f : f = [i \in I |-> <<i, j>>]
        OBVIOUS
    <2>2. /\ f \in [I -> S]
          /\ \A x, y \in I : f[x] = f[y] => x = y
          /\ \A t \in S : \E x \in I : f[x] = t
        BY <1>6, <2>1
    <2>3. f \in Bijection(I, S)
        BY <2>2 DEF Bijection, Injection, IsInjective, Surjection
    <2> QED
        BY <1>8, <2>3, FS_Bijection DEF ExistsBijection
<1>10. Cardinality(T) = Cardinality(I)
    <2>1. PICK f : f = [i \in I |-> OpKey(w[i])]
        OBVIOUS
    <2>2. \A x, y \in I : f[x] = f[y] => x = y
        BY <1>5, <2>1 DEF WellOrdered
    <2>3. f \in [I -> T] /\ \A t \in T : \E x \in I : f[x] = t
        BY <1>7, <2>1
    <2>4. f \in Bijection(I, T)
        BY <2>2, <2>3 DEF Bijection, Injection, IsInjective, Surjection
    <2> QED
        BY <1>8, <2>4, FS_Bijection DEF ExistsBijection
<1> QED
    BY <1>2, <1>4, <1>9, <1>10

\* The edges of a log are the transitive reduction of its causal order.
LEMMA DagIsReduction ==
    ASSUME NEW w, WellOrdered(w)
    PROVE  IsReduction(BuildDAG(w))
<1>1. PICK dag : dag = BuildDAG(w)
    OBVIOUS
<1>2. /\ DOMAIN dag.Nodes = {OpKey(w[i]) : i \in 1..Len(w)}
      /\ \A i, j \in 1..Len(w) : HasPath(dag, OpKey(w[i]), OpKey(w[j])) <=> HappenedBefore(w[i].id, w[j].id)
    BY <1>1, NodesOfLog, PathsOfLog
<1>3. dag.Edges \subseteq (DOMAIN dag.Nodes) \X (DOMAIN dag.Nodes)
    BY <1>1, EdgesOfLog
<1>4. ASSUME NEW x \in DOMAIN dag.Nodes, NEW y \in DOMAIN dag.Nodes
      PROVE  <<x, y>> \in dag.Edges <=>
                 /\ HasPath(dag, x, y)
                 /\ ~\E c \in DOMAIN dag.Nodes : HasPath(dag, x, c) /\ HasPath(dag, c, y)
    <2>1. PICK i \in 1..Len(w), j \in 1..Len(w) : x = OpKey(w[i]) /\ y = OpKey(w[j])
        BY <1>2
    <2>2. <<x, y>> \in dag.Edges <=> isDirect(w, w[i], w[j])
        BY <1>1, <2>1, EdgesOfLog
    <2>3. HasPath(dag, x, y) <=> HappenedBefore(w[i].id, w[j].id)
        BY <1>2, <2>1
    <2>4. (\E c \in DOMAIN dag.Nodes : HasPath(dag, x, c) /\ HasPath(dag, c, y)) <=>
              (\E k \in 1..Len(w) : /\ HappenedBefore(w[i].id, w[k].id)
                                   /\ HappenedBefore(w[k].id, w[j].id))
        BY <1>2, <2>1
    <2> QED
        BY <2>2, <2>3, <2>4, DirectPairs
<1>5. dag.parents = [k \in DOMAIN dag.Nodes |->
                        Cardinality({p \in DOMAIN dag.Nodes : <<p, k>> \in dag.Edges})]
    <2>1. \A k \in DOMAIN dag.Nodes :
              dag.parents[k] = Cardinality({p \in DOMAIN dag.Nodes : <<p, k>> \in dag.Edges})
        BY <1>1, <1>2, ParentsOfLog
    <2> DEFINE keys == {OpKey(op) : op \in ToSet(w)}
    <2>2. /\ DOMAIN dag.Nodes = keys
          /\ \E g : dag.parents = [k \in keys |-> g[k]]
        <3> DEFINE direct == {ij \in (DOMAIN w) \X (DOMAIN w) : isDirect(w, w[ij[1]], w[ij[2]])}
                   g == [k \in keys |-> Cardinality({ij \in direct : OpKey(w[ij[2]]) = k})]
        <3>1. dag.parents = g /\ DOMAIN dag.Nodes = keys
            BY <1>1 DEF BuildDAG
        <3>2. g = [k \in keys |-> g[k]]
            OBVIOUS
        <3> HIDE DEF g
        <3> QED
            BY <3>1, <3>2
    <2> QED
        BY <2>1, <2>2
<1> QED
    BY <1>1, <1>3, <1>4, <1>5 DEF IsReduction

\* A node id names one operation, whatever the site that holds it.
LEMMA KeysTell ==
    ASSUME DocInv, NEW a, NEW b, Sites = {a, b}
    PROVE  \A o, p \in Ops : OpKey(o) = OpKey(p) => o = p
<1>1. \A o, p \in Ops : equals(o.id, p.id) => o = p
    BY OpsOrder DEF DocInv
<1>2. \A o, p : OpKey(o) = OpKey(p) => equals(o.id, p.id)
    BY DEF OpKey, equals
<1> QED
    BY <1>1, <1>2

\* The logs are in an order that the DAG can be read from.
LEMMA LogsAreWellOrdered ==
    ASSUME DocInv, NEW a, NEW b, Sites = {a, b}, NEW s \in Sites
    PROVE  WellOrdered(state[s])
<1>1. /\ Proved!StrictOrder(Ops)
      /\ CausesFirst(Ops)
      /\ \A o \in Ops : o.id \in LogicalIds
    BY OpsOrder DEF DocInv
<1>2. PICK w : w = state[s]
    OBVIOUS
<1>3. w \in Proved!SortedOver(Ops)
    BY <1>2 DEF DocInv, LogsTyped
<1>4. Len(w) \in Nat /\ DOMAIN w = 1..Len(w) /\ \A i \in 1..Len(w) : w[i] \in Ops
    BY <1>3, LogTypes
<1>5. \A i, j \in 1..Len(w) : i < j => Proved!CompareOperation(w[i], w[j]) < 0
    BY <1>3 DEF Proved!SortedOver, Proved!Sorted
<1>6. \A o, p \in Ops : /\ Proved!CompareOperation(o, o) = 0
                        /\ Proved!CompareOperation(o, p) < 0 => ~(Proved!CompareOperation(p, o) < 0)
                        /\ Proved!CompareOperation(o, p) \in Int
    BY <1>1 DEF Proved!StrictOrder
<1>7. ASSUME NEW i \in 1..Len(w), NEW j \in 1..Len(w), w[i] = w[j] PROVE i = j
    <2>1. ~(Proved!CompareOperation(w[i], w[j]) < 0) /\ ~(Proved!CompareOperation(w[j], w[i]) < 0)
        BY <1>4, <1>6, <1>7
    <2>2. ~(i < j) /\ ~(j < i)
        BY <1>5, <2>1
    <2> QED
        BY <1>4, <2>2
<1>8. ASSUME NEW i \in 1..Len(w), NEW j \in 1..Len(w), OpKey(w[i]) = OpKey(w[j]) PROVE i = j
    <2>1. w[i] = w[j]
        BY <1>4, <1>8, KeysTell
    <2> QED
        BY <1>7, <2>1
<1>9. ASSUME NEW i \in 1..Len(w), NEW j \in 1..Len(w), HappenedBefore(w[i].id, w[j].id) PROVE i < j
    <2>1. Proved!CompareOperation(w[i], w[j]) < 0
        BY <1>1, <1>4, <1>9 DEF CausesFirst
    <2>2. i # j
        BY <1>4, <1>6, <2>1
    <2>3. ~(j < i)
        BY <1>4, <1>5, <1>6, <2>1
    <2> QED
        BY <1>4, <2>2, <2>3
<1>10. \A i \in 1..Len(w) : w[i].id \in LogicalIds
    BY <1>1, <1>4
<1> QED
    BY <1>2, <1>4, <1>8, <1>9, <1>10 DEF WellOrdered

\* So the properties of the DAG follow from the invariant of the documents.
LEMMA PathsFollow ==
    ASSUME DocInv, NEW a, NEW b, Sites = {a, b}
    PROVE  HasPathIsPath
<1> SUFFICES ASSUME NEW s \in Sites, NEW x \in DOMAIN Dag(s).Nodes, NEW y \in DOMAIN Dag(s).Nodes
             PROVE  HasPath(Dag(s), x, y) <=> EdgesLead(Dag(s), x, y)
    BY Zenon DEF HasPathIsPath
<1>1. PICK dag : dag = Dag(s)
    OBVIOUS
<1>2. WellOrdered(state[s])
    BY LogsAreWellOrdered
<1>3. PICK pos : IsCausal(dag, pos)
    BY <1>1, <1>2, DagIsCausal DEF Dag
<1>4. IsReduction(dag)
    BY <1>1, <1>2, DagIsReduction DEF Dag
<1>5. HasPath(dag, x, y) <=> EdgesLead(dag, x, y)
    BY <1>1, <1>3, <1>4, PathsFollowEdges
<1> QED
    BY <1>1, <1>5

\* Every edge of the DAG of a log is needed.
LEMMA EdgesFollow ==
    ASSUME DocInv, NEW a, NEW b, Sites = {a, b}
    PROVE  EdgesAreNeeded
<1> SUFFICES ASSUME NEW s \in Sites, NEW e \in Dag(s).Edges
             PROVE  ~\E k \in DOMAIN Dag(s).Nodes : HasPath(Dag(s), e[1], k) /\ HasPath(Dag(s), k, e[2])
    BY Zenon DEF EdgesAreNeeded
<1>1. PICK dag : dag = Dag(s)
    OBVIOUS
<1>2. IsReduction(dag)
    BY <1>1, LogsAreWellOrdered, DagIsReduction DEF Dag
<1>3. ~\E k \in DOMAIN dag.Nodes : HasPath(dag, e[1], k) /\ HasPath(dag, k, e[2])
    BY <1>1, <1>2, EdgesAreDirect
<1> QED
    BY <1>1, <1>3

\* The nodes of a site's DAG are the keys of the operations it holds.
LEMMA DagNodes ==
    ASSUME DocInv, NEW a, NEW b, Sites = {a, b}, NEW s \in Sites
    PROVE  /\ DOMAIN Dag(s).Nodes = {OpKey(o) : o \in ToSet(state[s])}
           /\ \A o \in ToSet(state[s]) : Dag(s).Nodes[OpKey(o)] = o
<1>1. WellOrdered(state[s])
    BY LogsAreWellOrdered
<1>2. PICK w : w = state[s]
    OBVIOUS
<1>3. PICK dag : dag = Dag(s)
    OBVIOUS
<1>4. /\ DOMAIN dag.Nodes = {OpKey(w[i]) : i \in 1..Len(w)}
      /\ \A i \in 1..Len(w) : dag.Nodes[OpKey(w[i])] = w[i]
      /\ ToSet(w) = {w[i] : i \in 1..Len(w)}
    BY <1>1, <1>2, <1>3, NodesOfLog DEF Dag
<1>5. /\ DOMAIN dag.Nodes = {OpKey(o) : o \in ToSet(w)}
      /\ \A o \in ToSet(w) : dag.Nodes[OpKey(o)] = o
    BY <1>4
<1> QED
    BY <1>2, <1>3, <1>5

\* Logs with the same ids hold the same operations, hence the same graph.
LEMMA DagFollows ==
    ASSUME DocInv, NEW a, NEW b, Sites = {a, b}
    PROVE  DagIsTheLog
<1> SUFFICES ASSUME NEW s \in Sites, NEW t \in Sites
             PROVE  Equals(Dag(s), Dag(t)) <=> Ids(state[s]) = Ids(state[t])
    BY Zenon DEF DagIsTheLog
<1>1. PICK d, e, A, B : d = Dag(s) /\ e = Dag(t) /\ A = ToSet(state[s]) /\ B = ToSet(state[t])
    OBVIOUS
<1>2. A \subseteq Ops /\ B \subseteq Ops
    BY <1>1 DEF Ops
<1>3. \A o, p \in Ops : OpKey(o) = OpKey(p) => o = p
    BY KeysTell
<1>4. \A o, p \in Ops : o.id = p.id => o = p
    BY DEF DocInv, LogsTyped, IdsTell
<1>5. /\ DOMAIN d.Nodes = {OpKey(o) : o \in A}
      /\ DOMAIN e.Nodes = {OpKey(o) : o \in B}
      /\ \A o \in A : d.Nodes[OpKey(o)] = o
      /\ \A o \in B : e.Nodes[OpKey(o)] = o
    BY <1>1, DagNodes
<1>6. Ids(state[s]) = {o.id : o \in A} /\ Ids(state[t]) = {o.id : o \in B}
    BY <1>1 DEF Ids
<1>7. ASSUME Equals(d, e) PROVE A = B
    <2>1. {OpKey(o) : o \in A} = {OpKey(o) : o \in B}
        BY <1>5, <1>7 DEF Equals
    <2>2. \A o \in A : o \in B
        BY <1>2, <1>3, <2>1
    <2>3. \A o \in B : o \in A
        BY <1>2, <1>3, <2>1
    <2> QED
        BY <2>2, <2>3
<1>8. ASSUME {o.id : o \in A} = {o.id : o \in B} PROVE A = B
    <2>1. \A o \in A : o \in B
        BY <1>2, <1>4, <1>8
    <2>2. \A o \in B : o \in A
        BY <1>2, <1>4, <1>8
    <2> QED
        BY <2>1, <2>2
<1>9. ASSUME A = B PROVE Equals(d, e)
    <2>1. DOMAIN d.Nodes = DOMAIN e.Nodes
        BY <1>5, <1>9
    <2>2. \A x \in DOMAIN d.Nodes : d.Nodes[x] = e.Nodes[x]
        BY <1>5, <1>9
    <2>3. \A x, y \in DOMAIN d.Nodes : HasPath(d, x, y) <=> HasPath(e, x, y)
        BY <2>2 DEF HasPath
    <2>4. IsReduction(d) /\ IsReduction(e)
        BY <1>1, LogsAreWellOrdered, DagIsReduction DEF Dag
    <2>5. ASSUME NEW x \in DOMAIN d.Nodes, NEW y \in DOMAIN d.Nodes
          PROVE  <<x, y>> \in d.Edges <=> <<x, y>> \in e.Edges
        <3>1. <<x, y>> \in d.Edges <=>
                  /\ HasPath(d, x, y)
                  /\ ~\E c \in DOMAIN d.Nodes : HasPath(d, x, c) /\ HasPath(d, c, y)
            BY <2>4, Zenon DEF IsReduction
        <3>2. <<x, y>> \in e.Edges <=>
                  /\ HasPath(e, x, y)
                  /\ ~\E c \in DOMAIN d.Nodes : HasPath(e, x, c) /\ HasPath(e, c, y)
            BY <2>1, <2>4, Zenon DEF IsReduction
        <3> QED
            BY <2>3, <3>1, <3>2, Zenon
    <2>6. /\ d.Edges \subseteq (DOMAIN d.Nodes) \X (DOMAIN d.Nodes)
          /\ e.Edges \subseteq (DOMAIN d.Nodes) \X (DOMAIN d.Nodes)
        BY <2>1, <2>4 DEF IsReduction
    <2>7. d.Edges = e.Edges
        <3>1. PICK N, E, F : N = DOMAIN d.Nodes /\ E = d.Edges /\ F = e.Edges
            OBVIOUS
        <3>2. E \subseteq N \X N /\ F \subseteq N \X N
            BY <2>6, <3>1
        <3>3. \A x, y \in N : <<x, y>> \in E <=> <<x, y>> \in F
            BY <2>5, <3>1
        <3>4. E = F
            BY <3>2, <3>3
        <3> QED
            BY <3>1, <3>4
    <2> QED
        BY <2>1, <2>7 DEF Equals
<1> QED
    BY <1>1, <1>6, <1>7, <1>8, <1>9

-----------------------------------------------------------------------------
(* The topological layers.                                                 *)

\* The parents of k in S.
Parents(dag, S, k) == {p \in S : <<p, k>> \in dag.Edges}

\* What a round of the loop finds.
Findings(dag) ==
    LET nodes == DOMAIN dag.Nodes
    IN  [current : SUBSET nodes, indegree : [nodes -> Int],
         layers : Seq(SUBSET nodes), processed : Int]

\* What the loop starts with.
FirstRound(dag) ==
    [current |-> Roots(dag), indegree |-> dag.parents, layers |-> <<>>, processed |-> 0]

\* A round that has nodes to take.
TakenRound(dag, q) ==
    [current   |-> unlocked(dag, q.current, q.indegree),
     indegree  |-> [k \in DOMAIN dag.Nodes |->
                       q.indegree[k] - Cardinality(Parents(dag, q.current, k))],
     layers    |-> Append(q.layers, q.current),
     processed |-> q.processed + Cardinality(q.current)]

\* round goes from round to round of the loop.
Rounds(round, dag) ==
    /\ round[0] = FirstRound(dag)
    /\ \A m \in 1..Cardinality(DOMAIN dag.Nodes) :
          round[m] = IF round[m - 1].current = {} THEN round[m - 1]
                     ELSE TakenRound(dag, round[m - 1])

\* A round leads to a round.
LEMMA RoundTypes ==
    ASSUME NEW dag, IsFiniteSet(DOMAIN dag.Nodes), NEW q \in Findings(dag)
    PROVE  TakenRound(dag, q) \in Findings(dag)
<1>1. PICK N : N = DOMAIN dag.Nodes
    OBVIOUS
<1>2. /\ q.current \in SUBSET N /\ q.indegree \in [N -> Int]
      /\ q.layers \in Seq(SUBSET N) /\ q.processed \in Int
    BY <1>1 DEF Findings
<1>3. IsFiniteSet(q.current) /\ Cardinality(q.current) \in Int
    BY <1>1, <1>2, FS_Subset, FS_CardinalityType
<1>4. \A k \in N : Cardinality(Parents(dag, q.current, k)) \in Int
    <2> TAKE k \in N
    <2>1. Parents(dag, q.current, k) \in SUBSET q.current
        BY DEF Parents
    <2> QED
        BY <1>3, <2>1, FS_Subset, FS_CardinalityType
<1>5. unlocked(dag, q.current, q.indegree) \in SUBSET N
    BY <1>1 DEF unlocked
<1>6. [k \in N |-> q.indegree[k] - Cardinality(Parents(dag, q.current, k))] \in [N -> Int]
    <2>1. \A k \in N : q.indegree[k] \in Int
        BY <1>2
    <2> QED
        BY <1>4, <2>1
<1>7. Append(q.layers, q.current) \in Seq(SUBSET N)
    BY <1>2, AppendProperties
<1>8. q.processed + Cardinality(q.current) \in Int
    BY <1>2, <1>3
<1> QED
    BY <1>1, <1>5, <1>6, <1>7, <1>8 DEF TakenRound, Findings

\* The loop goes through such rounds.
LEMMA LoopRuns ==
    ASSUME NEW dag, IsFiniteSet(DOMAIN dag.Nodes), dag.parents \in [DOMAIN dag.Nodes -> Int],
           NEW n \in Nat, n = Cardinality(DOMAIN dag.Nodes)
    PROVE  \E round \in [0..n -> Findings(dag)] : Rounds(round, dag) /\ LayersLoop(dag) = round[n]
<1> DEFINE nodes == DOMAIN dag.Nodes
           hits(current, k) == Cardinality({p \in current : <<p, k>> \in dag.Edges})
           IsLoop(r) ==
               r = [m \in 0..Cardinality(nodes) |->
                       IF m = 0
                       THEN [current |-> Roots(dag), indegree |-> dag.parents,
                             layers |-> <<>>, processed |-> 0]
                       ELSE LET before == r[m - 1]
                            IN  IF before.current = {} THEN before
                                ELSE [current   |-> unlocked(dag, before.current, before.indegree),
                                      indegree  |-> [k \in nodes |->
                                                       before.indegree[k] - hits(before.current, k)],
                                      layers    |-> Append(before.layers, before.current),
                                      processed |-> before.processed + Cardinality(before.current)]]
           loop == CHOOSE r : IsLoop(r)
           X == Findings(dag)
           Played(q) == IF q.current = {} THEN q ELSE TakenRound(dag, q)
           h == [m \in 1..n |-> [q \in X |-> Played(q)]]
<1>1. LayersLoop(dag) = loop[n]
    BY DEF LayersLoop
<1>2. FirstRound(dag) \in X
    BY DEF FirstRound, Findings, Roots
<1>3. h \in [1..n -> [X -> X]]
    <2>1. \A q \in X : Played(q) \in X
        BY RoundTypes
    <2> HIDE DEF X, Played
    <2> QED
        BY <2>1
<1>4. PICK g \in [0..n -> X] : g[0] = FirstRound(dag) /\ \A m \in 1..n : g[m] = h[m][g[m - 1]]
    <2> HIDE DEF X, h
    <2>1. \E g \in [0..n -> X] : Proved!Loop(g, n, FirstRound(dag), h)
        BY <1>2, <1>3, Proved!RecursionExists, BoundOfPushes
    <2> QED
        BY <2>1 DEF Proved!Loop
<1>5. \A m \in 1..n : g[m - 1] \in X
    <2> HIDE DEF X
    <2> QED
        BY <1>4
<1>6. \A m \in 1..n : g[m] = Played(g[m - 1])
    <2> HIDE DEF X, Played
    <2> QED
        BY <1>4, <1>5
<1>7. \A q : TakenRound(dag, q) =
                [current   |-> unlocked(dag, q.current, q.indegree),
                 indegree  |-> [k \in nodes |-> q.indegree[k] - hits(q.current, k)],
                 layers    |-> Append(q.layers, q.current),
                 processed |-> q.processed + Cardinality(q.current)]
    BY DEF TakenRound, Parents
<1>8. ASSUME NEW r
      PROVE  IsLoop(r) <=> r = [m \in 0..n |-> IF m = 0 THEN FirstRound(dag) ELSE Played(r[m - 1])]
    <2>1. \A m : Played(r[m - 1]) =
              LET before == r[m - 1]
              IN  IF before.current = {} THEN before
                  ELSE [current   |-> unlocked(dag, before.current, before.indegree),
                        indegree  |-> [k \in nodes |->
                                         before.indegree[k] - hits(before.current, k)],
                        layers    |-> Append(before.layers, before.current),
                        processed |-> before.processed + Cardinality(before.current)]
        BY <1>7, Zenon
    <2> HIDE DEF Played
    <2> QED
        BY <2>1, Zenon DEF FirstRound
<1> HIDE DEF Played, h, X
<1>9. g = [m \in 0..n |-> IF m = 0 THEN FirstRound(dag) ELSE Played(g[m - 1])]
    <2>1. \A m \in 0..n : g[m] = IF m = 0 THEN FirstRound(dag) ELSE Played(g[m - 1])
        <3> SUFFICES ASSUME NEW m \in 0..n
                     PROVE  g[m] = IF m = 0 THEN FirstRound(dag) ELSE Played(g[m - 1])
            OBVIOUS
        <3>1. CASE m = 0
            BY <1>4, <3>1
        <3>2. CASE m # 0
            <4>1. m \in 1..n
                BY <3>2
            <4> QED
                BY <1>6, <3>2, <4>1, Zenon
        <3> QED
            BY <3>1, <3>2
    <2>2. g = [m \in 0..n |-> g[m]]
        BY <1>4
    <2> QED
        BY <2>1, <2>2
<1>10. IsLoop(loop)
    <2>1. IsLoop(g)
        BY <1>8, <1>9, Zenon
    <2> HIDE DEF IsLoop
    <2> QED
        BY <2>1, Zenon
<1>11. loop = [m \in 0..n |-> IF m = 0 THEN FirstRound(dag) ELSE Played(loop[m - 1])]
    <2> HIDE DEF IsLoop, loop
    <2> QED
        BY <1>8, <1>10, Zenon
<1> HIDE DEF loop, IsLoop
<1>12. loop[n] = g[n]
    <2> DEFINE Bad == {m \in 0..n : loop[m] # g[m]}
    <2>1. Bad = {}
        <3> SUFFICES ASSUME Bad # {} PROVE FALSE
            OBVIOUS
        <3>1. PICK m \in Bad : \A i \in Bad : m <= i
            <4>1. Bad \in SUBSET Nat
                OBVIOUS
            <4> HIDE DEF Bad
            <4> QED
                BY <4>1, LeastNumber, Zenon
        <3>2. m \in 0..n /\ loop[m] # g[m]
            OBVIOUS
        <3>3. m # 0
            BY <1>9, <1>11, <3>2
        <3>4. m - 1 \in 0..n /\ m - 1 \notin Bad
            <4>1. m - 1 \in 0..n /\ ~(m <= m - 1)
                BY <3>2, <3>3
            <4> HIDE DEF Bad
            <4> QED
                BY <3>1, <4>1
        <3>5. loop[m - 1] = g[m - 1]
            BY <3>4
        <3>6. loop[m] = Played(loop[m - 1]) /\ g[m] = Played(g[m - 1])
            BY <1>9, <1>11, <3>2, <3>3, Zenon
        <3> QED
            BY <3>2, <3>5, <3>6, Zenon
    <2> QED
        BY <2>1
<1>13. Rounds(g, dag)
    BY <1>4, <1>6 DEF Rounds, Played
<1> QED
    BY <1>1, <1>4, <1>12, <1>13 DEF X

\* The nodes outside P whose parents are all in P.
Free(dag, P) ==
    {k \in (DOMAIN dag.Nodes) \ P : \A p \in DOMAIN dag.Nodes : <<p, k>> \in dag.Edges => p \in P}

\* P has the parents of its members.
HasParents(dag, P) ==
    \A p \in DOMAIN dag.Nodes, k \in P : <<p, k>> \in dag.Edges => p \in P

\* indegree counts the parents that are not in P.
Counts(indegree, dag, P) ==
    \A k \in DOMAIN dag.Nodes : indegree[k] = Cardinality(Parents(dag, (DOMAIN dag.Nodes) \ P, k))

\* A part of the parents is counted as a part.
LEMMA ParentsCount ==
    ASSUME NEW dag, IsFiniteSet(DOMAIN dag.Nodes), NEW S \in SUBSET DOMAIN dag.Nodes, NEW k
    PROVE  /\ IsFiniteSet(Parents(dag, S, k))
           /\ Cardinality(Parents(dag, S, k)) \in Nat
           /\ Cardinality(Parents(dag, S, k)) = 0 <=> Parents(dag, S, k) = {}
<1>1. Parents(dag, S, k) \in SUBSET DOMAIN dag.Nodes
    BY DEF Parents
<1> QED
    BY <1>1, FS_Subset, FS_CardinalityType, FS_EmptySet

\* What is unlocked once current is taken too, after P.
FreesNext(dag, P, current, indegree) ==
    /\ unlocked(dag, current, indegree) = Free(dag, P \cup current)
    /\ \A k \in unlocked(dag, current, indegree) : \E p \in current : <<p, k>> \in dag.Edges
    /\ HasParents(dag, P \cup current)
    /\ \A k \in DOMAIN dag.Nodes :
          indegree[k] - Cardinality(Parents(dag, current, k)) =
              Cardinality(Parents(dag, (DOMAIN dag.Nodes) \ (P \cup current), k))

\* The next layer: the free nodes of what is taken with this one.
LEMMA UnlockedIsFree ==
    ASSUME NEW dag, IsFiniteSet(DOMAIN dag.Nodes),
           NEW P \in SUBSET DOMAIN dag.Nodes, HasParents(dag, P),
           NEW current, current = Free(dag, P),
           NEW indegree, Counts(indegree, dag, P)
    PROVE  FreesNext(dag, P, current, indegree)
<1>1. PICK N : N = DOMAIN dag.Nodes
    OBVIOUS
<1>2. current \subseteq N \ P /\ P \subseteq N /\ IsFiniteSet(N)
    BY <1>1 DEF Free
<1>3. PICK rest : rest = N \ (P \cup current)
    OBVIOUS
<1>4. ASSUME NEW k \in N
      PROVE  /\ Parents(dag, current, k) \in SUBSET Parents(dag, N \ P, k)
             /\ Parents(dag, N \ P, k) = Parents(dag, current, k) \cup Parents(dag, rest, k)
             /\ Parents(dag, current, k) \cap Parents(dag, rest, k) = {}
    BY <1>2, <1>3 DEF Parents
<1>5. ASSUME NEW k \in N
      PROVE  /\ IsFiniteSet(Parents(dag, N \ P, k))
             /\ IsFiniteSet(Parents(dag, current, k)) /\ Cardinality(Parents(dag, current, k)) \in Nat
             /\ Cardinality(Parents(dag, current, k)) = 0 <=> Parents(dag, current, k) = {}
             /\ IsFiniteSet(Parents(dag, rest, k)) /\ Cardinality(Parents(dag, rest, k)) \in Nat
             /\ Cardinality(Parents(dag, rest, k)) = 0 <=> Parents(dag, rest, k) = {}
    <2>1. N \ P \in SUBSET N /\ current \in SUBSET N /\ rest \in SUBSET N
        BY <1>2, <1>3
    <2> QED
        BY <1>1, <2>1, ParentsCount
<1>6. ASSUME NEW k \in N
      PROVE  indegree[k] = Cardinality(Parents(dag, current, k)) + Cardinality(Parents(dag, rest, k))
    <2>1. PICK A, B : A = Parents(dag, current, k) /\ B = Parents(dag, rest, k)
        OBVIOUS
    <2>2. IsFiniteSet(A) /\ IsFiniteSet(B) /\ A \cap B = {} /\ Cardinality(A) \in Nat /\ Cardinality(B) \in Nat
        BY <1>4, <1>5, <2>1
    <2>3. Cardinality(A \cup B) = Cardinality(A) + Cardinality(B) - Cardinality(A \cap B)
        BY <2>2, FS_Union
    <2>4. Cardinality(A \cap B) = 0
        BY <2>2, FS_EmptySet
    <2>5. indegree[k] = Cardinality(A \cup B)
        BY <1>1, <1>4, <2>1 DEF Counts
    <2> QED
        BY <2>1, <2>2, <2>3, <2>4, <2>5
<1>7. \A k \in N : indegree[k] - Cardinality(Parents(dag, current, k)) = Cardinality(Parents(dag, rest, k))
    BY <1>5, <1>6
<1>8. unlocked(dag, current, indegree) =
          {k \in N : Parents(dag, current, k) # {} /\ Parents(dag, rest, k) = {}}
    <2>1. unlocked(dag, current, indegree) =
              {k \in N : /\ Cardinality(Parents(dag, current, k)) > 0
                         /\ Cardinality(Parents(dag, current, k)) = indegree[k]}
        BY <1>1 DEF unlocked, Parents
    <2>2. ASSUME NEW k \in N
          PROVE  /\ Cardinality(Parents(dag, current, k)) > 0
                 /\ Cardinality(Parents(dag, current, k)) = indegree[k]
                 <=> Parents(dag, current, k) # {} /\ Parents(dag, rest, k) = {}
        BY <1>5, <1>6
    <2> QED
        BY <2>1, <2>2
<1>9. HasParents(dag, P \cup current)
    BY DEF HasParents, Free
<1>10. ASSUME NEW k \in N, Parents(dag, current, k) # {}, Parents(dag, rest, k) = {}
       PROVE  k \in Free(dag, P \cup current) /\ \E p \in current : <<p, k>> \in dag.Edges
    <2>1. PICK p \in current : <<p, k>> \in dag.Edges
        BY <1>10 DEF Parents
    <2>2. p \in N \ P
        BY <1>2
    <2>3. k \notin P
        BY <1>1, <2>1, <2>2 DEF HasParents
    <2>4. k \notin current
        BY <1>1, <2>1, <2>2 DEF Free
    <2>5. ASSUME NEW x \in N, <<x, k>> \in dag.Edges PROVE x \in P \cup current
        BY <1>3, <1>10, <2>5 DEF Parents
    <2> QED
        BY <1>1, <2>1, <2>3, <2>4, <2>5 DEF Free
<1>11. ASSUME NEW k \in Free(dag, P \cup current)
       PROVE  k \in N /\ Parents(dag, current, k) # {} /\ Parents(dag, rest, k) = {}
    <2>1. k \in N /\ k \notin P /\ k \notin current /\ \A x \in N : <<x, k>> \in dag.Edges => x \in P \cup current
        BY <1>1 DEF Free
    <2>2. PICK x \in N : <<x, k>> \in dag.Edges /\ x \notin P
        BY <1>1, <2>1 DEF Free
    <2>3. x \in Parents(dag, current, k)
        BY <2>1, <2>2 DEF Parents
    <2>4. Parents(dag, rest, k) = {}
        BY <1>3, <2>1 DEF Parents
    <2> QED
        BY <2>1, <2>3, <2>4
<1> QED
    BY <1>1, <1>3, <1>7, <1>8, <1>9, <1>10, <1>11 DEF FreesNext

\* Free nodes are concurrent: what is before one of them is in P.
LEMMA FreeIsConcurrent ==
    ASSUME NEW dag, NEW pos, IsCausal(dag, pos), IsReduction(dag),
           NEW P \in SUBSET DOMAIN dag.Nodes, HasParents(dag, P),
           NEW x \in Free(dag, P), NEW y \in Free(dag, P)
    PROVE  ~HasPath(dag, x, y)
<1> SUFFICES ASSUME HasPath(dag, x, y) PROVE FALSE
    OBVIOUS
<1>1. x \in DOMAIN dag.Nodes /\ y \in DOMAIN dag.Nodes /\ x \notin P
    BY DEF Free
<1>2. PICK c \in DOMAIN dag.Nodes : <<c, y>> \in dag.Edges /\ (c = x \/ HasPath(dag, x, c))
    BY <1>1, LastStep
<1>3. c \in P
    BY <1>2 DEF Free
<1>4. HasPath(dag, x, c)
    BY <1>1, <1>2, <1>3
<1>5. x \in P
    BY <1>1, <1>3, <1>4, AncestorsInside DEF HasParents
<1> QED
    BY <1>1, <1>5

\* Something is free as long as a node is not taken.
LEMMA SomeIsFree ==
    ASSUME NEW dag, NEW pos, IsCausal(dag, pos), IsReduction(dag),
           NEW P \in SUBSET DOMAIN dag.Nodes, Free(dag, P) = {}
    PROVE  P = DOMAIN dag.Nodes
<1> SUFFICES ASSUME NEW x \in (DOMAIN dag.Nodes) \ P PROVE FALSE
    OBVIOUS
<1> DEFINE D == {pos[k] : k \in (DOMAIN dag.Nodes) \ P}
<1>1. D \subseteq Nat /\ D # {}
    BY DEF IsCausal
<1>2. PICK m \in D : \A k \in D : m <= k
    <2> HIDE DEF D
    <2> QED
        BY <1>1, LeastNumber
<1>3. PICK k \in (DOMAIN dag.Nodes) \ P : m = pos[k]
    OBVIOUS
<1>4. ASSUME NEW p \in DOMAIN dag.Nodes, <<p, k>> \in dag.Edges PROVE p \in P
    <2>1. HasPath(dag, p, k)
        BY <1>4 DEF IsReduction
    <2>2. pos[p] < pos[k] /\ pos[p] \in Nat /\ pos[k] \in Nat
        BY <2>1 DEF IsCausal
    <2>3. pos[p] \notin D
        BY <1>2, <1>3, <2>2
    <2> QED
        BY <2>3
<1>5. k \in Free(dag, P)
    BY <1>4 DEF Free
<1> QED
    BY <1>5

\* The layers say what LayersAreTopological asks of them.
Layered(dag, layers) ==
    \A i \in 1..Len(layers) : \A x \in layers[i] :
        /\ \A y \in layers[i] : x # y => IsConcurrent(dag, x, y)
        /\ i > 1 => \E y \in layers[i - 1] : HasPath(dag, y, x)

\* The state of the loop between two rounds.
InRound(dag, q) ==
    LET P == UNION ToSet(q.layers)
    IN  /\ q \in Findings(dag)
        /\ HasParents(dag, P)
        /\ q.current = Free(dag, P)
        /\ Counts(q.indegree, dag, P)
        /\ q.processed = Cardinality(P)
        /\ Layered(dag, q.layers)
        /\ Len(q.layers) > 0 =>
              \A x \in q.current : \E y \in q.layers[Len(q.layers)] : HasPath(dag, y, x)

\* One layer more.
LEMMA TakenByMore ==
    ASSUME NEW N, NEW layers \in Seq(SUBSET N), NEW current \in SUBSET N
    PROVE  /\ UNION ToSet(layers) \in SUBSET N
           /\ UNION ToSet(Append(layers, current)) = (UNION ToSet(layers)) \cup current
<1>1. /\ DOMAIN layers = 1..Len(layers) /\ Len(layers) \in Nat
      /\ \A i \in 1..Len(layers) : layers[i] \in SUBSET N
    OBVIOUS
<1>2. PICK more : more = Append(layers, current)
    OBVIOUS
<1>3. /\ more \in Seq(SUBSET N) /\ Len(more) = Len(layers) + 1
      /\ \A i \in 1..Len(layers) : more[i] = layers[i]
      /\ more[Len(layers) + 1] = current
    BY <1>2, AppendProperties
<1>4. DOMAIN more = 1..(Len(layers) + 1)
    BY <1>3
<1>5. \A i \in DOMAIN more : i \in 1..Len(layers) \/ i = Len(layers) + 1
    BY <1>1, <1>4
<1>6. 1..Len(layers) \subseteq DOMAIN more /\ Len(layers) + 1 \in DOMAIN more
    BY <1>1, <1>4
<1>7. ToSet(more) = ToSet(layers) \cup {current}
    BY <1>1, <1>3, <1>5, <1>6 DEF ToSet
<1>8. UNION ToSet(layers) \in SUBSET N
    BY <1>1 DEF ToSet
<1> QED
    BY <1>2, <1>7, <1>8

\* The roots are the nodes that wait for no parent.
LEMMA FirstRoundIsOne ==
    ASSUME NEW dag, NEW pos, IsCausal(dag, pos), IsReduction(dag)
    PROVE  InRound(dag, FirstRound(dag))
<1>1. PICK N, q : N = DOMAIN dag.Nodes /\ q = FirstRound(dag)
    OBVIOUS
<1>2. q.current = Roots(dag) /\ q.indegree = dag.parents /\ q.layers = <<>> /\ q.processed = 0
    BY <1>1 DEF FirstRound
<1>3. IsFiniteSet(N)
    BY <1>1 DEF IsCausal
<1>4. UNION ToSet(q.layers) = {}
    BY <1>2 DEF ToSet
<1>5. \A k \in N : dag.parents[k] = Cardinality(Parents(dag, N, k))
    BY <1>1 DEF IsReduction, Parents
<1>6. \A k \in N : Cardinality(Parents(dag, N, k)) \in Nat
                   /\ (Cardinality(Parents(dag, N, k)) = 0 <=> Parents(dag, N, k) = {})
    BY <1>1, <1>3, ParentsCount
<1>7. Roots(dag) = Free(dag, {})
    BY <1>1, <1>5, <1>6 DEF Roots, Free, Parents
<1>8. q \in Findings(dag)
    <2>1. dag.parents \in [N -> Int]
        <3>1. \E g : dag.parents = [k \in N |-> g[k]]
            <4>1. dag.parents = [k \in N |-> Cardinality(Parents(dag, N, k))]
                BY <1>1 DEF IsReduction, Parents
            <4>2. PICK g : g = [k \in N |-> Cardinality(Parents(dag, N, k))]
                OBVIOUS
            <4>3. g = [k \in N |-> g[k]]
                BY <4>2
            <4> QED
                BY <4>1, <4>2, <4>3
        <3>2. \A k \in N : dag.parents[k] \in Int
            BY <1>5, <1>6
        <3> QED
            BY <3>1, <3>2
    <2>2. Roots(dag) \in SUBSET N
        BY <1>1 DEF Roots
    <2> QED
        BY <1>1, <2>1, <2>2 DEF FirstRound, Findings
<1>9. Cardinality({}) = 0 /\ N \ {} = N
    BY FS_EmptySet
<1>10. Layered(dag, q.layers) /\ ~(Len(q.layers) > 0)
    BY <1>2 DEF Layered
<1>11. HasParents(dag, {}) /\ Counts(q.indegree, dag, {})
    BY <1>1, <1>2, <1>5, <1>9 DEF HasParents, Counts
<1> QED
    BY <1>1, <1>2, <1>4, <1>5, <1>7, <1>8, <1>9, <1>10, <1>11 DEF InRound

\* A round keeps the state of the loop, and counts its layer as processed.
LEMMA RoundKeeps ==
    ASSUME NEW dag, NEW pos, IsCausal(dag, pos), IsReduction(dag), NEW q, InRound(dag, q)
    PROVE  /\ InRound(dag, TakenRound(dag, q))
           /\ TakenRound(dag, q).processed = q.processed + Cardinality(q.current)
<1>1. PICK N, P, r : /\ N = DOMAIN dag.Nodes /\ P = UNION ToSet(q.layers)
                     /\ r = TakenRound(dag, q)
    OBVIOUS
<1>2. /\ q \in Findings(dag)
      /\ HasParents(dag, P)
      /\ q.current = Free(dag, P)
      /\ Counts(q.indegree, dag, P)
      /\ q.processed = Cardinality(P)
      /\ Layered(dag, q.layers)
      /\ Len(q.layers) > 0 =>
            \A x \in q.current : \E y \in q.layers[Len(q.layers)] : HasPath(dag, y, x)
    BY <1>1 DEF InRound
<1>3. q.current \in SUBSET N /\ q.layers \in Seq(SUBSET N)
    BY <1>1, <1>2 DEF Findings
<1>4. IsFiniteSet(N)
    BY <1>1 DEF IsCausal
<1>5. /\ r.current = unlocked(dag, q.current, q.indegree)
      /\ r.indegree = [k \in N |-> q.indegree[k] - Cardinality(Parents(dag, q.current, k))]
      /\ r.layers = Append(q.layers, q.current)
      /\ r.processed = q.processed + Cardinality(q.current)
    BY <1>1 DEF TakenRound
<1>6. P \in SUBSET N /\ UNION ToSet(r.layers) = P \cup q.current
    <2>1. PICK L, C : L = q.layers /\ C = q.current
        OBVIOUS
    <2>2. /\ UNION ToSet(L) \in SUBSET N
          /\ UNION ToSet(Append(L, C)) = (UNION ToSet(L)) \cup C
        <3>1. L \in Seq(SUBSET N) /\ C \in SUBSET N
            BY <1>3, <2>1
        <3> QED
            BY <3>1, TakenByMore, Zenon
    <2>3. P = UNION ToSet(L) /\ r.layers = Append(L, C)
        BY <1>1, <1>5, <2>1
    <2> QED
        BY <2>1, <2>2, <2>3
<1>7. /\ unlocked(dag, q.current, q.indegree) = Free(dag, P \cup q.current)
      /\ \A k \in unlocked(dag, q.current, q.indegree) : \E p \in q.current : <<p, k>> \in dag.Edges
      /\ HasParents(dag, P \cup q.current)
      /\ \A k \in N : q.indegree[k] - Cardinality(Parents(dag, q.current, k)) =
                          Cardinality(Parents(dag, N \ (P \cup q.current), k))
    <2>1. PICK C, D : C = q.current /\ D = q.indegree
        OBVIOUS
    <2>2. /\ IsFiniteSet(DOMAIN dag.Nodes) /\ P \in SUBSET DOMAIN dag.Nodes
          /\ HasParents(dag, P) /\ C = Free(dag, P)
          /\ Counts(D, dag, P)
        BY <1>1, <1>2, <1>4, <1>6, <2>1
    <2>3. FreesNext(dag, P, C, D)
        BY <2>2, UnlockedIsFree
    <2> QED
        BY <1>1, <2>1, <2>3 DEF FreesNext
<1>8. r \in Findings(dag)
    BY <1>1, <1>2, <1>4, RoundTypes
<1>9. r.processed = Cardinality(P \cup q.current)
    <2>1. PICK C : C = q.current
        OBVIOUS
    <2>2. P \cap C = {} /\ IsFiniteSet(P) /\ IsFiniteSet(C)
        BY <1>2, <1>3, <1>4, <1>6, <2>1, FS_Subset DEF Free
    <2>3. Cardinality(P \cup C) = Cardinality(P) + Cardinality(C) - Cardinality(P \cap C)
        BY <2>2, FS_Union
    <2>4. Cardinality(P \cap C) = 0 /\ Cardinality(P) \in Nat /\ Cardinality(C) \in Nat
        BY <2>2, FS_EmptySet, FS_CardinalityType
    <2> QED
        BY <1>2, <1>5, <2>1, <2>3, <2>4
<1>10. PICK n : n = Len(q.layers)
    OBVIOUS
<1>11. /\ n \in Nat /\ Len(r.layers) = n + 1
       /\ \A i \in 1..n : r.layers[i] = q.layers[i]
       /\ r.layers[n + 1] = q.current
    BY <1>3, <1>5, <1>10, AppendProperties
<1>12. \A x \in q.current, y \in q.current : x # y => IsConcurrent(dag, x, y)
    BY <1>1, <1>2, <1>6, FreeIsConcurrent DEF IsConcurrent
<1>13. Layered(dag, r.layers)
    <2> SUFFICES ASSUME NEW i \in 1..(n + 1), NEW x \in r.layers[i]
                 PROVE  /\ \A y \in r.layers[i] : x # y => IsConcurrent(dag, x, y)
                        /\ i > 1 => \E y \in r.layers[i - 1] : HasPath(dag, y, x)
        BY <1>11, Zenon DEF Layered
    <2>1. CASE i = n + 1
        <3>1. r.layers[i] = q.current
            BY <1>11, <2>1
        <3>2. \A y \in r.layers[i] : x # y => IsConcurrent(dag, x, y)
            BY <1>12, <3>1
        <3>3. ASSUME i > 1 PROVE \E y \in r.layers[i - 1] : HasPath(dag, y, x)
            <4>1. n > 0 /\ i - 1 = n /\ n \in 1..n
                BY <1>11, <2>1, <3>3
            <4>2. r.layers[i - 1] = q.layers[Len(q.layers)]
                BY <1>10, <1>11, <4>1
            <4> QED
                BY <1>2, <1>10, <3>1, <4>1, <4>2
        <3> QED
            BY <3>2, <3>3
    <2>2. CASE i # n + 1
        <3>1. i \in 1..n
            BY <1>11, <2>2
        <3>2. r.layers[i] = q.layers[i]
            BY <1>11, <3>1
        <3>3. i > 1 => i - 1 \in 1..n
            BY <1>11, <3>1
        <3>4. i > 1 => r.layers[i - 1] = q.layers[i - 1]
            BY <1>11, <3>3
        <3>5. /\ \A y \in q.layers[i] : x # y => IsConcurrent(dag, x, y)
              /\ i > 1 => \E y \in q.layers[i - 1] : HasPath(dag, y, x)
            BY <1>2, <1>10, <3>1, <3>2, Zenon DEF Layered
        <3> QED
            BY <3>2, <3>4, <3>5, Zenon
    <2> QED
        BY <2>1, <2>2
<1>14. \A x \in r.current : \E y \in r.layers[Len(r.layers)] : HasPath(dag, y, x)
    <2> TAKE x \in r.current
    <2>1. PICK y \in q.current : <<y, x>> \in dag.Edges
        BY <1>5, <1>7
    <2>2. x \in N /\ y \in N
        BY <1>1, <1>3, <1>5, <2>1 DEF unlocked
    <2>3. HasPath(dag, y, x)
        BY <1>1, <2>1, <2>2 DEF IsReduction
    <2> QED
        BY <1>11, <2>1, <2>3
<1>15. Counts(r.indegree, dag, P \cup q.current)
    BY <1>1, <1>5, <1>7 DEF Counts
<1>16. InRound(dag, r)
    <2>1. PICK R : R = P \cup q.current
        OBVIOUS
    <2>2. /\ UNION ToSet(r.layers) = R /\ HasParents(dag, R) /\ r.current = Free(dag, R)
          /\ Counts(r.indegree, dag, R)
          /\ r.processed = Cardinality(R)
        BY <1>5, <1>6, <1>7, <1>9, <1>15, <2>1
    <2> QED
        BY <1>1, <1>8, <1>13, <1>14, <2>2 DEF InRound
<1> QED
    BY <1>1, <1>5, <1>16

\* After every round that has taken a layer one node more is taken.
LEMMA RoundsProgress ==
    ASSUME NEW dag, NEW pos, IsCausal(dag, pos), IsReduction(dag),
           NEW n \in Nat, n = Cardinality(DOMAIN dag.Nodes),
           NEW round \in [0..n -> Findings(dag)], Rounds(round, dag)
    PROVE  \A m \in 0..n :
               InRound(dag, round[m]) /\ (round[m].current = {} \/ round[m].processed >= m)
<1> DEFINE Reached(m) == InRound(dag, round[m]) /\ (round[m].current = {} \/ round[m].processed >= m)
           Bad == {m \in 0..n : ~Reached(m)}
<1>1. Reached(0)
    <2>1. round[0] = FirstRound(dag) /\ FirstRound(dag).processed = 0
        BY DEF Rounds, FirstRound
    <2>2. InRound(dag, round[0])
        BY <2>1, FirstRoundIsOne
    <2> QED
        BY <2>1, <2>2
<1>2. ASSUME NEW m \in 1..n, Reached(m - 1) PROVE Reached(m)
    <2>1. PICK q, r : q = round[m - 1] /\ r = round[m]
        OBVIOUS
    <2>2. InRound(dag, q) /\ (q.current = {} \/ q.processed >= m - 1)
        BY <1>2, <2>1
    <2>3. r = IF q.current = {} THEN q ELSE TakenRound(dag, q)
        BY <2>1 DEF Rounds
    <2>4. CASE q.current = {}
        BY <2>1, <2>2, <2>3, <2>4
    <2>5. CASE q.current # {}
        <3>1. r = TakenRound(dag, q)
            BY <2>3, <2>5
        <3>2. InRound(dag, r) /\ r.processed = q.processed + Cardinality(q.current)
            BY <2>2, <3>1, RoundKeeps
        <3>3. IsFiniteSet(q.current) /\ q.processed \in Int
            <4>1. q.current \in SUBSET DOMAIN dag.Nodes /\ q.processed \in Int
                BY <2>2 DEF InRound, Findings
            <4> QED
                BY <4>1, FS_Subset DEF IsCausal
        <3>4. Cardinality(q.current) \in Nat /\ Cardinality(q.current) # 0
            BY <2>5, <3>3, FS_CardinalityType, FS_EmptySet
        <3>5. r.processed >= m
            <4>1. q.processed >= m - 1 /\ m \in Int
                BY <2>2, <2>5
            <4> QED
                BY <3>2, <3>3, <3>4, <4>1
        <3> QED
            BY <2>1, <3>2, <3>5
    <2> QED
        BY <2>4, <2>5
<1> HIDE DEF Reached
<1>3. Bad = {}
    <2> SUFFICES ASSUME Bad # {} PROVE FALSE
        OBVIOUS
    <2>1. PICK m \in Bad : \A i \in Bad : m <= i
        <3>1. Bad \in SUBSET Nat
            OBVIOUS
        <3> HIDE DEF Bad
        <3> QED
            BY <3>1, LeastNumber, Zenon
    <2>2. m \in 0..n /\ ~Reached(m)
        OBVIOUS
    <2>3. m # 0
        BY <1>1, <2>2
    <2>4. m - 1 \in 0..n /\ m \in 1..n /\ m - 1 \notin Bad
        <3>1. m - 1 \in 0..n /\ m \in 1..n /\ ~(m <= m - 1)
            BY <2>2, <2>3
        <3> HIDE DEF Bad
        <3> QED
            BY <2>1, <3>1
    <2> QED
        BY <1>2, <2>2, <2>4
<1> QED
    BY <1>3 DEF Reached

\* The layers of a graph of causes.
LEMMA LayersOfGraph ==
    ASSUME NEW dag, NEW pos, IsCausal(dag, pos), IsReduction(dag)
    PROVE  /\ ~GetTopologicalLayers(dag).panics
           /\ UNION ToSet(GetTopologicalLayers(dag).layers) = DOMAIN dag.Nodes
           /\ Layered(dag, GetTopologicalLayers(dag).layers)
           /\ GetTopologicalLayers(dag).layers \in Seq(SUBSET DOMAIN dag.Nodes)
<1>1. PICK N, n : N = DOMAIN dag.Nodes /\ n = Cardinality(N)
    OBVIOUS
<1>2. IsFiniteSet(N) /\ n \in Nat
    BY <1>1, FS_CardinalityType DEF IsCausal
<1>3. dag.parents \in [N -> Int]
    <2>1. InRound(dag, FirstRound(dag))
        BY FirstRoundIsOne
    <2> QED
        BY <1>1, <2>1 DEF InRound, Findings, FirstRound
<1>4. PICK round \in [0..n -> Findings(dag)] : Rounds(round, dag) /\ LayersLoop(dag) = round[n]
    BY <1>1, <1>2, <1>3, LoopRuns
<1>5. PICK q : q = LayersLoop(dag)
    OBVIOUS
<1>6. InRound(dag, q) /\ (q.current = {} \/ q.processed >= n)
    BY <1>1, <1>2, <1>4, <1>5, RoundsProgress
<1>7. PICK P : P = UNION ToSet(q.layers)
    OBVIOUS
<1>8. q.current = Free(dag, P) /\ q.processed = Cardinality(P) /\ Layered(dag, q.layers)
    BY <1>6, <1>7 DEF InRound
<1>9. q.layers \in Seq(SUBSET N)
    BY <1>1, <1>6 DEF InRound, Findings
<1>10. P \in SUBSET N
    <2>1. {} \in SUBSET N
        OBVIOUS
    <2> QED
        BY <1>7, <1>9, <2>1, TakenByMore
<1>11. P = N
    <2>1. CASE q.current = {}
        BY <1>1, <1>8, <1>10, <2>1, SomeIsFree
    <2>2. CASE q.processed >= n
        <3>1. Cardinality(P) <= n /\ Cardinality(P) \in Nat
            BY <1>1, <1>2, <1>10, FS_Subset, FS_CardinalityType
        <3>2. Cardinality(P) = Cardinality(N)
            BY <1>1, <1>2, <1>8, <2>2, <3>1
        <3> QED
            BY <1>2, <1>10, <3>2, FS_Subset
    <2> QED
        BY <1>6, <2>1, <2>2
<1>12. GetTopologicalLayers(dag) = [layers |-> q.layers, panics |-> q.processed # n]
    BY <1>1, <1>5 DEF GetTopologicalLayers
<1>13. /\ GetTopologicalLayers(dag).layers = q.layers
       /\ GetTopologicalLayers(dag).panics = (q.processed # n)
    BY <1>12
<1>14. ~(q.processed # n)
    BY <1>1, <1>8, <1>11
<1> QED
    BY <1>1, <1>7, <1>8, <1>9, <1>11, <1>13, <1>14

\* And the layers of a log are what the command promises.
LEMMA LayersFollow ==
    ASSUME DocInv, NEW a, NEW b, Sites = {a, b}
    PROVE  LayersAreTopological
<1> SUFFICES ASSUME NEW s \in Sites
             PROVE  LET dag    == Dag(s)
                        result == GetTopologicalLayers(dag)
                        layers == result.layers
                    IN  /\ ~result.panics
                        /\ UNION ToSet(layers) = DOMAIN dag.Nodes
                        /\ \A i \in DOMAIN layers : \A x \in layers[i] :
                              /\ \A y \in layers[i] : x # y => IsConcurrent(dag, x, y)
                              /\ i > 1 => \E y \in layers[i - 1] : HasPath(dag, y, x)
    BY Zenon DEF LayersAreTopological
<1>1. PICK dag : dag = Dag(s)
    OBVIOUS
<1>2. WellOrdered(state[s])
    BY LogsAreWellOrdered
<1>3. PICK pos : IsCausal(dag, pos)
    BY <1>1, <1>2, DagIsCausal DEF Dag
<1>4. IsReduction(dag)
    BY <1>1, <1>2, DagIsReduction DEF Dag
<1>5. PICK result, layers : result = GetTopologicalLayers(dag) /\ layers = result.layers
    OBVIOUS
<1>6. /\ ~result.panics /\ UNION ToSet(layers) = DOMAIN dag.Nodes
      /\ Layered(dag, layers) /\ layers \in Seq(SUBSET DOMAIN dag.Nodes)
    BY <1>3, <1>4, <1>5, LayersOfGraph
<1>7. DOMAIN layers = 1..Len(layers)
    BY <1>6
<1>8. \A i \in DOMAIN layers : \A x \in layers[i] :
          /\ \A y \in layers[i] : x # y => IsConcurrent(dag, x, y)
          /\ i > 1 => \E y \in layers[i - 1] : HasPath(dag, y, x)
    BY <1>6, <1>7, Zenon DEF Layered
<1> QED
    BY <1>1, <1>5, <1>6, <1>8, Zenon

-----------------------------------------------------------------------------
(* The theorems about the history DAG.                                     *)

\* HasPath compares clocks, and answers what its comment promises: whether a path
\* of the edges that BuildDAG kept leads from one operation to the other, up to
\* an insertion past the end.
THEOREM PathsAreEdges ==
    ASSUME NEW a, NEW b, Sites = {a, b}, ProgramUse
    PROVE  Spec => [](pastEnd \/ HasPathIsPath)
<1>1. DocInv => HasPathIsPath
    BY PathsFollow
<1> QED
    BY <1>1, TwoSitesKeepDocuments, PTL

\* BuildDAG keeps the transitive reduction: no edge is implied by the others, up to
\* an insertion past the end.
THEOREM NoEdgeIsImplied ==
    ASSUME NEW a, NEW b, Sites = {a, b}, ProgramUse
    PROVE  Spec => [](pastEnd \/ EdgesAreNeeded)
<1>1. DocInv => EdgesAreNeeded
    BY EdgesFollow
<1> QED
    BY <1>1, TwoSitesKeepDocuments, PTL

\* GetTopologicalLayers never panics over a cycle that is not there, puts every
\* operation of the log in a layer, and only concurrent operations together, up to
\* an insertion past the end.
THEOREM LayersAreRight ==
    ASSUME NEW a, NEW b, Sites = {a, b}, ProgramUse
    PROVE  Spec => [](pastEnd \/ LayersAreTopological)
<1>1. DocInv => LayersAreTopological
    BY LayersFollow
<1> QED
    BY <1>1, TwoSitesKeepDocuments, PTL

\* Sites whose logs hold the same operations build the same DAG, and no others do,
\* up to an insertion past the end (BuildDAG, Equals).
THEOREM SitesHaveTheSameDag ==
    ASSUME NEW a, NEW b, Sites = {a, b}, ProgramUse
    PROVE  Spec => [](pastEnd \/ DagIsTheLog)
<1>1. DocInv => DagIsTheLog
    BY DagFollows
<1> QED
    BY <1>1, TwoSitesKeepDocuments, PTL

=============================================================================
