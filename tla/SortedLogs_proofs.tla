-------------------------- MODULE SortedLogs_proofs --------------------------
(***************************************************************************)
(* Proofs about the sorted logs.                                           *)
(*                                                                         *)
(* The first half is about the operators of cvrdt/state.go, for logs of    *)
(* any length: over operations that CompareOperation orders strictly and   *)
(* totally (StrictOrder) the binary search is exact, insertion keeps a log *)
(* sorted, and Merge is the union, whatever came first.  The second half   *)
(* uses it for the specification: with two sites CausalOps provides the    *)
(* order, and the sorted logs implement CausalOps in turn.                 *)
(***************************************************************************)
EXTENDS SortedLogs, SequenceTheorems, FiniteSetTheorems, WellFoundedInduction, TLAPS

USE SitesAssumption, MaxValueAssumption

-----------------------------------------------------------------------------
(* Induction and recursion on the natural numbers.                         *)

\* A set of natural numbers that is not empty has a least element: the
\* induction of every proof below.
LEMMA LeastElement ==
    ASSUME NEW S \in SUBSET Nat, S # {}
    PROVE  \E m \in S : \A k \in S : m <= k
<1>1. PICK m \in S : \A k \in S : <<k, m>> \notin OpToRel(<, Nat)
    BY NatLessThanWellFounded, WFMin, Zenon
<1>2. ASSUME NEW k \in S PROVE ~(k < m)
    <2>1. <<k, m>> \notin {ss \in Nat \X Nat : ss[1] < ss[2]}
        BY <1>1, Zenon DEF OpToRel
    <2> QED
        BY <2>1
<1> QED
    BY <1>2

\* f is what a loop over 1..n goes through: it starts at x0 and takes step h[k]
\* at k.
Loop(f, n, x0, h) == f[0] = x0 /\ \A k \in 1..n : f[k] = h[k][f[k - 1]]

\* Every loop computes something.
LEMMA RecursionExists ==
    ASSUME NEW n \in Nat, NEW X, NEW x0 \in X, NEW h \in [1..n -> [X -> X]]
    PROVE  \E f \in [0..n -> X] : Loop(f, n, x0, h)
<1> DEFINE Good(m) ==
        \E f \in [0..m -> X] : f[0] = x0 /\ \A k \in 1..m : f[k] = h[k][f[k - 1]]
           Bad == {m \in 0..n : ~Good(m)}
<1>1. Good(0)
    <2> DEFINE f0 == [k \in 0..0 |-> x0]
    <2>1. f0 \in [0..0 -> X] /\ f0[0] = x0 /\ \A k \in 1..0 : f0[k] = h[k][f0[k - 1]]
        OBVIOUS
    <2> HIDE DEF f0
    <2> QED
        BY <2>1
<1> HIDE DEF Good
<1>2. SUFFICES ASSUME Bad # {} PROVE FALSE
    <2>1. n \in 0..n /\ n \notin Bad => Good(n)
        OBVIOUS
    <2>2. Good(n)
        BY <2>1
    <2> QED
        BY <2>2 DEF Good, Loop
<1>3. PICK m \in Bad : \A k \in Bad : m <= k
    <2>1. Bad \subseteq Nat
        OBVIOUS
    <2> HIDE DEF Bad
    <2> QED
        BY <1>2, <2>1, LeastElement
<1>4. m \in 1..n /\ m - 1 \in 0..n /\ ~Good(m)
    BY <1>1, <1>3
<1>5. Good(m - 1)
    <2>1. m - 1 \notin Bad
        BY <1>3, <1>4
    <2> QED
        BY <1>4, <2>1
<1>6. PICK f \in [0..(m - 1) -> X] : f[0] = x0 /\ \A k \in 1..(m - 1) : f[k] = h[k][f[k - 1]]
    BY <1>5 DEF Good
<1> DEFINE g == [k \in 0..m |-> IF k = m THEN h[m][f[m - 1]] ELSE f[k]]
<1>7. h[m][f[m - 1]] \in X
    BY <1>4, <1>6
<1>8. g \in [0..m -> X] /\ g[0] = x0
    BY <1>4, <1>6, <1>7
<1>9. \A k \in 1..m : g[k] = h[k][g[k - 1]]
    <2> SUFFICES ASSUME NEW k \in 1..m PROVE g[k] = h[k][g[k - 1]]
        OBVIOUS
    <2>1. g[k - 1] = f[k - 1]
        BY <1>4
    <2>2. CASE k = m
        BY <2>1, <2>2, <1>4
    <2>3. CASE k # m
        BY <2>1, <2>3, <1>4, <1>6
    <2> QED
        BY <2>2, <2>3
<1> HIDE DEF g
<1>10. Good(m)
    BY <1>8, <1>9 DEF Good
<1> QED
    BY <1>4, <1>10

-----------------------------------------------------------------------------
(* Operations in order.                                                    *)

\* CompareOperation is a strict total order of the operations of U, and tells
\* each from the others.
StrictOrder(U) ==
    \A a, b \in U :
        /\ CompareOperation(a, b) \in Int
        /\ CompareOperation(a, b) = 0 <=> a = b
        /\ CompareOperation(a, b) > 0 <=> CompareOperation(b, a) < 0
        /\ CompareOperation(a, b) < 0 =>
              \A c \in U : CompareOperation(b, c) < 0 => CompareOperation(a, c) < 0

Sorted(w) == \A i, j \in 1..Len(w) : i < j => CompareOperation(w[i], w[j]) < 0

\* The logs over U that are sorted.
SortedOver(U) == {w \in Seq(U) : Sorted(w)}

-----------------------------------------------------------------------------
(* The binary search.                                                      *)

Ranges(n) == (0..n) \X (0..n)

\* One round of the loop of binarySearch, going on with search.
Round(w, op, search, range) ==
    LET left  == range[1]
        right == range[2]
        mid   == left + (right - left) \div 2
        cmp   == CompareOperation(w[mid + 1], op)
    IN  IF left >= right THEN [idx |-> left, exists |-> FALSE]
        ELSE IF cmp = 0 THEN [idx |-> mid, exists |-> TRUE]
        ELSE IF cmp < 0 THEN search[<<mid + 1, right>>]
        ELSE search[<<left, mid>>]

IsSearch(search, w, op) ==
    search = [range \in Ranges(Len(w)) |-> Round(w, op, search, range)]

\* The ranges of at most d elements.
Within(n, d) == {range \in Ranges(n) : range[2] - range[1] <= d}

\* The middle of a range that is not empty splits it into two shorter ones.
LEMMA RangeSplits ==
    ASSUME NEW n \in Nat, NEW range \in Ranges(n), range[1] < range[2], NEW mid,
           mid = range[1] + (range[2] - range[1]) \div 2
    PROVE  /\ mid \in Nat /\ range[1] <= mid /\ mid < range[2]
           /\ <<mid + 1, range[2]>> \in Within(n, range[2] - range[1] - 1)
           /\ <<range[1], mid>> \in Within(n, range[2] - range[1] - 1)
<1>1. PICK l \in 0..n, r \in 0..n : range = <<l, r>>
    BY DEF Ranges
<1>2. mid = l + (r - l) \div 2 /\ l < r
    BY <1>1
<1>3. mid \in Nat /\ l <= mid /\ mid < r
    BY <1>2
<1> QED
    BY <1>1, <1>3 DEF Ranges, Within

\* binarySearch ends, whatever the log and the comparison: each round halves
\* the range.
LEMMA SearchExists ==
    ASSUME NEW w, NEW op, NEW n \in Nat, Len(w) = n
    PROVE  \E search : IsSearch(search, w, op)
<1> DEFINE Good(d) == \E f : f = [range \in Within(n, d) |-> Round(w, op, f, range)]
           Bad == {d \in 0..n : ~Good(d)}
<1>1. Good(0)
    <2> DEFINE f == [range \in Within(n, 0) |-> [idx |-> range[1], exists |-> FALSE]]
    <2>1. ASSUME NEW range \in Within(n, 0) PROVE Round(w, op, f, range) = f[range]
        <3>1. range[1] >= range[2]
            BY DEF Within, Ranges
        <3> QED
            BY <3>1 DEF Round
    <2>2. f = [range \in Within(n, 0) |-> Round(w, op, f, range)]
        BY <2>1
    <2> HIDE DEF f
    <2> QED
        BY <2>2
<1> HIDE DEF Good
<1>2. Good(n)
    <2> SUFFICES ASSUME Bad # {} PROVE FALSE
        OBVIOUS
    <2>1. PICK d \in Bad : \A k \in Bad : d <= k
        <3>1. Bad \subseteq Nat
            OBVIOUS
        <3> HIDE DEF Bad
        <3> QED
            BY <3>1, LeastElement
    <2>2. d \in 1..n /\ d - 1 \in 0..n /\ ~Good(d)
        BY <1>1, <2>1
    <2>3. Good(d - 1)
        <3>1. d - 1 \notin Bad
            BY <2>1, <2>2
        <3> QED
            BY <2>2, <3>1
    <2>4. PICK f : f = [range \in Within(n, d - 1) |-> Round(w, op, f, range)]
        BY <2>3 DEF Good
    <2> DEFINE g == [range \in Within(n, d) |-> Round(w, op, f, range)]
    <2>5. ASSUME NEW range \in Within(n, d - 1) PROVE g[range] = f[range]
        <3>1. range \in Within(n, d)
            BY <2>2 DEF Within, Ranges
        <3> QED
            BY <2>4, <3>1
    <2>6. ASSUME NEW range \in Within(n, d)
          PROVE  Round(w, op, f, range) = Round(w, op, g, range)
        <3> DEFINE mid == range[1] + (range[2] - range[1]) \div 2
        <3>1. CASE range[1] >= range[2]
            BY <3>1 DEF Round
        <3>2. CASE range[1] < range[2]
            <4>1. range \in Ranges(n) /\ range[1] \in Nat /\ range[2] \in Nat
                  /\ range[2] - range[1] <= d
                BY DEF Within, Ranges
            <4>2. <<mid + 1, range[2]>> \in Within(n, d - 1) /\ <<range[1], mid>> \in Within(n, d - 1)
                <5>1. Within(n, range[2] - range[1] - 1) \subseteq Within(n, d - 1)
                    BY <2>2, <4>1 DEF Within, Ranges
                <5> QED
                    BY <3>2, <4>1, <5>1, RangeSplits
            <4>3. g[<<mid + 1, range[2]>>] = f[<<mid + 1, range[2]>>]
                BY <2>5, <4>2
            <4>4. g[<<range[1], mid>>] = f[<<range[1], mid>>]
                BY <2>5, <4>2
            <4> HIDE DEF g
            <4> QED
                BY <3>2, <4>3, <4>4 DEF Round
        <3>3. range[1] \in Int /\ range[2] \in Int
            BY DEF Within, Ranges
        <3> QED
            BY <3>1, <3>2, <3>3
    <2>7. g = [range \in Within(n, d) |-> Round(w, op, g, range)]
        BY <2>6
    <2> HIDE DEF g
    <2>8. Good(d)
        BY <2>7 DEF Good
    <2> QED
        BY <2>2, <2>8
<1>3. Within(n, n) = Ranges(n)
    BY DEF Within, Ranges
<1> QED
    BY <1>2, <1>3 DEF Good, IsSearch


\* The result of a binary search is exact: the slice index of the operation,
\* or else the index that separates the smaller operations from the greater.
Found(w, op, found) ==
    /\ found.idx \in 0..Len(w)
    /\ found.exists \in BOOLEAN
    /\ found.exists => found.idx < Len(w) /\ w[found.idx + 1] = op
    /\ ~found.exists =>
          /\ \A i \in 1..found.idx : CompareOperation(w[i], op) < 0
          /\ \A i \in (found.idx + 1)..Len(w) : CompareOperation(op, w[i]) < 0

\* What binarySearch keeps true of its range.
Outside(w, op, range) ==
    /\ range[1] <= range[2]
    /\ \A i \in 1..range[1] : CompareOperation(w[i], op) < 0
    /\ \A i \in (range[2] + 1)..Len(w) : CompareOperation(op, w[i]) < 0

\* A round finds the operation, or goes on with a range that is still right.
LEMMA RoundIsRight ==
    ASSUME NEW U, StrictOrder(U), NEW w \in SortedOver(U), NEW op \in U,
           NEW n \in Nat, n = Len(w), NEW range \in Ranges(n), Outside(w, op, range),
           range[1] < range[2], NEW mid, mid = range[1] + (range[2] - range[1]) \div 2
    PROVE  /\ CompareOperation(w[mid + 1], op) \in Int
           /\ CompareOperation(w[mid + 1], op) = 0 => Found(w, op, [idx |-> mid, exists |-> TRUE])
           /\ CompareOperation(w[mid + 1], op) < 0 => Outside(w, op, <<mid + 1, range[2]>>)
           /\ CompareOperation(w[mid + 1], op) > 0 => Outside(w, op, <<range[1], mid>>)
<1>1. PICK l \in 0..n, r \in 0..n : range = <<l, r>>
    BY DEF Ranges
<1>2. mid \in Nat /\ l <= mid /\ mid < r
    BY <1>1, RangeSplits
<1>3. w \in Seq(U) /\ Sorted(w) /\ mid + 1 \in 1..n
    BY <1>1, <1>2 DEF SortedOver
<1>4. \A i \in 1..n : w[i] \in U
    BY <1>3
<1>5. CompareOperation(w[mid + 1], op) \in Int
    BY <1>3, <1>4 DEF StrictOrder
<1>6. ASSUME CompareOperation(w[mid + 1], op) = 0
      PROVE  Found(w, op, [idx |-> mid, exists |-> TRUE])
    <2>1. w[mid + 1] = op
        BY <1>3, <1>4, <1>6 DEF StrictOrder
    <2> QED
        BY <1>2, <1>3, <2>1 DEF Found
<1>7. ASSUME CompareOperation(w[mid + 1], op) < 0
      PROVE  Outside(w, op, <<mid + 1, range[2]>>)
    <2>1. ASSUME NEW i \in 1..(mid + 1) PROVE CompareOperation(w[i], op) < 0
        <3>1. i \in 1..n /\ w[i] \in U /\ w[mid + 1] \in U
            BY <1>2, <1>3, <1>4
        <3>2. CASE i = mid + 1
            BY <1>7, <3>2
        <3>3. CASE i < mid + 1
            <4>1. CompareOperation(w[i], w[mid + 1]) < 0
                BY <1>3, <3>1, <3>3 DEF Sorted
            <4> QED
                BY <1>7, <3>1, <4>1 DEF StrictOrder
        <3> QED
            BY <1>2, <3>2, <3>3
    <2> QED
        BY <1>1, <1>2, <2>1 DEF Outside
<1>8. ASSUME CompareOperation(w[mid + 1], op) > 0
      PROVE  Outside(w, op, <<range[1], mid>>)
    <2>0. CompareOperation(op, w[mid + 1]) < 0
        BY <1>3, <1>4, <1>8 DEF StrictOrder
    <2>1. ASSUME NEW i \in (mid + 1)..n PROVE CompareOperation(op, w[i]) < 0
        <3>1. i \in 1..n /\ w[i] \in U /\ w[mid + 1] \in U
            BY <1>2, <1>3, <1>4
        <3>2. CASE i = mid + 1
            BY <2>0, <3>2
        <3>3. CASE i > mid + 1
            <4>1. CompareOperation(w[mid + 1], w[i]) < 0
                BY <1>3, <3>1, <3>3 DEF Sorted
            <4> QED
                BY <2>0, <3>1, <4>1 DEF StrictOrder
        <3> QED
            BY <1>2, <3>2, <3>3
    <2> QED
        BY <1>1, <1>2, <2>1 DEF Outside
<1> QED
    BY <1>5, <1>6, <1>7, <1>8

\* The search of a range that is right ends with the exact result.
LEMMA SearchIsExact ==
    ASSUME NEW U, StrictOrder(U), NEW w \in SortedOver(U), NEW op \in U,
           NEW search, IsSearch(search, w, op)
    PROVE  \A range \in Ranges(Len(w)) :
               Outside(w, op, range) => Found(w, op, search[range])
<1> DEFINE n == Len(w)
           Wrong(d) == \E range \in Ranges(n) :
                          /\ range[2] - range[1] = d
                          /\ Outside(w, op, range)
                          /\ ~Found(w, op, search[range])
           Bad == {d \in 0..n : Wrong(d)}
<1>1. n \in Nat
    BY DEF SortedOver
<1> HIDE DEF n
<1>2. ASSUME NEW range \in Ranges(n), Outside(w, op, range)
      PROVE  range[2] - range[1] \in 0..n
    BY <1>1, <1>2 DEF Ranges, Outside
<1>3. SUFFICES Bad = {}
    BY <1>2 DEF n
<1> HIDE DEF Wrong
<1>4. SUFFICES ASSUME Bad # {} PROVE FALSE
    OBVIOUS
<1>5. PICK d \in Bad : \A k \in Bad : d <= k
    <2>1. Bad \subseteq Nat
        BY <1>1
    <2> HIDE DEF Bad
    <2> QED
        BY <1>4, <2>1, LeastElement
<1>6. PICK range \in Ranges(n) : /\ range[2] - range[1] = d
                                 /\ Outside(w, op, range)
                                 /\ ~Found(w, op, search[range])
    BY <1>5 DEF Wrong
<1> DEFINE mid == range[1] + (range[2] - range[1]) \div 2
           cmp == CompareOperation(w[mid + 1], op)
<1>7. search[range] = Round(w, op, search, range)
    BY <1>6 DEF IsSearch, n
<1>8. range[1] \in Nat /\ range[2] \in Nat /\ range[1] <= range[2] /\ range[2] <= n
    BY <1>1, <1>6 DEF Ranges, Outside
<1>9. CASE range[1] = range[2]
    <2>1. search[range] = [idx |-> range[1], exists |-> FALSE]
        BY <1>7, <1>8, <1>9 DEF Round
    <2>2. Found(w, op, search[range])
        BY <1>6, <1>8, <1>9, <2>1 DEF Found, Outside, n
    <2> QED
        BY <1>6, <2>2
<1>10. CASE range[1] < range[2]
    <2>1. /\ cmp \in Int
          /\ cmp = 0 => Found(w, op, [idx |-> mid, exists |-> TRUE])
          /\ cmp < 0 => Outside(w, op, <<mid + 1, range[2]>>)
          /\ cmp > 0 => Outside(w, op, <<range[1], mid>>)
        BY <1>1, <1>6, <1>10, RoundIsRight DEF n
    <2>2. /\ <<mid + 1, range[2]>> \in Within(n, range[2] - range[1] - 1)
          /\ <<range[1], mid>> \in Within(n, range[2] - range[1] - 1)
        BY <1>1, <1>6, <1>10, RangeSplits
    <2>3. search[range] = IF cmp = 0 THEN [idx |-> mid, exists |-> TRUE]
                          ELSE IF cmp < 0 THEN search[<<mid + 1, range[2]>>]
                          ELSE search[<<range[1], mid>>]
        BY <1>7, <1>8, <1>10 DEF Round
    <2> HIDE DEF mid, cmp
    <2>4. ASSUME NEW shorter \in Within(n, range[2] - range[1] - 1), Outside(w, op, shorter)
          PROVE  Found(w, op, search[shorter])
        <3>1. shorter \in Ranges(n) /\ shorter[2] - shorter[1] < d
            BY <1>6, <1>8 DEF Within, Ranges
        <3>2. shorter[2] - shorter[1] \in 0..n
            BY <1>2, <2>4, <3>1
        <3>3. shorter[2] - shorter[1] \notin Bad
            BY <1>1, <1>5, <3>1, <3>2
        <3>4. ~Wrong(shorter[2] - shorter[1])
            BY <3>2, <3>3
        <3> QED
            BY <2>4, <3>1, <3>4 DEF Wrong
    <2>5. Found(w, op, search[range])
        BY <2>1, <2>2, <2>3, <2>4
    <2> QED
        BY <1>6, <2>5
<1> QED
    BY <1>8, <1>9, <1>10

\* binarySearch of a sorted log is exact.
LEMMA BinarySearchIsExact ==
    ASSUME NEW U, StrictOrder(U), NEW w \in SortedOver(U), NEW op \in U
    PROVE  Found(w, op, binarySearch(w, op))
<1> DEFINE n == Len(w)
           search == CHOOSE f : IsSearch(f, w, op)
<1>1. n \in Nat
    BY DEF SortedOver
<1>2. IsSearch(search, w, op)
    BY <1>1, SearchExists
<1>3. binarySearch(w, op) = search[<<0, n>>]
    BY DEF binarySearch, IsSearch, Round, Ranges
<1>4. <<0, n>> \in Ranges(n) /\ Outside(w, op, <<0, n>>)
    BY <1>1 DEF Ranges, Outside
<1> HIDE DEF search
<1> QED
    BY <1>2, <1>3, <1>4, SearchIsExact


-----------------------------------------------------------------------------
(* Insertion.                                                              *)

\* A sorted log is a sequence of operations of U.
LEMMA SortedTypes ==
    ASSUME NEW U, NEW w \in SortedOver(U)
    PROVE  /\ w \in Seq(U) /\ Len(w) \in Nat /\ DOMAIN w = 1..Len(w) /\ Sorted(w)
           /\ \A i \in 1..Len(w) : w[i] \in U
           /\ ToSet(w) = {w[i] : i \in 1..Len(w)}
           /\ ToSet(w) \subseteq U
BY DEF SortedOver, ToSet

\* The log before any operation is sorted.
LEMMA EmptyStateIsSorted ==
    ASSUME NEW U
    PROVE  EmptyState \in SortedOver(U) /\ ToSet(EmptyState) = {}
BY DEF EmptyState, SortedOver, Sorted, ToSet

\* contains tells whether the operation is in the log.
LEMMA ContainsIsExact ==
    ASSUME NEW U, StrictOrder(U), NEW w \in SortedOver(U), NEW op \in U
    PROVE  contains(w, op) <=> op \in ToSet(w)
<1> DEFINE found == binarySearch(w, op)
<1>1. Found(w, op, found)
    BY BinarySearchIsExact
<1>2. /\ Len(w) \in Nat /\ ToSet(w) = {w[i] : i \in 1..Len(w)}
      /\ \A i \in 1..Len(w) : w[i] \in U
    BY SortedTypes
<1>3. CompareOperation(op, op) = 0
    BY DEF StrictOrder
<1> HIDE DEF found
<1>4. ASSUME found.exists PROVE op \in ToSet(w)
    BY <1>1, <1>2, <1>4 DEF Found
<1>5. ASSUME ~found.exists, NEW i \in 1..Len(w), w[i] = op PROVE FALSE
    <2>1. i \in 1..found.idx \/ i \in (found.idx + 1)..Len(w)
        BY <1>1, <1>2 DEF Found
    <2> QED
        BY <1>1, <1>3, <1>5, <2>1 DEF Found
<1> QED
    BY <1>2, <1>4, <1>5 DEF contains, found

\* The elements of a sequence with op put in before position j + 1.
LEMMA InsertAtProperties ==
    ASSUME NEW U, NEW w \in Seq(U), NEW j \in 0..Len(w), NEW op \in U
    PROVE  /\ InsertAt(w, j + 1, op) \in Seq(U)
           /\ Len(InsertAt(w, j + 1, op)) = Len(w) + 1
           /\ \A i \in 1..(Len(w) + 1) :
                 InsertAt(w, j + 1, op)[i] =
                     IF i <= j THEN w[i] ELSE IF i = j + 1 THEN op ELSE w[i - 1]
<1>1. PICK n \in Nat : n = Len(w)
    BY LenProperties
<1>0. j \in Nat /\ j <= n
    BY <1>1
<1>2. \A i \in 1..n : w[i] \in U
    BY <1>1, ElementOfSeq
<1> DEFINE front == SubSeq(w, 1, j)
           back  == SubSeq(w, j + 1, n)
<1>3. front \in Seq(U) /\ Len(front) = j /\ \A i \in 1..j : front[i] = w[i]
    BY <1>1, <1>2, SubSeqProperties
<1>4. back \in Seq(U) /\ Len(back) = n - j /\ \A i \in 1..(n - j) : back[i] = w[j + i]
    <2>1. j + 1 \in Int /\ \A i \in (j + 1)..n : w[i] \in U
        BY <1>1, <1>2
    <2>2. /\ back \in Seq(U)
          /\ Len(back) = IF j + 1 <= n THEN n - (j + 1) + 1 ELSE 0
          /\ \A i \in 1..(n - (j + 1) + 1) : back[i] = w[(j + 1) + i - 1]
        BY <1>1, <2>1, SubSeqProperties
    <2> QED
        BY <1>1, <2>2
<1>5. <<op>> \in Seq(U) /\ Len(<<op>>) = 1 /\ <<op>>[1] = op
    OBVIOUS
<1> HIDE DEF front, back
<1> DEFINE left == front \o <<op>>
<1>6. /\ left \in Seq(U) /\ Len(left) = j + 1
      /\ \A i \in 1..(j + 1) : left[i] = IF i <= j THEN w[i] ELSE op
    <2>1. /\ left \in Seq(U) /\ Len(left) = Len(front) + Len(<<op>>)
          /\ \A i \in 1..(Len(front) + Len(<<op>>)) :
                left[i] = IF i <= Len(front) THEN front[i] ELSE <<op>>[i - Len(front)]
        BY <1>3, <1>5, ConcatProperties
    <2> HIDE DEF left
    <2> QED
        BY <1>1, <1>3, <1>5, <2>1
<1> HIDE DEF left
<1>7. /\ left \o back \in Seq(U) /\ Len(left \o back) = n + 1
      /\ \A i \in 1..(n + 1) :
            (left \o back)[i] = IF i <= j + 1 THEN left[i] ELSE back[i - (j + 1)]
    <2>1. /\ left \o back \in Seq(U) /\ Len(left \o back) = Len(left) + Len(back)
          /\ \A i \in 1..(Len(left) + Len(back)) :
                (left \o back)[i] = IF i <= Len(left) THEN left[i] ELSE back[i - Len(left)]
        BY <1>4, <1>6, ConcatProperties
    <2> QED
        BY <1>1, <1>4, <1>6, <2>1
<1>8. InsertAt(w, j + 1, op) = left \o back
    <2>1. (j + 1) - 1 = j
        BY <1>1
    <2>2. InsertAt(w, j + 1, op) = SubSeq(w, 1, (j + 1) - 1) \o <<op>> \o SubSeq(w, j + 1, Len(w))
        BY DEF InsertAt
    <2> QED
        BY <1>1, <2>1, <2>2, Zenon DEF left, front, back
<1>9. ASSUME NEW i \in 1..(n + 1)
      PROVE  (left \o back)[i] =
                 IF i <= j THEN w[i] ELSE IF i = j + 1 THEN op ELSE w[i - 1]
    <2>1. CASE i <= j + 1
        BY <1>1, <1>6, <1>7, <2>1
    <2>2. CASE i > j + 1
        <3>1. i - (j + 1) \in 1..(n - j) /\ j + (i - (j + 1)) = i - 1
            BY <1>1, <2>2
        <3> QED
            BY <1>1, <1>4, <1>7, <2>2, <3>1
    <2>3. i <= j + 1 \/ i > j + 1
        BY <1>0
    <2> QED
        BY <2>1, <2>2, <2>3, Zenon
<1> DEFINE new  == InsertAt(w, j + 1, op)
           both == left \o back
<1>10. new = both
    BY <1>8
<1>11. both \in Seq(U) /\ Len(both) = n + 1
    BY <1>7
<1>12. \A i \in 1..(n + 1) : both[i] = IF i <= j THEN w[i] ELSE IF i = j + 1 THEN op ELSE w[i - 1]
    BY <1>9
<1> HIDE DEF new, both
<1>13. /\ new \in Seq(U) /\ Len(new) = n + 1
       /\ \A i \in 1..(n + 1) : new[i] = IF i <= j THEN w[i] ELSE IF i = j + 1 THEN op ELSE w[i - 1]
    BY <1>10, <1>11, <1>12
<1> QED
    BY <1>1, <1>13 DEF new

\* insert keeps a log sorted, and adds the operation once.
LEMMA InsertKeepsSorted ==
    ASSUME NEW U, StrictOrder(U), NEW w \in SortedOver(U), NEW op \in U
    PROVE  insert(w, op) \in SortedOver(U) /\ ToSet(insert(w, op)) = ToSet(w) \cup {op}
<1> DEFINE found == binarySearch(w, op)
<1>1. Found(w, op, found)
    BY BinarySearchIsExact
<1>2. /\ w \in Seq(U) /\ Sorted(w) /\ ToSet(w) = {w[i] : i \in 1..Len(w)}
      /\ \A i \in 1..Len(w) : w[i] \in U
    BY SortedTypes
<1>3. PICK n \in Nat : n = Len(w)
    BY <1>2, LenProperties
<1>4. CASE found.exists
    <2>1. insert(w, op) = w
        BY <1>4 DEF insert
    <2>2. op \in ToSet(w)
        BY <1>4, ContainsIsExact DEF contains
    <2> QED
        BY <2>1, <2>2
<1>5. CASE ~found.exists
    <2> DEFINE j   == found.idx
               new == InsertAt(w, j + 1, op)
    <2>1. insert(w, op) = new
        BY <1>5 DEF insert
    <2>2. /\ j \in 0..n
          /\ \A i \in 1..j : CompareOperation(w[i], op) < 0
          /\ \A i \in (j + 1)..n : CompareOperation(op, w[i]) < 0
        BY <1>1, <1>3, <1>5 DEF Found
    <2>3. /\ new \in Seq(U) /\ Len(new) = n + 1
          /\ \A i \in 1..(n + 1) :
                new[i] = IF i <= j THEN w[i] ELSE IF i = j + 1 THEN op ELSE w[i - 1]
        <3>1. j \in 0..Len(w) /\ n + 1 = Len(w) + 1
            BY <1>3, <2>2
        <3> HIDE DEF j
        <3>2. /\ new \in Seq(U) /\ Len(new) = Len(w) + 1
              /\ \A i \in 1..(Len(w) + 1) :
                    new[i] = IF i <= j THEN w[i] ELSE IF i = j + 1 THEN op ELSE w[i - 1]
            BY <1>2, <3>1, InsertAtProperties
        <3> QED
            BY <3>1, <3>2, Zenon
    <2> HIDE DEF j, new
    <2>4. ASSUME NEW i \in 1..(n + 1), NEW k \in 1..(n + 1), i < k
          PROVE  CompareOperation(new[i], new[k]) < 0
        <3>1. \A a, b \in 1..n : a < b => CompareOperation(w[a], w[b]) < 0
            BY <1>2, <1>3 DEF Sorted
        <3>2. CASE k <= j
            <4>1. new[i] = w[i] /\ new[k] = w[k] /\ i \in 1..n /\ k \in 1..n
                BY <2>2, <2>3, <2>4, <3>2
            <4> QED
                BY <2>4, <3>1, <4>1
        <3>3. CASE k = j + 1
            <4>1. new[i] = w[i] /\ new[k] = op /\ i \in 1..j
                BY <2>2, <2>3, <2>4, <3>3
            <4> QED
                BY <2>2, <4>1
        <3>4. CASE k > j + 1 /\ i <= j
            <4>1. new[i] = w[i] /\ new[k] = w[k - 1] /\ i \in 1..n /\ k - 1 \in 1..n /\ i < k - 1
                BY <2>2, <2>3, <2>4, <3>4
            <4> QED
                BY <3>1, <4>1
        <3>5. CASE k > j + 1 /\ i = j + 1
            <4>1. new[i] = op /\ new[k] = w[k - 1] /\ k - 1 \in (j + 1)..n
                BY <2>2, <2>3, <2>4, <3>5
            <4> QED
                BY <2>2, <4>1
        <3>6. CASE k > j + 1 /\ i > j + 1
            <4>1. /\ new[i] = w[i - 1] /\ new[k] = w[k - 1]
                  /\ i - 1 \in 1..n /\ k - 1 \in 1..n /\ i - 1 < k - 1
                BY <2>2, <2>3, <2>4, <3>6
            <4> QED
                BY <3>1, <4>1
        <3> QED
            BY <2>2, <3>2, <3>3, <3>4, <3>5, <3>6
    <2>5. new \in SortedOver(U)
        BY <2>3, <2>4 DEF SortedOver, Sorted
    <2>6. ToSet(new) = {new[i] : i \in 1..(n + 1)}
        BY <2>3, <2>5, SortedTypes
    <2>7. ASSUME NEW i \in 1..(n + 1) PROVE new[i] \in ToSet(w) \cup {op}
        <3>1. CASE i <= j
            BY <1>2, <1>3, <2>2, <2>3, <3>1
        <3>2. CASE i > j + 1
            <4>1. new[i] = w[i - 1] /\ i - 1 \in 1..n
                BY <2>2, <2>3, <3>2
            <4> QED
                BY <1>2, <1>3, <4>1
        <3> QED
            BY <2>2, <2>3, <3>1, <3>2
    <2>8. ASSUME NEW i \in 1..n PROVE \E k \in 1..(n + 1) : new[k] = w[i]
        <3>1. CASE i <= j
            BY <2>3, <3>1
        <3>2. CASE i > j
            <4>1. i + 1 \in 1..(n + 1) /\ i + 1 > j + 1 /\ (i + 1) - 1 = i
                BY <2>2, <3>2
            <4>2. new[i + 1] = w[i]
                BY <2>2, <2>3, <4>1
            <4> QED
                BY <4>1, <4>2
        <3> QED
            BY <2>2, <3>1, <3>2
    <2>9. j + 1 \in 1..(n + 1) /\ new[j + 1] = op
        BY <2>2, <2>3
    <2>10. ToSet(w) = {w[i] : i \in 1..n}
        BY <1>2, <1>3
    <2>11. ToSet(new) \subseteq ToSet(w) \cup {op}
        BY <2>6, <2>7
    <2>12. ToSet(w) \cup {op} \subseteq ToSet(new)
        BY <2>6, <2>8, <2>9, <2>10
    <2> QED
        BY <2>1, <2>5, <2>11, <2>12
<1> QED
    BY <1>1, <1>4, <1>5 DEF Found


-----------------------------------------------------------------------------
(* Merging.                                                                *)

\* A loop that inserts the operations of other at the positions in K.
Inserts(f, start, other, K) ==
    /\ f[0] = start
    /\ \A k \in 1..Len(other) :
          f[k] = IF k \in K THEN insert(f[k - 1], other[k]) ELSE f[k - 1]

\* The operations at the positions in K.
At(other, K) == {other[k] : k \in K}

\* Such a loop can be run on any sequence of operations.
LEMMA InsertsExists ==
    ASSUME NEW U, StrictOrder(U), NEW start \in SortedOver(U), NEW other \in Seq(U), NEW K
    PROVE  \E f : f \in [0..Len(other) -> SortedOver(U)] /\ Inserts(f, start, other, K)
<1> DEFINE X == SortedOver(U)
           n == Len(other)
           h == [k \in 1..n |-> [a \in X |-> IF k \in K THEN insert(a, other[k]) ELSE a]]
<1>1. n \in Nat /\ \A k \in 1..n : other[k] \in U
    BY LenProperties, ElementOfSeq
<1>2. ASSUME NEW k \in 1..n, NEW a \in X PROVE insert(a, other[k]) \in X
    BY <1>1, InsertKeepsSorted
<1> HIDE DEF X, n
<1>3. h \in [1..n -> [X -> X]]
    BY <1>2
<1>4. \A k \in 1..n, a \in X : h[k][a] = IF k \in K THEN insert(a, other[k]) ELSE a
    OBVIOUS
<1>5. start \in X
    BY DEF X
<1> HIDE DEF h
<1>6. PICK f \in [0..n -> X] : f[0] = start /\ \A k \in 1..n : f[k] = h[k][f[k - 1]]
    <2>1. PICK f \in [0..n -> X] : Loop(f, n, start, h)
        BY <1>1, <1>3, <1>5, RecursionExists
    <2> QED
        BY <2>1 DEF Loop
<1>7. ASSUME NEW k \in 1..n
      PROVE  f[k] = IF k \in K THEN insert(f[k - 1], other[k]) ELSE f[k - 1]
    <2>1. k - 1 \in 0..n
        BY <1>1
    <2>2. f[k - 1] \in X
        BY <1>6, <2>1
    <2> QED
        BY <1>4, <1>6, <2>2
<1>8. Inserts(f, start, other, K)
    BY <1>6, <1>7 DEF Inserts, n
<1> QED
    BY <1>6, <1>8 DEF n, X

\* new has the operations of start and those in ops.
Adds(new, start, ops) == ToSet(new) = ToSet(start) \cup ops

\* It leaves a sorted log, with the operations that were inserted added.
LEMMA InsertsAdds ==
    ASSUME NEW U, StrictOrder(U), NEW start \in SortedOver(U), NEW other \in Seq(U),
           NEW K, K \subseteq 1..Len(other),
           NEW f, Inserts(f, start, other, K)
    PROVE  /\ f[Len(other)] \in SortedOver(U)
           /\ Adds(f[Len(other)], start, At(other, K))
<1> DEFINE n == Len(other)
           Right(k) == /\ f[k] \in SortedOver(U)
                       /\ ToSet(f[k]) = ToSet(start) \cup {other[i] : i \in K \cap (1..k)}
           Bad == {k \in 0..n : ~Right(k)}
<1>1. n \in Nat /\ \A k \in 1..n : other[k] \in U
    BY LenProperties, ElementOfSeq
<1>2. /\ f[0] = start /\ K \subseteq 1..n
      /\ \A k \in 1..n : f[k] = IF k \in K THEN insert(f[k - 1], other[k]) ELSE f[k - 1]
    BY DEF Inserts
<1> HIDE DEF n
<1>3. Right(0)
    BY <1>2
<1>4. Right(n)
    <2> SUFFICES ASSUME Bad # {} PROVE FALSE
        BY <1>1
    <2> HIDE DEF Right
    <2>1. PICK k \in Bad : \A i \in Bad : k <= i
        <3>1. Bad \subseteq Nat
            OBVIOUS
        <3> HIDE DEF Bad
        <3> QED
            BY <3>1, LeastElement
    <2>2. k \in 1..n /\ k - 1 \in 0..n /\ ~Right(k)
        BY <1>1, <1>3, <2>1
    <2>3. Right(k - 1)
        <3>1. k - 1 \notin Bad
            BY <1>1, <2>1, <2>2
        <3> QED
            BY <2>2, <3>1
    <2>4. /\ f[k - 1] \in SortedOver(U)
          /\ ToSet(f[k - 1]) = ToSet(start) \cup {other[i] : i \in K \cap (1..(k - 1))}
        BY <2>3 DEF Right
    <2>5. CASE k \in K
        <3>1. f[k] = insert(f[k - 1], other[k])
            BY <1>2, <2>2, <2>5
        <3>2. f[k] \in SortedOver(U) /\ ToSet(f[k]) = ToSet(f[k - 1]) \cup {other[k]}
            BY <1>1, <2>2, <2>4, <3>1, InsertKeepsSorted
        <3>3. K \cap (1..k) = (K \cap (1..(k - 1))) \cup {k}
            BY <1>1, <2>2, <2>5
        <3>4. {other[i] : i \in K \cap (1..k)} = {other[i] : i \in K \cap (1..(k - 1))} \cup {other[k]}
            BY <3>3
        <3> QED
            BY <2>2, <2>4, <3>2, <3>4 DEF Right
    <2>6. CASE k \notin K
        <3>1. f[k] = f[k - 1]
            BY <1>2, <2>2, <2>6
        <3>2. K \cap (1..k) = K \cap (1..(k - 1))
            BY <1>1, <2>2, <2>6
        <3> QED
            BY <2>2, <2>4, <3>1, <3>2 DEF Right
    <2> QED
        BY <2>5, <2>6
<1>5. K \cap (1..n) = K
    BY <1>2
<1> QED
    BY <1>4, <1>5 DEF n, At, Adds

\* Merge yields a sorted log of the operations of both logs.
LEMMA MergeIsUnion ==
    ASSUME NEW U, StrictOrder(U), NEW w \in SortedOver(U), NEW other \in SortedOver(U)
    PROVE  Merge(w, other) \in SortedOver(U) /\ ToSet(Merge(w, other)) = ToSet(w) \cup ToSet(other)
<1> DEFINE n == Len(other)
           IsMerge(f) ==
               f = [k \in 0..n |->
                       IF k = 0 THEN w
                       ELSE LET acc == f[k - 1]
                            IN  IF contains(acc, other[k]) THEN acc ELSE insert(acc, other[k])]
           merged == CHOOSE f : IsMerge(f)
<1>1. n \in Nat /\ other \in Seq(U) /\ ToSet(other) = {other[k] : k \in 1..n}
    BY SortedTypes
<1>2. Merge(w, other) = merged[n]
    BY DEF Merge
<1>3. \A acc, op : insert(acc, op) = IF contains(acc, op) THEN acc ELSE insert(acc, op)
    BY DEF insert, contains
<1>4. \E f : IsMerge(f)
    <2>1. PICK f : f \in [0..n -> SortedOver(U)] /\ Inserts(f, w, other, 1..n)
        BY <1>1, InsertsExists
    <2>2. f[0] = w /\ \A k \in 1..n : f[k] = insert(f[k - 1], other[k])
        BY <2>1 DEF Inserts
    <2>3. ASSUME NEW k \in 0..n
          PROVE  f[k] = IF k = 0 THEN w
                        ELSE IF contains(f[k - 1], other[k]) THEN f[k - 1]
                        ELSE insert(f[k - 1], other[k])
        <3>1. CASE k = 0
            BY <2>2, <3>1
        <3>2. CASE k # 0
            <4>1. k \in 1..n
                BY <1>1, <3>2
            <4> QED
                BY <1>3, <2>2, <3>2, <4>1
        <3> QED
            BY <3>1, <3>2
    <2>4. IsMerge(f)
        BY <2>1, <2>3
    <2> QED
        BY <2>4
<1>5. IsMerge(merged)
    BY <1>4
<1> HIDE DEF merged
<1>6. Inserts(merged, w, other, 1..n)
    <2>1. merged[0] = w
        BY <1>1, <1>5
    <2>2. ASSUME NEW k \in 1..n PROVE merged[k] = insert(merged[k - 1], other[k])
        <3>1. k \in 0..n /\ k # 0
            BY <1>1
        <3> QED
            BY <1>3, <1>5, <3>1
    <2> QED
        BY <2>1, <2>2 DEF Inserts
<1>7. 1..n \subseteq 1..Len(other)
    OBVIOUS
<1>8. merged[n] \in SortedOver(U) /\ Adds(merged[n], w, At(other, 1..n))
    BY <1>1, <1>6, <1>7, InsertsAdds, Zenon
<1> QED
    BY <1>1, <1>2, <1>8 DEF At, Adds

\* NewState yields a sorted log of the operations the log lacks.
LEMMA NewStateIsDifference ==
    ASSUME NEW U, StrictOrder(U), NEW w \in SortedOver(U), NEW ops \in SortedOver(U)
    PROVE  NewState(w, ops) \in SortedOver(U) /\ ToSet(NewState(w, ops)) = ToSet(ops) \ ToSet(w)
<1> DEFINE n == Len(ops)
           K == {k \in 1..n : ~contains(w, ops[k])}
           IsNew(f) ==
               f = [k \in 0..n |->
                       IF k = 0 THEN EmptyState
                       ELSE IF contains(w, ops[k]) THEN f[k - 1] ELSE insert(f[k - 1], ops[k])]
           new == CHOOSE f : IsNew(f)
<1>1. /\ n \in Nat /\ ops \in Seq(U) /\ ToSet(ops) = {ops[k] : k \in 1..n}
      /\ \A k \in 1..n : ops[k] \in U
    BY SortedTypes
<1>2. NewState(w, ops) = new[n]
    BY DEF NewState
<1>3. EmptyState \in SortedOver(U) /\ ToSet(EmptyState) = {}
    BY EmptyStateIsSorted
<1>4. \E f : IsNew(f)
    <2>1. PICK f : f \in [0..n -> SortedOver(U)] /\ Inserts(f, EmptyState, ops, K)
        BY <1>1, <1>3, InsertsExists
    <2>2. f[0] = EmptyState /\ \A k \in 1..n : f[k] = IF k \in K THEN insert(f[k - 1], ops[k]) ELSE f[k - 1]
        BY <2>1 DEF Inserts
    <2>3. ASSUME NEW k \in 0..n
          PROVE  f[k] = IF k = 0 THEN EmptyState
                        ELSE IF contains(w, ops[k]) THEN f[k - 1] ELSE insert(f[k - 1], ops[k])
        <3>1. CASE k = 0
            BY <2>2, <3>1
        <3>2. CASE k # 0
            <4>1. k \in 1..n
                BY <1>1, <3>2
            <4> QED
                BY <2>2, <3>2, <4>1
        <3> QED
            BY <3>1, <3>2
    <2>4. IsNew(f)
        BY <2>1, <2>3
    <2> QED
        BY <2>4
<1>5. IsNew(new)
    BY <1>4
<1> HIDE DEF new
<1>6. Inserts(new, EmptyState, ops, K)
    <2>1. new[0] = EmptyState
        BY <1>1, <1>5
    <2>2. ASSUME NEW k \in 1..n
          PROVE  new[k] = IF k \in K THEN insert(new[k - 1], ops[k]) ELSE new[k - 1]
        <3>1. k \in 0..n /\ k # 0
            BY <1>1
        <3> QED
            BY <1>5, <3>1
    <2> QED
        BY <2>1, <2>2 DEF Inserts
<1>7. new[n] \in SortedOver(U) /\ Adds(new[n], EmptyState, At(ops, K))
    <2>1. K \subseteq 1..Len(ops)
        OBVIOUS
    <2> HIDE DEF K
    <2> QED
        BY <1>1, <1>3, <1>6, <2>1, InsertsAdds, Zenon
<1>8. {ops[k] : k \in K} = ToSet(ops) \ ToSet(w)
    <2>1. \A k \in 1..n : contains(w, ops[k]) <=> ops[k] \in ToSet(w)
        BY <1>1, ContainsIsExact
    <2> QED
        BY <1>1, <2>1
<1> QED
    BY <1>2, <1>3, <1>7, <1>8 DEF At, Adds


-----------------------------------------------------------------------------
(* One log for one set of operations.                                      *)

\* The logs agree before position k.
Agree(w, v, k) == \A i \in 1..(k - 1) : i <= Len(v) /\ w[i] = v[i]

\* Two sorted logs with the same operations that agree before k agree at k.
LEMMA AgreeAt ==
    ASSUME NEW U, StrictOrder(U), NEW w \in SortedOver(U), NEW v \in SortedOver(U),
           ToSet(w) = ToSet(v), NEW k \in 1..Len(w), Agree(w, v, k)
    PROVE  k <= Len(v) /\ w[k] = v[k]
<1>1. PICK n \in Nat, m \in Nat : n = Len(w) /\ m = Len(v)
    BY SortedTypes
<1>2. /\ \A i \in 1..n : w[i] \in U
      /\ \A i \in 1..m : v[i] \in U
      /\ ToSet(w) = {w[i] : i \in 1..n} /\ ToSet(v) = {v[i] : i \in 1..m}
    BY <1>1, SortedTypes
<1>3. /\ \A i, j \in 1..n : i < j => CompareOperation(w[i], w[j]) < 0
      /\ \A i, j \in 1..m : i < j => CompareOperation(v[i], v[j]) < 0
    BY <1>1, SortedTypes DEF Sorted
<1>4. \A a, b \in U : CompareOperation(a, b) < 0 => CompareOperation(b, a) >= 0 /\ a # b
    BY DEF StrictOrder
<1>5. \A i \in 1..(k - 1) : i <= m /\ w[i] = v[i]
    BY <1>1 DEF Agree
<1>6. k \in 1..n
    BY <1>1
<1>7. PICK j \in 1..m : v[j] = w[k]
    BY <1>2, <1>6
<1>8. j >= k
    <2> SUFFICES ASSUME j < k PROVE FALSE
        BY <1>6
    <2>1. j \in 1..n /\ w[j] = v[j]
        BY <1>5, <1>6
    <2> QED
        BY <1>2, <1>3, <1>4, <1>6, <1>7, <2>1
<1>9. k \in 1..m
    BY <1>6, <1>8
<1>10. PICK i \in 1..n : w[i] = v[k]
    BY <1>2, <1>9
<1>11. i >= k
    <2> SUFFICES ASSUME i < k PROVE FALSE
        BY <1>6
    <2>1. i \in 1..m /\ w[i] = v[i]
        BY <1>5, <1>6
    <2> QED
        BY <1>2, <1>3, <1>4, <1>9, <1>10, <2>1
<1>12. j = k
    <2> SUFFICES ASSUME j > k PROVE FALSE
        BY <1>6, <1>8
    <2>1. CompareOperation(v[k], w[k]) < 0
        BY <1>3, <1>7, <1>9
    <2>2. w[k] \in U /\ v[k] \in U
        BY <1>2, <1>6, <1>9
    <2>3. CASE i = k
        BY <1>4, <1>10, <2>1, <2>2, <2>3
    <2>4. CASE i > k
        <3>1. CompareOperation(w[k], v[k]) < 0
            BY <1>3, <1>6, <1>10, <2>4
        <3> QED
            BY <1>4, <2>1, <2>2, <3>1 DEF StrictOrder
    <2> QED
        BY <1>6, <1>11, <2>3, <2>4
<1> QED
    BY <1>1, <1>7, <1>9, <1>12

\* Two sorted logs with the same operations agree everywhere.
LEMMA AgreeEverywhere ==
    ASSUME NEW U, StrictOrder(U), NEW w \in SortedOver(U), NEW v \in SortedOver(U),
           ToSet(w) = ToSet(v)
    PROVE  \A k \in 1..Len(w) : k <= Len(v) /\ w[k] = v[k]
<1> DEFINE n == Len(w)
           Bad == {k \in 1..n : ~(k <= Len(v) /\ w[k] = v[k])}
<1> SUFFICES ASSUME Bad # {} PROVE FALSE
    OBVIOUS
<1>1. n \in Nat
    BY SortedTypes
<1>2. PICK k \in Bad : \A i \in Bad : k <= i
    <2>1. Bad \subseteq Nat
        OBVIOUS
    <2> HIDE DEF Bad
    <2> QED
        BY <2>1, LeastElement
<1>3. k \in 1..n /\ ~(k <= Len(v) /\ w[k] = v[k])
    BY <1>2
<1>4. Agree(w, v, k)
    <2> SUFFICES ASSUME NEW i \in 1..(k - 1) PROVE i <= Len(v) /\ w[i] = v[i]
        BY DEF Agree
    <2>1. i \in 1..n /\ ~(k <= i)
        BY <1>1, <1>3
    <2>2. i \notin Bad
        BY <1>2, <2>1
    <2> QED
        BY <2>1, <2>2
<1> QED
    BY <1>3, <1>4, AgreeAt

\* A sorted log is a value of the set of its operations.
LEMMA SortedLogIsUnique ==
    ASSUME NEW U, StrictOrder(U), NEW w \in SortedOver(U), NEW v \in SortedOver(U),
           ToSet(w) = ToSet(v)
    PROVE  w = v
<1>1. PICK n \in Nat, m \in Nat : n = Len(w) /\ m = Len(v)
    BY SortedTypes
<1>2. w \in Seq(U) /\ v \in Seq(U)
    BY SortedTypes
<1>3. \A k \in 1..n : k <= m /\ w[k] = v[k]
    BY <1>1, AgreeEverywhere
<1>4. \A k \in 1..m : k <= n
    BY <1>1, AgreeEverywhere
<1>5. n = m
    <2>1. CASE n = 0
        BY <1>4, <2>1
    <2>2. CASE n # 0
        <3>1. n \in 1..n /\ n <= m
            BY <1>3, <2>2
        <3>2. m \in 1..m /\ m <= n
            BY <1>4, <2>2, <3>1
        <3> QED
            BY <3>1, <3>2
    <2> QED
        BY <2>1, <2>2
<1> QED
    BY <1>1, <1>2, <1>3, <1>5, SeqEqual

\* Merge is the join of the replicated state (state.go): merging the same logs
\* in any order, grouping and number yields the same log, as long as
\* CompareOperation orders their operations.
THEOREM MergeIsJoin ==
    ASSUME NEW U, StrictOrder(U),
           NEW w \in SortedOver(U), NEW v \in SortedOver(U), NEW x \in SortedOver(U)
    PROVE  /\ Merge(w, v) \in SortedOver(U)
           /\ Merge(w, w) = w
           /\ Merge(w, v) = Merge(v, w)
           /\ Merge(Merge(w, v), x) = Merge(w, Merge(v, x))
<1>1. /\ Merge(w, v) \in SortedOver(U) /\ ToSet(Merge(w, v)) = ToSet(w) \cup ToSet(v)
      /\ Merge(v, w) \in SortedOver(U) /\ ToSet(Merge(v, w)) = ToSet(v) \cup ToSet(w)
      /\ Merge(v, x) \in SortedOver(U) /\ ToSet(Merge(v, x)) = ToSet(v) \cup ToSet(x)
      /\ Merge(w, w) \in SortedOver(U) /\ ToSet(Merge(w, w)) = ToSet(w) \cup ToSet(w)
    BY MergeIsUnion
<1>2. Merge(w, w) = w
    <2>1. ToSet(Merge(w, w)) = ToSet(w)
        BY <1>1
    <2> QED
        BY <1>1, <2>1, SortedLogIsUnique
<1>3. Merge(w, v) = Merge(v, w)
    <2>1. ToSet(Merge(w, v)) = ToSet(Merge(v, w))
        BY <1>1
    <2> QED
        BY <1>1, <2>1, SortedLogIsUnique
<1>4. Merge(Merge(w, v), x) = Merge(w, Merge(v, x))
    <2>1. /\ Merge(Merge(w, v), x) \in SortedOver(U)
          /\ ToSet(Merge(Merge(w, v), x)) = ToSet(Merge(w, v)) \cup ToSet(x)
          /\ Merge(w, Merge(v, x)) \in SortedOver(U)
          /\ ToSet(Merge(w, Merge(v, x))) = ToSet(w) \cup ToSet(Merge(v, x))
        BY <1>1, MergeIsUnion
    <2>2. ToSet(Merge(Merge(w, v), x)) = ToSet(Merge(w, Merge(v, x)))
        BY <1>1, <2>1
    <2> QED
        BY <2>1, <2>2, SortedLogIsUnique
<1> QED
    BY <1>1, <1>2, <1>3, <1>4


-----------------------------------------------------------------------------
(* What CausalOps_proofs shows, about the sets of operations the logs hold. *)

Proved == INSTANCE CausalOps_proofs WITH
    log    <- [s \in Sites |-> AsLog(state[s])],
    pushed <- {AsLog(ops) : ops \in pushed}

USE MaxPushesAssumption

\* The clocks and ids of that instance are those of LogicalClock.
LEMMA SameOperators ==
    /\ Proved!VectorClocks = VectorClocks
    /\ Proved!LogicalIds = LogicalIds
    /\ \A c, d : Proved!Update(c, d) = Update(c, d)
    /\ \A c, s : Proved!Increment(c, s) = Increment(c, s)
    /\ \A o, p : /\ Proved!HappenedBefore(o, p) = HappenedBefore(o, p)
                 /\ Proved!less(o, p) = less(o, p)
                 /\ Proved!equals(o, p) = equals(o, p)
<1>1. Proved!VectorClocks = VectorClocks
    BY DEF Proved!VectorClocks, VectorClocks
<1>2. Proved!LogicalIds = LogicalIds
    BY <1>1 DEF Proved!LogicalIds, LogicalIds
<1>3. \A c, d : Proved!Update(c, d) = Update(c, d)
    BY Zenon DEF Proved!Update, Update
<1>4. \A c, s : Proved!Increment(c, s) = Increment(c, s)
    BY DEF Proved!Increment, Increment
<1>5. \A o, p : Proved!HappenedBefore(o, p) = HappenedBefore(o, p)
    BY Zenon DEF Proved!HappenedBefore, HappenedBefore
<1>6. \A o, p : Proved!less(o, p) = less(o, p)
    BY <1>5, Zenon DEF Proved!less, less
<1>7. \A o, p : Proved!equals(o, p) = equals(o, p)
    BY Zenon DEF Proved!equals, equals, Proved!GetLogicalClock, GetLogicalClock
<1> QED
    BY <1>1, <1>2, <1>3, <1>4, <1>5, <1>6, <1>7, Zenon

\* Both instances of CausalOps say the same of a state and of a step.
LEMMA SameSpecification ==
    /\ Causal!Init <=> Proved!Init
    /\ Causal!Next <=> Proved!Next
<1>1. Causal!Init <=> Proved!Init
    BY DEF Causal!Init, Proved!Init, Causal!NewVectorClock, Proved!NewVectorClock,
           Causal!MinValue, Proved!MinValue, Causal!EmptyLog, Proved!EmptyLog
<1>2. ASSUME NEW s PROVE Causal!Generate(s) <=> Proved!Generate(s)
    BY DEF Causal!Generate, Proved!Generate, Causal!CanTick, Proved!CanTick,
           Causal!NewId, Proved!NewId, Causal!Increment, Proved!Increment
<1>3. ASSUME NEW s PROVE Causal!Refuse(s) <=> Proved!Refuse(s)
    BY DEF Causal!Refuse, Proved!Refuse, Causal!CanTick, Proved!CanTick,
           Causal!Increment, Proved!Increment
<1>4. ASSUME NEW S PROVE Causal!Cardinality(S) = Proved!Cardinality(S)
    BY DEF Causal!Cardinality, Proved!Cardinality
<1>5. ASSUME NEW s PROVE Causal!Push(s) <=> Proved!Push(s)
    BY <1>4, Zenon DEF Causal!Push, Proved!Push
<1>6. ASSUME NEW s, NEW l PROVE Causal!Deliver(s, l) <=> Proved!Deliver(s, l)
    BY DEF Causal!Deliver, Proved!Deliver, Causal!Update, Proved!Update
<1>7. Causal!Next <=> Proved!Next
    BY <1>2, <1>3, <1>5, <1>6 DEF Causal!Next, Proved!Next
<1> QED
    BY <1>1, <1>7

-----------------------------------------------------------------------------
(* The least clock above a set of operations.                              *)

Below(c, d) == \A t \in Sites : c[t] <= d[t]

\* c is above every operation of ids.
Covers(c, ids) == \A lid \in ids : Below(lid.clock, c)

\* c is the least such clock.
IsTop(c, ids) ==
    /\ c \in VectorClocks
    /\ Covers(c, ids)
    /\ \A d \in VectorClocks : Covers(d, ids) => Below(c, d)

\* A bounded set of natural numbers with 0 has a greatest element.
LEMMA MaxExists ==
    ASSUME NEW S \in SUBSET Nat, 0 \in S, NEW m \in Nat, \A x \in S : x <= m
    PROVE  Max(S) \in S /\ \A x \in S : x <= Max(S)
<1> DEFINE D == {d \in 0..m : m - d \in S}
<1>1. m - 0 \in Nat /\ m \in 0..m /\ m - m = 0
    OBVIOUS
<1>2. D # {} /\ D \subseteq Nat
    BY <1>1
<1>3. PICK d \in D : \A k \in D : d <= k
    <2> HIDE DEF D
    <2> QED
        BY <1>2, LeastElement
<1>4. m - d \in S /\ d \in 0..m
    BY <1>3
<1>5. ASSUME NEW x \in S PROVE x <= m - d
    <2>1. m - x \in 0..m /\ m - (m - x) = x
        OBVIOUS
    <2>2. d <= m - x
        BY <1>3, <2>1
    <2> QED
        BY <1>4, <2>2
<1>6. \E y \in S : \A x \in S : y >= x
    BY <1>4, <1>5
<1>7. Max(S) \in S /\ \A x \in S : Max(S) >= x
    BY <1>6 DEF Max
<1> QED
    BY <1>7

\* Top is the least clock above the operations of a log.
LEMMA TopIsTop ==
    ASSUME NEW ops, Ids(ops) \subseteq LogicalIds, NEW c \in VectorClocks, Covers(c, Ids(ops))
    PROVE  IsTop(Top(ops), Ids(ops))
<1> DEFINE S(t) == {0} \cup {lid.clock[t] : lid \in Ids(ops)}
<1>1. ASSUME NEW t \in Sites
      PROVE  Max(S(t)) \in S(t) /\ S(t) \subseteq Nat /\ \A x \in S(t) : x <= Max(S(t))
    <2>1. S(t) \subseteq Nat
        BY DEF LogicalIds, VectorClocks
    <2>2. c[t] \in Nat /\ \A x \in S(t) : x <= c[t]
        BY DEF Covers, Below, VectorClocks
    <2>3. 0 \in S(t)
        OBVIOUS
    <2> HIDE DEF S
    <2> QED
        BY <2>1, <2>2, <2>3, MaxExists
<1>2. Top(ops) = [t \in Sites |-> Max(S(t))]
    BY DEF Top
<1>3. Top(ops) \in VectorClocks
    <2>1. \A t \in Sites : Max(S(t)) \in Nat
        BY <1>1
    <2> HIDE DEF S
    <2> QED
        BY <1>2, <2>1 DEF VectorClocks
<1>4. Covers(Top(ops), Ids(ops))
    <2> SUFFICES ASSUME NEW lid \in Ids(ops), NEW t \in Sites PROVE lid.clock[t] <= Top(ops)[t]
        BY DEF Covers, Below
    <2>1. lid.clock[t] \in S(t)
        OBVIOUS
    <2>2. Top(ops)[t] = Max(S(t))
        BY <1>2
    <2> HIDE DEF S
    <2> QED
        BY <1>1, <2>1, <2>2
<1>5. ASSUME NEW d \in VectorClocks, Covers(d, Ids(ops)) PROVE Below(Top(ops), d)
    <2> SUFFICES ASSUME NEW t \in Sites PROVE Top(ops)[t] <= d[t]
        BY DEF Below
    <2>1. \A x \in S(t) : x <= d[t]
        BY <1>5 DEF Covers, Below, VectorClocks
    <2>2. Top(ops)[t] = Max(S(t))
        BY <1>2
    <2> HIDE DEF S
    <2> QED
        BY <1>1, <2>1, <2>2
<1> QED
    BY <1>3, <1>4, <1>5 DEF IsTop

\* Clocks that are below each other are the same.
LEMMA BelowIsAntisymmetric ==
    ASSUME NEW c \in VectorClocks, NEW d \in VectorClocks, Below(c, d), Below(d, c)
    PROVE  c = d
<1>1. ASSUME NEW t \in Sites PROVE c[t] = d[t]
    <2>1. c[t] \in Nat /\ d[t] \in Nat
        BY DEF VectorClocks
    <2>2. c[t] <= d[t] /\ d[t] <= c[t]
        BY DEF Below
    <2> QED
        BY <2>1, <2>2
<1>2. c = [t \in Sites |-> c[t]] /\ d = [t \in Sites |-> d[t]]
    BY DEF VectorClocks
<1> QED
    BY <1>1, <1>2

\* Clocks compare transitively.
LEMMA BelowIsTransitive ==
    ASSUME NEW c \in VectorClocks, NEW d \in VectorClocks, NEW e \in VectorClocks,
           Below(c, d), Below(d, e)
    PROVE  Below(c, e)
<1> SUFFICES ASSUME NEW t \in Sites PROVE c[t] <= e[t]
    BY DEF Below
<1>1. c[t] \in Nat /\ d[t] \in Nat /\ e[t] \in Nat
    BY DEF VectorClocks
<1>2. c[t] <= d[t] /\ d[t] <= e[t]
    BY DEF Below
<1> QED
    BY <1>1, <1>2

\* Update is the least clock above two clocks.
LEMMA UpdateIsLeast ==
    ASSUME NEW c \in VectorClocks, NEW d \in VectorClocks
    PROVE  /\ Update(c, d) \in VectorClocks
           /\ Below(c, Update(c, d))
           /\ Below(d, Update(c, d))
           /\ \A e \in VectorClocks : Below(c, e) /\ Below(d, e) => Below(Update(c, d), e)
BY DEF Update, Below, VectorClocks



-----------------------------------------------------------------------------
(* What the invariant of CausalOps says of the sorted logs.                *)

AllIds == UNION {Ids(state[s]) : s \in Sites}

\* The operations that are in some log.
Made == {op \in [id : LogicalIds] : op.id \in AllIds}

IdsOf(U) == {op.id : op \in U}

\* The ids of a log are those of its operations.
LEMMA IdsOfLog ==
    ASSUME NEW w
    PROVE  Ids(w) = IdsOf(ToSet(w))
BY DEF Ids, IdsOf, ToSet

\* The clocks are clocks, the ids are ids, and the top of a log is a clock
\* above its operations.
LEMMA LogsAreTyped ==
    ASSUME Proved!IInv
    PROVE  /\ clock \in [Sites -> VectorClocks]
           /\ Proved!AllOps = AllIds
           /\ AllIds \subseteq LogicalIds
           /\ \A w \in {state[s] : s \in Sites} \cup pushed :
                 /\ Ids(w) \subseteq AllIds
                 /\ IsTop(Top(w), Ids(w))
<1>1. Proved!TypeOK /\ Proved!TopCovers
    BY DEF Proved!IInv
<1>2. clock \in [Sites -> VectorClocks]
    BY <1>1, SameOperators DEF Proved!TypeOK
<1>3. Proved!AllOps = AllIds
    BY DEF Proved!AllOps, AllIds, AsLog
<1>4. AllIds \subseteq LogicalIds
    BY <1>1, <1>3, SameOperators, Proved!OpsAreIds
<1>5. ASSUME NEW w \in {state[s] : s \in Sites} \cup pushed
      PROVE  Ids(w) \subseteq AllIds /\ IsTop(Top(w), Ids(w))
    <2>1. AsLog(w) \in Proved!Circulating
        BY DEF Proved!Circulating
    <2>2. AsLog(w) \in Proved!Logs
        BY <1>1, <2>1 DEF Proved!TypeOK, Proved!Circulating
    <2>3. Top(w) \in VectorClocks /\ Ids(w) \subseteq LogicalIds
        BY <2>2, SameOperators DEF Proved!Logs, AsLog
    <2>4. Ids(w) \subseteq AllIds
        BY <1>1, <1>3, <2>1 DEF Proved!TopCovers, AsLog
    <2>5. Covers(Top(w), Ids(w))
        BY <1>1, <2>1 DEF Proved!TopCovers, AsLog, Covers, Below, Proved!Leq
    <2> QED
        BY <2>3, <2>4, <2>5, TopIsTop
<1> QED
    BY <1>2, <1>3, <1>4, <1>5

\* With two sites CompareOperation orders all operations there are.
LEMMA MadeIsOrdered ==
    ASSUME Proved!IInv, NEW a, NEW b, Sites = {a, b}
    PROVE  StrictOrder(Made)
<1>1. /\ \A o, p \in AllIds : equals(o, p) => o = p
      /\ \A o, p \in AllIds : o # p => less(o, p) \/ less(p, o)
      /\ \A o \in AllIds : ~less(o, o)
      /\ \A o, p, q \in AllIds : less(o, p) /\ less(p, q) => less(o, q)
    BY LogsAreTyped, SameOperators, Proved!UniqueIdsFollows, Proved!LogOrderFollows
    DEF Proved!UniqueIds, Proved!LogOrderIsTotal
<1>2. \A o : equals(o, o)
    BY DEF equals
<1>3. \A x, y \in Made : x = y <=> x.id = y.id
    BY DEF Made
<1>4. \A x \in Made : x.id \in AllIds
    BY DEF Made
<1>5. \A x, y \in Made :
          /\ CompareOperation(x, y) \in {-1, 0, 1}
          /\ CompareOperation(x, y) = 0 <=> x.id = y.id
          /\ CompareOperation(x, y) = -1 <=> less(x.id, y.id)
          /\ CompareOperation(x, y) = 1 <=> less(y.id, x.id)
    BY <1>1, <1>2, <1>4 DEF CompareOperation, Compare
<1>6. \A x, y \in Made :
          /\ CompareOperation(x, y) \in Int
          /\ CompareOperation(x, y) = 0 <=> x = y
          /\ CompareOperation(x, y) < 0 <=> less(x.id, y.id)
          /\ CompareOperation(x, y) > 0 <=> less(y.id, x.id)
    BY <1>3, <1>5
<1> QED
    BY <1>1, <1>4, <1>6 DEF StrictOrder


\* A log over a set of operations is one over any set that holds its own.
LEMMA SortedOverOwn ==
    ASSUME NEW U, NEW V, NEW w \in SortedOver(U), ToSet(w) \subseteq V
    PROVE  w \in SortedOver(V)
<1>1. w \in Seq(U) /\ Sorted(w)
    BY DEF SortedOver
<1>2. \A i \in 1..Len(w) : w[i] \in V
    BY <1>1 DEF ToSet
<1>3. Len(w) \in Nat /\ w = [i \in 1..Len(w) |-> w[i]]
    BY <1>1
<1>4. w \in Seq(V)
    BY <1>2, <1>3, IsASeq
<1> QED
    BY <1>1, <1>4 DEF SortedOver

\* Part of an ordered set is ordered.
LEMMA OrderOfPart ==
    ASSUME NEW U, StrictOrder(U), NEW V, V \subseteq U
    PROVE  StrictOrder(V)
BY DEF StrictOrder

\* Last is after every operation of U.
IsAfter(last, U) ==
    \A o \in U : CompareOperation(o, last) = -1 /\ CompareOperation(last, o) = 1

\* An operation after all the others extends their order.
LEMMA OrderExtends ==
    ASSUME NEW U, StrictOrder(U), NEW last, CompareOperation(last, last) = 0, IsAfter(last, U)
    PROVE  StrictOrder(U \cup {last})
<1> SUFFICES ASSUME NEW x \in U \cup {last}, NEW y \in U \cup {last}
             PROVE  /\ CompareOperation(x, y) \in Int
                    /\ CompareOperation(x, y) = 0 <=> x = y
                    /\ CompareOperation(x, y) > 0 <=> CompareOperation(y, x) < 0
                    /\ CompareOperation(x, y) < 0 =>
                          \A z \in U \cup {last} :
                              CompareOperation(y, z) < 0 => CompareOperation(x, z) < 0
    BY DEF StrictOrder
<1>1. \A o \in U : CompareOperation(o, last) = -1 /\ CompareOperation(last, o) = 1
    BY DEF IsAfter
<1>2. last \notin U
    BY <1>1
<1>3. CASE x \in U /\ y \in U
    BY <1>1, <1>3 DEF StrictOrder
<1>4. CASE x = last /\ y \in U
    BY <1>1, <1>2, <1>4
<1>5. CASE x \in U /\ y = last
    BY <1>1, <1>2, <1>5
<1>6. CASE x = last /\ y = last
    BY <1>6
<1> QED
    BY <1>3, <1>4, <1>5, <1>6

\* The top of a log is determined by its operations.
LEMMA TopIsUnique ==
    ASSUME NEW c, NEW d, NEW ids, IsTop(c, ids), IsTop(d, ids)
    PROVE  c = d
BY BelowIsAntisymmetric DEF IsTop


-----------------------------------------------------------------------------
(* The inductive invariant.                                                *)

Operations == [id : LogicalIds]

\* The logs are sorted, and the sets of operations they stand for satisfy the
\* invariant of CausalOps.
LogsInv ==
    /\ Proved!IInv
    /\ state \in [Sites -> SortedOver(Operations)]
    /\ pushed \subseteq SortedOver(Operations)
    /\ IsFiniteSet(pushed)

\* The operations of a log that circulates are among those that are ordered.
LEMMA LogsAreMade ==
    ASSUME LogsInv
    PROVE  /\ state \in [Sites -> SortedOver(Made)]
           /\ pushed \subseteq SortedOver(Made)
<1>1. ASSUME NEW w \in {state[s] : s \in Sites} \cup pushed PROVE w \in SortedOver(Made)
    <2>1. w \in SortedOver(Operations)
        BY DEF LogsInv
    <2>2. Ids(w) \subseteq AllIds
        BY LogsAreTyped DEF LogsInv
    <2>3. \A op \in ToSet(w) : op \in Operations /\ op.id \in Ids(w)
        BY <2>1, IdsOfLog, SortedTypes DEF IdsOf
    <2>4. ToSet(w) \subseteq Made
        BY <2>2, <2>3 DEF Made, Operations
    <2> QED
        BY <2>1, <2>4, SortedOverOwn
<1> QED
    BY <1>1 DEF LogsInv

\* The operation of an edit: its id is one of the site, its clock is above
\* every operation the site has, and it is after each of them.
LEMMA NewOperationIsLast ==
    ASSUME LogsInv, NEW s \in Sites, CanTick(s)
    PROVE  /\ NewOperation(s).id = Proved!NewId(s)
           /\ NewOperation(s) \in [id : LogicalIds]
           /\ Covers(NewOperation(s).id.clock, Ids(state[s]))
           /\ CompareOperation(NewOperation(s), NewOperation(s)) = 0
           /\ IsAfter(NewOperation(s), ToSet(state[s]))
<1> DEFINE n == Proved!NewId(s)
<1>0. Proved!IInv /\ Proved!TypeOK
    BY DEF LogsInv, Proved!IInv
<1>1. Proved!CanTick(s)
    BY DEF CanTick, Proved!CanTick
<1>2. NewOperation(s) = [id |-> n]
    BY SameOperators DEF NewOperation, Proved!NewId
<1>3. n \in LogicalIds /\ n.siteId = s /\ n.clock[s] = clock[s][s] + 1
    BY <1>0, <1>1, SameOperators, Proved!NewIdFacts DEF Proved!GetLogicalClock
<1>4. clock[s] \in VectorClocks
    BY <1>0, LogsAreTyped
<1>5. ASSUME NEW o \in Ids(state[s])
      PROVE  Below(o.clock, n.clock) /\ ~equals(o, n) /\ ~equals(n, o) /\ less(o, n) /\ ~less(n, o)
    <2>1. o \in AsLog(state[s]).ops
        BY DEF AsLog
    <2>2. o \in LogicalIds
        BY <1>0, LogsAreTyped
    <2>3. Proved!HappenedBefore(o, Proved!NewId(s))
        BY <1>0, <1>1, <2>1, Proved!GenerateIsGreatest
    <2>4. HappenedBefore(o, n)
        BY <2>3, SameOperators
    <2>5. ~HappenedBefore(n, o)
        BY <1>3, <2>2, <2>4 DEF HappenedBefore, LogicalIds, VectorClocks
    <2>6. Proved!Leq(o.clock, clock[s])
        BY <1>0, <2>1, Proved!ClockCovers
    <2>7. o.clock[s] <= clock[s][s] /\ o.clock[s] \in Nat /\ clock[s][s] \in Nat
        BY <1>4, <2>2, <2>6 DEF Proved!Leq, LogicalIds, VectorClocks
    <2>8. ~equals(o, n) /\ ~equals(n, o)
        BY <1>3, <2>7 DEF equals, GetLogicalClock
    <2> QED
        BY <2>4, <2>5, <2>8 DEF less, HappenedBefore, Below
<1>6. Covers(n.clock, Ids(state[s]))
    BY <1>5 DEF Covers
<1>7. \A o \in ToSet(state[s]) : o.id \in Ids(state[s])
    BY DEF ToSet, Ids
<1>8. IsAfter([id |-> n], ToSet(state[s]))
    BY <1>5, <1>7 DEF IsAfter, CompareOperation, Compare
<1>9. CompareOperation([id |-> n], [id |-> n]) = 0
    BY DEF CompareOperation, Compare, equals
<1> QED
    BY <1>2, <1>3, <1>6, <1>8, <1>9

\* An edit adds its operation to the log of its site, whose top it becomes.
LEMMA EditAddsOne ==
    ASSUME LogsInv, NEW a, NEW b, Sites = {a, b}, NEW s \in Sites, CanTick(s),
           NEW w, w = Merge(state[s], insert(EmptyState, NewOperation(s)))
    PROVE  /\ w \in SortedOver(ToSet(state[s]) \cup {NewOperation(s)})
           /\ ToSet(w) = ToSet(state[s]) \cup {NewOperation(s)}
           /\ AsLog(w) = [ops |-> AsLog(state[s]).ops \cup {Proved!NewId(s)},
                          top |-> Proved!NewId(s).clock]
<1> DEFINE op == NewOperation(s)
           U == ToSet(state[s]) \cup {op}
<1>1. /\ op.id = Proved!NewId(s) /\ op \in [id : LogicalIds]
      /\ Covers(op.id.clock, Ids(state[s])) /\ CompareOperation(op, op) = 0
      /\ IsAfter(op, ToSet(state[s]))
    BY NewOperationIsLast
<1>2. state[s] \in SortedOver(Made) /\ Proved!IInv
    BY LogsAreMade DEF LogsInv
<1>3. ToSet(state[s]) \subseteq Made
    BY <1>2 DEF SortedOver, ToSet
<1> HIDE DEF op
<1>4. StrictOrder(U)
    BY <1>1, <1>2, <1>3, MadeIsOrdered, OrderOfPart, OrderExtends
<1>5. state[s] \in SortedOver(U)
    BY <1>2, SortedOverOwn
<1> HIDE DEF U
<1>6. op \in U /\ EmptyState \in SortedOver(U) /\ ToSet(EmptyState) = {}
    BY EmptyStateIsSorted DEF U
<1>7. insert(EmptyState, op) \in SortedOver(U) /\ ToSet(insert(EmptyState, op)) = {op}
    BY <1>4, <1>6, InsertKeepsSorted
<1>8. w \in SortedOver(U) /\ ToSet(w) = ToSet(state[s]) \cup {op}
    BY <1>4, <1>5, <1>7, MergeIsUnion DEF op
<1>9. Ids(w) = Ids(state[s]) \cup {op.id}
    BY <1>8, IdsOfLog DEF IdsOf
<1>10. Ids(w) \subseteq LogicalIds /\ op.id.clock \in VectorClocks
    BY <1>1, <1>2, <1>9, LogsAreTyped DEF LogicalIds
<1>11. Covers(op.id.clock, Ids(w))
    <2>1. Below(op.id.clock, op.id.clock)
        BY <1>10 DEF Below, VectorClocks
    <2> QED
        BY <1>1, <1>9, <2>1 DEF Covers
<1>12. IsTop(Top(w), Ids(w))
    BY <1>10, <1>11, TopIsTop
<1>13. IsTop(op.id.clock, Ids(w))
    BY <1>9, <1>10, <1>11 DEF IsTop, Covers
<1>14. Top(w) = op.id.clock
    BY <1>12, <1>13, TopIsUnique
<1> QED
    BY <1>1, <1>8, <1>9, <1>14 DEF AsLog, U, op


-----------------------------------------------------------------------------
(* Every step is a step of CausalOps.                                      *)

\* An edit is an edit of CausalOps.
LEMMA GenerateIsGenerate ==
    ASSUME LogsInv, NEW a, NEW b, Sites = {a, b}, NEW s \in Sites, Generate(s)
    PROVE  Proved!Generate(s)
<1> DEFINE new == [ops |-> AsLog(state[s]).ops \cup {Proved!NewId(s)},
                   top |-> Proved!NewId(s).clock]
<1>1. CanTick(s) /\ Proved!CanTick(s) /\ pushed' = pushed
      /\ clock' = [clock EXCEPT ![s] = Proved!Increment(clock[s], s)]
    BY SameOperators DEF Generate, CanTick, Proved!CanTick
<1>2. state \in [Sites -> SortedOver(Made)]
    BY LogsAreMade
<1>3. state' = [state EXCEPT ![s] = Merge(state[s], insert(EmptyState, NewOperation(s)))]
    BY DEF Generate
<1>4. AsLog(Merge(state[s], insert(EmptyState, NewOperation(s)))) = new
    BY <1>1, EditAddsOne
<1> HIDE DEF new
<1>5. \A t \in Sites : AsLog(state'[t]) = IF t = s THEN new ELSE AsLog(state[t])
    BY <1>2, <1>3, <1>4
<1>6. [t \in Sites |-> AsLog(state'[t])] = [[t \in Sites |-> AsLog(state[t])] EXCEPT ![s] = new]
    BY <1>5
<1>7. {AsLog(ops) : ops \in pushed'} = {AsLog(ops) : ops \in pushed}
    BY <1>1
<1> QED
    BY <1>1, <1>6, <1>7 DEF Proved!Generate, new

\* A refused insertion is one of CausalOps.
LEMMA RefuseIsRefuse ==
    ASSUME NEW s \in Sites, Refuse(s)
    PROVE  Proved!Refuse(s)
<1>1. CanTick(s) /\ Proved!CanTick(s) /\ pushed' = pushed /\ state' = state
      /\ clock' = [clock EXCEPT ![s] = Proved!Increment(clock[s], s)]
    BY SameOperators DEF Refuse, CanTick, Proved!CanTick
<1>2. [t \in Sites |-> AsLog(state'[t])] = [t \in Sites |-> AsLog(state[t])]
    BY <1>1
<1>3. {AsLog(ops) : ops \in pushed'} = {AsLog(ops) : ops \in pushed}
    BY <1>1
<1> QED
    BY <1>1, <1>2, <1>3 DEF Proved!Refuse

\* A push is one of CausalOps: there are no more sets than logs.
LEMMA PushIsPush ==
    ASSUME LogsInv, NEW s \in Sites, Push(s)
    PROVE  Proved!Push(s)
<1> DEFINE S == pushed \cup {state[s]}
           T == {AsLog(ops) : ops \in S}
           f == [ops \in S |-> AsLog(ops)]
<1>1. IsFiniteSet(S)
    BY FS_AddElement DEF LogsInv
<1>2. f \in Surjection(S, T)
    BY DEF Surjection
<1>3. IsFiniteSet(T) /\ Cardinality(T) <= Cardinality(S) /\ Cardinality(S) \in Nat
      /\ Cardinality(T) \in Nat
    <2> HIDE DEF f, T, S
    <2> QED
        BY <1>1, <1>2, FS_Surjection, FS_CardinalityType
<1>4. Cardinality(S) <= MaxPushes /\ pushed' = S /\ clock' = clock /\ state' = state
    BY DEF Push
<1>5. Cardinality(T) <= MaxPushes
    <2> HIDE DEF S, T
    <2> QED
        BY <1>3, <1>4
<1>6. T = {AsLog(ops) : ops \in pushed} \cup {[t \in Sites |-> AsLog(state[t])][s]}
    OBVIOUS
<1>7. {AsLog(ops) : ops \in pushed'} = T
    BY <1>4
<1>8. \A Q : Proved!Cardinality(Q) = Cardinality(Q)
    BY Zenon DEF Proved!Cardinality, Cardinality
<1>9. [t \in Sites |-> AsLog(state'[t])] = [t \in Sites |-> AsLog(state[t])]
    BY <1>4
<1> HIDE DEF T, S
<1> QED
    BY <1>4, <1>5, <1>6, <1>7, <1>8, <1>9 DEF Proved!Push


\* w has the operations of the log of s and of ops, and what s lacked of ops
\* says all that ops says of the clock.
Joined(w, s, ops) ==
    /\ w \in SortedOver(Made)
    /\ Ids(w) = Ids(state[s]) \cup Ids(ops)
    /\ Top(w) = Update(Top(state[s]), Top(ops))
    /\ Update(clock[s], Top(NewState(state[s], ops))) = Update(clock[s], Top(ops))

\* What UpdateState computes: the log of the payload joins the log of the
\* site, and the operations the site lacked say all the payload says of the
\* clock.
LEMMA DeliveryJoins ==
    ASSUME LogsInv, NEW a, NEW b, Sites = {a, b}, NEW s \in Sites, NEW ops \in pushed,
           NEW w, w = Merge(state[s], NewState(state[s], ops))
    PROVE  Joined(w, s, ops)
<1> DEFINE new == NewState(state[s], ops)
<1>0. w = Merge(state[s], new)
    OBVIOUS
<1>1. state[s] \in SortedOver(Made) /\ ops \in SortedOver(Made) /\ Proved!IInv
    BY LogsAreMade DEF LogsInv
<1>2. StrictOrder(Made)
    BY <1>1, MadeIsOrdered
<1>3. new \in SortedOver(Made) /\ ToSet(new) = ToSet(ops) \ ToSet(state[s])
    BY <1>1, <1>2, NewStateIsDifference
<1> HIDE DEF new
<1>4. w \in SortedOver(Made) /\ ToSet(w) = ToSet(state[s]) \cup ToSet(ops)
    BY <1>0, <1>1, <1>2, <1>3, MergeIsUnion
<1>5. /\ Ids(w) = Ids(state[s]) \cup Ids(ops)
      /\ Ids(new) \subseteq Ids(ops)
      /\ Ids(ops) \subseteq Ids(new) \cup Ids(state[s])
    BY <1>3, <1>4, IdsOfLog DEF IdsOf
<1>6. /\ clock[s] \in VectorClocks
      /\ IsTop(Top(state[s]), Ids(state[s])) /\ IsTop(Top(ops), Ids(ops))
      /\ Ids(state[s]) \subseteq AllIds /\ Ids(ops) \subseteq AllIds
      /\ AllIds \subseteq LogicalIds
    BY <1>1, LogsAreTyped
<1>7. Top(state[s]) \in VectorClocks /\ Top(ops) \in VectorClocks
    BY <1>6 DEF IsTop
<1>8. \A lid \in Ids(w) : lid.clock \in VectorClocks
    BY <1>5, <1>6 DEF LogicalIds
<1>9. Top(w) = Update(Top(state[s]), Top(ops))
    <2> DEFINE u == Update(Top(state[s]), Top(ops))
    <2>1. /\ u \in VectorClocks /\ Below(Top(state[s]), u) /\ Below(Top(ops), u)
          /\ \A e \in VectorClocks : Below(Top(state[s]), e) /\ Below(Top(ops), e) => Below(u, e)
        BY <1>7, UpdateIsLeast
    <2> HIDE DEF u
    <2>2. Covers(u, Ids(w))
        <3> SUFFICES ASSUME NEW lid \in Ids(w) PROVE Below(lid.clock, u)
            BY DEF Covers
        <3>1. Below(lid.clock, Top(state[s])) \/ Below(lid.clock, Top(ops))
            BY <1>5, <1>6 DEF IsTop, Covers
        <3> QED
            BY <1>7, <1>8, <2>1, <3>1, BelowIsTransitive
    <2>3. \A d \in VectorClocks : Covers(d, Ids(w)) => Below(u, d)
        BY <1>5, <1>6, <2>1 DEF IsTop, Covers
    <2>4. IsTop(u, Ids(w))
        BY <2>1, <2>2, <2>3 DEF IsTop
    <2>5. IsTop(Top(w), Ids(w))
        BY <1>5, <1>6, <2>1, <2>2, TopIsTop
    <2> QED
        BY <2>4, <2>5, TopIsUnique DEF u
<1>10. Update(clock[s], Top(new)) = Update(clock[s], Top(ops))
    <2> DEFINE u == Update(clock[s], Top(new))
               v == Update(clock[s], Top(ops))
    <2>1. IsTop(Top(new), Ids(new))
        <3>1. Covers(Top(ops), Ids(new)) /\ Ids(new) \subseteq LogicalIds
            BY <1>5, <1>6 DEF IsTop, Covers
        <3> QED
            BY <1>7, <3>1, TopIsTop
    <2>2. Top(new) \in VectorClocks
        BY <2>1 DEF IsTop
    <2>3. /\ u \in VectorClocks /\ Below(clock[s], u) /\ Below(Top(new), u)
          /\ \A e \in VectorClocks : Below(clock[s], e) /\ Below(Top(new), e) => Below(u, e)
        BY <1>6, <2>2, UpdateIsLeast
    <2>4. /\ v \in VectorClocks /\ Below(clock[s], v) /\ Below(Top(ops), v)
          /\ \A e \in VectorClocks : Below(clock[s], e) /\ Below(Top(ops), e) => Below(v, e)
        BY <1>6, <1>7, UpdateIsLeast
    <2> HIDE DEF u, v
    <2>5. Below(Top(new), Top(ops))
        BY <1>5, <1>6, <1>7, <2>1 DEF IsTop, Covers
    <2>6. Below(u, v)
        <3>1. Below(Top(new), v)
            BY <1>7, <2>2, <2>4, <2>5, BelowIsTransitive
        <3> QED
            BY <2>3, <2>4, <3>1
    <2>7. Covers(u, Ids(ops))
        <3> SUFFICES ASSUME NEW lid \in Ids(ops) PROVE Below(lid.clock, u)
            BY DEF Covers
        <3>1. lid.clock \in VectorClocks
            BY <1>5, <1>8
        <3>2. CASE lid \in Ids(new)
            <4>1. Below(lid.clock, Top(new))
                BY <2>1, <3>2 DEF IsTop, Covers
            <4> QED
                BY <2>2, <2>3, <3>1, <4>1, BelowIsTransitive
        <3>3. CASE lid \in Ids(state[s])
            <4>1. lid \in AsLog(state[s]).ops
                BY <3>3 DEF AsLog
            <4>2. Proved!Leq(lid.clock, clock[s])
                BY <1>1, <4>1, Proved!ClockCovers
            <4>3. Below(lid.clock, clock[s])
                BY <4>2 DEF Proved!Leq, Below
            <4> QED
                BY <1>6, <2>3, <3>1, <4>3, BelowIsTransitive
        <3> QED
            BY <1>5, <3>2, <3>3
    <2>8. Below(v, u)
        <3>1. Below(Top(ops), u)
            BY <1>6, <2>3, <2>7 DEF IsTop
        <3> QED
            BY <2>3, <2>4, <3>1
    <2> QED
        BY <2>3, <2>4, <2>6, <2>8, BelowIsAntisymmetric DEF u, v
<1> QED
    BY <1>4, <1>5, <1>9, <1>10 DEF new, Joined

\* A delivery is one of CausalOps, of the set of the log that is delivered.
LEMMA DeliverIsDeliver ==
    ASSUME LogsInv, NEW a, NEW b, Sites = {a, b}, NEW s \in Sites, NEW ops \in pushed,
           Deliver(s, ops)
    PROVE  Proved!Deliver(s, AsLog(ops))
<1> DEFINE joined == [ops |-> AsLog(state[s]).ops \cup AsLog(ops).ops,
                      top |-> Proved!Update(AsLog(state[s]).top, AsLog(ops).top)]
           w == Merge(state[s], NewState(state[s], ops))
<1>1. /\ state \in [Sites -> SortedOver(Made)]
      /\ clock \in [Sites -> VectorClocks]
    BY LogsAreMade, LogsAreTyped DEF LogsInv
<1>2. /\ pushed' = pushed
      /\ state' = [state EXCEPT ![s] = w]
      /\ clock' = [clock EXCEPT ![s] = Update(clock[s], Top(NewState(state[s], ops)))]
    BY DEF Deliver
<1>3. /\ Ids(w) = Ids(state[s]) \cup Ids(ops)
      /\ Top(w) = Update(Top(state[s]), Top(ops))
      /\ Update(clock[s], Top(NewState(state[s], ops))) = Update(clock[s], Top(ops))
    <2>1. Joined(w, s, ops)
        BY DeliveryJoins
    <2> QED
        BY <2>1 DEF Joined
<1>4. AsLog(w) = joined
    BY <1>3, SameOperators DEF AsLog
<1>5. clock' = [clock EXCEPT ![s] = Proved!Update(clock[s], AsLog(ops).top)]
    BY <1>2, <1>3, SameOperators DEF AsLog
<1> HIDE DEF joined, w
<1>6. \A t \in Sites : AsLog(state'[t]) = IF t = s THEN joined ELSE AsLog(state[t])
    BY <1>1, <1>2, <1>4
<1>7. [t \in Sites |-> AsLog(state'[t])] = [[t \in Sites |-> AsLog(state[t])] EXCEPT ![s] = joined]
    BY <1>6
<1>8. {AsLog(o) : o \in pushed'} = {AsLog(o) : o \in pushed}
    BY <1>2
<1> QED
    BY <1>5, <1>7, <1>8 DEF Proved!Deliver, joined


\* Every step of the sorted logs is one of CausalOps, or leaves it as it is.
LEMMA StepsAreSteps ==
    ASSUME LogsInv, NEW a, NEW b, Sites = {a, b}, [Next]_vars
    PROVE  [Proved!Next]_(Proved!vars)
<1>1. ASSUME NEW s \in Sites, Generate(s) PROVE Proved!Next
    BY <1>1, GenerateIsGenerate DEF Proved!Next
<1>2. ASSUME NEW s \in Sites, Refuse(s) PROVE Proved!Next
    BY <1>2, RefuseIsRefuse DEF Proved!Next
<1>3. ASSUME NEW s \in Sites, Push(s) PROVE Proved!Next
    BY <1>3, PushIsPush DEF Proved!Next
<1>4. ASSUME NEW s \in Sites, NEW ops \in pushed, Deliver(s, ops) PROVE Proved!Next
    <2>1. AsLog(ops) \in {AsLog(o) : o \in pushed}
        OBVIOUS
    <2>2. Proved!Deliver(s, AsLog(ops))
        BY <1>4, DeliverIsDeliver
    <2> QED
        BY <2>1, <2>2 DEF Proved!Next
<1>5. CASE UNCHANGED vars
    <2>1. clock' = clock /\ state' = state /\ pushed' = pushed
        BY <1>5 DEF vars
    <2>2. [t \in Sites |-> AsLog(state'[t])] = [t \in Sites |-> AsLog(state[t])]
        BY <2>1
    <2>3. {AsLog(ops) : ops \in pushed'} = {AsLog(ops) : ops \in pushed}
        BY <2>1
    <2> QED
        BY <2>1, <2>2, <2>3 DEF Proved!vars
<1> QED
    BY <1>1, <1>2, <1>3, <1>4, <1>5 DEF Next

\* The initial logs are the initial sets of CausalOps.
LEMMA InitIsInit == Init => Proved!Init
<1> SUFFICES ASSUME Init PROVE Proved!Init
    OBVIOUS
<1>1. state = [s \in Sites |-> EmptyState] /\ pushed = {}
      /\ clock = [s \in Sites |-> Proved!NewVectorClock]
    BY DEF Init, NewVectorClock, MinValue, Proved!NewVectorClock, Proved!MinValue
<1>2. Ids(EmptyState) = {}
    BY DEF Ids, EmptyState
<1>3. NewVectorClock \in VectorClocks
    BY DEF NewVectorClock, VectorClocks, MinValue
<1>4. IsTop(NewVectorClock, Ids(EmptyState))
    <2>1. \A d \in VectorClocks : Below(NewVectorClock, d)
        BY DEF Below, NewVectorClock, VectorClocks, MinValue
    <2> QED
        BY <1>2, <1>3, <2>1 DEF IsTop, Covers
<1>5. IsTop(Top(EmptyState), Ids(EmptyState))
    BY <1>2, <1>3, <1>4, TopIsTop DEF IsTop
<1>6. Top(EmptyState) = NewVectorClock
    BY <1>4, <1>5, TopIsUnique
<1>7. AsLog(EmptyState) = Proved!EmptyLog
    BY <1>2, <1>6 DEF AsLog, Proved!EmptyLog, NewVectorClock, MinValue,
                      Proved!NewVectorClock, Proved!MinValue
<1>8. [s \in Sites |-> AsLog(state[s])] = [s \in Sites |-> Proved!EmptyLog]
    BY <1>1, <1>7
<1>9. {AsLog(ops) : ops \in pushed} = {}
    BY <1>1
<1> QED
    BY <1>1, <1>8, <1>9 DEF Proved!Init

\* The empty logs satisfy the invariant.
LEMMA LogsInvInit == Init => LogsInv
<1> SUFFICES ASSUME Init PROVE LogsInv
    OBVIOUS
<1>1. Proved!IInv
    BY InitIsInit, Proved!IInvInit
<1>2. state \in [Sites -> SortedOver(Operations)]
    BY EmptyStateIsSorted DEF Init
<1>3. pushed \subseteq SortedOver(Operations) /\ IsFiniteSet(pushed)
    BY FS_EmptySet DEF Init
<1> QED
    BY <1>1, <1>2, <1>3 DEF LogsInv

\* With two sites every step preserves it.
LEMMA LogsInvNext ==
    ASSUME LogsInv, NEW a, NEW b, Sites = {a, b}, [Next]_vars
    PROVE  LogsInv'
<1>1. Proved!IInv'
    BY StepsAreSteps, Proved!IInvNext DEF LogsInv
<1>2. state \in [Sites -> SortedOver(Operations)] /\ pushed \subseteq SortedOver(Operations)
      /\ IsFiniteSet(pushed)
    BY DEF LogsInv
<1>3. SortedOver(Made) \subseteq SortedOver(Operations)
    <2>1. Made \subseteq Operations
        BY DEF Made, Operations
    <2> SUFFICES ASSUME NEW w \in SortedOver(Made) PROVE w \in SortedOver(Operations)
        OBVIOUS
    <2>2. ToSet(w) \subseteq Operations
        BY <2>1, SortedTypes
    <2> QED
        BY <2>2, SortedOverOwn
<1>4. ASSUME NEW s \in Sites, Generate(s)
      PROVE  state' \in [Sites -> SortedOver(Operations)] /\ pushed' = pushed
    <2> DEFINE w == Merge(state[s], insert(EmptyState, NewOperation(s)))
    <2>1. CanTick(s) /\ pushed' = pushed /\ state' = [state EXCEPT ![s] = w]
        BY <1>4 DEF Generate
    <2>2. w \in SortedOver(ToSet(state[s]) \cup {NewOperation(s)})
          /\ ToSet(w) = ToSet(state[s]) \cup {NewOperation(s)}
        BY <2>1, EditAddsOne
    <2>3. NewOperation(s) \in Operations
        BY <2>1, NewOperationIsLast DEF Operations
    <2>4. ToSet(state[s]) \subseteq Operations
        BY <1>2, SortedTypes
    <2> HIDE DEF w
    <2>5. w \in SortedOver(Operations)
        BY <2>2, <2>3, <2>4, SortedOverOwn
    <2> QED
        BY <1>2, <2>1, <2>5
<1>5. ASSUME NEW s \in Sites, NEW ops \in pushed, Deliver(s, ops)
      PROVE  state' \in [Sites -> SortedOver(Operations)] /\ pushed' = pushed
    <2> DEFINE w == Merge(state[s], NewState(state[s], ops))
    <2>1. pushed' = pushed /\ state' = [state EXCEPT ![s] = w]
        BY <1>5 DEF Deliver
    <2>2. w \in SortedOver(Made)
        <3>1. Joined(w, s, ops)
            BY DeliveryJoins
        <3> QED
            BY <3>1 DEF Joined
    <2> HIDE DEF w
    <2> QED
        BY <1>2, <1>3, <2>1, <2>2
<1>6. ASSUME NEW s \in Sites, Push(s)
      PROVE  state' = state /\ pushed' = pushed \cup {state[s]}
    BY <1>6 DEF Push
<1>7. ASSUME NEW s \in Sites, Refuse(s) PROVE state' = state /\ pushed' = pushed
    BY <1>7 DEF Refuse
<1>8. CASE UNCHANGED vars
    BY <1>1, <1>2, <1>8 DEF LogsInv, vars
<1>9. CASE Next
    <2>1. /\ state' \in [Sites -> SortedOver(Operations)]
          /\ pushed' = pushed \/ \E s \in Sites : pushed' = pushed \cup {state[s]}
        BY <1>2, <1>4, <1>5, <1>6, <1>7, <1>9 DEF Next
    <2>2. pushed' \subseteq SortedOver(Operations)
        BY <1>2, <2>1
    <2>3. IsFiniteSet(pushed')
        BY <1>2, <2>1, FS_AddElement
    <2> QED
        BY <1>1, <2>1, <2>2, <2>3 DEF LogsInv
<1> QED
    BY <1>8, <1>9


-----------------------------------------------------------------------------
(* What holds of the sorted logs of two sites.                             *)

\* What happened before stands first in the order of the log.
LEMMA CausesCompareLess ==
    ASSUME Proved!IInv, NEW x \in Made, NEW y \in Made, HappenedBefore(x.id, y.id)
    PROVE  CompareOperation(x, y) < 0
<1>1. x.id \in AllIds /\ y.id \in AllIds /\ AllIds \subseteq LogicalIds
    BY LogsAreTyped DEF Made
<1>2. equals(x.id, y.id) => x.id = y.id
    BY <1>1, LogsAreTyped, SameOperators, Proved!UniqueIdsFollows DEF Proved!UniqueIds
<1>3. ~HappenedBefore(x.id, x.id)
    BY <1>1 DEF HappenedBefore, LogicalIds, VectorClocks
<1>4. ~equals(x.id, y.id)
    BY <1>2, <1>3
<1> QED
    BY <1>4 DEF CompareOperation, Compare, less

\* A sorted log is in causal order.
LEMMA LogIsCausalFollows ==
    ASSUME LogsInv, NEW a, NEW b, Sites = {a, b}
    PROVE  LogIsCausal
<1> SUFFICES ASSUME NEW s \in Sites, NEW i \in DOMAIN state[s], NEW j \in DOMAIN state[s],
                    HappenedBefore(state[s][i].id, state[s][j].id)
             PROVE  i < j
    BY DEF LogIsCausal
<1>1. state[s] \in SortedOver(Made) /\ Proved!IInv
    BY LogsAreMade DEF LogsInv
<1>2. /\ DOMAIN state[s] = 1..Len(state[s]) /\ Len(state[s]) \in Nat
      /\ state[s][i] \in Made /\ state[s][j] \in Made
    BY <1>1, SortedTypes
<1>3. CompareOperation(state[s][i], state[s][j]) < 0
    BY <1>1, <1>2, CausesCompareLess
<1>4. StrictOrder(Made)
    BY <1>1, MadeIsOrdered
<1>5. i # j /\ ~(CompareOperation(state[s][j], state[s][i]) < 0)
    BY <1>2, <1>3, <1>4 DEF StrictOrder
<1>6. ~(j < i)
    BY <1>1, <1>2, <1>5 DEF SortedOver, Sorted
<1> QED
    BY <1>2, <1>5, <1>6

\* There is one sorted log of a set of operations.
LEMMA SameOpsSameLogFollows ==
    ASSUME LogsInv, NEW a, NEW b, Sites = {a, b}
    PROVE  SameOpsSameLog
<1> SUFFICES ASSUME NEW s \in Sites, NEW t \in Sites, Ids(state[s]) = Ids(state[t])
             PROVE  state[s] = state[t]
    BY DEF SameOpsSameLog
<1>1. state[s] \in SortedOver(Made) /\ state[t] \in SortedOver(Made) /\ Proved!IInv
    BY LogsAreMade DEF LogsInv
<1>2. ToSet(state[s]) \subseteq Made /\ ToSet(state[t]) \subseteq Made
    BY <1>1, SortedTypes
<1>3. \A x, y \in Made : x.id = y.id => x = y
    BY DEF Made
<1>4. IdsOf(ToSet(state[s])) = IdsOf(ToSet(state[t]))
    BY IdsOfLog
<1>5. ToSet(state[s]) = ToSet(state[t])
    BY <1>2, <1>3, <1>4 DEF IdsOf
<1> QED
    BY <1>1, <1>5, MadeIsOrdered, SortedLogIsUnique

\* A delivery leaves the site's own entry of its clock alone: nobody knows more
\* of the site than it has counted.
LEMMA DeliveryIsNoTick ==
    ASSUME LogsInv, NEW a, NEW b, Sites = {a, b}, NEW s \in Sites, NEW ops \in pushed,
           Deliver(s, ops), NEW t \in Sites
    PROVE  clock'[t][t] = clock[t][t]
<1>1. clock \in [Sites -> VectorClocks] /\ IsTop(Top(ops), Ids(ops))
    BY LogsAreTyped DEF LogsInv
<1>2. clock' = [clock EXCEPT ![s] = Update(clock[s], Top(ops))]
    <2>1. Joined(Merge(state[s], NewState(state[s], ops)), s, ops)
        BY DeliveryJoins
    <2> QED
        BY <2>1 DEF Deliver, Joined
<1>3. Top(ops)[s] <= clock[s][s]
    <2>1. AsLog(ops) \in Proved!Circulating
        BY DEF Proved!Circulating
    <2> QED
        BY <2>1 DEF LogsInv, Proved!IInv, Proved!TopBounded, AsLog
<1>4. Top(ops)[s] \in Nat /\ clock[s][s] \in Nat
    BY <1>1 DEF IsTop, VectorClocks
<1>5. Update(clock[s], Top(ops))[s] = clock[s][s]
    BY <1>3, <1>4 DEF Update
<1> QED
    BY <1>1, <1>2, <1>5

\* The operation of an edit ends the log of its site.
LEMMA NewEditStepHolds ==
    ASSUME LogsInv, NEW a, NEW b, Sites = {a, b}, [Next]_vars
    PROVE  NewEditStep
<1> SUFFICES ASSUME NEW s \in Sites, clock'[s][s] # clock[s][s], state'[s] # state[s]
             PROVE  state'[s][Len(state'[s])].id = [siteId |-> s, clock |-> clock'[s]]
    BY DEF NewEditStep
<1>1. clock \in [Sites -> VectorClocks] /\ state \in [Sites -> SortedOver(Operations)]
    BY LogsAreTyped DEF LogsInv
<1>2. ASSUME Generate(s)
      PROVE  state'[s][Len(state'[s])].id = [siteId |-> s, clock |-> clock'[s]]
    <2> DEFINE op == NewOperation(s)
               w == Merge(state[s], insert(EmptyState, op))
    <2>1. CanTick(s) /\ state'[s] = w /\ clock'[s] = Increment(clock[s], s)
        BY <1>1, <1>2 DEF Generate
    <2>2. /\ w \in SortedOver(ToSet(state[s]) \cup {op})
          /\ ToSet(w) = ToSet(state[s]) \cup {op}
        BY <2>1, EditAddsOne
    <2>3. CompareOperation(op, op) = 0 /\ IsAfter(op, ToSet(state[s]))
        BY <2>1, NewOperationIsLast
    <2>4. op.id = [siteId |-> s, clock |-> clock'[s]]
        BY <2>1 DEF NewOperation
    <2> HIDE DEF w, op
    <2>5. /\ Len(w) \in Nat /\ Sorted(w)
          /\ ToSet(w) = {w[i] : i \in 1..Len(w)}
          /\ \A i \in 1..Len(w) : w[i] \in ToSet(state[s]) \cup {op}
        BY <2>2, SortedTypes
    <2>6. PICK k \in 1..Len(w) : w[k] = op
        BY <2>2, <2>5
    <2>7. \A x \in ToSet(state[s]) \cup {op} : ~(CompareOperation(op, x) < 0)
        BY <2>3 DEF IsAfter
    <2>8. k = Len(w)
        <3>1. Len(w) \in 1..Len(w)
            BY <2>5, <2>6
        <3>2. ~(k < Len(w))
            BY <2>5, <2>6, <2>7, <3>1 DEF Sorted
        <3> QED
            BY <2>5, <2>6, <3>2
    <2> QED
        BY <2>1, <2>4, <2>6, <2>8
<1>3. ASSUME NEW t \in Sites, Generate(t) PROVE t = s
    BY <1>1, <1>3 DEF Generate
<1>4. ASSUME NEW t \in Sites, Refuse(t) PROVE FALSE
    BY <1>4 DEF Refuse
<1>5. ASSUME NEW t \in Sites, Push(t) PROVE FALSE
    BY <1>5 DEF Push
<1>6. ASSUME NEW t \in Sites, NEW ops \in pushed, Deliver(t, ops) PROVE FALSE
    BY <1>6, DeliveryIsNoTick
<1>7. CASE UNCHANGED vars
    BY <1>7 DEF vars
<1> QED
    BY <1>2, <1>3, <1>4, <1>5, <1>6, <1>7 DEF Next

\* The logs stay sorted and stand for closed sets of operations.
THEOREM TwoSitesKeepSortedLogs ==
    ASSUME NEW a, NEW b, Sites = {a, b}
    PROVE  Spec => []LogsInv
<1>1. LogsInv /\ [Next]_vars => LogsInv'
    BY LogsInvNext
<1> QED
    BY <1>1, LogsInvInit, PTL DEF Spec

\* Two sites that have the same operations have the same log, whatever order
\* the operations and the logs came in (insert and Merge of state.go).
THEOREM TwoSitesAgree ==
    ASSUME NEW a, NEW b, Sites = {a, b}
    PROVE  Spec => []SameOpsSameLog
<1>1. LogsInv => SameOpsSameLog
    BY SameOpsSameLogFollows
<1> QED
    BY <1>1, TwoSitesKeepSortedLogs, PTL

\* No log has an operation before one that happened before it (UpdateState goes
\* through the log from the left).
THEOREM LogsAreCausal ==
    ASSUME NEW a, NEW b, Sites = {a, b}
    PROVE  Spec => []LogIsCausal
<1>1. LogsInv => LogIsCausal
    BY LogIsCausalFollows
<1> QED
    BY <1>1, TwoSitesKeepSortedLogs, PTL

\* CompareOperation orders all operations strictly and totally, as the binary
\* searches of state.go take for granted.
THEOREM SearchedOrderIsTotal ==
    ASSUME NEW a, NEW b, Sites = {a, b}
    PROVE  Spec => []LogOrderIsTotal
<1>1. \A o, p : Causal!HappenedBefore(o, p) = Proved!HappenedBefore(o, p)
    BY Zenon DEF Causal!HappenedBefore, Proved!HappenedBefore
<1>2. \A o, p : Causal!less(o, p) = Proved!less(o, p)
    BY <1>1, Zenon DEF Causal!less, Proved!less
<1>3. Causal!AllOps = Proved!AllOps
    BY DEF Causal!AllOps, Proved!AllOps
<1>4. LogsInv => LogOrderIsTotal
    <2> SUFFICES ASSUME LogsInv PROVE Causal!LogOrderIsTotal
        BY DEF LogOrderIsTotal
    <2>1. Proved!LogOrderIsTotal
        BY Proved!LogOrderFollows DEF LogsInv
    <2>2. \A o, p \in Proved!AllOps :
              /\ ~Proved!less(o, o)
              /\ o # p => Proved!less(o, p) \/ Proved!less(p, o)
              /\ Proved!less(o, p) =>
                    \A q \in Proved!AllOps : Proved!less(p, q) => Proved!less(o, q)
        BY <2>1, Zenon DEF Proved!LogOrderIsTotal
    <2> QED
        BY <1>2, <1>3, <2>2 DEF Causal!LogOrderIsTotal
<1> QED
    BY <1>4, TwoSitesKeepSortedLogs, PTL

\* "new operations will always be appended at end" (cvrdt_exports.go).
THEOREM NewEditsComeLast ==
    ASSUME NEW a, NEW b, Sites = {a, b}
    PROVE  Spec => NewEditIsLast
<1>1. LogsInv /\ [Next]_vars => [NewEditStep]_vars
    BY NewEditStepHolds
<1> QED
    BY <1>1, TwoSitesKeepSortedLogs, PTL DEF Spec, NewEditIsLast

\* The sorted slices of state.go, with their searches, insertions and merges,
\* implement the growing sets of operations of CausalOps.
THEOREM SortedLogsImplementCausalOps ==
    ASSUME NEW a, NEW b, Sites = {a, b}
    PROVE  Spec => RefinesCausalOps
<1>1. Init => Causal!Init
    BY InitIsInit, SameSpecification
<1>2. LogsInv /\ [Next]_vars => [Causal!Next]_(Causal!vars)
    <2> SUFFICES ASSUME LogsInv, [Next]_vars PROVE [Causal!Next]_(Causal!vars)
        OBVIOUS
    <2>1. CASE Proved!Next
        BY <2>1, SameSpecification
    <2>2. CASE Proved!vars' = Proved!vars
        BY <2>2 DEF Proved!vars, Causal!vars
    <2> QED
        BY <2>1, <2>2, StepsAreSteps
<1> QED
    BY <1>1, <1>2, TwoSitesKeepSortedLogs, PTL DEF Spec, RefinesCausalOps, Causal!Spec


-----------------------------------------------------------------------------
(* What CausalOps promises holds of the sorted logs.                       *)

\* Both instances of CausalOps say the same of the logs.
LEMMA SameProperties ==
    /\ Proved!IInv => IInv
    /\ Proved!UniqueIds => UniqueIds
    /\ Proved!CausalDelivery => CausalDelivery
    /\ Proved!ClockTellsCausality => ClockTellsCausality
<1>1. Causal!AllOps = Proved!AllOps /\ Causal!Circulating = Proved!Circulating
    BY DEF Causal!AllOps, Proved!AllOps, Causal!Circulating, Proved!Circulating
<1>2. \A o : Causal!GetLogicalClock(o) = Proved!GetLogicalClock(o)
    BY DEF Causal!GetLogicalClock, Proved!GetLogicalClock
<1>3. \A o, p : Causal!HappenedBefore(o, p) = Proved!HappenedBefore(o, p)
    BY Zenon DEF Causal!HappenedBefore, Proved!HappenedBefore
<1>4. \A c, d : Causal!Leq(c, d) = Proved!Leq(c, d)
    BY Zenon DEF Causal!Leq, Proved!Leq
<1>5. \A o, p : Causal!equals(o, p) = Proved!equals(o, p)
    BY <1>2, Zenon DEF Causal!equals, Proved!equals
<1>6. Causal!VectorClocks = Proved!VectorClocks
    BY DEF Causal!VectorClocks, Proved!VectorClocks
<1>7. Causal!Logs = Proved!Logs
    BY <1>6 DEF Causal!Logs, Proved!Logs, Causal!LogicalIds, Proved!LogicalIds
<1>8. Proved!UniqueIds => UniqueIds
    BY <1>1, <1>5 DEF UniqueIds, Causal!UniqueIds, Proved!UniqueIds
<1>9. Proved!CausalDelivery => CausalDelivery
    BY <1>1, <1>3 DEF CausalDelivery, Causal!CausalDelivery, Proved!CausalDelivery
<1>10. Proved!ClockTellsCausality => ClockTellsCausality
    BY <1>1, <1>2, <1>3
    DEF ClockTellsCausality, Causal!ClockTellsCausality, Proved!ClockTellsCausality
<1>11. Proved!IInv => IInv
    <2>1. Proved!TypeOK => Causal!TypeOK
        BY <1>6, <1>7 DEF Causal!TypeOK, Proved!TypeOK
    <2>2. Proved!ClockFollowsTop => Causal!ClockFollowsTop
        BY DEF Causal!ClockFollowsTop, Proved!ClockFollowsTop
    <2>3. Proved!TopBounded => Causal!TopBounded
        BY <1>1 DEF Causal!TopBounded, Proved!TopBounded
    <2>4. Proved!TopCovers => Causal!TopCovers
        BY <1>1, <1>4 DEF Causal!TopCovers, Proved!TopCovers
    <2>5. Proved!TopCloses => Causal!TopCloses
        BY <1>1, <1>2 DEF Causal!TopCloses, Proved!TopCloses
    <2>6. Proved!OwnOpsKept => Causal!OwnOpsKept
        BY <1>1, <1>2 DEF Causal!OwnOpsKept, Proved!OwnOpsKept
    <2>7. Proved!SeenIsEarlier => Causal!SeenIsEarlier
        BY <1>1, <1>2, <1>4 DEF Causal!SeenIsEarlier, Proved!SeenIsEarlier
    <2> QED
        BY <2>1, <2>2, <2>3, <2>4, <2>5, <2>6, <2>7 DEF IInv, Causal!IInv, Proved!IInv
<1> QED
    BY <1>8, <1>9, <1>10, <1>11

LEMMA SetsGiveLogs ==
    ASSUME NEW a, NEW b, Sites = {a, b}
    PROVE  LogsInv => IInv /\ UniqueIds /\ CausalDelivery /\ ClockTellsCausality
BY SameProperties, Proved!UniqueIdsFollows, Proved!CausalDeliveryFollows,
   Proved!ClockTellsCausalityFollows DEF LogsInv

\* The clocks follow the logs, and the logs themselves, not only sets that stand
\* for them, are closed under what their clocks cover (state.go, Site.clock).
THEOREM LogsFollowClocks ==
    ASSUME NEW a, NEW b, Sites = {a, b}
    PROVE  Spec => []IInv
BY TwoSitesKeepSortedLogs, SetsGiveLogs, PTL

\* No two operations in the logs share a LogicalId (operations.go).
THEOREM IdsInLogsAreUnique ==
    ASSUME NEW a, NEW b, Sites = {a, b}
    PROVE  Spec => []UniqueIds
BY TwoSitesKeepSortedLogs, SetsGiveLogs, PTL

\* A log holds the causes of every operation it holds, whatever the payloads
\* UpdateState went through and whatever it skipped.
THEOREM LogsHoldCauses ==
    ASSUME NEW a, NEW b, Sites = {a, b}
    PROVE  Spec => []CausalDelivery
BY TwoSitesKeepSortedLogs, SetsGiveLogs, PTL

\* The clocks that stamp the operations of the logs tell causality: HappenedBefore
\* holds exactly when the author of the later one had the earlier one.
THEOREM StampsTellCausality ==
    ASSUME NEW a, NEW b, Sites = {a, b}
    PROVE  Spec => []ClockTellsCausality
BY TwoSitesKeepSortedLogs, SetsGiveLogs, PTL

-----------------------------------------------------------------------------
(* What the replicated document builds on.                                 *)

\* The logs that circulate.
Sent == {state[s] : s \in Sites} \cup pushed

\* The clocks are clocks, two sites order all operations, no two of which
\* have an id in common, and causes come first.
LEMMA LogsOrder ==
    ASSUME LogsInv, NEW a, NEW b, Sites = {a, b}
    PROVE  /\ StrictOrder(Made)
           /\ clock \in [Sites -> VectorClocks]
           /\ AllIds \subseteq LogicalIds
           /\ \A o, p \in AllIds : equals(o, p) => o = p
           /\ \A o, p \in Made : HappenedBefore(o.id, p.id) => CompareOperation(o, p) < 0
<1>1. Proved!IInv
    BY DEF LogsInv
<1>2. \A o, p \in AllIds : equals(o, p) => o = p
    BY <1>1, LogsAreTyped, SameOperators, Proved!UniqueIdsFollows DEF Proved!UniqueIds
<1>3. \A o, p \in Made : HappenedBefore(o.id, p.id) => CompareOperation(o, p) < 0
    BY <1>1, CausesCompareLess
<1> QED
    BY <1>1, <1>2, <1>3, MadeIsOrdered, LogsAreTyped

\* A log that circulates has the causes of every operation it has, and a site
\* has all operations of its own, with a clock that counts them from 1.
LEMMA LogsClose ==
    ASSUME LogsInv
    PROVE  /\ \A w \in Sent : \A p \in Ids(w) : \A o \in AllIds :
                 p \in AllIds /\ (HappenedBefore(o, p) => o \in Ids(w))
           /\ \A o \in AllIds : /\ o \in Ids(state[o.siteId])
                                /\ 1 <= GetLogicalClock(o)
                                /\ GetLogicalClock(o) <= clock[o.siteId][o.siteId]
<1>0. Proved!IInv /\ Proved!AllOps = AllIds /\ AllIds \subseteq LogicalIds
      /\ clock \in [Sites -> VectorClocks]
    BY LogsAreTyped DEF LogsInv
<1>1. ASSUME NEW w \in Sent, NEW p \in Ids(w), NEW o \in AllIds
      PROVE  p \in AllIds /\ (HappenedBefore(o, p) => o \in Ids(w))
    <2>1. AsLog(w) \in Proved!Circulating /\ AsLog(w).ops = Ids(w) /\ AsLog(w).top = Top(w)
        BY DEF Sent, AsLog, Proved!Circulating
    <2>2. p \in AllIds
        BY <1>0, <1>1, LogsAreTyped DEF Sent
    <2>3. IsTop(Top(w), Ids(w))
        BY <1>0, <1>1, LogsAreTyped DEF Sent
    <2>4. Top(w) \in VectorClocks /\ Below(p.clock, Top(w))
        BY <1>1, <2>3 DEF IsTop, Covers
    <2>5. Proved!GetLogicalClock(o) <= Top(w)[o.siteId] => o \in Ids(w)
        BY <1>0, <1>1, <2>1 DEF Proved!IInv, Proved!TopCloses
    <2>6. ASSUME HappenedBefore(o, p)
          PROVE  Proved!GetLogicalClock(o) <= Top(w)[o.siteId]
        <3>1. o \in LogicalIds /\ p \in LogicalIds
            BY <1>0, <1>1, <2>2
        <3>2. o.siteId \in Sites /\ o.clock[o.siteId] \in Nat /\ p.clock[o.siteId] \in Nat
              /\ Top(w)[o.siteId] \in Nat
            BY <2>4, <3>1 DEF LogicalIds, VectorClocks
        <3>3. o.clock[o.siteId] <= p.clock[o.siteId] /\ p.clock[o.siteId] <= Top(w)[o.siteId]
            BY <2>4, <2>6, <3>2 DEF HappenedBefore, Below
        <3> QED
            BY <3>2, <3>3 DEF Proved!GetLogicalClock
    <2> QED
        BY <2>2, <2>5, <2>6
<1>2. ASSUME NEW o \in AllIds
      PROVE  /\ o \in Ids(state[o.siteId])
             /\ 1 <= GetLogicalClock(o)
             /\ GetLogicalClock(o) <= clock[o.siteId][o.siteId]
    <2>1. o \in LogicalIds /\ o.siteId \in Sites
        BY <1>0, <1>2 DEF LogicalIds
    <2>2. o \in AsLog(state[o.siteId]).ops /\ Proved!GetLogicalClock(o) >= 1
        BY <1>0, <1>2, <2>1 DEF Proved!IInv, Proved!OwnOpsKept
    <2>3. Proved!Leq(o.clock, clock[o.siteId])
        BY <1>0, <2>1, <2>2, Proved!ClockCovers
    <2>4. o.clock[o.siteId] <= clock[o.siteId][o.siteId]
        BY <2>1, <2>3 DEF Proved!Leq
    <2>5. o.clock[o.siteId] \in Nat
        BY <2>1 DEF LogicalIds, VectorClocks
    <2> QED
        BY <2>2, <2>4, <2>5 DEF AsLog, GetLogicalClock, Proved!GetLogicalClock
<1> QED
    BY <1>1, <1>2

\* The id of a new operation is above those of the log of its site.
LEMMA NewIdIsAbove ==
    ASSUME LogsInv, NEW s \in Sites, CanTick(s)
    PROVE  /\ NewOperation(s).id \in LogicalIds
           /\ NewOperation(s).id \notin AllIds
           /\ \A o \in Ids(state[s]) : HappenedBefore(o, NewOperation(s).id)
           /\ IsAfter(NewOperation(s), ToSet(state[s]))
           /\ CompareOperation(NewOperation(s), NewOperation(s)) = 0
<1>0. Proved!IInv /\ Proved!CanTick(s)
    BY DEF LogsInv, CanTick, Proved!CanTick
<1>1. NewOperation(s).id = Proved!NewId(s) /\ NewOperation(s).id \in LogicalIds
    BY NewOperationIsLast
<1>2. ASSUME NEW o \in Ids(state[s]) PROVE HappenedBefore(o, NewOperation(s).id)
    <2>1. o \in AsLog(state[s]).ops
        BY <1>2 DEF AsLog
    <2>2. Proved!HappenedBefore(o, Proved!NewId(s))
        BY <1>0, <2>1, Proved!GenerateIsGreatest
    <2> QED
        BY <1>1, <2>2, SameOperators
<1>3. NewOperation(s).id \notin AllIds
    <2> SUFFICES ASSUME NewOperation(s).id \in AllIds PROVE FALSE
        OBVIOUS
    <2>1. NewOperation(s).id.siteId = s
        BY DEF NewOperation
    <2>2. NewOperation(s).id \in Ids(state[s])
        BY <2>1, LogsClose
    <2>3. HappenedBefore(NewOperation(s).id, NewOperation(s).id)
        BY <1>2, <2>2
    <2>4. NewOperation(s).id.clock \in VectorClocks
        BY <1>1 DEF LogicalIds
    <2> QED
        BY <2>3, <2>4 DEF HappenedBefore, VectorClocks
<1> QED
    BY <1>1, <1>2, <1>3, NewOperationIsLast


=============================================================================
