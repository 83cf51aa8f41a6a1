----------------------------- MODULE CvRDTState -----------------------------
(***************************************************************************)
(* The replicated log: a slice of operations kept sorted by                *)
(* CompareOperation, searched and extended by binary search                *)
(* (cvrdt/state.go).  An operation is any record with a LogicalId in its   *)
(* field id.  Slice index i of the code is element i + 1 of the sequence.  *)
(***************************************************************************)
EXTENDS LogicalClock, SequencesExt

EmptyState == <<>>

\* Mutant: the operands are swapped.
CompareOperation_Reversed(op, other) == Compare(other.id, op.id)

CompareOperation(op, other) == Compare(op.id, other.id)

\* [idx, exists] of the Go results: idx is a slice index.  A range is the pair
\* left, right of the loop.
binarySearch(w, op) ==
    LET search[range \in (0..Len(w)) \X (0..Len(w))] ==
            LET left  == range[1]
                right == range[2]
                mid   == left + (right - left) \div 2
                cmp   == CompareOperation(w[mid + 1], op)
            IN  IF left >= right THEN [idx |-> left, exists |-> FALSE]
                ELSE IF cmp = 0 THEN [idx |-> mid, exists |-> TRUE]
                ELSE IF cmp < 0 THEN search[<<mid + 1, right>>]
                ELSE search[<<left, mid>>]
    IN  search[<<0, Len(w)>>]

\* Mutant: new operations go to the front of the log, without a search.
insert_AtFront(w, op) == <<op>> \o w

insert(w, op) ==
    LET found == binarySearch(w, op)
    IN  IF found.exists THEN w ELSE InsertAt(w, found.idx + 1, op)

\* Mutant: every operation is taken for new.
contains_Never(w, op) == FALSE

contains(w, op) == binarySearch(w, op).exists

GetNewStateFromOp(ops) == FoldLeft(insert, EmptyState, ops)

Merge(w, other) ==
    LET merged[k \in 0..Len(other)] ==
            IF k = 0 THEN w
            ELSE LET acc == merged[k - 1]
                 IN  IF contains(acc, other[k]) THEN acc ELSE insert(acc, other[k])
    IN  merged[Len(other)]

=============================================================================
