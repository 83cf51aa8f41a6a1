------------------------------ MODULE WootSite ------------------------------
(***************************************************************************)
(* A WOOT site (cvrdt/site.go) and the string of characters it keeps       *)
(* (cvrdt/string.go, cvrdt/character.go), as operators on values.          *)
(*                                                                         *)
(* A site is a record [siteId, clock, characters, pendingOps, fault].      *)
(* fault is "none" while the site works; the Go code has two ways to stop  *)
(* for good: a nil dereference ("panic") and a loop or recursion that      *)
(* never ends ("spin", which for the unbounded recursion is the stack      *)
(* overflow that ends the process).                                        *)
(***************************************************************************)
EXTENDS CvRDTState

CONSTANT Contents       \* texts an edit command may insert

-----------------------------------------------------------------------------
(* Characters.                                                             *)

SPECIAL_START_CHAR == "<START>"
SPECIAL_END_CHAR   == "<END>"

SPECIAL_START_CHAR_CLOCK   == 0
SPECIAL_END_CHAR_CLOCK     == MaxValue
SPECIAL_MISSING_CHAR_CLOCK == -1

WCharacterId(s, clock) == [siteId |-> s, clock |-> clock]

\* Mutant: the order of character ids without its tie-break.
WCharacterIdLess_NoTieBreak(wid, other) == wid.clock < other.clock

WCharacterIdLess(wid, other) ==
    \/ wid.clock < other.clock
    \/ wid.clock = other.clock /\ wid.siteId < other.siteId

\* The limiters of every site are the same character; other ids are compared.
WCharacterIdEquals(id1, id2) ==
    \/ id1.clock = SPECIAL_START_CHAR_CLOCK /\ id2.clock = SPECIAL_START_CHAR_CLOCK
    \/ id1.clock = SPECIAL_END_CHAR_CLOCK /\ id2.clock = SPECIAL_END_CHAR_CLOCK
    \/ id1 = id2

GetNewSpecialStartWChar(s) ==
    [id         |-> WCharacterId(s, SPECIAL_START_CHAR_CLOCK),
     alphaValue |-> SPECIAL_START_CHAR,
     visible    |-> TRUE,
     previousId |-> WCharacterId(s, SPECIAL_MISSING_CHAR_CLOCK),
     nextId     |-> WCharacterId(s, SPECIAL_END_CHAR_CLOCK)]

GetNewSpecialEndWChar(s) ==
    [id         |-> WCharacterId(s, SPECIAL_END_CHAR_CLOCK),
     alphaValue |-> SPECIAL_END_CHAR,
     visible    |-> TRUE,
     previousId |-> WCharacterId(s, SPECIAL_START_CHAR_CLOCK),
     nextId     |-> WCharacterId(s, SPECIAL_MISSING_CHAR_CLOCK)]

IsSpecialWChar(char) == char.alphaValue \in {SPECIAL_START_CHAR, SPECIAL_END_CHAR}

-----------------------------------------------------------------------------
(* Strings: sequences of characters, position 0 standing for "not there".  *)

NewWString(s) == <<GetNewSpecialStartWChar(s), GetNewSpecialEndWChar(s)>>

GetPos(w, charId) == SelectInSeq(w, LAMBDA char : WCharacterIdEquals(char.id, charId))

ContainsChar(w, charId) == GetPos(w, charId) # 0

\* Mutant: the limiters are never left out.
IsCounted_WithLimiters(char, excludeLimiters) == char.visible

\* The condition of the loop in GetIthVisibleValue.
IsCounted(char, excludeLimiters) ==
    char.visible /\ ~(excludeLimiters /\ IsSpecialWChar(char))

VisiblePositions(w, excludeLimiters) ==
    LET visible[k \in 0..Len(w)] ==
            IF k = 0 THEN <<>>
            ELSE IF IsCounted(w[k], excludeLimiters) THEN Append(visible[k - 1], k)
            ELSE visible[k - 1]
    IN  visible[Len(w)]

\* The position of the occ-th visible character (from 0), or of the last one
\* when there are fewer; 0 stands for the error return.
GetIthVisibleValue(w, occ, excludeLimiters) ==
    LET visible == VisiblePositions(w, excludeLimiters)
    IN  IF occ < 0 \/ visible = <<>> THEN 0 ELSE visible[Min({Len(visible), occ + 1})]

\* What a reader of the document sees.
GetVisibleContent(w) ==
    LET visible == VisiblePositions(w, TRUE)
    IN  [k \in 1..Len(visible) |-> w[visible[k]].alphaValue]

\* The characters between the limiters.
WChars ==
    [id : [siteId : Sites, clock : 0..MaxValue], alphaValue : Contents, visible : BOOLEAN,
     previousId : [siteId : Sites, clock : 0..MaxValue],
     nextId     : [siteId : Sites, clock : 0..MaxValue]]

Limiters ==
    {GetNewSpecialStartWChar(s) : s \in Sites} \cup {GetNewSpecialEndWChar(s) : s \in Sites}

-----------------------------------------------------------------------------
(* Operations.  A WootOperation carries the exported character; a          *)
(* LocalOperation is what an edit command asks for, its id has clock 0.    *)

WootOperation(lid, type, char) ==
    [kind |-> "woot", id |-> lid, type |-> type, char |-> char]

WootOperations ==
    [kind : {"woot"}, id : LogicalIds, type : {"Insertion", "Deletion"}, char : WChars]

LocalOperation(s, type, pos, content) ==
    [kind |-> "local", id |-> [siteId |-> s, clock |-> NewVectorClock],
     type |-> type, pos |-> pos, content |-> content]

-----------------------------------------------------------------------------
(* Integration.                                                            *)

\* Mutant: an off-by-one, the character lands behind its right neighbour.
InsertPosition_AfterNext(w, wchar, prevPos, nextPos) == Min({nextPos + 1, Len(w)})

\* The positions between p and n of the characters whose own neighbours enclose
\* both: the members of L in IntegrateIns other than its first and last.
Enclosing(w, p, n) ==
    {k \in (p + 1)..(n - 1) :
        LET posCPDi == GetPos(w, w[k].previousId)
            posCNDi == GetPos(w, w[k].nextId)
        IN  posCPDi # 0 /\ posCNDi # 0 /\ posCPDi <= p /\ n <= posCNDi}

\* The position before which IntegrateIns puts wchar between the characters at
\* positions p and n, or 0 when its recursion never ends.  When no character is
\* enclosing L is <<wprev, wnext>> again and the call repeats itself for ever.
InsertPosition(w, wchar, prevPos, nextPos) ==
    LET pos[range \in (1..Len(w)) \X (1..Len(w))] ==
            LET p         == range[1]
                n         == range[2]
                enclosing == Enclosing(w, p, n)
                notLess   == {k \in enclosing : ~WCharacterIdLess(w[k].id, wchar.id)}
                right     == Min(notLess \cup {n})
                left      == Max({k \in enclosing : k < right} \cup {p})
            IN  IF n <= p + 1 THEN n
                ELSE IF enclosing = {} THEN 0
                ELSE pos[<<left, right>>]
    IN  pos[<<prevPos, nextPos>>]

\* Mutant: insertion next to the right neighbour, whatever lies in between.
IntegrateIns_BeforeNext(site, wchar, prevPos, nextPos) ==
    [site EXCEPT !.characters = InsertAt(@, nextPos, wchar)]

\* Position 0 is the nil pointer GetById returns for an absent character.
IntegrateIns(site, wchar, prevPos, nextPos) ==
    LET at == InsertPosition(site.characters, wchar, prevPos, nextPos)
    IN  IF prevPos = 0 \/ nextPos = 0
        THEN [site EXCEPT !.fault = "panic"]
        ELSE IF at = 0
        THEN [site EXCEPT !.fault = "spin"]
        ELSE [site EXCEPT !.characters = InsertAt(@, at, wchar)]

IntegrateDel(site, at) ==
    IF at = 0
    THEN [site EXCEPT !.fault = "panic"]
    ELSE [site EXCEPT !.characters[at].visible = FALSE]

-----------------------------------------------------------------------------
(* The site.                                                               *)

Faults == {"none", "panic", "spin"}

\* What tryComputePendings is applied to: values of the site s.
SitesOf(s) ==
    [siteId : {s}, clock : VectorClocks, characters : Seq(WChars \cup Limiters),
     pendingOps : Seq(WootOperations), fault : Faults]

NewSite(s) ==
    [siteId |-> s, clock |-> NewVectorClock, characters |-> NewWString(s),
     pendingOps |-> <<>>, fault |-> "none"]

\* Mutant: the left neighbour is not looked up.
IsExecutable_NextOnly(site, op) == ContainsChar(site.characters, op.char.nextId)

\* && binds tighter than ||: the second disjunct also applies to deletions.
\* GetById(x).IsSpecialWChar() can only hold when Contains(x) does.
IsExecutable(site, op) ==
    \/ op.type = "Deletion" /\ ContainsChar(site.characters, op.char.id)
    \/ /\ ContainsChar(site.characters, op.char.previousId)
       /\ ContainsChar(site.characters, op.char.nextId)

\* Mutant: the clock of the operation is not merged.
ExecuteExtOp_NoClock(site, op) ==
    LET w == site.characters
    IN  IF op.type = "Deletion"
        THEN IntegrateDel(site, GetPos(w, op.char.id))
        ELSE IntegrateIns(site, op.char, GetPos(w, op.char.previousId), GetPos(w, op.char.nextId))

ExecuteExtOp(site, op) ==
    LET w      == site.characters
        merged == [site EXCEPT !.clock = Update(@, op.id.clock)]
    IN  IF op.type = "Deletion"
        THEN IntegrateDel(merged, GetPos(w, op.char.id))
        ELSE IntegrateIns(merged, op.char, GetPos(w, op.char.previousId), GetPos(w, op.char.nextId))

\* One pass finds the first executable operation, at i; the i - 1 operations
\* before it fail again and computeExtOp appends each of them once more.  When
\* none is executable every pass over the growing slice fails: the loop never
\* ends.
RetryPass(site) ==
    LET pending == site.pendingOps
        i       == SelectInSeq(pending, LAMBDA op : IsExecutable(site, op))
        retried == RemoveAt(pending \o SubSeq(pending, 1, i - 1), i)
    IN  IF i = 0
        THEN [site EXCEPT !.fault = "spin"]
        ELSE ExecuteExtOp([site EXCEPT !.pendingOps = retried], pending[i])

tryComputePendings(site) ==
    LET retry[waiting \in SitesOf(site.siteId)] ==
            IF waiting.pendingOps = <<>> \/ waiting.fault # "none" THEN waiting
            ELSE retry[RetryPass(waiting)]
    IN  IF site.pendingOps = <<>> THEN site ELSE retry[site]

\* The results of ComputeOp are [site, op, err].
Computed(site, op) == [site |-> site, op |-> op, err |-> "none"]

Refused(site, op, err) == [site |-> site, op |-> op, err |-> err]

\* Mutant: the waiting operations are not tried again.
ComputeWootOp_NoRetry(site, op) ==
    IF ~IsExecutable(site, op)
    THEN Refused([site EXCEPT !.pendingOps = Append(@, op)], op, "pending")
    ELSE Computed(ExecuteExtOp(site, op), op)

ComputeWootOp(site, op) ==
    IF ~IsExecutable(site, op)
    THEN Refused([site EXCEPT !.pendingOps = Append(@, op)], op, "pending")
    ELSE Computed(tryComputePendings(ExecuteExtOp(site, op)), op)

\* The clock ticks before the position is looked up: a refused insertion
\* leaves a gap in the numbering of the site's operations.
GenerateIns(site, op) ==
    LET w       == site.characters
        ticked  == [site EXCEPT !.clock = Increment(@, site.siteId)]
        lid     == [siteId |-> site.siteId, clock |-> ticked.clock]
        prevPos == GetIthVisibleValue(w, op.pos, FALSE)
        nextPos == GetIthVisibleValue(w, op.pos + 1, FALSE)
        wchar   == [id         |-> WCharacterId(site.siteId, GetLogicalClock(lid)),
                    alphaValue |-> op.content,
                    visible    |-> TRUE,
                    previousId |-> w[prevPos].id,
                    nextId     |-> w[nextPos].id]
    IN  IF prevPos = 0 \/ nextPos = 0
        THEN Refused(ticked, op, "position")
        ELSE Computed(IntegrateIns(ticked, wchar, prevPos, nextPos),
                      WootOperation(lid, "Insertion", wchar))

\* The position is looked up before the tick, and the character is exported
\* after it was hidden.
GenerateDel(site, op) ==
    LET at     == GetIthVisibleValue(site.characters, op.pos, TRUE)
        ticked == [site EXCEPT !.clock = Increment(@, site.siteId)]
        next   == IntegrateDel(ticked, at)
        lid    == [siteId |-> site.siteId, clock |-> ticked.clock]
    IN  IF at = 0
        THEN Refused(site, op, "position")
        ELSE Computed(next, WootOperation(lid, "Deletion", next.characters[at]))

ComputeOp(site, op) ==
    CASE op.kind = "woot"                                -> ComputeWootOp(site, op)
      [] op.kind = "local" /\ op.type = "Insertion"      -> GenerateIns(site, op)
      [] op.kind = "local" /\ op.type = "Deletion"       -> GenerateDel(site, op)

=============================================================================
