----------------------------- MODULE WootCvrdt -----------------------------
(***************************************************************************)
(* The replicated document: one WootCvrdt per site (cvrdt/state.go) for    *)
(* one file, edited locally and brought together by PUSH messages          *)
(* (cluster/cvrdtpeer.go).                                                 *)
(*                                                                         *)
(* A push carries the whole log of the sender.  pushed holds every payload *)
(* ever sent: each site handles any of them, any number of times and in    *)
(* any order, or never (a broadcast stops at the first target it cannot    *)
(* reach, a dispatched message runs in a goroutine of its own, and a peer  *)
(* pushes the same log again on every pairing).  A site may also handle    *)
(* its own payload, which changes nothing.                                 *)
(*                                                                         *)
(* UpdateState runs under the mutex of the file registry, so it is one     *)
(* step.  A site whose fault is not "none" has panicked or spins holding   *)
(* that mutex: it takes no further step.                                   *)
(***************************************************************************)
EXTENDS WootSite

CONSTANTS
    MaxOps,         \* bound: edits that succeed, over all sites
    MaxDels,        \* bound: deletions among them
    MaxTicks,       \* bound: value of a site's own clock, by site
    MaxPushes,      \* bound: payloads in pushed
    Overshoot,      \* how far past the end of the text an edit may aim
    SingleOpPushes  \* TRUE: logs of one operation are handed over as well

ASSUME BoundsAssumption ==
    /\ \A n \in {MaxOps, MaxDels, MaxPushes, Overshoot} : n \in Nat
    /\ MaxTicks \in [Sites -> 0..MaxValue]
    /\ SingleOpPushes \in BOOLEAN

VARIABLES
    site,       \* WootCvrdt.site, by site
    state,      \* WootCvrdt.state, by site
    pushed,     \* the payloads sent so far
    pastEnd     \* history: an insertion past the end of a text was accepted

vars == <<site, state, pushed, pastEnd>>

Init ==
    /\ site = [s \in Sites |-> NewSite(s)]
    /\ state = [s \in Sites |-> EmptyState]
    /\ pushed = {}
    /\ pastEnd = FALSE

-----------------------------------------------------------------------------
(* WootCvrdt.UpdateState.                                                  *)

\* The loop of UpdateState: what ComputeOp returned for the k-th operation of
\* the payload.  Operations the log contains are passed over, the error of a
\* refused edit ends the loop.
ComputeNewOps(s, ops) ==
    LET run[k \in 0..Len(ops)] ==
            IF k = 0 THEN [site |-> site[s], err |-> "contained"]
            ELSE LET before == run[k - 1]
                 IN  IF before.err = "position" \/ before.site.fault # "none" THEN before
                     ELSE IF contains(state[s], ops[k]) THEN [before EXCEPT !.err = "contained"]
                     ELSE ComputeOp(before.site, ops[k])
    IN  run

\* newState: the operations that were computed, the pending ones too.
NewState(results) ==
    LET new[k \in 0..Len(results)] ==
            IF k = 0 THEN EmptyState
            ELSE IF results[k].err \in {"none", "pending"} THEN insert(new[k - 1], results[k].op)
            ELSE new[k - 1]
    IN  new[Len(results)]

\* A refused or faulty update leaves the log as it was.
UpdateState(s, ops) ==
    \E run \in {ComputeNewOps(s, ops)} :
        LET last == run[Len(ops)]
        IN  /\ site' = [site EXCEPT ![s] = last.site]
            /\ state' = [state EXCEPT ![s] =
                            IF last.err = "position" \/ last.site.fault # "none"
                            THEN @
                            ELSE Merge(@, NewState([k \in 1..Len(ops) |-> run[k]]))]

-----------------------------------------------------------------------------
(* Actions.                                                                *)

Alive(s) == site[s].fault = "none"

OpIds == UNION {{op.id : op \in ToSet(state[s])} : s \in Sites}

DelIds == {op.id : op \in {o \in UNION {ToSet(state[s]) : s \in Sites} : o.type = "Deletion"}}

WithinBounds(s) ==
    /\ Cardinality(OpIds) < MaxOps
    /\ site[s].clock[s] < MaxTicks[s]

TextLength(s) == Len(GetVisibleContent(site[s].characters))

\* edit insert <file> pos content.  A negative position is refused, a position
\* past the end is not.
EditInsert(s) ==
    /\ Alive(s)
    /\ WithinBounds(s)
    /\ \E pos \in -1..(TextLength(s) + Overshoot), content \in Contents :
          /\ UpdateState(s, <<LocalOperation(s, "Insertion", pos, content)>>)
          /\ pastEnd' = (pastEnd \/ pos > TextLength(s))
    /\ UNCHANGED pushed

\* edit delete <file> pos.  A position past the end deletes the last character.
EditDelete(s) ==
    /\ Alive(s)
    /\ WithinBounds(s)
    /\ Cardinality(DelIds) < MaxDels
    /\ \E pos \in -1..TextLength(s) :
          UpdateState(s, <<LocalOperation(s, "Deletion", pos, "")>>)
    /\ UNCHANGED <<pushed, pastEnd>>

\* BroadcastRegistryOverTransport: a clone of the log is sent.
Push(s) ==
    /\ Alive(s)
    /\ state[s] # EmptyState
    /\ Cardinality(pushed \cup {state[s]}) <= MaxPushes
    /\ pushed' = pushed \cup {state[s]}
    /\ UNCHANGED <<site, state, pastEnd>>

\* The interface of a Cvrdt takes any log: one operation of this site alone.
PushOne(s) ==
    /\ SingleOpPushes
    /\ Alive(s)
    /\ \E op \in ToSet(state[s]) :
          /\ Cardinality(pushed \cup {<<op>>}) <= MaxPushes
          /\ pushed' = pushed \cup {GetNewStateFromOp(<<op>>)}
    /\ UNCHANGED <<site, state, pastEnd>>

\* The PUSH handler: the received log is merged.
Deliver(s) ==
    /\ Alive(s)
    /\ \E ops \in pushed : UpdateState(s, ops)
    /\ UNCHANGED <<pushed, pastEnd>>

Next ==
    \E s \in Sites : EditInsert(s) \/ EditDelete(s) \/ Push(s) \/ PushOne(s) \/ Deliver(s)

Spec == Init /\ [][Next]_vars

-----------------------------------------------------------------------------
(* Properties.                                                             *)

\* The characters between the limiters, hidden ones included.
Text(s) == SubSeq(site[s].characters, 2, Len(site[s].characters) - 1)

\* Every site keeps its limiters around the characters, every log is made of
\* operations of known sites, and no clock leaves its bound.
TypeOK ==
    /\ \A s \in Sites :
          /\ site[s].siteId = s
          /\ site[s].clock \in VectorClocks
          /\ site[s].characters[1] = GetNewSpecialStartWChar(s)
          /\ Last(site[s].characters) = GetNewSpecialEndWChar(s)
          /\ ToSet(Text(s)) \subseteq WChars
          /\ ToSet(site[s].pendingOps) \subseteq WootOperations
          /\ site[s].fault \in Faults
          /\ ToSet(state[s]) \subseteq WootOperations
    /\ \A ops \in pushed : ToSet(ops) \subseteq WootOperations
    /\ pastEnd \in BOOLEAN

Ids(ops) == {op.id : op \in ToSet(ops)}

Settled(s) == Alive(s) /\ site[s].pendingOps = <<>>

\* Strong convergence (WOOT integration, site.go): two sites that executed the
\* same operations, in whatever order the pushes brought them, hold the same
\* characters in the same order, hidden ones included.
StrongConvergence ==
    \A s, t \in Sites :
        Settled(s) /\ Settled(t) /\ Ids(state[s]) = Ids(state[t]) => Text(s) = Text(t)

\* No handler or edit panics, loops or recurses for ever (site.go).
NoFault == \A s \in Sites : Alive(s)

\* Logs that bring an operation before the ones it needs hold its site up, and do
\* nothing else: a site that stops for good is in the retry loop, over operations
\* none of which can be executed (tryComputePendings).
StopsOnlyWaiting ==
    \A s \in Sites : ~Alive(s) =>
        /\ site[s].fault = "spin"
        /\ site[s].pendingOps # <<>>
        /\ \A i \in DOMAIN site[s].pendingOps : ~IsExecutable(site[s], site[s].pendingOps[i])

\* An operation that waits cannot be executed yet: whatever enables one of the
\* pendingOps also executes it (ComputeOp, tryComputePendings).
NothingOverdue ==
    \A s \in Sites : Alive(s) =>
        \A i \in DOMAIN site[s].pendingOps : ~IsExecutable(site[s], site[s].pendingOps[i])

\* Logs are pushed whole, so no operation arrives before the ones it depends
\* on and pendingOps is never needed (UpdateState).
NothingPending == \A s \in Sites : site[s].pendingOps = <<>>

\* The string of a site is what its log says: exactly the characters of the
\* insertions it holds, each once, and hidden exactly when a deletion of it is
\* in the log, however often and in whatever order payloads were handled.
TextMatchesLog ==
    \A s \in Sites : Settled(s) =>
        LET ins == {op.char.id : op \in {o \in ToSet(state[s]) : o.type = "Insertion"}}
            del == {op.char.id : op \in {o \in ToSet(state[s]) : o.type = "Deletion"}}
        IN  /\ {Text(s)[k].id : k \in DOMAIN Text(s)} = ins
            /\ Len(Text(s)) = Cardinality(ins)
            /\ \A k \in DOMAIN Text(s) : Text(s)[k].visible <=> Text(s)[k].id \notin del

\* Intention: at every site a character stays between the two characters its
\* author saw around it (IntegrateIns).
IntentionPreserved ==
    \A s \in Sites : LET w == site[s].characters IN
        \A k \in 2..(Len(w) - 1) : GetPos(w, w[k].previousId) < k /\ k < GetPos(w, w[k].nextId)

\* No site has executed an insertion twice.  Characters are never removed, so
\* this has always been so (contains).
NoRepeats ==
    \A s \in Sites : IsInjective([k \in DOMAIN Text(s) |-> Text(s)[k].id])

\* Strong convergence of any number of sites, up to the first insertion that is
\* executed twice: no order of pushes and no cycle of less makes sites with the
\* same operations differ (IntegrateIns).
ConvergeUnlessRepeated == NoRepeats => StrongConvergence

\* Intention of any number of sites, up to the first insertion that is executed
\* twice (IntegrateIns).
IntendedUnlessRepeated == NoRepeats => IntentionPreserved

-----------------------------------------------------------------------------
(* The logs implement SortedLogs.                                          *)

OnlyIds(ops) == [k \in DOMAIN ops |-> [id |-> ops[k].id]]

Logs == INSTANCE SortedLogs WITH
    clock  <- [s \in Sites |-> site[s].clock],
    state  <- [s \in Sites |-> OnlyIds(state[s])],
    pushed <- {OnlyIds(ops) : ops \in pushed}

\* As long as logs are pushed whole, every edit, push and merge is one of
\* SortedLogs (UpdateState): the characters decide nothing about the logs and
\* the clocks, no operation is refused, and none waits.
RefinesSortedLogs == Logs!Spec

=============================================================================
