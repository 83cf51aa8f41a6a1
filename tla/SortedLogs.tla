----------------------------- MODULE SortedLogs -----------------------------
(***************************************************************************)
(* The replicated logs as the sites keep them: slices of operations sorted *)
(* by CompareOperation, searched and merged by binary search               *)
(* (cvrdt/state.go), with the clocks that stamp the operations.            *)
(*                                                                         *)
(* The module stands between WootCvrdt, which adds the characters and      *)
(* implements it (property RefinesSortedLogs there), and CausalOps, where  *)
(* a log is the set of its operations.  An operation is its LogicalId.     *)
(***************************************************************************)
EXTENDS CvRDTState

CONSTANT MaxPushes      \* bound: logs in pushed

ASSUME MaxPushesAssumption == MaxPushes \in Nat

VARIABLES
    clock,      \* Site.clock, by site
    state,      \* WootCvrdt.state, by site
    pushed      \* the logs sent so far; each may reach a site any number of times

vars == <<clock, state, pushed>>

Init ==
    /\ clock = [s \in Sites |-> NewVectorClock]
    /\ state = [s \in Sites |-> EmptyState]
    /\ pushed = {}

-----------------------------------------------------------------------------

Ids(ops) == {ops[k].id : k \in DOMAIN ops}

\* The least clock above every operation of ops.
Top(ops) == [t \in Sites |-> Max({0} \cup {lid.clock[t] : lid \in Ids(ops)})]

\* newState of UpdateState: the operations of the payload that the log lacks.
NewState(w, ops) ==
    LET new[k \in 0..Len(ops)] ==
            IF k = 0 THEN EmptyState
            ELSE IF contains(w, ops[k]) THEN new[k - 1] ELSE insert(new[k - 1], ops[k])
    IN  new[Len(ops)]

NewOperation(s) == [id |-> [siteId |-> s, clock |-> Increment(clock[s], s)]]

\* The clock below its saturation value: past it a new operation would have
\* the id of an earlier one.
CanTick(s) == clock[s][s] < MaxValue

\* Mutant: the tick is made on a copy of the clock.
Generate_TicksACopy(s) ==
    /\ CanTick(s)
    /\ state' = [state EXCEPT ![s] = Merge(@, insert(EmptyState, NewOperation(s)))]
    /\ UNCHANGED <<clock, pushed>>

\* An edit that succeeds: the clock ticks and stamps the new operation.
Generate(s) ==
    /\ CanTick(s)
    /\ clock' = [clock EXCEPT ![s] = Increment(@, s)]
    /\ state' = [state EXCEPT ![s] = Merge(@, insert(EmptyState, NewOperation(s)))]
    /\ UNCHANGED pushed

\* An insertion refused for its position: GenerateIns has already ticked.
Refuse(s) ==
    /\ CanTick(s)
    /\ clock' = [clock EXCEPT ![s] = Increment(@, s)]
    /\ UNCHANGED <<state, pushed>>

\* BroadcastRegistryOverTransport: a clone of the log is sent.
Push(s) ==
    /\ Cardinality(pushed \cup {state[s]}) <= MaxPushes
    /\ pushed' = pushed \cup {state[s]}
    /\ UNCHANGED <<clock, state>>

\* Mutant: the payload is merged, the clock is not.
Deliver_ForgetsClock(s, ops) ==
    /\ state' = [state EXCEPT ![s] = Merge(@, NewState(@, ops))]
    /\ UNCHANGED <<clock, pushed>>

\* Mutant: only the latest operations of the payload are looked at.
Deliver_LatestOnly(s, ops) ==
    LET latest == SelectSeq(ops, LAMBDA o : ~\E p \in ToSet(ops) : HappenedBefore(o.id, p.id))
    IN  /\ clock' = [clock EXCEPT ![s] = Update(@, Top(NewState(state[s], latest)))]
        /\ state' = [state EXCEPT ![s] = Merge(@, NewState(@, latest))]
        /\ UNCHANGED pushed

\* The PUSH handler, UpdateState with a log sent earlier: every operation the
\* log lacks is executed, which merges its clock, and then the log takes them.
Deliver(s, ops) ==
    /\ clock' = [clock EXCEPT ![s] = Update(@, Top(NewState(state[s], ops)))]
    /\ state' = [state EXCEPT ![s] = Merge(@, NewState(@, ops))]
    /\ UNCHANGED pushed

Next ==
    \E s \in Sites :
        \/ Generate(s)
        \/ Refuse(s)
        \/ Push(s)
        \/ \E ops \in pushed : Deliver(s, ops)

Spec == Init /\ [][Next]_vars

-----------------------------------------------------------------------------
(* Properties.                                                             *)

\* The log is a value of the set of operations, not of the order they came in:
\* insertion by binary search puts the same operations in the same order
\* everywhere (state.go, insert and Merge).
SameOpsSameLog ==
    \A s, t \in Sites : Ids(state[s]) = Ids(state[t]) => state[s] = state[t]

\* No operation stands in a log before one that happened before it: a receiver
\* that goes through the log from the left meets causes before effects
\* (UpdateState).
LogIsCausal ==
    \A s \in Sites : \A i, j \in DOMAIN state[s] :
        HappenedBefore(state[s][i].id, state[s][j].id) => i < j

\* "new operations will always be appended at end" (cvrdt_exports.go): after a
\* local edit the last operation of the log is the one just made, which is what
\* InsertCRDTOpInRepo reports to the user.
NewEditStep ==
    \A s \in Sites :
        clock'[s][s] # clock[s][s] /\ state'[s] # state[s] =>
            state'[s][Len(state'[s])].id = [siteId |-> s, clock |-> clock'[s]]

NewEditIsLast == [][NewEditStep]_vars

-----------------------------------------------------------------------------
(* The sorted logs implement the sets of CausalOps.                        *)

AsLog(ops) == [ops |-> Ids(ops), top |-> Top(ops)]

Causal == INSTANCE CausalOps WITH
    log    <- [s \in Sites |-> AsLog(state[s])],
    pushed <- {AsLog(ops) : ops \in pushed}

\* Searching, inserting and merging sorted slices adds exactly the operations
\* that are sent, once each, and the clocks carry exactly the causal history:
\* every step is one of CausalOps (state.go).
RefinesCausalOps == Causal!Spec

\* CompareOperation is a strict total order of the operations in the system,
\* which the binary searches of state.go take for granted.
LogOrderIsTotal == Causal!LogOrderIsTotal

\* "LogicalId represents a unique identifier" (operations.go): the site and its
\* own clock, which equals looks at, identify an operation of the logs.
UniqueIds == Causal!UniqueIds

\* A site that has an operation has everything that happened before it, although
\* UpdateState skips what the log has already.
CausalDelivery == Causal!CausalDelivery

\* HappenedBefore is causality: an operation is before another exactly when the
\* author of the other had it (operations.go, clock.Update in UpdateState).
ClockTellsCausality == Causal!ClockTellsCausality

\* The inductive invariant that the proofs of CausalOps rest on.
IInv == Causal!IInv

=============================================================================
