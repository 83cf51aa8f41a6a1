----------------------------- MODULE CausalOps -----------------------------
(***************************************************************************)
(* What the logs of the sites promise, whatever the operations do: sets of *)
(* operation ids that grow by edits and by the logs that are pushed.       *)
(*                                                                         *)
(* The module keeps the clocks of cvrdt/clock.go and the ids of            *)
(* cvrdt/operations.go as they are, and forgets the characters and the     *)
(* order of the log.  SortedLogs implements it (property RefinesCausalOps  *)
(* there), and WootCvrdt implements SortedLogs.                            *)
(*                                                                         *)
(* log[s].top is the least clock above every operation of log[s].ops.      *)
(* UpdateState calls clock.Update once for every operation it computes,    *)
(* and the operations it skips are below the clock already: together that  *)
(* is one Update with the top of the payload.                              *)
(***************************************************************************)
EXTENDS LogicalClock, FiniteSets

CONSTANT MaxPushes      \* bound: logs in pushed

VARIABLES
    clock,      \* VectorClock, by site
    log,        \* the operations in WootCvrdt.state, by site, and their top
    pushed      \* the logs sent so far; each may reach a site any number of times

vars == <<clock, log, pushed>>

Logs == [ops : SUBSET LogicalIds, top : VectorClocks]

EmptyLog == [ops |-> {}, top |-> NewVectorClock]

Init ==
    /\ clock = [s \in Sites |-> NewVectorClock]
    /\ log = [s \in Sites |-> EmptyLog]
    /\ pushed = {}

-----------------------------------------------------------------------------

\* The clock below its saturation value: past it a new operation would have
\* the id of an earlier one.
CanTick(s) == clock[s][s] < MaxValue

NewId(s) == [siteId |-> s, clock |-> Increment(clock[s], s)]

\* An edit that succeeds: the clock ticks and stamps the new operation.
Generate(s) ==
    /\ CanTick(s)
    /\ clock' = [clock EXCEPT ![s] = Increment(@, s)]
    /\ log' = [log EXCEPT ![s] = [ops |-> @.ops \cup {NewId(s)}, top |-> NewId(s).clock]]
    /\ UNCHANGED pushed

\* An insertion refused for its position: GenerateIns has already ticked.
Refuse(s) ==
    /\ CanTick(s)
    /\ clock' = [clock EXCEPT ![s] = Increment(@, s)]
    /\ UNCHANGED <<log, pushed>>

\* BroadcastRegistryOverTransport.
Push(s) ==
    /\ Cardinality(pushed \cup {log[s]}) <= MaxPushes
    /\ pushed' = pushed \cup {log[s]}
    /\ UNCHANGED <<clock, log>>

\* The PUSH handler: UpdateState with a log sent earlier.
Deliver(s, l) ==
    /\ clock' = [clock EXCEPT ![s] = Update(@, l.top)]
    /\ log' = [log EXCEPT ![s] = [ops |-> @.ops \cup l.ops, top |-> Update(@.top, l.top)]]
    /\ UNCHANGED pushed

Next ==
    \E s \in Sites :
        \/ Generate(s)
        \/ Refuse(s)
        \/ Push(s)
        \/ \E l \in pushed : Deliver(s, l)

Spec == Init /\ [][Next]_vars

-----------------------------------------------------------------------------
(* Properties.                                                             *)

TypeOK ==
    /\ clock \in [Sites -> VectorClocks]
    /\ log \in [Sites -> Logs]
    /\ pushed \subseteq Logs

AllOps == UNION {log[s].ops : s \in Sites}

\* "LogicalId represents a unique identifier" (operations.go): equals, which
\* looks at the site and its own clock only, identifies an operation.
UniqueIds == \A o, p \in AllOps : equals(o, p) => o = p

\* A site that has an operation has everything that happened before it.
CausalDelivery ==
    \A s \in Sites : \A p \in log[s].ops : \A o \in AllOps :
        HappenedBefore(o, p) => o \in log[s].ops

\* HappenedBefore is causality: the clocks are comparable exactly when the
\* later operation's author had seen the earlier operation, which its entry
\* for the earlier author tells.
ClockTellsCausality ==
    \A o, p \in AllOps :
        HappenedBefore(o, p) <=> (o # p /\ GetLogicalClock(o) <= p.clock[o.siteId])

\* A new operation is above every operation its site has, so a sorted log
\* gets it at its end (cvrdt_exports.go).  Only an edit moves a site's own
\* entry of its clock.
NewOpStep ==
    \A s \in Sites :
        clock'[s][s] # clock[s][s] =>
            \A m \in log'[s].ops \ log[s].ops, o \in log[s].ops : HappenedBefore(o, m)

NewOpIsGreatest == [][NewOpStep]_vars

\* CompareOperation is a strict total order of the operations in the system,
\* which the binary searches of state.go take for granted.
LogOrderIsTotal ==
    LET ops == AllOps
    IN  \A o, p \in ops :
            /\ ~less(o, o)
            /\ o # p => less(o, p) \/ less(p, o)
            /\ less(o, p) => \A q \in ops : less(p, q) => less(o, q)

-----------------------------------------------------------------------------
(* The inductive invariant.                                                *)

Leq(c, d) == \A t \in Sites : c[t] <= d[t]

Circulating == {log[s] : s \in Sites} \cup pushed

\* A site's clock is the top of its log except for its own entry, which may
\* be ahead by the insertions that were refused.
ClockFollowsTop ==
    \A s \in Sites :
        /\ log[s].top[s] <= clock[s][s]
        /\ \A t \in Sites \ {s} : clock[s][t] = log[s].top[t]

\* No log knows more of a site than the site itself has counted.
TopBounded == \A l \in Circulating : \A t \in Sites : l.top[t] <= clock[t][t]

\* The top is above every operation of its log, and what is below the top is
\* in the log.
TopCovers ==
    \A l \in Circulating :
        /\ l.ops \subseteq AllOps
        /\ \A o \in l.ops : Leq(o.clock, l.top)

TopCloses ==
    \A l \in Circulating : \A o \in AllOps :
        GetLogicalClock(o) <= l.top[o.siteId] => o \in l.ops

\* A site never loses an operation of its own, and numbers them from 1.
OwnOpsKept == \A o \in AllOps : o \in log[o.siteId].ops /\ GetLogicalClock(o) >= 1

\* Whoever has seen another operation has seen all it depends on, and the
\* other author had not seen the one who looks back.
SeenIsEarlier ==
    \A o, p \in AllOps :
        o # p /\ GetLogicalClock(o) <= p.clock[o.siteId] =>
            Leq(o.clock, p.clock) /\ o.clock[p.siteId] < GetLogicalClock(p)

IInv ==
    /\ TypeOK
    /\ ClockFollowsTop
    /\ TopBounded
    /\ TopCovers
    /\ TopCloses
    /\ OwnOpsKept
    /\ SeenIsEarlier

=============================================================================
