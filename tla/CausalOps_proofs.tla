-------------------------- MODULE CausalOps_proofs --------------------------
(***************************************************************************)
(* Proofs, for any set of sites and any number of operations, of what the  *)
(* runs of CausalOps check on small instances.                             *)
(***************************************************************************)
EXTENDS CausalOps, TLAPS

USE SitesAssumption, MaxValueAssumption

-----------------------------------------------------------------------------
(* Clocks.                                                                 *)

\* Increment yields a clock, ticks the entry of the site below saturation and
\* leaves the other entries alone.
LEMMA IncrementClock ==
    ASSUME NEW vc \in VectorClocks, NEW s \in Sites
    PROVE  /\ Increment(vc, s) \in VectorClocks
           /\ vc[s] < MaxValue => Increment(vc, s)[s] = vc[s] + 1
           /\ \A t \in Sites \ {s} : Increment(vc, s)[t] = vc[t]
           /\ Leq(vc, Increment(vc, s))
BY DEF VectorClocks, Increment, Leq

\* Update yields the pointwise maximum.
LEMMA UpdateClock ==
    ASSUME NEW vc \in VectorClocks, NEW rv \in VectorClocks
    PROVE  /\ Update(vc, rv) \in VectorClocks
           /\ \A t \in Sites : \/ Update(vc, rv)[t] = vc[t] /\ rv[t] <= vc[t]
                               \/ Update(vc, rv)[t] = rv[t] /\ vc[t] <= rv[t]
           /\ Leq(vc, Update(vc, rv))
           /\ Leq(rv, Update(vc, rv))
BY DEF VectorClocks, Update, Leq

\* Every clock is below itself.
LEMMA LeqReflexive ==
    ASSUME NEW c \in VectorClocks
    PROVE  Leq(c, c)
<1> SUFFICES ASSUME NEW t \in Sites PROVE c[t] <= c[t]
    BY DEF Leq
<1>1. c[t] \in Nat
    BY DEF VectorClocks
<1> QED
    BY <1>1

\* Leq is transitive: clocks compare entry by entry.
LEMMA LeqTransitive ==
    ASSUME NEW c \in VectorClocks, NEW d \in VectorClocks, NEW e \in VectorClocks,
           Leq(c, d), Leq(d, e)
    PROVE  Leq(c, e)
<1> SUFFICES ASSUME NEW t \in Sites PROVE c[t] <= e[t]
    BY DEF Leq
<1>1. c[t] \in Nat /\ d[t] \in Nat /\ e[t] \in Nat
    BY DEF VectorClocks
<1>2. c[t] <= d[t] /\ d[t] <= e[t]
    BY DEF Leq
<1> QED
    BY <1>1, <1>2

\* The parts of an operation id have their types (LogicalId).
LEMMA OwnClock ==
    ASSUME NEW o \in LogicalIds
    PROVE  o.siteId \in Sites /\ o.clock \in VectorClocks /\ GetLogicalClock(o) \in Nat
BY DEF LogicalIds, VectorClocks, GetLogicalClock

\* HappenedBefore is a strict partial order (operations.go).
LEMMA HappenedBeforeIsStrictOrder ==
    ASSUME NEW o \in LogicalIds, NEW p \in LogicalIds, NEW q \in LogicalIds
    PROVE  /\ ~HappenedBefore(o, o)
           /\ HappenedBefore(o, p) => ~HappenedBefore(p, o)
           /\ HappenedBefore(o, p) /\ HappenedBefore(p, q) => HappenedBefore(o, q)
BY DEF LogicalIds, VectorClocks, HappenedBefore

-----------------------------------------------------------------------------
(* Type correctness.                                                       *)

\* The id a new operation gets is an id of its site, one above the site's
\* clock in that entry and equal to it in the others.
LEMMA NewIdFacts ==
    ASSUME TypeOK, NEW s \in Sites, CanTick(s)
    PROVE  /\ NewId(s) \in LogicalIds
           /\ NewId(s).siteId = s
           /\ GetLogicalClock(NewId(s)) = clock[s][s] + 1
           /\ \A t \in Sites \ {s} : NewId(s).clock[t] = clock[s][t]
           /\ Leq(clock[s], NewId(s).clock)
           /\ NewId(s).clock = Increment(clock[s], s)
BY IncrementClock DEF TypeOK, CanTick, NewId, LogicalIds, GetLogicalClock

\* Every log that circulates is well typed, and so is its top.
LEMMA CirculatingTop ==
    ASSUME TypeOK, NEW l \in Circulating, NEW t \in Sites
    PROVE  l \in Logs /\ l.top[t] \in Nat
<1>1. l \in Logs
    BY DEF TypeOK, Circulating
<1> QED
    BY <1>1 DEF Logs, VectorClocks

\* The initial clocks and logs are well typed (NewSite).
LEMMA TypeInit == Init => TypeOK
BY DEF Init, TypeOK, EmptyLog, Logs, NewVectorClock, VectorClocks, MinValue

\* Every action preserves the types.
LEMMA TypeNext == TypeOK /\ [Next]_vars => TypeOK'
<1> SUFFICES ASSUME TypeOK, [Next]_vars PROVE TypeOK'
    OBVIOUS
<1>1. ASSUME NEW s \in Sites, Generate(s) PROVE TypeOK'
    <2>1. NewId(s) \in LogicalIds /\ Increment(clock[s], s) \in VectorClocks
          /\ NewId(s).clock \in VectorClocks
        BY <1>1, NewIdFacts, IncrementClock DEF Generate, TypeOK, LogicalIds
    <2>2. [ops |-> log[s].ops \cup {NewId(s)}, top |-> NewId(s).clock] \in Logs
        BY <2>1 DEF TypeOK, Logs
    <2> QED
        BY <1>1, <2>1, <2>2 DEF Generate, TypeOK
<1>2. ASSUME NEW s \in Sites, Refuse(s) PROVE TypeOK'
    BY <1>2, IncrementClock DEF Refuse, TypeOK
<1>3. ASSUME NEW s \in Sites, Push(s) PROVE TypeOK'
    BY <1>3 DEF Push, TypeOK
<1>4. ASSUME NEW s \in Sites, NEW l \in pushed, Deliver(s, l) PROVE TypeOK'
    <2>1. l \in Logs /\ log[s] \in Logs /\ l.top \in VectorClocks /\ log[s].top \in VectorClocks
        BY DEF TypeOK, Logs
    <2>2. Update(clock[s], l.top) \in VectorClocks /\ Update(log[s].top, l.top) \in VectorClocks
        BY <2>1, UpdateClock DEF TypeOK
    <2>3. [ops |-> log[s].ops \cup l.ops, top |-> Update(log[s].top, l.top)] \in Logs
        BY <2>1, <2>2 DEF Logs
    <2> QED
        BY <1>4, <2>2, <2>3 DEF Deliver, TypeOK
<1>5. CASE UNCHANGED vars
    BY <1>5 DEF vars, TypeOK
<1> QED
    BY <1>1, <1>2, <1>3, <1>4, <1>5 DEF Next

\* The clocks and the logs of every reachable state are well typed.
THEOREM TypeCorrect == Spec => []TypeOK
BY TypeInit, TypeNext, PTL DEF Spec

-----------------------------------------------------------------------------
(* The inductive invariant.                                                *)

\* The empty logs and zero clocks satisfy the invariant.
LEMMA IInvInit == Init => IInv
<1> SUFFICES ASSUME Init PROVE IInv
    OBVIOUS
<1>1. TypeOK
    BY TypeInit
<1>2. AllOps = {}
    BY DEF Init, AllOps, EmptyLog
<1>3. \A l \in Circulating : l = EmptyLog
    BY DEF Init, Circulating
<1>4. ClockFollowsTop /\ TopBounded
    BY <1>3 DEF Init, EmptyLog, NewVectorClock, MinValue, ClockFollowsTop, TopBounded
<1>5. TopCovers /\ TopCloses
    BY <1>2, <1>3 DEF EmptyLog, TopCovers, TopCloses
<1>6. OwnOpsKept /\ SeenIsEarlier
    BY <1>2 DEF OwnOpsKept, SeenIsEarlier
<1> QED
    BY <1>1, <1>4, <1>5, <1>6 DEF IInv

\* Under the invariant a site knows every operation its clock covers, and its
\* clock is above each of them.
LEMMA ClockCloses ==
    ASSUME IInv, NEW s \in Sites, NEW o \in AllOps,
           o.siteId = s \/ GetLogicalClock(o) <= clock[s][o.siteId]
    PROVE  o \in log[s].ops
<1>1. o \in LogicalIds
    BY DEF IInv, TypeOK, Logs, AllOps
<1>2. CASE o.siteId = s
    BY <1>2 DEF IInv, OwnOpsKept
<1>3. CASE o.siteId # s
    <2>1. clock[s][o.siteId] = log[s].top[o.siteId]
        BY <1>1, <1>3, OwnClock DEF IInv, ClockFollowsTop
    <2>2. log[s] \in Circulating
        BY DEF Circulating
    <2> QED
        BY <1>3, <2>1, <2>2 DEF IInv, TopCloses
<1> QED
    BY <1>2, <1>3

\* The other half: a site's clock is above every operation of its log.
LEMMA ClockCovers ==
    ASSUME IInv, NEW s \in Sites, NEW o \in log[s].ops
    PROVE  Leq(o.clock, clock[s])
<1>1. o \in LogicalIds /\ log[s].top \in VectorClocks /\ clock[s] \in VectorClocks
    BY DEF IInv, TypeOK, Logs
<1>2. Leq(o.clock, log[s].top)
    BY DEF IInv, TopCovers, Circulating
<1>3. Leq(log[s].top, clock[s])
    BY <1>1 DEF IInv, ClockFollowsTop, Leq, VectorClocks
<1> QED
    BY <1>1, <1>2, <1>3, OwnClock, LeqTransitive

\* Nobody has seen more of a site than the site has counted.
LEMMA OpsBounded ==
    ASSUME IInv, NEW o \in AllOps, NEW t \in Sites
    PROVE  o.clock[t] <= clock[t][t]
<1>1. PICK s \in Sites : o \in log[s].ops
    BY DEF AllOps
<1>2. log[s] \in Circulating
    BY DEF Circulating
<1>3. o.clock[t] <= log[s].top[t] /\ log[s].top[t] <= clock[t][t]
    BY <1>1, <1>2 DEF IInv, TopCovers, TopBounded, Leq
<1>4. o.clock[t] \in Nat /\ log[s].top[t] \in Nat /\ clock[t][t] \in Nat
    BY <1>1 DEF IInv, TypeOK, Logs, LogicalIds, VectorClocks
<1> QED
    BY <1>3, <1>4

-----------------------------------------------------------------------------
(* One lemma per action.                                                   *)

\* An edit preserves the invariant: its id is new to everyone.
LEMMA GenerateStep ==
    ASSUME IInv, NEW s \in Sites, Generate(s)
    PROVE  IInv'
<1> DEFINE n == NewId(s)
<1>1. TypeOK /\ TypeOK'
    BY TypeNext DEF IInv, Next
<1>2. /\ n \in LogicalIds /\ n.siteId = s /\ GetLogicalClock(n) = clock[s][s] + 1
      /\ \A t \in Sites \ {s} : n.clock[t] = clock[s][t]
      /\ Leq(clock[s], n.clock) /\ n.clock = Increment(clock[s], s)
    BY <1>1, NewIdFacts DEF Generate
<1>3. /\ clock' = [clock EXCEPT ![s] = n.clock]
      /\ log' = [log EXCEPT ![s] = [ops |-> log[s].ops \cup {n}, top |-> n.clock]]
      /\ pushed' = pushed
    BY <1>2 DEF Generate
<1>4. AllOps' = AllOps \cup {n}
    BY <1>1, <1>3 DEF AllOps, TypeOK
<1>5. /\ n.clock[s] = clock[s][s] + 1 /\ clock[s][s] \in Nat
      /\ \A t \in Sites : clock[t][t] \in Nat /\ clock'[t][t] \in Nat /\ clock[t][t] <= clock'[t][t]
    BY <1>1, <1>2, <1>3 DEF GetLogicalClock, TypeOK, VectorClocks
<1>6. Circulating' \subseteq Circulating \cup {log'[s]}
    BY <1>1, <1>3 DEF Circulating, TypeOK
<1>7. \A o \in AllOps : o \in LogicalIds
    BY <1>1 DEF AllOps, TypeOK, Logs
<1>8. log'[s].ops = log[s].ops \cup {n} /\ log'[s].top = n.clock
    BY <1>1, <1>3 DEF TypeOK
<1>9. \A o \in AllOps' : GetLogicalClock(o) <= n.clock[o.siteId] => o \in log'[s].ops
    <2> SUFFICES ASSUME NEW o \in AllOps, GetLogicalClock(o) <= n.clock[o.siteId], o # n
                 PROVE  o \in log[s].ops
        BY <1>4, <1>8
    <2>1. o.siteId = s \/ GetLogicalClock(o) <= clock[s][o.siteId]
        BY <1>2, <1>7, OwnClock
    <2> QED
        BY <2>1, ClockCloses
<1>10. \A o \in log'[s].ops : Leq(o.clock, n.clock)
    <2>1. Leq(n.clock, n.clock)
        BY <1>2, OwnClock, LeqReflexive
    <2>2. ASSUME NEW o \in log[s].ops PROVE Leq(o.clock, n.clock)
        <3>1. Leq(o.clock, clock[s])
            BY ClockCovers
        <3>2. o \in LogicalIds /\ clock[s] \in VectorClocks
            BY <1>1 DEF TypeOK, Logs
        <3> QED
            BY <1>2, <3>1, <3>2, OwnClock, LeqTransitive
    <2> QED
        BY <1>8, <2>1, <2>2
<1>11. ClockFollowsTop'
    <2>1. log'[s].top[s] <= clock'[s][s] /\ \A t \in Sites \ {s} : clock'[s][t] = log'[s].top[t]
        <3>1. clock'[s] = n.clock
            BY <1>1, <1>3 DEF TypeOK
        <3> QED
            BY <1>2, <1>5, <1>8, <3>1
    <2>2. \A u \in Sites \ {s} : clock'[u] = clock[u] /\ log'[u] = log[u]
        BY <1>1, <1>3 DEF TypeOK
    <2> QED
        BY <2>1, <2>2 DEF IInv, ClockFollowsTop
<1>12. TopBounded'
    <2> SUFFICES ASSUME NEW l \in Circulating', NEW t \in Sites PROVE l.top[t] <= clock'[t][t]
        BY DEF TopBounded
    <2>1. CASE l \in Circulating
        <3>1. l.top[t] <= clock[t][t]
            BY <2>1 DEF IInv, TopBounded
        <3>2. l.top[t] \in Nat
            BY <1>1, <2>1, CirculatingTop
        <3> QED
            BY <1>5, <3>1, <3>2
    <2>2. CASE l = log'[s]
        <3>1. CASE t = s
            BY <1>1, <1>3, <1>5, <1>8, <2>2, <3>1 DEF TypeOK
        <3>2. CASE t # s
            <4>1. l.top[t] = clock[s][t] /\ clock[s][t] = log[s].top[t]
                BY <1>2, <1>8, <2>2, <3>2 DEF IInv, ClockFollowsTop
            <4>2. log[s].top[t] <= clock[t][t]
                BY DEF IInv, TopBounded, Circulating
            <4>3. clock'[t][t] = clock[t][t]
                BY <1>1, <1>3, <3>2 DEF TypeOK
            <4> QED
                BY <4>1, <4>2, <4>3
        <3> QED
            BY <3>1, <3>2
    <2> QED
        BY <1>6, <2>1, <2>2
<1>13. TopCovers'
    BY <1>4, <1>6, <1>8, <1>10 DEF IInv, TopCovers, AllOps
<1>14. TopCloses'
    <2> SUFFICES ASSUME NEW l \in Circulating', NEW o \in AllOps',
                        GetLogicalClock(o) <= l.top[o.siteId]
                 PROVE  o \in l.ops
        BY DEF TopCloses
    <2>1. CASE l = log'[s]
        BY <1>8, <1>9, <2>1
    <2>2. CASE l \in Circulating /\ o \in AllOps
        BY <2>2 DEF IInv, TopCloses
    <2>3. CASE l \in Circulating /\ o = n
        <3>1. l.top[s] <= clock[s][s]
            BY <2>3 DEF IInv, TopBounded
        <3>2. l.top[s] \in Nat
            BY <1>1, <2>3, CirculatingTop
        <3> QED
            BY <1>2, <1>5, <2>3, <3>1, <3>2
    <2> QED
        BY <1>4, <1>6, <2>1, <2>2, <2>3
<1>15. OwnOpsKept'
    <2>1. GetLogicalClock(n) >= 1 /\ n \in log'[n.siteId].ops
        BY <1>2, <1>5, <1>8
    <2>2. \A u \in Sites : log[u].ops \subseteq log'[u].ops
        BY <1>1, <1>3 DEF TypeOK
    <2>3. ASSUME NEW o \in AllOps PROVE o \in log'[o.siteId].ops /\ GetLogicalClock(o) >= 1
        BY <1>7, <2>2, OwnClock DEF IInv, OwnOpsKept
    <2> QED
        BY <1>4, <2>1, <2>3 DEF OwnOpsKept
<1>16. SeenIsEarlier'
    <2> SUFFICES ASSUME NEW o \in AllOps', NEW p \in AllOps', o # p,
                        GetLogicalClock(o) <= p.clock[o.siteId]
                 PROVE  Leq(o.clock, p.clock) /\ o.clock[p.siteId] < GetLogicalClock(p)
        BY DEF SeenIsEarlier
    <2>1. CASE p = n /\ o \in AllOps
        <3>1. Leq(o.clock, p.clock)
            BY <1>9, <1>10, <2>1
        <3>2. o.clock[s] <= clock[s][s] /\ o.clock[s] \in Nat
            BY <1>7, <2>1, OpsBounded DEF LogicalIds, VectorClocks
        <3> QED
            BY <1>2, <1>5, <2>1, <3>1, <3>2
    <2>2. CASE o = n /\ p \in AllOps
        <3>1. p.clock[s] <= clock[s][s] /\ p.clock[s] \in Nat
            BY <1>7, <2>2, OpsBounded DEF LogicalIds, VectorClocks
        <3> QED
            BY <1>2, <1>5, <2>2, <3>1
    <2>3. CASE o \in AllOps /\ p \in AllOps
        BY <2>3 DEF IInv, SeenIsEarlier
    <2> QED
        BY <1>4, <2>1, <2>2, <2>3
<1> QED
    BY <1>1, <1>11, <1>12, <1>13, <1>14, <1>15, <1>16 DEF IInv

\* A refused insertion only moves the site's own entry ahead of its top.
LEMMA RefuseStep ==
    ASSUME IInv, NEW s \in Sites, Refuse(s)
    PROVE  IInv'
<1>1. TypeOK /\ TypeOK'
    BY TypeNext DEF IInv, Next
<1>2. /\ clock' = [clock EXCEPT ![s] = Increment(clock[s], s)]
      /\ log' = log /\ AllOps' = AllOps /\ Circulating' = Circulating
    BY DEF Refuse, AllOps, Circulating
<1>3. /\ clock'[s][s] = clock[s][s] + 1
      /\ \A t \in Sites \ {s} : clock'[s][t] = clock[s][t]
      /\ \A u \in Sites \ {s} : clock'[u] = clock[u]
    BY <1>1, <1>2, IncrementClock DEF Refuse, CanTick, TypeOK
<1>4. \A t \in Sites : clock[t][t] \in Nat /\ clock[t][t] <= clock'[t][t] /\ clock'[t][t] \in Nat
    BY <1>1, <1>3 DEF TypeOK, VectorClocks
<1>5. ClockFollowsTop'
    <2>1. log[s].top[s] \in Nat /\ log[s].top[s] <= clock[s][s]
        BY <1>1, CirculatingTop DEF IInv, ClockFollowsTop, Circulating
    <2>2. log'[s].top[s] <= clock'[s][s]
        <3>1. log'[s] = log[s]
            BY <1>2
        <3> QED
            BY <1>4, <2>1, <3>1
    <2>3. \A u \in Sites : \A t \in Sites \ {u} : clock'[u][t] = clock[u][t]
        BY <1>3
    <2>4. \A u \in Sites \ {s} : log'[u].top[u] <= clock'[u][u]
        BY <1>2, <1>3 DEF IInv, ClockFollowsTop
    <2> QED
        BY <1>2, <2>2, <2>3, <2>4 DEF IInv, ClockFollowsTop
<1>6. TopBounded'
    <2> SUFFICES ASSUME NEW l \in Circulating, NEW t \in Sites PROVE l.top[t] <= clock'[t][t]
        BY <1>2 DEF TopBounded
    <2>1. l.top[t] <= clock[t][t]
        BY DEF IInv, TopBounded
    <2>2. l.top[t] \in Nat
        BY <1>1, CirculatingTop
    <2>3. clock[t][t] \in Nat /\ clock'[t][t] \in Nat /\ clock[t][t] <= clock'[t][t]
        BY <1>4
    <2> QED
        BY <2>1, <2>2, <2>3
<1>7. TopCovers' /\ TopCloses' /\ OwnOpsKept' /\ SeenIsEarlier'
    BY <1>2 DEF IInv, TopCovers, TopCloses, OwnOpsKept, SeenIsEarlier
<1> QED
    BY <1>1, <1>5, <1>6, <1>7 DEF IInv

\* A push adds a log that circulates already.
LEMMA PushStep ==
    ASSUME IInv, NEW s \in Sites, Push(s)
    PROVE  IInv'
<1>1. TypeOK'
    BY TypeNext DEF IInv, Next
<1>2. clock' = clock /\ log' = log /\ AllOps' = AllOps /\ Circulating' = Circulating
    BY DEF Push, AllOps, Circulating
<1> QED
    BY <1>1, <1>2
    DEF IInv, ClockFollowsTop, TopBounded, TopCovers, TopCloses, OwnOpsKept, SeenIsEarlier

\* A merge takes the union of two closed logs and the maximum of their tops.
LEMMA DeliverStep ==
    ASSUME IInv, NEW s \in Sites, NEW l \in pushed, Deliver(s, l)
    PROVE  IInv'
<1> DEFINE m == [ops |-> log[s].ops \cup l.ops, top |-> Update(log[s].top, l.top)]
<1>1. TypeOK /\ TypeOK'
    BY TypeNext DEF IInv, Next
<1>2. l \in Circulating /\ log[s] \in Circulating
    BY DEF Circulating
<1>3. l \in Logs /\ log[s] \in Logs /\ clock[s] \in VectorClocks
      /\ l.top \in VectorClocks /\ log[s].top \in VectorClocks
    BY <1>1 DEF TypeOK, Logs
<1>4. /\ clock' = [clock EXCEPT ![s] = Update(clock[s], l.top)]
      /\ log' = [log EXCEPT ![s] = m]
      /\ pushed' = pushed
    BY DEF Deliver
<1>5. AllOps' = AllOps
    <2>1. l.ops \subseteq AllOps
        BY <1>2 DEF IInv, TopCovers
    <2> QED
        BY <1>1, <1>4, <2>1 DEF AllOps, TypeOK
<1>6. Circulating' \subseteq Circulating \cup {m}
    BY <1>1, <1>4 DEF Circulating, TypeOK
<1>7. /\ clock'[s] = Update(clock[s], l.top) /\ log'[s] = m
      /\ \A u \in Sites \ {s} : clock'[u] = clock[u] /\ log'[u] = log[u]
    BY <1>1, <1>4 DEF TypeOK
<1>8. \A t \in Sites : /\ m.top[t] = log[s].top[t] \/ m.top[t] = l.top[t]
                       /\ log[s].top[t] <= m.top[t] /\ l.top[t] <= m.top[t]
    BY <1>3, UpdateClock DEF Leq
<1>9. \A t \in Sites : clock'[t][t] = clock[t][t]
    <2>1. l.top[s] <= clock[s][s]
        BY <1>2 DEF IInv, TopBounded
    <2>2. clock'[s][s] = clock[s][s]
        <3>1. clock[s][s] \in Nat /\ l.top[s] \in Nat
            BY <1>3 DEF VectorClocks
        <3>2. Update(clock[s], l.top)[s] = clock[s][s]
            BY <2>1, <3>1 DEF Update
        <3> QED
            BY <1>7, <3>2
    <2> QED
        BY <1>7, <2>2
<1>10. ClockFollowsTop'
    <2>1. m.top[s] <= clock'[s][s]
        BY <1>2, <1>8, <1>9 DEF IInv, TopBounded
    <2>2. \A t \in Sites \ {s} : clock'[s][t] = m.top[t]
        <3>1. \A t \in Sites \ {s} : clock[s][t] = log[s].top[t]
            BY DEF IInv, ClockFollowsTop
        <3>2. \A t \in Sites \ {s} : Update(clock[s], l.top)[t] = Update(log[s].top, l.top)[t]
            BY <3>1 DEF Update
        <3> QED
            BY <1>7, <3>2
    <2> QED
        BY <1>7, <2>1, <2>2 DEF IInv, ClockFollowsTop
<1>11. TopBounded'
    <2>1. \A t \in Sites : m.top[t] <= clock[t][t]
        BY <1>2, <1>8 DEF IInv, TopBounded
    <2> QED
        BY <1>6, <1>9, <2>1 DEF IInv, TopBounded
<1>12. TopCovers'
    <2>1. m.ops \subseteq AllOps
        BY <1>2 DEF IInv, TopCovers
    <2>2. m.top \in VectorClocks /\ Leq(log[s].top, m.top) /\ Leq(l.top, m.top)
        BY <1>3, UpdateClock
    <2>3. ASSUME NEW o \in m.ops PROVE Leq(o.clock, m.top)
        <3>1. o.clock \in VectorClocks
            BY <1>3, OwnClock DEF Logs
        <3>2. Leq(o.clock, log[s].top) \/ Leq(o.clock, l.top)
            BY <1>2 DEF IInv, TopCovers
        <3> QED
            BY <1>3, <2>2, <3>1, <3>2, LeqTransitive
    <2> QED
        BY <1>5, <1>6, <2>1, <2>3 DEF IInv, TopCovers
<1>13. TopCloses'
    <2>1. ASSUME NEW o \in AllOps, GetLogicalClock(o) <= m.top[o.siteId] PROVE o \in m.ops
        <3>1. o.siteId \in Sites
            BY <1>1, OwnClock DEF AllOps, TypeOK, Logs
        <3>2. GetLogicalClock(o) <= log[s].top[o.siteId] \/ GetLogicalClock(o) <= l.top[o.siteId]
            BY <1>8, <2>1, <3>1
        <3> QED
            BY <1>2, <3>2 DEF IInv, TopCloses
    <2> QED
        BY <1>5, <1>6, <2>1 DEF IInv, TopCloses
<1>14. OwnOpsKept'
    <2>1. \A u \in Sites : log[u].ops \subseteq log'[u].ops
        BY <1>7
    <2>2. \A o \in AllOps : o.siteId \in Sites
        BY <1>1, OwnClock DEF AllOps, TypeOK, Logs
    <2> QED
        BY <1>5, <2>1, <2>2 DEF IInv, OwnOpsKept
<1>15. SeenIsEarlier'
    BY <1>5 DEF IInv, SeenIsEarlier
<1> QED
    BY <1>1, <1>10, <1>11, <1>12, <1>13, <1>14, <1>15 DEF IInv

\* Every action preserves the invariant.
LEMMA IInvNext == IInv /\ [Next]_vars => IInv'
<1> SUFFICES ASSUME IInv, [Next]_vars PROVE IInv'
    OBVIOUS
<1>1. CASE UNCHANGED vars
    <2>1. clock' = clock /\ log' = log /\ pushed' = pushed
        BY <1>1 DEF vars
    <2>2. AllOps' = AllOps /\ Circulating' = Circulating
        BY <2>1 DEF AllOps, Circulating
    <2>3. TypeOK' /\ ClockFollowsTop' /\ TopBounded'
        BY <2>1, <2>2 DEF IInv, TypeOK, ClockFollowsTop, TopBounded
    <2>4. TopCovers' /\ TopCloses'
        BY <2>2 DEF IInv, TopCovers, TopCloses
    <2>5. OwnOpsKept' /\ SeenIsEarlier'
        BY <2>1, <2>2 DEF IInv, OwnOpsKept, SeenIsEarlier
    <2> QED
        BY <2>3, <2>4, <2>5 DEF IInv
<1> QED
    BY <1>1, GenerateStep, RefuseStep, PushStep, DeliverStep DEF Next

\* The inductive invariant holds in every reachable state.
THEOREM InvariantHolds == Spec => []IInv
BY IInvInit, IInvNext, PTL DEF Spec

-----------------------------------------------------------------------------
(* What follows from the invariant.                                        *)

\* The operations in the system are operation ids.
LEMMA OpsAreIds ==
    ASSUME TypeOK
    PROVE  AllOps \subseteq LogicalIds
BY DEF TypeOK, AllOps, Logs

\* Two operations with one site and number have seen each other, so they
\* are the same.
LEMMA UniqueIdsFollows == IInv => UniqueIds
<1> SUFFICES ASSUME IInv, NEW o \in AllOps, NEW p \in AllOps, equals(o, p), o # p PROVE FALSE
    BY DEF UniqueIds
<1>1. o \in LogicalIds /\ p \in LogicalIds
    BY OpsAreIds DEF IInv
<1>2. o.siteId = p.siteId /\ o.clock[o.siteId] = p.clock[o.siteId]
    BY DEF equals, GetLogicalClock
<1>3. o.clock[o.siteId] \in Nat /\ GetLogicalClock(o) = o.clock[o.siteId]
      /\ GetLogicalClock(p) = p.clock[o.siteId]
    BY <1>1, <1>2, OwnClock DEF GetLogicalClock
<1> QED
    BY <1>2, <1>3 DEF IInv, SeenIsEarlier

\* Comparable clocks and seen entries say the same under the invariant.
LEMMA ClockTellsCausalityFollows == IInv => ClockTellsCausality
<1> SUFFICES ASSUME IInv, NEW o \in AllOps, NEW p \in AllOps
             PROVE  HappenedBefore(o, p) <=> (o # p /\ GetLogicalClock(o) <= p.clock[o.siteId])
    BY DEF ClockTellsCausality
<1>1. o \in LogicalIds /\ p \in LogicalIds
    BY OpsAreIds DEF IInv
<1>2. ASSUME HappenedBefore(o, p) PROVE o # p /\ GetLogicalClock(o) <= p.clock[o.siteId]
    BY <1>1, <1>2, OwnClock, HappenedBeforeIsStrictOrder DEF HappenedBefore, GetLogicalClock
<1>3. ASSUME o # p, GetLogicalClock(o) <= p.clock[o.siteId] PROVE HappenedBefore(o, p)
    <2>1. Leq(o.clock, p.clock) /\ o.clock[p.siteId] < p.clock[p.siteId]
        BY <1>3 DEF IInv, SeenIsEarlier, GetLogicalClock
    <2> QED
        BY <1>1, <2>1, OwnClock DEF Leq, HappenedBefore
<1> QED
    BY <1>2, <1>3

\* What happened before an operation of a log is below the log's top.
LEMMA CausalDeliveryFollows == IInv => CausalDelivery
<1> SUFFICES ASSUME IInv, NEW s \in Sites, NEW p \in log[s].ops, NEW o \in AllOps,
                    HappenedBefore(o, p)
             PROVE  o \in log[s].ops
    BY DEF CausalDelivery
<1>1. p \in AllOps /\ p \in LogicalIds /\ o \in LogicalIds /\ log[s] \in Circulating
    BY OpsAreIds DEF IInv, AllOps, Circulating
<1>2. GetLogicalClock(o) <= p.clock[o.siteId]
    BY <1>1, ClockTellsCausalityFollows DEF ClockTellsCausality
<1>3. p.clock[o.siteId] <= log[s].top[o.siteId]
    BY <1>1, OwnClock DEF IInv, TopCovers, Leq
<1>4. GetLogicalClock(o) \in Nat /\ p.clock[o.siteId] \in Nat /\ log[s].top[o.siteId] \in Nat
    BY <1>1, OwnClock, CirculatingTop DEF IInv, VectorClocks
<1> QED
    BY <1>1, <1>2, <1>3, <1>4 DEF IInv, TopCloses

\* No two operations of the system share an id ("a unique identifier",
\* operations.go), whatever sites edit and whatever logs are lost, repeated or
\* reordered.
THEOREM IdsAreUnique == Spec => []UniqueIds
BY InvariantHolds, UniqueIdsFollows, PTL

\* HappenedBefore of operations.go is exactly causality.
THEOREM ClocksTellCausality == Spec => []ClockTellsCausality
BY InvariantHolds, ClockTellsCausalityFollows, PTL

\* Pushing whole logs delivers causally: with an operation a site gets all
\* that happened before it.
THEOREM DeliveryIsCausal == Spec => []CausalDelivery
BY InvariantHolds, CausalDeliveryFollows, PTL

-----------------------------------------------------------------------------
(* The step property: a new operation is above all its site has.           *)

\* The id NewId makes is above every operation of its site.
LEMMA GenerateIsGreatest ==
    ASSUME IInv, NEW s \in Sites, CanTick(s), NEW o \in log[s].ops
    PROVE  HappenedBefore(o, NewId(s))
<1>1. o \in LogicalIds /\ clock[s] \in VectorClocks /\ NewId(s) \in LogicalIds
    BY NewIdFacts DEF IInv, TypeOK, Logs
<1>2. Leq(o.clock, clock[s]) /\ Leq(clock[s], NewId(s).clock)
    BY ClockCovers, NewIdFacts DEF IInv
<1>3. NewId(s).clock[s] = clock[s][s] + 1
    BY NewIdFacts DEF IInv, GetLogicalClock
<1>4. Leq(o.clock, NewId(s).clock)
    BY <1>1, <1>2, OwnClock, LeqTransitive
<1>5. o.clock[s] < NewId(s).clock[s]
    <2>1. o.clock[s] <= clock[s][s]
        BY <1>2 DEF Leq
    <2>2. o.clock[s] \in Nat /\ clock[s][s] \in Nat
        BY <1>1 DEF LogicalIds, VectorClocks
    <2> QED
        BY <1>3, <2>1, <2>2
<1> QED
    BY <1>4, <1>5 DEF Leq, HappenedBefore

\* Only an edit moves a site's own entry, and it makes the greatest operation.
LEMMA NewOpStepHolds == IInv /\ [Next]_vars => NewOpStep
<1> SUFFICES ASSUME IInv, [Next]_vars, NEW u \in Sites, clock'[u][u] # clock[u][u],
                    NEW m \in log'[u].ops \ log[u].ops, NEW o \in log[u].ops
             PROVE  HappenedBefore(o, m)
    BY DEF NewOpStep
<1>0. TypeOK
    BY DEF IInv
<1>1. ASSUME NEW s \in Sites, Generate(s) PROVE HappenedBefore(o, m)
    <2>1. u = s
        BY <1>0, <1>1 DEF Generate, TypeOK
    <2>2. m = NewId(s)
        BY <1>0, <1>1, <2>1 DEF Generate, TypeOK
    <2> QED
        BY <1>1, <2>1, <2>2, GenerateIsGreatest DEF Generate
<1>2. ASSUME NEW s \in Sites, Refuse(s) PROVE FALSE
    BY <1>2 DEF Refuse
<1>3. ASSUME NEW s \in Sites, Push(s) PROVE FALSE
    BY <1>3 DEF Push
<1>4. ASSUME NEW s \in Sites, NEW l \in pushed, Deliver(s, l) PROVE FALSE
    <2>1. l \in Circulating
        BY DEF Circulating
    <2>2. l.top[u] <= clock[u][u] /\ l.top[u] \in Nat /\ clock[u][u] \in Nat
        BY <1>0, <2>1, CirculatingTop DEF IInv, TopBounded, TypeOK, VectorClocks
    <2>3. Update(clock[u], l.top)[u] = clock[u][u]
        BY <2>2 DEF Update
    <2> QED
        BY <1>0, <1>4, <2>3 DEF Deliver, TypeOK
<1>5. CASE UNCHANGED vars
    BY <1>5 DEF vars
<1> QED
    BY <1>1, <1>2, <1>3, <1>4, <1>5 DEF Next

\* The operation of a local edit is above every operation its site has, so the
\* sorted insertion puts it at the end of the log.
THEOREM NewOpsAreGreatest == Spec => NewOpIsGreatest
<1>1. IInv /\ [Next]_vars => [NewOpStep]_vars
    BY NewOpStepHolds
<1> QED
    BY <1>1, InvariantHolds, PTL DEF Spec, NewOpIsGreatest

-----------------------------------------------------------------------------
(* The order of the log, for two sites.                                    *)

\* Operations of one site are ordered by causality, its clock numbers them.
LEMMA OneSiteIsChain ==
    ASSUME IInv, NEW o \in AllOps, NEW p \in AllOps, o.siteId = p.siteId, o # p
    PROVE  HappenedBefore(o, p) \/ HappenedBefore(p, o)
<1>1. o \in LogicalIds /\ p \in LogicalIds
    BY OpsAreIds DEF IInv
<1>2. GetLogicalClock(o) \in Nat /\ GetLogicalClock(p) \in Nat
      /\ GetLogicalClock(o) = o.clock[p.siteId] /\ GetLogicalClock(p) = p.clock[o.siteId]
    BY <1>1, OwnClock DEF GetLogicalClock
<1>3. GetLogicalClock(o) <= p.clock[o.siteId] \/ GetLogicalClock(p) <= o.clock[p.siteId]
    BY <1>2
<1> QED
    BY <1>3, ClockTellsCausalityFollows DEF ClockTellsCausality

\* less without its clocks: a strict order hb that is total on each site, with
\* the site id as tie-break, is transitive when there are two sites.
LEMMA LessIsTransitive ==
    ASSUME IInv, NEW a, NEW b, Sites = {a, b},
           NEW o \in AllOps, NEW p \in AllOps, NEW q \in AllOps, less(o, p), less(p, q)
    PROVE  less(o, q)
<1> DEFINE hb(x, y) == HappenedBefore(x, y)
<1>1. o \in LogicalIds /\ p \in LogicalIds /\ q \in LogicalIds
    BY OpsAreIds DEF IInv
<1>2. /\ o.siteId \in {a, b} /\ p.siteId \in {a, b} /\ q.siteId \in {a, b}
      /\ o.siteId \in Nat /\ p.siteId \in Nat /\ q.siteId \in Nat
    BY <1>1, OwnClock
<1>3. \A x, y, z \in {o, p, q} :
          ~hb(x, x) /\ (hb(x, y) => ~hb(y, x)) /\ (hb(x, y) /\ hb(y, z) => hb(x, z))
    BY <1>1, HappenedBeforeIsStrictOrder
<1>4. \A x, y \in {o, p, q} : x.siteId = y.siteId /\ x # y => hb(x, y) \/ hb(y, x)
    BY OneSiteIsChain
<1>5. \A x, y \in {o, p, q} : less(x, y) <=> (hb(x, y) \/ (~hb(y, x) /\ x.siteId < y.siteId))
    BY DEF less
<1> HIDE DEF hb
<1>6. CASE o.siteId = p.siteId
    BY <1>2, <1>3, <1>4, <1>5, <1>6
<1>7. CASE p.siteId = q.siteId
    BY <1>2, <1>3, <1>4, <1>5, <1>7
<1>8. CASE o.siteId = q.siteId /\ o.siteId # p.siteId
    <2>1. o.siteId < p.siteId => ~(p.siteId < q.siteId)
        BY <1>2, <1>8
    <2> QED
        BY <1>3, <1>4, <1>5, <1>8, <2>1
<1> QED
    BY <1>2, <1>6, <1>7, <1>8

\* With two sites less is a strict total order of the operations.
LEMMA LogOrderFollows ==
    ASSUME NEW a, NEW b, Sites = {a, b}
    PROVE  IInv => LogOrderIsTotal
<1> SUFFICES ASSUME IInv, NEW o \in AllOps, NEW p \in AllOps
             PROVE  /\ ~less(o, o)
                    /\ o # p => less(o, p) \/ less(p, o)
                    /\ less(o, p) => \A q \in AllOps : less(p, q) => less(o, q)
    BY DEF LogOrderIsTotal
<1>1. o \in LogicalIds /\ p \in LogicalIds /\ o.siteId \in Nat /\ p.siteId \in Nat
    BY OpsAreIds, OwnClock DEF IInv
<1>2. ~less(o, o)
    BY <1>1, HappenedBeforeIsStrictOrder DEF less
<1>3. ASSUME o # p PROVE less(o, p) \/ less(p, o)
    <2>1. CASE o.siteId = p.siteId
        BY <1>3, <2>1, OneSiteIsChain DEF less
    <2>2. CASE o.siteId # p.siteId
        <3>1. o.siteId < p.siteId \/ p.siteId < o.siteId
            BY <1>1, <2>2
        <3> QED
            BY <3>1 DEF less
    <2> QED
        BY <2>1, <2>2
<1> QED
    BY <1>2, <1>3, LessIsTransitive

\* With two sites the order of the log is a strict total order of all the
\* operations ever made: sorting and binary search (state.go) are sound and
\* every site stores the same operations in the same order.  The run
\* woot_repeated_op shows what a third site does to the binary search.
THEOREM TwoSitesOrderIsTotal ==
    ASSUME NEW a, NEW b, Sites = {a, b}
    PROVE  Spec => []LogOrderIsTotal
BY InvariantHolds, LogOrderFollows, PTL

=============================================================================
