---------------------------- MODULE OperationDAG ----------------------------
(***************************************************************************)
(* The causal DAG the history command builds from the log of a site        *)
(* (history/dag.go), on the logs WootCvrdt reaches.                        *)
(*                                                                         *)
(* A DAG is a record [Nodes, Edges, parents]: the operation of every node  *)
(* id, the set of edges and, for every node id, the length of its Parents  *)
(* slice.  A node id, the string "<site>_<clock>" of an operation, is the  *)
(* pair <<site, clock>>.                                                   *)
(***************************************************************************)
EXTENDS WootCvrdt

OpKey(op) == <<op.id.siteId, GetLogicalClock(op.id)>>

\* Mutant: any later operation, not only one in between, makes an edge indirect.
isDirect_FirstEffect(ops, opA, opB) ==
    /\ OpKey(opA) # OpKey(opB)
    /\ HappenedBefore(opA.id, opB.id)
    /\ ~\E opC \in ToSet(ops) :
          OpKey(opC) \notin {OpKey(opA), OpKey(opB)} /\ HappenedBefore(opA.id, opC.id)

\* Mutant: every causal pair is an edge, transitive ones too.
isDirect_AnyPair(ops, opA, opB) ==
    OpKey(opA) # OpKey(opB) /\ HappenedBefore(opA.id, opB.id)

\* opA happened before opB with no third operation of the log in between.
isDirect(ops, opA, opB) ==
    /\ OpKey(opA) # OpKey(opB)
    /\ HappenedBefore(opA.id, opB.id)
    /\ ~\E opC \in ToSet(ops) :
          /\ OpKey(opC) \notin {OpKey(opA), OpKey(opB)}
          /\ HappenedBefore(opA.id, opC.id)
          /\ HappenedBefore(opC.id, opB.id)

\* A node holds the last operation with its id.  addEdge stores an edge once,
\* Parents gets an entry for every pair of log positions that yields it.
BuildDAG(ops) ==
    LET keys   == {OpKey(op) : op \in ToSet(ops)}
        direct == {ij \in (DOMAIN ops) \X (DOMAIN ops) : isDirect(ops, ops[ij[1]], ops[ij[2]])}
    IN  [Nodes   |-> [k \in keys |-> ops[Max({i \in DOMAIN ops : OpKey(ops[i]) = k})]],
         Edges   |-> {<<OpKey(ops[ij[1]]), OpKey(ops[ij[2]])>> : ij \in direct},
         parents |-> [k \in keys |-> Cardinality({ij \in direct : OpKey(ops[ij[2]]) = k})]]

Roots(dag) == {k \in DOMAIN dag.Nodes : dag.parents[k] = 0}

HasPath(dag, op1Id, op2Id) ==
    HappenedBefore(dag.Nodes[op1Id].id, dag.Nodes[op2Id].id)

IsConcurrent(dag, op1Id, op2Id) ==
    /\ op1Id # op2Id
    /\ ~HasPath(dag, op1Id, op2Id)
    /\ ~HasPath(dag, op2Id, op1Id)

\* Mutant: a node enters the next layer as soon as one parent was processed.
unlocked_AnyParent(dag, current, indegree) ==
    {k \in DOMAIN dag.Nodes : \E p \in current : <<p, k>> \in dag.Edges}

\* The nodes whose last unprocessed parent is in the current layer.
unlocked(dag, current, indegree) ==
    LET hits(k) == Cardinality({p \in current : <<p, k>> \in dag.Edges})
    IN  {k \in DOMAIN dag.Nodes : hits(k) > 0 /\ hits(k) = indegree[k]}

\* The loop of GetTopologicalLayers: the layer at hand, the parents each node
\* waits for, the layers and the number of nodes processed so far.  A layer is
\* a set: the code sorts it for display.  Every round takes nodes that no
\* earlier round took, so as many rounds as there are nodes are enough.
LayersLoop(dag) ==
    LET nodes == DOMAIN dag.Nodes
        hits(current, k) == Cardinality({p \in current : <<p, k>> \in dag.Edges})
        round[n \in 0..Cardinality(nodes)] ==
            IF n = 0
            THEN [current |-> Roots(dag), indegree |-> dag.parents,
                  layers |-> <<>>, processed |-> 0]
            ELSE LET before == round[n - 1]
                 IN  IF before.current = {} THEN before
                     ELSE [current   |-> unlocked(dag, before.current, before.indegree),
                           indegree  |-> [k \in nodes |->
                                            before.indegree[k] - hits(before.current, k)],
                           layers    |-> Append(before.layers, before.current),
                           processed |-> before.processed + Cardinality(before.current)]
    IN  round[Cardinality(nodes)]

\* The layers, and whether the call panics because not every node was processed.
GetTopologicalLayers(dag) ==
    LET loop == LayersLoop(dag)
    IN  [layers |-> loop.layers,
         panics |-> loop.processed # Cardinality(DOMAIN dag.Nodes)]

\* Mutant: the nodes are not compared.
Equals_EdgesOnly(dag, other) ==
    \A from \in {e[1] : e \in dag.Edges} :
        {e \in dag.Edges : e[1] = from} = {e \in other.Edges : e[1] = from}

\* Edges are compared from the receiver's side only.
Equals(dag, other) ==
    /\ DOMAIN dag.Nodes = DOMAIN other.Nodes
    /\ \A from \in {e[1] : e \in dag.Edges} :
          {e \in dag.Edges : e[1] = from} = {e \in other.Edges : e[1] = from}

-----------------------------------------------------------------------------
(* Properties.                                                             *)

Dag(s) == BuildDAG(state[s])

\* A path of edges leads from a to b: b is in every set of nodes that no edge
\* from a, or from a member, leaves.
EdgesLead(dag, a, b) ==
    \A nodes \in SUBSET DOMAIN dag.Nodes :
        (\A e \in dag.Edges : e[1] \in nodes \cup {a} => e[2] \in nodes) => b \in nodes

\* HasPath answers from the clocks what its comment promises of the graph: a
\* path leads from one node to the other along the edges that were kept.
HasPathIsPath ==
    \A s \in Sites : LET dag == Dag(s) IN
        \A a, b \in DOMAIN dag.Nodes : HasPath(dag, a, b) <=> EdgesLead(dag, a, b)

\* The kept edges are the transitive reduction: none is implied by the others.
EdgesAreNeeded ==
    \A s \in Sites : LET dag == Dag(s) IN
        \A e \in dag.Edges : ~\E k \in DOMAIN dag.Nodes : HasPath(dag, e[1], k) /\ HasPath(dag, k, e[2])

\* The layers cover the log without a panic, every operation in exactly one of
\* them, operations of one layer are concurrent, and each but the first layer's
\* depends on one of the layer before ("each slice i is the list all operations
\* that depends on layer i-1").
LayersAreTopological ==
    \A s \in Sites : LET dag    == Dag(s)
                         result == GetTopologicalLayers(dag)
                         layers == result.layers
                     IN  /\ ~result.panics
                         /\ UNION ToSet(layers) = DOMAIN dag.Nodes
                         /\ \A i \in DOMAIN layers : \A a \in layers[i] :
                               /\ \A b \in layers[i] : a # b => IsConcurrent(dag, a, b)
                               /\ i > 1 => \E b \in layers[i - 1] : HasPath(dag, b, a)

\* "all sites should have the same DAG": the DAG depends on the operations
\* alone, whatever order the logs hold them in, and tells logs apart.
DagIsTheLog ==
    LET dag == [s \in Sites |-> Dag(s)]
    IN  \A s, t \in Sites : Equals(dag[s], dag[t]) <=> Ids(state[s]) = Ids(state[t])

=============================================================================
