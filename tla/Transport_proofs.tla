-------------------------- MODULE Transport_proofs --------------------------
(***************************************************************************)
(* Every entry of a peers map that is filed under the name its far end     *)
(* announced has its handlePeer, and entries reach a running handlePeer    *)
(* once all endings are through, whatever the nodes, the names they are    *)
(* dialled by, the connections and the failures.                           *)
(***************************************************************************)
EXTENDS Transport, TLAPS

USE TransportAssumption

Stages == Handled \cup {"none", "shaking", "gone", "failed"}

Types ==
    /\ peers \in [Nodes -> [Names -> Ends \cup {None}]]
    /\ owners \in [Conns -> {None} \cup (Nodes \X Nodes)]
    /\ stage \in [Ends -> Stages]
    /\ open \in [Ends -> BOOLEAN]

\* Both ends of a connection that was made have their part of it, nobody else.
EndsBegan == \A e \in Ends : stage[e] # "none" <=> used(e[1])

\* An entry is an end of this node, whose handshake is over.
EntriesBegan ==
    \A n \in Nodes, name \in Names :
        peers[n][name] # None =>
            /\ stage[peers[n][name]] \in Handled \cup {"gone"}
            /\ node(peers[n][name]) = n

\* The inductive invariant behind EntryHasHandler.
EntryInv == Types /\ EndsBegan /\ EntriesBegan /\ EntryHasHandler

-----------------------------------------------------------------------------
(* Ends.                                                                   *)

LEMMA EndsOf ==
    ASSUME NEW c \in Conns
    PROVE  /\ initiator(c) \in Ends /\ receiver(c) \in Ends
           /\ initiator(c)[1] = c /\ receiver(c)[1] = c
           /\ initiator(c)[2] = 1 /\ receiver(c)[2] = 2
           /\ initiator(c) # receiver(c)
  BY DEF initiator, receiver, Ends

LEMMA FarEnd ==
    ASSUME NEW e \in Ends
    PROVE  /\ e[1] \in Conns /\ e[2] \in {1, 2} /\ e = <<e[1], e[2]>>
           /\ far(e) \in Ends /\ far(e) # e /\ far(far(e)) = e /\ far(e)[1] = e[1]
  BY DEF far, Ends

LEMMA TwoEnds ==
    ASSUME NEW e \in Ends, NEW d \in Ends, d[1] = e[1]
    PROVE  d = e \/ d = far(e)
  BY DEF far, Ends

LEMMA NodeOfEnd ==
    ASSUME Types, NEW e \in Ends, used(e[1])
    PROVE  node(e) \in Nodes /\ peerInfo(e) \in Names
<1>1. ASSUME NEW d \in Ends, used(d[1]) PROVE node(d) \in Nodes
  BY <1>1 DEF Types, used, node, Ends
<1>2. node(e) \in Nodes
  BY <1>1
<1>3. node(far(e)) \in Nodes
  BY <1>1, FarEnd
<1> QED
  BY <1>2, <1>3 DEF peerInfo

LEMMA NoEntryIsNone == \A e \in Ends : e # None
<1>1. \A c, r : <<c, r>> # <<>>
  OBVIOUS
<1> QED
  BY <1>1, FarEnd DEF None

\* The end of an entry.
LEMMA EntryIsEnd ==
    ASSUME EntryInv, NEW n \in Nodes, NEW name \in Names, peers[n][name] # None
    PROVE  /\ peers[n][name] \in Ends
           /\ node(peers[n][name]) = n
           /\ used(peers[n][name][1])
           /\ stage[peers[n][name]] \in Handled \cup {"gone"}
           /\ name = peerInfo(peers[n][name]) => stage[peers[n][name]] \in Handled
<1>1. peers[n][name] \in Ends
  BY DEF EntryInv, Types
<1>2. /\ node(peers[n][name]) = n
      /\ stage[peers[n][name]] \in Handled \cup {"gone"}
  BY DEF EntryInv, EntriesBegan
<1>3. used(peers[n][name][1])
  BY <1>1, <1>2 DEF EntryInv, EndsBegan, Handled
<1>4. name = peerInfo(peers[n][name]) => stage[peers[n][name]] \in Handled
  BY DEF EntryInv, EntryHasHandler
<1> QED
  BY <1>1, <1>2, <1>3, <1>4

\* What an end is does not change with the rest.
LEMMA SameOwners ==
    ASSUME UNCHANGED owners
    PROVE  /\ \A c : used(c)' = used(c)
           /\ \A e : node(e)' = node(e) /\ peerInfo(e)' = peerInfo(e)
  BY DEF used, node, peerInfo

-----------------------------------------------------------------------------
(* An entry under the announced name has its handler.                      *)

\* What the invariant says of an entry e, when the connections have the nodes o.
Entry(n, name, e, st, o) ==
    /\ st[e] \in Handled \cup {"gone"}
    /\ o[e[1]][e[2]] = n
    /\ name = Announced[o[far(e)[1]][far(e)[2]]] => st[e] \in Handled

LEMMA EntriesInv ==
    ASSUME Types', EndsBegan',
           \A n \in Nodes, name \in Names :
               peers'[n][name] # None => Entry(n, name, peers'[n][name], stage', owners')
    PROVE  EntryInv'
<1>1. EntriesBegan'
  BY DEF Entry, EntriesBegan, node
<1>2. EntryHasHandler'
  BY DEF Entry, EntryHasHandler, node, peerInfo
<1> QED
  BY <1>1, <1>2 DEF EntryInv

LEMMA EntryOfInv ==
    ASSUME EntryInv, NEW n \in Nodes, NEW name \in Names, peers[n][name] # None
    PROVE  Entry(n, name, peers[n][name], stage, owners)
  BY EntryIsEnd DEF Entry, node, peerInfo

\* Steps that leave the maps and the nodes alone, and no end less handled.
LEMMA EndMovesKeepEntries ==
    ASSUME EntryInv, UNCHANGED <<peers, owners>>,
           stage' \in [Ends -> Stages], open' \in [Ends -> BOOLEAN],
           \A e \in Ends : stage[e] = "none" <=> stage'[e] = "none",
           \A e \in Ends : stage[e] \in Handled => stage'[e] \in Handled,
           \A e \in Ends : stage[e] = "gone" => stage'[e] = "gone"
    PROVE  EntryInv'
<1>1. Types'
  BY DEF EntryInv, Types
<1>2. EndsBegan'
  BY SameOwners DEF EntryInv, EndsBegan
<1>3. ASSUME NEW n \in Nodes, NEW name \in Names, peers'[n][name] # None
      PROVE  Entry(n, name, peers'[n][name], stage', owners')
  BY <1>3, EntryIsEnd, EntryOfInv DEF Entry
<1> QED
  BY <1>1, <1>2, <1>3, EntriesInv

\* Add and the accept loop store an end whose handshake was not over.
LEMMA StoreKeepsEntries ==
    ASSUME EntryInv, NEW e \in Ends, NEW target \in Names, stage[e] = "shaking",
           Store(e, target), UNCHANGED <<owners, open>>
    PROVE  EntryInv'
<1>1. used(e[1])
  BY DEF EntryInv, EndsBegan
<1>2. node(e) \in Nodes
  BY <1>1, NodeOfEnd DEF EntryInv
<1>3. Types'
  BY <1>2 DEF EntryInv, Types, Store, Stages, Handled
<1>4. EndsBegan'
  BY SameOwners DEF EntryInv, Types, EndsBegan, Store
<1>5. ASSUME NEW n \in Nodes, NEW name \in Names, peers'[n][name] # None
      PROVE  Entry(n, name, peers'[n][name], stage', owners')
  <2>1. CASE n = node(e) /\ name = target
    <3>1. peers'[n][name] = e /\ stage'[e] = "starting"
      BY <1>2, <2>1 DEF EntryInv, Types, Store
    <3> QED
      BY <2>1, <3>1 DEF Handled, Entry, node
  <2>2. CASE ~(n = node(e) /\ name = target)
    <3>1. peers'[n][name] = peers[n][name]
      BY <2>2 DEF EntryInv, Types, Store
    <3>2. /\ peers[n][name] \in Ends
          /\ stage[peers[n][name]] \in Handled \cup {"gone"}
          /\ Entry(n, name, peers[n][name], stage, owners)
      BY <1>5, <3>1, EntryIsEnd, EntryOfInv
    <3>3. peers[n][name] # e
      BY <3>2 DEF Handled
    <3>4. stage'[peers[n][name]] = stage[peers[n][name]]
      BY <3>2, <3>3 DEF EntryInv, Types, Store
    <3> QED
      BY <3>1, <3>2, <3>4 DEF Entry
  <2> QED
    BY <2>1, <2>2
<1> QED
  BY <1>3, <1>4, <1>5, EntriesInv

\* removePeer takes one entry away, and closes.
LEMMA RemoveTypes ==
    ASSUME EntryInv, NEW n \in Nodes, NEW name \in Names, RemovePeer(n, name)
    PROVE  /\ peers' \in [Nodes -> [Names -> Ends \cup {None}]]
           /\ open' \in [Ends -> BOOLEAN]
           /\ \A e \in Ends : ~open[e] => ~open'[e]
           /\ peers'[n][name] = None
           /\ \A m \in Nodes, other \in Names :
                 ~(m = n /\ other = name) => peers'[m][other] = peers[m][other]
<1>1. peers' = [peers EXCEPT ![n][name] = None]
  BY DEF RemovePeer
<1>2. open' \in [Ends -> BOOLEAN] /\ \A e \in Ends : ~open[e] => ~open'[e]
  <2>1. CASE peers[n][name] = None
    BY <2>1 DEF RemovePeer, EntryInv, Types
  <2>2. CASE peers[n][name] # None
    BY <2>2, EntryIsEnd DEF RemovePeer, EntryInv, Types
  <2> QED
    BY <2>1, <2>2
<1> QED
  BY <1>1, <1>2 DEF EntryInv, Types

\* DisconnectFrom.
LEMMA RemoveKeepsEntries ==
    ASSUME EntryInv, NEW n \in Nodes, NEW name \in Names, Remove(n, name)
    PROVE  EntryInv'
<1>1. RemovePeer(n, name) /\ UNCHANGED <<owners, stage>>
  BY DEF Remove
<1>2. Types'
  BY <1>1, RemoveTypes DEF EntryInv, Types
<1>3. EndsBegan'
  BY <1>1, SameOwners DEF EntryInv, EndsBegan
<1>4. ASSUME NEW m \in Nodes, NEW other \in Names, peers'[m][other] # None
      PROVE  Entry(m, other, peers'[m][other], stage', owners')
  <2>1. peers'[m][other] = peers[m][other]
    BY <1>1, <1>4, RemoveTypes
  <2> QED
    BY <1>1, <1>4, <2>1, EntryOfInv
<1> QED
  BY <1>2, <1>3, <1>4, EntriesInv

\* handlePeer leaves nothing under the name its far end announced; an entry under
\* another name stays, and is not spoken of.
LEMMA LeaveKeepsEntries ==
    ASSUME EntryInv, NEW e \in Ends, LeavePeer(e)
    PROVE  EntryInv'
<1>1. used(e[1]) /\ stage[e] = "serving"
  BY DEF LeavePeer, EntryInv, EndsBegan
<1>2. node(e) \in Nodes /\ peerInfo(e) \in Names
  BY <1>1, NodeOfEnd DEF EntryInv
<1>3. RemovePeer(node(e), peerInfo(e)) /\ UNCHANGED owners /\ stage' = [stage EXCEPT ![e] = "gone"]
  BY DEF LeavePeer
<1>4. Types'
  BY <1>2, <1>3, RemoveTypes DEF EntryInv, Types, Stages
<1>5. EndsBegan'
  BY <1>1, <1>3, SameOwners DEF EntryInv, Types, EndsBegan
<1>6. ASSUME NEW n \in Nodes, NEW name \in Names, peers'[n][name] # None
      PROVE  Entry(n, name, peers'[n][name], stage', owners')
  <2>1. ~(n = node(e) /\ name = peerInfo(e)) /\ peers'[n][name] = peers[n][name]
    BY <1>2, <1>3, <1>6, RemoveTypes
  <2>2. peers[n][name] \in Ends /\ Entry(n, name, peers[n][name], stage, owners)
    BY <1>6, <2>1, EntryIsEnd, EntryOfInv
  <2>3. peers[n][name] = e => name # peerInfo(e)
    BY <1>6, <2>1, EntryIsEnd
  <2>4. stage'[peers[n][name]] = IF peers[n][name] = e THEN "gone" ELSE stage[peers[n][name]]
    BY <1>3, <2>2 DEF EntryInv, Types
  <2> QED
    BY <1>3, <2>1, <2>2, <2>3, <2>4 DEF Entry, peerInfo, node
<1> QED
  BY <1>4, <1>5, <1>6, EntriesInv

\* A new connection has the ends of no entry.
LEMMA BeginAddKeepsEntries ==
    ASSUME EntryInv, NEW n \in Nodes, NEW target \in Names, NEW c \in Conns, BeginAdd(n, target, c)
    PROVE  EntryInv'
<1>1. PICK m \in Nodes : owners' = [owners EXCEPT ![c] = <<n, m>>]
  BY DEF BeginAdd
<1>2. /\ stage' = [e \in Ends |-> IF e[1] = c THEN "shaking" ELSE stage[e]]
      /\ open' = [e \in Ends |-> e[1] = c \/ open[e]]
      /\ peers' = peers /\ ~used(c)
  BY DEF BeginAdd
<1>3. Types'
  BY <1>1, <1>2 DEF EntryInv, Types, Stages
<1>4. \A d \in Conns : owners'[d] = IF d = c THEN <<n, m>> ELSE owners[d]
  BY <1>1 DEF EntryInv, Types
<1>5. EndsBegan'
  <2>1. <<n, m>> # <<>>
    OBVIOUS
  <2>2. \A d \in Conns : used(d)' = (d = c \/ used(d))
    BY <1>4, <2>1 DEF used, None
  <2> QED
    BY <1>2, <2>2, FarEnd DEF EntryInv, EndsBegan
<1>6. ASSUME NEW e \in Ends, used(e[1])
      PROVE  /\ stage'[e] = stage[e]
             /\ owners'[e[1]] = owners[e[1]] /\ owners'[far(e)[1]] = owners[far(e)[1]]
  <2>1. e[1] # c /\ far(e)[1] # c /\ far(e) \in Ends /\ e[1] \in Conns
    BY <1>2, <1>6, FarEnd
  <2>2. owners'[e[1]] = owners[e[1]] /\ owners'[far(e)[1]] = owners[far(e)[1]]
    BY <1>4, <2>1, FarEnd
  <2> QED
    BY <1>2, <2>1, <2>2
<1>7. ASSUME NEW k \in Nodes, NEW name \in Names, peers'[k][name] # None
      PROVE  Entry(k, name, peers'[k][name], stage', owners')
  BY <1>2, <1>6, <1>7, EntryIsEnd, EntryOfInv DEF Entry
<1> QED
  BY <1>3, <1>5, <1>7, EntriesInv

LEMMA EntryInvHoldsInitially == Init => EntryInv
<1> SUFFICES ASSUME Init PROVE EntryInv
  OBVIOUS
<1>1. \A n \in Nodes, name \in Names : peers[n][name] = None
  BY DEF Init
<1>2. \A c \in Conns : ~used(c)
  BY DEF Init, used
<1>3. Types
  BY DEF Init, Types, Stages
<1>4. EndsBegan
  BY <1>2, FarEnd DEF Init, EndsBegan
<1> QED
  BY <1>1, <1>3, <1>4 DEF EntryInv, EntriesBegan, EntryHasHandler

\* A step of the accept loop or of Add that stores.
LEMMA PairingStores ==
    ASSUME EntryInv, NEW c \in Conns,
           AcceptPeer(c) \/ (\E target \in Names : FinishAdd(c, target))
    PROVE  \E e \in Ends, target \in Names :
              /\ stage[e] = "shaking"
              /\ Store(e, target)
              /\ UNCHANGED <<owners, open>>
<1>1. CASE AcceptPeer(c)
  <2>1. receiver(c) \in Ends /\ stage[receiver(c)] = "shaking"
    BY <1>1, EndsOf DEF AcceptPeer
  <2>2. used(receiver(c)[1])
    BY <2>1 DEF EntryInv, EndsBegan
  <2>3. peerInfo(receiver(c)) \in Names
    BY <2>1, <2>2, NodeOfEnd DEF EntryInv
  <2> QED
    BY <1>1, <2>1, <2>3 DEF AcceptPeer
<1>2. CASE \E target \in Names : FinishAdd(c, target)
  <2>1. PICK target \in Names : FinishAdd(c, target)
    BY <1>2
  <2> QED
    BY <2>1, EndsOf DEF FinishAdd
<1> QED
  BY <1>1, <1>2

LEMMA NextKeepsEntries ==
    ASSUME EntryInv, [Next]_vars
    PROVE  EntryInv'
<1>1. ASSUME NEW n \in Nodes, NEW name \in Names, Remove(n, name)
      PROVE  EntryInv'
  BY <1>1, RemoveKeepsEntries
<1>2. ASSUME NEW n \in Nodes, NEW name \in Names, NEW c \in Conns, BeginAdd(n, name, c)
      PROVE  EntryInv'
  BY <1>2, BeginAddKeepsEntries
<1>3. ASSUME NEW c \in Conns, AcceptPeer(c) \/ (\E target \in Names : FinishAdd(c, target))
      PROVE  EntryInv'
  BY <1>3, PairingStores, StoreKeepsEntries
<1>4. ASSUME NEW c \in Conns, SendAck(c)
      PROVE  EntryInv'
  BY <1>4, EndMovesKeepEntries DEF SendAck, EntryInv, Types
<1>5. ASSUME NEW c \in Conns, Cut(c)
      PROVE  EntryInv'
  <2>1. open' \in [Ends -> BOOLEAN] /\ UNCHANGED <<peers, owners, stage>>
    BY <1>5 DEF Cut, EntryInv, Types
  <2> QED
    BY <2>1, EndMovesKeepEntries DEF EntryInv, Types
<1>6. ASSUME NEW e \in Ends, ShakeFails(e)
      PROVE  EntryInv'
  <2>1. stage' = [stage EXCEPT ![e] = "failed"] /\ open' = [open EXCEPT ![e] = FALSE]
    BY <1>6 DEF ShakeFails
  <2>2. stage[e] = "shaking" /\ UNCHANGED <<peers, owners>>
    BY <1>6 DEF ShakeFails, CanFail
  <2> QED
    BY <2>1, <2>2, EndMovesKeepEntries DEF EntryInv, Types, Stages, Handled
<1>7. ASSUME NEW e \in Ends, StartHandler(e)
      PROVE  EntryInv'
  <2>1. PICK s \in {"serving", "deaf"} : stage' = [stage EXCEPT ![e] = s]
    BY <1>7 DEF StartHandler
  <2>2. stage[e] = "starting" /\ UNCHANGED <<peers, owners, open>>
    BY <1>7 DEF StartHandler
  <2> QED
    BY <2>1, <2>2, EndMovesKeepEntries DEF EntryInv, Types, Stages, Handled
<1>8. ASSUME NEW e \in Ends, LeavePeer(e)
      PROVE  EntryInv'
  BY <1>8, LeaveKeepsEntries
<1>9. CASE UNCHANGED vars
  BY <1>9, EndMovesKeepEntries DEF vars, EntryInv, Types
<1> QED
  BY <1>1, <1>2, <1>3, <1>4, <1>5, <1>6, <1>7, <1>8, <1>9 DEF Next

\* Whatever nodes add and remove, under whatever names, and whichever handshakes
\* and connections fail: an entry of a peers map is an end of its own node, and if
\* it has the name the far end announced, its handlePeer, who alone would remove
\* it, runs.
THEOREM EntriesAreHandled == Spec => []EntryHasHandler
<1>1. EntryInv => EntryHasHandler
  BY DEF EntryInv
<1> QED
  BY <1>1, EntryInvHoldsInitially, NextKeepsEntries, PTL DEF Spec

-----------------------------------------------------------------------------
(* An entry reaches a node, once all is quiet.                             *)

\* A connection is over for both ends when it is over for one: its handshake
\* failed, or its handlePeer found an end closed.
GoneIsClosed ==
    \A e \in Ends : stage[e] \in {"gone", "failed"} => ~open[e] \/ ~open[far(e)]

ReachInv == EntryInv /\ GoneIsClosed

\* A step that closes ends, and ends none of which it leaves the connection open.
LEMMA ClosingKeepsReach ==
    ASSUME ReachInv, EntryInv',
           \A e \in Ends : ~open[e] => ~open'[e],
           \A e \in Ends :
               stage'[e] # stage[e] /\ stage'[e] \in {"gone", "failed"} =>
                   ~open'[e] \/ ~open'[far(e)]
    PROVE  ReachInv'
<1>1. ASSUME NEW e \in Ends, stage'[e] \in {"gone", "failed"}
      PROVE  ~open'[e] \/ ~open'[far(e)]
  <2>1. CASE stage'[e] = stage[e]
    BY <1>1, <2>1, FarEnd DEF ReachInv, GoneIsClosed
  <2>2. CASE stage'[e] # stage[e]
    BY <1>1, <2>2
  <2> QED
    BY <2>1, <2>2
<1> QED
  BY <1>1 DEF ReachInv, GoneIsClosed

\* A new connection is over at neither end.
LEMMA BeginAddKeepsReach ==
    ASSUME ReachInv, NEW n \in Nodes, NEW target \in Names, NEW c \in Conns, BeginAdd(n, target, c)
    PROVE  ReachInv'
<1>1. EntryInv'
  BY BeginAddKeepsEntries DEF ReachInv
<1>2. \A e \in Ends : /\ stage'[e] = IF e[1] = c THEN "shaking" ELSE stage[e]
                      /\ open'[e] = (e[1] = c \/ open[e])
  BY DEF BeginAdd
<1>3. GoneIsClosed'
  BY <1>2, FarEnd DEF ReachInv, GoneIsClosed
<1> QED
  BY <1>1, <1>3 DEF ReachInv

LEMMA ReachInvHoldsInitially == Init => ReachInv
  BY EntryInvHoldsInitially DEF Init, ReachInv, GoneIsClosed

LEMMA NextKeepsReach ==
    ASSUME ReachInv, [Next]_vars
    PROVE  ReachInv'
<1>0. EntryInv /\ EntryInv'
  BY NextKeepsEntries DEF ReachInv
<1>1. ASSUME NEW n \in Nodes, NEW name \in Names, Remove(n, name)
      PROVE  ReachInv'
  <2>1. RemovePeer(n, name) /\ UNCHANGED stage
    BY <1>1 DEF Remove
  <2> QED
    BY <1>0, <2>1, RemoveTypes, ClosingKeepsReach
<1>2. ASSUME NEW n \in Nodes, NEW name \in Names, NEW c \in Conns, BeginAdd(n, name, c)
      PROVE  ReachInv'
  BY <1>2, BeginAddKeepsReach
<1>3. ASSUME NEW c \in Conns, AcceptPeer(c) \/ (\E target \in Names : FinishAdd(c, target))
      PROVE  ReachInv'
  <2>1. PICK e \in Ends, target \in Names : Store(e, target) /\ UNCHANGED open
    BY <1>0, <1>3, PairingStores
  <2>2. \A d \in Ends : stage'[d] # stage[d] => stage'[d] = "starting"
    BY <1>0, <2>1 DEF Store, EntryInv, Types
  <2> QED
    BY <1>0, <2>1, <2>2, ClosingKeepsReach
<1>4. ASSUME NEW c \in Conns, SendAck(c)
      PROVE  ReachInv'
  BY <1>0, <1>4, ClosingKeepsReach DEF SendAck
<1>5. ASSUME NEW c \in Conns, Cut(c)
      PROVE  ReachInv'
  <2>1. \A e \in Ends : ~open[e] => ~open'[e]
    BY <1>5 DEF Cut
  <2>2. UNCHANGED stage
    BY <1>5 DEF Cut
  <2> QED
    BY <1>0, <2>1, <2>2, ClosingKeepsReach
<1>6. ASSUME NEW e \in Ends, ShakeFails(e)
      PROVE  ReachInv'
  <2>1. stage' = [stage EXCEPT ![e] = "failed"] /\ open' = [open EXCEPT ![e] = FALSE]
    BY <1>6 DEF ShakeFails
  <2>2. /\ ~open'[e]
        /\ \A d \in Ends : ~open[d] => ~open'[d]
        /\ \A d \in Ends : stage'[d] # stage[d] => d = e
    BY <1>0, <2>1 DEF EntryInv, Types
  <2> QED
    BY <1>0, <2>2, ClosingKeepsReach
<1>7. ASSUME NEW e \in Ends, StartHandler(e)
      PROVE  ReachInv'
  <2>1. PICK s \in {"serving", "deaf"} : stage' = [stage EXCEPT ![e] = s]
    BY <1>7 DEF StartHandler
  <2>2. UNCHANGED open
    BY <1>7 DEF StartHandler
  <2>3. \A d \in Ends : stage'[d] # stage[d] => stage'[d] \in {"serving", "deaf"}
    BY <1>0, <2>1 DEF EntryInv, Types
  <2> QED
    BY <1>0, <2>2, <2>3, ClosingKeepsReach
<1>8. ASSUME NEW e \in Ends, LeavePeer(e)
      PROVE  ReachInv'
  <2>1. used(e[1])
    BY <1>0, <1>8 DEF LeavePeer, EntryInv, EndsBegan
  <2>2. node(e) \in Nodes /\ peerInfo(e) \in Names
    BY <1>0, <2>1, NodeOfEnd DEF EntryInv
  <2>3. \A d \in Ends : ~open[d] => ~open'[d]
    BY <1>0, <1>8, <2>2, RemoveTypes DEF LeavePeer
  <2>4. \A d \in Ends : stage'[d] # stage[d] => d = e
    BY <1>0, <1>8 DEF LeavePeer, EntryInv, Types
  <2>5. ~open'[e] \/ ~open'[far(e)]
    BY <1>8, <2>3, FarEnd DEF LeavePeer
  <2> QED
    BY <1>0, <2>3, <2>4, <2>5, ClosingKeepsReach
<1>9. CASE UNCHANGED vars
  BY <1>0, <1>9, ClosingKeepsReach DEF vars
<1> QED
  BY <1>1, <1>2, <1>3, <1>4, <1>5, <1>6, <1>7, <1>8, <1>9 DEF Next

\* An entry at rest has both ends open, so the other handler cannot be through.
LEMMA ReachInvSuffices == ReachInv => EntriesReach
<1> SUFFICES ASSUME ReachInv, AtRest, NEW n \in Nodes, NEW name \in Names,
                    peers[n][name] # None, stage[peers[n][name]] \notin {"deaf", "gone"}
             PROVE  LET e == peers[n][name]
                    IN  open[e] /\ open[far(e)] /\ stage[far(e)] \in Handled
  BY DEF EntriesReach
<1>1. PICK e \in Ends : e = peers[n][name]
  BY EntryIsEnd DEF ReachInv
<1>2. used(e[1]) /\ stage[e] \in Handled
  BY <1>1, EntryIsEnd DEF ReachInv
<1>3. stage[e] = "serving"
  BY <1>1, <1>2 DEF AtRest, Handled
<1>4. open[e] /\ open[far(e)]
  BY <1>3 DEF AtRest
<1>5. far(e) \in Ends /\ far(far(e)) = e /\ far(e)[1] = e[1]
  BY FarEnd
<1>6. stage[far(e)] \notin {"gone", "failed"}
  BY <1>4, <1>5 DEF ReachInv, GoneIsClosed
<1>7. stage[far(e)] \notin {"none", "shaking"}
  BY <1>2, <1>5 DEF ReachInv, EntryInv, EndsBegan, AtRest
<1>8. stage[far(e)] \in Handled
  BY <1>5, <1>6, <1>7 DEF ReachInv, EntryInv, Types, Stages
<1> QED
  BY <1>1, <1>4, <1>8

\* Once no goroutine of a transport has anything left to do, what a node sends
\* over an entry of its peers map whose handlePeer is neither deaf nor gone reaches
\* a running handlePeer at the far end, whichever connections crossed, replaced
\* each other or failed, and whatever name the entry is filed under.
THEOREM EntriesReachAtRest == Spec => []EntriesReach
  BY ReachInvHoldsInitially, NextKeepsReach, ReachInvSuffices, PTL DEF Spec

=============================================================================
