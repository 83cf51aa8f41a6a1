----------------------------- MODULE Transport ------------------------------
(***************************************************************************)
(* The peers maps of the transports of a cluster (p2p/communication.go):   *)
(* which connection, if any, a node has under the name of another one.     *)
(*                                                                         *)
(* A name (PeerHostInfo) is what a user typed or a list brought: it leads  *)
(* to an address, where any of the nodes At[name] may listen.  What a node *)
(* calls itself, Announced, is what it tells in the handshake.  Add files  *)
(* a connection under the name it was asked for, the accept loop under the *)
(* name the initiator announced, and handlePeer removes the announced one. *)
(*                                                                         *)
(* Two nodes may have several connections at a time: Add looks for the     *)
(* name before it connects and stores when it is done, the accept loop     *)
(* stores without looking, and neither closes what it replaces.  handlePeer*)
(* removes by name when its own connection ends, whatever connection has   *)
(* the name by then.  Of the handshake, whose messages PeerLink models,    *)
(* only the last matters here: the receiver stores once it has sent it,    *)
(* the initiator once it has read it.                                      *)
(***************************************************************************)
EXTENDS Integers, FiniteSets

CONSTANTS
    Nodes,      \* the nodes of the cluster
    Names,      \* the names they are known by
    Announced,  \* the name a node gives itself: TCPLayer.LocalID
    At,         \* the nodes that may listen at the address of a name
    Conns,      \* connections that can be made, over all
    MaxCuts     \* bound: handshakes and connections that fail

\* No connection.
None == <<>>

\* The two ends of a connection: the initiator's, then the receiver's.
Ends == Conns \X {1, 2}

ASSUME TransportAssumption ==
    /\ Announced \in [Nodes -> Names]
    /\ At \in [Names -> SUBSET Nodes]
    /\ MaxCuts \in Nat

VARIABLES
    peers,      \* TCPLayer.peers of a node: its end of a connection per name, or None
    owners,     \* the nodes of a connection, initiator first, or None
    acked,      \* the receiver of a connection has sent the last message of the handshake
    stage,      \* of an end: "none", "shaking", "starting", "serving", "deaf", "gone", "failed"
    open,       \* this end has not closed the connection
    adding,     \* the connection Add is making and the name it is for, or None
    cuts

vars == <<peers, owners, acked, stage, open, adding, cuts>>

\* handlePeer runs.
Handled == {"starting", "serving", "deaf"}

Init ==
    /\ peers = [n \in Nodes |-> [name \in Names |-> None]]
    /\ owners = [c \in Conns |-> None]
    /\ acked = [c \in Conns |-> FALSE]
    /\ stage = [e \in Ends |-> "none"]
    /\ open = [e \in Ends |-> FALSE]
    /\ adding = [n \in Nodes |-> None]
    /\ cuts = 0

initiator(c) == <<c, 1>>
receiver(c) == <<c, 2>>
far(e) == <<e[1], 3 - e[2]>>
used(c) == owners[c] # None
node(e) == owners[e[1]][e[2]]

\* Peer.GetPeerInfo: the name the other end announced.
peerInfo(e) == Announced[node(far(e))]

-----------------------------------------------------------------------------
(* Pairing.                                                                *)

\* Add as far as the dial: not to the name of the node itself, not to a name in
\* the map.  Commands run one after the other, so a node has one Add at a time.
BeginAdd(n, target, c) ==
    /\ target # Announced[n]
    /\ adding[n] = None
    /\ peers[n][target] = None
    /\ ~used(c)
    /\ \E m \in At[target] : owners' = [owners EXCEPT ![c] = <<n, m>>]
    /\ adding' = [adding EXCEPT ![n] = <<c, target>>]
    /\ stage' = [e \in Ends |-> IF e[1] = c THEN "shaking" ELSE stage[e]]
    /\ open' = [e \in Ends |-> e[1] = c \/ open[e]]
    /\ UNCHANGED <<peers, acked, cuts>>

\* The receiver read the initiator's name and sends its own again, as an
\* acknowledgement.  Whether the initiator still waits for it does not matter.
SendAck(c) ==
    /\ stage[receiver(c)] = "shaking"
    /\ ~acked[c]
    /\ acked' = [acked EXCEPT ![c] = TRUE]
    /\ UNCHANGED <<peers, owners, stage, open, adding, cuts>>

\* addPeer and go handlePeer.
Store(e, name) ==
    /\ peers' = [peers EXCEPT ![node(e)][name] = e]
    /\ stage' = [stage EXCEPT ![e] = "starting"]

\* The accept loop: the acknowledgement was written, whether or not anybody
\* reads it.
AcceptPeer(c) ==
    /\ acked[c]
    /\ stage[receiver(c)] = "shaking"
    /\ Store(receiver(c), peerInfo(receiver(c)))
    /\ UNCHANGED <<owners, acked, open, adding, cuts>>

\* Add: the acknowledgement came.  The connection is stored under the name Add
\* was called with, whatever name came with it.
FinishAdd(c, target) ==
    /\ acked[c]
    /\ stage[initiator(c)] = "shaking"
    /\ adding[node(initiator(c))] = <<c, target>>
    /\ Store(initiator(c), target)
    /\ adding' = [adding EXCEPT ![node(initiator(c))] = None]
    /\ UNCHANGED <<owners, acked, open, cuts>>

\* An end is not through with Shake: after its last write the receiver is.
CanFail(e) == stage[e] = "shaking" /\ ~(e = receiver(e[1]) /\ acked[e[1]])

\* The reason of a failure: the other end is closed, or time is up.
Fails(e) == IF open[e] /\ open[far(e)] THEN cuts < MaxCuts /\ cuts' = cuts + 1 ELSE UNCHANGED cuts

\* Mutant: Add does not close the connection when Shake fails.
ShakeFails_KeepsOpen(e) ==
    /\ CanFail(e)
    /\ Fails(e)
    /\ stage' = [stage EXCEPT ![e] = "failed"]
    /\ adding' = IF e = initiator(e[1]) THEN [adding EXCEPT ![node(e)] = None] ELSE adding
    /\ UNCHANGED <<peers, owners, acked, open>>

\* Shake fails at one end, which closes the connection.
ShakeFails(e) ==
    /\ CanFail(e)
    /\ Fails(e)
    /\ stage' = [stage EXCEPT ![e] = "failed"]
    /\ open' = [open EXCEPT ![e] = FALSE]
    /\ adding' = IF e = initiator(e[1]) THEN [adding EXCEPT ![node(e)] = None] ELSE adding
    /\ UNCHANGED <<peers, owners, acked>>

\* handlePeer opens its receive session.  If the connection has ended already
\* and its read loop too, nothing will ever come out of it (see PeerLink).
StartHandler(e) ==
    /\ stage[e] = "starting"
    /\ \/ stage' = [stage EXCEPT ![e] = "serving"]
       \/ /\ ~open[e] \/ ~open[far(e)]
          /\ stage' = [stage EXCEPT ![e] = "deaf"]
    /\ UNCHANGED <<peers, owners, acked, open, adding, cuts>>

-----------------------------------------------------------------------------
(* The end of a connection.                                                *)

\* removePeer: closes and forgets the connection the name stands for now.
RemovePeer(n, name) ==
    /\ peers' = [peers EXCEPT ![n][name] = None]
    /\ open' = IF peers[n][name] = None THEN open ELSE [open EXCEPT ![peers[n][name]] = FALSE]

\* DisconnectFrom, in a command.
Remove(n, name) ==
    /\ adding[n] = None
    /\ peers[n][name] # None
    /\ RemovePeer(n, name)
    /\ UNCHANGED <<owners, acked, stage, adding, cuts>>

\* The network breaks a connection: neither end can use it any more.
Cut(c) ==
    /\ cuts < MaxCuts
    /\ \A e \in {initiator(c), receiver(c)} : stage[e] \in Handled /\ open[e]
    /\ cuts' = cuts + 1
    /\ open' = [e \in Ends |-> e[1] # c /\ open[e]]
    /\ UNCHANGED <<peers, owners, acked, stage, adding>>

\* Mutant: handlePeer closes its connection and leaves the entry.
LeavePeer_OwnOnly(e) ==
    /\ stage[e] = "serving"
    /\ ~open[e] \/ ~open[far(e)]
    /\ stage' = [stage EXCEPT ![e] = "gone"]
    /\ open' = [open EXCEPT ![e] = FALSE]
    /\ UNCHANGED <<peers, owners, acked, adding, cuts>>

\* handlePeer notices that either end closed, and removes the announced name.
LeavePeer(e) ==
    /\ stage[e] = "serving"
    /\ ~open[e] \/ ~open[far(e)]
    /\ stage' = [stage EXCEPT ![e] = "gone"]
    /\ RemovePeer(node(e), peerInfo(e))
    /\ UNCHANGED <<owners, acked, adding, cuts>>

Next ==
    \/ \E n \in Nodes, name \in Names :
          Remove(n, name) \/ (\E c \in Conns : BeginAdd(n, name, c))
    \/ \E c \in Conns :
          \/ SendAck(c) \/ AcceptPeer(c) \/ Cut(c)
          \/ \E target \in Names : FinishAdd(c, target)
    \/ \E e \in Ends : ShakeFails(e) \/ StartHandler(e) \/ LeavePeer(e)

Spec == Init /\ [][Next]_vars

-----------------------------------------------------------------------------
(* Properties.                                                             *)

\* Every entry is an end of the node's own.  If it is filed under the name the
\* other node announced, its handlePeer runs: nobody else would ever remove it.
EntryHasHandler ==
    \A n \in Nodes, name \in Names :
        LET e == peers[n][name] IN
        e # None => node(e) = n /\ (name = peerInfo(e) => stage[e] \in Handled)

\* No goroutine has anything to do.
AtRest ==
    \A e \in Ends :
        /\ stage[e] \notin {"shaking", "starting"}
        /\ stage[e] = "serving" => open[e] /\ open[far(e)]

\* Whatever connections came and went, crossed, failed half way or broke: once
\* nothing is left to do, what a node sends over an entry reaches a node.  Both
\* ends are open and the other end's handlePeer runs, be it the one that node
\* would use to answer or not: of two connections that crossed, each end may keep
\* another one, or only one end may keep one.  Left out are an entry that
\* PeerLink's gap made deaf, and one whose handlePeer is gone, which can only be
\* filed under a name that was not announced (EntryHasHandler).
EntriesReach ==
    AtRest =>
        \A n \in Nodes, name \in Names :
            LET e == peers[n][name] IN
            e # None /\ stage[e] \notin {"deaf", "gone"} =>
                open[e] /\ open[far(e)] /\ stage[far(e)] \in Handled

\* What the code does not keep: that no entry stays once its handler is gone,
\* whatever name it is filed under (Add, handlePeer).
NoEntryOutlives ==
    \A n \in Nodes, name \in Names :
        peers[n][name] # None => stage[peers[n][name]] \in Handled

=============================================================================
