----------------------------- MODULE Membership -----------------------------
(***************************************************************************)
(* Who belongs to a cluster: the server that hands out site ids            *)
(* (cluster/server.go, cluster/store.go), the clients that join, ask who   *)
(* is there and pair with them (cluster/client.go, cluster/cvrdtpeer.go).  *)
(*                                                                         *)
(* A client is one run of the program, and two runs may be of the same     *)
(* user: one after the other, or one beside the other by mistake.  The     *)
(* address on which a client's peer listens is its own; one that has to ask*)
(* again to join gives it again.                                           *)
(*                                                                         *)
(* The server handles every message in a goroutine of its own, so requests *)
(* and exits are handled in any order.  A connection may end at any time,  *)
(* between peers too; Transport and PeerLink tell how, and that the exit of*)
(* a connection is not always announced.  A message is lost with the       *)
(* connection it is on.                                                    *)
(***************************************************************************)
EXTENDS Integers, FiniteSets

CONSTANTS
    Users,      \* names under which clients register: UserData
    Clients,    \* runs of the program
    User,       \* of each client
    MaxTries,   \* bound: requests each client sends
    MaxLives,   \* bound: times a server is started
    None        \* no value

\* A PeerHostInfo the server made.  The life is not part of it: it tells the
\* properties which server did.
Info == [life : Nat, id : Nat, client : Clients]

ASSUME MembershipAssumption ==
    /\ None \notin Users \cup Clients \cup Info
    /\ User \in [Clients -> Users]
    /\ MaxTries \in [Clients -> Nat]
    /\ MaxLives \in Nat

VARIABLES
    life,       \* times a server was started
    autoIncId, clientCreatedPeers,      \* ClusterStore
    serverPeers,\* the server's peers map: a client by user, or None
    pending,    \* requests the server has yet to handle
    exits,      \* PEER_EXIT messages it has yet to handle, by user
    leaving,    \* handlePeer calls of ended connections at the server, by user
    made,       \* history: all that AddNewPeer registered, in every life
    conn,       \* a client's connection to the server is up
    link,       \* it is in the client's peers map
    phase,      \* what a client is at: "idle", "join", "retrieve", "align", "dead"
    tries,      \* requests it has sent
    answer,     \* the answer on its way to the session it waits on, or None
    info,       \* peerClient.Id, or None while clientActiveFlag is not set
    listening,  \* its peer accepts connections
    peers,      \* its peer's peers map
    todo, gone  \* alignWithPeersData: to pair with, then to disconnect from

server == <<life, autoIncId, clientCreatedPeers, serverPeers, pending, exits, leaving, made>>
alignment == <<todo, gone>>
vars == <<server, conn, link, phase, tries, answer, info, listening, peers, alignment>>

Init ==
    /\ life = 1
    /\ autoIncId = 0
    /\ clientCreatedPeers = [u \in Users |-> None]
    /\ serverPeers = [u \in Users |-> None]
    /\ pending = {}
    /\ exits = [u \in Users |-> 0]
    /\ leaving = [u \in Users |-> 0]
    /\ made = {}
    /\ conn = [c \in Clients |-> FALSE]
    /\ link = [c \in Clients |-> FALSE]
    /\ phase = [c \in Clients |-> "idle"]
    /\ tries = [c \in Clients |-> 0]
    /\ answer = [c \in Clients |-> None]
    /\ info = [c \in Clients |-> None]
    /\ listening = [c \in Clients |-> FALSE]
    /\ peers = [c \in Clients |-> {}]
    /\ todo = [c \in Clients |-> {}]
    /\ gone = [c \in Clients |-> {}]

active(c) == info[c] # None

-----------------------------------------------------------------------------
(* Requests of a client.                                                   *)

\* pingClusterServer: a session of its own for each request.
Ping(c, topic) ==
    /\ tries[c] < MaxTries[c]
    /\ tries' = [tries EXCEPT ![c] = @ + 1]
    /\ phase' = [phase EXCEPT ![c] = topic]
    /\ pending' = pending \cup {[topic |-> topic, client |-> c, try |-> tries'[c]]}

\* ConnectToCluster: once only, and not while the name is still in the map.
ConnectToCluster(c) ==
    /\ phase[c] = "idle"
    /\ ~active(c)
    /\ ~link[c]
    /\ Ping(c, "join")
    /\ link' = [link EXCEPT ![c] = TRUE]
    /\ conn' = [conn EXCEPT ![c] = TRUE]
    /\ serverPeers' = [serverPeers EXCEPT ![User[c]] = c]
    /\ UNCHANGED <<life, autoIncId, clientCreatedPeers, exits, leaving, made>>
    /\ UNCHANGED <<answer, info, listening, peers, alignment>>

\* DiffuseData, first step: the broadcast needs a connection.
DiffuseData(c) ==
    /\ phase[c] = "idle"
    /\ active(c)
    /\ link[c]
    /\ conn[c]
    /\ Ping(c, "retrieve")
    /\ UNCHANGED <<life, autoIncId, clientCreatedPeers, serverPeers, exits, leaving, made>>
    /\ UNCHANGED <<conn, link, answer, info, listening, peers, alignment>>

\* WaitOn gives up, and the command fails.
TimeOut(c) ==
    /\ phase[c] \in {"join", "retrieve"}
    /\ phase' = [phase EXCEPT ![c] = "idle"]
    /\ answer' = [answer EXCEPT ![c] = None]
    /\ UNCHANGED <<server, conn, link, tries, info, listening, peers, alignment>>

-----------------------------------------------------------------------------
(* The server.                                                             *)

currentPeers(store) == {store[u] : u \in {w \in Users : store[w] # None}}

\* session.Send goes to whoever has the user's name in the peers map, and is
\* read by the session that waits, if it still does.
Respond(r, own, list) ==
    answer' =
        IF /\ serverPeers[User[r.client]] = r.client
           /\ conn[r.client]
           /\ phase[r.client] = r.topic
           /\ tries[r.client] = r.try
        THEN [answer EXCEPT ![r.client] = [own |-> own, list |-> list]]
        ELSE answer

\* PING_RETRIEVE.
HandleRetrieve(r) ==
    /\ r \in pending
    /\ r.topic = "retrieve"
    /\ pending' = pending \ {r}
    /\ Respond(r, None, currentPeers(clientCreatedPeers))
    /\ UNCHANGED <<life, autoIncId, clientCreatedPeers, serverPeers, exits, leaving, made>>
    /\ UNCHANGED <<conn, link, phase, tries, info, listening, peers, alignment>>

\* Mutant: the id is the number of members.
AddNewPeer_Counted(r) ==
    LET new == [life |-> life, client |-> r.client,
                id |-> Cardinality(currentPeers(clientCreatedPeers)) + 1] IN
    /\ autoIncId' = autoIncId + 1
    /\ clientCreatedPeers' = [clientCreatedPeers EXCEPT ![User[r.client]] = new]
    /\ made' = made \cup {new}
    /\ Respond(r, new, currentPeers(clientCreatedPeers'))

\* AddNewPeer of a user who is not registered.
AddNewPeer(r) ==
    LET new == [life |-> life, client |-> r.client, id |-> autoIncId + 1] IN
    /\ autoIncId' = autoIncId + 1
    /\ clientCreatedPeers' = [clientCreatedPeers EXCEPT ![User[r.client]] = new]
    /\ made' = made \cup {new}
    /\ Respond(r, new, currentPeers(clientCreatedPeers'))

\* PING_JOIN.  A user who is registered gets no answer: sendError sends only
\* what could not be wrapped.
HandleJoin(r) ==
    /\ r \in pending
    /\ r.topic = "join"
    /\ pending' = pending \ {r}
    /\ IF clientCreatedPeers[User[r.client]] = None
       THEN AddNewPeer(r)
       ELSE UNCHANGED <<autoIncId, clientCreatedPeers, answer, made>>
    /\ UNCHANGED <<life, serverPeers, exits, leaving>>
    /\ UNCHANGED <<conn, link, phase, tries, info, listening, peers, alignment>>

\* PEER_EXIT: RemovePeer of the user, whichever connection it was.
HandleExit(u) ==
    /\ exits[u] > 0
    /\ exits' = [exits EXCEPT ![u] = @ - 1]
    /\ clientCreatedPeers' = [clientCreatedPeers EXCEPT ![u] = None]
    /\ UNCHANGED <<life, autoIncId, serverPeers, pending, leaving, made>>
    /\ UNCHANGED <<conn, link, phase, tries, answer, info, listening, peers, alignment>>

\* The connection to the server ends, with or without what was on it.
Disconnect(c) ==
    /\ conn[c]
    /\ conn' = [conn EXCEPT ![c] = FALSE]
    /\ leaving' = [leaving EXCEPT ![User[c]] = @ + 1]
    /\ \E lost \in SUBSET {r \in pending : r.client = c} : pending' = pending \ lost
    /\ UNCHANGED <<life, autoIncId, clientCreatedPeers, serverPeers, exits, made>>

\* The server's handlePeer of an ended connection: a PEER_EXIT or, if it reads
\* the closed message channel first, none; then removePeer of the name, which
\* closes the connection that has it now.
HandlePeerEnds(u) ==
    /\ leaving[u] > 0
    /\ exits' \in {exits, [exits EXCEPT ![u] = @ + 1]}
    /\ serverPeers' = [serverPeers EXCEPT ![u] = None]
    /\ LET c == serverPeers[u] IN
       IF c # None /\ conn[c]
       THEN /\ conn' = [conn EXCEPT ![c] = FALSE]
            /\ UNCHANGED leaving
       ELSE /\ leaving' = [leaving EXCEPT ![u] = @ - 1]
            /\ UNCHANGED conn
    /\ UNCHANGED <<life, autoIncId, clientCreatedPeers, pending, made>>
    /\ UNCHANGED <<link, phase, tries, answer, info, listening, peers, alignment>>

\* Mutant: a new server takes over the connections of the old one.
Restart_KeepsConnections ==
    /\ life < MaxLives
    /\ life' = life + 1
    /\ autoIncId' = 0
    /\ clientCreatedPeers' = [u \in Users |-> None]
    /\ UNCHANGED <<serverPeers, pending, exits, leaving, made, conn>>
    /\ UNCHANGED <<link, phase, tries, answer, info, listening, peers, alignment>>

\* The server stops and another one is started: it knows nobody.
Restart ==
    /\ life < MaxLives
    /\ life' = life + 1
    /\ autoIncId' = 0
    /\ clientCreatedPeers' = [u \in Users |-> None]
    /\ serverPeers' = [u \in Users |-> None]
    /\ pending' = {}
    /\ exits' = [u \in Users |-> 0]
    /\ leaving' = [u \in Users |-> 0]
    /\ conn' = [c \in Clients |-> FALSE]
    /\ UNCHANGED made
    /\ UNCHANGED <<link, phase, tries, answer, info, listening, peers, alignment>>

-----------------------------------------------------------------------------
(* Alignment of a peer with the list the server sent.                      *)

\* alignWithPeersData: what is paired already is looked up once, at the start.
BeginAlign(c, self, paired, list) ==
    /\ phase' = [phase EXCEPT ![c] = "align"]
    /\ todo' = [todo EXCEPT ![c] = list \ ({self} \cup paired)]
    /\ gone' = [gone EXCEPT ![c] = paired \ list]
    /\ answer' = [answer EXCEPT ![c] = None]

\* The rest of ConnectToCluster: the peer is made and will listen; clientActiveFlag.
Joined(c) ==
    /\ phase[c] = "join"
    /\ answer[c] # None
    /\ info' = [info EXCEPT ![c] = answer[c].own]
    /\ BeginAlign(c, answer[c].own, {}, answer[c].list)
    /\ UNCHANGED <<server, conn, link, tries, listening, peers>>

Listen(c) ==
    /\ active(c)
    /\ phase[c] # "dead"
    /\ ~listening[c]
    /\ listening' = [listening EXCEPT ![c] = TRUE]
    /\ UNCHANGED <<server, conn, link, phase, tries, answer, info, peers, alignment>>

Retrieved(c) ==
    /\ phase[c] = "retrieve"
    /\ answer[c] # None
    /\ BeginAlign(c, info[c], peers[c], answer[c].list)
    /\ UNCHANGED <<server, conn, link, tries, info, listening, peers>>

\* Pair: Add of one listed peer.  Whoever listens on the listed address answers,
\* be it of another life or registered again since.  Each end names the other:
\* one as the list does, the other as it announced itself.
Pair(c, v) ==
    /\ phase[c] = "align"
    /\ v \in todo[c]
    /\ v \in peers[c] \/ listening[v.client]
    /\ todo' = [todo EXCEPT ![c] = @ \ {v}]
    /\ peers' = IF v \in peers[c]
                THEN peers
                ELSE [d \in Clients |->
                        peers[d] \cup (IF d = c THEN {v} ELSE {})
                                 \cup (IF d = v.client THEN {info[c]} ELSE {})]
    /\ UNCHANGED <<server, conn, link, phase, tries, answer, info, listening, gone>>

\* Nobody listens there, or the handshake fails: the command fails, its other
\* peers are not looked at and nothing is pushed.
PairFails(c, v) ==
    /\ phase[c] = "align"
    /\ v \in todo[c] \ peers[c]
    /\ phase' = [phase EXCEPT ![c] = "idle"]
    /\ todo' = [todo EXCEPT ![c] = {}]
    /\ gone' = [gone EXCEPT ![c] = {}]
    /\ UNCHANGED <<server, conn, link, tries, answer, info, listening, peers>>

\* DisconnectFrom the unlisted; DiffuseData then pushes to whom it has.
FinishAlign(c) ==
    /\ phase[c] = "align"
    /\ todo[c] = {}
    /\ phase' = [phase EXCEPT ![c] = "idle"]
    /\ peers' = [peers EXCEPT ![c] = @ \ gone[c]]
    /\ gone' = [gone EXCEPT ![c] = {}]
    /\ UNCHANGED <<server, conn, link, tries, answer, info, listening, todo>>

-----------------------------------------------------------------------------
(* Connections and processes end.                                          *)

\* Between peers: the entry goes when its connection has ended.
PeerLeaves(c, v) ==
    /\ v \in peers[c]
    /\ peers' = [peers EXCEPT ![c] = @ \ {v}]
    /\ UNCHANGED <<server, conn, link, phase, tries, answer, info, listening, alignment>>

\* The connection to the server breaks; the answer on it may be lost.
Break(c) ==
    /\ Disconnect(c)
    /\ answer' \in {answer, [answer EXCEPT ![c] = None]}
    /\ UNCHANGED <<link, phase, tries, info, listening, peers, alignment>>

\* The client's handlePeer forgets an ended connection.
ServerLeaves(c) ==
    /\ link[c]
    /\ ~conn[c]
    /\ link' = [link EXCEPT ![c] = FALSE]
    /\ UNCHANGED <<server, conn, phase, tries, answer, info, listening, peers, alignment>>

\* The program ends, by a command or not.
Exit(c) ==
    /\ phase[c] # "dead"
    /\ phase' = [phase EXCEPT ![c] = "dead"]
    /\ IF conn[c] THEN Disconnect(c) ELSE UNCHANGED <<server, conn>>
    /\ link' = [link EXCEPT ![c] = FALSE]
    /\ answer' = [answer EXCEPT ![c] = None]
    /\ listening' = [listening EXCEPT ![c] = FALSE]
    /\ peers' = [peers EXCEPT ![c] = {}]
    /\ todo' = [todo EXCEPT ![c] = {}]
    /\ gone' = [gone EXCEPT ![c] = {}]
    /\ UNCHANGED <<tries, info>>

Next ==
    \/ \E c \in Clients :
          \/ ConnectToCluster(c) \/ DiffuseData(c) \/ TimeOut(c)
          \/ Joined(c) \/ Listen(c) \/ Retrieved(c) \/ FinishAlign(c)
          \/ Break(c) \/ ServerLeaves(c) \/ Exit(c)
          \/ \E v \in todo[c] : Pair(c, v) \/ PairFails(c, v)
          \/ \E v \in peers[c] : PeerLeaves(c, v)
    \/ \E r \in pending : HandleRetrieve(r) \/ HandleJoin(r)
    \/ \E u \in Users : HandleExit(u) \/ HandlePeerEnds(u)
    \/ Restart

Spec == Init /\ [][Next]_vars

-----------------------------------------------------------------------------
(* Properties.                                                             *)

\* Two programs that a server made sites of never have the same id, not even
\* when one of them left, was forgotten, or came back: the ids of characters
\* and operations are built from it.
OneSitePerId ==
    \A c, d \in Clients :
        c # d /\ active(c) /\ active(d) /\ info[c].life = info[d].life =>
            info[c].id # info[d].id

\* A program that more than one life of the server registered: an answer was
\* lost, the server started again, and the join was repeated.
registeredAgain(c) == \E w \in made : w.client = c /\ w.life # info[c].life

\* A server that was started again counts from 1, but sites that are paired
\* still have different ids: what an old server told its clients never mixes
\* with what the new one tells (AddNewPeer, alignWithPeersData).  The one way
\* out: an old list leads to a program that the new server has made another
\* site of.
PairedDiffer ==
    \A c \in Clients : \A v \in peers[c] :
        v.client # c /\ info[c].id = info[v.client].id =>
            registeredAgain(c) \/ registeredAgain(v.client)

\* "LogicalId represents a unique identifier" (cvrdt/operations.go:25) takes
\* more: that no two sites that are paired have one id (PairedAlike.cfg).
NeverPairedAlike ==
    \A c \in Clients : \A v \in peers[c] :
        v.client # c => info[c].id # info[v.client].id

\* Nothing is on its way and nobody is busy.
AtRest ==
    /\ pending = {}
    /\ \A u \in Users : exits[u] = 0 /\ leaving[u] = 0
    /\ \A c \in Clients : phase[c] \in {"idle", "dead"} /\ (link[c] <=> conn[c])

\* "retrieve current cluster membership peers" (cluster/client.go:101): once all
\* is quiet, those the server lists are running.  They need not be.
ListedAreRunning ==
    AtRest => \A v \in currentPeers(clientCreatedPeers) : phase[v.client] # "dead"

=============================================================================
