------------------------- MODULE Membership_proofs --------------------------
(***************************************************************************)
(* A server never makes two sites of one id, whatever users there are,     *)
(* however many programs run for one user, however often they ask, and     *)
(* whatever gets lost.                                                     *)
(*                                                                         *)
(* The argument: an id is a client's from the moment AddNewPeer puts it    *)
(* into the answer.  The client then holds it in the answer or, once it    *)
(* has joined, in peerClient.Id, and AddNewPeer goes beyond all that is    *)
(* held of its life.                                                       *)
(***************************************************************************)
EXTENDS Membership, TLAPS

invited(c) == phase[c] = "join" /\ answer[c] # None

\* What a client was given by a server, if anything.
holds(c) == invited(c) \/ active(c)
held(c) == IF invited(c) THEN answer[c].own ELSE info[c]

Types ==
    /\ life \in Nat
    /\ autoIncId \in Nat
    /\ DOMAIN phase = Clients
    /\ DOMAIN answer = Clients
    /\ DOMAIN info = Clients

\* Answers are for the session that waits; a client joins once.
Sessions ==
    \A c \in Clients :
        /\ answer[c] # None => phase[c] \in {"join", "retrieve"}
        /\ phase[c] = "join" => ~active(c)

\* No id is ahead of the server.
Counted ==
    \A c \in Clients : holds(c) =>
        /\ held(c).life \in Nat /\ held(c).id \in Nat
        /\ held(c).life < life \/ (held(c).life = life /\ held(c).id <= autoIncId)

HeldOnce ==
    \A c, d \in Clients :
        c # d /\ holds(c) /\ holds(d) /\ held(c).life = held(d).life => held(c).id # held(d).id

IdInv == Types /\ Sessions /\ Counted /\ HeldOnce

\* A step that gives nobody an id.
LEMMA NothingGiven ==
    ASSUME IdInv, Types', Sessions',
           life' = life /\ autoIncId' = autoIncId,
           \A c \in Clients : holds(c)' => holds(c) /\ held(c)' = held(c)
    PROVE  IdInv'
<1>1. Counted'
  BY DEF IdInv, Types, Counted
<1>2. HeldOnce'
  BY DEF IdInv, HeldOnce
<1> QED
  BY <1>1, <1>2 DEF IdInv

\* A step that leaves a client's session alone, or ends it.
LEMMA SessionsGoOn ==
    ASSUME IdInv,
           DOMAIN phase' = Clients, DOMAIN answer' = Clients, info' = info,
           life' = life /\ autoIncId' = autoIncId,
           \A c \in Clients :
               \/ phase'[c] = phase[c] /\ answer'[c] \in {answer[c], None}
               \/ phase'[c] # "join" /\ answer'[c] = None
    PROVE  IdInv'
<1>1. Types'
  BY DEF IdInv, Types
<1>2. Sessions'
  BY DEF IdInv, Sessions, active
<1>3. \A c \in Clients : holds(c)' => holds(c) /\ held(c)' = held(c)
  BY DEF IdInv, Sessions, holds, held, invited, active
<1> QED
  BY <1>1, <1>2, <1>3, NothingGiven

\* A request: the session of the client waits for its answer.
LEMMA PingStep ==
    ASSUME IdInv, NEW c \in Clients, phase[c] = "idle",
           NEW topic \in {"join", "retrieve"}, topic = "join" => ~active(c),
           Ping(c, topic), UNCHANGED <<life, autoIncId, answer, info>>
    PROVE  IdInv'
<1>1. answer[c] = None
  BY DEF IdInv, Sessions
<1>2. phase' = [phase EXCEPT ![c] = topic]
  BY DEF Ping
<1>3. Types'
  BY <1>2 DEF IdInv, Types
<1>4. \A d \in Clients : phase'[d] = IF d = c THEN topic ELSE phase[d]
  BY <1>2 DEF IdInv, Types
<1>5. Sessions'
  BY <1>1, <1>4 DEF IdInv, Sessions, active
<1>6. \A d \in Clients : holds(d)' => holds(d) /\ held(d)' = held(d)
  BY <1>1, <1>4 DEF holds, held, invited, active
<1> QED
  BY <1>3, <1>5, <1>6, NothingGiven

\* PING_RETRIEVE gives nobody an id.
LEMMA HandleRetrieveStep ==
    ASSUME IdInv, NEW r, HandleRetrieve(r)
    PROVE  IdInv'
<1>1. UNCHANGED <<life, autoIncId, phase, info>>
  BY DEF HandleRetrieve
<1>2. \A c \in Clients : answer'[c] = answer[c] \/ phase[c] = "retrieve"
  BY DEF HandleRetrieve, Respond, IdInv, Types
<1>3. DOMAIN answer' = Clients
  BY DEF HandleRetrieve, Respond, IdInv, Types
<1>4. Types'
  BY <1>1, <1>3 DEF IdInv, Types
<1>5. Sessions'
  BY <1>1, <1>2 DEF IdInv, Sessions, active
<1>6. \A c \in Clients : holds(c)' => holds(c) /\ held(c)' = held(c)
  BY <1>1, <1>2 DEF holds, held, invited, active
<1> QED
  BY <1>1, <1>4, <1>5, <1>6, NothingGiven

\* AddNewPeer: the new id is beyond every one that is held.
LEMMA AddNewPeerStep ==
    ASSUME IdInv, NEW r, r.topic = "join", AddNewPeer(r), UNCHANGED <<life, phase, info>>
    PROVE  IdInv'
<1> DEFINE new == [life |-> life, client |-> r.client, id |-> autoIncId + 1]
<1>1. autoIncId' = autoIncId + 1 /\ DOMAIN answer' = Clients
  BY DEF AddNewPeer, Respond, IdInv, Types
<1>2. Types'
  BY <1>1 DEF IdInv, Types
<1>3. \A c \in Clients :
         \/ answer'[c] = answer[c]
         \/ c = r.client /\ phase[c] = "join" /\ answer'[c].own = new
  BY DEF AddNewPeer, Respond, IdInv, Types
<1>4. Sessions'
  BY <1>3 DEF IdInv, Sessions, active
<1>5. \A c \in Clients : holds(c)' =>
         \/ holds(c) /\ held(c)' = held(c)
         \/ c = r.client /\ held(c)' = new
  BY <1>3 DEF IdInv, Sessions, holds, held, invited, active
<1>6. new.life = life /\ new.id = autoIncId + 1
  OBVIOUS
<1>7. Counted'
  BY <1>1, <1>5, <1>6 DEF IdInv, Types, Counted
<1>8. HeldOnce'
  <2> SUFFICES ASSUME NEW c \in Clients, NEW d \in Clients,
                      c # d, holds(c)', holds(d)', held(c)'.life = held(d)'.life
               PROVE  held(c)'.id # held(d)'.id
    BY DEF HeldOnce
  <2>1. CASE holds(c) /\ held(c)' = held(c) /\ holds(d) /\ held(d)' = held(d)
    BY <2>1 DEF IdInv, HeldOnce
  <2>2. CASE c = r.client /\ held(c)' = new /\ holds(d) /\ held(d)' = held(d)
    BY <1>6, <2>2 DEF IdInv, Types, Counted
  <2>3. CASE d = r.client /\ held(d)' = new /\ holds(c) /\ held(c)' = held(c)
    BY <1>6, <2>3 DEF IdInv, Types, Counted
  <2> QED
    BY <1>5, <2>1, <2>2, <2>3
<1> QED
  BY <1>2, <1>4, <1>7, <1>8 DEF IdInv

LEMMA HandleJoinStep ==
    ASSUME IdInv, NEW r, HandleJoin(r)
    PROVE  IdInv'
<1>1. r.topic = "join" /\ UNCHANGED <<life, phase, info>>
  BY DEF HandleJoin
<1>2. CASE AddNewPeer(r)
  BY <1>1, <1>2, AddNewPeerStep
<1>3. CASE UNCHANGED <<autoIncId, clientCreatedPeers, answer>>
  BY <1>1, <1>3, SessionsGoOn DEF IdInv, Types
<1> QED
  BY <1>2, <1>3 DEF HandleJoin

\* A client that has its answer holds the same id as peerClient.Id.
LEMMA JoinedStep ==
    ASSUME IdInv, NEW c \in Clients, Joined(c)
    PROVE  IdInv'
<1>1. UNCHANGED <<life, autoIncId>> /\ invited(c)
  BY DEF Joined, server, invited
<1>2. /\ info' = [info EXCEPT ![c] = answer[c].own]
      /\ phase' = [phase EXCEPT ![c] = "align"]
      /\ answer' = [answer EXCEPT ![c] = None]
  BY DEF Joined, BeginAlign
<1>3. Types'
  BY <1>1, <1>2 DEF IdInv, Types
<1>4. \A d \in Clients :
         /\ info'[d] = IF d = c THEN answer[c].own ELSE info[d]
         /\ phase'[d] = IF d = c THEN "align" ELSE phase[d]
         /\ answer'[d] = IF d = c THEN None ELSE answer[d]
  BY <1>2 DEF IdInv, Types
<1>5. Sessions'
  BY <1>4 DEF IdInv, Sessions, active
<1>6. \A d \in Clients : holds(d)' => holds(d) /\ held(d)' = held(d)
  BY <1>1, <1>4 DEF holds, held, invited, active
<1> QED
  BY <1>1, <1>3, <1>5, <1>6, NothingGiven

\* The new server counts from 1, in a life of its own.
LEMMA RestartStep ==
    ASSUME IdInv, Restart
    PROVE  IdInv'
<1>1. life' = life + 1 /\ autoIncId' = 0 /\ UNCHANGED <<phase, answer, info>>
  BY DEF Restart
<1>2. \A c \in Clients : (holds(c)' <=> holds(c)) /\ held(c)' = held(c)
  BY <1>1 DEF holds, held, invited, active
<1>3. Types' /\ Sessions'
  BY <1>1 DEF IdInv, Types, Sessions, active
<1>4. Counted'
  BY <1>1, <1>2 DEF IdInv, Types, Counted
<1>5. HeldOnce'
  BY <1>2 DEF IdInv, HeldOnce
<1> QED
  BY <1>3, <1>4, <1>5 DEF IdInv

LEMMA IdInvHoldsInitially == Init => IdInv
<1> SUFFICES ASSUME Init PROVE IdInv
  OBVIOUS
<1>1. \A c \in Clients : ~holds(c) /\ phase[c] = "idle" /\ answer[c] = None
  BY DEF Init, holds, invited, active
<1>2. Types
  BY DEF Init, Types
<1> QED
  BY <1>1, <1>2 DEF IdInv, Sessions, Counted, HeldOnce

LEMMA NextKeepsIdInv ==
    ASSUME IdInv, [Next]_vars
    PROVE  IdInv'
<1>1. ASSUME NEW c \in Clients, ConnectToCluster(c) PROVE IdInv'
  BY <1>1, PingStep DEF ConnectToCluster
<1>2. ASSUME NEW c \in Clients, DiffuseData(c) PROVE IdInv'
  BY <1>2, PingStep DEF DiffuseData
<1>3. ASSUME NEW c \in Clients, Joined(c) PROVE IdInv'
  BY <1>3, JoinedStep
<1>4. ASSUME NEW c \in Clients, TimeOut(c) \/ Exit(c) PROVE IdInv'
  <2>1. UNCHANGED <<life, autoIncId, info>> /\ answer' = [answer EXCEPT ![c] = None]
    BY <1>4 DEF TimeOut, Exit, Disconnect, server
  <2>2. PICK to \in {"idle", "dead"} : phase' = [phase EXCEPT ![c] = to]
    BY <1>4 DEF TimeOut, Exit
  <2>3. \A d \in Clients : phase'[d] = (IF d = c THEN to ELSE phase[d])
                        /\ answer'[d] = (IF d = c THEN None ELSE answer[d])
    BY <2>1, <2>2 DEF IdInv, Types
  <2>4. DOMAIN phase' = Clients /\ DOMAIN answer' = Clients
    BY <2>1, <2>2 DEF IdInv, Types
  <2> QED
    BY <2>1, <2>3, <2>4, SessionsGoOn
<1>5. ASSUME NEW c \in Clients, Retrieved(c) PROVE IdInv'
  <2>1. /\ UNCHANGED <<life, autoIncId, info>>
        /\ phase' = [phase EXCEPT ![c] = "align"]
        /\ answer' = [answer EXCEPT ![c] = None]
    BY <1>5 DEF Retrieved, BeginAlign, server
  <2>2. \A d \in Clients : phase'[d] = (IF d = c THEN "align" ELSE phase[d])
                        /\ answer'[d] = (IF d = c THEN None ELSE answer[d])
    BY <2>1 DEF IdInv, Types
  <2>3. DOMAIN phase' = Clients /\ DOMAIN answer' = Clients
    BY <2>1 DEF IdInv, Types
  <2> QED
    BY <2>1, <2>2, <2>3, SessionsGoOn
<1>6. ASSUME NEW c \in Clients, FinishAlign(c) \/ \E v \in todo[c] : PairFails(c, v)
      PROVE  IdInv'
  <2>1. /\ UNCHANGED <<life, autoIncId, info, answer>>
        /\ phase[c] = "align"
        /\ phase' = [phase EXCEPT ![c] = "idle"]
    BY <1>6 DEF FinishAlign, PairFails, server
  <2>2. \A d \in Clients : phase'[d] = IF d = c THEN "idle" ELSE phase[d]
    BY <2>1 DEF IdInv, Types
  <2>3. DOMAIN phase' = Clients /\ answer[c] = None
    BY <2>1 DEF IdInv, Types, Sessions
  <2>4. DOMAIN answer' = Clients
    BY <2>1 DEF IdInv, Types
  <2> QED
    BY <2>1, <2>2, <2>3, <2>4, SessionsGoOn
<1>7. ASSUME NEW c \in Clients, Break(c) PROVE IdInv'
  <2>1. /\ UNCHANGED <<life, autoIncId, info, phase>>
        /\ answer' \in {answer, [answer EXCEPT ![c] = None]}
    BY <1>7 DEF Break, Disconnect
  <2>2. DOMAIN answer' = Clients /\ DOMAIN phase' = Clients
    BY <2>1 DEF IdInv, Types
  <2>3. \A d \in Clients : answer'[d] \in {answer[d], None}
    BY <2>1 DEF IdInv, Types
  <2> QED
    BY <2>1, <2>2, <2>3, SessionsGoOn
<1>8. ASSUME \/ \E c \in Clients :
                   \/ Listen(c) \/ ServerLeaves(c)
                   \/ \E v \in todo[c] : Pair(c, v)
                   \/ \E v \in peers[c] : PeerLeaves(c, v)
             \/ \E u \in Users : HandleExit(u) \/ HandlePeerEnds(u)
             \/ UNCHANGED vars
      PROVE  IdInv'
  <2>1. UNCHANGED <<life, autoIncId, phase, answer, info>>
    BY <1>8 DEF Listen, ServerLeaves, Pair, PeerLeaves, HandleExit, HandlePeerEnds, server, vars
  <2> QED
    BY <2>1, SessionsGoOn DEF IdInv, Types
<1>9. ASSUME NEW r, HandleRetrieve(r) \/ HandleJoin(r) PROVE IdInv'
  BY <1>9, HandleRetrieveStep, HandleJoinStep
<1>10. CASE Restart
  BY <1>10, RestartStep
<1> QED
  BY <1>1, <1>2, <1>3, <1>4, <1>5, <1>6, <1>7, <1>8, <1>9, <1>10 DEF Next

\* AddNewPeer (cluster/store.go): the programs one server made sites of have
\* different ids, for ever.
THEOREM IdsAreUnique == Spec => []OneSitePerId
<1>1. IdInv => OneSitePerId
  BY DEF IdInv, Sessions, HeldOnce, OneSitePerId, holds, held, invited
<1> QED
  BY <1>1, IdInvHoldsInitially, NextKeepsIdInv, PTL DEF Spec

-----------------------------------------------------------------------------
(* Paired sites have different ids: everything a site is told is of the    *)
(* life that gave it its id, and whoever listens on a listed address is    *)
(* the program the list means.  It is a site of the same life, or one that *)
(* was registered in two.                                                  *)

Functions ==
    /\ DOMAIN conn = Clients
    /\ DOMAIN listening = Clients
    /\ DOMAIN peers = Clients
    /\ DOMAIN todo = Clients
    /\ DOMAIN clientCreatedPeers = Users

Requested == \A r \in pending : r.client \in Clients

Asking == \A c \in Clients : phase[c] = "retrieve" \/ listening[c] => active(c)

Given == \A c \in Clients : holds(c) => held(c) # None /\ held(c).client = c

StoreOfLife ==
    \A u \in Users : clientCreatedPeers[u] # None =>
        /\ clientCreatedPeers[u].life = life /\ clientCreatedPeers[u].client \in Clients
        /\ clientCreatedPeers[u] \in made

\* Who is still connected was registered by this server.
ConnectedOfLife == \A c \in Clients : conn[c] /\ holds(c) => held(c).life = life

ListOfLife ==
    \A c \in Clients : answer[c] # None =>
        \A v \in answer[c].list : v.client \in Clients /\ v.life = held(c).life /\ v \in made

TodoOfLife ==
    \A c \in Clients : \A v \in todo[c] :
        v.client \in Clients /\ active(c) /\ v.life = info[c].life /\ v \in made

PeersOfLife ==
    \A c \in Clients : \A v \in peers[c] :
        /\ v.client \in Clients
        /\ active(c) /\ active(v.client)
        /\ \/ info[v.client].life = info[c].life
           \/ registeredAgain(c) \/ registeredAgain(v.client)

LifeInv ==
    /\ Functions
    /\ Requested /\ Asking /\ Given
    /\ StoreOfLife /\ ConnectedOfLife /\ ListOfLife /\ TodoOfLife /\ PeersOfLife

\* What the server sends is of its own life.
LEMMA ListsAreOfLife ==
    ASSUME StoreOfLife
    PROVE  \A v \in currentPeers(clientCreatedPeers) :
               v.life = life /\ v.client \in Clients /\ v \in made
  BY DEF StoreOfLife, currentPeers

\* A step that leaves the clients' alignment and the registrations alone.
LEMMA LivesGoOn ==
    ASSUME IdInv, LifeInv, Functions', Requested',
           UNCHANGED <<life, info, made>>,
           \A u \in Users : clientCreatedPeers'[u] \in {clientCreatedPeers[u], None},
           \A c \in Clients :
               /\ \/ phase'[c] = phase[c] /\ answer'[c] \in {answer[c], None}
                  \/ phase'[c] \notin {"join", "retrieve"} /\ answer'[c] = None
               /\ conn'[c] => conn[c]
               /\ listening'[c] => listening[c] \/ active(c)
               /\ todo'[c] \subseteq todo[c]
               /\ peers'[c] \subseteq peers[c]
    PROVE  LifeInv'
<1>1. \A c \in Clients : /\ active(c)' <=> active(c)
                         /\ holds(c)' => holds(c) /\ held(c)' = held(c)
                         /\ answer'[c] # None => answer'[c] = answer[c] /\ held(c)' = held(c)
  BY DEF IdInv, Sessions, holds, held, invited, active
<1>2. StoreOfLife'
  BY DEF LifeInv, StoreOfLife
<1>3. Asking' /\ Given'
  BY <1>1 DEF LifeInv, Asking, Given
<1>4. ConnectedOfLife'
  BY <1>1 DEF LifeInv, ConnectedOfLife
<1>5. ListOfLife'
  BY <1>1 DEF LifeInv, ListOfLife
<1>6. TodoOfLife'
  BY <1>1 DEF LifeInv, TodoOfLife
<1>7. PeersOfLife'
  BY <1>1 DEF LifeInv, PeersOfLife, registeredAgain
<1> QED
  BY <1>2, <1>3, <1>4, <1>5, <1>6, <1>7 DEF LifeInv

LEMMA ConnectLives ==
    ASSUME IdInv, LifeInv, NEW c \in Clients, ConnectToCluster(c)
    PROVE  LifeInv'
<1>1. /\ UNCHANGED <<life, made, clientCreatedPeers, answer, info, listening, peers, todo>>
      /\ phase[c] = "idle" /\ ~active(c)
      /\ phase' = [phase EXCEPT ![c] = "join"]
      /\ conn' = [conn EXCEPT ![c] = TRUE]
      /\ pending' = pending \cup {[topic |-> "join", client |-> c, try |-> tries'[c]]}
  BY DEF ConnectToCluster, Ping, alignment
<1>2. answer[c] = None
  BY <1>1 DEF IdInv, Sessions
<1>3. \A d \in Clients : /\ phase'[d] = IF d = c THEN "join" ELSE phase[d]
                         /\ conn'[d] = IF d = c THEN TRUE ELSE conn[d]
  BY <1>1 DEF IdInv, Types, LifeInv, Functions
<1>4. \A d \in Clients : /\ active(d)' <=> active(d)
                         /\ d # c => held(d)' = held(d) /\ (holds(d)' <=> holds(d))
  BY <1>1, <1>3 DEF active, holds, held, invited
<1>5. ~holds(c)'
  BY <1>1, <1>2 DEF holds, invited, active
<1>6. Functions' /\ Requested'
  BY <1>1 DEF LifeInv, Functions, Requested
<1>7. Asking' /\ StoreOfLife' /\ TodoOfLife' /\ PeersOfLife'
  BY <1>1, <1>3, <1>4 DEF LifeInv, Asking, StoreOfLife, TodoOfLife, PeersOfLife, registeredAgain
<1>8. ConnectedOfLife' /\ ListOfLife' /\ Given'
  BY <1>1, <1>2, <1>3, <1>4, <1>5
  DEF LifeInv, ConnectedOfLife, ListOfLife, Given, holds, invited
<1> QED
  BY <1>6, <1>7, <1>8 DEF LifeInv

LEMMA DiffuseLives ==
    ASSUME IdInv, LifeInv, NEW c \in Clients, DiffuseData(c)
    PROVE  LifeInv'
<1>1. /\ UNCHANGED <<life, made, clientCreatedPeers, conn, answer, info, listening, peers, todo>>
      /\ phase[c] = "idle" /\ active(c)
      /\ phase' = [phase EXCEPT ![c] = "retrieve"]
      /\ pending' = pending \cup {[topic |-> "retrieve", client |-> c, try |-> tries'[c]]}
  BY DEF DiffuseData, Ping, alignment
<1>2. \A d \in Clients : phase'[d] = IF d = c THEN "retrieve" ELSE phase[d]
  BY <1>1 DEF IdInv, Types
<1>3. \A d \in Clients : /\ active(d)' <=> active(d)
                         /\ held(d)' = held(d) /\ (holds(d)' <=> holds(d))
  BY <1>1, <1>2 DEF active, holds, held, invited
<1>4. Functions' /\ Requested'
  BY <1>1 DEF LifeInv, Functions, Requested
<1>5. Asking' /\ StoreOfLife' /\ TodoOfLife' /\ PeersOfLife'
  BY <1>1, <1>2, <1>3 DEF LifeInv, Asking, StoreOfLife, TodoOfLife, PeersOfLife, registeredAgain
<1>6. ConnectedOfLife' /\ ListOfLife' /\ Given'
  BY <1>1, <1>2, <1>3 DEF LifeInv, ConnectedOfLife, ListOfLife, Given, invited
<1> QED
  BY <1>4, <1>5, <1>6 DEF LifeInv

LEMMA RetrieveLives ==
    ASSUME IdInv, LifeInv, NEW r, HandleRetrieve(r)
    PROVE  LifeInv'
<1>1. /\ UNCHANGED <<life, made, clientCreatedPeers, conn, phase, info, listening, peers, todo>>
      /\ pending' = pending \ {r}
      /\ r.topic = "retrieve"
  BY DEF HandleRetrieve, alignment
<1>2. \A c \in Clients :
         \/ answer'[c] = answer[c]
         \/ /\ conn[c] /\ phase[c] = "retrieve"
            /\ answer'[c].list = currentPeers(clientCreatedPeers)
  BY DEF HandleRetrieve, Respond, IdInv, Types
<1>3. \A c \in Clients : /\ active(c)' <=> active(c)
                         /\ held(c)' = held(c) /\ (holds(c)' <=> holds(c))
  BY <1>1, <1>2 DEF active, holds, held, invited
<1>4. Functions' /\ Requested' /\ Asking' /\ StoreOfLife' /\ TodoOfLife' /\ PeersOfLife'
  BY <1>1, <1>3
  DEF LifeInv, Functions, Requested, Asking, StoreOfLife, TodoOfLife, PeersOfLife, registeredAgain
<1>5. ConnectedOfLife' /\ Given'
  BY <1>1, <1>2, <1>3 DEF LifeInv, ConnectedOfLife, Given, invited
<1>6. ASSUME NEW c \in Clients, answer'[c] # None, NEW v \in answer'[c].list
      PROVE  v.client \in Clients /\ v.life = held(c)'.life /\ v \in made
  <2>1. CASE answer'[c] = answer[c]
    BY <1>3, <1>6, <2>1 DEF LifeInv, ListOfLife
  <2>2. CASE conn[c] /\ phase[c] = "retrieve" /\ answer'[c].list = currentPeers(clientCreatedPeers)
    <3>1. v.life = life /\ v.client \in Clients /\ v \in made
      BY <1>6, <2>2, ListsAreOfLife DEF LifeInv
    <3>2. held(c).life = life
      BY <2>2 DEF LifeInv, Asking, ConnectedOfLife, holds
    <3> QED
      BY <1>3, <3>1, <3>2
  <2> QED
    BY <1>2, <2>1, <2>2
<1> QED
  BY <1>1, <1>4, <1>5, <1>6 DEF LifeInv, ListOfLife

LEMMA JoinLives ==
    ASSUME IdInv, LifeInv, NEW r \in pending, HandleJoin(r)
    PROVE  LifeInv'
<1>1. /\ UNCHANGED <<life, conn, phase, info, listening, peers, todo>>
      /\ pending' = pending \ {r}
      /\ r.topic = "join"
  BY DEF HandleJoin, alignment
<1>2. CASE AddNewPeer(r)
  <2> DEFINE new == [life |-> life, client |-> r.client, id |-> autoIncId + 1]
  <2>1. r.client \in Clients /\ new.client = r.client /\ new.life = life
    BY DEF LifeInv, Requested
  <2>2. clientCreatedPeers' = [clientCreatedPeers EXCEPT ![User[r.client]] = new]
    BY <1>2 DEF AddNewPeer
  <2>10. made' = made \cup {new}
    BY <1>2 DEF AddNewPeer
  <2>3. StoreOfLife'
    BY <1>1, <2>1, <2>2, <2>10 DEF LifeInv, Functions, StoreOfLife
  <2>4. \A c \in Clients :
           \/ answer'[c] = answer[c]
           \/ /\ c = r.client /\ phase[c] = "join" /\ conn[c]
              /\ answer'[c].own = new
              /\ answer'[c].list = currentPeers(clientCreatedPeers')
    BY <1>1, <1>2 DEF AddNewPeer, Respond, IdInv, Types
  <2>5. \A c \in Clients :
           /\ active(c)' <=> active(c)
           /\ answer'[c] = answer[c] => held(c)' = held(c) /\ (holds(c)' <=> holds(c))
           /\ answer'[c] # None /\ answer'[c] # answer[c] => held(c)' = new
    BY <1>1, <2>4 DEF active, holds, held, invited
  <2>6. Functions' /\ Requested' /\ Asking' /\ TodoOfLife' /\ PeersOfLife'
    BY <1>1, <2>2, <2>5, <2>10
    DEF LifeInv, Functions, Requested, Asking, TodoOfLife, PeersOfLife, registeredAgain
  <2>7. Given'
    <3>1. new # None
      BY <2>1, MembershipAssumption DEF IdInv, Types, Info
    <3> SUFFICES ASSUME NEW c \in Clients, holds(c)'
                 PROVE  held(c)' # None /\ held(c)'.client = c
      BY DEF Given
    <3>2. CASE answer'[c] = answer[c]
      BY <2>5, <3>2 DEF LifeInv, Given
    <3>3. CASE answer'[c] # answer[c]
      <4>1. c = r.client /\ phase[c] = "join" /\ ~active(c)
        BY <2>4, <3>3 DEF IdInv, Sessions
      <4>2. answer'[c] # None
        BY <1>1, <4>1 DEF holds, invited, active
      <4> QED
        BY <2>1, <2>5, <3>1, <3>3, <4>1, <4>2
    <3> QED
      BY <3>2, <3>3
  <2>8. ConnectedOfLife'
    <3> SUFFICES ASSUME NEW c \in Clients, conn'[c], holds(c)'
                 PROVE  held(c)'.life = life
      BY <1>1 DEF ConnectedOfLife
    <3>1. CASE answer'[c] = answer[c]
      BY <1>1, <2>5, <3>1 DEF LifeInv, ConnectedOfLife
    <3>2. CASE answer'[c] # answer[c]
      <4>1. phase[c] = "join" /\ ~active(c)
        BY <2>4, <3>2 DEF IdInv, Sessions
      <4>2. answer'[c] # None
        BY <1>1, <4>1 DEF holds, invited, active
      <4> QED
        BY <2>1, <2>5, <3>2, <4>2
    <3> QED
      BY <3>1, <3>2
  <2>9. ListOfLife'
    <3> SUFFICES ASSUME NEW c \in Clients, answer'[c] # None, NEW v \in answer'[c].list
                 PROVE  v.client \in Clients /\ v.life = held(c)'.life /\ v \in made'
      BY DEF ListOfLife
    <3>1. CASE answer'[c] = answer[c]
      BY <2>5, <2>10, <3>1 DEF LifeInv, ListOfLife
    <3>2. CASE answer'[c] # answer[c]
      <4>1. v \in currentPeers(clientCreatedPeers')
        BY <2>4, <3>2
      <4>2. v.life = life /\ v.client \in Clients /\ v \in made'
        BY <1>1, <2>3, <4>1 DEF StoreOfLife, currentPeers
      <4> QED
        BY <2>1, <2>5, <3>2, <4>2
    <3> QED
      BY <3>1, <3>2
  <2> QED
    BY <2>3, <2>6, <2>7, <2>8, <2>9 DEF LifeInv
<1>3. CASE UNCHANGED <<autoIncId, clientCreatedPeers, answer, made>>
  <2>1. Functions' /\ Requested'
    BY <1>1, <1>3 DEF LifeInv, Functions, Requested
  <2> QED
    BY <1>1, <1>3, <2>1, LivesGoOn
<1> QED
  BY <1>2, <1>3 DEF HandleJoin

\* What a client sets out to pair with is of its own life.
LEMMA BeginAlignLives ==
    ASSUME IdInv, LifeInv, NEW c \in Clients, Joined(c) \/ Retrieved(c)
    PROVE  LifeInv'
<1>1. /\ UNCHANGED <<life, made, clientCreatedPeers, pending, conn, listening, peers>>
      /\ answer[c] # None
      /\ phase' = [phase EXCEPT ![c] = "align"]
      /\ answer' = [answer EXCEPT ![c] = None]
      /\ \A d \in Clients : info'[d] = IF d = c THEN held(c) ELSE info[d]
  <2>1. CASE Joined(c)
    BY <2>1 DEF Joined, BeginAlign, server, held, invited, IdInv, Types
  <2>2. CASE Retrieved(c)
    <3>1. held(c) = info[c]
      BY <2>2 DEF Retrieved, held, invited
    <3> QED
      BY <2>2, <3>1 DEF Retrieved, BeginAlign, server
  <2> QED
    BY <2>1, <2>2
<1>2. \E s : todo' = [todo EXCEPT ![c] = s] /\ s \subseteq answer[c].list
  BY DEF Joined, Retrieved, BeginAlign
<1>3. \A d \in Clients :
         /\ phase'[d] = IF d = c THEN "align" ELSE phase[d]
         /\ answer'[d] = IF d = c THEN None ELSE answer[d]
         /\ info'[d] = IF d = c THEN held(c) ELSE info[d]
         /\ IF d = c THEN todo'[d] \subseteq answer[d].list ELSE todo'[d] = todo[d]
  BY <1>1, <1>2 DEF IdInv, Types, LifeInv, Functions
<1>4. holds(c) /\ (active(c) => held(c) = info[c])
  BY <1>1 DEF IdInv, Sessions, LifeInv, Asking, holds, held, invited
<1>5. \A d \in Clients : /\ active(d) => info'[d] = info[d]
                         /\ holds(d)' => holds(d) /\ held(d)' = held(d)
                         /\ d # c => held(d)' = held(d)
  BY <1>3, <1>4 DEF active, holds, held, invited
<1>6. active(c)'
  BY <1>1, <1>3, <1>4 DEF LifeInv, Given, active, holds, held
<1>7. Functions' /\ Requested' /\ Given' /\ StoreOfLife'
  BY <1>1, <1>2, <1>5 DEF LifeInv, Functions, Requested, Given, StoreOfLife
<1>8. Asking'
  BY <1>1, <1>3, <1>5, <1>6 DEF LifeInv, Asking, active
<1>9. ConnectedOfLife' /\ ListOfLife'
  BY <1>1, <1>3, <1>4, <1>5 DEF LifeInv, ConnectedOfLife, ListOfLife
<1>10. TodoOfLife'
  BY <1>1, <1>3, <1>5, <1>6 DEF LifeInv, TodoOfLife, ListOfLife, active
<1>11. PeersOfLife'
  BY <1>1, <1>5 DEF LifeInv, PeersOfLife, registeredAgain, active
<1> QED
  BY <1>7, <1>8, <1>9, <1>10, <1>11 DEF LifeInv

\* Whoever listens where the list says is the program that is listed: if it is
\* of another life, it was registered in both.
LEMMA PairLives ==
    ASSUME IdInv, LifeInv, NEW c \in Clients, NEW v \in todo[c], Pair(c, v)
    PROVE  LifeInv'
<1>1. /\ UNCHANGED <<life, made, clientCreatedPeers, pending, conn, phase, answer, info, listening>>
      /\ todo' = [todo EXCEPT ![c] = @ \ {v}]
  BY DEF Pair, server
<1>2. Functions' /\ Requested' /\ Asking' /\ Given' /\ StoreOfLife' /\ ListOfLife'
  BY <1>1 DEF LifeInv, Functions, Requested, Asking, Given, StoreOfLife, ListOfLife,
              active, holds, invited, held, Pair
<1>3. ConnectedOfLife' /\ TodoOfLife'
  BY <1>1 DEF LifeInv, Functions, ConnectedOfLife, TodoOfLife, active, holds, invited, held
<1>4. PeersOfLife'
  <2>1. CASE v \in peers[c]
    BY <1>1, <2>1 DEF Pair, LifeInv, PeersOfLife, registeredAgain, active
  <2>2. CASE v \notin peers[c]
    <3>1. /\ v.client \in Clients /\ active(c) /\ v.life = info[c].life /\ v \in made
          /\ active(v.client)
      BY <2>2 DEF Pair, LifeInv, TodoOfLife, Asking
    <3>2. info[c].client = c
      BY <3>1 DEF IdInv, Sessions, LifeInv, Given, holds, held, invited
    <3>3. \A d \in Clients : \A w \in peers'[d] :
             \/ w \in peers[d]
             \/ d = c /\ w = v
             \/ d = v.client /\ w = info[c]
      BY <2>2 DEF Pair
    <3>4. info[v.client].life = info[c].life \/ registeredAgain(v.client)
      BY <3>1 DEF registeredAgain
    <3>5. ASSUME NEW d \in Clients, NEW w \in peers'[d]
          PROVE  /\ w.client \in Clients
                 /\ active(d) /\ active(w.client)
                 /\ \/ info[w.client].life = info[d].life
                    \/ registeredAgain(d) \/ registeredAgain(w.client)
      <4>1. CASE w \in peers[d]
        BY <4>1 DEF LifeInv, PeersOfLife
      <4>2. CASE d = c /\ w = v
        BY <3>1, <3>4, <4>2
      <4>3. CASE d = v.client /\ w = info[c]
        BY <3>1, <3>2, <3>4, <4>3
      <4> QED
        BY <3>3, <4>1, <4>2, <4>3
    <3> QED
      BY <1>1, <3>5 DEF PeersOfLife, registeredAgain, active
  <2> QED
    BY <2>1, <2>2
<1> QED
  BY <1>2, <1>3, <1>4 DEF LifeInv

\* The new server has nobody connected and nobody registered.
LEMMA RestartLives ==
    ASSUME IdInv, LifeInv, Restart
    PROVE  LifeInv'
<1>1. /\ UNCHANGED <<made, phase, answer, info, listening, peers, todo>>
      /\ clientCreatedPeers' = [u \in Users |-> None]
      /\ conn' = [c \in Clients |-> FALSE]
      /\ pending' = {}
  BY DEF Restart, alignment
<1>2. Functions' /\ Requested' /\ StoreOfLife' /\ ConnectedOfLife'
  BY <1>1 DEF LifeInv, Functions, Requested, StoreOfLife, ConnectedOfLife
<1>3. Asking' /\ Given' /\ ListOfLife' /\ TodoOfLife' /\ PeersOfLife'
  BY <1>1 DEF LifeInv, Asking, Given, ListOfLife, TodoOfLife, PeersOfLife,
              registeredAgain, active, holds, invited, held
<1> QED
  BY <1>2, <1>3 DEF LifeInv

LEMMA LifeInvHoldsInitially == Init => LifeInv
  BY DEF Init, LifeInv, Functions, Requested, Asking, Given, StoreOfLife, ConnectedOfLife,
         ListOfLife, TodoOfLife, PeersOfLife, active, holds, held, invited

LEMMA NextKeepsLifeInv ==
    ASSUME IdInv, LifeInv, [Next]_vars
    PROVE  LifeInv'
<1>1. ASSUME NEW c \in Clients,
             ConnectToCluster(c) \/ DiffuseData(c) \/ Joined(c) \/ Retrieved(c)
      PROVE  LifeInv'
  BY <1>1, ConnectLives, DiffuseLives, BeginAlignLives
<1>2. ASSUME NEW r \in pending, HandleRetrieve(r) \/ HandleJoin(r) PROVE LifeInv'
  BY <1>2, RetrieveLives, JoinLives
<1>3. ASSUME NEW c \in Clients, NEW v \in todo[c], Pair(c, v) PROVE LifeInv'
  BY <1>3, PairLives
<1>4. ASSUME NEW c \in Clients,
             TimeOut(c) \/ FinishAlign(c) \/ \E v \in todo[c] : PairFails(c, v)
      PROVE  LifeInv'
  <2>1. /\ UNCHANGED <<life, made, clientCreatedPeers, pending, conn, info, listening>>
        /\ phase' = [phase EXCEPT ![c] = "idle"]
        /\ answer' = [answer EXCEPT ![c] = None] \/ (answer' = answer /\ phase[c] = "align")
        /\ todo' \in {todo, [todo EXCEPT ![c] = {}]}
        /\ peers' \in {peers, [peers EXCEPT ![c] = @ \ gone[c]]}
    BY <1>4 DEF TimeOut, FinishAlign, PairFails, server, alignment
  <2>2. Functions' /\ Requested'
    BY <2>1 DEF LifeInv, Functions, Requested
  <2>3. \A d \in Clients :
           \/ phase'[d] = phase[d] /\ answer'[d] \in {answer[d], None}
           \/ phase'[d] = "idle" /\ answer'[d] = None
    BY <2>1 DEF IdInv, Types, Sessions
  <2>4. \A d \in Clients : todo'[d] \subseteq todo[d] /\ peers'[d] \subseteq peers[d]
    BY <2>1 DEF LifeInv, Functions
  <2> QED
    BY <2>1, <2>2, <2>3, <2>4, LivesGoOn
<1>5. ASSUME NEW c \in Clients, Exit(c) PROVE LifeInv'
  <2>1. /\ UNCHANGED <<life, made, clientCreatedPeers, info>>
        /\ pending' \subseteq pending
        /\ conn' \in {conn, [conn EXCEPT ![c] = FALSE]}
        /\ phase' = [phase EXCEPT ![c] = "dead"]
        /\ answer' = [answer EXCEPT ![c] = None]
        /\ listening' = [listening EXCEPT ![c] = FALSE]
        /\ peers' = [peers EXCEPT ![c] = {}]
        /\ todo' = [todo EXCEPT ![c] = {}]
    BY <1>5 DEF Exit, Disconnect, server
  <2>2. Functions' /\ Requested'
    BY <2>1 DEF LifeInv, Functions, Requested
  <2>3. \A d \in Clients :
           \/ phase'[d] = phase[d] /\ answer'[d] \in {answer[d], None}
           \/ phase'[d] = "dead" /\ answer'[d] = None
    BY <2>1 DEF IdInv, Types
  <2>4. \A d \in Clients :
           /\ conn'[d] => conn[d]
           /\ listening'[d] => listening[d]
           /\ todo'[d] \subseteq todo[d]
           /\ peers'[d] \subseteq peers[d]
    BY <2>1 DEF LifeInv, Functions
  <2> QED
    BY <2>1, <2>2, <2>3, <2>4, LivesGoOn
<1>6. ASSUME \/ \E c \in Clients :
                   \/ Break(c) \/ Listen(c) \/ ServerLeaves(c)
                   \/ \E v \in peers[c] : PeerLeaves(c, v)
             \/ \E u \in Users : HandleExit(u) \/ HandlePeerEnds(u)
             \/ UNCHANGED vars
      PROVE  LifeInv'
  <2>1. UNCHANGED <<life, made, info, phase, todo>> /\ pending' \subseteq pending
    BY <1>6 DEF Break, Disconnect, Listen, ServerLeaves, PeerLeaves, HandleExit,
                HandlePeerEnds, server, alignment, vars
  <2>2. clientCreatedPeers' = clientCreatedPeers
          \/ \E u \in Users : clientCreatedPeers' = [clientCreatedPeers EXCEPT ![u] = None]
    BY <1>6 DEF Break, Disconnect, Listen, ServerLeaves, PeerLeaves, HandleExit,
                HandlePeerEnds, server, vars
  <2>3. \/ conn' = conn
        \/ \E c : conn' = [conn EXCEPT ![c] = FALSE]
    BY <1>6 DEF Break, Disconnect, Listen, ServerLeaves, PeerLeaves, HandleExit,
                HandlePeerEnds, server, vars
  <2>4. \/ answer' = answer
        \/ \E c \in Clients : answer' = [answer EXCEPT ![c] = None]
    BY <1>6 DEF Break, Disconnect, Listen, ServerLeaves, PeerLeaves, HandleExit,
                HandlePeerEnds, server, vars
  <2>5. \/ listening' = listening
        \/ \E c \in Clients : active(c) /\ listening' = [listening EXCEPT ![c] = TRUE]
    BY <1>6 DEF Break, Disconnect, Listen, ServerLeaves, PeerLeaves, HandleExit,
                HandlePeerEnds, server, vars
  <2>6. \/ peers' = peers
        \/ \E c \in Clients : \E v \in peers[c] : peers' = [peers EXCEPT ![c] = @ \ {v}]
    BY <1>6 DEF Break, Disconnect, Listen, ServerLeaves, PeerLeaves, HandleExit,
                HandlePeerEnds, server, vars
  <2>7. Functions' /\ Requested'
    BY <2>1, <2>2, <2>3, <2>5, <2>6 DEF LifeInv, Functions, Requested
  <2>8. /\ \A u \in Users : clientCreatedPeers'[u] \in {clientCreatedPeers[u], None}
        /\ \A d \in Clients :
              /\ conn'[d] => conn[d]
              /\ listening'[d] => listening[d] \/ active(d)
              /\ peers'[d] \subseteq peers[d]
              /\ answer'[d] \in {answer[d], None}
    BY <2>2, <2>3, <2>4, <2>5, <2>6 DEF LifeInv, Functions, IdInv, Types
  <2> QED
    BY <2>1, <2>7, <2>8, LivesGoOn
<1>7. CASE Restart
  BY <1>7, RestartLives
<1> QED
  BY <1>1, <1>2, <1>3, <1>4, <1>5, <1>6, <1>7 DEF Next

\* Two paired sites have one id only if one of them was registered by two lives
\* of the server: whatever else is lost, repeated or late, what an old server
\* told never mixes with what the new one tells (AddNewPeer, alignWithPeersData).
THEOREM PairedSitesDiffer == Spec => []PairedDiffer
<1>1. IdInv /\ LifeInv => PairedDiffer
  BY DEF IdInv, Sessions, HeldOnce, holds, held, invited, LifeInv, PeersOfLife, PairedDiffer
<1>2. IdInv /\ LifeInv /\ [Next]_vars => (IdInv /\ LifeInv)'
  BY NextKeepsIdInv, NextKeepsLifeInv
<1> QED
  BY <1>1, <1>2, IdInvHoldsInitially, LifeInvHoldsInitially, PTL DEF Spec

=============================================================================
