---------------------------- MODULE NodeShutdown ----------------------------
(***************************************************************************)
(* How a node stops: ShutDownModule stops the broker, then the transport   *)
(* (cluster/nodemodule.go).  The goroutines that meet on the way are the   *)
(* loop of the broker (StartWaiting in p2p/session.go), one handlePeer per *)
(* connection, the accept loop and ListenFor (p2p/communication.go), the   *)
(* read loops (p2p/peer.go), and the SafeChannel between the handlers and  *)
(* the broker (utils/ch.go).                                               *)
(*                                                                         *)
(* Three locks are held across a wait: the read lock of the SafeChannel by *)
(* a sender until the broker takes its message, TCPPeer.mu by a read loop  *)
(* until there is room in its queue, and the mutex of the transport by     *)
(* removePeer until it has TCPPeer.mu.  Every connection is one the node   *)
(* accepted, from a host of its own; commands run one by one, so Shutdown  *)
(* meets an Add only if the program is interrupted, and that one has a     *)
(* cancelled context.                                                      *)
(***************************************************************************)
EXTENDS Integers, FiniteSets

CONSTANTS
    Conns,          \* connections the node may be offered
    QueueSize,      \* capacity of the channel of a receive session
    MaxMessages     \* bound: messages that arrive in all

ASSUME NodeAssumption == QueueSize \in Nat \ {0} /\ MaxMessages \in Nat

NoConn == "none"
Free == "free"
Shutter == "shutdown"

ASSUME NamesAssumption ==
    {NoConn, Free, Shutter, "up", "removing", "done"} \cap Conns = {}

VARIABLES
    stopped,        \* mb.stopped
    broker,         \* StartWaiting: "running", "returned"
    shutdown,       \* Shutdown: "up", "removing", "done", or the peer it closes
    left,           \* entries its range over the map still has to produce
    flag,           \* ShutDownFlag.isShutDown
    listener,       \* ListenFor: "waiting", "locking", "returned"
    accept,         \* accept loop: "accept", "shake", "announce", "sending", "gone"
    incoming,       \* the connection it shakes hands on
    handler,        \* handlePeer of a connection
    peers,          \* keys of the peers map
    mu,             \* who holds the mutex of the transport
    recvActive,     \* TCPPeer.recvActive
    queue,          \* messages in its channel
    inHand,         \* its read loop has a message to deliver
    arrived         \* messages so far

vars == <<stopped, broker, shutdown, left, flag, listener, accept, incoming,
          handler, peers, mu, recvActive, queue, inHand, arrived>>
nodeVars == <<stopped, broker, shutdown, left, flag, listener>>
connVars == <<recvActive, queue, inHand, arrived>>

Init ==
    /\ stopped = FALSE
    /\ broker = "running"
    /\ shutdown = "up"
    /\ left = {}
    /\ flag = FALSE
    /\ listener = "waiting"
    /\ accept = "accept"
    /\ incoming = NoConn
    /\ handler = [c \in Conns |-> "new"]
    /\ peers = {}
    /\ mu = Free
    /\ recvActive = [c \in Conns |-> FALSE]
    /\ queue = [c \in Conns |-> 0]
    /\ inHand = [c \in Conns |-> FALSE]
    /\ arrived = 0

\* The read loop waits for room with TCPPeer.mu in its hands.  (What it has in
\* its hands when the session ends is dropped.)
Blocked(c) == inHand[c] /\ queue[c] = QueueSize

-----------------------------------------------------------------------------
(* The SafeChannel: Send holds the read lock until the broker takes the    *)
(* message; a Close that waits for the lock keeps new senders out.         *)

Sending == {"forwarding", "reporting"}

Senders == {c \in Conns : handler[c] \in Sending}

SomeoneSends == Senders # {} \/ accept = "sending"

CanRLock == listener # "locking"

\* The loop of handlePeer looks at the flag before every select.
Loop == IF flag THEN "remove" ELSE "select"

chClosed == listener = "returned"

\* StartWaiting takes a message: also after Stop, as long as select prefers
\* the channel.
TakeMessage(c) ==
    /\ broker = "running"
    /\ handler[c] \in Sending
    /\ handler' = [handler EXCEPT ![c] = IF @ = "forwarding" THEN Loop ELSE "remove"]
    /\ UNCHANGED <<nodeVars, connVars, accept, incoming, peers, mu>>

TakeAnnouncement ==
    /\ broker = "running"
    /\ accept = "sending"
    /\ accept' = "accept"
    /\ UNCHANGED <<nodeVars, connVars, incoming, handler, peers, mu>>

\* Its context is cancelled by Stop, or earlier if the program is interrupted.
BrokerReturns ==
    /\ broker = "running"
    /\ broker' = "returned"
    /\ UNCHANGED <<stopped, shutdown, left, flag, listener, accept, incoming,
                   handler, peers, mu, connVars>>

-----------------------------------------------------------------------------
(* handlePeer                                                              *)

Goto(c, from, to) ==
    /\ handler[c] = from
    /\ handler' = [handler EXCEPT ![c] = to]

SelectMessage(c) ==
    /\ queue[c] > 0
    /\ Goto(c, "select", "forward")
    /\ queue' = [queue EXCEPT ![c] = @ - 1]
    /\ UNCHANGED <<nodeVars, accept, incoming, peers, mu, recvActive, inHand, arrived>>

\* The channels of the session are closed: the message channel, once it is
\* empty, makes it return; the error channel makes it report the exit first.
SelectEnd(c) ==
    /\ ~recvActive[c]
    /\ \/ queue[c] = 0 /\ Goto(c, "select", "remove")
       \/ Goto(c, "select", IF flag THEN "remove" ELSE "report")
    /\ UNCHANGED <<nodeVars, connVars, accept, incoming, peers, mu>>

\* SafeChannel.Send, as far as the channel operation.
SafeSend(c) ==
    /\ CanRLock
    /\ \/ Goto(c, "forward", IF chClosed THEN "remove" ELSE "forwarding")
       \/ Goto(c, "report", IF chClosed THEN "remove" ELSE "reporting")
    /\ UNCHANGED <<nodeVars, connVars, accept, incoming, peers, mu>>

\* Mutant: the mutex is not released for a peer that is not in the map.
RemovePeer_KeepsMutex(c) ==
    /\ mu = Free
    /\ Goto(c, "remove", IF c \in peers THEN "closing" ELSE "gone")
    /\ mu' = c
    /\ UNCHANGED <<nodeVars, connVars, accept, incoming, peers>>

\* removePeer, deferred: with the mutex of the transport it looks the peer up,
\* and keeps the mutex while it waits in Close for TCPPeer.mu.
RemovePeer(c) ==
    /\ mu = Free
    /\ Goto(c, "remove", IF c \in peers THEN "closing" ELSE "gone")
    /\ mu' = IF c \in peers THEN c ELSE Free
    /\ UNCHANGED <<nodeVars, connVars, accept, incoming, peers>>

ClosePeer(c) ==
    /\ ~Blocked(c)
    /\ Goto(c, "closing", "gone")
    /\ peers' = peers \ {c}
    /\ mu' = Free
    /\ recvActive' = [recvActive EXCEPT ![c] = FALSE]
    /\ inHand' = [inHand EXCEPT ![c] = FALSE]
    /\ queue' = [queue EXCEPT ![c] = 0]
    /\ UNCHANGED <<nodeVars, accept, incoming, arrived>>

HandlePeer(c) ==
    \/ SelectMessage(c) \/ SelectEnd(c)
    \/ SafeSend(c) \/ RemovePeer(c) \/ ClosePeer(c)

-----------------------------------------------------------------------------
(* The read loop of a connection, and the network.                         *)

\* Messages that arrive outside a session are dropped.
Arrive(c) ==
    /\ recvActive[c]
    /\ ~inHand[c]
    /\ arrived < MaxMessages
    /\ inHand' = [inHand EXCEPT ![c] = TRUE]
    /\ arrived' = arrived + 1
    /\ UNCHANGED <<nodeVars, accept, incoming, handler, peers, mu, recvActive, queue>>

\* deliverMessage
Deliver(c) ==
    /\ inHand[c]
    /\ ~Blocked(c)
    /\ inHand' = [inHand EXCEPT ![c] = FALSE]
    /\ queue' = [queue EXCEPT ![c] = @ + 1]
    /\ UNCHANGED <<nodeVars, accept, incoming, handler, peers, mu, recvActive, arrived>>

\* handleReadError: the other end closed the connection, or it broke.
Lose(c) ==
    /\ recvActive[c]
    /\ ~inHand[c]
    /\ recvActive' = [recvActive EXCEPT ![c] = FALSE]
    /\ UNCHANGED <<nodeVars, accept, incoming, handler, peers, mu, queue, inHand, arrived>>

-----------------------------------------------------------------------------
(* ListenFor and its accept loop.                                          *)

\* A connection that is accepted after the flag is set ends the loop.
Accept(c) ==
    /\ accept = "accept"
    /\ listener # "returned"
    /\ handler[c] = "new"
    /\ IF flag
       THEN accept' = "gone" /\ UNCHANGED incoming
       ELSE accept' = "shake" /\ incoming' = c
    /\ UNCHANGED <<nodeVars, connVars, handler, peers, mu>>

\* The deferred listener.Close makes Accept fail.
AcceptFails ==
    /\ accept = "accept"
    /\ listener = "returned"
    /\ accept' = "gone"
    /\ UNCHANGED <<nodeVars, connVars, incoming, handler, peers, mu>>

\* addPeer and go handlePeer, whatever happened since Accept.
ShakeSucceeds ==
    /\ accept = "shake"
    /\ mu = Free
    /\ accept' = "announce"
    /\ incoming' = NoConn
    /\ peers' = peers \cup {incoming}
    /\ handler' = [handler EXCEPT ![incoming] = Loop]
    /\ recvActive' = [recvActive EXCEPT ![incoming] = TRUE]
    /\ UNCHANGED <<nodeVars, mu, queue, inHand, arrived>>

ShakeFails ==
    /\ accept = "shake"
    /\ accept' = "announce"
    /\ incoming' = NoConn
    /\ handler' = [handler EXCEPT ![incoming] = "gone"]
    /\ UNCHANGED <<nodeVars, connVars, peers, mu>>

\* constructAndSendMetaMsg of the accept loop: it looks at the flag, then sends.
Announce ==
    /\ accept = "announce"
    /\ \/ flag /\ accept' = "accept"
       \/ CanRLock /\ accept' = IF chClosed THEN "accept" ELSE "sending"
    /\ UNCHANGED <<nodeVars, connVars, incoming, handler, peers, mu>>

AcceptLoop == AcceptFails \/ ShakeSucceeds \/ ShakeFails \/ Announce

\* Mutant: Close does not wait for the senders.
CloseChannel_NoLock ==
    /\ listener = "locking"
    /\ listener' = "returned"
    /\ UNCHANGED <<stopped, broker, shutdown, left, flag, accept, incoming,
                   handler, peers, mu, connVars>>

\* Mutant: the lock is not released.
CloseChannel_KeepsLock ==
    /\ listener = "locking"
    /\ ~SomeoneSends
    /\ UNCHANGED vars

\* WaitTermination returns, and SafeChannel.Close asks for the lock.
BeginCloseChannel ==
    /\ listener = "waiting"
    /\ flag
    /\ listener' = "locking"
    /\ UNCHANGED <<stopped, broker, shutdown, left, flag, accept, incoming,
                   handler, peers, mu, connVars>>

CloseChannel ==
    /\ listener = "locking"
    /\ ~SomeoneSends
    /\ listener' = "returned"
    /\ UNCHANGED <<stopped, broker, shutdown, left, flag, accept, incoming,
                   handler, peers, mu, connVars>>

ListenFor == BeginCloseChannel \/ CloseChannel

-----------------------------------------------------------------------------
(* ShutDownModule                                                          *)

\* MessageBroker.Stop, then the range of Transport.Shutdown begins.
Stop ==
    /\ shutdown = "up"
    /\ stopped' = TRUE
    /\ shutdown' = "removing"
    /\ left' = peers
    /\ UNCHANGED <<broker, flag, listener, accept, incoming, handler, peers, mu, connVars>>

\* An entry that is added meanwhile may be produced or not.  (A write during
\* this unlocked range may also make the runtime end the process.)
ShutdownRemoves(c) ==
    /\ shutdown = "removing"
    /\ mu = Free
    /\ c \in peers
    /\ mu' = Shutter
    /\ shutdown' = c
    /\ UNCHANGED <<stopped, broker, left, flag, listener, accept, incoming,
                   handler, peers, connVars>>

\* Close waits for TCPPeer.mu.
ShutdownCloses(c) ==
    /\ shutdown = c
    /\ ~Blocked(c)
    /\ shutdown' = "removing"
    /\ mu' = Free
    /\ peers' = peers \ {c}
    /\ recvActive' = [recvActive EXCEPT ![c] = FALSE]
    /\ inHand' = [inHand EXCEPT ![c] = FALSE]
    /\ UNCHANGED <<stopped, broker, left, flag, listener, accept, incoming,
                   handler, queue, arrived>>

ShutdownDone ==
    /\ shutdown = "removing"
    /\ peers \cap left = {}
    /\ shutdown' = "done"
    /\ flag' = TRUE
    /\ UNCHANGED <<stopped, broker, left, listener, accept, incoming, handler,
                   peers, mu, connVars>>

Shutdown ==
    \/ \E c \in Conns : ShutdownRemoves(c) \/ ShutdownCloses(c)
    \/ ShutdownDone

Next ==
    \/ TakeAnnouncement \/ BrokerReturns
    \/ AcceptLoop \/ ListenFor
    \/ Stop \/ Shutdown
    \/ \E c \in Conns :
          TakeMessage(c) \/ HandlePeer(c) \/ Arrive(c) \/ Deliver(c) \/ Lose(c) \/ Accept(c)

\* Goroutines that can run do run, and a handshake ends (its context has a
\* deadline).  Nobody has to connect, to send, to leave or to stop the node.
Fairness ==
    /\ WF_vars(TakeAnnouncement)
    /\ WF_vars(stopped /\ BrokerReturns)
    /\ WF_vars(AcceptLoop)
    /\ WF_vars(ListenFor)
    /\ WF_vars(Shutdown)
    /\ \A c \in Conns :
          WF_vars(TakeMessage(c)) /\ WF_vars(HandlePeer(c)) /\ WF_vars(Deliver(c))

Spec == Init /\ [][Next]_vars /\ Fairness

-----------------------------------------------------------------------------
(* Properties.                                                             *)

\* "a thread safe channel for sending, to avoid concurrent problem of channel
\* close" (utils/ch.go): whoever is in the channel operation is there before
\* the channel is closed.
NoSendOnClosed == chClosed => ~SomeoneSends

\* A queue that stays full since the broker is gone: its read loop keeps
\* TCPPeer.mu for ever.
Jammed(c) == broker = "returned" /\ Blocked(c)

\* Transport.Shutdown returns, unless a connection is jammed (removePeer).
ShutdownEnds == (shutdown = "removing") ~> (shutdown = "done" \/ \E c \in Conns : Jammed(c))

\* A sender nobody will ever listen to: Close waits for it, and every later
\* sender for Close.
Stuck == broker = "returned" /\ SomeoneSends

\* handlePeer ends for every connection the shutdown found in the map, unless a
\* sender is stuck or a connection is jammed.
HandlersEnd ==
    \A c \in Conns :
        (shutdown = "done" /\ c \in left)
            ~> (handler[c] = "gone" \/ Stuck \/ \E d \in Conns : Jammed(d))

\* "Shutdown: Gracefully shuts down the transport mechanism."
\* (communication.go): it returns.
ShutdownReturns == (shutdown = "removing") ~> (shutdown = "done")

=============================================================================
