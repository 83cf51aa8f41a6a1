------------------------------ MODULE PeerLink ------------------------------
(***************************************************************************)
(* One TCP connection between two transports: the exchange of host names   *)
(* (p2p/hostexhanger.go), the receive sessions of each end (TCPPeer in     *)
(* p2p/peer.go) and the handlePeer goroutine that passes the messages on   *)
(* (p2p/communication.go).                                                 *)
(*                                                                         *)
(* An end has one read loop and one receive session at a time.  Receive    *)
(* replaces the session, and what the old one had queued goes with it.     *)
(* The names are exchanged in three messages, 0 and 2 from the receiver    *)
(* and 1 from the initiator; each is awaited in a session of its own, and  *)
(* handlePeer opens another one.                                           *)
(***************************************************************************)
EXTENDS Integers, Sequences

CONSTANTS
    QueueSize,      \* capacity of the channel of a session, 16 in the code
    MaxMessages     \* bound: application messages of one end

ASSUME LinkAssumption == QueueSize \in Nat \ {0} /\ MaxMessages \in Nat

Sides == {"initiator", "receiver"}

other(p) == IF p = "initiator" THEN "receiver" ELSE "initiator"

\* Shake returned: the peer is in the map of the transport.
Paired == 3

PeerName(n) == [topic |-> "TCP_HOST_EXCHANGER", no |-> n]

Message(n) == [topic |-> "PUSH", no |-> n]

Nothing == [topic |-> "", no |-> 0]

VARIABLES
    stage,      \* the name that is exchanged next, or Paired
    waiting,    \* the session for this stage is open(ed); if Paired, by handlePeer
    mode,       \* "live", "failed" in Shake, "left": handlePeer returned
    recvActive, \* TCPPeer.recvActive
    recvMsgCh,  \* the queue of the last session
    readLoop,   \* "off", "on", "dead"
    inHand,     \* the message the read loop delivers
    wire,       \* the bytes under way to an end
    closed,     \* the end closed its connection
    sent,       \* application messages so far
    got         \* what handlePeer passed on

vars == <<stage, waiting, mode, recvActive, recvMsgCh, readLoop, inHand, wire, closed, sent, got>>

Init ==
    /\ stage = [p \in Sides |-> 0]
    /\ waiting = [p \in Sides |-> FALSE]
    /\ mode = [p \in Sides |-> "live"]
    /\ recvActive = [p \in Sides |-> FALSE]
    /\ recvMsgCh = [p \in Sides |-> <<>>]
    /\ readLoop = [p \in Sides |-> "off"]
    /\ inHand = [p \in Sides |-> Nothing]
    /\ wire = [p \in Sides |-> <<>>]
    /\ closed = [p \in Sides |-> FALSE]
    /\ sent = [p \in Sides |-> 0]
    /\ got = [p \in Sides |-> <<>>]

\* The read loop waits for room in the queue with TCPPeer.mu in its hands.
Blocked(p) ==
    inHand[p] # Nothing /\ recvActive[p] /\ Len(recvMsgCh[p]) = QueueSize

Serving(p) == mode[p] = "live" /\ stage[p] = Paired /\ waiting[p]

\* Whose turn it is to send name n.
Sends(p, n) == n < Paired /\ (p = "receiver" <=> n % 2 = 0)

\* Bytes for an end that closed are lost.
Transmit(p, m) ==
    wire' = [wire EXCEPT ![other(p)] = IF closed[other(p)] THEN @ ELSE Append(@, m)]

-----------------------------------------------------------------------------
(* The exchange of names.                                                  *)

\* Mutant: the initiator does not wait for the third name.
SendPeerName_NoAck(p) ==
    /\ mode[p] = "live"
    /\ Sends(p, stage[p])
    /\ ~Blocked(p)
    /\ Transmit(p, PeerName(stage[p]))
    /\ stage' = [stage EXCEPT ![p] = IF p = "initiator" THEN Paired ELSE @ + 1]
    /\ UNCHANGED <<waiting, mode, recvActive, recvMsgCh, readLoop, inHand, closed, sent, got>>

\* sendPeerName.  After name 2 the receiver adds the peer, whatever happens: that
\* is part of this step, so the initiator, which has to read the name first, is
\* never ahead of it here.  In the code it can be for a moment.
SendPeerName(p) ==
    /\ mode[p] = "live"
    /\ Sends(p, stage[p])
    /\ ~Blocked(p)
    /\ Transmit(p, PeerName(stage[p]))
    /\ stage' = [stage EXCEPT ![p] = @ + 1]
    /\ UNCHANGED <<waiting, mode, recvActive, recvMsgCh, readLoop, inHand, closed, sent, got>>

\* Shake fails and conn.Close follows.
Fail(p) ==
    /\ mode' = [mode EXCEPT ![p] = "failed"]
    /\ closed' = [closed EXCEPT ![p] = TRUE]

SendFails(p) ==
    /\ mode[p] = "live"
    /\ Sends(p, stage[p])
    /\ ~Blocked(p)
    /\ closed[other(p)]
    /\ Fail(p)
    /\ UNCHANGED <<stage, waiting, recvActive, recvMsgCh, readLoop, inHand, wire, sent, got>>

\* Receive, of waitForTargetPeerName or handlePeer: a new session and queue.
Receive(p) ==
    /\ mode[p] = "live"
    /\ ~waiting[p]
    /\ ~Sends(p, stage[p])
    /\ ~Blocked(p)
    /\ waiting' = [waiting EXCEPT ![p] = TRUE]
    /\ recvActive' = [recvActive EXCEPT ![p] = TRUE]
    /\ recvMsgCh' = [recvMsgCh EXCEPT ![p] = <<>>]
    /\ readLoop' = [readLoop EXCEPT ![p] = IF @ = "off" THEN "on" ELSE @]
    /\ UNCHANGED <<stage, mode, inHand, wire, closed, sent, got>>

\* Shake waits for name stage[p] in the session it opened.
Awaiting(p) == mode[p] = "live" /\ stage[p] < Paired /\ waiting[p]

WaitForTargetPeerName(p) ==
    /\ Awaiting(p)
    /\ recvMsgCh[p] # <<>>
    /\ Head(recvMsgCh[p]) = PeerName(stage[p])
    /\ recvMsgCh' = [recvMsgCh EXCEPT ![p] = Tail(@)]
    /\ stage' = [stage EXCEPT ![p] = @ + 1]
    /\ waiting' = [waiting EXCEPT ![p] = FALSE]
    /\ UNCHANGED <<mode, recvActive, readLoop, inHand, wire, closed, sent, got>>

\* Something else came (checkMsgValidity), or the session ended.
WaitFails(p) ==
    /\ Awaiting(p)
    /\ \/ recvMsgCh[p] # <<>> /\ Head(recvMsgCh[p]) # PeerName(stage[p])
       \/ ~recvActive[p]
    /\ Fail(p)
    /\ UNCHANGED <<stage, waiting, recvActive, recvMsgCh, readLoop, inHand, wire, sent, got>>

\* The context of Shake expires, or is cancelled when Add returns: the session
\* it opened last is closed.
Expire(p) ==
    /\ recvActive[p]
    /\ ~Serving(p)
    /\ recvActive' = [recvActive EXCEPT ![p] = FALSE]
    /\ UNCHANGED <<stage, waiting, mode, recvMsgCh, readLoop, inHand, wire, closed, sent, got>>

-----------------------------------------------------------------------------
(* The read loop.                                                          *)

ReadMessage(p) ==
    /\ readLoop[p] = "on"
    /\ inHand[p] = Nothing
    /\ ~closed[p]
    /\ wire[p] # <<>>
    /\ inHand' = [inHand EXCEPT ![p] = Head(wire[p])]
    /\ wire' = [wire EXCEPT ![p] = Tail(@)]
    /\ UNCHANGED <<stage, waiting, mode, recvActive, recvMsgCh, readLoop, closed, sent, got>>

\* Mutant: a message is dropped when the queue is full.
DeliverMessage_DropsWhenFull(p) ==
    /\ inHand[p] # Nothing
    /\ inHand' = [inHand EXCEPT ![p] = Nothing]
    /\ recvMsgCh' = [recvMsgCh EXCEPT ![p] =
                        IF recvActive[p] /\ Len(@) < QueueSize
                        THEN Append(@, inHand[p])
                        ELSE @]
    /\ UNCHANGED <<stage, waiting, mode, recvActive, readLoop, wire, closed, sent, got>>

\* deliverMessage: without a session the message is dropped.
DeliverMessage(p) ==
    /\ inHand[p] # Nothing
    /\ ~Blocked(p)
    /\ inHand' = [inHand EXCEPT ![p] = Nothing]
    /\ recvMsgCh' = [recvMsgCh EXCEPT ![p] =
                        IF recvActive[p] THEN Append(@, inHand[p]) ELSE @]
    /\ UNCHANGED <<stage, waiting, mode, recvActive, readLoop, wire, closed, sent, got>>

\* Mutant: the session stays open.
HandleReadError_KeepsSession(p) ==
    /\ readLoop[p] = "on"
    /\ inHand[p] = Nothing
    /\ \E q \in Sides : closed[q]
    /\ readLoop' = [readLoop EXCEPT ![p] = "dead"]
    /\ UNCHANGED <<stage, waiting, mode, recvActive, recvMsgCh, inHand, wire, closed, sent, got>>

\* Either end closed the connection, bytes under way may be lost: the read loop
\* ends, and the session that is active now.
HandleReadError(p) ==
    /\ readLoop[p] = "on"
    /\ inHand[p] = Nothing
    /\ \E q \in Sides : closed[q]
    /\ readLoop' = [readLoop EXCEPT ![p] = "dead"]
    /\ recvActive' = [recvActive EXCEPT ![p] = FALSE]
    /\ UNCHANGED <<stage, waiting, mode, recvMsgCh, inHand, wire, closed, sent, got>>

-----------------------------------------------------------------------------
(* The transport.                                                          *)

\* Send to a peer in the map, from any goroutine.
SendMessage(p) ==
    /\ mode[p] = "live"
    /\ stage[p] = Paired
    /\ ~closed[p]
    /\ ~Blocked(p)
    /\ sent[p] < MaxMessages
    /\ sent' = [sent EXCEPT ![p] = @ + 1]
    /\ Transmit(p, Message(sent[p] + 1))
    /\ UNCHANGED <<stage, waiting, mode, recvActive, recvMsgCh, readLoop, inHand, closed, got>>

HandlePeer(p) ==
    /\ Serving(p)
    /\ recvMsgCh[p] # <<>>
    /\ recvMsgCh' = [recvMsgCh EXCEPT ![p] = Tail(@)]
    /\ got' = [got EXCEPT ![p] = Append(@, Head(recvMsgCh[p]))]
    /\ UNCHANGED <<stage, waiting, mode, recvActive, readLoop, inHand, wire, closed, sent>>

\* The channels of the session are closed: handlePeer returns, whether or not
\* it took what is queued, and its deferred removePeer closes the connection.
LeavePeer(p) ==
    /\ Serving(p)
    /\ ~recvActive[p]
    /\ mode' = [mode EXCEPT ![p] = "left"]
    /\ closed' = [closed EXCEPT ![p] = TRUE]
    /\ UNCHANGED <<stage, waiting, recvActive, recvMsgCh, readLoop, inHand, wire, sent, got>>

\* Remove, or Shutdown: Close ends the session and the connection.
RemovePeer(p) ==
    /\ mode[p] = "live"
    /\ stage[p] = Paired
    /\ ~closed[p]
    /\ ~Blocked(p)
    /\ recvActive' = [recvActive EXCEPT ![p] = FALSE]
    /\ closed' = [closed EXCEPT ![p] = TRUE]
    /\ UNCHANGED <<stage, waiting, mode, recvMsgCh, readLoop, inHand, wire, sent, got>>

Handshake(p) ==
    \/ SendPeerName(p) \/ SendFails(p) \/ Receive(p)
    \/ WaitForTargetPeerName(p) \/ WaitFails(p)

ReadLoop(p) == ReadMessage(p) \/ DeliverMessage(p) \/ HandleReadError(p)

Next ==
    \E p \in Sides :
        Handshake(p) \/ Expire(p) \/ ReadLoop(p)
        \/ SendMessage(p) \/ HandlePeer(p) \/ LeavePeer(p) \/ RemovePeer(p)

\* Goroutines that can run do run.  Nobody has to send, to remove a peer or to
\* wait for so long that a context expires.
Fairness ==
    \A p \in Sides :
        /\ WF_vars(Handshake(p))
        /\ WF_vars(ReadLoop(p))
        /\ WF_vars(HandlePeer(p))
        /\ WF_vars(LeavePeer(p))

Spec == Init /\ [][Next]_vars /\ Fairness

-----------------------------------------------------------------------------
(* Properties.                                                             *)

\* Messages may be lost before handlePeer opens its session and after the end
\* of it, but not in between: what it passes on has no gap (deliverMessage
\* waits for room, Receive replaces the queue).
NoGaps ==
    \A p \in Sides : \A i \in 1..(Len(got[p]) - 1) : got[p][i + 1].no = got[p][i].no + 1

\* An initiator that counts the receiver as a peer is a peer of the receiver,
\* or was, or is one as soon as the receiver returns from its last write
\* (initiateHandshake, receiveHandshake).
PairedBothWays == stage["initiator"] = Paired => stage["receiver"] = Paired

\* Once handlePeer has its session and the read loop is there, the end of the
\* connection ends it (handleReadError, Close).
EndIsNoticed ==
    \A p \in Sides :
        (Serving(p) /\ readLoop[p] = "on" /\ closed[other(p)]) ~> mode[p] = "left"

\* "The session ends when ... EOF / connection error, Close is called"
\* (peer.go): no peer is kept for ever whose connection is gone.
SessionEnds ==
    \A p \in Sides : (Serving(p) /\ closed[other(p)]) ~> ~Serving(p)

=============================================================================
