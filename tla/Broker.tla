------------------------------- MODULE Broker -------------------------------
(***************************************************************************)
(* The message broker and its sessions (p2p/session.go), with the          *)
(* goroutines that use them: the command that asks the server and waits    *)
(* (pingClusterServer in cluster/client.go), the handlers of the server    *)
(* (cluster/server.go), and the handlers of a peer that answer a new       *)
(* connection with a push of their own (cluster/cvrdtpeer.go).             *)
(*                                                                         *)
(* Every goroutine owns the session it runs in; consumers holds them by    *)
(* session id.  The id of a request is fresh and its handler takes it      *)
(* over; the messages a transport makes itself all have the empty id, so   *)
(* their sessions replace each other in consumers.                         *)
(***************************************************************************)
EXTENDS Integers, Sequences, FiniteSets

CONSTANTS
    MaxRequests,    \* bound: requests of the client, one after the other
    Connections,    \* incoming connections of the peer
    QueueSize       \* capacity of Session.Recv

ASSUME BrokerAssumption == MaxRequests \in Nat /\ QueueSize \in Nat \ {0}

Nodes == {"client", "server", "peer"}

Requests == 1..MaxRequests

NEW_MSG_SEQUENCE == 0
INITIATED_MSG_SEQUENCE == 1

\* The goroutines: a request and its handler, the handler of a new connection
\* and the push it makes.
Asker(r) == <<"client", r>>
Handler(r) == <<"server", r>>
Greeter(k) == <<"greet", k>>
Pusher(k) == <<"push", k>>

Goroutines ==
    {Asker(r) : r \in Requests} \cup {Handler(r) : r \in Requests}
    \cup {Greeter(k) : k \in Connections} \cup {Pusher(k) : k \in Connections}

node(g) == IF g[1] \in Nodes THEN g[1] ELSE "peer"

LocalId == <<"local">>

\* Mutant: requests share an id.
SessionId_Shared(g) == IF g[1] = "greet" THEN LocalId ELSE <<"request", 0>>

\* The session id of the goroutine's session.
SessionId(g) ==
    CASE g[1] = "client" -> <<"request", g[2]>>
      [] g[1] = "server" -> <<"request", g[2]>>
      [] g[1] = "push"   -> <<"push", g[2]>>
      [] OTHER           -> LocalId

Ids == {SessionId(g) : g \in Goroutines}

Nobody == <<"nobody">>

VARIABLES
    stopped,        \* mb.stopped
    consumers,      \* mb.consumers: whose session has the id
    step,           \* where a goroutine is
    seqNo,          \* CurrentSeqNo of its session
    isClosed,       \* isClosed of its session
    recv,           \* its Recv channel
    result,         \* what pingClusterServer got
    net,            \* messages between client and server
    inHand,         \* dispatchMessage after the unlock: session and message
    stopping,       \* sessions Stop still has to close
    leaving,        \* the session Stop has closed and not yet removed
    panicked,       \* the process of a node died
    unanswered      \* history: requests refused, or lost on the way or back

vars == <<stopped, consumers, step, seqNo, isClosed, recv, result, net, inHand,
          stopping, leaving, panicked, unanswered>>

NoMessage == [id |-> LocalId, seq |-> 0, of |-> 0]

\* The brokers of a process share nothing: in one half of the initial states
\* the client has not joined yet and there is no peer, in the other one it has
\* already stopped and its peer has not.
Init ==
    /\ stopped \in {[n \in Nodes |-> n = "peer"], [n \in Nodes |-> n # "peer"]}
    /\ consumers = [n \in Nodes |-> [i \in Ids |-> Nobody]]
    /\ step = [g \in Goroutines |-> "off"]
    /\ seqNo = [g \in Goroutines |-> 0]
    /\ isClosed = [g \in Goroutines |-> FALSE]
    /\ recv = [g \in Goroutines |-> <<>>]
    /\ result = [r \in Requests |-> "none"]
    /\ net = {}
    /\ inHand = [n \in Nodes |-> [owner |-> Nobody, msg |-> NoMessage]]
    /\ stopping = [n \in Nodes |-> {}]
    /\ leaving = [n \in Nodes |-> Nobody]
    /\ panicked = [n \in Nodes |-> FALSE]
    /\ unanswered = {}

Goto(g, from, to) ==
    /\ ~panicked[node(g)]
    /\ step[g] = from
    /\ step' = [step EXCEPT ![g] = to]

-----------------------------------------------------------------------------
(* Sessions.                                                               *)

\* createSessionLocked
CreateSession(g, first) ==
    /\ consumers' = [consumers EXCEPT ![node(g)][SessionId(g)] = g]
    /\ seqNo' = [seqNo EXCEPT ![g] = first]

\* Mutant: the session closes, but stays in consumers.
RemoveSession_Forgotten(g) ==
    /\ Goto(g, "removing", "done")
    /\ UNCHANGED <<stopped, consumers, seqNo, isClosed, recv, result, net, inHand,
                   stopping, leaving, panicked, unanswered>>

\* Session.Close, deferred by its owner; Stop may have been quicker.
Close(g) ==
    /\ Goto(g, "closing", IF isClosed[g] THEN "done" ELSE "removing")
    /\ isClosed' = [isClosed EXCEPT ![g] = TRUE]
    /\ UNCHANGED <<stopped, consumers, seqNo, recv, result, net, inHand, stopping, leaving,
                   panicked, unanswered>>

\* onClose: whoever has the id now is removed.
RemoveSession(g) ==
    /\ Goto(g, "removing", "done")
    /\ consumers' = [consumers EXCEPT ![node(g)][SessionId(g)] = Nobody]
    /\ UNCHANGED <<stopped, seqNo, isClosed, recv, result, net, inHand, stopping, leaving,
                   panicked, unanswered>>

-----------------------------------------------------------------------------
(* A request: pingClusterServer.  The commands of a node run one by one;   *)
(* the one that runs when the program is interrupted runs on.              *)

Idle == \A r \in Requests : step[Asker(r)] \in {"off", "done"}

Command(r) ==
    /\ Idle
    /\ \A q \in 1..(r - 1) : step[Asker(q)] = "done"
    /\ ~stopped["client"]
    /\ Goto(Asker(r), "off", "create")
    /\ UNCHANGED <<stopped, consumers, seqNo, isClosed, recv, result, net, inHand,
                   stopping, leaving, panicked, unanswered>>

\* CreateNewSession: nil if the broker has stopped, and the deferred Close of
\* it ends the process.
CreateNewSession(r) ==
    LET g == Asker(r) IN
    /\ ~panicked["client"]
    /\ step[g] = "create"
    /\ IF stopped["client"]
       THEN /\ panicked' = [panicked EXCEPT !["client"] = TRUE]
            /\ UNCHANGED <<step, consumers, seqNo>>
       ELSE /\ step' = [step EXCEPT ![g] = "send"]
            /\ CreateSession(g, NEW_MSG_SEQUENCE)
            /\ UNCHANGED panicked
    /\ UNCHANGED <<stopped, isClosed, recv, result, net, inHand, stopping, leaving, unanswered>>

\* Send, Broadcast and WaitOn fail in a session that Stop has closed.
Fail(r) ==
    LET g == Asker(r) IN
    /\ ~panicked["client"]
    /\ step[g] \in {"send", "wait"}
    /\ isClosed[g]
    /\ step' = [step EXCEPT ![g] = "closing"]
    /\ result' = [result EXCEPT ![r] = "closed"]
    /\ UNCHANGED <<stopped, consumers, seqNo, isClosed, recv, net, inHand, stopping, leaving,
                   panicked, unanswered>>

\* setupSendingMsg and the transport: the message carries CurrentSeqNo.
Broadcast(r) ==
    LET g == Asker(r) IN
    /\ ~isClosed[g]
    /\ Goto(g, "send", "wait")
    /\ net' = net \cup {[to |-> "server", id |-> SessionId(g), seq |-> seqNo[g], of |-> r]}
    /\ seqNo' = [seqNo EXCEPT ![g] = @ + 1]
    /\ UNCHANGED <<stopped, consumers, isClosed, recv, result, inHand, stopping, leaving,
                   panicked, unanswered>>

WaitOn(r) ==
    LET g == Asker(r) IN
    /\ ~isClosed[g]
    /\ recv[g] # <<>>
    /\ Goto(g, "wait", "closing")
    /\ recv' = [recv EXCEPT ![g] = Tail(@)]
    /\ result' = [result EXCEPT ![r] =
            IF Head(recv[g]).seq # seqNo[g] THEN "out of order"
            ELSE IF Head(recv[g]).of # r THEN "misled" ELSE "answered"]
    /\ UNCHANGED <<stopped, consumers, seqNo, isClosed, net, inHand, stopping, leaving,
                   panicked, unanswered>>

\* WaitOnTimeout has passed, or the program is interrupted.
WaitOnExpires(r) ==
    /\ Goto(Asker(r), "wait", "closing")
    /\ result' = [result EXCEPT ![r] = "timeout"]
    /\ UNCHANGED <<stopped, consumers, seqNo, isClosed, recv, net, inHand, stopping, leaving,
                   panicked, unanswered>>

-----------------------------------------------------------------------------
(* The loop of the broker: dispatchMessage.                                *)

CanDispatch(n) == ~panicked[n] /\ ~stopped[n] /\ inHand[n].owner = Nobody

\* Mutant: the receiving end counts from zero as well.
DispatchNew_FromZero(r) ==
    \E m \in net :
        /\ CanDispatch("server")
        /\ m.to = "server" /\ m.of = r
        /\ net' = net \ {m}
        /\ Goto(Handler(r), "off", "handle")
        /\ CreateSession(Handler(r), NEW_MSG_SEQUENCE)
        /\ UNCHANGED <<stopped, isClosed, recv, result, inHand, stopping, leaving,
                   panicked, unanswered>>

\* The first message of a session starts its handler.
DispatchNew(r) ==
    \E m \in net :
        /\ CanDispatch("server")
        /\ m.to = "server" /\ m.of = r
        /\ net' = net \ {m}
        /\ Goto(Handler(r), "off", "handle")
        /\ CreateSession(Handler(r), INITIATED_MSG_SEQUENCE)
        /\ UNCHANGED <<stopped, isClosed, recv, result, inHand, stopping, leaving,
                   panicked, unanswered>>

\* An answer: its session is looked up.  One with the first sequence number
\* would be for a handler, and the client has none for the topic.
DispatchLookup ==
    \E m \in net :
        /\ CanDispatch("client")
        /\ m.to = "client"
        /\ net' = net \ {m}
        /\ inHand' = IF m.seq = NEW_MSG_SEQUENCE \/ consumers["client"][m.id] = Nobody
                     THEN inHand
                     ELSE [inHand EXCEPT !["client"] =
                              [owner |-> consumers["client"][m.id], msg |-> m]]
        /\ UNCHANGED <<stopped, consumers, step, seqNo, isClosed, recv, result,
                       stopping, leaving, panicked, unanswered>>

\* After the unlock it goes into the session's queue, if there is room.
DispatchSend ==
    LET g == inHand["client"].owner IN
    /\ ~panicked["client"]
    /\ g # Nobody
    /\ IF isClosed[g]
       THEN panicked' = [panicked EXCEPT !["client"] = TRUE] /\ UNCHANGED recv
       ELSE /\ recv' = [recv EXCEPT ![g] = IF Len(@) < QueueSize
                                           THEN Append(@, inHand["client"].msg) ELSE @]
            /\ UNCHANGED panicked
    /\ inHand' = [inHand EXCEPT !["client"] = [owner |-> Nobody, msg |-> NoMessage]]
    /\ UNCHANGED <<stopped, consumers, step, seqNo, isClosed, result, net, stopping, leaving, unanswered>>

-----------------------------------------------------------------------------
(* Handlers.                                                               *)

\* A message between client and server is gone: the first one can arrive before
\* handlePeer calls Receive, a later one meet a connection that has ended, or a
\* sender that has no entry for its receiver any more.
Lose(m) ==
    /\ m \in net
    /\ net' = net \ {m}
    /\ unanswered' = unanswered \cup {m.of}
    /\ UNCHANGED <<stopped, consumers, step, seqNo, isClosed, recv, result, inHand,
                   stopping, leaving, panicked>>

\* Mutant: the answer is sent twice.
Answer_Twice(r) ==
    LET g == Handler(r) IN
    /\ ~panicked["server"]
    /\ step[g] \in {"handle", "again"}
    /\ step' = [step EXCEPT ![g] = IF @ = "handle" THEN "again" ELSE "closing"]
    /\ net' = IF isClosed[g] THEN net
              ELSE net \cup {[to |-> "client", id |-> SessionId(g), seq |-> 1, of |-> r]}
    /\ UNCHANGED <<stopped, consumers, seqNo, isClosed, recv, result, inHand, stopping, leaving,
                   panicked, unanswered>>

\* The server's handler answers in the session it was given, if it is open.
Answer(r) ==
    LET g == Handler(r) IN
    /\ Goto(g, "handle", "closing")
    /\ net' = IF isClosed[g] THEN net
              ELSE net \cup {[to |-> "client", id |-> SessionId(g), seq |-> seqNo[g], of |-> r]}
    /\ seqNo' = IF isClosed[g] THEN seqNo ELSE [seqNo EXCEPT ![g] = @ + 1]
    /\ UNCHANGED <<stopped, consumers, isClosed, recv, result, inHand, stopping, leaving,
                   panicked, unanswered>>

\* A join that is refused or cannot be decoded gets no answer (sendError sends
\* only if the Enveloper failed), nor does a request whose answer cannot be
\* encoded.
Refuse(r) ==
    /\ Goto(Handler(r), "handle", "closing")
    /\ unanswered' = unanswered \cup {r}
    /\ UNCHANGED <<stopped, consumers, seqNo, isClosed, recv, result, net, inHand,
                   stopping, leaving, panicked>>

\* PEER_CONNECTION at the peer.
Greet(k) ==
    /\ CanDispatch("peer")
    /\ Goto(Greeter(k), "off", "handle")
    /\ CreateSession(Greeter(k), INITIATED_MSG_SEQUENCE)
    /\ UNCHANGED <<stopped, isClosed, recv, result, net, inHand, stopping, leaving,
                   panicked, unanswered>>

\* BroadcastRegistryOverTransport: a stopped broker has no session to give.
BeginPush(k) ==
    /\ ~panicked["peer"]
    /\ step[Greeter(k)] = "handle"
    /\ IF stopped["peer"]
       THEN /\ panicked' = [panicked EXCEPT !["peer"] = TRUE]
            /\ UNCHANGED <<step, consumers, seqNo>>
       ELSE /\ step' = [step EXCEPT ![Greeter(k)] = "push", ![Pusher(k)] = "send"]
            /\ CreateSession(Pusher(k), NEW_MSG_SEQUENCE)
            /\ UNCHANGED panicked
    /\ UNCHANGED <<stopped, isClosed, recv, result, net, inHand, stopping, leaving, unanswered>>

Push(k) ==
    /\ Goto(Pusher(k), "send", "closing")
    /\ seqNo' = IF isClosed[Pusher(k)] THEN seqNo ELSE [seqNo EXCEPT ![Pusher(k)] = @ + 1]
    /\ UNCHANGED <<stopped, consumers, isClosed, recv, result, net, inHand, stopping, leaving,
                   panicked, unanswered>>

EndGreet(k) ==
    /\ step[Pusher(k)] = "done"
    /\ Goto(Greeter(k), "push", "closing")
    /\ UNCHANGED <<stopped, consumers, seqNo, isClosed, recv, result, net, inHand,
                   stopping, leaving, panicked, unanswered>>

-----------------------------------------------------------------------------
(* Stop: by a command or, during a request, by an interrupt.               *)

Registered(n) == {consumers[n][i] : i \in Ids} \ {Nobody}

Stop(n) ==
    /\ ~panicked[n] /\ ~stopped[n]
    /\ stopped' = [stopped EXCEPT ![n] = TRUE]
    /\ stopping' = [stopping EXCEPT ![n] = Registered(n)]
    /\ UNCHANGED <<consumers, step, seqNo, isClosed, recv, result, net, inHand,
                   leaving, panicked, unanswered>>

\* Close of a session of the list: nothing if its owner was quicker.
StopCloses(n, g) ==
    /\ ~panicked[n]
    /\ g \in stopping[n] /\ leaving[n] = Nobody
    /\ stopping' = [stopping EXCEPT ![n] = @ \ {g}]
    /\ isClosed' = [isClosed EXCEPT ![g] = TRUE]
    /\ leaving' = IF isClosed[g] THEN leaving ELSE [leaving EXCEPT ![n] = g]
    /\ UNCHANGED <<stopped, consumers, step, seqNo, recv, result, net, inHand,
                   panicked, unanswered>>

\* onClose, after the unlock of the session.
StopRemoves(n) ==
    /\ ~panicked[n]
    /\ leaving[n] # Nobody
    /\ consumers' = [consumers EXCEPT ![n][SessionId(leaving[n])] = Nobody]
    /\ leaving' = [leaving EXCEPT ![n] = Nobody]
    /\ UNCHANGED <<stopped, step, seqNo, isClosed, recv, result, net, inHand,
                   stopping, panicked, unanswered>>

Request(r) == CreateNewSession(r) \/ Broadcast(r) \/ WaitOn(r) \/ Fail(r)

Reply(r) == Answer(r) \/ Refuse(r)

Next ==
    \/ \E r \in Requests :
          Command(r) \/ Request(r) \/ WaitOnExpires(r) \/ DispatchNew(r) \/ Reply(r)
    \/ DispatchLookup \/ DispatchSend \/ (\E m \in net : Lose(m))
    \/ \E k \in Connections : Greet(k) \/ BeginPush(k) \/ Push(k) \/ EndGreet(k)
    \/ \E g \in Goroutines : Close(g) \/ RemoveSession(g)
    \/ \E n \in Nodes : Stop(n) \/ StopRemoves(n) \/ (\E g \in Goroutines : StopCloses(n, g))

\* Goroutines that can run do run; a handler ends, with an answer or without.
\* Nobody has to connect, to stop, or to wait for so long that WaitOn expires; a
\* request is somebody's choice too, and no message has to be lost.
Fairness ==
    /\ \A r \in Requests :
          WF_vars(Request(r)) /\ WF_vars(DispatchNew(r)) /\ WF_vars(Reply(r))
    /\ WF_vars(DispatchLookup) /\ WF_vars(DispatchSend)
    /\ \A k \in Connections : WF_vars(BeginPush(k)) /\ WF_vars(Push(k)) /\ WF_vars(EndGreet(k))
    /\ \A g \in Goroutines : WF_vars(Close(g)) /\ WF_vars(RemoveSession(g))
    /\ \A n \in Nodes : WF_vars(StopRemoves(n))
    /\ \A n \in Nodes, g \in Goroutines : WF_vars(StopCloses(n, g))

Spec == Init /\ [][Next]_vars /\ Fairness

-----------------------------------------------------------------------------
(* Properties.                                                             *)

\* What WaitOn hands to the command is the answer to its own request, however
\* late the answers to earlier ones come, and never one its sequence check
\* refuses (WaitOn, setupSendingMsg, createSessionLocked).
AnswersFit == \A r \in Requests : result[r] \notin {"misled", "out of order"}

\* An answer comes to whoever waits long enough, if the server goes on: only a
\* refusal or the loss of a message leaves a request to its timeout, never the
\* sequence numbers, a session another one removed, or a full queue
\* (dispatchMessage, createSessionLocked).
AnswerComes ==
    \A r \in Requests :
        step[Asker(r)] = "wait" ~>
            \/ step[Asker(r)] # "wait" \/ r \in unanswered
            \/ stopped["server"] \/ panicked["client"]

\* consumers does not grow: who is in it still runs and will leave, also if Stop
\* or the handler of another message removed the session under its id, or is
\* the one that Stop removes next (Close, removeSession).
NoLeftovers ==
    \A n \in Nodes : \A g \in Registered(n) :
        step[g] \notin {"off", "done"} \/ leaving[n] = g

\* A process that goes on is lost in one way only: an answer comes just after
\* WaitOn gave up on it, and its session closes between dispatchMessage's
\* look-up and send.  The others need a Stop: that look-up again, and a request
\* or push that is due after it (CreateNewSession returns nil).
OnlyKnownPanics ==
    /\ panicked["client"] => stopped["client"] \/ \E r \in Requests : result[r] = "timeout"
    /\ panicked["peer"] => stopped["peer"]

=============================================================================
