--------------------------- MODULE Broker_proofs ---------------------------
(***************************************************************************)
(* What a request gets is its own answer, sessions do not pile up in a     *)
(* broker, and a process is lost in the known ways only; for any number of *)
(* requests, connections and places in a queue.                            *)
(*                                                                         *)
(* The first rests on where a message can go (Letters), the second on who  *)
(* can be in consumers (Registration), the third on both and on there      *)
(* being one answer to a request, in one place (Answers).                  *)
(***************************************************************************)
EXTENDS Broker, TLAPS

Steps == {"off", "create", "send", "wait", "handle", "push", "closing", "removing", "done"}

Results == {"none", "answered", "misled", "out of order", "timeout", "closed"}

Messages == [to : Nodes, id : Ids, seq : Nat, of : Requests]

Types ==
    /\ stopped \in [Nodes -> BOOLEAN]
    /\ consumers \in [Nodes -> [Ids -> Goroutines \cup {Nobody}]]
    /\ step \in [Goroutines -> Steps]
    /\ seqNo \in [Goroutines -> Nat]
    /\ isClosed \in [Goroutines -> BOOLEAN]
    /\ recv \in [Goroutines -> Seq(Messages)]
    /\ result \in [Requests -> Results]
    /\ net \subseteq Messages
    /\ inHand \in [Nodes -> [owner : Goroutines \cup {Nobody}, msg : Messages \cup {NoMessage}]]
    /\ inHand["client"].owner # Nobody => inHand["client"].msg \in Messages
    /\ stopping \in [Nodes -> SUBSET Goroutines]
    /\ leaving \in [Nodes -> Goroutines \cup {Nobody}]
    /\ unanswered \subseteq Requests
    /\ panicked \in [Nodes -> BOOLEAN]

-----------------------------------------------------------------------------
(* Sessions.                                                               *)

\* Who is in consumers is there under its id, in its process, since it started
\* and until it removes itself or Stop removes it; it is not closed before.
Registration ==
    \A n \in Nodes, i \in Ids : consumers[n][i] # Nobody =>
        LET g == consumers[n][i] IN
        /\ node(g) = n /\ SessionId(g) = i
        /\ step[g] \notin {"off", "create"}
        /\ step[g] = "done" => leaving[n] = g
        /\ isClosed[g] => step[g] = "removing" \/ leaving[n] = g

\* Stop and Close concern sessions that were created.
Created ==
    /\ \A g \in Goroutines : isClosed[g] => step[g] \notin {"off", "create"}
    /\ \A n \in Nodes : \A g \in stopping[n] :
          stopped[n] /\ node(g) = n /\ step[g] \notin {"off", "create"}

\* A push begins after its handler, which waits for it: at first, as long as
\* the handler is not at it, there is none.
PushOrder ==
    \A k \in Connections : step[Greeter(k)] \in {"off", "handle"} => step[Pusher(k)] = "off"

-----------------------------------------------------------------------------
(* Messages.                                                               *)

Fits(m, r) == m.of = r /\ m.seq = INITIATED_MSG_SEQUENCE

\* An answer has the id of its request, and gets no further than its session.
Letters ==
    /\ \A m \in net : m.to = "client" => m.id = <<"request", m.of>> /\ Fits(m, m.of)
    /\ inHand["client"].owner # Nobody =>
          \E r \in Requests : inHand["client"].owner = Asker(r) /\ Fits(inHand["client"].msg, r)
    /\ \A r \in Requests : \A i \in 1..Len(recv[Asker(r)]) : Fits(recv[Asker(r)][i], r)

Counts ==
    \A r \in Requests :
        /\ step[Asker(r)] = "send" => seqNo[Asker(r)] = 0
        /\ step[Asker(r)] = "wait" => seqNo[Asker(r)] = 1
        /\ step[Handler(r)] = "handle" => seqNo[Handler(r)] = 1

-----------------------------------------------------------------------------
(* Answers.                                                                *)

OnNet(r) == \E m \in net : m.to = "client" /\ m.of = r
InHand(r) == inHand["client"].owner = Asker(r)
Queued(r) == recv[Asker(r)] # <<>>

Answers ==
    \A r \in Requests :
        /\ step[Handler(r)] \in {"off", "handle"} \/ result[r] = "answered" =>
              ~OnNet(r) /\ ~InHand(r) /\ ~Queued(r)
        /\ step[Handler(r)] \in {"off", "handle"} => result[r] # "answered"
        /\ OnNet(r) => ~InHand(r) /\ ~Queued(r)
        /\ InHand(r) => ~Queued(r)
        /\ Len(recv[Asker(r)]) <= 1

\* How a request ends.
Ends ==
    \A r \in Requests :
        /\ step[Asker(r)] \in {"closing", "removing", "done"} => result[r] # "none"
        /\ result[r] = "closed" => stopped["client"]
        /\ isClosed[Asker(r)] => stopped["client"] \/ step[Asker(r)] \in {"removing", "done"}

BrokerInv ==
    /\ Types /\ Registration /\ Created /\ PushOrder
    /\ Letters /\ Counts /\ AnswersFit
    /\ Answers /\ Ends /\ OnlyKnownPanics

-----------------------------------------------------------------------------
(* Names and types.                                                        *)

\* Who a goroutine is, and where its session lies.
LEMMA GoroutineFacts ==
    /\ Nobody \notin Goroutines
    /\ \A r \in Requests :
          /\ Asker(r) \in Goroutines /\ Handler(r) \in Goroutines
          /\ node(Asker(r)) = "client" /\ node(Handler(r)) = "server"
          /\ SessionId(Asker(r)) = <<"request", r>> /\ SessionId(Handler(r)) = <<"request", r>>
    /\ \A k \in Connections :
          /\ Greeter(k) \in Goroutines /\ Pusher(k) \in Goroutines
          /\ node(Greeter(k)) = "peer" /\ node(Pusher(k)) = "peer"
          /\ Greeter(k) # Pusher(k)
    /\ \A r, q \in Requests :
          /\ Asker(r) = Asker(q) => r = q
          /\ Handler(r) = Handler(q) => r = q
          /\ Asker(r) # Handler(q)
    /\ \A r \in Requests, k \in Connections :
          /\ Asker(r) # Greeter(k) /\ Asker(r) # Pusher(k)
          /\ Handler(r) # Greeter(k) /\ Handler(r) # Pusher(k)
    /\ \A g \in Goroutines : node(g) \in Nodes /\ SessionId(g) \in Ids
<1>1. Nobody \notin Goroutines
    BY DEF Nobody, Goroutines, Asker, Handler, Greeter, Pusher
<1>2. \A r \in Requests :
          /\ Asker(r) \in Goroutines /\ Handler(r) \in Goroutines
          /\ node(Asker(r)) = "client" /\ node(Handler(r)) = "server"
          /\ SessionId(Asker(r)) = <<"request", r>> /\ SessionId(Handler(r)) = <<"request", r>>
    BY DEF Goroutines, Asker, Handler, node, Nodes, SessionId
<1>3. \A k \in Connections :
          /\ Greeter(k) \in Goroutines /\ Pusher(k) \in Goroutines
          /\ node(Greeter(k)) = "peer" /\ node(Pusher(k)) = "peer"
          /\ Greeter(k) # Pusher(k)
    BY DEF Goroutines, Greeter, Pusher, node, Nodes
<1>4. \A r, q \in Requests :
          /\ Asker(r) = Asker(q) => r = q
          /\ Handler(r) = Handler(q) => r = q
          /\ Asker(r) # Handler(q)
    BY DEF Asker, Handler
<1>5. \A r \in Requests, k \in Connections :
          /\ Asker(r) # Greeter(k) /\ Asker(r) # Pusher(k)
          /\ Handler(r) # Greeter(k) /\ Handler(r) # Pusher(k)
    BY DEF Asker, Handler, Greeter, Pusher
<1>6. \A g \in Goroutines : node(g) \in Nodes /\ SessionId(g) \in Ids
    BY DEF node, Nodes, Ids
<1> QED
    BY <1>1, <1>2, <1>3, <1>4, <1>5, <1>6

\* A session of the client is its request's.
LEMMA WhoseRequest ==
    ASSUME NEW g \in Goroutines, NEW r \in Requests,
           node(g) = "client", SessionId(g) = <<"request", r>>
    PROVE  g = Asker(r)
<1>1. PICK q \in Requests : g = Asker(q)
    BY DEF Goroutines, node, Nodes, Asker, Handler, Greeter, Pusher
<1> QED
    BY <1>1, GoroutineFacts

\* What the broker and the transport put on the network are messages.
LEMMA MessageFacts ==
    ASSUME NEW r \in Requests, NEW n \in Nat
    PROVE  /\ [to |-> "server", id |-> SessionId(Asker(r)), seq |-> n, of |-> r] \in Messages
           /\ [to |-> "client", id |-> SessionId(Handler(r)), seq |-> n, of |-> r] \in Messages
BY GoroutineFacts DEF Messages, Nodes

\* A new session is entered in consumers and counted.
LEMMA CreateSessionTypes ==
    ASSUME Types, NEW g \in Goroutines, NEW first \in Nat, CreateSession(g, first)
    PROVE  /\ consumers' \in [Nodes -> [Ids -> Goroutines \cup {Nobody}]]
           /\ seqNo' \in [Goroutines -> Nat]
BY GoroutineFacts DEF Types, CreateSession

\* Everything stays of its type.
LEMMA TypesHold == Types /\ [Next]_vars => Types'
<1> SUFFICES ASSUME Types, [Next]_vars PROVE Types'
    OBVIOUS
<1>1. ASSUME NEW r \in Requests, Command(r) PROVE Types'
    BY <1>1, GoroutineFacts DEF Types, Command, Goto, Steps
<1>2. ASSUME NEW r \in Requests, CreateNewSession(r) PROVE Types'
    <2>1. Asker(r) \in Goroutines /\ "client" \in Nodes
        BY GoroutineFacts DEF Nodes
    <2>2. CASE stopped["client"]
        BY <1>2, <2>1, <2>2 DEF Types, CreateNewSession
    <2>3. CASE ~stopped["client"]
        <3>1. CreateSession(Asker(r), 0)
            BY <1>2, <2>3 DEF CreateNewSession, NEW_MSG_SEQUENCE
        <3> QED
            BY <1>2, <2>1, <2>3, <3>1, CreateSessionTypes DEF Types, CreateNewSession, Steps
    <2> QED
        BY <2>2, <2>3
<1>3. ASSUME NEW r \in Requests, Fail(r) PROVE Types'
    BY <1>3, GoroutineFacts DEF Types, Fail, Steps, Results
<1>4. ASSUME NEW r \in Requests, Broadcast(r) PROVE Types'
    <2>1. seqNo[Asker(r)] \in Nat
        BY GoroutineFacts DEF Types
    <2>2. net' \subseteq Messages
        BY <1>4, <2>1, MessageFacts DEF Types, Broadcast
    <2> QED
        BY <1>4, <2>1, <2>2, GoroutineFacts DEF Types, Broadcast, Goto, Steps
<1>5. ASSUME NEW r \in Requests, WaitOn(r) PROVE Types'
    <2>1. recv[Asker(r)] \in Seq(Messages) /\ recv[Asker(r)] # <<>>
        BY <1>5, GoroutineFacts DEF Types, WaitOn
    <2>2. Tail(recv[Asker(r)]) \in Seq(Messages)
        BY <2>1
    <2> QED
        BY <1>5, <2>2, GoroutineFacts DEF Types, WaitOn, Goto, Steps, Results
<1>6. ASSUME NEW r \in Requests, WaitOnExpires(r) PROVE Types'
    BY <1>6, GoroutineFacts DEF Types, WaitOnExpires, Goto, Steps, Results
<1>7. ASSUME NEW r \in Requests, DispatchNew(r) PROVE Types'
    BY <1>7, GoroutineFacts DEF Types, DispatchNew, CreateSession, Goto, Steps, INITIATED_MSG_SEQUENCE
<1>8. ASSUME NEW r \in Requests, Answer(r) PROVE Types'
    <2>1. seqNo[Handler(r)] \in Nat
        BY GoroutineFacts DEF Types
    <2>2. net' \subseteq Messages
        BY <1>8, <2>1, MessageFacts DEF Types, Answer
    <2> QED
        BY <1>8, <2>1, <2>2, GoroutineFacts DEF Types, Answer, Goto, Steps
<1>9. ASSUME DispatchLookup PROVE Types'
    <2>1. PICK m \in net :
              /\ net' = net \ {m}
              /\ \/ inHand' = inHand
                 \/ inHand' = [inHand EXCEPT !["client"] = [owner |-> consumers["client"][m.id], msg |-> m]]
        BY <1>9 DEF DispatchLookup
    <2>2. m \in Messages /\ "client" \in Nodes
        BY DEF Types, Nodes
    <2>3. consumers["client"][m.id] \in Goroutines \cup {Nobody}
        BY <2>2 DEF Types, Messages
    <2> QED
        BY <1>9, <2>1, <2>2, <2>3 DEF Types, DispatchLookup
<1>10. ASSUME DispatchSend PROVE Types'
    <2> DEFINE h == inHand["client"]
               g == h.owner
    <2>1. "client" \in Nodes /\ g \in Goroutines /\ h.msg \in Messages
        BY <1>10 DEF Types, DispatchSend, Nodes
    <2>2. recv[g] \in Seq(Messages) /\ Append(recv[g], h.msg) \in Seq(Messages)
        BY <2>1 DEF Types
    <2>3. recv' \in [Goroutines -> Seq(Messages)]
        BY <1>10, <2>1, <2>2 DEF Types, DispatchSend
    <2>4. inHand' = [inHand EXCEPT !["client"] = [owner |-> Nobody, msg |-> NoMessage]]
        BY <1>10 DEF DispatchSend
    <2>5. /\ inHand' \in [Nodes -> [owner : Goroutines \cup {Nobody}, msg : Messages \cup {NoMessage}]]
          /\ inHand'["client"].owner = Nobody
        BY <2>1, <2>4 DEF Types
    <2>6. panicked' \in [Nodes -> BOOLEAN]
        BY <1>10, <2>1 DEF Types, DispatchSend
    <2> QED
        BY <1>10, <2>3, <2>5, <2>6 DEF Types, DispatchSend
<1>11. ASSUME NEW k \in Connections, Greet(k) PROVE Types'
    BY <1>11, GoroutineFacts DEF Types, Greet, CreateSession, Goto, Steps, INITIATED_MSG_SEQUENCE
<1>12. ASSUME NEW k \in Connections, BeginPush(k) PROVE Types'
    <2>1. Greeter(k) \in Goroutines /\ Pusher(k) \in Goroutines /\ "peer" \in Nodes
        BY GoroutineFacts DEF Nodes
    <2>2. CASE stopped["peer"]
        BY <1>12, <2>1, <2>2 DEF Types, BeginPush
    <2>3. CASE ~stopped["peer"]
        <3>1. CreateSession(Pusher(k), 0)
            BY <1>12, <2>3 DEF BeginPush, NEW_MSG_SEQUENCE
        <3> QED
            BY <1>12, <2>1, <2>3, <3>1, CreateSessionTypes DEF Types, BeginPush, Steps
    <2> QED
        BY <2>2, <2>3
<1>13. ASSUME NEW k \in Connections, Push(k) \/ EndGreet(k) PROVE Types'
    <2>1. Greeter(k) \in Goroutines /\ Pusher(k) \in Goroutines
        BY GoroutineFacts
    <2>2. CASE Push(k)
        BY <2>1, <2>2 DEF Types, Push, Goto, Steps
    <2>3. CASE EndGreet(k)
        BY <2>1, <2>3 DEF Types, EndGreet, Goto, Steps
    <2> QED
        BY <1>13, <2>2, <2>3
<1>14. ASSUME NEW g \in Goroutines, Close(g) \/ RemoveSession(g) PROVE Types'
    <2>1. CASE Close(g)
        BY <2>1 DEF Types, Close, Goto, Steps
    <2>2. CASE RemoveSession(g)
        <3>1. node(g) \in Nodes /\ SessionId(g) \in Ids
            BY GoroutineFacts
        <3> QED
            BY <2>2, <3>1 DEF Types, RemoveSession, Goto, Steps
    <2> QED
        BY <1>14, <2>1, <2>2
<1>15. ASSUME NEW n \in Nodes, Stop(n) PROVE Types'
    <2>1. Registered(n) \subseteq Goroutines
        BY DEF Types, Registered
    <2> QED
        BY <1>15, <2>1 DEF Types, Stop
<1>16. ASSUME NEW n \in Nodes, NEW g \in Goroutines, StopCloses(n, g) PROVE Types'
    BY <1>16, GoroutineFacts DEF Types, StopCloses
<1>17. ASSUME NEW n \in Nodes, StopRemoves(n) PROVE Types'
    <2>1. SessionId(leaving[n]) \in Ids
        BY <1>17, GoroutineFacts DEF StopRemoves, Types
    <2> QED
        BY <1>17, <2>1 DEF Types, StopRemoves
<1>18. ASSUME NEW r \in Requests, Refuse(r) PROVE Types'
    BY <1>18, GoroutineFacts DEF Types, Refuse, Goto, Steps
<1>19. ASSUME NEW m \in net, Lose(m) PROVE Types'
    BY <1>19 DEF Types, Lose, Messages
<1>20. CASE UNCHANGED vars
    BY <1>20 DEF Types, vars
<1> QED
    BY <1>1, <1>2, <1>3, <1>4, <1>5, <1>6, <1>7, <1>8, <1>9, <1>10, <1>11, <1>12, <1>13,
       <1>14, <1>15, <1>16, <1>17, <1>18, <1>19, <1>20 DEF Next, Request, Reply

\* A message is lost.
Lost == \E m \in net : Lose(m)

-----------------------------------------------------------------------------
(* Sessions.                                                               *)

Sessions == Registration /\ Created

\* A goroutine goes on to where its session may still be in consumers, or
\* begins with a step that has none.
GoesOn(g) ==
    \/ step'[g] = step[g]
    \/ step[g] # "removing" /\ step'[g] \notin {"off", "create", "done"}
    \/ step[g] = "off" /\ step'[g] = "create"

\* Steps that neither enter nor close a session.
LEMMA SessionsStay ==
    ASSUME Types, Sessions, UNCHANGED <<consumers, isClosed, stopped, stopping, leaving>>,
           \A g \in Goroutines : GoesOn(g)
    PROVE  Sessions'
<1>1. Registration'
    <2> SUFFICES ASSUME NEW n \in Nodes, NEW i \in Ids, consumers[n][i] # Nobody
                 PROVE  LET g == consumers[n][i] IN
                        /\ node(g) = n /\ SessionId(g) = i
                        /\ step'[g] \notin {"off", "create"}
                        /\ step'[g] = "done" => leaving[n] = g
                        /\ isClosed[g] => step'[g] = "removing" \/ leaving[n] = g
        BY DEF Registration
    <2> DEFINE g == consumers[n][i]
    <2>1. g \in Goroutines
        BY DEF Types
    <2>2. /\ node(g) = n /\ SessionId(g) = i
          /\ step[g] \notin {"off", "create"}
          /\ step[g] = "done" => leaving[n] = g
          /\ isClosed[g] => step[g] = "removing" \/ leaving[n] = g
        BY DEF Sessions, Registration
    <2> QED
        BY <2>1, <2>2 DEF GoesOn
<1>2. Created'
    BY DEF Sessions, Created, GoesOn, Types
<1> QED
    BY <1>1, <1>2 DEF Sessions

\* A session is entered when its goroutine begins.
LEMMA SessionEntered ==
    ASSUME Types, Sessions, NEW g \in Goroutines, NEW first \in Nat, CreateSession(g, first),
           UNCHANGED <<isClosed, stopped, stopping, leaving>>,
           step[g] \in {"off", "create"}, step'[g] \in {"send", "handle"},
           \A f \in Goroutines \ {g} : GoesOn(f)
    PROVE  Sessions'
<1>1. Registration'
    <2> SUFFICES ASSUME NEW n \in Nodes, NEW i \in Ids, consumers'[n][i] # Nobody
                 PROVE  LET f == consumers'[n][i] IN
                        /\ node(f) = n /\ SessionId(f) = i
                        /\ step'[f] \notin {"off", "create"}
                        /\ step'[f] = "done" => leaving[n] = f
                        /\ isClosed[f] => step'[f] = "removing" \/ leaving[n] = f
        BY DEF Registration
    <2>1. node(g) \in Nodes /\ SessionId(g) \in Ids
        BY GoroutineFacts
    <2>2. CASE n = node(g) /\ i = SessionId(g)
        <3>1. consumers'[n][i] = g
            BY <2>1, <2>2 DEF Types, CreateSession
        <3>2. ~isClosed[g]
            BY DEF Sessions, Created
        <3> QED
            BY <2>2, <3>1, <3>2
    <2>3. CASE ~(n = node(g) /\ i = SessionId(g))
        <3> DEFINE f == consumers[n][i]
        <3>1. consumers'[n][i] = f
            BY <2>1, <2>3 DEF Types, CreateSession
        <3>2. f \in Goroutines
            BY <3>1 DEF Types
        <3>3. /\ node(f) = n /\ SessionId(f) = i
              /\ step[f] \notin {"off", "create"}
              /\ step[f] = "done" => leaving[n] = f
              /\ isClosed[f] => step[f] = "removing" \/ leaving[n] = f
            BY <3>1 DEF Sessions, Registration
        <3> QED
            BY <3>1, <3>2, <3>3 DEF GoesOn
    <2> QED
        BY <2>2, <2>3
<1>2. Created'
    BY DEF Sessions, Created, GoesOn, Types
<1> QED
    BY <1>1, <1>2 DEF Sessions

\* Close marks the session, RemoveSession clears its place: the goroutine is
\* done when it is in consumers no more.
LEMMA SessionLeaves ==
    ASSUME Types, Sessions, NEW g \in Goroutines, Close(g) \/ RemoveSession(g)
    PROVE  Sessions'
<1>0. node(g) \in Nodes /\ SessionId(g) \in Ids
    BY GoroutineFacts
<1>1. CASE Close(g)
    <2>1. /\ step[g] = "closing" /\ isClosed'[g]
          /\ step'[g] = IF isClosed[g] THEN "done" ELSE "removing"
          /\ \A f \in Goroutines \ {g} : step'[f] = step[f] /\ isClosed'[f] = isClosed[f]
          /\ UNCHANGED <<consumers, stopped, stopping, leaving>>
        BY <1>1 DEF Close, Goto, Types
    <2>2. Registration'
        <3> SUFFICES ASSUME NEW n \in Nodes, NEW i \in Ids, consumers[n][i] # Nobody
                     PROVE  LET f == consumers[n][i] IN
                            /\ node(f) = n /\ SessionId(f) = i
                            /\ step'[f] \notin {"off", "create"}
                            /\ step'[f] = "done" => leaving[n] = f
                            /\ isClosed'[f] => step'[f] = "removing" \/ leaving[n] = f
            BY <2>1 DEF Registration
        <3> DEFINE f == consumers[n][i]
        <3>1. f \in Goroutines
            BY DEF Types
        <3>2. /\ node(f) = n /\ SessionId(f) = i
              /\ step[f] \notin {"off", "create"}
              /\ step[f] = "done" => leaving[n] = f
              /\ isClosed[f] => step[f] = "removing" \/ leaving[n] = f
            BY DEF Sessions, Registration
        <3> QED
            BY <2>1, <3>1, <3>2
    <2>3. Created'
        BY <2>1 DEF Sessions, Created, Types
    <2> QED
        BY <2>2, <2>3 DEF Sessions
<1>2. CASE RemoveSession(g)
    <2>1. /\ step[g] = "removing" /\ step'[g] = "done"
          /\ \A f \in Goroutines \ {g} : step'[f] = step[f]
          /\ UNCHANGED <<isClosed, stopped, stopping, leaving>>
          /\ \A n \in Nodes, i \in Ids :
                consumers'[n][i] = IF n = node(g) /\ i = SessionId(g) THEN Nobody ELSE consumers[n][i]
        BY <1>0, <1>2 DEF RemoveSession, Goto, Types
    <2>2. Registration'
        <3> SUFFICES ASSUME NEW n \in Nodes, NEW i \in Ids, consumers'[n][i] # Nobody
                     PROVE  LET f == consumers'[n][i] IN
                            /\ node(f) = n /\ SessionId(f) = i
                            /\ step'[f] \notin {"off", "create"}
                            /\ step'[f] = "done" => leaving[n] = f
                            /\ isClosed[f] => step'[f] = "removing" \/ leaving[n] = f
            BY <2>1 DEF Registration
        <3> DEFINE f == consumers[n][i]
        <3>1. f \in Goroutines /\ consumers'[n][i] = f /\ f # Nobody /\ ~(n = node(g) /\ i = SessionId(g))
            BY <2>1 DEF Types
        <3>2. /\ node(f) = n /\ SessionId(f) = i
              /\ step[f] \notin {"off", "create"}
              /\ step[f] = "done" => leaving[n] = f
              /\ isClosed[f] => step[f] = "removing" \/ leaving[n] = f
            BY <3>1 DEF Sessions, Registration
        <3>3. f # g
            BY <3>1, <3>2
        <3> QED
            BY <2>1, <3>1, <3>2, <3>3
    <2>3. Created'
        BY <2>1 DEF Sessions, Created, Types
    <2> QED
        BY <2>2, <2>3 DEF Sessions
<1> QED
    BY <1>1, <1>2

\* The steps of Stop.
StopSteps(n) == Stop(n) \/ StopRemoves(n) \/ \E g \in Goroutines : StopCloses(n, g)

\* Stop lists who is in consumers, and takes out whom it closes first.
LEMMA SessionsStopped ==
    ASSUME Types, Sessions, NEW n \in Nodes,
           StopSteps(n)
    PROVE  Sessions'
<1>1. CASE Stop(n)
    <2>1. /\ \A m \in Nodes : stopped[m] => stopped'[m]
          /\ stopped'[n]
          /\ stopping'[n] = Registered(n)
          /\ \A m \in Nodes \ {n} : stopping'[m] = stopping[m]
          /\ UNCHANGED <<consumers, step, isClosed, leaving>>
        BY <1>1 DEF Stop, Types
    <2>2. Registration'
        BY <2>1 DEF Sessions, Registration
    <2>3. ASSUME NEW m \in Nodes, NEW g \in stopping'[m]
          PROVE  stopped'[m] /\ node(g) = m /\ step[g] \notin {"off", "create"}
        <3>1. CASE m = n
            <4>1. PICK i \in Ids : g = consumers[n][i] /\ g # Nobody
                BY <2>1, <3>1 DEF Registered
            <4> QED
                BY <2>1, <3>1, <4>1 DEF Sessions, Registration
        <3>2. CASE m # n
            BY <2>1, <3>2 DEF Sessions, Created
        <3> QED
            BY <3>1, <3>2
    <2> QED
        BY <2>1, <2>2, <2>3 DEF Sessions, Created
<1>2. ASSUME NEW g \in Goroutines, StopCloses(n, g) PROVE Sessions'
    <2>1. /\ g \in stopping[n] /\ isClosed'[g] /\ leaving[n] = Nobody
          /\ \A f \in Goroutines \ {g} : isClosed'[f] = isClosed[f]
          /\ \A m \in Nodes : stopping'[m] \subseteq stopping[m]
          /\ \A m \in Nodes : leaving'[m] = IF ~isClosed[g] /\ m = n THEN g ELSE leaving[m]
          /\ UNCHANGED <<consumers, stopped, step>>
        BY <1>2 DEF StopCloses, Types
    <2>2. node(g) = n /\ step[g] \notin {"off", "create"}
        BY <2>1 DEF Sessions, Created
    <2>3. Registration'
        <3> SUFFICES ASSUME NEW m \in Nodes, NEW i \in Ids, consumers[m][i] # Nobody
                     PROVE  LET f == consumers[m][i] IN
                            /\ node(f) = m /\ SessionId(f) = i
                            /\ step[f] \notin {"off", "create"}
                            /\ step[f] = "done" => leaving'[m] = f
                            /\ isClosed'[f] => step[f] = "removing" \/ leaving'[m] = f
            BY <2>1 DEF Registration
        <3> DEFINE f == consumers[m][i]
        <3>1. f \in Goroutines /\ f # Nobody
            BY DEF Types
        <3>2. /\ node(f) = m /\ SessionId(f) = i
              /\ step[f] \notin {"off", "create"}
              /\ step[f] = "done" => leaving[m] = f
              /\ isClosed[f] => step[f] = "removing" \/ leaving[m] = f
            BY DEF Sessions, Registration
        <3>3. CASE f = g
            BY <2>1, <2>2, <3>1, <3>2, <3>3
        <3>4. CASE f # g
            BY <2>1, <3>1, <3>2, <3>4
        <3> QED
            BY <3>3, <3>4
    <2>4. Created'
        BY <2>1, <2>2 DEF Sessions, Created, Types
    <2> QED
        BY <2>3, <2>4 DEF Sessions
<1>3. CASE StopRemoves(n)
    <2> DEFINE g == leaving[n]
    <2>0. g \in Goroutines /\ SessionId(g) \in Ids
        BY <1>3, GoroutineFacts DEF StopRemoves, Types
    <2>1. /\ \A m \in Nodes, i \in Ids :
                consumers'[m][i] = IF m = n /\ i = SessionId(g) THEN Nobody ELSE consumers[m][i]
          /\ \A m \in Nodes \ {n} : leaving'[m] = leaving[m]
          /\ UNCHANGED <<stopped, stopping, step, isClosed>>
        BY <1>3, <2>0 DEF StopRemoves, Types
    <2>2. Registration'
        <3> SUFFICES ASSUME NEW m \in Nodes, NEW i \in Ids, consumers'[m][i] # Nobody
                     PROVE  LET f == consumers'[m][i] IN
                            /\ node(f) = m /\ SessionId(f) = i
                            /\ step[f] \notin {"off", "create"}
                            /\ step[f] = "done" => leaving'[m] = f
                            /\ isClosed[f] => step[f] = "removing" \/ leaving'[m] = f
            BY <2>1 DEF Registration
        <3> DEFINE f == consumers[m][i]
        <3>1. consumers'[m][i] = f /\ f # Nobody /\ ~(m = n /\ i = SessionId(g))
            BY <2>1
        <3>2. /\ node(f) = m /\ SessionId(f) = i
              /\ step[f] \notin {"off", "create"}
              /\ step[f] = "done" => leaving[m] = f
              /\ isClosed[f] => step[f] = "removing" \/ leaving[m] = f
            BY <3>1 DEF Sessions, Registration
        <3>3. m = n => f # g
            BY <3>1, <3>2
        <3> QED
            BY <2>1, <3>1, <3>2, <3>3
    <2>3. Created'
        BY <2>1 DEF Sessions, Created
    <2> QED
        BY <2>2, <2>3 DEF Sessions
<1> QED
    BY <1>1, <1>2, <1>3 DEF StopSteps

\* Every step keeps that order.
LEMMA PushOrderHolds == Types /\ PushOrder /\ [Next]_vars => PushOrder'
<1> SUFFICES ASSUME Types, PushOrder, [Next]_vars PROVE PushOrder'
    OBVIOUS
<1>1. ASSUME NEW g \in Goroutines, NEW s \in Steps, step' = [step EXCEPT ![g] = s],
             s \in {"off", "handle"} => step[g] = "off",
             step[g] = "off" => \A k \in Connections : g # Pusher(k)
      PROVE  PushOrder'
    <2> SUFFICES ASSUME NEW k \in Connections, step'[Greeter(k)] \in {"off", "handle"}
                 PROVE  step'[Pusher(k)] = "off"
        BY DEF PushOrder
    <2>1. Greeter(k) \in Goroutines /\ Pusher(k) \in Goroutines
        BY GoroutineFacts
    <2>2. step[Greeter(k)] \in {"off", "handle"}
        BY <1>1, <2>1 DEF Types
    <2>3. step[Pusher(k)] = "off"
        BY <2>2 DEF PushOrder
    <2> QED
        BY <1>1, <2>1, <2>3 DEF Types
<1>2. ASSUME NEW r \in Requests,
             Command(r) \/ Fail(r) \/ Broadcast(r) \/ WaitOn(r) \/ WaitOnExpires(r)
             \/ DispatchNew(r) \/ Answer(r) \/ Refuse(r)
      PROVE  PushOrder'
    <2>1. /\ Asker(r) \in Goroutines /\ Handler(r) \in Goroutines
          /\ \A k \in Connections : Asker(r) # Pusher(k) /\ Handler(r) # Pusher(k)
        BY GoroutineFacts
    <2>2. \E g \in {Asker(r), Handler(r)}, s \in Steps :
             /\ step' = [step EXCEPT ![g] = s]
             /\ s \in {"off", "handle"} => step[g] = "off"
        BY <1>2 DEF Command, Fail, Broadcast, WaitOn, WaitOnExpires, DispatchNew, Answer, Refuse, Goto, Steps
    <2> QED
        BY <1>1, <2>1, <2>2
<1>3. ASSUME NEW r \in Requests, CreateNewSession(r) PROVE PushOrder'
    <2>1. Asker(r) \in Goroutines /\ \A k \in Connections : Asker(r) # Pusher(k)
        BY GoroutineFacts
    <2>2. UNCHANGED step \/ step' = [step EXCEPT ![Asker(r)] = "send"]
        BY <1>3 DEF CreateNewSession
    <2> QED
        BY <1>1, <2>1, <2>2 DEF PushOrder, Steps
<1>4. ASSUME NEW k \in Connections, Greet(k) \/ Push(k) \/ EndGreet(k) PROVE PushOrder'
    <2>1. /\ Greeter(k) \in Goroutines /\ Pusher(k) \in Goroutines
          /\ \A j \in Connections : Greeter(k) # Pusher(j)
        BY DEF Goroutines, Greeter, Pusher
    <2>2. \/ step[Greeter(k)] = "off" /\ step' = [step EXCEPT ![Greeter(k)] = "handle"]
          \/ step[Greeter(k)] = "push" /\ step' = [step EXCEPT ![Greeter(k)] = "closing"]
          \/ step[Pusher(k)] = "send" /\ step' = [step EXCEPT ![Pusher(k)] = "closing"]
        BY <1>4 DEF Greet, Push, EndGreet, Goto
    <2> QED
        BY <1>1, <2>1, <2>2 DEF Steps
<1>5. ASSUME NEW k \in Connections, BeginPush(k) PROVE PushOrder'
    <2>1. /\ Greeter(k) \in Goroutines /\ Pusher(k) \in Goroutines
          /\ \A j \in Connections :
                /\ Greeter(j) \in Goroutines /\ Pusher(j) \in Goroutines
                /\ Greeter(k) # Pusher(j) /\ Pusher(k) # Greeter(j)
                /\ Pusher(k) = Pusher(j) => k = j
        BY DEF Goroutines, Greeter, Pusher
    <2>2. \/ UNCHANGED step
          \/ step' = [step EXCEPT ![Greeter(k)] = "push", ![Pusher(k)] = "send"]
        BY <1>5 DEF BeginPush
    <2> QED
        BY <2>1, <2>2 DEF PushOrder, Types
<1>6. ASSUME NEW g \in Goroutines, Close(g) \/ RemoveSession(g) PROVE PushOrder'
    <2>1. \E s \in {"done", "removing"} : step[g] # "off" /\ step' = [step EXCEPT ![g] = s]
        BY <1>6 DEF Close, RemoveSession, Goto
    <2> QED
        BY <1>1, <2>1 DEF Steps
<1>7. ASSUME UNCHANGED step PROVE PushOrder'
    BY <1>7 DEF PushOrder
<1>8. CASE DispatchLookup \/ DispatchSend \/ Lost \/ UNCHANGED vars
    BY <1>7, <1>8 DEF DispatchLookup, DispatchSend, Lost, Lose, vars
<1>9. ASSUME NEW n \in Nodes, StopSteps(n) PROVE PushOrder'
    BY <1>7, <1>9 DEF StopSteps, Stop, StopCloses, StopRemoves
<1> QED
    BY <1>2, <1>3, <1>4, <1>5, <1>6, <1>8, <1>9
       DEF Next, Request, Reply, Lost, StopSteps

\* Every step keeps the sessions in order.
LEMMA SessionsHold == Types /\ Sessions /\ PushOrder /\ [Next]_vars => Sessions'
<1> SUFFICES ASSUME Types, Sessions, PushOrder, [Next]_vars PROVE Sessions'
    OBVIOUS
<1>1. ASSUME NEW r \in Requests,
             Command(r) \/ Fail(r) \/ Broadcast(r) \/ WaitOn(r) \/ WaitOnExpires(r) \/ Answer(r)
             \/ Refuse(r)
      PROVE  Sessions'
    <2>1. Asker(r) \in Goroutines /\ Handler(r) \in Goroutines
        BY GoroutineFacts
    <2>2. UNCHANGED <<consumers, isClosed, stopped, stopping, leaving>>
        BY <1>1 DEF Command, Fail, Broadcast, WaitOn, WaitOnExpires, Answer, Refuse
    <2>3. \E g \in {Asker(r), Handler(r)}, s \in Steps :
             /\ step' = [step EXCEPT ![g] = s]
             /\ \/ step[g] = "off" /\ s = "create"
                \/ step[g] # "removing" /\ s \in {"wait", "closing"}
        BY <1>1 DEF Command, Fail, Broadcast, WaitOn, WaitOnExpires, Answer, Refuse, Goto, Steps
    <2>4. \A g \in Goroutines : GoesOn(g)
        BY <2>1, <2>3 DEF GoesOn, Types
    <2> QED
        BY <2>2, <2>4, SessionsStay
<1>2. ASSUME NEW k \in Connections, Push(k) \/ EndGreet(k) PROVE Sessions'
    <2>1. Pusher(k) \in Goroutines /\ Greeter(k) \in Goroutines
        BY GoroutineFacts
    <2>2. UNCHANGED <<consumers, isClosed, stopped, stopping, leaving>>
        BY <1>2 DEF Push, EndGreet
    <2>3. \E g \in {Pusher(k), Greeter(k)} :
             step[g] # "removing" /\ step' = [step EXCEPT ![g] = "closing"]
        BY <1>2 DEF Push, EndGreet, Goto
    <2>4. \A g \in Goroutines : GoesOn(g)
        BY <2>1, <2>3 DEF GoesOn, Types
    <2> QED
        BY <2>2, <2>4, SessionsStay
<1>3. CASE DispatchLookup \/ DispatchSend \/ Lost \/ UNCHANGED vars
    <2>1. UNCHANGED <<consumers, isClosed, stopped, stopping, leaving, step>>
        BY <1>3 DEF DispatchLookup, DispatchSend, Lost, Lose, vars
    <2> QED
        BY <2>1, SessionsStay DEF GoesOn
<1>4. ASSUME NEW r \in Requests, CreateNewSession(r) PROVE Sessions'
    <2> DEFINE g == Asker(r)
    <2>1. g \in Goroutines /\ step[g] = "create" /\ UNCHANGED <<isClosed, stopped, stopping, leaving>>
        BY <1>4, GoroutineFacts DEF CreateNewSession
    <2>2. CASE UNCHANGED <<step, consumers>>
        BY <2>1, <2>2, SessionsStay DEF GoesOn
    <2>3. CASE step' = [step EXCEPT ![g] = "send"] /\ CreateSession(g, NEW_MSG_SEQUENCE)
        <3>1. step'[g] = "send" /\ \A f \in Goroutines \ {g} : GoesOn(f)
            BY <2>1, <2>3 DEF GoesOn, Types
        <3> QED
            BY <2>1, <2>3, <3>1, SessionEntered DEF NEW_MSG_SEQUENCE
    <2> QED
        BY <1>4, <2>2, <2>3 DEF CreateNewSession
<1>5. ASSUME NEW g \in Goroutines, Goto(g, "off", "handle"),
             CreateSession(g, INITIATED_MSG_SEQUENCE), UNCHANGED <<isClosed, stopped, stopping, leaving>>
      PROVE  Sessions'
    <2>1. step[g] = "off" /\ step'[g] = "handle" /\ \A f \in Goroutines \ {g} : GoesOn(f)
        BY <1>5 DEF Goto, GoesOn, Types
    <2> QED
        BY <1>5, <2>1, SessionEntered DEF INITIATED_MSG_SEQUENCE
<1>6. ASSUME NEW r \in Requests, DispatchNew(r) PROVE Sessions'
    BY <1>5, <1>6, GoroutineFacts DEF DispatchNew
<1>7. ASSUME NEW k \in Connections, Greet(k) PROVE Sessions'
    BY <1>5, <1>7, GoroutineFacts DEF Greet
<1>8. ASSUME NEW k \in Connections, BeginPush(k) PROVE Sessions'
    <2> DEFINE g == Greeter(k)
               h == Pusher(k)
    <2>1. g \in Goroutines /\ h \in Goroutines /\ g # h
        BY GoroutineFacts
    <2>2. step[g] = "handle" /\ UNCHANGED <<isClosed, stopped, stopping, leaving>>
        BY <1>8 DEF BeginPush
    <2>3. CASE UNCHANGED <<step, consumers>>
        BY <2>2, <2>3, SessionsStay DEF GoesOn
    <2>4. CASE /\ step' = [step EXCEPT ![g] = "push", ![h] = "send"]
               /\ CreateSession(h, NEW_MSG_SEQUENCE)
        <3>1. step'[h] = "send" /\ \A f \in Goroutines \ {h} : GoesOn(f)
            BY <2>1, <2>2, <2>4 DEF GoesOn, Types
        <3>2. step[h] = "off"
            BY <2>2 DEF PushOrder
        <3> QED
            BY <2>1, <2>2, <2>4, <3>1, <3>2, SessionEntered DEF NEW_MSG_SEQUENCE
    <2> QED
        BY <1>8, <2>3, <2>4 DEF BeginPush
<1> QED
    BY <1>1, <1>2, <1>3, <1>4, <1>6, <1>7, <1>8, SessionLeaves, SessionsStopped
       DEF Next, Request, Reply, Lost, StopSteps

-----------------------------------------------------------------------------
(* Messages.                                                               *)

\* A goroutine that is to send or to wait counts as it did before.
CountsOn(g) ==
    step'[g] \in {"send", "wait", "handle"} => step'[g] = step[g] /\ seqNo'[g] = seqNo[g]

\* The sequence numbers stay right as long as no goroutine sends or waits that
\* did not before.
LEMMA CountsStay ==
    ASSUME Counts, \A r \in Requests : CountsOn(Asker(r)) /\ CountsOn(Handler(r))
    PROVE  Counts'
BY DEF Counts, CountsOn

\* A request is message 0 of its session, its answer message 1.
LEMMA CountsHold == Types /\ Counts /\ [Next]_vars => Counts'
<1> SUFFICES ASSUME Types, Counts, [Next]_vars PROVE Counts'
    OBVIOUS
<1>0. \A r \in Requests : Asker(r) \in Goroutines /\ Handler(r) \in Goroutines
    BY GoroutineFacts
<1>1. ASSUME NEW g \in Goroutines, NEW s \in Steps \ {"send", "wait", "handle"},
             step' = [step EXCEPT ![g] = s],
             \A f \in Goroutines \ {g} : seqNo'[f] = seqNo[f]
      PROVE  Counts'
    <2>1. \A f \in Goroutines : CountsOn(f)
        BY <1>1 DEF CountsOn, Types
    <2> QED
        BY <1>0, <2>1, CountsStay
<1>2. ASSUME NEW r \in Requests,
             Command(r) \/ Fail(r) \/ WaitOn(r) \/ WaitOnExpires(r) \/ Answer(r)
             \/ Refuse(r)
      PROVE  Counts'
    <2>1. \E g \in {Asker(r), Handler(r)}, s \in Steps \ {"send", "wait", "handle"} :
             /\ step' = [step EXCEPT ![g] = s]
             /\ \A f \in Goroutines \ {g} : seqNo'[f] = seqNo[f]
        BY <1>2 DEF Command, Fail, WaitOn, WaitOnExpires, Answer, Refuse, Goto, Steps, Types
    <2> QED
        BY <1>0, <1>1, <2>1
<1>3. ASSUME NEW r \in Requests, CreateNewSession(r) PROVE Counts'
    <2>1. \/ UNCHANGED <<step, seqNo>>
          \/ /\ step' = [step EXCEPT ![Asker(r)] = "send"]
             /\ seqNo' = [seqNo EXCEPT ![Asker(r)] = 0]
        BY <1>3 DEF CreateNewSession, CreateSession, NEW_MSG_SEQUENCE
    <2> QED
        BY <1>0, <2>1, GoroutineFacts DEF Counts, Types
<1>4. ASSUME NEW r \in Requests, Broadcast(r) PROVE Counts'
    <2>1. /\ step[Asker(r)] = "send"
          /\ step' = [step EXCEPT ![Asker(r)] = "wait"]
          /\ seqNo' = [seqNo EXCEPT ![Asker(r)] = @ + 1]
        BY <1>4 DEF Broadcast, Goto
    <2>2. seqNo[Asker(r)] = 0
        BY <2>1 DEF Counts
    <2>3. step'[Asker(r)] = "wait" /\ seqNo'[Asker(r)] = 1
        BY <1>0, <2>1, <2>2 DEF Types
    <2>4. \A f \in Goroutines \ {Asker(r)} : step'[f] = step[f] /\ seqNo'[f] = seqNo[f]
        BY <2>1 DEF Types
    <2> QED
        BY <1>0, <2>3, <2>4, GoroutineFacts DEF Counts
<1>5. ASSUME NEW r \in Requests, DispatchNew(r) PROVE Counts'
    <2>1. /\ step' = [step EXCEPT ![Handler(r)] = "handle"]
          /\ seqNo' = [seqNo EXCEPT ![Handler(r)] = 1]
        BY <1>5 DEF DispatchNew, CreateSession, Goto, INITIATED_MSG_SEQUENCE
    <2> QED
        BY <1>0, <2>1, GoroutineFacts DEF Counts, Types
<1>6. ASSUME NEW k \in Connections, Greet(k) \/ BeginPush(k) \/ Push(k) \/ EndGreet(k)
      PROVE  Counts'
    <2>1. \A f \in Goroutines \ {Greeter(k), Pusher(k)} : step'[f] = step[f] /\ seqNo'[f] = seqNo[f]
        BY <1>6 DEF Greet, BeginPush, Push, EndGreet, CreateSession, Goto, Types
    <2> QED
        BY <1>0, <2>1, GoroutineFacts, CountsStay DEF CountsOn
<1>7. ASSUME NEW g \in Goroutines, Close(g) \/ RemoveSession(g) PROVE Counts'
    <2>1. UNCHANGED seqNo /\ \E s \in {"done", "removing"} : step' = [step EXCEPT ![g] = s]
        BY <1>7 DEF Close, RemoveSession, Goto
    <2> QED
        BY <1>1, <2>1 DEF Steps
<1>8. ASSUME UNCHANGED <<step, seqNo>> PROVE Counts'
    BY <1>8 DEF Counts
<1>9. CASE DispatchLookup \/ DispatchSend \/ Lost \/ UNCHANGED vars
    BY <1>8, <1>9 DEF DispatchLookup, DispatchSend, Lost, Lose, vars
<1>10. ASSUME NEW n \in Nodes, StopSteps(n) PROVE Counts'
    BY <1>8, <1>10 DEF StopSteps, Stop, StopCloses, StopRemoves
<1> QED
    BY <1>2, <1>3, <1>4, <1>5, <1>6, <1>7, <1>9, <1>10
       DEF Next, Request, Reply, Lost, StopSteps

\* An answer has nobody but its request to go to.
LEMMA LettersHold == Types /\ Sessions /\ Letters /\ Counts /\ [Next]_vars => Letters'
<1> SUFFICES ASSUME Types, Sessions, Letters, Counts, [Next]_vars PROVE Letters'
    OBVIOUS
<1>0. \A r \in Requests : Asker(r) \in Goroutines /\ Handler(r) \in Goroutines
    BY GoroutineFacts
<1>1. ASSUME net' \subseteq net, UNCHANGED <<inHand, recv>> PROVE Letters'
    BY <1>1 DEF Letters
<1>2. ASSUME NEW r \in Requests,
             Command(r) \/ CreateNewSession(r) \/ Fail(r) \/ WaitOnExpires(r) \/ DispatchNew(r)
             \/ Refuse(r)
      PROVE  Letters'
    BY <1>1, <1>2 DEF Command, CreateNewSession, Fail, WaitOnExpires, DispatchNew, Refuse
<1>3. ASSUME NEW r \in Requests, Broadcast(r) PROVE Letters'
    <2> DEFINE m == [to |-> "server", id |-> SessionId(Asker(r)), seq |-> seqNo[Asker(r)], of |-> r]
    <2>1. net' = net \cup {m} /\ UNCHANGED <<inHand, recv>>
        BY <1>3 DEF Broadcast
    <2>2. m.to # "client"
        OBVIOUS
    <2> HIDE DEF m
    <2> QED
        BY <2>1, <2>2 DEF Letters
<1>4. ASSUME NEW r \in Requests, WaitOn(r) PROVE Letters'
    <2>1. UNCHANGED <<net, inHand>> /\ recv' = [recv EXCEPT ![Asker(r)] = Tail(@)]
        BY <1>4 DEF WaitOn
    <2>2. recv[Asker(r)] \in Seq(Messages) /\ recv[Asker(r)] # <<>>
        BY <1>0, <1>4 DEF Types, WaitOn
    <2>3. ASSUME NEW i \in 1..Len(Tail(recv[Asker(r)])) PROVE Fits(Tail(recv[Asker(r)])[i], r)
        <3>1. i + 1 \in 1..Len(recv[Asker(r)]) /\ Tail(recv[Asker(r)])[i] = recv[Asker(r)][i + 1]
            BY <2>2
        <3> QED
            BY <3>1 DEF Letters
    <2>4. ASSUME NEW q \in Requests, NEW i \in 1..Len(recv'[Asker(q)]) PROVE Fits(recv'[Asker(q)][i], q)
        <3>1. CASE q = r
            BY <1>0, <2>1, <2>3, <3>1 DEF Types
        <3>2. CASE q # r
            <4>1. recv'[Asker(q)] = recv[Asker(q)]
                BY <1>0, <2>1, <3>2, GoroutineFacts DEF Types
            <4> QED
                BY <4>1 DEF Letters
        <3> QED
            BY <3>1, <3>2
    <2> QED
        BY <2>1, <2>4 DEF Letters
<1>5. CASE DispatchLookup
    <2>1. PICK m \in net :
              /\ m.to = "client" /\ net' = net \ {m}
              /\ inHand' = IF m.seq = NEW_MSG_SEQUENCE \/ consumers["client"][m.id] = Nobody
                           THEN inHand
                           ELSE [inHand EXCEPT !["client"] =
                                    [owner |-> consumers["client"][m.id], msg |-> m]]
        BY <1>5 DEF DispatchLookup
    <2> DEFINE g == consumers["client"][m.id]
    <2>2. UNCHANGED recv
        BY <1>5 DEF DispatchLookup
    <2>3. CASE UNCHANGED inHand
        BY <1>1, <2>1, <2>2, <2>3
    <2>4. CASE g # Nobody /\ inHand' = [inHand EXCEPT !["client"] = [owner |-> g, msg |-> m]]
        <3>1. "client" \in Nodes /\ m \in Messages /\ m.id \in Ids /\ m.of \in Requests
            BY DEF Types, Nodes, Messages
        <3>2. m.id = <<"request", m.of>> /\ Fits(m, m.of)
            BY <2>1 DEF Letters
        <3>3. g \in Goroutines /\ node(g) = "client" /\ SessionId(g) = m.id
            BY <2>4, <3>1 DEF Types, Sessions, Registration
        <3>4. g = Asker(m.of)
            BY <3>1, <3>2, <3>3, WhoseRequest
        <3>5. inHand'["client"].owner = g /\ inHand'["client"].msg = m
            BY <2>4, <3>1 DEF Types
        <3> QED
            BY <2>1, <2>2, <3>1, <3>2, <3>4, <3>5 DEF Letters
    <2> QED
        BY <2>1, <2>3, <2>4
<1>6. CASE DispatchSend
    <2> DEFINE h == inHand["client"]
               g == h.owner
    <2>1. g # Nobody /\ "client" \in Nodes /\ UNCHANGED net
        BY <1>6 DEF DispatchSend, Nodes
    <2>2. PICK r \in Requests : g = Asker(r) /\ Fits(h.msg, r)
        BY <2>1 DEF Letters
    <2>3. inHand'["client"].owner = Nobody
        BY <1>6, <2>1 DEF DispatchSend, Types
    <2>4. g \in Goroutines /\ h.msg \in Messages /\ recv[g] \in Seq(Messages)
        BY <2>1 DEF Types
    <2>5. \/ UNCHANGED recv
          \/ recv' = [recv EXCEPT ![g] = Append(recv[g], h.msg)]
        BY <1>6, <2>4 DEF DispatchSend, Types
    <2>6. ASSUME NEW q \in Requests, NEW i \in 1..Len(recv'[Asker(q)]) PROVE Fits(recv'[Asker(q)][i], q)
        <3>1. CASE recv'[Asker(q)] = recv[Asker(q)]
            BY <3>1 DEF Letters
        <3>2. CASE recv'[Asker(q)] # recv[Asker(q)]
            <4>1. q = r /\ recv'[Asker(q)] = Append(recv[g], h.msg)
                BY <1>0, <2>2, <2>4, <2>5, <3>2, GoroutineFacts DEF Types
            <4>2. CASE i \in 1..Len(recv[g])
                <5>1. Append(recv[g], h.msg)[i] = recv[g][i]
                    BY <2>4, <4>2
                <5> QED
                    BY <2>2, <4>1, <4>2, <5>1 DEF Letters
            <4>3. CASE i = Len(recv[g]) + 1
                <5>1. Append(recv[g], h.msg)[i] = h.msg
                    BY <2>4, <4>3
                <5> QED
                    BY <2>2, <4>1, <5>1
            <4>4. i \in 1..(Len(recv[g]) + 1) /\ Len(recv[g]) \in Nat
                BY <2>4, <4>1
            <4> QED
                BY <4>2, <4>3, <4>4
        <3> QED
            BY <3>1, <3>2
    <2> QED
        BY <2>1, <2>3, <2>6 DEF Letters
<1>7. ASSUME NEW r \in Requests, Answer(r) PROVE Letters'
    <2> DEFINE m == [to |-> "client", id |-> SessionId(Handler(r)), seq |-> seqNo[Handler(r)], of |-> r]
    <2>1. step[Handler(r)] = "handle" /\ UNCHANGED <<inHand, recv>>
        BY <1>7 DEF Answer, Goto
    <2>2. net' = net \/ net' = net \cup {m}
        BY <1>7 DEF Answer
    <2>3. m.id = <<"request", m.of>> /\ Fits(m, m.of)
        BY <2>1, GoroutineFacts DEF Counts, Fits, INITIATED_MSG_SEQUENCE
    <2> HIDE DEF m
    <2> QED
        BY <2>1, <2>2, <2>3 DEF Letters
<1>8. ASSUME NEW k \in Connections, Greet(k) \/ BeginPush(k) \/ Push(k) \/ EndGreet(k)
      PROVE  Letters'
    BY <1>1, <1>8 DEF Greet, BeginPush, Push, EndGreet
<1>9. ASSUME NEW g \in Goroutines, Close(g) \/ RemoveSession(g) PROVE Letters'
    BY <1>1, <1>9 DEF Close, RemoveSession
<1>10. ASSUME NEW n \in Nodes, StopSteps(n) PROVE Letters'
    BY <1>1, <1>10 DEF StopSteps, Stop, StopCloses, StopRemoves
<1>11. CASE Lost \/ UNCHANGED vars
    BY <1>1, <1>11 DEF Lost, Lose, vars
<1> QED
    BY <1>2, <1>3, <1>4, <1>5, <1>6, <1>7, <1>8, <1>9, <1>10, <1>11
       DEF Next, Request, Reply, Lost, StopSteps

\* WaitOn takes the answer to its request, with the number that is due.
LEMMA AnswersFitHolds ==
    Types /\ Letters /\ Counts /\ AnswersFit /\ [Next]_vars => AnswersFit'
<1> SUFFICES ASSUME Types, Letters, Counts, AnswersFit, [Next]_vars PROVE AnswersFit'
    OBVIOUS
<1>1. ASSUME NEW r \in Requests, WaitOn(r) PROVE AnswersFit'
    <2>1. /\ step[Asker(r)] = "wait" /\ recv[Asker(r)] # <<>>
          /\ recv[Asker(r)] \in Seq(Messages) /\ Asker(r) \in Goroutines
        BY <1>1, GoroutineFacts DEF WaitOn, Goto, Types
    <2>2. 1 \in 1..Len(recv[Asker(r)]) /\ Head(recv[Asker(r)]) = recv[Asker(r)][1]
        BY <2>1
    <2>3. Fits(Head(recv[Asker(r)]), r) /\ seqNo[Asker(r)] = 1
        BY <2>1, <2>2 DEF Letters, Counts
    <2>4. result' = [result EXCEPT ![r] = "answered"]
        BY <1>1, <2>3 DEF WaitOn, Fits, INITIATED_MSG_SEQUENCE
    <2> QED
        BY <2>4 DEF AnswersFit, Types
<1>2. ASSUME NEW r \in Requests, Fail(r) \/ WaitOnExpires(r) PROVE AnswersFit'
    BY <1>2 DEF Fail, WaitOnExpires, AnswersFit, Types
<1>3. ASSUME UNCHANGED result PROVE AnswersFit'
    BY <1>3 DEF AnswersFit
<1>4. ASSUME NEW r \in Requests,
             Command(r) \/ CreateNewSession(r) \/ Broadcast(r) \/ DispatchNew(r) \/ Answer(r)
             \/ Refuse(r)
      PROVE  UNCHANGED result
    BY <1>4 DEF Command, CreateNewSession, Broadcast, DispatchNew, Answer, Refuse
<1>5. ASSUME NEW k \in Connections, Greet(k) \/ BeginPush(k) \/ Push(k) \/ EndGreet(k)
      PROVE  UNCHANGED result
    BY <1>5 DEF Greet, BeginPush, Push, EndGreet
<1>6. ASSUME NEW g \in Goroutines, Close(g) \/ RemoveSession(g) PROVE UNCHANGED result
    BY <1>6 DEF Close, RemoveSession
<1>7. ASSUME NEW n \in Nodes, StopSteps(n)
      PROVE  UNCHANGED result
    BY <1>7 DEF StopSteps, Stop, StopCloses, StopRemoves
<1>8. CASE DispatchLookup \/ DispatchSend \/ Lost \/ UNCHANGED vars
    BY <1>3, <1>8 DEF DispatchLookup, DispatchSend, Lost, Lose, vars
<1> QED
    BY <1>1, <1>2, <1>3, <1>4, <1>5, <1>6, <1>7, <1>8
       DEF Next, Request, Reply, Lost, StopSteps

-----------------------------------------------------------------------------
(* Answers.                                                                *)

\* The answer to a request moves only if a step moves it.
LEMMA AnswersStay ==
    ASSUME Answers, UNCHANGED <<inHand, recv>>,
           \A r \in Requests :
              /\ OnNet(r)' => OnNet(r)
              /\ step'[Handler(r)] \in {"off", "handle"} => step[Handler(r)] \in {"off", "handle"}
              /\ result'[r] = "answered" => result[r] = "answered"
    PROVE  Answers'
BY DEF Answers, InHand, Queued

\* There is one answer to a request, and it is in one place.
LEMMA AnswersHold == Types /\ Sessions /\ Letters /\ Counts /\ Answers /\ [Next]_vars => Answers'
<1> SUFFICES ASSUME Types, Sessions, Letters, Counts, Answers, [Next]_vars PROVE Answers'
    OBVIOUS
<1>0. /\ \A r \in Requests : Asker(r) \in Goroutines /\ Handler(r) \in Goroutines /\ Asker(r) # Nobody
      /\ "client" \in Nodes
    BY GoroutineFacts DEF Nodes
<1>1. ASSUME net' \subseteq net, UNCHANGED <<inHand, recv, result>>,
             NEW g \in Goroutines, NEW s \in Steps, step' = [step EXCEPT ![g] = s],
             s \in {"off", "handle"} => step[g] \in {"off", "handle"}
      PROVE  Answers'
    <2>1. \A r \in Requests : OnNet(r)' => OnNet(r)
        BY <1>1 DEF OnNet
    <2>2. \A r \in Requests : step'[Handler(r)] \in {"off", "handle"} => step[Handler(r)] \in {"off", "handle"}
        BY <1>0, <1>1 DEF Types
    <2> QED
        BY <1>1, <2>1, <2>2, AnswersStay
<1>2. ASSUME NEW r \in Requests, Command(r) \/ DispatchNew(r) \/ Refuse(r) PROVE Answers'
    <2>1. net' \subseteq net /\ UNCHANGED <<inHand, recv, result>>
        BY <1>2 DEF Command, DispatchNew, Refuse
    <2>2. \/ step' = [step EXCEPT ![Asker(r)] = "create"]
          \/ step[Handler(r)] = "off" /\ step' = [step EXCEPT ![Handler(r)] = "handle"]
          \/ step' = [step EXCEPT ![Handler(r)] = "closing"]
        BY <1>2 DEF Command, DispatchNew, Refuse, Goto
    <2> QED
        BY <1>0, <1>1, <2>1, <2>2 DEF Steps
<1>3. ASSUME NEW r \in Requests, CreateNewSession(r) PROVE Answers'
    <2>1. /\ UNCHANGED <<net, inHand, recv, result>>
          /\ UNCHANGED step \/ step' = [step EXCEPT ![Asker(r)] = "send"]
        BY <1>3 DEF CreateNewSession
    <2>2. UNCHANGED step => Answers'
        BY <2>1, AnswersStay DEF OnNet
    <2> QED
        BY <1>0, <1>1, <2>1, <2>2 DEF Steps
<1>4. ASSUME NEW r \in Requests, Fail(r) \/ WaitOnExpires(r) PROVE Answers'
    <2>1. /\ UNCHANGED <<net, inHand, recv>>
          /\ step' = [step EXCEPT ![Asker(r)] = "closing"]
          /\ \E s \in {"closed", "timeout"} : result' = [result EXCEPT ![r] = s]
        BY <1>4 DEF Fail, WaitOnExpires, Goto
    <2>2. \A q \in Requests :
             /\ OnNet(q)' => OnNet(q)
             /\ step'[Handler(q)] = step[Handler(q)]
             /\ result'[q] = "answered" => result[q] = "answered"
        BY <1>0, <2>1, GoroutineFacts DEF OnNet, Types
    <2> QED
        BY <2>1, <2>2, AnswersStay
<1>5. ASSUME NEW r \in Requests, Broadcast(r) PROVE Answers'
    <2> DEFINE m == [to |-> "server", id |-> SessionId(Asker(r)), seq |-> seqNo[Asker(r)], of |-> r]
    <2>1. /\ net' = net \cup {m} /\ UNCHANGED <<inHand, recv, result>>
          /\ step' = [step EXCEPT ![Asker(r)] = "wait"]
        BY <1>5 DEF Broadcast, Goto
    <2>2. m.to # "client"
        OBVIOUS
    <2> HIDE DEF m
    <2>3. \A q \in Requests : (OnNet(q)' => OnNet(q)) /\ step'[Handler(q)] = step[Handler(q)]
        BY <1>0, <2>1, <2>2, GoroutineFacts DEF OnNet, Types
    <2> QED
        BY <2>1, <2>3, AnswersStay
<1>6. ASSUME NEW r \in Requests, WaitOn(r) PROVE Answers'
    <2>1. /\ UNCHANGED <<net, inHand>>
          /\ recv' = [recv EXCEPT ![Asker(r)] = Tail(@)]
          /\ step' = [step EXCEPT ![Asker(r)] = "closing"]
          /\ \A q \in Requests \ {r} : result'[q] = result[q]
        BY <1>6 DEF WaitOn, Goto, Types
    <2>2. recv[Asker(r)] \in Seq(Messages) /\ recv[Asker(r)] # <<>> /\ Len(recv[Asker(r)]) <= 1
        BY <1>0, <1>6 DEF WaitOn, Types, Answers
    <2>3. Tail(recv[Asker(r)]) = <<>>
        BY <2>2
    <2>4. recv'[Asker(r)] = <<>> /\ \A q \in Requests \ {r} : recv'[Asker(q)] = recv[Asker(q)]
        BY <1>0, <2>1, <2>3, GoroutineFacts DEF Types
    <2>5. \A q \in Requests : step'[Handler(q)] = step[Handler(q)] /\ OnNet(q)' = OnNet(q) /\ InHand(q)' = InHand(q)
        BY <1>0, <2>1, GoroutineFacts DEF OnNet, InHand, Types
    <2>6. ~OnNet(r) /\ ~InHand(r) /\ step[Handler(r)] \notin {"off", "handle"}
        BY <2>2 DEF Answers, Queued
    <2> QED
        BY <2>1, <2>4, <2>5, <2>6 DEF Answers, Queued
<1>7. CASE DispatchLookup
    <2>1. PICK m \in net :
              /\ m.to = "client" /\ net' = net \ {m}
              /\ inHand["client"].owner = Nobody
              /\ \/ UNCHANGED inHand
                 \/ inHand' = [inHand EXCEPT !["client"] =
                                   [owner |-> consumers["client"][m.id], msg |-> m]]
        BY <1>7 DEF DispatchLookup, CanDispatch
    <2>2. UNCHANGED <<step, recv, result>>
        BY <1>7 DEF DispatchLookup
    <2>3. CASE UNCHANGED inHand
        <3>1. \A q \in Requests : OnNet(q)' => OnNet(q)
            BY <2>1 DEF OnNet
        <3> QED
            BY <2>2, <2>3, <3>1, AnswersStay
    <2>4. CASE inHand' = [inHand EXCEPT !["client"] = [owner |-> consumers["client"][m.id], msg |-> m]]
        <3> DEFINE r == m.of
        <3>1. r \in Requests /\ m \in Messages /\ m.id \in Ids
            BY DEF Types, Messages
        <3>2. OnNet(r) /\ m.id = <<"request", r>> /\ Fits(m, r)
            BY <2>1 DEF OnNet, Letters
        <3>3. \A q \in Requests : InHand(q)' => q = r
            <4>1. inHand'["client"].owner = consumers["client"][m.id]
                BY <1>0, <2>4 DEF Types
            <4> SUFFICES ASSUME NEW q \in Requests, consumers["client"][m.id] = Asker(q)
                         PROVE  q = r
                BY <4>1 DEF InHand
            <4>2. SessionId(Asker(q)) = m.id
                BY <1>0, <3>1 DEF Sessions, Registration
            <4>3. <<"request", q>> = <<"request", r>>
                BY <3>2, <4>2, GoroutineFacts
            <4> QED
                BY <4>3
        <3>4. ~OnNet(r)'
            <4> SUFFICES ASSUME NEW l \in net, l # m, l.to = "client", l.of = r PROVE FALSE
                BY <2>1 DEF OnNet
            <4>1. l.id = m.id /\ l.seq = m.seq /\ l.to = m.to /\ l.of = m.of /\ l \in Messages
                BY <2>1, <3>2 DEF Letters, Fits, Types
            <4> QED
                BY <3>1, <4>1 DEF Messages
        <3>5. \A q \in Requests \ {r} : OnNet(q)' => OnNet(q)
            BY <2>1 DEF OnNet
        <3>6. step[Handler(r)] \notin {"off", "handle"} /\ result[r] # "answered" /\ ~Queued(r)
            BY <3>1, <3>2 DEF Answers
        <3> QED
            BY <2>2, <3>1, <3>3, <3>4, <3>5, <3>6 DEF Answers, Queued
    <2> QED
        BY <2>1, <2>3, <2>4
<1>8. CASE DispatchSend
    <2> DEFINE h == inHand["client"]
               g == h.owner
    <2>1. g # Nobody /\ UNCHANGED <<net, step, result>>
        BY <1>8 DEF DispatchSend
    <2>2. PICK r \in Requests : g = Asker(r)
        BY <2>1 DEF Letters
    <2>3. inHand'["client"].owner = Nobody
        BY <1>0, <1>8 DEF DispatchSend, Types
    <2>4. InHand(r) /\ ~OnNet(r) /\ step[Handler(r)] \notin {"off", "handle"} /\ result[r] # "answered"
        BY <2>2 DEF Answers, InHand
    <2>5. recv[g] = <<>> /\ h.msg \in Messages
        BY <2>1, <2>2, <2>4 DEF Answers, Queued, Types
    <2>6. /\ recv'[g] \in {<<>>, <<h.msg>>}
          /\ \A q \in Requests \ {r} : recv'[Asker(q)] = recv[Asker(q)]
        BY <1>0, <1>8, <2>2, <2>5, GoroutineFacts DEF DispatchSend, Types
    <2>7. ASSUME NEW s, s \in {<<>>, <<h.msg>>} PROVE Len(s) <= 1
        <3>1. CASE s = <<>>
            BY <3>1
        <3>2. CASE s = <<h.msg>>
            BY <3>2
        <3> QED
            BY <2>7, <3>1, <3>2
    <2>8. \A q \in Requests : ~InHand(q)' /\ OnNet(q)' = OnNet(q)
        BY <1>0, <2>1, <2>3 DEF InHand, OnNet
    <2> QED
        BY <2>1, <2>2, <2>4, <2>6, <2>7, <2>8 DEF Answers, Queued
<1>9. ASSUME NEW r \in Requests, Answer(r) PROVE Answers'
    <2>1. /\ step[Handler(r)] = "handle" /\ UNCHANGED <<inHand, recv, result>>
          /\ step' = [step EXCEPT ![Handler(r)] = "closing"]
          /\ \/ UNCHANGED net
             \/ net' = net \cup {[to |-> "client", id |-> SessionId(Handler(r)),
                                  seq |-> seqNo[Handler(r)], of |-> r]}
        BY <1>9 DEF Answer, Goto
    <2>2. ~InHand(r) /\ ~Queued(r) /\ result[r] # "answered"
        BY <2>1 DEF Answers
    <2>3. \A q \in Requests \ {r} : step'[Handler(q)] = step[Handler(q)] /\ (OnNet(q)' => OnNet(q))
        BY <1>0, <2>1, GoroutineFacts DEF OnNet, Types
    <2>4. step'[Handler(r)] = "closing"
        BY <1>0, <2>1 DEF Types
    <2> QED
        BY <2>1, <2>2, <2>3, <2>4 DEF Answers, InHand, Queued
<1>10. ASSUME NEW k \in Connections, Greet(k) \/ BeginPush(k) \/ Push(k) \/ EndGreet(k)
       PROVE  Answers'
    <2>1. UNCHANGED <<net, inHand, recv, result>>
        BY <1>10 DEF Greet, BeginPush, Push, EndGreet
    <2>2. \A r \in Requests : step'[Handler(r)] = step[Handler(r)]
        BY <1>0, <1>10, GoroutineFacts DEF Greet, BeginPush, Push, EndGreet, Goto, Types
    <2> QED
        BY <2>1, <2>2, AnswersStay DEF OnNet
<1>11. ASSUME NEW g \in Goroutines, Close(g) \/ RemoveSession(g) PROVE Answers'
    <2>1. /\ UNCHANGED <<net, inHand, recv, result>>
          /\ \E s \in {"done", "removing"} : step' = [step EXCEPT ![g] = s]
        BY <1>11 DEF Close, RemoveSession, Goto
    <2> QED
        BY <1>1, <2>1 DEF Steps
<1>12. ASSUME UNCHANGED <<net, inHand, recv, result, step>> PROVE Answers'
    BY <1>12, AnswersStay DEF OnNet
<1>13. ASSUME NEW n \in Nodes, StopSteps(n) PROVE Answers'
    BY <1>12, <1>13 DEF StopSteps, Stop, StopCloses, StopRemoves
<1>14. CASE Lost
    <2>1. net' \subseteq net /\ UNCHANGED <<inHand, recv, result, step>>
        BY <1>14 DEF Lost, Lose
    <2> QED
        BY <2>1, AnswersStay DEF OnNet
<1>15. CASE UNCHANGED vars
    BY <1>12, <1>15 DEF vars
<1> QED
    BY <1>2, <1>3, <1>4, <1>5, <1>6, <1>7, <1>8, <1>9, <1>10, <1>11, <1>13, <1>14, <1>15
       DEF Next, Request, Reply, Lost, StopSteps

\* Only a request that got something, gave up or was stopped has ended, and its
\* session is closed by itself or by Stop.
LEMMA EndsHold == Types /\ Sessions /\ AnswersFit /\ Ends /\ [Next]_vars => Ends'
<1> SUFFICES ASSUME Types, Sessions, AnswersFit, Ends, [Next]_vars PROVE Ends'
    OBVIOUS
<1>0. /\ \A r \in Requests : Asker(r) \in Goroutines /\ Handler(r) \in Goroutines
      /\ "client" \in Nodes
    BY GoroutineFacts DEF Nodes
<1>1. ASSUME UNCHANGED <<result, isClosed>>, stopped["client"] => stopped'["client"],
             \A r \in Requests : \/ step'[Asker(r)] = step[Asker(r)]
                                 \/ /\ step[Asker(r)] \notin {"removing", "done"}
                                    /\ step'[Asker(r)] \in {"create", "send", "wait"}
      PROVE  Ends'
    BY <1>1 DEF Ends
<1>2. ASSUME NEW r \in Requests, Command(r) \/ CreateNewSession(r) \/ Broadcast(r) PROVE Ends'
    <2>1. /\ UNCHANGED <<result, isClosed, stopped>>
          /\ \/ UNCHANGED step
             \/ /\ step[Asker(r)] \in {"off", "create", "send"}
                /\ \E s \in {"create", "send", "wait"} : step' = [step EXCEPT ![Asker(r)] = s]
        BY <1>2 DEF Command, CreateNewSession, Broadcast, Goto
    <2> QED
        BY <1>0, <1>1, <2>1, GoroutineFacts DEF Types
<1>3. ASSUME NEW r \in Requests, Fail(r) \/ WaitOn(r) \/ WaitOnExpires(r) PROVE Ends'
    <2>1. /\ UNCHANGED <<isClosed, stopped>>
          /\ step[Asker(r)] \in {"send", "wait"}
          /\ step' = [step EXCEPT ![Asker(r)] = "closing"]
          /\ \E s \in Results \ {"none"} :
                /\ result' = [result EXCEPT ![r] = s]
                /\ s = "closed" => isClosed[Asker(r)]
        BY <1>3 DEF Fail, WaitOn, WaitOnExpires, Goto, Results
    <2>2. isClosed[Asker(r)] => stopped["client"]
        BY <2>1 DEF Ends
    <2>3. step'[Asker(r)] = "closing" /\ result'[r] # "none" /\ (result'[r] = "closed" => stopped["client"])
        BY <1>0, <2>1, <2>2 DEF Types
    <2>4. \A q \in Requests \ {r} : step'[Asker(q)] = step[Asker(q)] /\ result'[q] = result[q]
        BY <1>0, <2>1, GoroutineFacts DEF Types
    <2> QED
        BY <2>1, <2>2, <2>3, <2>4 DEF Ends
<1>4. ASSUME UNCHANGED <<result, isClosed, stopped>>,
             \A r \in Requests : step'[Asker(r)] = step[Asker(r)]
      PROVE  Ends'
    BY <1>1, <1>4
<1>5. ASSUME NEW r \in Requests, DispatchNew(r) \/ Answer(r) \/ Refuse(r) PROVE Ends'
    <2>1. /\ UNCHANGED <<result, isClosed, stopped>>
          /\ \E s \in {"handle", "closing"} : step' = [step EXCEPT ![Handler(r)] = s]
        BY <1>5 DEF DispatchNew, Answer, Refuse, Goto
    <2>2. \A q \in Requests : step'[Asker(q)] = step[Asker(q)]
        BY <1>0, <2>1, GoroutineFacts DEF Types
    <2> QED
        BY <1>4, <2>1, <2>2
<1>6. CASE DispatchLookup \/ DispatchSend \/ Lost \/ UNCHANGED vars
    BY <1>4, <1>6 DEF DispatchLookup, DispatchSend, Lost, Lose, vars
<1>7. ASSUME NEW k \in Connections, Greet(k) \/ BeginPush(k) \/ Push(k) \/ EndGreet(k)
      PROVE  Ends'
    <2>1. UNCHANGED <<result, isClosed, stopped>>
        BY <1>7 DEF Greet, BeginPush, Push, EndGreet
    <2>2. \A q \in Requests : step'[Asker(q)] = step[Asker(q)]
        BY <1>0, <1>7, GoroutineFacts DEF Greet, BeginPush, Push, EndGreet, Goto, Types
    <2> QED
        BY <1>4, <2>1, <2>2
<1>8. ASSUME NEW g \in Goroutines, Close(g) PROVE Ends'
    <2>1. /\ step[g] = "closing" /\ UNCHANGED <<result, stopped>>
          /\ step'[g] \in {"removing", "done"}
          /\ \A f \in Goroutines \ {g} : step'[f] = step[f] /\ isClosed'[f] = isClosed[f]
        BY <1>8 DEF Close, Goto, Types
    <2> SUFFICES ASSUME NEW r \in Requests
                 PROVE  /\ step'[Asker(r)] \in {"closing", "removing", "done"} => result[r] # "none"
                        /\ result[r] = "closed" => stopped["client"]
                        /\ isClosed'[Asker(r)] => stopped["client"] \/ step'[Asker(r)] \in {"removing", "done"}
        BY <2>1 DEF Ends
    <2>2. CASE g = Asker(r)
        BY <2>1, <2>2 DEF Ends
    <2>3. CASE g # Asker(r)
        BY <1>0, <2>1, <2>3 DEF Ends
    <2> QED
        BY <2>2, <2>3
<1>9. ASSUME NEW g \in Goroutines, RemoveSession(g) PROVE Ends'
    <2>1. /\ step[g] = "removing" /\ UNCHANGED <<result, stopped, isClosed>>
          /\ step'[g] = "done"
          /\ \A f \in Goroutines \ {g} : step'[f] = step[f]
        BY <1>9 DEF RemoveSession, Goto, Types
    <2> QED
        BY <1>0, <2>1 DEF Ends
<1>10. ASSUME NEW n \in Nodes, Stop(n) PROVE Ends'
    <2>1. UNCHANGED <<result, isClosed, step>> /\ (stopped["client"] => stopped'["client"])
        BY <1>0, <1>10 DEF Stop, Types
    <2> QED
        BY <1>1, <2>1
<1>11. ASSUME NEW n \in Nodes, NEW g \in Goroutines, StopCloses(n, g) PROVE Ends'
    <2>1. /\ UNCHANGED <<result, stopped, step>>
          /\ stopped[n] /\ node(g) = n
          /\ \A f \in Goroutines \ {g} : isClosed'[f] = isClosed[f]
        BY <1>11 DEF StopCloses, Types, Sessions, Created
    <2>2. ASSUME NEW r \in Requests, isClosed'[Asker(r)] PROVE stopped["client"] \/ isClosed[Asker(r)]
        <3>1. CASE g = Asker(r)
            BY <2>1, <3>1, GoroutineFacts
        <3>2. CASE g # Asker(r)
            BY <1>0, <2>1, <2>2, <3>2
        <3> QED
            BY <3>1, <3>2
    <2> QED
        BY <2>1, <2>2 DEF Ends
<1>12. ASSUME NEW n \in Nodes, StopRemoves(n) PROVE Ends'
    BY <1>4, <1>12 DEF StopRemoves
<1> QED
    BY <1>2, <1>3, <1>5, <1>6, <1>7, <1>8, <1>9, <1>10, <1>11, <1>12
       DEF Next, Request, Reply, Lost, StopSteps

\* The send of dispatchMessage meets a closed session if Stop closed it, or if
\* the request gave up: it would have had no other answer to end with.
LEMMA KnownHolds ==
    Types /\ Letters /\ AnswersFit /\ Answers /\ Ends /\ OnlyKnownPanics /\ [Next]_vars
        => OnlyKnownPanics'
<1> SUFFICES ASSUME Types, Letters, AnswersFit, Answers, Ends, OnlyKnownPanics, [Next]_vars
             PROVE  OnlyKnownPanics'
    OBVIOUS
<1>0. "client" \in Nodes /\ "peer" \in Nodes /\ "client" # "peer"
    BY DEF Nodes
<1>1. ASSUME UNCHANGED <<panicked, result>>, \A n \in Nodes : stopped[n] => stopped'[n]
      PROVE  OnlyKnownPanics'
    BY <1>0, <1>1 DEF OnlyKnownPanics
<1>2. ASSUME NEW r \in Requests, CreateNewSession(r) PROVE OnlyKnownPanics'
    <2>1. /\ UNCHANGED <<stopped, result>>
          /\ UNCHANGED panicked \/ (stopped["client"] /\ panicked'["peer"] = panicked["peer"])
        BY <1>0, <1>2 DEF CreateNewSession, Types
    <2> QED
        BY <2>1 DEF OnlyKnownPanics
<1>3. ASSUME NEW r \in Requests, Fail(r) \/ WaitOn(r) \/ WaitOnExpires(r) PROVE OnlyKnownPanics'
    <2>1. ~panicked["client"] /\ UNCHANGED <<panicked, stopped>>
        BY <1>3, GoroutineFacts DEF Fail, WaitOn, WaitOnExpires, Goto
    <2> QED
        BY <2>1 DEF OnlyKnownPanics
<1>4. CASE DispatchSend
    <2> DEFINE g == inHand["client"].owner
    <2>1. g # Nobody /\ UNCHANGED <<stopped, result>>
        BY <1>4 DEF DispatchSend
    <2>2. PICK r \in Requests : g = Asker(r)
        BY <2>1 DEF Letters
    <2>3. UNCHANGED panicked \/ (isClosed[g] /\ panicked'["peer"] = panicked["peer"])
        BY <1>0, <1>4 DEF DispatchSend, Types
    <2>4. ASSUME isClosed[g], ~stopped["client"] PROVE result[r] = "timeout"
        <3>1. step[Asker(r)] \in {"removing", "done"}
            BY <2>2, <2>4 DEF Ends
        <3>2. result[r] \notin {"none", "closed"}
            BY <2>4, <3>1 DEF Ends
        <3>3. result[r] # "answered"
            BY <2>2 DEF Answers, InHand
        <3> QED
            BY <3>2, <3>3 DEF AnswersFit, Types, Results
    <2> QED
        BY <2>1, <2>3, <2>4 DEF OnlyKnownPanics
<1>5. ASSUME NEW k \in Connections, BeginPush(k) PROVE OnlyKnownPanics'
    <2>1. /\ UNCHANGED <<stopped, result>>
          /\ UNCHANGED panicked \/ (stopped["peer"] /\ panicked'["client"] = panicked["client"])
        BY <1>0, <1>5 DEF BeginPush, Types
    <2> QED
        BY <2>1 DEF OnlyKnownPanics
<1>6. ASSUME NEW r \in Requests, Command(r) \/ Broadcast(r) \/ DispatchNew(r) \/ Reply(r)
      PROVE  OnlyKnownPanics'
    BY <1>1, <1>6 DEF Command, Broadcast, DispatchNew, Reply, Answer, Refuse
<1>7. ASSUME NEW k \in Connections, Greet(k) \/ Push(k) \/ EndGreet(k) PROVE OnlyKnownPanics'
    BY <1>1, <1>7 DEF Greet, Push, EndGreet
<1>8. ASSUME NEW g \in Goroutines, Close(g) \/ RemoveSession(g) PROVE OnlyKnownPanics'
    BY <1>1, <1>8 DEF Close, RemoveSession
<1>9. ASSUME NEW n \in Nodes, StopSteps(n)
      PROVE  OnlyKnownPanics'
    <2>1. UNCHANGED <<panicked, result>> /\ \A m \in Nodes : stopped[m] => stopped'[m]
        BY <1>9 DEF StopSteps, Stop, StopCloses, StopRemoves, Types
    <2> QED
        BY <1>1, <2>1
<1>10. CASE DispatchLookup \/ Lost \/ UNCHANGED vars
    BY <1>1, <1>10 DEF DispatchLookup, Lost, Lose, vars
<1> QED
    BY <1>2, <1>3, <1>4, <1>5, <1>6, <1>7, <1>8, <1>9, <1>10
       DEF Next, Request, Reply, Lost, StopSteps

-----------------------------------------------------------------------------
(* The theorems.                                                           *)

\* No session was opened, no message sent.
LEMMA BrokerInit == Init => BrokerInv
<1> SUFFICES ASSUME Init PROVE BrokerInv
    OBVIOUS
<1>0. \A r \in Requests : Asker(r) \in Goroutines /\ Handler(r) \in Goroutines /\ Nobody # Asker(r)
    BY GoroutineFacts
<1>1. Types
    <2>1. /\ stopped \in [Nodes -> BOOLEAN] /\ panicked \in [Nodes -> BOOLEAN]
          /\ consumers \in [Nodes -> [Ids -> Goroutines \cup {Nobody}]]
          /\ step \in [Goroutines -> Steps] /\ seqNo \in [Goroutines -> Nat]
          /\ isClosed \in [Goroutines -> BOOLEAN] /\ result \in [Requests -> Results]
        BY DEF Init, Steps, Results
    <2>2. recv \in [Goroutines -> Seq(Messages)] /\ net \subseteq Messages
        BY DEF Init
    <2>3. /\ inHand \in [Nodes -> [owner : Goroutines \cup {Nobody}, msg : Messages \cup {NoMessage}]]
          /\ inHand["client"].owner = Nobody
        BY DEF Init, Nodes
    <2>4. /\ stopping \in [Nodes -> SUBSET Goroutines] /\ unanswered \subseteq Requests
          /\ leaving \in [Nodes -> Goroutines \cup {Nobody}]
        BY DEF Init
    <2> QED
        BY <2>1, <2>2, <2>3, <2>4 DEF Types
<1>2. Registration /\ Created
    BY DEF Init, Registration, Created
<1>3. PushOrder
    BY GoroutineFacts DEF Init, PushOrder
<1>4. Letters /\ Counts
    BY <1>0 DEF Init, Letters, Counts, Nodes
<1>5. Answers
    BY <1>0 DEF Init, Answers, OnNet, InHand, Queued, Nodes
<1>6. AnswersFit /\ Ends
    BY <1>0 DEF Init, AnswersFit, Ends
<1>7. OnlyKnownPanics
    BY DEF Init, OnlyKnownPanics, Nodes
<1> QED
    BY <1>1, <1>2, <1>3, <1>4, <1>5, <1>6, <1>7 DEF BrokerInv

\* Every step of a goroutine, a dispatcher or the network preserves all parts of
\* the invariant together.
LEMMA BrokerNext == BrokerInv /\ [Next]_vars => BrokerInv'
BY TypesHold, SessionsHold, PushOrderHolds, CountsHold, LettersHold, AnswersFitHolds,
   AnswersHold, EndsHold, KnownHolds DEF BrokerInv, Sessions

\* A command is given the answer to its own request, whatever is late, lost or
\* given up on (WaitOn, setupSendingMsg, createSessionLocked).
THEOREM AnswersAlwaysFit == Spec => []AnswersFit
<1>1. BrokerInv => AnswersFit
    BY DEF BrokerInv
<1> QED
    BY <1>1, BrokerInit, BrokerNext, PTL DEF Spec

\* Whoever is in consumers still runs: no session stays behind there, although
\* sessions replace and remove each other under the empty id (Close,
\* removeSession).
THEOREM NoSessionStays == Spec => []NoLeftovers
<1>1. ASSUME BrokerInv PROVE NoLeftovers
    BY <1>1 DEF BrokerInv, Registration, NoLeftovers, Registered
<1> QED
    BY <1>1, BrokerInit, BrokerNext, PTL DEF Spec

\* A process is lost after a Stop, or because WaitOn gave up on an answer that
\* came then (dispatchMessage, CreateNewSession).
THEOREM PanicsAreKnown == Spec => []OnlyKnownPanics
<1>1. BrokerInv => OnlyKnownPanics
    BY DEF BrokerInv
<1> QED
    BY <1>1, BrokerInit, BrokerNext, PTL DEF Spec

=============================================================================
