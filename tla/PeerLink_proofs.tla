-------------------------- MODULE PeerLink_proofs --------------------------
(***************************************************************************)
(* Pairing is mutual, and handlePeer passes messages on without a gap, for *)
(* queues of any size and any number of messages.                          *)
(*                                                                         *)
(* Both follow from what is on its way to an end: in its queue, in the     *)
(* hands of its read loop, on the wire.  The ends take turns, so a name is *)
(* sent when nothing else is on its way, and both stages are told by it.   *)
(* Messages come after the names, and their numbers count back from the    *)
(* last one that was sent.                                                 *)
(***************************************************************************)
EXTENDS PeerLink, TLAPS, SequenceTheorems

Letters == [topic : {"TCP_HOST_EXCHANGER", "PUSH"}, no : Nat]

IsName(m) == m.topic = "TCP_HOST_EXCHANGER"

Types ==
    /\ stage \in [Sides -> 0..Paired]
    /\ waiting \in [Sides -> BOOLEAN]
    /\ recvActive \in [Sides -> BOOLEAN]
    /\ recvMsgCh \in [Sides -> Seq(Letters)]
    /\ inHand \in [Sides -> Letters \cup {Nothing}]
    /\ wire \in [Sides -> Seq(Letters)]
    /\ closed \in [Sides -> BOOLEAN]
    /\ sent \in [Sides -> Nat]
    /\ got \in [Sides -> Seq(Letters)]

\* The ends take turns: initiator and receiver are never further apart.
Turns ==
    <<stage["initiator"], stage["receiver"]>> \in
        {<<0, 0>>, <<0, 1>>, <<1, 1>>, <<2, 1>>, <<2, 2>>, <<2, 3>>, <<3, 3>>}

\* A letter on its way to an end.
Carries(p, m) ==
    \/ \E i \in 1..Len(recvMsgCh[p]) : recvMsgCh[p][i] = m
    \/ inHand[p] = m /\ m # Nothing
    \/ \E i \in 1..Len(wire[p]) : wire[p][i] = m

\* The sender of a name is past it, its receiver is not.  Messages are sent by
\* whoever is paired.
InTurn(p) ==
    \A m \in Letters : Carries(p, m) =>
        IF IsName(m)
        THEN stage[p] <= m.no /\ m.no < stage[other(p)]
        ELSE stage[other(p)] = Paired

\* A name is the first thing on its way.
NameFirst(p) ==
    /\ \A i \in 1..Len(recvMsgCh[p]) : IsName(recvMsgCh[p][i]) => i = 1
    /\ inHand[p] # Nothing /\ IsName(inHand[p]) => recvMsgCh[p] = <<>>
    /\ \A i \in 1..Len(wire[p]) : IsName(wire[p][i]) =>
          i = 1 /\ recvMsgCh[p] = <<>> /\ inHand[p] = Nothing

-----------------------------------------------------------------------------
(* Numbers.                                                                *)

\* handlePeer has opened its session.
Opened(p) == stage[p] = Paired /\ waiting[p]

\* What handlePeer passed on, and what its session holds for it.
size(p) == Len(got[p]) + Len(recvMsgCh[p])
item(p, i) ==
    IF i <= Len(got[p]) THEN got[p][i].no ELSE recvMsgCh[p][i - Len(got[p])].no

held(p) == IF inHand[p] = Nothing THEN 0 ELSE 1

\* As long as the end reads: the last message on the wire is the last one sent.
WireCounts(p) ==
    ~closed[p] =>
        /\ \A i \in 1..Len(wire[p]) :
              ~IsName(wire[p][i]) => wire[p][i].no = sent[other(p)] - Len(wire[p]) + i
        /\ inHand[p] # Nothing /\ ~IsName(inHand[p]) =>
              inHand[p].no = sent[other(p)] - Len(wire[p])

\* The session loses nothing in between, and, while it is active, nothing of
\* what is still to come.
SessionCounts(p) ==
    /\ got[p] # <<>> => Opened(p)
    /\ Opened(p) => \A i \in 1..(size(p) - 1) : item(p, i + 1) = item(p, i) + 1
    /\ Opened(p) /\ recvActive[p] /\ size(p) > 0 =>
          /\ inHand[p] # Nothing => inHand[p].no = item(p, size(p)) + 1
          /\ ~closed[p] => item(p, size(p)) = sent[other(p)] - Len(wire[p]) - held(p)

PipeInv(p) == InTurn(p) /\ NameFirst(p) /\ WireCounts(p) /\ SessionCounts(p)

LinkInv == Types /\ Turns /\ \A p \in Sides : PipeInv(p)

-----------------------------------------------------------------------------
(* What the proofs keep needing.                                           *)

\* Two ends, one the other of the other.
LEMMA TwoSides ==
    ASSUME NEW p \in Sides
    PROVE  /\ other(p) \in Sides /\ other(p) # p /\ other(other(p)) = p
           /\ \A q \in Sides : q = p \/ q = other(p)
BY DEF Sides, other

\* Names and messages are letters, and Nothing is none.
LEMMA LetterFacts ==
    /\ \A n \in Nat : PeerName(n) \in Letters /\ IsName(PeerName(n)) /\ PeerName(n).no = n
    /\ \A n \in Nat : Message(n) \in Letters /\ ~IsName(Message(n)) /\ Message(n).no = n
    /\ Nothing \notin Letters
    /\ \A m \in Letters : m.no \in Nat
BY DEF PeerName, Message, Nothing, Letters, IsName

\* An end that sends a name has received all names before it
\* (initiateHandshake, receiveHandshake).
LEMMA SendTurn ==
    ASSUME Types, Turns, NEW p \in Sides, Sends(p, stage[p]),
           stage' = [stage EXCEPT ![p] = @ + 1]
    PROVE  /\ stage[p] = stage[other(p)] /\ stage[p] \in 0..2
           /\ Turns' /\ stage' \in [Sides -> 0..Paired]
<1>1. 0 % 2 = 0 /\ 1 % 2 = 1 /\ 2 % 2 = 0 /\ 3 % 2 = 1
    OBVIOUS
<1>2. /\ stage["initiator"] \in {0, 1, 2, 3} /\ stage["receiver"] \in {0, 1, 2, 3}
      /\ stage \in [Sides -> 0..Paired]
    BY DEF Types, Sides, Paired
<1>3. CASE p = "initiator"
    <2>1. stage[p] = 1 /\ stage["receiver"] = 1
        BY <1>1, <1>2, <1>3 DEF Turns, Sends, Paired
    <2> QED
        BY <1>2, <1>3, <2>1 DEF Turns, other, Sides, Paired
<1>4. CASE p = "receiver"
    <2>1. \/ stage[p] = 0 /\ stage["initiator"] = 0
          \/ stage[p] = 2 /\ stage["initiator"] = 2
        BY <1>1, <1>2, <1>4 DEF Turns, Sends, Paired
    <2> QED
        BY <1>2, <1>4, <2>1 DEF Turns, other, Sides, Paired
<1> QED
    BY <1>3, <1>4 DEF Sides

\* An end that is behind takes the name and is level again.
LEMMA TakeTurn ==
    ASSUME Types, Turns, NEW p \in Sides, stage[p] < stage[other(p)],
           stage' = [stage EXCEPT ![p] = @ + 1]
    PROVE  /\ stage[other(p)] = stage[p] + 1
           /\ Turns' /\ stage' \in [Sides -> 0..Paired]
BY DEF Types, Turns, Sides, other, Paired

\* The ends of a queue.
LEMMA SeqFacts ==
    ASSUME NEW s \in Seq(Letters), NEW m \in Letters
    PROVE  /\ Append(s, m) \in Seq(Letters)
           /\ Len(s) \in Nat
           /\ Len(Append(s, m)) = Len(s) + 1
           /\ \A i \in 1..Len(s) : Append(s, m)[i] = s[i] /\ s[i] \in Letters
           /\ Append(s, m)[Len(s) + 1] = m
           /\ s # <<>> => /\ Head(s) = s[1] /\ Head(s) \in Letters
                          /\ Tail(s) \in Seq(Letters)
                          /\ Len(s) > 0 /\ Len(Tail(s)) = Len(s) - 1
                          /\ \A i \in 1..Len(Tail(s)) : Tail(s)[i] = s[i + 1]
<1>1. Append(s, m) \in Seq(Letters) /\ Len(s) \in Nat /\ Len(Append(s, m)) = Len(s) + 1
    OBVIOUS
<1>2. \A i \in 1..Len(s) : Append(s, m)[i] = s[i] /\ s[i] \in Letters
    OBVIOUS
<1>3. Append(s, m)[Len(s) + 1] = m
    OBVIOUS
<1>4. ASSUME s # <<>>
      PROVE  /\ Head(s) = s[1] /\ Head(s) \in Letters /\ Tail(s) \in Seq(Letters)
             /\ Len(s) > 0 /\ Len(Tail(s)) = Len(s) - 1
    BY <1>4
<1>5. ASSUME s # <<>>, NEW i \in 1..Len(Tail(s)) PROVE Tail(s)[i] = s[i + 1]
    BY <1>4, <1>5, HeadTailProperties
<1> QED
    BY <1>1, <1>2, <1>3, <1>4, <1>5

\* Nothing is on its way between ends that exchanged the same names.
LEMMA LevelMeansEmpty ==
    ASSUME Types, NEW p \in Sides, InTurn(p),
           stage[other(p)] <= stage[p], stage[other(p)] # Paired
    PROVE  recvMsgCh[p] = <<>> /\ inHand[p] = Nothing /\ wire[p] = <<>>
<1>1. ASSUME NEW m \in Letters PROVE ~Carries(p, m)
    <2>1. stage[p] \in 0..3 /\ stage[other(p)] \in 0..3 /\ m.no \in Nat
        BY TwoSides, LetterFacts DEF Types, Paired
    <2> QED
        BY <2>1 DEF InTurn
<1>2. recvMsgCh[p] \in Seq(Letters) /\ wire[p] \in Seq(Letters) /\ inHand[p] \in Letters \cup {Nothing}
    BY DEF Types
<1>3. \A s \in Seq(Letters) : s # <<>> => 1 \in 1..Len(s) /\ s[1] \in Letters
    OBVIOUS
<1> QED
    BY <1>1, <1>2, <1>3, LetterFacts DEF Carries

\* A step that leaves an end, what is on its way to it and what was sent to
\* it alone.
LEMMA PipeFrame ==
    ASSUME NEW p \in Sides, PipeInv(p),
           stage'[p] = stage[p], stage'[other(p)] = stage[other(p)], waiting'[p] = waiting[p],
           recvActive'[p] = recvActive[p], recvMsgCh'[p] = recvMsgCh[p],
           inHand'[p] = inHand[p], wire'[p] = wire[p], closed'[p] = closed[p],
           sent'[other(p)] = sent[other(p)], got'[p] = got[p]
    PROVE  PipeInv(p)'
<1>1. InTurn(p)' /\ NameFirst(p)'
    BY DEF PipeInv, InTurn, NameFirst, Carries
<1>2. WireCounts(p)'
    BY DEF PipeInv, WireCounts
<1>3. SessionCounts(p)'
    <2>1. Opened(p)' = Opened(p) /\ size(p)' = size(p) /\ held(p)' = held(p)
        BY DEF Opened, size, held
    <2>2. item(p, size(p))' = item(p, size(p))
        BY <2>1 DEF item
    <2>3. \A i : item(p, i)' = item(p, i) /\ item(p, i + 1)' = item(p, i + 1)
        BY DEF item
    <2>4. SessionCounts(p)
        BY DEF PipeInv
    <2> QED
        BY <2>1, <2>2, <2>3, <2>4 DEF SessionCounts
<1> QED
    BY <1>1, <1>2, <1>3 DEF PipeInv

\* At first nothing is on its way.
LEMMA LinkInit == Init => LinkInv
<1> SUFFICES ASSUME Init PROVE LinkInv
    OBVIOUS
<1>1. Types
    BY DEF Init, Types, Paired
<1>2. Turns
    BY DEF Init, Turns, Sides
<1>3. ASSUME NEW p \in Sides PROVE PipeInv(p)
    <2>1. /\ recvMsgCh[p] = <<>> /\ inHand[p] = Nothing /\ wire[p] = <<>> /\ got[p] = <<>>
          /\ ~recvActive[p] /\ ~waiting[p]
        BY DEF Init
    <2>2. InTurn(p) /\ NameFirst(p)
        BY <2>1 DEF InTurn, NameFirst, Carries
    <2>3. WireCounts(p) /\ SessionCounts(p)
        BY <2>1 DEF WireCounts, SessionCounts, Opened
    <2> QED
        BY <2>2, <2>3 DEF PipeInv
<1> QED
    BY <1>1, <1>2, <1>3 DEF LinkInv

-----------------------------------------------------------------------------
(* The exchange of names.                                                  *)

\* A name is sent when nothing is on its way in either direction.
LEMMA SendPeerNameStep ==
    ASSUME LinkInv, NEW p \in Sides, SendPeerName(p)
    PROVE  LinkInv'
<1> DEFINE q == other(p)
           n == stage[p]
<1>1. Types /\ Turns /\ PipeInv(p) /\ PipeInv(q) /\ q \in Sides /\ q # p /\ other(q) = p
    BY TwoSides DEF LinkInv
<1>2. n = stage[q] /\ n \in 0..2 /\ Turns' /\ stage' \in [Sides -> 0..Paired]
    BY <1>1, SendTurn DEF SendPeerName
<1>3. /\ recvMsgCh[p] = <<>> /\ inHand[p] = Nothing /\ wire[p] = <<>>
      /\ recvMsgCh[q] = <<>> /\ inHand[q] = Nothing /\ wire[q] = <<>>
    BY <1>1, <1>2, LevelMeansEmpty DEF PipeInv, Paired
<1>4. /\ stage'[p] = n + 1 /\ stage'[q] = n
      /\ wire'[p] = <<>>
      /\ wire'[q] = IF closed[q] THEN <<>> ELSE <<PeerName(n)>>
      /\ wire' = [wire EXCEPT ![q] = IF closed[q] THEN <<>> ELSE <<PeerName(n)>>]
      /\ UNCHANGED <<waiting, recvActive, recvMsgCh, inHand, closed, sent, got>>
    BY <1>1, <1>2, <1>3 DEF SendPeerName, Transmit, Types
<1>5. PeerName(n) \in Letters /\ IsName(PeerName(n)) /\ PeerName(n).no = n
    BY <1>2, LetterFacts
<1>6. Types'
    <2>1. <<PeerName(n)>> \in Seq(Letters) /\ <<>> \in Seq(Letters)
        BY <1>5
    <2>2. wire' \in [Sides -> Seq(Letters)]
        BY <1>1, <1>4, <2>1 DEF Types
    <2> QED
        BY <1>1, <1>2, <1>4, <2>2 DEF Types
<1>7. got[p] = <<>> /\ got[q] = <<>>
    BY <1>1, <1>2 DEF PipeInv, SessionCounts, Opened, Paired
<1>8. PipeInv(p)'
    <2>1. (InTurn(p) /\ NameFirst(p) /\ WireCounts(p))'
        BY <1>3, <1>4 DEF InTurn, NameFirst, WireCounts, Carries
    <2>2. SessionCounts(p)'
        BY <1>3, <1>4, <1>7 DEF SessionCounts, size
    <2> QED
        BY <2>1, <2>2 DEF PipeInv
<1>9. PipeInv(q)'
    <2>1. (InTurn(q) /\ NameFirst(q) /\ WireCounts(q))'
        <3>1. CASE closed[q]
            BY <1>1, <1>3, <1>4, <3>1 DEF InTurn, NameFirst, WireCounts, Carries
        <3>2. CASE ~closed[q]
            <4>1. Len(wire'[q]) = 1 /\ wire'[q][1] = PeerName(n)
                BY <1>4, <3>2
            <4>2. InTurn(q)'
                BY <1>1, <1>2, <1>3, <1>4, <1>5, <4>1 DEF InTurn, Carries
            <4>3. NameFirst(q)' /\ WireCounts(q)'
                BY <1>3, <1>4, <1>5, <4>1 DEF NameFirst, WireCounts
            <4> QED
                BY <4>2, <4>3
        <3> QED
            BY <3>1, <3>2
    <2>2. SessionCounts(q)'
        BY <1>3, <1>4, <1>7 DEF SessionCounts, size
    <2> QED
        BY <2>1, <2>2 DEF PipeInv
<1> QED
    BY <1>1, <1>2, <1>6, <1>8, <1>9, TwoSides DEF LinkInv

\* A name that arrives says that the other end is one ahead, so nothing is on
\* its way there, and behind the name there are messages.
LEMMA WaitForTargetPeerNameStep ==
    ASSUME LinkInv, NEW p \in Sides, WaitForTargetPeerName(p)
    PROVE  LinkInv'
<1> DEFINE q == other(p)
           n == stage[p]
           rest == Tail(recvMsgCh[p])
<1>1. Types /\ Turns /\ PipeInv(p) /\ PipeInv(q) /\ q \in Sides /\ q # p /\ other(q) = p
    BY TwoSides DEF LinkInv
<1>2. /\ recvMsgCh[p] \in Seq(Letters) /\ recvMsgCh[p] # <<>>
      /\ n \in 0..2 /\ stage[q] \in 0..3
      /\ recvMsgCh[p][1] = PeerName(n) /\ PeerName(n) \in Letters
      /\ IsName(PeerName(n)) /\ PeerName(n).no = n
    BY <1>1, LetterFacts, SeqFacts DEF WaitForTargetPeerName, Awaiting, Types, Paired
<1>3. /\ rest \in Seq(Letters) /\ 1 \in 1..Len(recvMsgCh[p])
      /\ Len(recvMsgCh[p]) \in Nat /\ Len(rest) = Len(recvMsgCh[p]) - 1
      /\ \A i \in 1..Len(rest) : rest[i] = recvMsgCh[p][i + 1] /\ i + 1 \in 1..Len(recvMsgCh[p])
    BY <1>2, SeqFacts
<1>4. n < stage[q]
    BY <1>1, <1>2, <1>3 DEF PipeInv, InTurn, Carries
<1>5. stage[q] = n + 1 /\ Turns' /\ stage' \in [Sides -> 0..Paired]
    BY <1>1, <1>4, TakeTurn DEF WaitForTargetPeerName
<1>6. /\ stage'[p] = n + 1 /\ stage'[q] = n + 1
      /\ recvMsgCh'[p] = rest /\ recvMsgCh'[q] = recvMsgCh[q]
      /\ ~waiting'[p] /\ waiting'[q] = waiting[q]
      /\ UNCHANGED <<recvActive, inHand, wire, closed, sent, got>>
    BY <1>1, <1>5 DEF WaitForTargetPeerName, Types
<1>7. Types'
    BY <1>1, <1>3, <1>5, <1>6 DEF Types, WaitForTargetPeerName
<1>8. PipeInv(p)'
    <2>1. ASSUME NEW m \in Letters, Carries(p, m)' PROVE Carries(p, m) /\ ~IsName(m)
        <3>1. CASE \E i \in 1..Len(rest) : rest[i] = m
            <4>1. PICK i \in 1..Len(rest) : rest[i] = m
                BY <3>1
            <4>2. i + 1 # 1 /\ i + 1 \in 1..Len(recvMsgCh[p]) /\ recvMsgCh[p][i + 1] = m
                BY <1>3, <4>1
            <4> QED
                BY <1>1, <4>2 DEF PipeInv, NameFirst, Carries
        <3>2. CASE inHand[p] = m /\ m # Nothing
            BY <1>1, <1>2, <3>2 DEF PipeInv, NameFirst, Carries
        <3>3. CASE \E i \in 1..Len(wire[p]) : wire[p][i] = m
            BY <1>1, <1>2, <3>3 DEF PipeInv, NameFirst, Carries
        <3> QED
            BY <1>6, <2>1, <3>1, <3>2, <3>3 DEF Carries
    <2>2. InTurn(p)'
        <3>1. ASSUME NEW m \in Letters, Carries(p, m)' PROVE ~IsName(m) /\ stage'[q] = Paired
            <4>1. Carries(p, m) /\ ~IsName(m)
                BY <2>1, <3>1
            <4> QED
                BY <1>1, <1>5, <1>6, <4>1 DEF PipeInv, InTurn
        <3> QED
            BY <3>1 DEF InTurn
    <2>3. NameFirst(p)'
        <3>1. \A i \in 1..Len(rest) : ~IsName(rest[i])
            <4>1. ASSUME NEW i \in 1..Len(rest) PROVE ~IsName(rest[i])
                <5>1. i + 1 # 1 /\ rest[i] = recvMsgCh[p][i + 1] /\ i + 1 \in 1..Len(recvMsgCh[p])
                    BY <1>3
                <5> QED
                    BY <1>1, <5>1 DEF PipeInv, NameFirst
            <4> QED
                BY <4>1
        <3>2. /\ inHand[p] # Nothing => ~IsName(inHand[p])
              /\ \A i \in 1..Len(wire[p]) : ~IsName(wire[p][i])
            BY <1>1, <1>2 DEF PipeInv, NameFirst
        <3> QED
            BY <1>6, <3>1, <3>2 DEF NameFirst
    <2>4. WireCounts(p)'
        BY <1>1, <1>6 DEF PipeInv, WireCounts
    <2>5. got[p] = <<>>
        BY <1>1, <1>2 DEF PipeInv, SessionCounts, Opened, Paired
    <2>6. SessionCounts(p)'
        BY <1>6, <2>5 DEF SessionCounts, Opened
    <2> QED
        BY <2>2, <2>3, <2>4, <2>6 DEF PipeInv
<1>9. PipeInv(q)'
    <2>1. recvMsgCh[q] = <<>> /\ inHand[q] = Nothing /\ wire[q] = <<>>
        BY <1>1, <1>2, <1>5, LevelMeansEmpty DEF PipeInv, Paired
    <2>2. InTurn(q)'
        BY <1>6, <2>1 DEF InTurn, Carries
    <2>3. NameFirst(q)' /\ WireCounts(q)'
        BY <1>6, <2>1 DEF NameFirst, WireCounts
    <2>4. SessionCounts(q)'
        BY <1>1, <1>5, <1>6 DEF PipeInv, SessionCounts, Opened, size, item, held
    <2> QED
        BY <2>2, <2>3, <2>4 DEF PipeInv
<1> QED
    BY <1>1, <1>5, <1>7, <1>8, <1>9, TwoSides DEF LinkInv

\* A session starts with nothing, and nothing was passed on before it.
LEMMA ReceiveStep ==
    ASSUME LinkInv, NEW p \in Sides, Receive(p)
    PROVE  LinkInv'
<1> DEFINE q == other(p)
<1>1. Types /\ Turns /\ PipeInv(p) /\ PipeInv(q) /\ q \in Sides /\ q # p /\ other(q) = p
    BY TwoSides DEF LinkInv
<1>2. /\ recvMsgCh'[p] = <<>> /\ recvMsgCh'[q] = recvMsgCh[q]
      /\ waiting'[q] = waiting[q] /\ recvActive'[q] = recvActive[q]
      /\ UNCHANGED <<stage, inHand, wire, closed, sent, got>>
    BY <1>1 DEF Receive, Types
<1>3. Types'
    BY <1>1 DEF Types, Receive
<1>4. Turns'
    BY <1>1, <1>2 DEF Turns
<1>5. PipeInv(p)'
    <2>1. InTurn(p)' /\ NameFirst(p)' /\ WireCounts(p)'
        BY <1>1, <1>2 DEF PipeInv, InTurn, Carries, NameFirst, WireCounts
    <2>2. got[p] = <<>>
        BY <1>1 DEF PipeInv, SessionCounts, Opened, Receive
    <2>3. SessionCounts(p)'
        BY <1>2, <2>2 DEF SessionCounts, size
    <2> QED
        BY <2>1, <2>3 DEF PipeInv
<1>6. PipeInv(q)'
    BY <1>1, <1>2, PipeFrame
<1> QED
    BY <1>1, <1>3, <1>4, <1>5, <1>6, TwoSides DEF LinkInv

-----------------------------------------------------------------------------
(* The messages.                                                           *)

\* handlePeer's session, and what is on its way to it, hold no names.
LEMMA NoNamesWhenPaired ==
    ASSUME Types, NEW p \in Sides, InTurn(p), stage[p] = Paired,
           NEW m \in Letters, Carries(p, m)
    PROVE  ~IsName(m)
<1>1. stage[other(p)] \in 0..3 /\ m.no \in Nat
    BY TwoSides, LetterFacts DEF Types, Paired
<1> QED
    BY <1>1 DEF InTurn, Paired

\* The read loop takes the first message off the wire.
LEMMA ReadMessageStep ==
    ASSUME LinkInv, NEW p \in Sides, ReadMessage(p)
    PROVE  LinkInv'
<1> DEFINE q == other(p)
           m == Head(wire[p])
           w == wire[p]
           rest == Tail(wire[p])
<1>1. Types /\ Turns /\ PipeInv(p) /\ PipeInv(q) /\ q \in Sides /\ q # p /\ other(q) = p
    BY TwoSides DEF LinkInv
<1>2. /\ w \in Seq(Letters) /\ w # <<>> /\ inHand[p] = Nothing /\ ~closed[p]
      /\ sent[q] \in Nat
    BY <1>1 DEF ReadMessage, Types
<1>3. /\ m = w[1] /\ m \in Letters /\ m # Nothing /\ m.no \in Nat
      /\ 1 \in 1..Len(w) /\ Len(w) \in Nat
      /\ rest \in Seq(Letters) /\ Len(rest) = Len(w) - 1
      /\ \A i \in 1..Len(rest) : rest[i] = w[i + 1] /\ i + 1 \in 1..Len(w) /\ i + 1 # 1
    BY <1>2, SeqFacts, LetterFacts
<1>4. /\ inHand'[p] = m /\ inHand'[q] = inHand[q]
      /\ wire'[p] = rest /\ wire'[q] = wire[q]
      /\ UNCHANGED <<stage, waiting, recvActive, recvMsgCh, closed, sent, got>>
    BY <1>1 DEF ReadMessage, Types
<1>5. Types'
    BY <1>1, <1>3 DEF Types, ReadMessage
<1>6. Turns'
    BY <1>1, <1>4 DEF Turns
<1>7. PipeInv(p)'
    <2>1. InTurn(p)'
        <3>1. ASSUME NEW l \in Letters, Carries(p, l)' PROVE Carries(p, l)
            BY <1>3, <1>4, <3>1 DEF Carries
        <3> QED
            BY <1>1, <1>4, <3>1 DEF PipeInv, InTurn
    <2>2. NameFirst(p)'
        <3>1. \A i \in 1..Len(rest) : ~IsName(rest[i])
            BY <1>1, <1>3 DEF PipeInv, NameFirst
        <3>2. IsName(m) => recvMsgCh[p] = <<>>
            BY <1>1, <1>3 DEF PipeInv, NameFirst
        <3> QED
            BY <1>1, <1>4, <3>1, <3>2 DEF PipeInv, NameFirst
    <2>3. /\ \A i \in 1..Len(w) : ~IsName(w[i]) => w[i].no = sent[q] - Len(w) + i
        BY <1>1, <1>2 DEF PipeInv, WireCounts
    <2>4. WireCounts(p)'
        <3>1. \A i \in 1..Len(rest) : ~IsName(rest[i]) => rest[i].no = sent[q] - Len(rest) + i
            <4>1. ASSUME NEW i \in 1..Len(rest), ~IsName(rest[i])
                  PROVE  rest[i].no = sent[q] - Len(rest) + i
                <5>1. rest[i].no = sent[q] - Len(w) + (i + 1)
                    BY <1>3, <2>3, <4>1
                <5>2. /\ Len(w) \in Int /\ Len(rest) = Len(w) - 1
                      /\ i \in Int /\ sent[q] \in Int
                    BY <1>2, <1>3
                <5> QED
                    BY <1>1, <5>1, <5>2 DEF Types
            <4> QED
                BY <4>1
        <3>2. ~IsName(m) => m.no = sent[q] - Len(rest)
            BY <1>2, <1>3, <2>3
        <3> QED
            BY <1>4, <3>1, <3>2 DEF WireCounts
    <2>5. SessionCounts(p)'
        <3>1. ASSUME Opened(p), recvActive[p], size(p) > 0
              PROVE  m.no = item(p, size(p)) + 1 /\ item(p, size(p)) = sent[q] - Len(rest) - 1
            <4>1. ~IsName(m)
                BY <1>1, <1>2, <1>3, <3>1, NoNamesWhenPaired DEF PipeInv, Opened, Carries
            <4>2. m.no = sent[q] - Len(w) + 1
                BY <1>3, <2>3, <4>1
            <4>3. item(p, size(p)) = sent[q] - Len(w) - 0
                BY <1>1, <1>2, <3>1 DEF PipeInv, SessionCounts, held
            <4> QED
                BY <1>2, <1>3, <4>2, <4>3
        <3> QED
            BY <1>1, <1>2, <1>3, <1>4, <3>1 DEF PipeInv, SessionCounts, Opened, size, item, held
    <2> QED
        BY <2>1, <2>2, <2>4, <2>5 DEF PipeInv
<1>8. PipeInv(q)'
    BY <1>1, <1>4, PipeFrame
<1> QED
    BY <1>1, <1>5, <1>6, <1>7, <1>8, TwoSides DEF LinkInv

\* The read loop queues the message for the session, or drops it if there is
\* none.
LEMMA DeliverMessageStep ==
    ASSUME LinkInv, NEW p \in Sides, DeliverMessage(p)
    PROVE  LinkInv'
<1> DEFINE q == other(p)
           m == inHand[p]
           s == recvMsgCh[p]
           k == Len(got[p])
<1>1. Types /\ Turns /\ PipeInv(p) /\ PipeInv(q) /\ q \in Sides /\ q # p /\ other(q) = p
    BY TwoSides DEF LinkInv
<1>2. /\ m # Nothing /\ m \in Letters /\ m.no \in Nat
      /\ s \in Seq(Letters) /\ got[p] \in Seq(Letters) /\ k \in Nat /\ Len(s) \in Nat
    BY <1>1, LetterFacts DEF DeliverMessage, Types
<1>3. /\ Append(s, m) \in Seq(Letters) /\ Len(Append(s, m)) = Len(s) + 1
      /\ \A i \in 1..Len(s) : Append(s, m)[i] = s[i]
      /\ Append(s, m)[Len(s) + 1] = m
    BY <1>2, SeqFacts
<1>4. /\ inHand'[p] = Nothing /\ inHand'[q] = inHand[q]
      /\ recvMsgCh'[p] = IF recvActive[p] THEN Append(s, m) ELSE s
      /\ recvMsgCh'[q] = recvMsgCh[q]
      /\ UNCHANGED <<stage, waiting, recvActive, wire, closed, sent, got>>
    BY <1>1 DEF DeliverMessage, Types
<1>5. Types'
    BY <1>1, <1>2, <1>3 DEF Types, DeliverMessage
<1>6. Turns'
    BY <1>1, <1>4 DEF Turns
<1>7. PipeInv(q)'
    BY <1>1, <1>4, PipeFrame
<1>8. \A i \in 1..Len(wire[p]) : ~IsName(wire[p][i])
    BY <1>1, <1>2 DEF PipeInv, NameFirst
<1>9. WireCounts(p)'
    BY <1>1, <1>4 DEF PipeInv, WireCounts
<1>10. CASE ~recvActive[p]
    <2>1. InTurn(p)' /\ NameFirst(p)'
        BY <1>1, <1>2, <1>4, <1>8, <1>10 DEF PipeInv, InTurn, Carries, NameFirst
    <2>2. SessionCounts(p)'
        BY <1>1, <1>4, <1>10 DEF PipeInv, SessionCounts, Opened, size, item
    <2> QED
        BY <1>1, <1>5, <1>6, <1>7, <1>9, <2>1, <2>2, TwoSides DEF PipeInv, LinkInv
<1>11. CASE recvActive[p]
    <2>1. recvMsgCh'[p] = Append(s, m) /\ Len(recvMsgCh'[p]) = Len(s) + 1
        BY <1>3, <1>4, <1>11
    <2>2. InTurn(p)'
        <3>1. ASSUME NEW l \in Letters, Carries(p, l)' PROVE Carries(p, l)
            BY <1>2, <1>3, <1>4, <2>1, <3>1 DEF Carries
        <3> QED
            BY <1>1, <1>4, <3>1 DEF PipeInv, InTurn
    <2>3. NameFirst(p)'
        <3>1. ASSUME NEW i \in 1..(Len(s) + 1), IsName(Append(s, m)[i]) PROVE i = 1
            <4>1. CASE i \in 1..Len(s)
                BY <1>1, <1>3, <3>1, <4>1 DEF PipeInv, NameFirst
            <4>2. CASE i = Len(s) + 1
                BY <1>1, <1>2, <1>3, <3>1, <4>2 DEF PipeInv, NameFirst
            <4> QED
                BY <1>2, <4>1, <4>2
        <3> QED
            BY <1>4, <1>8, <2>1, <3>1 DEF NameFirst
    <2>a. PICK a, b \in Nat : a = k /\ b = Len(s)
        BY <1>2
    <2> DEFINE n == a + b
    <2>b. n \in Nat /\ size(p) = n /\ size(p)' = n + 1
        BY <1>1, <1>4, <2>1, <2>a DEF size, Types
    <2>c. ASSUME NEW i \in 1..n PROVE item(p, i)' = item(p, i)
        <3>1. CASE i <= k
            BY <1>4, <3>1 DEF item
        <3>2. CASE ~(i <= k)
            <4>1. i \in 1..(a + b) /\ ~(i <= a)
                BY <2>a, <3>2
            <4>2. i - a \in 1..b
                BY <4>1
            <4>3. Append(s, m)[i - k] = s[i - k]
                BY <1>3, <2>a, <4>2
            <4> QED
                BY <1>4, <2>1, <3>2, <4>3 DEF item
        <3> QED
            BY <3>1, <3>2
    <2>d. item(p, n + 1)' = m.no
        <3>1. ~(n + 1 <= a) /\ (n + 1) - a = b + 1
            OBVIOUS
        <3>2. item(p, n + 1)' = Append(s, m)[b + 1].no
            BY <1>4, <2>1, <2>a, <3>1 DEF item
        <3> QED
            BY <1>3, <2>a, <3>2
    <2> HIDE DEF n
    <2>4. ASSUME Opened(p)
          PROVE  /\ ~closed[p] => m.no = sent[q] - Len(wire[p])
                 /\ n > 0 => m.no = item(p, n) + 1
        <3>1. ~IsName(m)
            BY <1>1, <1>2, <2>4, NoNamesWhenPaired DEF PipeInv, Opened, Carries
        <3>2. ~closed[p] => m.no = sent[q] - Len(wire[p])
            BY <1>1, <1>2, <3>1 DEF PipeInv, WireCounts
        <3>3. n > 0 => m.no = item(p, n) + 1
            BY <1>1, <1>2, <1>11, <2>b, <2>4 DEF PipeInv, SessionCounts
        <3> QED
            BY <3>2, <3>3
    <2>5. SessionCounts(p)'
        <3>1. Opened(p)' = Opened(p)
            BY <1>4 DEF Opened
        <3>2. ASSUME Opened(p), NEW i \in 1..n PROVE item(p, i + 1)' = item(p, i)' + 1
            <4>1. item(p, i)' = item(p, i)
                BY <2>c
            <4>2. CASE i = n
                BY <2>b, <2>d, <2>4, <3>2, <4>1, <4>2
            <4>3. CASE i # n
                <5>1. i + 1 \in 1..n /\ i \in 1..(n - 1)
                    BY <2>b, <4>3
                <5>2. item(p, i + 1) = item(p, i) + 1
                    BY <1>1, <2>b, <3>2, <5>1 DEF PipeInv, SessionCounts
                <5>3. item(p, i + 1)' = item(p, i + 1)
                    BY <2>c, <5>1
                <5> QED
                    BY <4>1, <5>2, <5>3
            <4> QED
                BY <4>2, <4>3
        <3>3. Opened(p) => \A i \in 1..(size(p)' - 1) : (item(p, i + 1) = item(p, i) + 1)'
            <4>1. size(p)' - 1 = n
                BY <2>b
            <4> QED
                BY <3>2, <4>1
        <3>4. ASSUME Opened(p), ~closed[p]
              PROVE  item(p, size(p))' = sent[q] - Len(wire[p]) - 0
            <4>1. item(p, size(p))' = item(p, n + 1)'
                BY <2>b DEF item
            <4>2. Len(wire[p]) \in Nat /\ sent[q] \in Nat
                BY <1>1 DEF Types
            <4> QED
                BY <1>1, <2>d, <2>4, <3>4, <4>1, <4>2 DEF Types
        <3>5. (got[p] # <<>> => Opened(p))'
            BY <1>1, <1>4, <3>1 DEF PipeInv, SessionCounts
        <3> QED
            BY <1>1, <1>4, <3>1, <3>3, <3>4, <3>5 DEF SessionCounts, held
    <2> QED
        BY <1>1, <1>5, <1>6, <1>7, <1>9, <2>2, <2>3, <2>5, TwoSides DEF PipeInv, LinkInv
<1> QED
    BY <1>10, <1>11

\* handlePeer passes on the first message of its session: what it has passed on
\* and what is queued stay the same together.
LEMMA HandlePeerStep ==
    ASSUME LinkInv, NEW p \in Sides, HandlePeer(p)
    PROVE  LinkInv'
<1> DEFINE q == other(p)
           s == recvMsgCh[p]
           g == got[p]
<1>1. Types /\ Turns /\ PipeInv(p) /\ PipeInv(q) /\ q \in Sides /\ q # p /\ other(q) = p
    BY TwoSides DEF LinkInv
<1>2. s \in Seq(Letters) /\ s # <<>> /\ g \in Seq(Letters) /\ Opened(p)
    BY <1>1 DEF HandlePeer, Serving, Opened, Types
<1>3. /\ Head(s) = s[1] /\ Head(s) \in Letters /\ Tail(s) \in Seq(Letters)
      /\ 1 \in 1..Len(s)
      /\ \A i \in 1..Len(Tail(s)) : Tail(s)[i] = s[i + 1] /\ i + 1 \in 1..Len(s) /\ i + 1 # 1
    BY <1>2, SeqFacts
<1>4. /\ recvMsgCh'[p] = Tail(s) /\ recvMsgCh'[q] = recvMsgCh[q]
      /\ got'[p] = Append(g, Head(s)) /\ got'[q] = got[q]
      /\ UNCHANGED <<stage, waiting, recvActive, inHand, wire, closed, sent>>
    BY <1>1 DEF HandlePeer, Types
<1>5. Types'
    <2>1. Append(g, Head(s)) \in Seq(Letters)
        BY <1>2, <1>3
    <2> QED
        BY <1>1, <1>3, <2>1 DEF Types, HandlePeer
<1>6. Turns'
    BY <1>1, <1>4 DEF Turns
<1>7. PipeInv(p)'
    <2>1. InTurn(p)'
        <3>1. ASSUME NEW l \in Letters, Carries(p, l)' PROVE Carries(p, l)
            BY <1>3, <1>4, <3>1 DEF Carries
        <3> QED
            BY <1>1, <1>4, <3>1 DEF PipeInv, InTurn
    <2>2. NameFirst(p)'
        <3>1. \A i \in 1..Len(Tail(s)) : ~IsName(Tail(s)[i])
            BY <1>1, <1>3 DEF PipeInv, NameFirst
        <3> QED
            BY <1>1, <1>2, <1>4, <3>1 DEF PipeInv, NameFirst
    <2>3. WireCounts(p)'
        BY <1>1, <1>4 DEF PipeInv, WireCounts
    <2>4. PICK a, b \in Nat : a = Len(g) /\ b + 1 = Len(s)
        <3>1. Len(g) \in Nat /\ Len(s) - 1 \in Nat /\ (Len(s) - 1) + 1 = Len(s)
            BY <1>2, <1>3
        <3> QED
            BY <3>1
    <2> DEFINE n == a + (b + 1)
    <2>5. n \in Nat /\ size(p) = n /\ size(p)' = n /\ n > 0
        <3>1. size(p) = n
            BY <1>1, <2>4 DEF size, Types
        <3>2. Len(Append(g, Head(s))) = a + 1 /\ Len(Tail(s)) = b
            BY <1>2, <1>3, <2>4, SeqFacts
        <3>3. size(p)' = (a + 1) + b
            BY <1>4, <3>2 DEF size
        <3> QED
            BY <3>1, <3>3
    <2>6. ASSUME NEW i \in 1..n PROVE item(p, i)' = item(p, i)
        <3>1. /\ Len(Append(g, Head(s))) = a + 1
              /\ \A j \in 1..a : Append(g, Head(s))[j] = g[j]
              /\ Append(g, Head(s))[a + 1] = s[1]
              /\ \A j \in 1..b : Tail(s)[j] = s[j + 1]
            BY <1>2, <1>3, <2>4, SeqFacts
        <3>2. CASE i \in 1..a
            <4>1. i <= a /\ i <= a + 1
                BY <3>2
            <4> QED
                BY <1>4, <2>4, <3>1, <3>2, <4>1 DEF item
        <3>3. CASE i = a + 1
            <4>1. ~(i <= a) /\ i <= a + 1 /\ i - a = 1
                BY <3>3
            <4> QED
                BY <1>4, <2>4, <3>1, <3>3, <4>1 DEF item
        <3>4. CASE i > a + 1
            <4>1. i - (a + 1) \in 1..b /\ (i - (a + 1)) + 1 = i - a /\ ~(i <= a) /\ ~(i <= a + 1)
                BY <3>4
            <4>2. Tail(s)[i - (a + 1)] = s[i - a]
                BY <3>1, <4>1
            <4>3. item(p, i)' = Tail(s)[i - (a + 1)].no
                BY <1>4, <3>1, <4>1 DEF item
            <4>4. item(p, i) = s[i - a].no
                BY <2>4, <4>1 DEF item
            <4> QED
                BY <4>2, <4>3, <4>4
        <3> QED
            BY <3>2, <3>3, <3>4
    <2> HIDE DEF n
    <2>7. SessionCounts(p)'
        <3>1. Opened(p)'
            BY <1>2, <1>4 DEF Opened
        <3>2. ASSUME NEW i \in 1..(n - 1) PROVE item(p, i + 1)' = item(p, i)' + 1
            <4>1. i \in 1..n /\ i + 1 \in 1..n
                BY <2>5
            <4>2. item(p, i + 1) = item(p, i) + 1
                BY <1>1, <1>2, <2>5 DEF PipeInv, SessionCounts
            <4>3. item(p, i)' = item(p, i) /\ item(p, i + 1)' = item(p, i + 1)
                BY <2>6, <4>1
            <4> QED
                BY <4>2, <4>3
        <3>3. \A i \in 1..(size(p)' - 1) : (item(p, i + 1) = item(p, i) + 1)'
            BY <2>5, <3>2
        <3>4. item(p, size(p))' = item(p, n)'
            BY <2>5 DEF item
        <3>5. item(p, n)' = item(p, n) /\ item(p, n) = item(p, size(p))
            BY <2>5, <2>6
        <3>6. recvActive[p] =>
                  /\ inHand[p] # Nothing => inHand[p].no = item(p, n) + 1
                  /\ ~closed[p] => item(p, n) = sent[q] - Len(wire[p]) - held(p)
            BY <1>1, <1>2, <2>5 DEF PipeInv, SessionCounts
        <3>7. held(p)' = held(p)
            BY <1>4 DEF held
        <3> QED
            BY <1>4, <3>1, <3>3, <3>4, <3>5, <3>6, <3>7 DEF SessionCounts
    <2> QED
        BY <2>1, <2>2, <2>3, <2>7 DEF PipeInv
<1>8. PipeInv(q)'
    BY <1>1, <1>4, PipeFrame
<1> QED
    BY <1>1, <1>5, <1>6, <1>7, <1>8, TwoSides DEF LinkInv

\* A message joins the others at the end of the wire, with the next number; to
\* an end that closed it is lost.
LEMMA SendMessageStep ==
    ASSUME LinkInv, NEW p \in Sides, SendMessage(p)
    PROVE  LinkInv'
<1> DEFINE q == other(p)
           w == wire[q]
<1>1. Types /\ Turns /\ PipeInv(p) /\ PipeInv(q) /\ q \in Sides /\ q # p /\ other(q) = p
    BY TwoSides DEF LinkInv
<1>2. PICK k \in Nat : k = sent[p]
    BY <1>1 DEF Types
<1> DEFINE m == Message(k + 1)
<1>3. m \in Letters /\ ~IsName(m) /\ m.no = k + 1 /\ w \in Seq(Letters)
    BY <1>1, LetterFacts DEF Types
<1>4. /\ wire'[q] = IF closed[q] THEN w ELSE Append(w, m)
      /\ wire'[p] = wire[p]
      /\ sent'[p] = k + 1 /\ sent'[q] = sent[q]
      /\ UNCHANGED <<stage, waiting, recvActive, recvMsgCh, inHand, closed, got>>
    BY <1>1, <1>2 DEF SendMessage, Transmit, Types
<1>5. Types'
    <2>1. Append(w, m) \in Seq(Letters)
        BY <1>3
    <2>2. wire' \in [Sides -> Seq(Letters)]
        BY <1>1, <1>2, <2>1 DEF SendMessage, Transmit, Types
    <2>3. sent' \in [Sides -> Nat]
        BY <1>1 DEF SendMessage, Types
    <2> QED
        BY <1>1, <1>4, <2>2, <2>3 DEF Types
<1>6. Turns'
    BY <1>1, <1>4 DEF Turns
<1>7. PipeInv(p)'
    BY <1>1, <1>4, PipeFrame
<1>8. PipeInv(q)'
    <2>1. CASE closed[q]
        <3>1. InTurn(q)' /\ NameFirst(q)' /\ WireCounts(q)'
            BY <1>1, <1>4, <2>1 DEF PipeInv, InTurn, Carries, NameFirst, WireCounts
        <3>2. SessionCounts(q)'
            BY <1>1, <1>4, <2>1 DEF PipeInv, SessionCounts, Opened, size, item
        <3> QED
            BY <3>1, <3>2 DEF PipeInv
    <2>2. CASE ~closed[q]
        <3>a. PICK n \in Nat : n = Len(w)
            BY <1>3
        <3>1. /\ wire'[q] = Append(w, m) /\ Len(wire'[q]) = n + 1
              /\ \A i \in 1..n : wire'[q][i] = w[i]
              /\ wire'[q][n + 1] = m
            BY <1>3, <1>4, <2>2, <3>a, SeqFacts
        <3>2. InTurn(q)'
            <4>1. ASSUME NEW l \in Letters, Carries(q, l)' PROVE Carries(q, l) \/ l = m
                BY <1>4, <3>a, <3>1, <4>1 DEF Carries
            <4>2. stage[p] = Paired
                BY DEF SendMessage
            <4> QED
                BY <1>1, <1>3, <1>4, <4>1, <4>2 DEF PipeInv, InTurn
        <3>3. NameFirst(q)'
            <4>1. ASSUME NEW i \in 1..(n + 1), IsName(wire'[q][i]) PROVE i \in 1..n /\ IsName(w[i])
                <5>1. i \in 1..n \/ i = n + 1
                    OBVIOUS
                <5> QED
                    BY <1>3, <3>1, <4>1, <5>1
            <4> QED
                BY <1>1, <1>4, <3>a, <3>1, <4>1 DEF PipeInv, NameFirst
        <3>4. WireCounts(q)'
            <4>1. ASSUME NEW i \in 1..(n + 1), ~IsName(wire'[q][i])
                  PROVE  wire'[q][i].no = (k + 1) - (n + 1) + i
                <5>1. CASE i \in 1..n
                    <6>1. wire'[q][i].no = k - n + i
                        BY <1>1, <1>2, <2>2, <3>a, <3>1, <4>1, <5>1 DEF PipeInv, WireCounts
                    <6> QED
                        BY <5>1, <6>1
                <5>2. CASE i = n + 1
                    <6>1. (k + 1) - (n + 1) + (n + 1) = k + 1
                        OBVIOUS
                    <6> QED
                        BY <1>3, <3>1, <5>2, <6>1
                <5> QED
                    BY <5>1, <5>2
            <4>2. inHand[q] # Nothing /\ ~IsName(inHand[q]) => inHand[q].no = (k + 1) - (n + 1)
                <5>1. (k + 1) - (n + 1) = k - n
                    OBVIOUS
                <5> QED
                    BY <1>1, <1>2, <2>2, <3>a, <5>1 DEF PipeInv, WireCounts
            <4> QED
                BY <1>1, <1>4, <3>1, <4>1, <4>2 DEF WireCounts
        <3>5. SessionCounts(q)'
            <4>1. held(q)' = held(q) /\ held(q) \in {0, 1}
                BY <1>4 DEF held
            <4>2. (k + 1) - (n + 1) - held(q) = k - n - held(q)
                BY <4>1
            <4>3. size(q)' = size(q) /\ Opened(q)' = Opened(q)
                BY <1>4 DEF size, Opened
            <4>4. item(q, size(q))' = item(q, size(q))
                BY <1>4, <4>3 DEF item
            <4>5. SessionCounts(q)
                BY <1>1 DEF PipeInv
            <4>6. Opened(q) /\ recvActive[q] /\ size(q) > 0 =>
                      item(q, size(q)) = k - n - held(q)
                BY <1>1, <1>2, <2>2, <3>a, <4>5 DEF SessionCounts, Types
            <4>7. (Opened(q) => \A i \in 1..(size(q) - 1) : item(q, i + 1) = item(q, i) + 1)'
                BY <1>4, <4>5 DEF SessionCounts, Opened, size, item
            <4> QED
                BY <1>1, <1>4, <3>1, <4>1, <4>2, <4>3, <4>4, <4>5, <4>6, <4>7 DEF SessionCounts
        <3> QED
            BY <3>2, <3>3, <3>4, <3>5 DEF PipeInv
    <2> QED
        BY <2>1, <2>2
<1> QED
    BY <1>1, <1>5, <1>6, <1>7, <1>8, TwoSides DEF LinkInv

-----------------------------------------------------------------------------
(* The ends of sessions and connections.                                   *)

\* What they claim less of: an end that closed does not read, a session that
\* ended gets nothing more.
LEMMA EndingStep ==
    ASSUME LinkInv, Types',
           UNCHANGED <<stage, waiting, recvMsgCh, inHand, wire, sent, got>>,
           \A p \in Sides : (recvActive'[p] => recvActive[p]) /\ (closed[p] => closed'[p])
    PROVE  LinkInv'
<1>1. Turns'
    BY DEF LinkInv, Turns
<1>2. ASSUME NEW p \in Sides PROVE PipeInv(p)'
    <2>1. PipeInv(p)
        BY DEF LinkInv
    <2>2. InTurn(p)' /\ NameFirst(p)' /\ WireCounts(p)'
        BY <2>1 DEF PipeInv, InTurn, Carries, NameFirst, WireCounts
    <2>3. SessionCounts(p)'
        BY <2>1 DEF PipeInv, SessionCounts, Opened, size, item, held
    <2> QED
        BY <2>2, <2>3 DEF PipeInv
<1> QED
    BY <1>1, <1>2 DEF LinkInv

\* Every action preserves the invariant.
LEMMA LinkNext == LinkInv /\ [Next]_vars => LinkInv'
<1> SUFFICES ASSUME LinkInv, [Next]_vars PROVE LinkInv'
    OBVIOUS
<1>0. Types
    BY DEF LinkInv
<1>1. CASE UNCHANGED vars
    <2>1. Types'
        BY <1>0, <1>1 DEF vars, Types
    <2> QED
        BY <1>1, <2>1, EndingStep DEF vars
<1>2. ASSUME NEW p \in Sides,
             SendFails(p) \/ WaitFails(p) \/ Expire(p) \/ HandleReadError(p) \/ LeavePeer(p) \/ RemovePeer(p)
      PROVE  LinkInv'
    <2>1. /\ UNCHANGED <<stage, waiting, recvMsgCh, inHand, wire, sent, got>>
          /\ \/ recvActive' = recvActive
             \/ recvActive' = [recvActive EXCEPT ![p] = FALSE]
          /\ \/ closed' = closed
             \/ closed' = [closed EXCEPT ![p] = TRUE]
        BY <1>2 DEF SendFails, WaitFails, Fail, Expire, HandleReadError, LeavePeer, RemovePeer
    <2>2. Types'
        BY <1>0, <2>1 DEF Types
    <2>3. \A e \in Sides : (recvActive'[e] => recvActive[e]) /\ (closed[e] => closed'[e])
        BY <1>0, <2>1 DEF Types
    <2> QED
        BY <2>1, <2>2, <2>3, EndingStep
<1>3. ASSUME NEW p \in Sides,
             Handshake(p) \/ Expire(p) \/ ReadLoop(p)
             \/ SendMessage(p) \/ HandlePeer(p) \/ LeavePeer(p) \/ RemovePeer(p)
      PROVE  LinkInv'
    BY <1>2, <1>3, SendPeerNameStep, ReceiveStep, WaitForTargetPeerNameStep,
       ReadMessageStep, DeliverMessageStep, SendMessageStep, HandlePeerStep
    DEF Handshake, ReadLoop
<1> QED
    BY <1>1, <1>3 DEF Next

-----------------------------------------------------------------------------
(* The theorems.                                                           *)

\* An initiator that has the receiver as a peer is a peer of the receiver,
\* whatever is lost, delayed or cut off (initiateHandshake, receiveHandshake).
THEOREM PairingIsMutual == Spec => []PairedBothWays
<1>1. LinkInv => PairedBothWays
    BY DEF LinkInv, Turns, PairedBothWays, Paired
<1> QED
    BY <1>1, LinkInit, LinkNext, PTL DEF Spec

\* What handlePeer passes on has no gap, whatever was dropped before it opened
\* its session and is lost after the end of it (deliverMessage, Receive).
THEOREM NothingIsSkipped == Spec => []NoGaps
<1>1. ASSUME LinkInv PROVE NoGaps
    <2> SUFFICES ASSUME NEW p \in Sides, NEW i \in 1..(Len(got[p]) - 1)
                 PROVE  got[p][i + 1].no = got[p][i].no + 1
        BY DEF NoGaps
    <2>1. Types /\ SessionCounts(p)
        BY <1>1 DEF LinkInv, PipeInv
    <2>2. PICK a, b \in Nat : a = Len(got[p]) /\ b = Len(recvMsgCh[p])
        BY <2>1 DEF Types
    <2>3. i \in 1..(a - 1)
        BY <2>2
    <2>4. got[p] # <<>>
        BY <2>1, <2>2, <2>3 DEF Types
    <2>5. size(p) = a + b
        BY <2>1, <2>2 DEF size, Types
    <2>6. i \in 1..(size(p) - 1)
        BY <2>3, <2>5
    <2>7. item(p, i + 1) = item(p, i) + 1
        BY <2>1, <2>4, <2>6 DEF SessionCounts
    <2>8. i <= a /\ i + 1 <= a
        BY <2>3
    <2> QED
        BY <2>2, <2>7, <2>8 DEF item
<1> QED
    BY <1>1, LinkInit, LinkNext, PTL DEF Spec

=============================================================================
