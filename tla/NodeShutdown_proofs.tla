------------------------ MODULE NodeShutdown_proofs -------------------------
(***************************************************************************)
(* What the locks of one process keep apart, for every value of the        *)
(* constants.                                                              *)
(*                                                                         *)
(* NodeShutdown: nobody sends on the channel of a SafeChannel once it is   *)
(* closed, whatever the connections, queue sizes and messages.             *)
(*                                                                         *)
(* FileContext, as the instance Files at the end of the module: the mutex  *)
(* of the registry keeps updates and the removal of contexts apart, for    *)
(* any number of updates and reads.  Its TypeOK says so beside the types,  *)
(* and is inductive as it stands.                                          *)
(***************************************************************************)
EXTENDS NodeShutdown, TLAPS

HandlerSteps ==
    {"new", "select", "forward", "report", "remove", "closing", "gone"} \cup Sending

HandlerTypes == handler \in [Conns -> HandlerSteps]

\* NoSendOnClosed is inductive with the type of handler.
ChannelInv == HandlerTypes /\ NoSendOnClosed

\* A step of one handler that does not take it to the channel operation, or
\* does so with the channel open.
LEMMA HandlerMove ==
    ASSUME ChannelInv, NEW c, NEW to \in HandlerSteps,
           handler' = [handler EXCEPT ![c] = to],
           UNCHANGED listener,
           accept' # "sending" \/ accept' = accept \/ ~chClosed,
           to \in Sending => ~chClosed
    PROVE  ChannelInv'
<1>1. HandlerTypes'
  BY DEF ChannelInv, HandlerTypes
<1>2. CASE ~chClosed
  BY <1>1, <1>2 DEF ChannelInv, NoSendOnClosed, chClosed
<1>3. CASE chClosed
  <2>1. to \notin Sending /\ accept' # "sending"
    BY <1>3 DEF ChannelInv, NoSendOnClosed, SomeoneSends
  <2>2. ASSUME NEW d \in Conns PROVE handler'[d] \notin Sending
    <3>1. handler[d] \notin Sending
      BY <1>3 DEF ChannelInv, NoSendOnClosed, SomeoneSends, Senders
    <3>2. handler'[d] \in {handler[d], to}
      BY DEF ChannelInv, HandlerTypes
    <3> QED
      BY <2>1, <3>1, <3>2
  <2>3. ~SomeoneSends'
    BY <2>1, <2>2 DEF SomeoneSends, Senders
  <2> QED
    BY <1>1, <2>3 DEF ChannelInv, NoSendOnClosed
<1> QED
  BY <1>2, <1>3

\* A step of nobody's handler.
LEMMA HandlersStay ==
    ASSUME ChannelInv, UNCHANGED handler,
           accept' # "sending" \/ accept' = accept \/ ~chClosed,
           UNCHANGED listener \/ (listener' # "returned")
    PROVE  ChannelInv'
  BY DEF ChannelInv, HandlerTypes, NoSendOnClosed, SomeoneSends, Senders, chClosed

LEMMA HandlePeerStep ==
    ASSUME ChannelInv, NEW c \in Conns, HandlePeer(c)
    PROVE  ChannelInv'
<1>1. UNCHANGED <<listener, accept>>
  BY DEF HandlePeer, SelectMessage, SelectEnd, SafeSend, RemovePeer, ClosePeer, nodeVars
<1>2. ASSUME SafeSend(c) PROVE ChannelInv'
  <2>1. PICK to \in {"remove", "forwarding", "reporting"} :
            /\ handler' = [handler EXCEPT ![c] = to]
            /\ to # "remove" => ~chClosed
    BY <1>2 DEF SafeSend, Goto
  <2> QED
    BY <1>1, <2>1, HandlerMove DEF HandlerSteps, Sending
<1>3. ASSUME SelectMessage(c) \/ SelectEnd(c) \/ RemovePeer(c) \/ ClosePeer(c)
      PROVE  ChannelInv'
  <2>1. PICK to \in {"forward", "report", "remove", "closing", "gone"} :
            handler' = [handler EXCEPT ![c] = to]
    BY <1>3 DEF SelectMessage, SelectEnd, RemovePeer, ClosePeer, Goto
  <2> QED
    BY <1>1, <2>1, HandlerMove DEF HandlerSteps, Sending
<1> QED
  BY <1>2, <1>3 DEF HandlePeer

LEMMA TakeMessageStep ==
    ASSUME ChannelInv, NEW c \in Conns, TakeMessage(c)
    PROVE  ChannelInv'
<1>1. UNCHANGED <<listener, accept>>
  BY DEF TakeMessage, nodeVars
<1>2. PICK to \in {"select", "remove"} : handler' = [handler EXCEPT ![c] = to]
  BY DEF TakeMessage, Loop
<1> QED
  BY <1>1, <1>2, HandlerMove DEF HandlerSteps, Sending

LEMMA AcceptLoopStep ==
    ASSUME ChannelInv, AcceptLoop
    PROVE  ChannelInv'
<1>1. UNCHANGED listener
  BY DEF AcceptLoop, AcceptFails, ShakeSucceeds, ShakeFails, Announce, nodeVars
<1>2. ASSUME AcceptFails \/ Announce PROVE ChannelInv'
  BY <1>1, <1>2, HandlersStay DEF AcceptFails, Announce
<1>3. ASSUME ShakeSucceeds \/ ShakeFails PROVE ChannelInv'
  <2>1. PICK to \in {"select", "remove", "gone"} : handler' = [handler EXCEPT ![incoming] = to]
    BY <1>3 DEF ShakeSucceeds, ShakeFails, Loop
  <2>2. accept' # "sending"
    BY <1>3 DEF ShakeSucceeds, ShakeFails
  <2> QED
    BY <1>1, <2>1, <2>2, HandlerMove DEF HandlerSteps, Sending
<1> QED
  BY <1>2, <1>3 DEF AcceptLoop

\* Close waits for the senders.
LEMMA ListenForStep ==
    ASSUME ChannelInv, ListenFor
    PROVE  ChannelInv'
<1>1. ASSUME BeginCloseChannel PROVE ChannelInv'
  BY <1>1, HandlersStay DEF BeginCloseChannel
<1>2. ASSUME CloseChannel PROVE ChannelInv'
  BY <1>2 DEF CloseChannel, ChannelInv, HandlerTypes, NoSendOnClosed, SomeoneSends, Senders
<1> QED
  BY <1>1, <1>2 DEF ListenFor

LEMMA ChannelInvHoldsInitially == Init => ChannelInv
  BY DEF Init, ChannelInv, HandlerTypes, HandlerSteps, NoSendOnClosed, chClosed

LEMMA NextKeepsChannelInv ==
    ASSUME ChannelInv, [Next]_vars
    PROVE  ChannelInv'
<1>1. CASE TakeAnnouncement \/ BrokerReturns
  BY <1>1, HandlersStay DEF TakeAnnouncement, BrokerReturns, nodeVars
<1>2. CASE AcceptLoop
  BY <1>2, AcceptLoopStep
<1>3. CASE ListenFor
  BY <1>3, ListenForStep
<1>4. CASE Stop
  BY <1>4, HandlersStay DEF Stop
<1>5. CASE Shutdown
  BY <1>5, HandlersStay DEF Shutdown, ShutdownRemoves, ShutdownCloses, ShutdownDone
<1>6. ASSUME NEW c \in Conns, TakeMessage(c) PROVE ChannelInv'
  BY <1>6, TakeMessageStep
<1>7. ASSUME NEW c \in Conns, HandlePeer(c) PROVE ChannelInv'
  BY <1>7, HandlePeerStep
<1>8. ASSUME NEW c \in Conns, Arrive(c) \/ Deliver(c) \/ Lose(c) \/ Accept(c) PROVE ChannelInv'
  BY <1>8, HandlersStay DEF Arrive, Deliver, Lose, Accept, nodeVars
<1>9. CASE UNCHANGED vars
  BY <1>9, HandlersStay DEF vars
<1> QED
  BY <1>1, <1>2, <1>3, <1>4, <1>5, <1>6, <1>7, <1>8, <1>9 DEF Next

\* SafeChannel.Send and Close (utils/ch.go): however many handlers send and
\* whenever the node stops, no sender is in its channel operation once Close has
\* closed the channel, which would panic.
THEOREM SafeChannelIsSafe == Spec => []NoSendOnClosed
<1>1. ChannelInv => NoSendOnClosed
  BY DEF ChannelInv
<1> QED
  BY <1>1, ChannelInvHoldsInitially, NextKeepsChannelInv, PTL DEF Spec

-----------------------------------------------------------------------------
(* The file registry and the poller of one file.                           *)

\* The bounds and the state of FileContext.
CONSTANTS MaxUpdates, MaxReads

VARIABLES ctx, text, upToDate, updater, poller, temp, rappr, file, closing, reads

Files == INSTANCE FileContext

\* BoundsAssumption of FileContext.
FileBounds == MaxUpdates \in Nat \ {0} /\ MaxReads \in Nat

USE DEF FileBounds

\* No context, no poller, an empty file.
LEMMA FilesInit == ASSUME FileBounds, Files!Init PROVE Files!TypeOK
<1>1. 0 \in Files!Texts /\ 0 \in 0..MaxReads
    BY DEF Files!Texts
<1>2. "none" \in Files!PollerSteps
    BY DEF Files!PollerSteps
<1> QED
    BY <1>1, <1>2 DEF Files!Init, Files!TypeOK

\* The registry: a context is made and removed with the mutex, and only while
\* no update is under way.
LEMMA RegistryTypeOK ==
    ASSUME FileBounds, Files!TypeOK,
           \/ Files!UpdateFileCtx \/ Files!CreateFileCtx \/ Files!GetFileContent
           \/ Files!BeginStop \/ Files!FinishStop
    PROVE  Files!TypeOK'
<1>1. CASE Files!UpdateFileCtx
    BY <1>1 DEF Files!TypeOK, Files!UpdateFileCtx, Files!MutexFree, Files!PollerSteps
<1>2. CASE Files!CreateFileCtx
    BY <1>2 DEF Files!TypeOK, Files!CreateFileCtx, Files!MutexFree, Files!PollerSteps
<1>3. CASE Files!GetFileContent
    BY <1>3 DEF Files!TypeOK, Files!GetFileContent, Files!PollerSteps
<1>4. CASE Files!BeginStop
    BY <1>4 DEF Files!TypeOK, Files!BeginStop, Files!MutexFree, Files!PollerSteps
<1>5. CASE Files!FinishStop
    BY <1>5 DEF Files!TypeOK, Files!FinishStop, Files!PollerSteps
<1> QED
    BY <1>1, <1>2, <1>3, <1>4, <1>5

\* An update works on a context that is there, and stays within its text.
LEMMA UpdaterTypeOK ==
    ASSUME FileBounds, Files!TypeOK, Files!UpdaterStep
    PROVE  Files!TypeOK'
<1>1. CASE Files!ComputeNothing
    BY <1>1 DEF Files!TypeOK, Files!ComputeNothing, Files!PollerSteps
<1>2. CASE Files!ComputeUnseen
    BY <1>2 DEF Files!TypeOK, Files!ComputeUnseen, Files!PollerSteps
<1>3. CASE Files!ComputeFirst
    BY <1>3 DEF Files!TypeOK, Files!ComputeFirst, Files!PollerSteps
<1>4. CASE Files!ComputeLast
    <2>1. text < MaxUpdates /\ text' = text + 1
        BY <1>4 DEF Files!TypeOK, Files!ComputeLast
    <2>2. text' \in Files!Texts
        BY <2>1 DEF Files!TypeOK, Files!Texts
    <2> QED
        BY <1>4, <2>2 DEF Files!TypeOK, Files!ComputeLast, Files!PollerSteps
<1>5. CASE Files!FinishUpdate
    BY <1>5 DEF Files!TypeOK, Files!FinishUpdate, Files!PollerSteps
<1> QED
    BY <1>1, <1>2, <1>3, <1>4, <1>5 DEF Files!UpdaterStep

\* The poller writes what it read, or nothing: it holds no mutex and changes
\* nothing the mutex protects.
LEMMA PollerTypeOK ==
    ASSUME FileBounds, Files!TypeOK, Files!PollerStep \/ Files!SeeStop
    PROVE  Files!TypeOK'
<1>1. CASE Files!Run
    BY <1>1 DEF Files!TypeOK, Files!Run, Files!PollerSteps
<1>2. CASE Files!Tick
    BY <1>2 DEF Files!TypeOK, Files!Tick, Files!PollerSteps
<1>3. CASE Files!MarkUpToDate
    BY <1>3 DEF Files!TypeOK, Files!MarkUpToDate, Files!PollerSteps
<1>4. CASE Files!ReadText
    <2>1. rappr' \in Files!Texts \cup {Files!Torn} /\ poller' \in Files!PollerSteps /\ poller' # "none"
        BY <1>4 DEF Files!TypeOK, Files!ReadText, Files!PollerSteps
    <2> QED
        BY <1>4, <2>1 DEF Files!TypeOK, Files!ReadText, Files!PollerSteps
<1>5. CASE Files!Truncate
    <2>1. file' \in Files!Texts \cup {Files!Torn}
        BY <1>5 DEF Files!TypeOK, Files!Truncate, Files!Texts
    <2> QED
        BY <1>5, <2>1 DEF Files!TypeOK, Files!Truncate, Files!PollerSteps
<1>6. CASE Files!Write
    BY <1>6 DEF Files!TypeOK, Files!Write, Files!PollerSteps
<1>7. CASE Files!SeeStop
    BY <1>7 DEF Files!TypeOK, Files!SeeStop, Files!PollerSteps
<1> QED
    BY <1>1, <1>2, <1>3, <1>4, <1>5, <1>6, <1>7 DEF Files!PollerStep

\* No update touches the document of a context that is not there, or that
\* RemoveAllCtx is removing (FileRegistry.mu), whatever the poller does.
THEOREM MutexHolds ==
    ASSUME FileBounds
    PROVE  Files!Spec => []Files!TypeOK
<1>1. Files!TypeOK /\ [Files!Next]_(Files!vars) => Files!TypeOK'
    <2> SUFFICES ASSUME Files!TypeOK, [Files!Next]_(Files!vars) PROVE Files!TypeOK'
        OBVIOUS
    <2>1. CASE UNCHANGED Files!vars
        BY <2>1 DEF Files!TypeOK, Files!vars
    <2> QED
        BY <2>1, RegistryTypeOK, UpdaterTypeOK, PollerTypeOK DEF Files!Next
<1> QED
    BY <1>1, FilesInit, PTL DEF Files!Spec

=============================================================================
