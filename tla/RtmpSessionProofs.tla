-------------------------- MODULE RtmpSessionProofs --------------------------
(***************************************************************************)
(* Theorems about RtmpSession, for every number of attempts and both       *)
(* roles. First its types, and that the metrics end with the socket; then  *)
(* what it promises its delegates: it tells them of a session only when    *)
(* the server granted it on this very connection, whatever packets the     *)
(* chain mistakes for others after it has lost a header; it implements     *)
(* SessionLifecycle; each function that receives finds the packet it is    *)
(* for; and neither an end nor a chain that stops leaves behind what       *)
(* nobody was told of.                                                     *)
(***************************************************************************)
EXTENDS RtmpSession, SequenceTheorems, TLAPS

\* A socket thread that has not come to its end is the one thread_ holds, and it is
\* not inside close().
ActiveIsHeld ==
  \A g \in SocketThreads :
    at[g] \notin {"unborn", "exit", "handshakeDone"} => thread = g /\ closing[g] = "no"

\* connect() starts a thread when no other runs.
ConnectsAlone ==
  at[App] = "connect" => \A g \in SocketThreads : ~Alive(g)

\* Between the test of isOpen() in sessionReady and the start of the metrics the
\* socket may be closed, but the thread that closes it has to wait for this one.
ReadyIsAwaited ==
  \A g \in SocketThreads :
    at[g] = "notifyReady" => open \/ \E t \in Threads : closing[t] = "join"

IInv == StateOK /\ ActiveIsHeld /\ ConnectsAlone /\ ReadyIsAwaited /\ MetricsEndWithSocket

\* StateOK in two halves.
PlacesOK ==
  /\ at \in [Threads -> SocketSteps \cup AppSteps \cup MediaSteps]
  /\ at[App] \in AppSteps /\ at[Media] \in MediaSteps
  /\ \A g \in SocketThreads : at[g] \in SocketSteps
  /\ closing \in [Threads -> {"no", "test", "inner", "join", "stop"}]
FlagsOK ==
  /\ open \in BOOLEAN /\ npm \in BOOLEAN /\ link \in {"none", "up", "down"}
  /\ thread \in SocketThreads \cup {NoThread}
  /\ stopped \in BOOLEAN /\ wack \in BOOLEAN
  /\ c2s \in Seq(ClientMsgs) /\ s2c \in Seq(ServerMsgs) /\ granted \in BOOLEAN
  /\ cause \subseteq {"refused", "unlisted"}
  /\ told \subseteq {"reconnect", "closed", "failed", "started", "handshake"}
  /\ wanted \in BOOLEAN /\ endedReady \in BOOLEAN

Steps == HandshakeSteps \cup CommandSteps
ClosingSteps == {"no", "test", "inner", "join", "stop"}

USE DEF HandshakeSteps, CommandSteps, FinalSteps, SocketSteps, AppSteps, MediaSteps,
        ClosingSteps, Threads

-----------------------------------------------------------------------------
(* The constants and the wire.                                             *)

LEMMA TheThreads ==
  /\ App # Media /\ App \notin SocketThreads /\ Media \notin SocketThreads
  /\ NoThread \notin Threads
BY ThreadAssumption

\* What the server answers with is a sequence of the kinds the client expects.
Kinds == {"S0", "S1", "S2", "WindowAck", "SetPeerBW", "SetChunkSize", "ConnectResult",
          "CreateStreamResult", "OnStatus", "StreamBegin", "SampleAccess"}

LEMMA KindsAreExpected == Kinds = {Expected[l] : l \in DOMAIN Expected}
BY DEF Kinds, Expected

LEMMA RepliesType ==
  ASSUME NEW msg \in ClientMsgs
  PROVE  Replies[msg] \in Seq(Kinds)
<1>1. CASE msg = "C0"
  <2>1. Replies[msg] = <<"S0">>
    BY <1>1 DEF Replies
  <2> QED BY <2>1 DEF Kinds
<1>2. CASE msg = "C1"
  <2>1. Replies[msg] = <<"S1">>
    BY <1>2 DEF Replies
  <2> QED BY <2>1 DEF Kinds
<1>3. CASE msg = "C2"
  <2>1. Replies[msg] = <<"S2">>
    BY <1>3 DEF Replies
  <2> QED BY <2>1 DEF Kinds
<1>4. CASE msg = "SetChunkSize"
  <2>1. Replies[msg] = <<>>
    BY <1>4 DEF Replies
  <2> QED BY <2>1 DEF Kinds
<1>5. CASE msg = "Connect"
  <2>1. Replies[msg] = <<"WindowAck", "SetPeerBW", "SetChunkSize", "ConnectResult">>
    BY <1>5 DEF Replies
  <2> QED BY <2>1 DEF Kinds
<1>6. CASE msg = "WindowAck"
  <2>1. Replies[msg] = <<>>
    BY <1>6 DEF Replies
  <2> QED BY <2>1 DEF Kinds
<1>7. CASE msg = "CreateStream"
  <2>1. Replies[msg] = <<"CreateStreamResult">>
    BY <1>7 DEF Replies
  <2> QED BY <2>1 DEF Kinds
<1>8. CASE msg = "Publish"
  <2>1. Replies[msg] = <<"OnStatus">>
    BY <1>8 DEF Replies
  <2> QED BY <2>1 DEF Kinds
<1>9. CASE msg = "Play"
  <2>1. Replies[msg] = <<"StreamBegin", "OnStatus", "SampleAccess">>
    BY <1>9 DEF Replies
  <2> QED BY <2>1 DEF Kinds
<1>10. CASE msg = "CloseStream"
  <2>1. Replies[msg] = <<>>
    BY <1>10 DEF Replies
  <2> QED BY <2>1 DEF Kinds
<1> QED BY <1>1, <1>2, <1>3, <1>4, <1>5, <1>6, <1>7, <1>8, <1>9, <1>10 DEF ClientMsgs

-----------------------------------------------------------------------------
(* The steps of the chain preserve the invariant whatever they send or     *)
(* receive, as long as they go on to a step the invariant says nothing of. *)

LEMMA FailsKeepsIInv ==
  ASSUME IInv, NEW g \in SocketThreads, NEW l \in Steps, At(g, l), Fails(g, l)
  PROVE  IInv'
<1>1. Unwound(l) \in {"handshakeDone", "exit"}
  BY DEF Unwound
<1>2. StateOK'
  BY <1>1, TheThreads DEF IInv, StateOK, Fails, checkError, Go, wireVars, sessionFlags, appVars
<1>3. /\ at' = [at EXCEPT ![g] = Unwound(l)]
      /\ closing' \in {closing, [closing EXCEPT ![g] = "test"]}
      /\ UNCHANGED <<open, thread, npm>>
  BY DEF Fails, checkError, Go
<1>4. ActiveIsHeld'
  BY <1>1, <1>3 DEF IInv, StateOK, ActiveIsHeld
<1>5. ConnectsAlone'
  BY <1>1, <1>3, TheThreads DEF IInv, StateOK, ConnectsAlone, Alive, At, Steps
<1>6. ReadyIsAwaited'
  BY <1>1, <1>3, TheThreads DEF IInv, StateOK, ReadyIsAwaited, At
<1>7. MetricsEndWithSocket'
  BY <1>3, TheThreads DEF IInv, StateOK, MetricsEndWithSocket, At
<1> QED BY <1>2, <1>4, <1>5, <1>6, <1>7 DEF IInv

\* A step of the chain that succeeds: only the wire changes besides at[g].
Passive == SocketSteps \ {"unborn", "notifyReady"}

LEMMA MovesKeepIInv ==
  ASSUME IInv, NEW g \in SocketThreads, At(g, at[g]), at[g] \notin {"unborn", "exit"},
         NEW next \in Passive,
         at[g] = "handshakeDone" => next = "exit",
         Go(g, next), UNCHANGED <<open, thread, closing, npm>>, StateOK'
  PROVE  IInv'
<1>1. at' = [at EXCEPT ![g] = next]
  BY DEF Go
<1>2. ActiveIsHeld'
  BY <1>1 DEF IInv, StateOK, ActiveIsHeld, Passive
<1>3. ConnectsAlone'
  BY <1>1, TheThreads DEF IInv, StateOK, ConnectsAlone, Alive
<1>4. ReadyIsAwaited'
  BY <1>1, TheThreads DEF IInv, StateOK, ReadyIsAwaited, Passive
<1>5. MetricsEndWithSocket'
  BY DEF IInv, MetricsEndWithSocket
<1> QED BY <1>2, <1>3, <1>4, <1>5 DEF IInv

LEMMA FindsItClosedKeepsIInv ==
  ASSUME IInv, NEW g \in SocketThreads, NEW l \in Steps, At(g, l), FindsItClosed(g, l)
  PROVE  IInv'
<1>1. Unwound(l) \in {"handshakeDone", "exit"}
  BY DEF Unwound
<1>2. StateOK'
  BY <1>1, TheThreads DEF IInv, StateOK, FindsItClosed, Go, socketVars, wireVars, sessionFlags, appVars
<1>3. Go(g, Unwound(l)) /\ UNCHANGED <<open, thread, closing, npm>>
  BY DEF FindsItClosed, socketVars
<1> QED BY <1>1, <1>2, <1>3, MovesKeepIInv DEF At, Steps, Passive

LEMMA SendKeepsIInv ==
  ASSUME IInv, NEW g \in SocketThreads, NEW l \in Steps, NEW msg \in ClientMsgs,
         NEW next \in Passive, SendStep(g, l, msg, next)
  PROVE  IInv'
<1>1. CASE Fails(g, l)
  BY <1>1, FailsKeepsIInv DEF SendStep
<1>2. CASE FindsItClosed(g, l)
  BY <1>2, FindsItClosedKeepsIInv DEF SendStep
<1>3. CASE /\ c2s' = IF link = "up" THEN Append(c2s, msg) ELSE c2s
           /\ Go(g, next)
           /\ UNCHANGED <<socketVars, sessionFlags, s2c, granted, cause, told, appVars>>
  <2>1. At(g, l)
    BY DEF SendStep
  <2>2. StateOK'
    BY <1>3, TheThreads DEF IInv, StateOK, Go, Passive, socketVars, sessionFlags, appVars
  <2> QED BY <1>3, <2>1, <2>2, MovesKeepIInv DEF At, Steps, socketVars
<1> QED BY <1>1, <1>2, <1>3 DEF SendStep

LEMMA ReceiveKeepsIInv ==
  ASSUME IInv, NEW g \in SocketThreads, NEW l \in Steps,
         NEW next \in Passive, NEW refused \in Passive, ReceiveStep(g, l, next, refused)
  PROVE  IInv'
<1>1. CASE Fails(g, l)
  BY <1>1, FailsKeepsIInv DEF ReceiveStep
<1>2. CASE FindsItClosed(g, l)
  BY <1>2, FindsItClosedKeepsIInv DEF ReceiveStep
<1>3. CASE /\ s2c # <<>>
           /\ s2c' = Tail(s2c)
           /\ Go(g, IF Accepts(l, Head(s2c)) THEN next ELSE refused)
           /\ UNCHANGED <<socketVars, sessionFlags, c2s, granted, cause, told, appVars>>
  <2>1. At(g, l)
    BY DEF ReceiveStep
  <2>2. PICK to \in Passive : Go(g, to)
    BY <1>3
  <2>3. StateOK'
    BY <1>3, <2>2, TheThreads
    DEF IInv, StateOK, Go, Passive, socketVars, sessionFlags, appVars
  <2> QED BY <1>3, <2>1, <2>2, <2>3, MovesKeepIInv DEF At, Steps, socketVars
<1> QED BY <1>1, <1>2, <1>3 DEF ReceiveStep

LEMMA ReceiveDynamicKeepsIInv ==
  ASSUME IInv, NEW g \in SocketThreads, NEW l \in Steps, NEW next \in Passive,
         NEW refused \in Passive, NEW onEmpty \in Passive,
         ReceiveDynamicStep(g, l, next, refused, onEmpty)
  PROVE  IInv'
<1>1. CASE ReceiveStep(g, l, next, refused)
  BY <1>1, ReceiveKeepsIInv
<1>2. CASE /\ At(g, l)
           /\ cause' = cause \cup {"unlisted"}
           /\ Go(g, onEmpty)
           /\ UNCHANGED <<socketVars, sessionFlags, wireVars, told, appVars>>
  <2>1. StateOK'
    BY <1>2, TheThreads
    DEF IInv, StateOK, Go, Passive, socketVars, sessionFlags, wireVars, appVars
  <2> QED BY <1>2, <2>1, MovesKeepIInv DEF At, Steps, socketVars
<1> QED BY <1>1, <1>2 DEF ReceiveDynamicStep

-----------------------------------------------------------------------------
(* The actions of a socket thread.                                         *)

LEMMA ConnectingKeepsIInv ==
  ASSUME IInv, NEW g \in SocketThreads, resolve(g) \/ connectImpl(g)
  PROVE  IInv'
<1>1. CASE FailedToConnect(g) /\ at[g] \in {"resolve", "connectImpl"} /\ closing[g] = "no"
  <2>1. StateOK'
    BY <1>1, TheThreads DEF IInv, StateOK, FailedToConnect, Go, Tell, socketVars,
         sessionFlags, wireVars, appVars
  <2> QED BY <1>1, <2>1, MovesKeepIInv DEF FailedToConnect, At, Passive, socketVars
<1>2. CASE /\ At(g, "resolve") /\ Go(g, "connectImpl") /\ open' = TRUE
           /\ UNCHANGED <<link, thread, closing, npm, sessionFlags, wireVars, cause, told, appVars>>
  <2>1. StateOK'
    BY <1>2, TheThreads DEF IInv, StateOK, Go, sessionFlags, wireVars, appVars
  <2>2. ActiveIsHeld'
    BY <1>2, TheThreads DEF IInv, StateOK, ActiveIsHeld, Go, At
  <2>3. ConnectsAlone'
    BY <1>2, TheThreads DEF IInv, StateOK, ConnectsAlone, Alive, Go, At
  <2>4. ReadyIsAwaited' /\ MetricsEndWithSocket'
    BY <1>2 DEF ReadyIsAwaited, MetricsEndWithSocket
  <2> QED BY <2>1, <2>2, <2>3, <2>4 DEF IInv
<1>3. CASE /\ At(g, "connectImpl") /\ Go(g, "sendC0")
           /\ link' = "up" /\ c2s' = <<>> /\ s2c' = <<>> /\ granted' = FALSE
           /\ UNCHANGED <<open, thread, closing, npm, sessionFlags, cause, told, appVars>>
  <2>0. <<>> \in Seq(ClientMsgs) /\ <<>> \in Seq(ServerMsgs)
    OBVIOUS
  <2>1. StateOK'
    <3>1. PlacesOK'
      BY <1>3, TheThreads DEF IInv, StateOK, PlacesOK, Go
    <3>2. FlagsOK'
      BY <1>3, <2>0 DEF IInv, StateOK, FlagsOK, sessionFlags, appVars
    <3> QED BY <3>1, <3>2 DEF PlacesOK, FlagsOK, StateOK
  <2> QED BY <1>3, <2>1, MovesKeepIInv DEF At, Passive
<1> QED BY <1>1, <1>2, <1>3 DEF resolve, connectImpl, At

LEMMA HandshakeKeepsIInv ==
  ASSUME IInv, NEW g \in SocketThreads, handshake(g)
  PROVE  IInv'
<1>1. CASE sendC0(g) \/ sendC1(g) \/ sendC2(g)
  BY <1>1, SendKeepsIInv DEF sendC0, sendC1, sendC2, Steps, Passive, ClientMsgs
<1>2. CASE receiveS0(g) \/ receiveS1(g) \/ receiveS2(g)
  BY <1>2, ReceiveKeepsIInv DEF receiveS0, receiveS1, receiveS2, Steps, Passive
<1>3. CASE handshakeDone(g)
  <2>1. StateOK'
    BY <1>3, TheThreads DEF IInv, StateOK, handshakeDone, Go, Tell, socketVars,
         sessionFlags, wireVars, appVars
  <2> QED BY <1>3, <2>1, MovesKeepIInv DEF handshakeDone, At, Passive, socketVars
<1> QED BY <1>1, <1>2, <1>3 DEF handshake

LEMMA ConnectChainKeepsIInv ==
  ASSUME IInv, NEW g \in SocketThreads, connectChain(g)
  PROVE  IInv'
<1>1. CASE \/ sendSetChunkSize(g) \/ sendConnectCommandMessage(g)
           \/ sendCreateStreamCommand(g)
           \/ wack /\ SendStep(g, "sendWindowAcknowledgeSize", "WindowAck", "receiveSetChunkSize")
  BY <1>1, SendKeepsIInv DEF sendSetChunkSize, sendConnectCommandMessage,
       sendCreateStreamCommand, Steps, Passive, ClientMsgs
<1>2. CASE receiveSetPeerBandWidth(g) \/ receiveSetChunkSize(g)
  BY <1>2, ReceiveKeepsIInv DEF receiveSetPeerBandWidth, receiveSetChunkSize, Steps, Passive
<1>3. CASE receiveConnectionCommandResponse(g)
  BY <1>3, ReceiveDynamicKeepsIInv DEF receiveConnectionCommandResponse, Steps, Passive
<1>4. CASE /\ ~wack /\ At(g, "sendWindowAcknowledgeSize") /\ Go(g, "handshakeDone")
           /\ UNCHANGED <<socketVars, sessionFlags, wireVars, cause, told, appVars>>
  <2>1. StateOK'
    BY <1>4, TheThreads DEF IInv, StateOK, Go, socketVars, sessionFlags, wireVars, appVars
  <2> QED BY <1>4, <2>1, MovesKeepIInv DEF At, Passive, socketVars
<1>5. CASE receiveWindowAcknowledgeSize(g)
  <2> DEFINE l == "receiveWindowAcknowledgeSize"
  <2>1. CASE Fails(g, l) \/ FindsItClosed(g, l)
    BY <1>5, <2>1, FailsKeepsIInv, FindsItClosedKeepsIInv
    DEF receiveWindowAcknowledgeSize, Steps
  <2>2. CASE /\ s2c # <<>> /\ s2c' = Tail(s2c)
             /\ wack' = Head(s2c).ok
             /\ Go(g, "receiveSetPeerBandWidth")
             /\ UNCHANGED <<socketVars, stopped, c2s, granted, cause, told, appVars>>
    <3>1. Head(s2c) \in ServerMsgs /\ Tail(s2c) \in Seq(ServerMsgs)
      BY <2>2 DEF IInv, StateOK
    <3>2. wack' \in BOOLEAN
      BY <2>2, <3>1 DEF ServerMsgs
    <3>3. StateOK'
      BY <2>2, <3>1, <3>2, TheThreads DEF IInv, StateOK, Go, socketVars, appVars
    <3> QED BY <1>5, <2>2, <3>3, MovesKeepIInv
            DEF receiveWindowAcknowledgeSize, At, Passive, socketVars
  <2> QED BY <1>5, <2>1, <2>2 DEF receiveWindowAcknowledgeSize
<1> QED BY <1>1, <1>2, <1>3, <1>4, <1>5 DEF connectChain, sendWindowAcknowledgeSize

LEMMA BroadcasterChainKeepsIInv ==
  ASSUME IInv, NEW g \in SocketThreads, broadcasterChain(g)
  PROVE  IInv'
<1>1. CASE connectChain(g)
  BY <1>1, ConnectChainKeepsIInv
<1>2. CASE receiveCreateStreamCommandResponse(g, "sendPublishCommand")
  BY <1>2, ReceiveDynamicKeepsIInv DEF receiveCreateStreamCommandResponse, Steps, Passive
<1>3. CASE sendPublishCommand(g)
  BY <1>3, SendKeepsIInv DEF sendPublishCommand, Steps, Passive, ClientMsgs
<1>4. CASE receiveOnStatusCommandResponse(g)
  BY <1>4, ReceiveDynamicKeepsIInv DEF receiveOnStatusCommandResponse, Steps, Passive
<1> QED BY <1>1, <1>2, <1>3, <1>4 DEF broadcasterChain

LEMMA WatcherChainKeepsIInv ==
  ASSUME IInv, NEW g \in SocketThreads, watcherChain(g)
  PROVE  IInv'
<1>1. CASE connectChain(g)
  BY <1>1, ConnectChainKeepsIInv
<1>2. CASE receiveCreateStreamCommandResponse(g, "sendPlayCommandMessage")
  BY <1>2, ReceiveDynamicKeepsIInv DEF receiveCreateStreamCommandResponse, Steps, Passive
<1>3. CASE sendPlayCommandMessage(g)
  BY <1>3, SendKeepsIInv DEF sendPlayCommandMessage, Steps, Passive, ClientMsgs
<1>4. CASE receiveStreamBeginMessage(g)
  BY <1>4, ReceiveDynamicKeepsIInv DEF receiveStreamBeginMessage, Steps, Passive
<1>5. CASE receivePlayOnStatusCommandMessageResponse(g)
  BY <1>5, ReceiveDynamicKeepsIInv DEF receivePlayOnStatusCommandMessageResponse, Steps, Passive
<1>6. CASE receiveRtmpSampleAccessMessage(g)
  BY <1>6, ReceiveDynamicKeepsIInv DEF receiveRtmpSampleAccessMessage, Steps, Passive
<1>7. CASE startMediaPacketRetriever(g)
  <2>1. PICK m \in {"loop", at[Media]} :
          at' = [at EXCEPT ![g] = "handshakeDone", ![Media] = m]
    BY <1>7 DEF startMediaPacketRetriever
  <2>2. At(g, "startMediaPacketRetriever")
        /\ UNCHANGED <<open, thread, closing, npm>>
    BY <1>7 DEF startMediaPacketRetriever, socketVars
  <2>3. StateOK'
    <3>1. PlacesOK'
      BY <2>1, <2>2, TheThreads DEF IInv, StateOK, PlacesOK
    <3>2. FlagsOK'
      BY <1>7 DEF IInv, StateOK, FlagsOK, startMediaPacketRetriever, socketVars, wireVars, appVars
    <3> QED BY <3>1, <3>2 DEF PlacesOK, FlagsOK, StateOK
  <2>4. ActiveIsHeld'
    BY <2>1, <2>2, TheThreads DEF IInv, StateOK, ActiveIsHeld
  <2>5. ConnectsAlone'
    BY <2>1, <2>2, TheThreads DEF IInv, StateOK, ConnectsAlone, Alive, At
  <2>6. ReadyIsAwaited' /\ MetricsEndWithSocket'
    BY <2>1, <2>2, TheThreads DEF IInv, StateOK, ReadyIsAwaited, MetricsEndWithSocket
  <2> QED BY <2>3, <2>4, <2>5, <2>6 DEF IInv
<1> QED BY <1>1, <1>2, <1>3, <1>4, <1>5, <1>6, <1>7 DEF watcherChain

LEMMA StatusRefusedKeepsIInv ==
  ASSUME IInv, NEW g \in SocketThreads, statusRefused(g)
  PROVE  IInv'
<1>1. StateOK'
  BY TheThreads DEF IInv, StateOK, statusRefused, Go, Tell, sessionFlags, wireVars, appVars
<1>2. ActiveIsHeld'
  BY TheThreads DEF IInv, StateOK, ActiveIsHeld, statusRefused, Go
<1>3. ConnectsAlone'
  BY TheThreads DEF IInv, StateOK, ConnectsAlone, Alive, statusRefused, Go, At
<1>4. ReadyIsAwaited'
  BY TheThreads DEF IInv, StateOK, ReadyIsAwaited, statusRefused, Go, At
<1>5. MetricsEndWithSocket'
  BY TheThreads DEF IInv, StateOK, MetricsEndWithSocket, statusRefused, Go, At
<1> QED BY <1>1, <1>2, <1>3, <1>4, <1>5 DEF IInv

\* The metrics start although the socket may have been closed since isOpen() was
\* tested: ReadyIsAwaited says who will stop them.
LEMMA SessionReadyKeepsIInv ==
  ASSUME IInv, NEW g \in SocketThreads, sessionReady(g)
  PROVE  IInv'
<1> AfterReady \in Passive
  BY DEF AfterReady, Passive
<1>1. CASE /\ At(g, "sessionReady")
           /\ Go(g, IF open THEN "notifyReady" ELSE AfterReady)
           /\ UNCHANGED <<socketVars, sessionFlags, wireVars, cause, told, appVars>>
  <2>1. StateOK'
    BY <1>1, TheThreads DEF IInv, StateOK, Passive, Go, socketVars, sessionFlags, wireVars, appVars
  <2>2. ActiveIsHeld'
    BY <1>1 DEF IInv, StateOK, ActiveIsHeld, Go, At, socketVars, Passive
  <2>3. ConnectsAlone'
    BY <1>1, TheThreads DEF IInv, StateOK, ConnectsAlone, Alive, Go, At, socketVars
  <2>4. ReadyIsAwaited' /\ MetricsEndWithSocket'
    BY <1>1 DEF IInv, StateOK, ReadyIsAwaited, MetricsEndWithSocket, Go, socketVars, Passive
  <2> QED BY <2>1, <2>2, <2>3, <2>4 DEF IInv
<1>2. CASE /\ At(g, "notifyReady")
           /\ npm' = TRUE /\ Tell({"started"}) /\ Go(g, AfterReady)
           /\ UNCHANGED <<open, link, thread, closing, sessionFlags, wireVars, cause, appVars>>
  <2>1. StateOK'
    BY <1>2, TheThreads DEF IInv, StateOK, Passive, Go, Tell, sessionFlags, wireVars, appVars
  <2>2. ActiveIsHeld'
    BY <1>2 DEF IInv, StateOK, ActiveIsHeld, Go, At, Passive
  <2>3. ConnectsAlone'
    BY <1>2, TheThreads DEF IInv, StateOK, ConnectsAlone, Alive, Go, At
  <2>4. ReadyIsAwaited'
    BY <1>2 DEF IInv, StateOK, ReadyIsAwaited, Go, Passive
  <2>5. MetricsEndWithSocket'
    BY <1>2 DEF IInv, ReadyIsAwaited, MetricsEndWithSocket, At
  <2> QED BY <2>1, <2>2, <2>3, <2>4, <2>5 DEF IInv
<1> QED BY <1>1, <1>2 DEF sessionReady

-----------------------------------------------------------------------------
(* BaseSocket::close, whichever thread is in it.                           *)

LEMMA CloseKeepsIInv ==
  ASSUME IInv, NEW t \in Threads, close(t)
  PROVE  IInv'
<1>1. CASE CloseTest(t)
  <2>1. StateOK'
    BY <1>1 DEF IInv, StateOK, CloseTest, sessionFlags, wireVars, appVars
  <2>2. ActiveIsHeld' /\ ReadyIsAwaited' /\ MetricsEndWithSocket'
    BY <1>1 DEF IInv, StateOK, CloseTest, ActiveIsHeld, ReadyIsAwaited, MetricsEndWithSocket
  <2>3. ConnectsAlone'
    BY <1>1 DEF IInv, StateOK, CloseTest, ConnectsAlone, Alive
  <2> QED BY <2>1, <2>2, <2>3 DEF IInv
<1>2. CASE CloseInner(t)
  <2>0. <<>> \in Seq(ClientMsgs) /\ <<>> \in Seq(ServerMsgs)
    OBVIOUS
  <2>1. StateOK'
    <3>1. PlacesOK'
      BY <1>2 DEF IInv, StateOK, PlacesOK, CloseInner
    <3>2. FlagsOK'
      BY <1>2, <2>0 DEF IInv, StateOK, FlagsOK, CloseInner, Tell, sessionFlags, appVars
    <3> QED BY <3>1, <3>2 DEF PlacesOK, FlagsOK, StateOK
  <2>2. ActiveIsHeld'
    BY <1>2 DEF IInv, StateOK, CloseInner, ActiveIsHeld
  <2>3. closing'[t] = "join"
    BY <1>2 DEF IInv, StateOK, CloseInner
  <2>4. ReadyIsAwaited' /\ MetricsEndWithSocket'
    BY <2>3 DEF ReadyIsAwaited, MetricsEndWithSocket
  <2>5. ConnectsAlone'
    BY <1>2 DEF IInv, StateOK, CloseInner, ConnectsAlone, Alive
  <2> QED BY <2>1, <2>2, <2>4, <2>5 DEF IInv
<1>3. CASE CloseJoin(t)
  <2>1. StateOK'
    BY <1>3 DEF IInv, StateOK, CloseJoin, sessionFlags, wireVars, appVars
  \* the thread whose place is not the end would be thread_, and alive
  <2>2. ASSUME NEW g \in SocketThreads, at[g] \notin {"unborn", "exit", "handshakeDone"}
        PROVE  FALSE
    BY <1>3, <2>2, TheThreads DEF IInv, StateOK, CloseJoin, ActiveIsHeld, Alive
  <2>3. ActiveIsHeld' /\ ReadyIsAwaited'
    BY <1>3, <2>2 DEF CloseJoin, ActiveIsHeld, ReadyIsAwaited
  <2>4. ConnectsAlone'
    BY <1>3 DEF IInv, StateOK, CloseJoin, ConnectsAlone, Alive
  <2>5. closing'[t] = "stop"
    BY <1>3 DEF IInv, StateOK, CloseJoin
  <2>6. MetricsEndWithSocket'
    BY <2>5 DEF MetricsEndWithSocket
  <2> QED BY <2>1, <2>3, <2>4, <2>6 DEF IInv
<1>4. CASE CloseStop(t)
  <2>1. StateOK'
    <3>1. PlacesOK'
      BY <1>4 DEF IInv, StateOK, PlacesOK, CloseStop
    <3>2. FlagsOK'
      BY <1>4 DEF IInv, StateOK, FlagsOK, CloseStop, sessionFlags, wireVars, appVars
    <3> QED BY <3>1, <3>2 DEF PlacesOK, FlagsOK, StateOK
  <2>2. ActiveIsHeld' /\ ReadyIsAwaited'
    BY <1>4 DEF IInv, StateOK, CloseStop, ActiveIsHeld, ReadyIsAwaited
  <2>3. ConnectsAlone'
    BY <1>4 DEF IInv, StateOK, CloseStop, ConnectsAlone, Alive
  <2>4. MetricsEndWithSocket'
    BY <1>4 DEF CloseStop, MetricsEndWithSocket
  <2> QED BY <2>1, <2>2, <2>3, <2>4 DEF IInv
<1> QED BY <1>1, <1>2, <1>3, <1>4 DEF close

-----------------------------------------------------------------------------
(* The media thread, the application thread and the server leave the places *)
(* of the socket threads alone, connect() excepted.                         *)

\* A step that changes neither a socket thread's place nor what closes the socket.
LEMMA OthersKeepIInv ==
  ASSUME IInv, NEW t \in {App, Media}, NEW l \in AppSteps \cup MediaSteps,
         t = App => l # "connect",
         closing[t] = "no",
         at' \in {at, [at EXCEPT ![t] = l]},
         closing' \in {closing, [closing EXCEPT ![t] = "test"]},
         UNCHANGED <<open, thread, npm>>, StateOK'
  PROVE  IInv'
<1>1. ActiveIsHeld'
  BY TheThreads DEF IInv, StateOK, ActiveIsHeld
<1>2. ConnectsAlone'
  BY TheThreads DEF IInv, StateOK, ConnectsAlone, Alive
<1>3. \A u \in Threads : closing[u] \in {"join", "stop"} => closing'[u] = closing[u]
  BY DEF IInv, StateOK
<1>4. \A g \in SocketThreads : at'[g] = at[g]
  BY TheThreads DEF IInv, StateOK
<1>5. ReadyIsAwaited'
  BY <1>3, <1>4 DEF IInv, ReadyIsAwaited
<1>6. MetricsEndWithSocket'
  BY <1>3 DEF IInv, MetricsEndWithSocket
<1> QED BY <1>1, <1>2, <1>5, <1>6 DEF IInv

LEMMA MediaKeepsIInv ==
  ASSUME IInv, MediaThread \/ sendMediaMessage
  PROVE  IInv'
<1>1. CASE retrieve
  <2>1. at' \in {at, [at EXCEPT ![Media] = "loop"], [at EXCEPT ![Media] = "rest"]}
    BY <1>1 DEF retrieve, Go
  <2>2. closing' \in {closing, [closing EXCEPT ![Media] = "test"]}
    BY <1>1 DEF retrieve, checkError
  <2>3. StateOK'
    <3>1. PlacesOK'
      BY <2>1, <2>2, TheThreads DEF IInv, StateOK, PlacesOK
    <3>2. told' \in {told, told \cup {"reconnect"}} /\ s2c' \in {s2c, Tail(s2c)}
          /\ (s2c' # s2c => s2c # <<>>)
      BY <1>1 DEF retrieve, checkError
    <3>3. s2c' \in Seq(ServerMsgs)
      BY <3>2, SMTT(60) DEF IInv, StateOK
    <3>4. FlagsOK'
      BY <1>1, <3>2, <3>3 DEF IInv, StateOK, FlagsOK, retrieve, sessionFlags, appVars
    <3> QED BY <3>1, <3>4 DEF PlacesOK, FlagsOK, StateOK
  <2>4. closing[Media] = "no" /\ UNCHANGED <<open, thread, npm>>
    BY <1>1 DEF retrieve, At
  <2>5. PICK l \in {"loop", "rest"} : at' \in {at, [at EXCEPT ![Media] = l]}
    BY <2>1
  <2> QED BY <2>2, <2>3, <2>4, <2>5, OthersKeepIInv, TheThreads
<1>2. CASE retrieverEnds
  <2>1. StateOK'
    BY <1>2, TheThreads DEF IInv, StateOK, retrieverEnds, Go, socketVars, sessionFlags,
         wireVars, appVars
  <2> QED BY <1>2, <2>1, OthersKeepIInv, TheThreads DEF retrieverEnds, At, Go, socketVars
<1>3. CASE mediaMessageSent
  <2>1. PICK m \in {"off", "close"} : at' = [at EXCEPT ![Media] = m]
    BY <1>3 DEF mediaMessageSent, Go
  <2>2. closing' \in {closing, [closing EXCEPT ![Media] = "test"]}
    BY <1>3 DEF mediaMessageSent, checkError
  <2>3. StateOK'
    <3>1. PlacesOK'
      BY <2>1, <2>2, TheThreads DEF IInv, StateOK, PlacesOK
    <3>2. FlagsOK'
      BY <1>3 DEF IInv, StateOK, FlagsOK, mediaMessageSent, checkError, sessionFlags,
           wireVars, appVars
    <3> QED BY <3>1, <3>2 DEF PlacesOK, FlagsOK, StateOK
  <2> QED BY <1>3, <2>1, <2>2, <2>3, OthersKeepIInv, TheThreads DEF mediaMessageSent, At
<1>4. CASE closeAfterMediaError
  <2>1. StateOK'
    BY <1>4, TheThreads DEF IInv, StateOK, closeAfterMediaError, Go, sessionFlags, wireVars, appVars
  <2> QED BY <1>4, <2>1, OthersKeepIInv, TheThreads DEF closeAfterMediaError, At, Go
<1>5. CASE sendMediaMessage
  <2>1. StateOK'
    BY <1>5, TheThreads DEF IInv, StateOK, sendMediaMessage, Go, socketVars, sessionFlags,
         wireVars, appVars
  <2> QED BY <1>5, <2>1, OthersKeepIInv, TheThreads DEF sendMediaMessage, At, Go, socketVars
<1>6. CASE close(Media)
  BY <1>6, CloseKeepsIInv
<1> QED BY <1>1, <1>2, <1>3, <1>4, <1>5, <1>6 DEF MediaThread

\* The application starts a session only when no socket thread runs.
LEMMA PatientStartKeepsIInv ==
  ASSUME IInv, PatientStart
  PROVE  IInv'
<1>1. StateOK'
  BY TheThreads DEF IInv, StateOK, PatientStart, start, Go, sessionFlags, wireVars
<1>2. ActiveIsHeld'
  BY TheThreads DEF IInv, StateOK, ActiveIsHeld, PatientStart, start, Go
<1>3. ConnectsAlone'
  BY TheThreads DEF IInv, StateOK, ConnectsAlone, Alive, PatientStart, start, Go
<1>4. ReadyIsAwaited' /\ MetricsEndWithSocket'
  BY TheThreads DEF IInv, StateOK, ReadyIsAwaited, MetricsEndWithSocket, PatientStart, start, Go, At
<1> QED BY <1>1, <1>2, <1>3, <1>4 DEF IInv

LEMMA ConnectKeepsIInv ==
  ASSUME IInv, NEW g \in SocketThreads, connect(g)
  PROVE  IInv'
<1>1. StateOK'
  <2>1. PlacesOK'
    BY TheThreads DEF IInv, StateOK, PlacesOK, connect
  <2>2. FlagsOK'
    BY DEF IInv, StateOK, FlagsOK, connect, sessionFlags, wireVars
  <2> QED BY <2>1, <2>2 DEF PlacesOK, FlagsOK, StateOK
<1>2. \A h \in SocketThreads : ~Alive(h)
  BY DEF IInv, ConnectsAlone, connect, At
<1>3. ActiveIsHeld'
  BY <1>2, TheThreads DEF IInv, StateOK, ActiveIsHeld, Alive, connect
<1>4. ConnectsAlone'
  BY TheThreads DEF IInv, StateOK, ConnectsAlone, connect
<1>5. ReadyIsAwaited' /\ MetricsEndWithSocket'
  BY TheThreads DEF IInv, StateOK, ReadyIsAwaited, MetricsEndWithSocket, connect
<1> QED BY <1>1, <1>3, <1>4, <1>5 DEF IInv

LEMMA AppKeepsIInv ==
  ASSUME IInv, end \/ AppThread
  PROVE  IInv'
<1>1. CASE endBroadcaster \/ endWatcher
  <2>1. PICK l \in AppSteps \ {"connect"} : at' = [at EXCEPT ![App] = l]
    BY <1>1 DEF endBroadcaster, endWatcher, Go
  <2>2. UNCHANGED <<open, thread, npm, closing>> /\ closing[App] = "no"
    BY <1>1 DEF endBroadcaster, endWatcher, Ending, At, socketVars
  <2>3. StateOK'
    <3>1. PlacesOK'
      BY <2>1, <2>2, TheThreads DEF IInv, StateOK, PlacesOK
    <3>2. FlagsOK'
      BY <1>1 DEF IInv, StateOK, FlagsOK, endBroadcaster, endWatcher, Ending, socketVars,
           sessionFlags, wireVars
    <3> QED BY <3>1, <3>2 DEF PlacesOK, FlagsOK, StateOK
  <2> QED BY <2>1, <2>2, <2>3, OthersKeepIInv
<1>2. CASE sendCloseStream
  <2>1. closing' \in {closing, [closing EXCEPT ![App] = "test"]}
    BY <1>2 DEF sendCloseStream, checkError
  <2>2. StateOK'
    <3>1. PlacesOK'
      BY <1>2, <2>1, TheThreads DEF IInv, StateOK, PlacesOK, sendCloseStream, Go
    <3>2. "CloseStream" \in ClientMsgs
      BY DEF ClientMsgs
    <3>3. told' \in {told, told \cup {"reconnect"}} /\ c2s' \in {c2s, Append(c2s, "CloseStream")}
      BY <1>2 DEF sendCloseStream, checkError
    <3>4. c2s' \in Seq(ClientMsgs)
      BY <3>2, <3>3 DEF IInv, StateOK
    <3>5. FlagsOK'
      BY <1>2, <3>3, <3>4 DEF IInv, StateOK, FlagsOK, sendCloseStream, sessionFlags, appVars
    <3> QED BY <3>1, <3>5 DEF PlacesOK, FlagsOK, StateOK
  <2> QED BY <1>2, <2>1, <2>2, OthersKeepIInv DEF sendCloseStream, At, Go
<1>3. CASE joinWorker
  <2>1. StateOK'
    BY <1>3, TheThreads DEF IInv, StateOK, joinWorker, Go, socketVars, sessionFlags,
         wireVars, appVars
  <2> QED BY <1>3, <2>1, OthersKeepIInv DEF joinWorker, At, Go, socketVars
<1>4. CASE endClose
  <2>1. StateOK'
    BY <1>4, TheThreads DEF IInv, StateOK, endClose, Go, sessionFlags, wireVars, appVars
  <2> QED BY <1>4, <2>1, OthersKeepIInv DEF endClose, At, Go
<1> QED BY <1>1, <1>2, <1>3, <1>4, ConnectKeepsIInv, CloseKeepsIInv DEF end, AppThread

LEMMA ServerKeepsIInv ==
  ASSUME IInv, Server
  PROVE  IInv'
<1>1. UNCHANGED <<socketVars, at>> \/ ServerDrops
  BY DEF Server, ServerReplies, ServerSendsMedia
<1>2. StateOK'
  <2>1. PlacesOK'
    BY <1>1 DEF IInv, StateOK, PlacesOK, ServerDrops, socketVars
  <2>2. CASE ServerDrops
    <3>1. FlagsOK'
      BY <2>2 DEF IInv, StateOK, FlagsOK, ServerDrops, sessionFlags, wireVars, appVars
    <3> QED BY <2>1, <3>1 DEF PlacesOK, FlagsOK, StateOK
  <2>3. CASE ServerSendsMedia
    <3>1. [kind |-> "Media", ok |-> TRUE] \in ServerMsgs
      BY DEF ServerMsgs
    <3>2. FlagsOK'
      BY <2>3, <3>1 DEF IInv, StateOK, FlagsOK, ServerSendsMedia, socketVars, sessionFlags, appVars
    <3> QED BY <2>1, <3>2 DEF PlacesOK, FlagsOK, StateOK
  <2>4. CASE ServerReplies
    <3> DEFINE msg == Head(c2s)
    <3>1. msg \in ClientMsgs /\ Tail(c2s) \in Seq(ClientMsgs)
      BY <2>4 DEF IInv, StateOK, ServerReplies
    <3>2. PICK no \in SUBSET (Refusable \cap Range1(Replies[msg])) :
            /\ s2c' = s2c \o [i \in DOMAIN Replies[msg] |->
                                [kind |-> Replies[msg][i], ok |-> Replies[msg][i] \notin no]]
            /\ granted' = (granted \/ (msg \in {"Publish", "Play"} /\ no = {}))
            /\ cause' = IF no # {} THEN cause \cup {"refused"} ELSE cause
      BY <2>4 DEF ServerReplies
    <3> DEFINE answer == [i \in DOMAIN Replies[msg] |->
                            [kind |-> Replies[msg][i], ok |-> Replies[msg][i] \notin no]]
    <3>3. Replies[msg] \in Seq(Kinds)
      BY <3>1, RepliesType
    <3>4. \A i \in DOMAIN Replies[msg] :
            [kind |-> Replies[msg][i], ok |-> Replies[msg][i] \notin no] \in ServerMsgs
      BY <3>3, KindsAreExpected DEF ServerMsgs
    <3>5. answer \in Seq(ServerMsgs)
      <4>1. Len(Replies[msg]) \in Nat /\ DOMAIN Replies[msg] = 1 .. Len(Replies[msg])
        BY <3>3
      <4>2. answer \in [1 .. Len(Replies[msg]) -> ServerMsgs]
        BY <3>4, <4>1
      <4> QED BY <4>1, <4>2, SeqDef
    <3>6. s2c' \in Seq(ServerMsgs)
      BY <3>2, <3>5 DEF IInv, StateOK
    <3>7. granted' \in BOOLEAN
      BY <3>2
    <3>8. cause' \subseteq {"refused", "unlisted"}
      BY <3>2 DEF IInv, StateOK
    <3>9. c2s' \in Seq(ClientMsgs)
      BY <2>4, <3>1 DEF ServerReplies
    <3>10. FlagsOK'
      BY <2>4, <3>6, <3>7, <3>8, <3>9
      DEF IInv, StateOK, FlagsOK, ServerReplies, socketVars, sessionFlags, appVars
    <3> QED BY <2>1, <3>10 DEF PlacesOK, FlagsOK, StateOK
  <2> QED BY <2>2, <2>3, <2>4 DEF Server
<1>3. UNCHANGED <<open, thread, closing, npm, at>>
  BY <1>1 DEF ServerDrops, socketVars
<1> QED BY <1>2, <1>3 DEF IInv, ActiveIsHeld, ConnectsAlone, Alive, ReadyIsAwaited,
          MetricsEndWithSocket

-----------------------------------------------------------------------------
(* The theorems.                                                           *)

LEMMA InitEstablishesIInv == Init => IInv
<1> SUFFICES ASSUME Init PROVE IInv
  OBVIOUS
<1>1. /\ at[App] = "idle" /\ at[Media] = "off"
      /\ \A g \in SocketThreads : at[g] = "unborn" /\ closing[g] = "no"
  BY TheThreads DEF Init
<1>2. StateOK
  <2>1. PlacesOK
    BY <1>1, TheThreads DEF Init, PlacesOK
  <2>2. FlagsOK
    <3>1. <<>> \in Seq(ClientMsgs) /\ <<>> \in Seq(ServerMsgs)
      OBVIOUS
    <3> QED BY <3>1 DEF Init, FlagsOK
  <2> QED BY <2>1, <2>2 DEF PlacesOK, FlagsOK, StateOK
<1>3. ActiveIsHeld /\ ConnectsAlone /\ ReadyIsAwaited
  BY <1>1 DEF ActiveIsHeld, ConnectsAlone, ReadyIsAwaited
<1>4. MetricsEndWithSocket
  BY DEF Init, MetricsEndWithSocket
<1> QED BY <1>2, <1>3, <1>4 DEF IInv

LEMMA NextKeepsIInv == IInv /\ [Next]_vars => IInv'
<1> SUFFICES ASSUME IInv, [Next]_vars PROVE IInv'
  OBVIOUS
<1>1. ASSUME NEW g \in SocketThreads, SocketThread(g) PROVE IInv'
  <2>1. CASE close(g)
    BY <2>1, CloseKeepsIInv
  <2> QED BY <1>1, <2>1, ConnectingKeepsIInv, HandshakeKeepsIInv, BroadcasterChainKeepsIInv,
            WatcherChainKeepsIInv, StatusRefusedKeepsIInv, SessionReadyKeepsIInv
          DEF SocketThread
<1>2. CASE MediaThread \/ sendMediaMessage
  BY <1>2, MediaKeepsIInv
<1>3. CASE end \/ AppThread
  BY <1>3, AppKeepsIInv
<1>4. CASE Server
  BY <1>4, ServerKeepsIInv
<1>5. CASE PatientStart
  BY <1>5, PatientStartKeepsIInv
<1>6. CASE UNCHANGED vars
  BY <1>6 DEF vars, socketVars, sessionFlags, wireVars, appVars, IInv, StateOK, ActiveIsHeld,
       ConnectsAlone, Alive, ReadyIsAwaited, MetricsEndWithSocket
<1> QED BY <1>1, <1>2, <1>3, <1>4, <1>5, <1>6 DEF Next, Threaded

THEOREM Invariance == Spec => []IInv
BY InitEstablishesIInv, NextKeepsIInv, PTL DEF Spec

\* No step changes which of the two sessions this is.
LEMMA RoleStays == [Next]_vars => role' = role
<1> SUFFICES ASSUME [Next]_vars PROVE role' = role
  OBVIOUS
<1> USE DEF appVars
<1>1. ASSUME NEW t \in Threads, close(t) PROVE role' = role
  BY <1>1 DEF close, CloseTest, CloseInner, CloseJoin, CloseStop
<1>2. ASSUME NEW g, NEW l, NEW m, NEW k, SendStep(g, l, m, k) PROVE role' = role
  BY <1>2 DEF SendStep, Fails, FindsItClosed
<1>3. ASSUME NEW g, NEW l, NEW k, NEW r, ReceiveStep(g, l, k, r) PROVE role' = role
  BY <1>3 DEF ReceiveStep, Fails, FindsItClosed
<1>4. ASSUME NEW g, NEW l, NEW k, NEW r, NEW e, ReceiveDynamicStep(g, l, k, r, e) PROVE role' = role
  BY <1>3, <1>4 DEF ReceiveDynamicStep
<1>5. ASSUME NEW g \in SocketThreads, SocketThread(g) PROVE role' = role
  <2>1. CASE resolve(g) \/ connectImpl(g)
    BY <2>1 DEF resolve, connectImpl, FailedToConnect
  <2>2. CASE handshake(g)
    BY <1>2, <1>3, <2>2 DEF handshake, sendC0, sendC1, receiveS0, receiveS1, sendC2, receiveS2,
         handshakeDone
  <2>3. CASE connectChain(g)
    <3>1. CASE sendWindowAcknowledgeSize(g)
      BY <1>2, <3>1 DEF sendWindowAcknowledgeSize
    <3>2. CASE receiveWindowAcknowledgeSize(g)
      BY <3>2 DEF receiveWindowAcknowledgeSize, Fails, FindsItClosed
    <3> QED
      BY <1>2, <1>3, <1>4, <2>3, <3>1, <3>2
      DEF connectChain, sendSetChunkSize, sendConnectCommandMessage, receiveSetPeerBandWidth,
          receiveSetChunkSize, receiveConnectionCommandResponse, sendCreateStreamCommand
  <2>4. CASE broadcasterChain(g)
    BY <1>2, <1>4, <2>3, <2>4 DEF broadcasterChain, receiveCreateStreamCommandResponse,
         sendPublishCommand, receiveOnStatusCommandResponse
  <2>5. CASE watcherChain(g)
    <3>1. CASE startMediaPacketRetriever(g)
      BY <3>1 DEF startMediaPacketRetriever
    <3> QED
      BY <1>2, <1>4, <2>3, <2>5, <3>1
      DEF watcherChain, receiveCreateStreamCommandResponse, sendPlayCommandMessage,
          receiveStreamBeginMessage, receivePlayOnStatusCommandMessageResponse,
          receiveRtmpSampleAccessMessage
  <2>6. CASE statusRefused(g) \/ sessionReady(g)
    BY <2>6 DEF statusRefused, sessionReady
  <2>7. CASE close(g)
    BY <1>1, <2>7
  <2> QED BY <1>5, <2>1, <2>2, <2>4, <2>5, <2>6, <2>7 DEF SocketThread
<1>6. CASE MediaThread \/ sendMediaMessage
  BY <1>1, <1>6 DEF MediaThread, retrieve, retrieverEnds, mediaMessageSent, closeAfterMediaError,
       sendMediaMessage
<1>7. CASE end \/ AppThread
  BY <1>1, <1>7 DEF end, endBroadcaster, endWatcher, Ending, AppThread, connect, sendCloseStream,
       joinWorker, endClose
<1>8. CASE Server
  BY <1>8 DEF Server, ServerReplies, ServerSendsMedia, ServerDrops
<1>9. CASE PatientStart
  BY <1>9 DEF PatientStart, start
<1>10. CASE UNCHANGED vars
  BY <1>10 DEF vars
<1> QED BY <1>5, <1>6, <1>7, <1>8, <1>9, <1>10 DEF Next, Threaded

\* Every variable of the session keeps its type, whatever the threads, the server
\* and the network do.
THEOREM TypeCorrect == Spec => []TypeOK
<1>1. IInv /\ role \in Roles => TypeOK
  BY DEF IInv, TypeOK
<1>2. Init => role \in Roles
  BY DEF Init
<1>3. role \in Roles /\ [Next]_vars => (role \in Roles)'
  BY RoleStays
<1> QED BY <1>1, <1>2, <1>3, Invariance, PTL DEF Spec

\* The metrics thread that sessionReady starts is stopped by the close() of the socket
\* it measures, even when that close() begins between isOpen() and the start.
THEOREM MetricsAreStopped == Spec => []MetricsEndWithSocket
<1>1. IInv => MetricsEndWithSocket
  BY DEF IInv
<1> QED BY <1>1, Invariance, PTL

-----------------------------------------------------------------------------
(* What a session promises.                                                *)

USE DEF HandshakeSteps, CommandSteps, FinalSteps, SocketSteps, AppSteps, MediaSteps,
        ClosingSteps, Threads

-----------------------------------------------------------------------------
(* The invariant of the grant.                                             *)

\* The steps of the watcher's chain up to the play command.
Early == HandshakeSteps \cup
  {"sendSetChunkSize", "sendConnectCommandMessage", "receiveWindowAcknowledgeSize",
   "receiveSetPeerBandWidth", "sendWindowAcknowledgeSize", "receiveSetChunkSize",
   "receiveConnectionCommandResponse", "sendCreateStreamCommand",
   "receiveCreateStreamCommandResponse", "sendPlayCommandMessage"}

\* The server was not asked to play, and has said nothing of it, on this connection.
NoPlay   == \A i \in DOMAIN c2s : c2s[i] # "Play"
NoAnswer == \A i \in DOMAIN s2c : s2c[i].kind \notin {"OnStatus", "SampleAccess"}
Says(i, kind) == s2c[i].kind = kind /\ s2c[i].ok

\* A broadcaster asks to publish only, and one good status is the grant.
PublishIsGranted ==
  role = "broadcaster" =>
    /\ NoPlay
    /\ \A i \in DOMAIN s2c : Says(i, "OnStatus") => granted

\* A watcher asks once, so that a good status and the access that follows it answer
\* the same command: it is the two together that are the grant.
PlayIsGranted ==
  role = "watcher" =>
    /\ \A i \in DOMAIN c2s : c2s[i] # "Publish"
    /\ \A i \in DOMAIN c2s : c2s[i] = "Play" =>
         NoAnswer /\ \A k \in DOMAIN c2s : c2s[k] = "Play" => k = i
    /\ \A i, j \in DOMAIN s2c :
         i < j /\ Says(i, "OnStatus") /\ Says(j, "SampleAccess") => granted

\* What the place of thread g in the chain says of the wire and of the grant.
PlaceIsGranted(g) ==
  /\ role = "watcher" /\ at[g] \in Early => NoPlay /\ NoAnswer
  /\ role = "watcher" /\ at[g] = "receiveRtmpSampleAccessMessage" =>
       NoPlay /\ \A i \in DOMAIN s2c : Says(i, "SampleAccess") => granted
  /\ at[g] \in {"sessionReady", "notifyReady"} => granted

Grants ==
  PublishIsGranted /\ PlayIsGranted /\ \A g \in SocketThreads : PlaceIsGranted(g)

-----------------------------------------------------------------------------
(* Steps that ask for nothing new.                                         *)

\* Where the invariant says something of the wire, and how a thread may go there
\* without looking at what it received.
Guarded == Early \cup {"receiveRtmpSampleAccessMessage", "sessionReady", "notifyReady"}
Onward(l, k) ==
  \/ k = l
  \/ k \notin Guarded
  \/ l \in Early /\ k \in Early
  \/ l = "sessionReady" /\ k = "notifyReady"

\* A step consumes a message, clears the wire, or sends what is no publish or play.
Plain(msg) == msg # "Play" /\ (role = "watcher" => msg # "Publish")
QuietWire ==
  \/ UNCHANGED <<c2s, s2c>>
  \/ c2s' = <<>> /\ s2c' = <<>>
  \/ c2s' = c2s /\ s2c # <<>> /\ s2c' = Tail(s2c)
  \/ s2c' = s2c /\ \E msg \in ClientMsgs : Plain(msg) /\ c2s' = Append(c2s, msg)

\* Every message in flight after such a step was in flight before, in the same order,
\* or is one that was just sent.
LEMMA QuietWireKeepsOrder ==
  ASSUME StateOK, QuietWire
  PROVE  /\ \E d \in {0, 1} : \A j \in DOMAIN s2c' :
              j + d \in DOMAIN s2c /\ s2c'[j] = s2c[j + d]
         /\ \A i \in DOMAIN c2s' :
              (i \in DOMAIN c2s /\ c2s'[i] = c2s[i]) \/ Plain(c2s'[i])
         /\ DOMAIN s2c' \subseteq Nat /\ DOMAIN c2s' \subseteq Nat
<1>0. c2s \in Seq(ClientMsgs) /\ s2c \in Seq(ServerMsgs)
  BY DEF StateOK
<1>1. CASE UNCHANGED <<c2s, s2c>>
  <2>1. \A j \in DOMAIN s2c' : j + 0 \in DOMAIN s2c /\ s2c'[j] = s2c[j + 0]
    BY <1>0, <1>1
  <2> QED BY <1>0, <1>1, <2>1
<1>2. CASE c2s' = <<>> /\ s2c' = <<>>
  BY <1>2
<1>3. CASE c2s' = c2s /\ s2c # <<>> /\ s2c' = Tail(s2c)
  <2>1. \A j \in DOMAIN s2c' : j + 1 \in DOMAIN s2c /\ s2c'[j] = s2c[j + 1]
    BY <1>0, <1>3
  <2>2. DOMAIN s2c' \subseteq Nat
    BY <1>0, <1>3
  <2> QED BY <1>0, <1>3, <2>1, <2>2
<1>4. CASE s2c' = s2c /\ \E msg \in ClientMsgs : Plain(msg) /\ c2s' = Append(c2s, msg)
  <2>1. PICK msg \in ClientMsgs : Plain(msg) /\ c2s' = Append(c2s, msg)
    BY <1>4
  <2>2. \A j \in DOMAIN s2c' : j + 0 \in DOMAIN s2c /\ s2c'[j] = s2c[j + 0]
    BY <1>0, <1>4
  <2>3. \A i \in DOMAIN c2s' : (i \in DOMAIN c2s /\ c2s'[i] = c2s[i]) \/ c2s'[i] = msg
    BY <1>0, <2>1
  <2> QED BY <1>0, <1>4, <2>1, <2>2, <2>3
<1> QED BY <1>1, <1>2, <1>3, <1>4 DEF QuietWire

LEMMA QuietKeepsGrants ==
  ASSUME StateOK, Grants, QuietWire, role' = role, granted' = granted,
         \A g \in SocketThreads : Onward(at[g], at'[g]) \/ PlaceIsGranted(g)'
  PROVE  Grants'
<1>1. PICK d \in {0, 1} : \A j \in DOMAIN s2c' :
               j + d \in DOMAIN s2c /\ s2c'[j] = s2c[j + d]
  BY QuietWireKeepsOrder
<1>2. \A i \in DOMAIN c2s' : (i \in DOMAIN c2s /\ c2s'[i] = c2s[i]) \/ Plain(c2s'[i])
  BY QuietWireKeepsOrder
<1>3. DOMAIN s2c' \subseteq Nat
  BY QuietWireKeepsOrder
<1>4. /\ NoPlay => NoPlay'
      /\ NoAnswer => NoAnswer'
  BY <1>1, <1>2 DEF NoPlay, NoAnswer, Plain
<1>5. ASSUME NEW kind, \A j \in DOMAIN s2c : Says(j, kind) => granted
      PROVE  (\A j \in DOMAIN s2c : Says(j, kind) => granted)'
  BY <1>1, <1>5 DEF Says
<1>6. PublishIsGranted'
  BY <1>4, <1>5 DEF Grants, PublishIsGranted
<1>7. PlayIsGranted'
  <2> SUFFICES ASSUME role = "watcher" PROVE PlayIsGranted'
    BY DEF PlayIsGranted
  <2>1. \A i \in DOMAIN c2s' : c2s'[i] # "Publish"
    BY <1>2 DEF Grants, PlayIsGranted, Plain
  <2>2. ASSUME NEW i \in DOMAIN c2s', c2s'[i] = "Play"
        PROVE  NoAnswer' /\ \A k \in DOMAIN c2s' : c2s'[k] = "Play" => k = i
    <3>1. i \in DOMAIN c2s /\ c2s[i] = "Play"
      BY <1>2, <2>2 DEF Plain
    <3>2. NoAnswer /\ \A k \in DOMAIN c2s : c2s[k] = "Play" => k = i
      BY <3>1 DEF Grants, PlayIsGranted
    <3> QED BY <1>2, <1>4, <3>2 DEF Plain
  <2>3. ASSUME NEW i \in DOMAIN s2c', NEW j \in DOMAIN s2c', i < j,
               Says(i, "OnStatus")', Says(j, "SampleAccess")'
        PROVE  granted'
    <3>1. i + d < j + d /\ i + d \in DOMAIN s2c /\ j + d \in DOMAIN s2c
      BY <1>1, <1>3, <2>3
    <3>2. Says(i + d, "OnStatus") /\ Says(j + d, "SampleAccess")
      BY <1>1, <2>3 DEF Says
    <3> QED BY <3>1, <3>2 DEF Grants, PlayIsGranted
  <2> QED BY <2>1, <2>2, <2>3 DEF PlayIsGranted
<1>8. ASSUME NEW g \in SocketThreads, Onward(at[g], at'[g]) PROVE PlaceIsGranted(g)'
  <2>0. PlaceIsGranted(g)
    BY DEF Grants
  <2>1. ASSUME role = "watcher", at'[g] \in Early PROVE NoPlay' /\ NoAnswer'
    <3>1. at[g] \in Early
      BY <1>8, <2>1 DEF Onward, Guarded, Early
    <3> QED BY <1>4, <2>0, <2>1, <3>1 DEF PlaceIsGranted
  <2>2. ASSUME role = "watcher", at'[g] = "receiveRtmpSampleAccessMessage"
        PROVE  NoPlay' /\ (\A i \in DOMAIN s2c : Says(i, "SampleAccess") => granted)'
    <3>1. at[g] = "receiveRtmpSampleAccessMessage"
      BY <1>8, <2>2 DEF Onward, Guarded, Early
    <3> QED BY <1>4, <1>5, <2>0, <2>2, <3>1 DEF PlaceIsGranted
  <2>3. at'[g] \in {"sessionReady", "notifyReady"} => granted'
    BY <1>8, <2>0 DEF PlaceIsGranted, Onward, Guarded, Early
  <2> QED BY <2>1, <2>2, <2>3 DEF PlaceIsGranted
<1> QED BY <1>6, <1>7, <1>8 DEF Grants

-----------------------------------------------------------------------------
(* The steps of the chain.                                                 *)

LEMMA GoesOnward ==
  ASSUME StateOK, NEW g \in SocketThreads, NEW k, Onward(at[g], k), Go(g, k)
  PROVE  \A h \in SocketThreads : Onward(at[h], at'[h])
BY DEF StateOK, Go, Onward

LEMMA FailsKeepsGrants ==
  ASSUME StateOK, Grants, NEW g \in SocketThreads, NEW l,
         Fails(g, l) \/ FindsItClosed(g, l)
  PROVE  Grants'
<1>1. Go(g, Unwound(l)) /\ UNCHANGED <<role, c2s, s2c, granted>>
  BY DEF Fails, FindsItClosed, wireVars, appVars
<1>2. Onward(at[g], Unwound(l))
  BY DEF Onward, Unwound, Guarded, Early
<1> QED BY <1>1, <1>2, GoesOnward, QuietKeepsGrants DEF QuietWire

LEMMA SendKeepsGrants ==
  ASSUME StateOK, Grants, NEW g \in SocketThreads, NEW l, NEW next,
         NEW msg \in ClientMsgs, Plain(msg), Onward(l, next), SendStep(g, l, msg, next)
  PROVE  Grants'
<1>1. CASE Fails(g, l) \/ FindsItClosed(g, l)
  BY <1>1, FailsKeepsGrants
<1>2. CASE /\ c2s' = IF link = "up" THEN Append(c2s, msg) ELSE c2s
           /\ Go(g, next)
           /\ UNCHANGED <<socketVars, sessionFlags, s2c, granted, cause, told, appVars>>
  <2>1. QuietWire
    BY <1>2 DEF QuietWire
  <2>2. Onward(at[g], next)
    BY DEF SendStep, At
  <2> QED BY <1>2, <2>1, <2>2, GoesOnward, QuietKeepsGrants DEF appVars
<1> QED BY <1>1, <1>2 DEF SendStep

\* The step that succeeds goes to a place the invariant says nothing of, or has
\* established before.
LEMMA ReceiveKeepsGrants ==
  ASSUME StateOK, Grants, NEW g \in SocketThreads, NEW l, NEW next, NEW refused,
         Onward(l, next), Onward(l, refused), ReceiveStep(g, l, next, refused)
  PROVE  Grants'
<1>1. CASE Fails(g, l) \/ FindsItClosed(g, l)
  BY <1>1, FailsKeepsGrants
<1>2. CASE /\ s2c # <<>>
           /\ s2c' = Tail(s2c)
           /\ Go(g, IF Accepts(l, Head(s2c)) THEN next ELSE refused)
           /\ UNCHANGED <<socketVars, sessionFlags, c2s, granted, cause, told, appVars>>
  <2>1. QuietWire
    BY <1>2 DEF QuietWire
  <2>2. PICK k \in {next, refused} : Go(g, k)
    BY <1>2
  <2>3. Onward(at[g], k)
    BY DEF ReceiveStep, At
  <2> QED BY <1>2, <2>1, <2>2, <2>3, GoesOnward, QuietKeepsGrants DEF appVars
<1> QED BY <1>1, <1>2 DEF ReceiveStep

\* One that got an empty packet, its header lost.
LEMMA EmptyKeepsGrants ==
  ASSUME StateOK, Grants, NEW g \in SocketThreads, NEW onEmpty, Onward(at[g], onEmpty),
         Go(g, onEmpty), UNCHANGED <<socketVars, sessionFlags, wireVars, told, appVars>>
  PROVE  Grants'
<1>1. QuietWire /\ UNCHANGED <<role, granted>>
  BY DEF QuietWire, wireVars, appVars
<1> QED BY <1>1, GoesOnward, QuietKeepsGrants

LEMMA ReceiveDynamicKeepsGrants ==
  ASSUME StateOK, Grants, NEW g \in SocketThreads, NEW l, NEW next, NEW refused, NEW onEmpty,
         Onward(l, next), Onward(l, refused), Onward(l, onEmpty),
         ReceiveDynamicStep(g, l, next, refused, onEmpty)
  PROVE  Grants'
<1>1. CASE ReceiveStep(g, l, next, refused)
  BY <1>1, ReceiveKeepsGrants
<1>2. CASE /\ At(g, l) /\ Go(g, onEmpty)
           /\ UNCHANGED <<socketVars, sessionFlags, wireVars, told, appVars>>
  BY <1>2, EmptyKeepsGrants DEF At
<1> QED BY <1>1, <1>2 DEF ReceiveDynamicStep

LEMMA ConnectingKeepsGrants ==
  ASSUME IInv, Grants, NEW g \in SocketThreads, resolve(g) \/ connectImpl(g)
  PROVE  Grants'
<1>0. StateOK
  BY DEF IInv
<1>1. CASE /\ Go(g, "connectImpl") \/ Go(g, "exit")
           /\ UNCHANGED <<role, c2s, s2c, granted>>
  <2>1. PICK k \in {"connectImpl", "exit"} : Go(g, k)
    BY <1>1
  <2>2. Onward(at[g], k)
    BY DEF Onward, Guarded, Early
  <2> QED BY <1>0, <1>1, <2>1, <2>2, GoesOnward, QuietKeepsGrants DEF QuietWire
<1>2. CASE /\ At(g, "connectImpl") /\ Go(g, "sendC0")
           /\ c2s' = <<>> /\ s2c' = <<>> /\ granted' = FALSE
           /\ UNCHANGED <<thread, appVars>>
  \* the only thread in a chain is this one
  <2>1. \A h \in SocketThreads \ {g} : at'[h] \in {"unborn", "exit", "handshakeDone"}
    BY <1>2 DEF IInv, StateOK, ActiveIsHeld, At, Go
  <2>2. at'[g] = "sendC0"
    BY <1>0, <1>2 DEF StateOK, Go
  <2>3. NoPlay' /\ NoAnswer'
    BY <1>2 DEF NoPlay, NoAnswer
  <2>4. PublishIsGranted'
    BY <1>2, <2>3 DEF PublishIsGranted
  <2>5. PlayIsGranted'
    BY <1>2 DEF PlayIsGranted
  <2>6. ASSUME NEW h \in SocketThreads PROVE PlaceIsGranted(h)'
    BY <2>1, <2>2, <2>3 DEF PlaceIsGranted
  <2> QED BY <2>4, <2>5, <2>6 DEF Grants
<1> QED BY <1>1, <1>2 DEF resolve, connectImpl, FailedToConnect, wireVars, appVars

LEMMA HandshakeKeepsGrants ==
  ASSUME StateOK, Grants, NEW g \in SocketThreads, handshake(g)
  PROVE  Grants'
<1> USE DEF Onward, Guarded, Early
<1>1. CASE sendC0(g) \/ sendC1(g) \/ sendC2(g)
  BY <1>1, SendKeepsGrants DEF sendC0, sendC1, sendC2, ClientMsgs, Plain
<1>2. CASE receiveS0(g) \/ receiveS1(g) \/ receiveS2(g)
  BY <1>2, ReceiveKeepsGrants DEF receiveS0, receiveS1, receiveS2
<1>3. CASE handshakeDone(g)
  BY <1>3, GoesOnward, QuietKeepsGrants DEF handshakeDone, QuietWire, wireVars, appVars
<1> QED BY <1>1, <1>2, <1>3 DEF handshake

LEMMA ConnectChainKeepsGrants ==
  ASSUME StateOK, Grants, NEW g \in SocketThreads, connectChain(g)
  PROVE  Grants'
<1> USE DEF Onward, Guarded, Early
<1>1. CASE \/ sendSetChunkSize(g) \/ sendConnectCommandMessage(g)
           \/ sendCreateStreamCommand(g)
           \/ wack /\ SendStep(g, "sendWindowAcknowledgeSize", "WindowAck", "receiveSetChunkSize")
  BY <1>1, SendKeepsGrants DEF sendSetChunkSize, sendConnectCommandMessage,
       sendCreateStreamCommand, ClientMsgs, Plain
<1>2. CASE receiveSetPeerBandWidth(g) \/ receiveSetChunkSize(g)
  BY <1>2, ReceiveKeepsGrants DEF receiveSetPeerBandWidth, receiveSetChunkSize
<1>3. CASE receiveConnectionCommandResponse(g)
  BY <1>3, ReceiveDynamicKeepsGrants DEF receiveConnectionCommandResponse
<1>4. CASE /\ ~wack /\ At(g, "sendWindowAcknowledgeSize") /\ Go(g, "handshakeDone")
           /\ UNCHANGED <<socketVars, sessionFlags, wireVars, cause, told, appVars>>
  BY <1>4, GoesOnward, QuietKeepsGrants DEF QuietWire, wireVars, appVars
<1>5. CASE receiveWindowAcknowledgeSize(g)
  <2> DEFINE l == "receiveWindowAcknowledgeSize"
  <2>1. CASE Fails(g, l) \/ FindsItClosed(g, l)
    BY <2>1, FailsKeepsGrants
  <2>2. CASE /\ s2c # <<>> /\ s2c' = Tail(s2c)
             /\ Go(g, "receiveSetPeerBandWidth")
             /\ UNCHANGED <<socketVars, stopped, c2s, granted, cause, told, appVars>>
    <3>1. Onward(at[g], "receiveSetPeerBandWidth")
      BY <1>5 DEF receiveWindowAcknowledgeSize, At
    <3> QED BY <2>2, <3>1, GoesOnward, QuietKeepsGrants DEF QuietWire, appVars
  <2> QED BY <1>5, <2>1, <2>2 DEF receiveWindowAcknowledgeSize
<1> QED BY <1>1, <1>2, <1>3, <1>4, <1>5 DEF connectChain, sendWindowAcknowledgeSize

-----------------------------------------------------------------------------
(* The steps that read an answer to publish or play.                       *)

\* A packet is acceptable and takes thread g to a place that its content entitles it to.
LEMMA AcceptedKeepsGrants ==
  ASSUME StateOK, Grants, NEW g \in SocketThreads, NEW next,
         s2c # <<>>, s2c' = Tail(s2c), Go(g, next),
         UNCHANGED <<role, c2s, granted>>, PlaceIsGranted(g)'
  PROVE  Grants'
<1>1. \A h \in SocketThreads : Onward(at[h], at'[h]) \/ PlaceIsGranted(h)'
  BY DEF StateOK, Go, Onward
<1> QED BY <1>1, QuietKeepsGrants DEF QuietWire

\* What the head of the stream says, in terms of the positions of the invariant.
LEMMA HeadSays ==
  ASSUME StateOK, s2c # <<>>, s2c' = Tail(s2c), NEW kind, Head(s2c).kind = kind, Head(s2c).ok
  PROVE  /\ 1 \in DOMAIN s2c /\ Says(1, kind)
         /\ \A i \in DOMAIN s2c' : i + 1 \in DOMAIN s2c /\ 1 < i + 1 /\ s2c'[i] = s2c[i + 1]
<1>1. s2c \in Seq(ServerMsgs)
  BY DEF StateOK
<1> QED BY <1>1 DEF Says

\* An answer read by function l which, when it is acceptable, goes on to next.
LEMMA AnswerKeepsGrants ==
  ASSUME StateOK, Grants, NEW g \in SocketThreads, NEW l \in Recognised,
         NEW next, NEW refused, NEW onEmpty,
         Onward(l, refused), Onward(l, onEmpty),
         ReceiveDynamicStep(g, l, next, refused, onEmpty),
         ASSUME At(g, l), s2c # <<>>, s2c' = Tail(s2c), Go(g, next),
                UNCHANGED <<role, c2s, granted>>,
                Head(s2c).kind = Expected[l], Head(s2c).ok
         PROVE  PlaceIsGranted(g)'
  PROVE  Grants'
<1>1. CASE Fails(g, l) \/ FindsItClosed(g, l)
  BY <1>1, FailsKeepsGrants
<1>2. CASE /\ At(g, l) /\ Go(g, onEmpty)
           /\ UNCHANGED <<socketVars, sessionFlags, wireVars, told, appVars>>
  BY <1>2, EmptyKeepsGrants DEF At
<1>3. CASE /\ At(g, l)
           /\ s2c # <<>>
           /\ s2c' = Tail(s2c)
           /\ Go(g, IF Accepts(l, Head(s2c)) THEN next ELSE refused)
           /\ UNCHANGED <<socketVars, sessionFlags, c2s, granted, cause, told, appVars>>
  <2>0. UNCHANGED <<role, c2s, granted>>
    BY <1>3 DEF appVars
  <2>1. CASE Accepts(l, Head(s2c))
    <3>1. Head(s2c).kind = Expected[l] /\ Head(s2c).ok
      BY <2>1 DEF Accepts
    <3>2. PlaceIsGranted(g)'
      BY <1>3, <2>0, <2>1, <3>1
    <3> QED BY <1>3, <2>0, <2>1, <3>2, AcceptedKeepsGrants
  <2>2. CASE ~Accepts(l, Head(s2c))
    <3>1. Go(g, refused) /\ QuietWire /\ Onward(at[g], refused)
      BY <1>3, <2>2 DEF QuietWire, At
    <3> QED BY <2>0, <3>1, GoesOnward, QuietKeepsGrants
  <2> QED BY <2>1, <2>2
<1> QED BY <1>1, <1>2, <1>3 DEF ReceiveDynamicStep, ReceiveStep

\* A broadcaster is ready when the status that answers its publish is good.
LEMMA BroadcasterChainKeepsGrants ==
  ASSUME StateOK, Grants, NEW g \in SocketThreads, broadcasterChain(g)
  PROVE  Grants'
<1>0. role = "broadcaster"
  BY DEF broadcasterChain
<1>1. CASE connectChain(g)
  BY <1>1, ConnectChainKeepsGrants
<1>2. CASE receiveCreateStreamCommandResponse(g, "sendPublishCommand")
  BY <1>2, ReceiveDynamicKeepsGrants
  DEF receiveCreateStreamCommandResponse, Onward, Guarded, Early
<1>3. CASE sendPublishCommand(g)
  BY <1>0, <1>3, SendKeepsGrants
  DEF sendPublishCommand, ClientMsgs, Plain, Onward, Guarded, Early
<1>4. CASE receiveOnStatusCommandResponse(g)
  <2> DEFINE l == "receiveOnStatusCommandResponse"
  <2>1. ASSUME s2c # <<>>, s2c' = Tail(s2c), Go(g, "sessionReady"),
               UNCHANGED <<role, c2s, granted>>,
               Head(s2c).kind = Expected[l], Head(s2c).ok
        PROVE  PlaceIsGranted(g)'
    <3>1. 1 \in DOMAIN s2c /\ Says(1, "OnStatus")
      BY <2>1, HeadSays DEF Expected
    <3>2. granted'
      BY <1>0, <2>1, <3>1 DEF Grants, PublishIsGranted
    <3> QED BY <1>0, <2>1, <3>2 DEF PlaceIsGranted
  <2>2. l \in Recognised /\ Onward(l, "statusRefused")
    BY DEF Recognised, Onward, Guarded, Early
  <2>3. ReceiveDynamicStep(g, l, "sessionReady", "statusRefused", "statusRefused")
    BY <1>4 DEF receiveOnStatusCommandResponse
  <2> HIDE DEF l
  <2> QED BY <2>1, <2>2, <2>3, AnswerKeepsGrants
<1> QED BY <1>1, <1>2, <1>3, <1>4 DEF broadcasterChain

\* The watcher's one play command, on a wire that knows of none.
LEMMA PlayKeepsGrants ==
  ASSUME IInv, Grants, NEW g \in SocketThreads, sendPlayCommandMessage(g), role = "watcher"
  PROVE  Grants'
<1> DEFINE l == "sendPlayCommandMessage"
<1>0. StateOK
  BY DEF IInv
<1>1. CASE Fails(g, l) \/ FindsItClosed(g, l)
  BY <1>0, <1>1, FailsKeepsGrants
<1>2. CASE /\ At(g, l)
           /\ c2s' = IF link = "up" THEN Append(c2s, "Play") ELSE c2s
           /\ Go(g, "receiveStreamBeginMessage")
           /\ UNCHANGED <<socketVars, sessionFlags, s2c, granted, cause, told, appVars>>
  <2>1. role' = role /\ UNCHANGED <<s2c, granted>>
    BY <1>2 DEF appVars
  <2>2. NoPlay /\ NoAnswer
    BY <1>2 DEF Grants, PlaceIsGranted, At, Early
  <2>3. \A h \in SocketThreads : at'[h] \notin Guarded
    BY <1>0, <1>2 DEF IInv, StateOK, ActiveIsHeld, At, Go, Guarded, Early
  <2>4. \A h \in SocketThreads : PlaceIsGranted(h)'
    BY <2>3 DEF PlaceIsGranted, Guarded
  <2>5. PublishIsGranted'
    BY <2>1 DEF PublishIsGranted
  <2>6. PlayIsGranted'
    <3>1. c2s \in Seq(ClientMsgs)
      BY <1>0 DEF StateOK
    <3>2. \A i \in DOMAIN c2s' :
            \/ i \in DOMAIN c2s /\ c2s'[i] = c2s[i]
            \/ i = Len(c2s) + 1 /\ c2s'[i] = "Play"
      BY <1>2, <3>1
    <3>3. \A i \in DOMAIN c2s' : c2s'[i] # "Publish"
      BY <3>2 DEF Grants, PlayIsGranted
    <3>4. \A i, k \in DOMAIN c2s' : c2s'[i] = "Play" /\ c2s'[k] = "Play" => k = i
      BY <2>2, <3>2 DEF NoPlay
    <3>5. NoAnswer'
      BY <2>1, <2>2 DEF NoAnswer
    <3> QED BY <2>1, <3>3, <3>4, <3>5 DEF Grants, PlayIsGranted, Says
  <2> QED BY <2>4, <2>5, <2>6 DEF Grants
<1> QED BY <1>1, <1>2 DEF sendPlayCommandMessage, SendStep

\* A watcher takes a good status for one half of the grant and the access for the other.
LEMMA WatcherChainKeepsGrants ==
  ASSUME IInv, Grants, NEW g \in SocketThreads, watcherChain(g)
  PROVE  Grants'
<1>0. role = "watcher" /\ StateOK
  BY DEF watcherChain, IInv
<1>1. CASE connectChain(g)
  BY <1>0, <1>1, ConnectChainKeepsGrants
<1>2. CASE receiveCreateStreamCommandResponse(g, "sendPlayCommandMessage")
  BY <1>0, <1>2, ReceiveDynamicKeepsGrants
  DEF receiveCreateStreamCommandResponse, Onward, Guarded, Early
<1>3. CASE sendPlayCommandMessage(g)
  BY <1>0, <1>3, PlayKeepsGrants
<1>4. CASE receiveStreamBeginMessage(g)
  BY <1>0, <1>4, ReceiveDynamicKeepsGrants
  DEF receiveStreamBeginMessage, Onward, Guarded, Early
<1>5. CASE receivePlayOnStatusCommandMessageResponse(g)
  <2> DEFINE l == "receivePlayOnStatusCommandMessageResponse"
             next == "receiveRtmpSampleAccessMessage"
  <2>1. ASSUME s2c # <<>>, s2c' = Tail(s2c), Go(g, next),
               UNCHANGED <<role, c2s, granted>>,
               Head(s2c).kind = Expected[l], Head(s2c).ok
        PROVE  PlaceIsGranted(g)'
    <3>1. /\ 1 \in DOMAIN s2c /\ Says(1, "OnStatus")
          /\ \A i \in DOMAIN s2c' : i + 1 \in DOMAIN s2c /\ 1 < i + 1 /\ s2c'[i] = s2c[i + 1]
      BY <1>0, <2>1, HeadSays DEF Expected
    <3>2. NoPlay'
      BY <1>0, <2>1, <3>1 DEF Grants, PlayIsGranted, NoPlay, NoAnswer, Says
    <3>3. (\A i \in DOMAIN s2c : Says(i, "SampleAccess") => granted)'
      BY <1>0, <2>1, <3>1 DEF Grants, PlayIsGranted, Says
    <3>4. at'[g] = next
      BY <1>0, <2>1 DEF StateOK, Go
    <3> QED BY <3>2, <3>3, <3>4 DEF PlaceIsGranted, Early
  <2>2. l \in Recognised /\ Onward(l, "statusRefused")
    BY DEF Recognised, Onward, Guarded, Early
  <2>3. ReceiveDynamicStep(g, l, next, "statusRefused", "statusRefused")
    BY <1>5 DEF receivePlayOnStatusCommandMessageResponse
  <2> HIDE DEF l, next
  <2> QED BY <1>0, <2>1, <2>2, <2>3, AnswerKeepsGrants
<1>6. CASE receiveRtmpSampleAccessMessage(g)
  <2> DEFINE l == "receiveRtmpSampleAccessMessage"
  <2>1. ASSUME At(g, l), s2c # <<>>, s2c' = Tail(s2c), Go(g, "sessionReady"),
               UNCHANGED <<role, c2s, granted>>,
               Head(s2c).kind = Expected[l], Head(s2c).ok
        PROVE  PlaceIsGranted(g)'
    <3>1. 1 \in DOMAIN s2c /\ Says(1, "SampleAccess")
      BY <1>0, <2>1, HeadSays DEF Expected
    <3>2. granted'
      BY <1>0, <2>1, <3>1 DEF Grants, PlaceIsGranted, At
    <3>3. at'[g] = "sessionReady"
      BY <1>0, <2>1 DEF StateOK, Go
    <3> QED BY <3>2, <3>3 DEF PlaceIsGranted, Early
  <2>2. l \in Recognised /\ Onward(l, "handshakeDone")
    BY DEF Recognised, Onward, Guarded, Early
  <2>3. ReceiveDynamicStep(g, l, "sessionReady", "handshakeDone", "handshakeDone")
    BY <1>6 DEF receiveRtmpSampleAccessMessage
  <2> HIDE DEF l
  <2> QED BY <1>0, <2>1, <2>2, <2>3, AnswerKeepsGrants
<1>7. CASE startMediaPacketRetriever(g)
  <2>1. /\ QuietWire /\ UNCHANGED <<role, granted>>
        /\ \A h \in SocketThreads : at'[h] \in {at[h], "handshakeDone"}
    BY <1>0, <1>7, TheThreads DEF startMediaPacketRetriever, QuietWire, StateOK, wireVars, appVars
  <2>2. \A h \in SocketThreads : Onward(at[h], at'[h])
    BY <2>1 DEF Onward, Guarded, Early
  <2> QED BY <1>0, <2>1, <2>2, QuietKeepsGrants
<1> QED BY <1>1, <1>2, <1>3, <1>4, <1>5, <1>6, <1>7 DEF watcherChain

LEMMA SocketThreadKeepsGrants ==
  ASSUME IInv, Grants, NEW g \in SocketThreads, SocketThread(g)
  PROVE  Grants'
<1>0. StateOK
  BY DEF IInv
<1>1. CASE statusRefused(g)
  BY <1>0, <1>1, GoesOnward, QuietKeepsGrants
  DEF statusRefused, QuietWire, wireVars, appVars, Onward, Guarded, Early
<1>2. CASE sessionReady(g)
  <2>1. QuietWire /\ UNCHANGED <<role, granted>>
    BY <1>2 DEF sessionReady, QuietWire, wireVars, appVars
  <2>2. PICK k : Go(g, k) /\ Onward(at[g], k)
    BY <1>2 DEF sessionReady, AfterReady, At, Onward, Guarded, Early
  <2> QED BY <1>0, <2>1, <2>2, GoesOnward, QuietKeepsGrants
<1>3. CASE close(g)
  <2>1. QuietWire /\ UNCHANGED <<role, granted, at>>
    BY <1>3 DEF close, CloseTest, CloseInner, CloseJoin, CloseStop, QuietWire, wireVars, appVars
  <2> QED BY <1>0, <2>1, QuietKeepsGrants DEF Onward
<1> QED BY <1>0, <1>1, <1>2, <1>3, ConnectingKeepsGrants, HandshakeKeepsGrants,
          BroadcasterChainKeepsGrants, WatcherChainKeepsGrants DEF SocketThread

-----------------------------------------------------------------------------
(* The other threads and the server.                                       *)

\* The retriever and the application consume, clear, and send CloseStream only, and
\* connect() puts a new socket thread at the beginning.
LEMMA OthersKeepGrants ==
  ASSUME StateOK, Grants,
         MediaThread \/ sendMediaMessage \/ end \/ AppThread \/ PatientStart
  PROVE  Grants'
<1>1. QuietWire /\ UNCHANGED <<role, granted>>
  <2>1. ASSUME NEW t \in Threads, close(t) PROVE QuietWire /\ UNCHANGED <<role, granted>>
    BY <2>1 DEF close, CloseTest, CloseInner, CloseJoin, CloseStop, QuietWire, wireVars, appVars
  <2>2. CASE sendCloseStream
    <3>1. "CloseStream" \in ClientMsgs /\ Plain("CloseStream")
      BY DEF ClientMsgs, Plain
    <3>2. s2c' = s2c /\ c2s' \in {c2s, Append(c2s, "CloseStream")} /\ UNCHANGED <<role, granted>>
      BY <2>2 DEF sendCloseStream, appVars
    <3> QED BY <3>1, <3>2 DEF QuietWire
  <2>3. CASE end \/ joinWorker \/ endClose \/ PatientStart \/ \E g \in SocketThreads : connect(g)
    BY <2>3 DEF end, endBroadcaster, endWatcher, Ending, joinWorker, endClose, PatientStart,
         start, connect, QuietWire, wireVars, appVars
  <2>4. CASE sendMediaMessage \/ retrieve \/ retrieverEnds \/ mediaMessageSent \/ closeAfterMediaError
    BY <2>4 DEF sendMediaMessage, retrieve, retrieverEnds, mediaMessageSent,
         closeAfterMediaError, QuietWire, wireVars, appVars
  <2> QED BY <2>1, <2>2, <2>3, <2>4 DEF MediaThread, AppThread
<1>2. \A g \in SocketThreads : at'[g] = at[g] \/ at'[g] = "resolve"
  <2>1. ASSUME NEW t \in Threads, close(t) PROVE at' = at
    BY <2>1 DEF close, CloseTest, CloseInner, CloseJoin, CloseStop
  <2>2. ASSUME NEW h \in SocketThreads, connect(h)
        PROVE  \A g \in SocketThreads : at'[g] = at[g] \/ at'[g] = "resolve"
    BY <2>2, TheThreads DEF connect, StateOK
  <2>3. CASE end \/ sendCloseStream \/ joinWorker \/ endClose \/ PatientStart
    <3>1. PICK k : Go(App, k)
      BY <2>3 DEF end, endBroadcaster, endWatcher, sendCloseStream, joinWorker, endClose,
           PatientStart, start
    <3> QED BY <3>1, TheThreads DEF Go, StateOK
  <2>4. CASE sendMediaMessage \/ retrieve \/ retrieverEnds \/ mediaMessageSent \/ closeAfterMediaError
    <3>1. at' = at \/ \E k : Go(Media, k)
      BY <2>4 DEF sendMediaMessage, retrieve, retrieverEnds, mediaMessageSent, closeAfterMediaError
    <3> QED BY <3>1, TheThreads DEF Go, StateOK
  <2> QED BY <2>1, <2>2, <2>3, <2>4 DEF MediaThread, AppThread
<1>3. \A g \in SocketThreads : Onward(at[g], at'[g])
  BY <1>2 DEF Onward, Guarded, Early
<1> QED BY <1>1, <1>3, QuietKeepsGrants

\* The answers to publish or play come with the grant, or one of them is a refusal; the
\* answers to anything else are of other kinds.
LEMMA AnswersOf ==
  ASSUME NEW msg \in ClientMsgs, NEW i \in DOMAIN Replies[msg]
  PROVE  /\ msg \notin {"Publish", "Play"} => Replies[msg][i] \notin {"OnStatus", "SampleAccess"}
         /\ msg = "Publish" => Replies[msg][i] = "OnStatus"
<1>1. CASE msg \in {"Publish", "Play"}
  BY <1>1 DEF Replies
<1>2. CASE msg = "Connect"
  BY <1>2 DEF Replies
<1>3. CASE msg \notin {"Publish", "Play", "Connect"}
  BY <1>3 DEF Replies, ClientMsgs
<1> QED BY <1>1, <1>2, <1>3

\* The answers come after what is there, in the order of their kinds.
LEMMA AnswersFollow ==
  ASSUME s2c \in Seq(ServerMsgs), NEW kinds \in Seq(Kinds), NEW no,
         s2c' = s2c \o [i \in DOMAIN kinds |-> [kind |-> kinds[i], ok |-> kinds[i] \notin no]]
  PROVE  /\ Len(s2c') = Len(s2c) + Len(kinds)
         /\ \A i \in DOMAIN s2c' :
              \/ i \in DOMAIN s2c /\ s2c'[i] = s2c[i]
              \/ /\ i - Len(s2c) \in DOMAIN kinds
                 /\ s2c'[i].kind = kinds[i - Len(s2c)]
                 /\ s2c'[i].ok <=> kinds[i - Len(s2c)] \notin no
<1> DEFINE answer == [i \in DOMAIN kinds |-> [kind |-> kinds[i], ok |-> kinds[i] \notin no]]
<1>1. DOMAIN kinds = 1 .. Len(kinds) /\ Len(kinds) \in Nat
  OBVIOUS
<1>2. answer \in Seq(ServerMsgs) /\ Len(answer) = Len(kinds)
  <2>1. answer \in [1 .. Len(kinds) -> ServerMsgs]
    BY <1>1, KindsAreExpected DEF ServerMsgs
  <2>2. answer \in Seq(ServerMsgs)
    BY <1>1, <2>1, SeqDef
  <2>3. DOMAIN answer = 1 .. Len(kinds)
    BY <1>1
  <2> QED BY <1>1, <2>2, <2>3, LenProperties
<1>3. s2c' = s2c \o answer
  OBVIOUS
<1>4. \A k \in 1 .. Len(answer) :
        /\ k \in DOMAIN kinds
        /\ answer[k].kind = kinds[k] /\ (answer[k].ok <=> kinds[k] \notin no)
  BY <1>1, <1>2 DEF answer
<1> HIDE DEF answer
<1>5. \A i \in DOMAIN s2c' :
        \/ i \in DOMAIN s2c /\ s2c'[i] = s2c[i]
        \/ i - Len(s2c) \in 1 .. Len(answer) /\ s2c'[i] = answer[i - Len(s2c)]
  BY <1>2, <1>3
<1>6. Len(s2c') = Len(s2c) + Len(answer)
  BY <1>2, <1>3, ConcatProperties
<1> QED BY <1>1, <1>2, <1>4, <1>5, <1>6

LEMMA RepliesKeepGrants ==
  ASSUME StateOK, Grants, ServerReplies
  PROVE  Grants'
<1> DEFINE msg == Head(c2s)
           kinds == Replies[msg]
<1>0. /\ c2s \in Seq(ClientMsgs) /\ s2c \in Seq(ServerMsgs) /\ c2s # <<>>
      /\ c2s' = Tail(c2s) /\ UNCHANGED <<role, at>>
  BY DEF StateOK, ServerReplies, appVars
<1>1. PICK no \in SUBSET (Refusable \cap Range1(kinds)) :
        /\ s2c' = s2c \o [i \in DOMAIN kinds |-> [kind |-> kinds[i], ok |-> kinds[i] \notin no]]
        /\ granted' = (granted \/ (msg \in {"Publish", "Play"} /\ no = {}))
  BY DEF ServerReplies
<1>2. msg \in ClientMsgs /\ 1 \in DOMAIN c2s /\ c2s[1] = msg
  BY <1>0
<1>3. \A i \in DOMAIN c2s' : i \in Nat /\ i > 0 /\ i + 1 \in DOMAIN c2s /\ c2s'[i] = c2s[i + 1]
  BY <1>0
<1>4. \A i \in DOMAIN s2c' :
        \/ i \in DOMAIN s2c /\ s2c'[i] = s2c[i]
        \/ \E k \in DOMAIN kinds : s2c'[i].kind = kinds[k] /\ (s2c'[i].ok => kinds[k] \notin no)
  <2>1. kinds \in Seq(Kinds)
    BY <1>2, RepliesType
  <2> HIDE DEF msg, kinds
  <2>2. Len(s2c') = Len(s2c) + Len(kinds) /\ \A i \in DOMAIN s2c' :
          \/ i \in DOMAIN s2c /\ s2c'[i] = s2c[i]
          \/ /\ i - Len(s2c) \in DOMAIN kinds
             /\ s2c'[i].kind = kinds[i - Len(s2c)]
             /\ s2c'[i].ok <=> kinds[i - Len(s2c)] \notin no
    BY <1>0, <1>1, <2>1, AnswersFollow, Zenon
  <2> QED BY <2>2
\* the answers that are not refused, and those to another command
<1>5. granted => granted'
  BY <1>1
<1>6. \A k \in DOMAIN kinds :
        /\ msg \notin {"Publish", "Play"} => kinds[k] \notin {"OnStatus", "SampleAccess"}
        /\ msg = "Publish" => kinds[k] = "OnStatus"
  BY <1>2, AnswersOf
<1> HIDE DEF msg, kinds
<1>7. PublishIsGranted'
  <2> SUFFICES ASSUME role = "broadcaster" PROVE PublishIsGranted'
    BY <1>0 DEF PublishIsGranted
  <2>1. msg # "Play" /\ NoPlay'
    BY <1>2, <1>3 DEF Grants, PublishIsGranted, NoPlay
  <2>2. ASSUME NEW i \in DOMAIN s2c', Says(i, "OnStatus")' PROVE granted'
    <3>1. CASE i \in DOMAIN s2c /\ s2c'[i] = s2c[i]
      BY <1>5, <2>2, <3>1 DEF Grants, PublishIsGranted, Says
    <3>2. ASSUME NEW k \in DOMAIN kinds,
                 s2c'[i].kind = kinds[k], s2c'[i].ok => kinds[k] \notin no
          PROVE  granted'
      <4>1. kinds[k] = "OnStatus" /\ "OnStatus" \notin no
        BY <2>2, <3>2 DEF Says
      <4>2. msg = "Publish"
        BY <1>6, <2>1, <4>1
      <4>3. no = {}
        BY <1>6, <4>1, <4>2 DEF Range1
      <4> QED BY <1>1, <4>2, <4>3
    <3> QED BY <1>4, <3>1, <3>2
  <2> QED BY <2>1, <2>2 DEF PublishIsGranted
<1>8. ASSUME role = "watcher" PROVE msg # "Publish"
  BY <1>2, <1>8 DEF Grants, PlayIsGranted
<1>9. ASSUME role = "watcher", NoPlay
      PROVE  /\ NoPlay'
             /\ \A i \in DOMAIN s2c' : \/ i \in DOMAIN s2c /\ s2c'[i] = s2c[i]
                                      \/ s2c'[i].kind \notin {"OnStatus", "SampleAccess"}
  <2>1. msg \notin {"Publish", "Play"}
    BY <1>2, <1>8, <1>9 DEF NoPlay
  <2>2. \A k \in DOMAIN kinds : kinds[k] \notin {"OnStatus", "SampleAccess"}
    BY <1>6, <2>1
  <2> QED BY <1>3, <1>4, <1>9, <2>2 DEF NoPlay
<1>10. PlayIsGranted'
  <2> SUFFICES ASSUME role = "watcher" PROVE PlayIsGranted'
    BY <1>0 DEF PlayIsGranted
  <2>1. \A i \in DOMAIN c2s' : c2s'[i] # "Publish"
    BY <1>3 DEF Grants, PlayIsGranted
  <2>2. ASSUME NEW i \in DOMAIN c2s', c2s'[i] = "Play"
        PROVE  NoAnswer' /\ \A k \in DOMAIN c2s' : c2s'[k] = "Play" => k = i
    <3>1. i + 1 \in DOMAIN c2s /\ c2s[i + 1] = "Play" /\ i + 1 # 1 /\ i \in Nat
      BY <1>3, <2>2
    <3>2. NoAnswer /\ \A k \in DOMAIN c2s : c2s[k] = "Play" => k = i + 1
      BY <3>1 DEF Grants, PlayIsGranted
    <3>3. msg \notin {"Publish", "Play"}
      BY <1>2, <1>8, <3>1, <3>2
    <3>4. NoAnswer'
      BY <1>4, <1>6, <3>2, <3>3 DEF NoAnswer
    <3>5. ASSUME NEW k \in DOMAIN c2s', c2s'[k] = "Play" PROVE k = i
      <4>1. k + 1 = i + 1 /\ k \in Nat
        BY <1>3, <3>2, <3>5
      <4> QED BY <3>1, <4>1
    <3> QED BY <3>4, <3>5
  <2>3. ASSUME NEW i \in DOMAIN s2c', NEW j \in DOMAIN s2c', i < j,
               Says(i, "OnStatus")', Says(j, "SampleAccess")'
        PROVE  granted'
    <3>1. CASE msg = "Play"
      <4>1. NoAnswer
        BY <1>2, <3>1 DEF Grants, PlayIsGranted
      <4>2. "OnStatus" \notin no /\ "SampleAccess" \notin no
        BY <1>4, <2>3, <4>1 DEF NoAnswer, Says
      <4>3. Range1(kinds) = {"StreamBegin", "OnStatus", "SampleAccess"}
        BY <3>1 DEF kinds, Replies, Range1
      <4>4. no = {}
        BY <4>2, <4>3 DEF Refusable
      <4> QED BY <1>1, <3>1, <4>4
    <3>2. CASE msg # "Play"
      <4>1. /\ i \in DOMAIN s2c /\ s2c'[i] = s2c[i]
            /\ j \in DOMAIN s2c /\ s2c'[j] = s2c[j]
        BY <1>4, <1>6, <1>8, <2>3, <3>2 DEF Says
      <4> QED BY <1>5, <2>3, <4>1 DEF Grants, PlayIsGranted, Says
    <3> QED BY <3>1, <3>2
  <2> QED BY <2>1, <2>2, <2>3 DEF PlayIsGranted
<1>11. ASSUME NEW g \in SocketThreads PROVE PlaceIsGranted(g)'
  <2>0. PlaceIsGranted(g)
    BY DEF Grants
  <2>1. role = "watcher" /\ at[g] \in Early => NoPlay' /\ NoAnswer'
    BY <1>9, <2>0 DEF PlaceIsGranted, NoAnswer
  <2>2. ASSUME role = "watcher", at[g] = "receiveRtmpSampleAccessMessage"
        PROVE  NoPlay' /\ (\A i \in DOMAIN s2c : Says(i, "SampleAccess") => granted)'
    BY <1>5, <1>9, <2>0, <2>2 DEF PlaceIsGranted, Says
  <2> QED BY <1>0, <1>5, <2>0, <2>1, <2>2 DEF PlaceIsGranted
<1> QED BY <1>7, <1>10, <1>11 DEF Grants

LEMMA ServerKeepsGrants ==
  ASSUME StateOK, Grants, Server
  PROVE  Grants'
<1>1. CASE ServerReplies
  BY <1>1, RepliesKeepGrants
<1>2. CASE ServerSendsMedia
  <2>1. \A i \in DOMAIN s2c' : (i \in DOMAIN s2c /\ s2c'[i] = s2c[i]) \/ s2c'[i].kind = "Media"
    BY <1>2 DEF ServerSendsMedia, StateOK
  <2>2. granted' /\ UNCHANGED <<role, at, c2s>>
    BY <1>2 DEF ServerSendsMedia, appVars
  <2>3. NoPlay' = NoPlay /\ (NoAnswer => NoAnswer')
    BY <2>1, <2>2 DEF NoPlay, NoAnswer
  <2>4. PublishIsGranted' /\ PlayIsGranted'
    BY <2>2, <2>3 DEF Grants, PublishIsGranted, PlayIsGranted
  <2>5. \A g \in SocketThreads : PlaceIsGranted(g)'
    BY <2>2, <2>3 DEF Grants, PlaceIsGranted
  <2> QED BY <2>4, <2>5 DEF Grants
<1>3. CASE ServerDrops
  BY <1>3, QuietKeepsGrants DEF ServerDrops, QuietWire, wireVars, appVars, Onward
<1> QED BY <1>1, <1>2, <1>3 DEF Server

-----------------------------------------------------------------------------
(* The theorem of the grant.                                               *)

LEMMA NextKeepsGrants == IInv /\ Grants /\ [Next]_vars => Grants'
<1> SUFFICES ASSUME IInv, Grants, [Next]_vars PROVE Grants'
  OBVIOUS
<1>0. StateOK
  BY DEF IInv
<1>1. CASE UNCHANGED vars
  <2>1. QuietWire /\ UNCHANGED <<role, granted, at>>
    BY <1>1 DEF vars, wireVars, appVars, QuietWire
  <2> QED BY <1>0, <2>1, QuietKeepsGrants DEF Onward
<1> QED BY <1>0, <1>1, SocketThreadKeepsGrants, OthersKeepGrants, ServerKeepsGrants
        DEF Next, Threaded

\* In every state a good answer in flight, and a chain that has read it, has its grant.
THEOREM GrantsInvariance == Spec => []Grants
<1>1. Init => Grants
  <2> SUFFICES ASSUME Init PROVE Grants
    OBVIOUS
  <2>1. \A g \in SocketThreads : at[g] = "unborn"
    BY TheThreads DEF Init
  <2> QED BY <2>1 DEF Init, Grants, PublishIsGranted, PlayIsGranted, PlaceIsGranted, NoPlay, Early
<1> QED BY <1>1, NextKeepsGrants, Invariance, PTL DEF Spec

\* What the delegates are told of changes in a few steps, and only one of them says
\* that the session has started.
LEMMA OnlyReadyStarts ==
  ASSUME [Next]_vars, "started" \in told', "started" \notin told
  PROVE  \E g \in SocketThreads : at[g] = "notifyReady"
<1> DEFINE Mute == "started" \in told' => "started" \in told
<1>1. ASSUME NEW t \in Threads, close(t) PROVE Mute
  BY <1>1 DEF close, CloseTest, CloseInner, CloseJoin, CloseStop, Tell
<1>2. ASSUME NEW g, NEW l, Fails(g, l) \/ FindsItClosed(g, l) PROVE Mute
  BY <1>2 DEF Fails, FindsItClosed, checkError
<1>3. ASSUME NEW g, NEW l, NEW m, NEW k, SendStep(g, l, m, k) PROVE Mute
  BY <1>2, <1>3 DEF SendStep
<1>4. ASSUME NEW g, NEW l, NEW k, NEW r, ReceiveStep(g, l, k, r) PROVE Mute
  BY <1>2, <1>4 DEF ReceiveStep
<1>5. ASSUME NEW g, NEW l, NEW k, NEW r, NEW e, ReceiveDynamicStep(g, l, k, r, e) PROVE Mute
  BY <1>4, <1>5 DEF ReceiveDynamicStep
<1>6. ASSUME NEW g \in SocketThreads, SocketThread(g) PROVE Mute \/ at[g] = "notifyReady"
  <2>1. CASE resolve(g) \/ connectImpl(g)
    BY <2>1 DEF resolve, connectImpl, FailedToConnect, Tell
  <2>2. CASE handshake(g)
    BY <1>3, <1>4, <2>2 DEF handshake, sendC0, sendC1, receiveS0, receiveS1, sendC2, receiveS2,
         handshakeDone, Tell
  <2>3. CASE connectChain(g)
    <3>1. CASE sendWindowAcknowledgeSize(g)
      BY <1>3, <3>1 DEF sendWindowAcknowledgeSize
    <3>2. CASE receiveWindowAcknowledgeSize(g)
      BY <1>2, <3>2 DEF receiveWindowAcknowledgeSize
    <3> QED
      BY <1>3, <1>4, <1>5, <2>3, <3>1, <3>2
      DEF connectChain, sendSetChunkSize, sendConnectCommandMessage, receiveSetPeerBandWidth,
          receiveSetChunkSize, receiveConnectionCommandResponse, sendCreateStreamCommand
  <2>4. CASE broadcasterChain(g)
    BY <1>3, <1>5, <2>3, <2>4 DEF broadcasterChain, receiveCreateStreamCommandResponse,
         sendPublishCommand, receiveOnStatusCommandResponse
  <2>5. CASE watcherChain(g)
    <3>1. CASE startMediaPacketRetriever(g)
      BY <3>1 DEF startMediaPacketRetriever
    <3> QED
      BY <1>3, <1>5, <2>3, <2>5, <3>1
      DEF watcherChain, receiveCreateStreamCommandResponse, sendPlayCommandMessage,
          receiveStreamBeginMessage, receivePlayOnStatusCommandMessageResponse,
          receiveRtmpSampleAccessMessage
  <2>6. CASE statusRefused(g) \/ sessionReady(g)
    BY <2>6 DEF statusRefused, sessionReady, Tell, At
  <2> QED BY <1>1, <1>6, <2>1, <2>2, <2>4, <2>5, <2>6 DEF SocketThread
<1>7. CASE MediaThread \/ sendMediaMessage
  BY <1>1, <1>7 DEF MediaThread, retrieve, retrieverEnds, mediaMessageSent, closeAfterMediaError,
       sendMediaMessage, checkError
<1>8. CASE end \/ AppThread
  BY <1>1, <1>8 DEF end, endBroadcaster, endWatcher, Ending, AppThread, connect, sendCloseStream,
       joinWorker, endClose, checkError
<1>9. CASE Server \/ PatientStart \/ UNCHANGED vars
  BY <1>9 DEF Server, ServerReplies, ServerSendsMedia, ServerDrops, PatientStart, start, vars
<1> QED BY <1>6, <1>7, <1>8, <1>9 DEF Next, Threaded

\* The delegates hear sessionStarted (sessionReady, at the end of both command chains)
\* only on a connection whose publish or play the server has granted, although the
\* chain takes packets by their size and may have lost the header of one.
THEOREM StartedIsGranted == Spec => StartedOnlyIfGranted
<1>1. IInv /\ Grants /\ [Next]_vars =>
        [("started" \in told' /\ "started" \notin told) => granted]_vars
  <2> SUFFICES ASSUME Grants, [Next]_vars, "started" \in told', "started" \notin told
               PROVE  granted
    OBVIOUS
  <2>1. PICK g \in SocketThreads : at[g] = "notifyReady"
    BY OnlyReadyStarts
  <2> QED BY <2>1 DEF Grants, PlaceIsGranted
<1> QED BY <1>1, Invariance, GrantsInvariance, PTL DEF Spec, StartedOnlyIfGranted

-----------------------------------------------------------------------------
(* The lifecycle the delegates see.                                        *)

\* A thread that has no chain to run, and one that has told what it had to tell.
Idle == {"unborn", "exit", "handshakeDone"}
Over == Idle \cup {"startMediaPacketRetriever"}

\* Between the call of close() in connect() and the new thread nobody works for the old
\* attempt any more, and once that close() has passed the socket is closed.
ConnectsQuietly ==
  at[App] = "connect" =>
    /\ at[Media] = "off" /\ closing[Media] = "no"
    /\ "started" \in told => "closed" \in told
    /\ closing[App] \notin {"test", "inner"} => ~open

\* Before the first attempt there is nothing to close and nothing to tell.
NothingBefore ==
  (\A g \in SocketThreads : at[g] = "unborn") =>
    /\ ~open /\ "closed" \notin told /\ "started" \notin told
    /\ \A t \in Threads : closing[t] \in {"no", "test"}

\* An attempt begins on a closed socket, and nobody is closing it.
BeginsClosed ==
  \A g \in SocketThreads : at[g] = "resolve" =>
    /\ ~open /\ "closed" \notin told
    /\ \A t \in Threads : closing[t] # "inner"

\* The delegates are told of every close, and of a failed connection as of a close.
ClosedIsTold ==
  /\ \A t \in Threads : closing[t] \in {"join", "stop"} => "closed" \in told
  /\ ~open => \/ "closed" \in told
              \/ \E g \in SocketThreads : at[g] = "resolve"
              \/ \A g \in SocketThreads : at[g] = "unborn"
  /\ "closed" \in told /\ open =>
       "started" \notin told /\ \A g \in SocketThreads : at[g] \in Idle

\* A session starts once.
StartsOnce ==
  "started" \in told => \A g \in SocketThreads : at[g] \in Over

\* At most one socket thread works, and the metrics belong to the session it started: one
\* that stopped in the handshake, and has to close the socket, has not started them.
OneWorks ==
  \A g, h \in SocketThreads : Alive(g) /\ Alive(h) => g = h
MetricsAreOfSession ==
  /\ npm => "started" \in told
  /\ \A g \in SocketThreads :
       at[g] \in {"unborn", "exit"} /\ closing[g] # "no" => ~npm

LInv ==
  /\ ConnectsQuietly /\ NothingBefore /\ BeginsClosed /\ ClosedIsTold
  /\ StartsOnce /\ OneWorks /\ MetricsAreOfSession

-----------------------------------------------------------------------------
(* What the steps do to the part of the state the lifecycle looks at.      *)

ToldAlike ==
  /\ "closed" \in told' <=> "closed" \in told
  /\ "started" \in told' <=> "started" \in told

\* Socket thread g goes on, and may have to close the socket.
Proceeds(g) ==
  /\ at[g] \notin {"unborn", "resolve", "exit"} /\ closing[g] = "no"
  /\ \E l \in SocketSteps \ {"unborn", "resolve"} :
       /\ \A h \in SocketThreads : at'[h] = IF h = g THEN l ELSE at[h]
       /\ at[g] \in Over => l \in Over /\ closing' = closing
       /\ at[g] \in Idle => l \in Idle
  /\ at'[App] = at[App]
  /\ closing' \in {closing, [closing EXCEPT ![g] = "test"]}
  /\ UNCHANGED <<open, npm>> /\ ToldAlike

Resolves(g) ==
  /\ At(g, "resolve") /\ Go(g, "connectImpl") /\ open' = TRUE
  /\ UNCHANGED <<closing, npm, told>>

DoesNotConnect(g) ==
  /\ at[g] \in {"resolve", "connectImpl"} /\ closing[g] = "no"
  /\ Go(g, "exit") /\ Tell({"failed", "reconnect", "closed"})
  /\ UNCHANGED <<open, closing, npm>>

Notifies(g) ==
  /\ At(g, "notifyReady") /\ Go(g, AfterReady)
  /\ npm' = TRUE /\ Tell({"started"})
  /\ UNCHANGED <<open, closing>>

\* Another thread or the server goes on; thread t may have to close the socket.
OthersProceed ==
  /\ \A g \in SocketThreads : at'[g] = at[g]
  /\ \E t \in {App, Media} :
       closing' = closing \/ (closing[t] = "no" /\ closing' = [closing EXCEPT ![t] = "test"])
  /\ UNCHANGED <<open, npm>> /\ ToldAlike

LEMMA GoProceeds ==
  ASSUME StateOK, NEW g \in SocketThreads, closing[g] = "no",
         at[g] \notin {"unborn", "resolve", "exit"} \cup Over,
         NEW l \in SocketSteps \ {"unborn", "resolve"}, Go(g, l),
         closing' \in {closing, [closing EXCEPT ![g] = "test"]},
         UNCHANGED <<open, npm>>, ToldAlike
  PROVE  Proceeds(g)
<1>1. /\ \A h \in SocketThreads : at'[h] = IF h = g THEN l ELSE at[h]
      /\ at'[App] = at[App]
  BY TheThreads DEF StateOK, Go
<1> QED BY <1>1 DEF Proceeds, Over

LEMMA FailsProceeds ==
  ASSUME StateOK, NEW g \in SocketThreads, NEW l \in Steps, At(g, l),
         Fails(g, l) \/ FindsItClosed(g, l)
  PROVE  Proceeds(g)
<1>1. Go(g, Unwound(l)) /\ Unwound(l) \in {"handshakeDone", "exit"}
  BY DEF Fails, FindsItClosed, Unwound
<1>2. /\ closing' \in {closing, [closing EXCEPT ![g] = "test"]}
      /\ UNCHANGED <<open, npm>> /\ ToldAlike
  BY DEF Fails, FindsItClosed, checkError, socketVars, ToldAlike
<1> QED BY <1>1, <1>2, GoProceeds DEF At, Steps, Idle, Over

LEMMA SendProceeds ==
  ASSUME StateOK, NEW g \in SocketThreads, NEW l \in Steps, NEW msg,
         NEW next \in SocketSteps \ {"unborn", "resolve"}, SendStep(g, l, msg, next)
  PROVE  Proceeds(g)
<1>1. CASE Fails(g, l) \/ FindsItClosed(g, l)
  BY <1>1, FailsProceeds DEF SendStep
<1>2. CASE /\ Go(g, next)
           /\ UNCHANGED <<socketVars, sessionFlags, s2c, granted, cause, told, appVars>>
  BY <1>2, GoProceeds DEF SendStep, At, Steps, Idle, Over, socketVars, ToldAlike
<1> QED BY <1>1, <1>2 DEF SendStep

LEMMA ReceiveProceeds ==
  ASSUME StateOK, NEW g \in SocketThreads, NEW l \in Steps,
         NEW next \in SocketSteps \ {"unborn", "resolve"},
         NEW refused \in SocketSteps \ {"unborn", "resolve"}, ReceiveStep(g, l, next, refused)
  PROVE  Proceeds(g)
<1>1. CASE Fails(g, l) \/ FindsItClosed(g, l)
  BY <1>1, FailsProceeds DEF ReceiveStep
<1>2. CASE /\ Go(g, IF Accepts(l, Head(s2c)) THEN next ELSE refused)
           /\ UNCHANGED <<socketVars, sessionFlags, c2s, granted, cause, told, appVars>>
  <2>1. PICK to \in {next, refused} : Go(g, to)
    BY <1>2
  <2> QED BY <1>2, <2>1, GoProceeds DEF ReceiveStep, At, Steps, Idle, Over, socketVars, ToldAlike
<1> QED BY <1>1, <1>2 DEF ReceiveStep

LEMMA ReceiveDynamicProceeds ==
  ASSUME StateOK, NEW g \in SocketThreads, NEW l \in Steps,
         NEW next \in SocketSteps \ {"unborn", "resolve"},
         NEW refused \in SocketSteps \ {"unborn", "resolve"},
         NEW onEmpty \in SocketSteps \ {"unborn", "resolve"},
         ReceiveDynamicStep(g, l, next, refused, onEmpty)
  PROVE  Proceeds(g)
<1>1. CASE ReceiveStep(g, l, next, refused)
  BY <1>1, ReceiveProceeds
<1>2. CASE /\ At(g, l) /\ Go(g, onEmpty)
           /\ UNCHANGED <<socketVars, sessionFlags, wireVars, told, appVars>>
  BY <1>2, GoProceeds DEF At, Steps, Idle, Over, socketVars, ToldAlike
<1> QED BY <1>1, <1>2 DEF ReceiveDynamicStep

LEMMA SocketThreadSteps ==
  ASSUME StateOK, NEW g \in SocketThreads, SocketThread(g)
  PROVE  Proceeds(g) \/ Resolves(g) \/ DoesNotConnect(g) \/ Notifies(g) \/ close(g)
<1>1. CASE resolve(g)
  BY <1>1 DEF resolve, Resolves, FailedToConnect, DoesNotConnect, At, socketVars
<1>2. CASE connectImpl(g)
  <2>1. CASE FailedToConnect(g)
    BY <1>2, <2>1 DEF connectImpl, FailedToConnect, DoesNotConnect, At, socketVars
  <2>2. CASE Go(g, "sendC0") /\ UNCHANGED <<open, thread, closing, npm, sessionFlags, cause, told, appVars>>
    BY <1>2, <2>2, GoProceeds DEF connectImpl, At, Idle, Over, ToldAlike
  <2> QED BY <1>2, <2>1, <2>2 DEF connectImpl
<1>3. CASE handshake(g)
  <2>1. CASE sendC0(g) \/ sendC1(g) \/ sendC2(g)
    BY <2>1, SendProceeds DEF sendC0, sendC1, sendC2, Steps
  <2>2. CASE receiveS0(g) \/ receiveS1(g) \/ receiveS2(g)
    BY <2>2, ReceiveProceeds DEF receiveS0, receiveS1, receiveS2, Steps
  <2>3. CASE handshakeDone(g)
    <3>1. \A h \in SocketThreads : at'[h] = IF h = g THEN "exit" ELSE at[h]
      BY <2>3 DEF handshakeDone, StateOK, Go
    <3> QED BY <2>3, <3>1, TheThreads
            DEF handshakeDone, StateOK, Go, At, Tell, Proceeds, Idle, Over, socketVars, ToldAlike
  <2> QED BY <1>3, <2>1, <2>2, <2>3 DEF handshake
<1>4. CASE connectChain(g)
  <2>1. CASE \/ sendSetChunkSize(g) \/ sendConnectCommandMessage(g)
             \/ sendCreateStreamCommand(g)
             \/ wack /\ SendStep(g, "sendWindowAcknowledgeSize", "WindowAck", "receiveSetChunkSize")
    BY <2>1, SendProceeds DEF sendSetChunkSize, sendConnectCommandMessage,
         sendCreateStreamCommand, Steps
  <2>2. CASE receiveSetPeerBandWidth(g) \/ receiveSetChunkSize(g)
    BY <2>2, ReceiveProceeds DEF receiveSetPeerBandWidth, receiveSetChunkSize, Steps
  <2>3. CASE receiveConnectionCommandResponse(g)
    BY <2>3, ReceiveDynamicProceeds DEF receiveConnectionCommandResponse, Steps
  <2>4. CASE /\ ~wack /\ At(g, "sendWindowAcknowledgeSize") /\ Go(g, "handshakeDone")
             /\ UNCHANGED <<socketVars, sessionFlags, wireVars, cause, told, appVars>>
    BY <2>4, GoProceeds DEF At, Idle, Over, socketVars, ToldAlike
  <2>5. CASE receiveWindowAcknowledgeSize(g)
    <3> DEFINE l == "receiveWindowAcknowledgeSize"
    <3>1. CASE Fails(g, l) \/ FindsItClosed(g, l)
      BY <2>5, <3>1, FailsProceeds DEF receiveWindowAcknowledgeSize, Steps
    <3>2. CASE Go(g, "receiveSetPeerBandWidth")
               /\ UNCHANGED <<socketVars, stopped, c2s, granted, cause, told, appVars>>
      BY <2>5, <3>2, GoProceeds
      DEF receiveWindowAcknowledgeSize, At, Idle, Over, socketVars, ToldAlike
    <3> QED BY <2>5, <3>1, <3>2 DEF receiveWindowAcknowledgeSize
  <2> QED BY <1>4, <2>1, <2>2, <2>3, <2>4, <2>5 DEF connectChain, sendWindowAcknowledgeSize
<1>5. CASE broadcasterChain(g)
  <2>1. CASE \/ receiveCreateStreamCommandResponse(g, "sendPublishCommand")
             \/ receiveOnStatusCommandResponse(g)
    BY <2>1, ReceiveDynamicProceeds
    DEF receiveCreateStreamCommandResponse, receiveOnStatusCommandResponse, Steps
  <2>2. CASE sendPublishCommand(g)
    BY <2>2, SendProceeds DEF sendPublishCommand, Steps
  <2> QED BY <1>4, <1>5, <2>1, <2>2 DEF broadcasterChain
<1>6. CASE watcherChain(g)
  <2>1. CASE \/ receiveCreateStreamCommandResponse(g, "sendPlayCommandMessage")
             \/ receiveStreamBeginMessage(g)
             \/ receivePlayOnStatusCommandMessageResponse(g)
             \/ receiveRtmpSampleAccessMessage(g)
    BY <2>1, ReceiveDynamicProceeds
    DEF receiveCreateStreamCommandResponse, receiveStreamBeginMessage,
        receivePlayOnStatusCommandMessageResponse, receiveRtmpSampleAccessMessage, Steps
  <2>2. CASE sendPlayCommandMessage(g)
    BY <2>2, SendProceeds DEF sendPlayCommandMessage, Steps
  <2>3. CASE startMediaPacketRetriever(g)
    <3>1. /\ \A h \in SocketThreads : at'[h] = IF h = g THEN "handshakeDone" ELSE at[h]
          /\ at'[App] = at[App]
      BY <2>3, TheThreads DEF startMediaPacketRetriever, StateOK
    <3> QED BY <2>3, <3>1
            DEF startMediaPacketRetriever, At, Proceeds, Idle, Over, socketVars, ToldAlike
  <2> QED BY <1>4, <1>6, <2>1, <2>2, <2>3 DEF watcherChain
<1>7. CASE statusRefused(g)
  <2>1. Go(g, "handshakeDone") /\ closing' = [closing EXCEPT ![g] = "test"]
        /\ UNCHANGED <<open, npm>> /\ ToldAlike
    BY <1>7 DEF statusRefused, Tell, ToldAlike
  <2> QED BY <1>7, <2>1, GoProceeds DEF statusRefused, At, Idle, Over
<1>8. CASE sessionReady(g)
  <2>1. CASE /\ At(g, "sessionReady") /\ Go(g, IF open THEN "notifyReady" ELSE AfterReady)
             /\ UNCHANGED <<socketVars, sessionFlags, wireVars, cause, told, appVars>>
    <3>1. PICK l \in {"notifyReady", "startMediaPacketRetriever", "handshakeDone"} : Go(g, l)
      BY <2>1 DEF AfterReady
    <3> QED BY <2>1, <3>1, GoProceeds DEF At, Idle, Over, socketVars, ToldAlike
  <2> QED BY <1>8, <2>1 DEF sessionReady, Notifies
<1> QED BY <1>1, <1>2, <1>3, <1>5, <1>6, <1>7, <1>8 DEF SocketThread

\* Nobody but the socket threads, connect() and close() touches what the lifecycle is about.
LEMMA OtherSteps ==
  ASSUME StateOK,
         MediaThread \/ sendMediaMessage \/ end \/ AppThread \/ Server \/ PatientStart \/ UNCHANGED vars
  PROVE  OthersProceed \/ close(App) \/ close(Media) \/ \E g \in SocketThreads : connect(g)
<1> DEFINE Safe(t) == /\ \E l : at' = at \/ Go(t, l)
                      /\ \/ closing' = closing
                         \/ closing[t] = "no" /\ closing' = [closing EXCEPT ![t] = "test"]
                      /\ UNCHANGED <<open, npm>> /\ ToldAlike
<1>1. ASSUME NEW t \in {App, Media}, Safe(t) PROVE OthersProceed
  <2>0. PICK l : at' = at \/ Go(t, l)
    BY <1>1
  <2>1. \A g \in SocketThreads : at'[g] = at[g]
    BY <2>0, TheThreads DEF StateOK, Go
  <2>2. closing' = closing \/ (closing[t] = "no" /\ closing' = [closing EXCEPT ![t] = "test"])
    BY <1>1
  <2>3. UNCHANGED <<open, npm>> /\ ToldAlike
    BY <1>1
  <2> QED BY <2>1, <2>2, <2>3 DEF OthersProceed
<1>2. CASE retrieve \/ retrieverEnds \/ mediaMessageSent \/ closeAfterMediaError \/ sendMediaMessage
  <2>1. Safe(Media)
    BY <1>2 DEF retrieve, retrieverEnds, mediaMessageSent, closeAfterMediaError, sendMediaMessage,
         checkError, At, socketVars, ToldAlike
  <2> QED BY <1>1, <2>1
<1>3. CASE end \/ sendCloseStream \/ joinWorker \/ endClose \/ PatientStart
  <2>1. Safe(App)
    BY <1>3 DEF end, endBroadcaster, endWatcher, Ending, sendCloseStream, joinWorker, endClose,
         PatientStart, start, checkError, At, socketVars, ToldAlike
  <2> QED BY <1>1, <2>1
<1>4. CASE Server \/ UNCHANGED vars
  <2>1. UNCHANGED <<at, closing, open, npm, told>>
    BY <1>4 DEF Server, ServerReplies, ServerSendsMedia, ServerDrops, vars, socketVars
  <2>2. ToldAlike /\ App \in {App, Media} /\ closing' = closing /\ UNCHANGED <<open, npm>>
    BY <2>1 DEF ToldAlike
  <2>3. \A g \in SocketThreads : at'[g] = at[g]
    BY <2>1
  <2> QED BY <2>2, <2>3 DEF OthersProceed
<1> QED BY <1>2, <1>3, <1>4 DEF MediaThread, AppThread

-----------------------------------------------------------------------------
(* The invariant of the lifecycle.                                         *)

\* The steps of a thread that works for an attempt are not those of connect().
LEMMA NotConnecting ==
  ASSUME IInv, NEW g \in SocketThreads, Alive(g)
  PROVE  at[App] # "connect"
BY DEF IInv, ConnectsAlone

LEMMA ProceedsKeepsLInv ==
  ASSUME IInv, LInv, NEW g \in SocketThreads, Proceeds(g)
  PROVE  LInv'
<1>0. at[App] # "connect" /\ at'[App] = at[App]
  BY NotConnecting DEF Proceeds, Alive
<1>1. PICK l \in SocketSteps \ {"unborn", "resolve"} :
        /\ \A h \in SocketThreads : at'[h] = IF h = g THEN l ELSE at[h]
        /\ at[g] \in Over => l \in Over /\ closing' = closing
        /\ at[g] \in Idle => l \in Idle
  BY DEF Proceeds
<1>2. /\ at[g] \notin {"unborn", "resolve"} /\ open' = open
      /\ \A t \in Threads : closing'[t] = closing[t] \/ closing'[t] = "test"
      /\ ToldAlike
  BY DEF Proceeds, IInv, StateOK
<1>3. ConnectsQuietly'
  BY <1>0 DEF ConnectsQuietly
<1>4. NothingBefore'
  BY <1>1 DEF NothingBefore
<1>5. BeginsClosed'
  BY <1>1, <1>2 DEF LInv, BeginsClosed, ToldAlike
<1>6. ClosedIsTold'
  BY <1>1, <1>2 DEF LInv, ClosedIsTold, ToldAlike
<1>7. StartsOnce'
  BY <1>1, <1>2 DEF LInv, StartsOnce, ToldAlike
<1>8. \A h \in SocketThreads : Alive(h)' => Alive(h)
  BY <1>1 DEF Proceeds, Alive, IInv, StateOK
<1>9. OneWorks'
  BY <1>8 DEF LInv, OneWorks
\* one that stops before the end of the chain has started nothing
<1>10. MetricsAreOfSession'
  <2>1. npm' = npm
    BY DEF Proceeds
  <2>2. npm => at[g] \in Over /\ closing' = closing /\ closing[g] = "no"
    BY <1>1 DEF LInv, MetricsAreOfSession, StartsOnce, Proceeds
  <2> QED BY <1>1, <1>2, <2>1, <2>2 DEF LInv, MetricsAreOfSession, ToldAlike
<1> QED BY <1>3, <1>4, <1>5, <1>6, <1>7, <1>9, <1>10 DEF LInv

\* The only active thread: the others have no chain to run.
LEMMA OthersAreIdle ==
  ASSUME IInv, NEW g \in SocketThreads, at[g] \notin Idle
  PROVE  \A h \in SocketThreads \ {g} : at[h] \in Idle
BY DEF IInv, ActiveIsHeld, Idle

LEMMA AttemptKeepsLInv ==
  ASSUME IInv, LInv, NEW g \in SocketThreads, Resolves(g) \/ DoesNotConnect(g) \/ Notifies(g)
  PROVE  LInv'
<1>0. at[g] \notin Over /\ at[g] # "exit"
  BY DEF Resolves, DoesNotConnect, Notifies, At, Over, Idle
<1>1. \A h \in SocketThreads \ {g} : at[h] \in Idle
  BY <1>0, OthersAreIdle DEF Over
<1>2. PICK l : Go(g, l) /\ l \in {"connectImpl", "exit", AfterReady}
  BY DEF Resolves, DoesNotConnect, Notifies
<1>3. /\ at'[g] = l /\ \A h \in SocketThreads \ {g} : at'[h] = at[h]
      /\ at'[App] = at[App]
  BY <1>2, TheThreads DEF IInv, StateOK, Go
<1>4. ConnectsQuietly'
  BY <1>0, <1>3, NotConnecting DEF ConnectsQuietly, Alive, Over, Idle
<1>5. l \notin {"unborn", "resolve"}
  BY <1>2 DEF AfterReady
<1>6. NothingBefore'
  BY <1>3, <1>5 DEF NothingBefore
<1>7. BeginsClosed'
  BY <1>1, <1>3, <1>5 DEF BeginsClosed, Idle
<1>8. closing' = closing
  BY DEF Resolves, DoesNotConnect, Notifies
<1>9. Alive(g) /\ closing[g] = "no" /\ \A h \in SocketThreads : Alive(h)' => Alive(h)
  BY <1>0, <1>3, <1>8 DEF Alive, Over, Idle, Resolves, DoesNotConnect, Notifies, At
<1>10. OneWorks'
  BY <1>9 DEF LInv, OneWorks
<1>11. MetricsAreOfSession'
  <2>1. \A h \in SocketThreads : closing'[h] = "no"
    BY <1>8, <1>9 DEF LInv, OneWorks, Alive
  <2>2. npm' => "started" \in told'
    BY DEF LInv, MetricsAreOfSession, Resolves, DoesNotConnect, Notifies, Tell
  <2> QED BY <2>1, <2>2 DEF MetricsAreOfSession
<1>12. CASE Resolves(g)
  <2>1. "closed" \notin told /\ told' = told /\ open'
    BY <1>12 DEF LInv, BeginsClosed, Resolves, At
  <2>2. ClosedIsTold'
    BY <1>8, <2>1 DEF LInv, ClosedIsTold
  <2>3. StartsOnce'
    BY <1>0, <2>1 DEF LInv, StartsOnce
  <2> QED BY <1>4, <1>6, <1>7, <1>10, <1>11, <2>2, <2>3 DEF LInv
<1>13. CASE DoesNotConnect(g)
  <2>1. "started" \notin told' /\ "closed" \in told'
    BY <1>0, <1>13 DEF LInv, StartsOnce, DoesNotConnect, Tell
  <2>2. at'[g] = "exit"
    BY <1>13 DEF IInv, StateOK, DoesNotConnect, Go
  <2>3. ClosedIsTold'
    BY <1>1, <1>3, <2>1, <2>2 DEF ClosedIsTold, Idle
  <2>4. StartsOnce'
    BY <2>1 DEF StartsOnce
  <2> QED BY <1>4, <1>6, <1>7, <1>10, <1>11, <2>3, <2>4 DEF LInv
<1>14. CASE Notifies(g)
  <2>1. at'[g] \in Over
    BY <1>14 DEF IInv, StateOK, Notifies, Go, AfterReady, Over, Idle
  <2>2. StartsOnce'
    BY <1>1, <1>3, <2>1 DEF StartsOnce, Over
  <2>3. open' = open /\ ("closed" \in told' <=> "closed" \in told) /\ at[g] \notin {"resolve", "unborn"}
    BY <1>14 DEF Notifies, Tell, At
  <2>4. ClosedIsTold'
    BY <1>0, <1>1, <1>3, <1>8, <2>3 DEF LInv, ClosedIsTold, Over, Idle
  <2> QED BY <1>4, <1>6, <1>7, <1>10, <1>11, <2>2, <2>4 DEF LInv
<1> QED BY <1>12, <1>13, <1>14

LEMMA CloseKeepsLInv ==
  ASSUME IInv, LInv, NEW t \in Threads, close(t)
  PROVE  LInv'
<1>0. at' = at /\ closing[t] # "no"
  BY DEF close, CloseTest, CloseInner, CloseJoin, CloseStop
<1>1. /\ closing'[t] \in ClosingSteps
      /\ \A u \in Threads \ {t} : closing'[u] = closing[u]
  BY DEF IInv, StateOK, close, CloseTest, CloseInner, CloseJoin, CloseStop
<1>2. OneWorks' /\ MetricsAreOfSession'
  <2>1. \A u \in Threads : closing'[u] # "no" => closing[u] # "no"
    BY <1>0, <1>1
  <2>2. (npm' => npm) /\ ("started" \in told => "started" \in told')
    BY DEF close, CloseTest, CloseInner, CloseJoin, CloseStop, Tell
  <2> QED BY <1>0, <2>1, <2>2 DEF LInv, OneWorks, MetricsAreOfSession, Alive
<1>3. CASE CloseTest(t)
  <2>1. closing[t] = "test" /\ open' = open /\ told' = told
        /\ closing'[t] = IF open THEN "inner" ELSE "no"
    BY <1>3 DEF IInv, StateOK, CloseTest
  <2>2. ConnectsQuietly'
    BY <1>0, <1>1, <2>1, TheThreads DEF LInv, ConnectsQuietly
  <2>3. NothingBefore' /\ BeginsClosed'
    BY <1>0, <1>1, <2>1 DEF LInv, NothingBefore, BeginsClosed
  <2>4. ClosedIsTold' /\ StartsOnce'
    BY <1>0, <1>1, <2>1 DEF LInv, ClosedIsTold, StartsOnce
  <2> QED BY <1>2, <2>2, <2>3, <2>4 DEF LInv
<1>4. CASE CloseInner(t)
  <2>1. closing[t] = "inner" /\ ~open' /\ told' = told \cup {"closed"} /\ closing'[t] = "join"
    BY <1>4 DEF IInv, StateOK, CloseInner, Tell
  <2>2. ConnectsQuietly'
    BY <1>0, <1>1, <2>1, TheThreads DEF LInv, ConnectsQuietly
  <2>3. NothingBefore' /\ BeginsClosed'
    BY <1>0, <2>1 DEF LInv, NothingBefore, BeginsClosed
  <2>4. ClosedIsTold' /\ StartsOnce'
    BY <1>0, <2>1 DEF LInv, ClosedIsTold, StartsOnce
  <2> QED BY <1>2, <2>2, <2>3, <2>4 DEF LInv
<1>5. CASE CloseJoin(t) \/ CloseStop(t)
  <2>1. closing[t] \in {"join", "stop"} /\ open' = open /\ told' = told /\ closing'[t] \in {"stop", "no"}
    BY <1>5 DEF IInv, StateOK, CloseJoin, CloseStop
  <2>2. ConnectsQuietly'
    BY <1>0, <1>1, <2>1, TheThreads DEF LInv, ConnectsQuietly
  <2>3. NothingBefore' /\ BeginsClosed'
    BY <1>0, <1>1, <2>1 DEF LInv, NothingBefore, BeginsClosed
  <2>4. ClosedIsTold' /\ StartsOnce'
    BY <1>0, <1>1, <2>1 DEF LInv, ClosedIsTold, StartsOnce
  <2> QED BY <1>2, <2>2, <2>3, <2>4 DEF LInv
<1> QED BY <1>3, <1>4, <1>5 DEF close

\* When connect() has joined what there was, nothing runs and nothing is open.
LEMMA NothingRuns ==
  ASSUME IInv, LInv, NEW g \in SocketThreads, connect(g)
  PROVE  /\ \A t \in Threads : closing[t] = "no"
         /\ \A h \in SocketThreads : ~Alive(h)
         /\ ~open /\ ~npm
<1>1. at[App] = "connect" /\ closing[App] = "no"
  BY DEF connect, At
<1>2. \A h \in SocketThreads : ~Alive(h)
  BY <1>1 DEF IInv, ConnectsAlone
<1>3. \A t \in Threads : closing[t] = "no"
  BY <1>1, <1>2 DEF LInv, ConnectsQuietly, Alive
<1>4. ~open
  BY <1>1 DEF LInv, ConnectsQuietly
<1>5. ~npm
  BY <1>3, <1>4 DEF IInv, MetricsEndWithSocket
<1> QED BY <1>2, <1>3, <1>4, <1>5

LEMMA ConnectKeepsLInv ==
  ASSUME IInv, LInv, NEW g \in SocketThreads, connect(g)
  PROVE  LInv'
<1>1. /\ at'[g] = "resolve" /\ at'[App] = "idle"
      /\ told' = {} /\ UNCHANGED <<open, closing>>
  BY TheThreads DEF IInv, StateOK, connect
<1>2. ConnectsQuietly' /\ NothingBefore'
  BY <1>1 DEF ConnectsQuietly, NothingBefore
<1>3. BeginsClosed' /\ ClosedIsTold' /\ StartsOnce'
  BY <1>1, NothingRuns DEF BeginsClosed, ClosedIsTold, StartsOnce
<1>4. OneWorks' /\ MetricsAreOfSession'
  <2>1. \A h \in SocketThreads : Alive(h)' => h = g
    <3> TAKE h \in SocketThreads
    <3> SUFFICES ASSUME h # g PROVE ~Alive(h)'
      OBVIOUS
    <3>1. at'[h] = at[h] /\ UNCHANGED closing
      BY TheThreads DEF connect, IInv, StateOK
    <3> QED BY <3>1, NothingRuns DEF Alive
  <2>2. \A t \in Threads : closing'[t] = "no"
    BY <1>1, NothingRuns
  <2>3. ~npm'
    BY NothingRuns DEF connect
  <2> QED BY <2>1, <2>2, <2>3 DEF OneWorks, MetricsAreOfSession
<1> QED BY <1>2, <1>3, <1>4 DEF LInv

LEMMA OthersKeepLInv ==
  ASSUME StateOK, LInv, OthersProceed, ConnectsQuietly'
  PROVE  LInv'
<1>1. \A t \in Threads : closing'[t] = closing[t] \/ closing'[t] = "test"
  BY DEF OthersProceed, StateOK
<1>2. NothingBefore' /\ BeginsClosed'
  BY <1>1 DEF LInv, NothingBefore, BeginsClosed, OthersProceed, ToldAlike
<1>3. ClosedIsTold' /\ StartsOnce'
  BY <1>1 DEF LInv, ClosedIsTold, StartsOnce, OthersProceed, ToldAlike
<1>4. \A g \in SocketThreads : at'[g] = at[g] /\ closing'[g] = closing[g]
  BY TheThreads DEF OthersProceed, StateOK
<1>5. OneWorks' /\ MetricsAreOfSession'
  BY <1>4 DEF LInv, OneWorks, MetricsAreOfSession, Alive, OthersProceed, ToldAlike
<1> QED BY <1>2, <1>3, <1>5 DEF LInv

\* While connect() waits for its close(), the application is in it, the media thread is
\* off and can not be given an item: what has started is closed.
LEMMA OthersConnectQuietly ==
  ASSUME IInv, LInv, OthersProceed,
         MediaThread \/ sendMediaMessage \/ end \/ AppThread \/ Server \/ PatientStart \/ UNCHANGED vars,
         ~close(App), ~close(Media), ~ \E g \in SocketThreads : connect(g)
  PROVE  ConnectsQuietly'
<1>0. StateOK
  BY DEF IInv
<1>1. CASE sendMediaMessage
  <2>1. "closed" \notin told
    BY <1>1 DEF LInv, ClosedIsTold, sendMediaMessage
  <2>2. at[App] # "connect"
    BY <1>1, <2>1 DEF LInv, ConnectsQuietly, sendMediaMessage
  <2> QED BY <1>0, <1>1, <2>2, TheThreads DEF sendMediaMessage, Go, StateOK, ConnectsQuietly
<1>2. CASE retrieve \/ retrieverEnds \/ mediaMessageSent \/ closeAfterMediaError
  <2>1. at[Media] # "off"
    BY <1>2 DEF retrieve, retrieverEnds, mediaMessageSent, closeAfterMediaError, At
  <2>2. at[App] # "connect"
    BY <2>1 DEF LInv, ConnectsQuietly
  <2>3. at' = at \/ \E l : Go(Media, l)
    BY <1>2 DEF retrieve, retrieverEnds, mediaMessageSent, closeAfterMediaError
  <2>4. at'[App] = at[App]
    BY <1>0, <2>3, TheThreads DEF Go, StateOK
  <2> QED BY <2>2, <2>4 DEF ConnectsQuietly
<1>3. CASE end \/ sendCloseStream \/ joinWorker \/ endClose
  <2>1. PICK l \in {"sendCloseStream", "endClose", "joinWorker", "idle"} : Go(App, l)
    BY <1>3 DEF end, endBroadcaster, endWatcher, sendCloseStream, joinWorker, endClose
  <2>2. at'[App] # "connect"
    BY <1>0, <2>1 DEF Go, StateOK
  <2> QED BY <2>2 DEF ConnectsQuietly
<1>4. CASE PatientStart
  <2>1. /\ at'[Media] = "off" /\ closing'[Media] = "no"
        /\ closing'[App] = "test" /\ told' = told
    BY <1>0, <1>4, TheThreads DEF PatientStart, start, Go, StateOK
  <2> QED BY <1>4, <2>1 DEF PatientStart, ConnectsQuietly
<1>5. CASE Server \/ UNCHANGED vars
  <2>1. UNCHANGED <<at, closing, open, told>>
    BY <1>5 DEF Server, ServerReplies, ServerSendsMedia, ServerDrops, vars, socketVars
  <2> QED BY <2>1 DEF LInv, ConnectsQuietly
<1> QED BY <1>1, <1>2, <1>3, <1>4, <1>5 DEF MediaThread, AppThread

\* The kinds of steps there are.
LEMMA StepKinds ==
  ASSUME IInv, LInv, [Next]_vars
  PROVE  \/ \E g \in SocketThreads : \/ Proceeds(g) \/ Resolves(g) \/ DoesNotConnect(g)
                                     \/ Notifies(g) \/ connect(g)
         \/ \E t \in Threads : close(t)
         \/ OthersProceed /\ ConnectsQuietly'
<1>0. StateOK
  BY DEF IInv
<1>1. ASSUME NEW g \in SocketThreads, SocketThread(g)
      PROVE  Proceeds(g) \/ Resolves(g) \/ DoesNotConnect(g) \/ Notifies(g) \/ close(g)
  BY <1>0, <1>1, SocketThreadSteps
<1>2. CASE MediaThread \/ sendMediaMessage \/ end \/ AppThread \/ Server \/ PatientStart \/ UNCHANGED vars
  <2>1. OthersProceed \/ close(App) \/ close(Media) \/ \E g \in SocketThreads : connect(g)
    BY <1>0, <1>2, OtherSteps
  <2>2. CASE close(App) \/ close(Media) \/ \E g \in SocketThreads : connect(g)
    BY <2>2
  <2> QED BY <1>2, <2>1, <2>2, OthersConnectQuietly
<1> QED BY <1>1, <1>2 DEF Next, Threaded

LEMMA NextKeepsLInv == IInv /\ LInv /\ [Next]_vars => LInv'
<1> SUFFICES ASSUME IInv, LInv, [Next]_vars PROVE LInv'
  OBVIOUS
<1>1. StateOK
  BY DEF IInv
<1> QED BY <1>1, StepKinds, ProceedsKeepsLInv, AttemptKeepsLInv, CloseKeepsLInv, ConnectKeepsLInv,
         OthersKeepLInv

\* In every state the attempt, its thread, its socket and what was told of it agree.
THEOREM LInvariance == Spec => []LInv
<1>1. Init => LInv
  <2> SUFFICES ASSUME Init PROVE LInv
    OBVIOUS
  <2>1. /\ at[App] = "idle" /\ ~open /\ told = {}
        /\ \A g \in SocketThreads : at[g] = "unborn"
        /\ \A t \in Threads : closing[t] = "no"
    BY TheThreads DEF Init
  <2>2. ~npm
    BY DEF Init
  <2> QED BY <2>1, <2>2 DEF LInv, ConnectsQuietly, NothingBefore, BeginsClosed, ClosedIsTold, StartsOnce,
          OneWorks, MetricsAreOfSession, Alive
<1> QED BY <1>1, NextKeepsLInv, Invariance, PTL DEF Spec

-----------------------------------------------------------------------------
(* RtmpSession implements SessionLifecycle: the two values that are        *)
(* substituted for its variables, and how each kind of step changes them.  *)

NoneBorn == \A g \in SocketThreads : at[g] = "unborn"
Busy == \E g \in SocketThreads : Alive(g)
Phase == CASE \A g \in SocketThreads : at[g] = "unborn" -> "idle"
           [] "closed" \in told                          -> "over"
           [] {"closed", "started"} \cap told = {"started"} -> "live"
           [] OTHER                                      -> "attempt"

LEMMA PhaseValues ==
  ASSUME NothingBefore
  PROVE  /\ NoneBorn => Phase = "idle"
         /\ ~NoneBorn /\ "closed" \in told => Phase = "over"
         /\ ~NoneBorn /\ "closed" \notin told /\ "started" \in told => Phase = "live"
         /\ ~NoneBorn /\ "closed" \notin told /\ "started" \notin told => Phase = "attempt"
BY DEF NothingBefore, NoneBorn, Phase

LEMMA SamePhase ==
  ASSUME NothingBefore, NothingBefore', NoneBorn' <=> NoneBorn, ToldAlike
  PROVE  Phase' = Phase
<1> HIDE DEF Phase
<1>1. /\ NoneBorn' => Phase' = "idle"
      /\ ~NoneBorn' /\ "closed" \in told' => Phase' = "over"
      /\ ~NoneBorn' /\ "closed" \notin told' /\ "started" \in told' => Phase' = "live"
      /\ ~NoneBorn' /\ "closed" \notin told' /\ "started" \notin told' => Phase' = "attempt"
  BY DEF NothingBefore, NoneBorn, Phase
<1> QED BY <1>1, PhaseValues DEF ToldAlike

LEMMA PhaseValuesNext ==
  ASSUME NothingBefore'
  PROVE  /\ NoneBorn' => Phase' = "idle"
         /\ ~NoneBorn' /\ "closed" \in told' => Phase' = "over"
         /\ ~NoneBorn' /\ "closed" \notin told' /\ "started" \in told' => Phase' = "live"
         /\ ~NoneBorn' /\ "closed" \notin told' /\ "started" \notin told' => Phase' = "attempt"
BY DEF NothingBefore, NoneBorn, Phase

Lives == [Lifecycle!Next]_(Lifecycle!lifecycle)

\* The steps of the lifecycle, in terms of those values.
LEMMA Lasts ==
  ASSUME Phase' = Phase, npm' = npm, Busy' => Busy
  PROVE  Lives
<1>1. CASE Busy /\ ~Busy'
  BY <1>1 DEF Lives, Lifecycle!Next, Lifecycle!ThreadEnds, Phase, Busy
<1>2. CASE Busy <=> Busy'
  BY <1>2 DEF Lives, Lifecycle!lifecycle, Phase, Busy
<1> QED BY <1>1, <1>2

LEMMA Begins ==
  ASSUME Phase \in {"idle", "over"}, ~Busy, ~npm, Phase' = "attempt", Busy', npm' = npm
  PROVE  Lives
BY DEF Lives, Lifecycle!Next, Lifecycle!Begin, Phase, Busy

LEMMA GoesLive ==
  ASSUME Phase \in {"attempt", "over"}, Busy, Busy', npm' = TRUE,
         Phase' = IF Phase = "attempt" THEN "live" ELSE Phase
  PROVE  Lives
BY DEF Lives, Lifecycle!Next, Lifecycle!GoLive, Phase, Busy

LEMMA Finishes ==
  ASSUME Phase \in {"attempt", "live", "over"}, Phase' = "over", npm' = npm, Busy' => Busy
  PROVE  Lives
BY Lasts DEF Lives, Lifecycle!Next, Lifecycle!Finish, Phase, Busy

LEMMA StopsMetrics ==
  ASSUME Phase = "over", Phase' = Phase, npm' = FALSE, Busy' <=> Busy
  PROVE  Lives
BY DEF Lives, Lifecycle!Next, Lifecycle!StopMetrics, Phase, Busy

LEMMA ProceedsLasts ==
  ASSUME IInv, LInv, LInv', NEW g \in SocketThreads, Proceeds(g)
  PROVE  Lives
<1>1. PICK l \in SocketSteps \ {"unborn", "resolve"} :
        \A h \in SocketThreads : at'[h] = IF h = g THEN l ELSE at[h]
  BY DEF Proceeds
<1>2. Alive(g)
  BY DEF Proceeds, Alive
<1>3. ~NoneBorn /\ ~NoneBorn'
  BY <1>1 DEF Proceeds, NoneBorn
<1>4. Phase' = Phase
  BY <1>3, SamePhase DEF LInv, Proceeds
<1>5. Busy
  BY <1>2 DEF Busy
<1> QED BY <1>4, <1>5, Lasts DEF Proceeds

LEMMA AttemptLives ==
  ASSUME IInv, LInv, LInv', NEW g \in SocketThreads, Resolves(g) \/ DoesNotConnect(g) \/ Notifies(g)
  PROVE  Lives
<1>1. at[g] \notin Over /\ at[g] # "exit" /\ Alive(g)
  BY DEF Resolves, DoesNotConnect, Notifies, At, Over, Idle, Alive
<1>2. Busy /\ ~NoneBorn
  BY <1>1 DEF Busy, NoneBorn, Over, Idle
<1>3. at'[g] \in {"connectImpl", "exit", AfterReady}
  BY DEF IInv, StateOK, Resolves, DoesNotConnect, Notifies, Go
<1>4. ~NoneBorn'
  BY <1>3 DEF NoneBorn, AfterReady
<1>5. CASE Resolves(g)
  <2>1. ToldAlike /\ npm' = npm
    BY <1>5 DEF Resolves, ToldAlike
  <2>2. Phase' = Phase
    BY <1>2, <1>4, <2>1, SamePhase DEF LInv
  <2> QED BY <1>2, <2>1, <2>2, Lasts
<1>6. CASE DoesNotConnect(g)
  <2>1. "closed" \in told' /\ npm' = npm
    BY <1>6 DEF DoesNotConnect, Tell
  <2>2. Phase' = "over"
    BY <1>4, <2>1, PhaseValuesNext DEF LInv
  <2>3. Phase \in {"attempt", "live", "over"}
    BY <1>2, PhaseValues DEF LInv
  <2> QED BY <1>2, <2>1, <2>2, <2>3, Finishes
<1>7. CASE Notifies(g)
  <2>1. "started" \notin told
    BY <1>1 DEF LInv, StartsOnce
  <2>2. "started" \in told' /\ ("closed" \in told' <=> "closed" \in told) /\ npm' = TRUE
    BY <1>7 DEF Notifies, Tell
  <2>3. Phase' = IF Phase = "attempt" THEN "live" ELSE Phase
    BY <1>2, <1>4, <2>1, <2>2, PhaseValues, PhaseValuesNext DEF LInv
  <2>4. Phase \in {"attempt", "over"}
    BY <1>2, <2>1, PhaseValues DEF LInv
  <2>5. at'[g] = AfterReady
    BY <1>7 DEF IInv, StateOK, Notifies, Go
  <2>6. Busy'
    BY <2>5 DEF Busy, Alive, AfterReady
  <2> QED BY <1>2, <2>2, <2>3, <2>4, <2>6, GoesLive
<1> QED BY <1>5, <1>6, <1>7

LEMMA ConnectBegins ==
  ASSUME IInv, LInv, LInv', NEW g \in SocketThreads, connect(g)
  PROVE  Lives
<1>1. ~Busy /\ ~npm /\ ~open
  BY NothingRuns DEF Busy
<1>2. NoneBorn \/ "closed" \in told
  BY <1>1 DEF LInv, ClosedIsTold, NoneBorn, Busy, Alive
<1>3. Phase \in {"idle", "over"}
  BY <1>2, PhaseValues DEF LInv
<1>4. at'[g] = "resolve" /\ told' = {} /\ npm' = npm
  BY TheThreads DEF IInv, StateOK, connect
<1>5. Phase' = "attempt"
  BY <1>4, PhaseValuesNext DEF LInv, NoneBorn
<1>6. Busy'
  BY <1>4 DEF Busy, Alive
<1> QED BY <1>1, <1>3, <1>4, <1>5, <1>6, Begins

LEMMA CloseFinishes ==
  ASSUME IInv, LInv, LInv', NEW t \in Threads, close(t)
  PROVE  Lives
<1>1. at' = at /\ closing[t] # "no" /\ \A u \in Threads \ {t} : closing'[u] = closing[u]
  BY DEF IInv, StateOK, close, CloseTest, CloseInner, CloseJoin, CloseStop
<1>2. NoneBorn' <=> NoneBorn
  BY <1>1 DEF NoneBorn
<1>3. Busy' => Busy
  BY <1>1 DEF Busy, Alive
<1>4. CASE CloseTest(t) \/ CloseJoin(t)
  <2>1. ToldAlike /\ npm' = npm
    BY <1>4 DEF CloseTest, CloseJoin, ToldAlike
  <2>2. Phase' = Phase
    BY <1>2, <2>1, SamePhase DEF LInv
  <2> QED BY <1>3, <2>1, <2>2, Lasts
<1>5. CASE CloseInner(t)
  <2>1. "closed" \in told' /\ npm' = npm /\ closing[t] = "inner"
    BY <1>5 DEF CloseInner, Tell
  <2>2. ~NoneBorn
    BY <2>1 DEF LInv, NothingBefore, NoneBorn
  <2>3. Phase' = "over" /\ Phase \in {"attempt", "live", "over"}
    BY <1>2, <2>1, <2>2, PhaseValues, PhaseValuesNext DEF LInv
  <2> QED BY <1>3, <2>1, <2>3, Finishes
<1>6. CASE CloseStop(t)
  <2>1. closing[t] = "stop" /\ npm' = FALSE /\ ToldAlike
    BY <1>6 DEF CloseStop, ToldAlike
  <2>2. Phase' = Phase
    BY <1>2, <2>1, SamePhase DEF LInv
  \* the metrics run, so that the thread in close() is not the last step of one that stopped
  <2>3. CASE npm
    <3>1. "closed" \in told
      BY <2>1 DEF LInv, ClosedIsTold
    <3>2. ~NoneBorn
      BY <3>1 DEF LInv, NothingBefore, NoneBorn
    <3>3. Phase = "over"
      BY <3>1, <3>2, PhaseValues DEF LInv
    <3>4. t \in SocketThreads => at[t] \notin {"unborn", "exit"}
      BY <1>1, <2>3 DEF LInv, MetricsAreOfSession
    <3>5. Busy => Busy'
      BY <1>1, <3>4 DEF Busy, Alive
    <3> QED BY <1>3, <2>1, <2>2, <3>3, <3>5, StopsMetrics
  <2>4. CASE ~npm
    <3>1. npm' = npm
      BY <2>1, <2>4 DEF IInv, StateOK
    <3> QED BY <1>3, <2>2, <3>1, Lasts
  <2> QED BY <2>3, <2>4
<1> QED BY <1>4, <1>5, <1>6 DEF close

LEMMA OthersLast ==
  ASSUME IInv, LInv, LInv', OthersProceed
  PROVE  Lives
<1>1. \A g \in SocketThreads : at'[g] = at[g] /\ closing'[g] = closing[g]
  BY TheThreads DEF OthersProceed, IInv, StateOK
<1>2. ToldAlike /\ npm' = npm
  BY DEF OthersProceed
<1>3. Phase' = Phase
  BY <1>1, <1>2, SamePhase DEF LInv, NoneBorn
<1>4. Busy' => Busy
  BY <1>1 DEF Busy, Alive
<1> QED BY <1>2, <1>3, <1>4, Lasts

\* A session keeps what SessionLifecycle promises its delegates: attempts never overlap,
\* one goes live at most once and is over for good, and the metrics of an attempt are
\* stopped before the next begins (BaseSocket::connect and close, the two chains).
THEOREM ImplementsLifecycle == Spec => KeepsLifecycle
<1>1. Init => Lifecycle!Init
  <2> SUFFICES ASSUME Init PROVE Lifecycle!Init
    OBVIOUS
  <2>1. /\ \A g \in SocketThreads : at[g] = "unborn" /\ closing[g] = "no"
        /\ told = {} /\ npm = FALSE
    BY TheThreads DEF Init
  <2>2. NothingBefore /\ NoneBorn => Phase = "idle"
    BY PhaseValues
  <2>3. NothingBefore /\ NoneBorn /\ ~Busy
    BY <2>1, TheThreads DEF Init, NothingBefore, NoneBorn, Busy, Alive
  <2> QED BY <2>1, <2>2, <2>3 DEF Lifecycle!Init, Phase, Busy
<1>2. IInv /\ LInv /\ [Next]_vars => [Lifecycle!Next]_(Lifecycle!lifecycle)
  <2> SUFFICES ASSUME IInv, LInv, [Next]_vars PROVE Lives
    BY DEF Lives
  <2>1. LInv'
    BY NextKeepsLInv
  <2> QED BY <2>1, StepKinds, ProceedsLasts, AttemptLives, ConnectBegins, CloseFinishes, OthersLast
<1> QED BY <1>1, <1>2, Invariance, LInvariance, PTL DEF Spec, KeepsLifecycle, Lifecycle!Spec
-----------------------------------------------------------------------------
(* The invariant of the end.                                               *)

\* endedReady is of this attempt, ...
EndedHasStarted == endedReady => "started" \in told

\* ... whose thread does not close the socket once it has started: whoever does waits
\* for it, ...
StartedIsUnclosed == "started" \in told => \A g \in SocketThreads : closing[g] = "no"
StartedIsHeld == "started" \in told => \A g \in SocketThreads : Alive(g) => thread = g
ClosedIsJoined ==
  "started" \in told /\ ~open =>
    \A g \in SocketThreads : Alive(g) => \E t \in Threads : closing[t] = "join"

\* ... the retriever was joined and is not started again, and neither is the socket.
RetrieverIsOver ==
  /\ at[App] = "sendCloseStream" => role = "broadcaster"
  /\ role = "watcher" /\ endedReady =>
       /\ \A g \in SocketThreads : at[g] # "startMediaPacketRetriever"
       /\ at[App] \in {"endClose", "idle"} => at[Media] = "off"
EndedIsClosed ==
  endedReady /\ at[App] = "idle" /\ closing[App] \notin {"test", "inner"} => ~open

EndInv ==
  /\ EndedHasStarted /\ StartedIsUnclosed /\ StartedIsHeld /\ ClosedIsJoined
  /\ RetrieverIsOver /\ EndedIsClosed

\* What a socket thread leaves to the others, except when it starts the retriever.
LEMMA SocketThreadLeaves ==
  ASSUME StateOK, NEW g \in SocketThreads, SocketThread(g), ~close(g)
  PROVE  /\ UNCHANGED <<role, endedReady, thread>> /\ told \subseteq told' /\ cause \subseteq cause'
         /\ at'[Media] = at[Media] \/ at[g] = "startMediaPacketRetriever"
<1> DEFINE Leaves == UNCHANGED <<role, endedReady, thread>>
                     /\ told \subseteq told' /\ cause \subseteq cause'
                     /\ ((\E l : Go(g, l)) \/ at[g] = "startMediaPacketRetriever")
<1>1. ASSUME NEW l, Fails(g, l) \/ FindsItClosed(g, l) PROVE Leaves
  BY <1>1 DEF Fails, FindsItClosed, checkError, socketVars, appVars
<1>2. ASSUME NEW l, NEW msg, NEW next, SendStep(g, l, msg, next) PROVE Leaves
  BY <1>1, <1>2 DEF SendStep, socketVars, appVars
<1>3. ASSUME NEW l, NEW next, NEW refused, ReceiveStep(g, l, next, refused) PROVE Leaves
  BY <1>1, <1>3 DEF ReceiveStep, socketVars, appVars
<1>4. ASSUME NEW l, NEW next, NEW refused, NEW onEmpty,
             ReceiveDynamicStep(g, l, next, refused, onEmpty)
      PROVE  Leaves
  BY <1>3, <1>4 DEF ReceiveDynamicStep, socketVars, appVars
<1>5. ASSUME resolve(g) \/ connectImpl(g) PROVE Leaves
  BY <1>5 DEF resolve, connectImpl, FailedToConnect, Tell, socketVars, appVars
<1>6. ASSUME handshake(g) PROVE Leaves
  BY <1>2, <1>3, <1>6 DEF handshake, sendC0, sendC1, receiveS0, receiveS1, sendC2, receiveS2,
       handshakeDone, Tell, socketVars, appVars
<1>7. ASSUME receiveWindowAcknowledgeSize(g) PROVE Leaves
  BY <1>1, <1>7 DEF receiveWindowAcknowledgeSize, socketVars, appVars
<1>8. ASSUME sendWindowAcknowledgeSize(g) PROVE Leaves
  BY <1>2, <1>8 DEF sendWindowAcknowledgeSize, socketVars, appVars
<1>9. ASSUME connectChain(g) PROVE Leaves
  BY <1>2, <1>3, <1>4, <1>7, <1>8, <1>9
  DEF connectChain, sendSetChunkSize, sendConnectCommandMessage, receiveSetPeerBandWidth,
      receiveSetChunkSize, receiveConnectionCommandResponse, sendCreateStreamCommand
<1>10. ASSUME broadcasterChain(g) PROVE Leaves
  BY <1>2, <1>4, <1>9, <1>10
  DEF broadcasterChain, receiveCreateStreamCommandResponse, sendPublishCommand,
      receiveOnStatusCommandResponse
<1>11. ASSUME startMediaPacketRetriever(g) PROVE Leaves
  BY <1>11 DEF startMediaPacketRetriever, At, socketVars, appVars
<1>12. ASSUME watcherChain(g) PROVE Leaves
  BY <1>2, <1>4, <1>9, <1>11, <1>12
  DEF watcherChain, receiveCreateStreamCommandResponse, sendPlayCommandMessage,
      receiveStreamBeginMessage, receivePlayOnStatusCommandMessageResponse,
      receiveRtmpSampleAccessMessage
<1>13. ASSUME statusRefused(g) \/ sessionReady(g) PROVE Leaves
  BY <1>13 DEF statusRefused, sessionReady, Tell, socketVars, appVars
<1>14. Leaves
  BY <1>5, <1>6, <1>10, <1>12, <1>13 DEF SocketThread
<1> QED BY <1>14, TheThreads DEF StateOK, Go

LEMMA SocketThreadKeepsEndInv ==
  ASSUME IInv, LInv, EndInv, NEW g \in SocketThreads, SocketThread(g), ~close(g)
  PROVE  EndInv'
<1>0. StateOK
  BY DEF IInv
<1>1. /\ UNCHANGED <<role, endedReady, thread>>
      /\ at'[Media] = at[Media] \/ at[g] = "startMediaPacketRetriever"
  BY <1>0, SocketThreadLeaves
<1>2. CASE Proceeds(g)
  <2>1. PICK l \in SocketSteps \ {"unborn", "resolve"} :
          /\ \A h \in SocketThreads : at'[h] = IF h = g THEN l ELSE at[h]
          /\ at[g] \in Over => closing' = closing
          /\ at[g] \in Idle => l \in Idle
    BY <1>2 DEF Proceeds
  <2>2. /\ at'[App] = at[App] /\ open' = open /\ ToldAlike
        /\ closing'[App] = closing[App] /\ Alive(g)
    BY <1>0, <1>2, TheThreads DEF Proceeds, StateOK, Alive
  <2>3. \A h \in SocketThreads : Alive(h)' => Alive(h)
    BY <1>0, <1>2, <2>1 DEF Proceeds, Alive, StateOK
  <2>4. "started" \in told => at[g] \in Over /\ closing' = closing
    BY <2>1 DEF LInv, StartsOnce
  <2>5. EndedHasStarted' /\ StartedIsUnclosed' /\ StartedIsHeld' /\ EndedIsClosed'
    BY <1>1, <2>2, <2>3, <2>4 DEF EndInv, EndedHasStarted, StartedIsUnclosed, StartedIsHeld,
         EndedIsClosed, ToldAlike
  <2>6. ClosedIsJoined'
    BY <2>2, <2>3, <2>4 DEF EndInv, ClosedIsJoined, ToldAlike
  <2>7. RetrieverIsOver'
    <3>1. role = "watcher" /\ endedReady => at[g] \in Idle
      BY <2>4 DEF EndInv, EndedHasStarted, RetrieverIsOver, Over
    <3> QED BY <1>1, <2>1, <2>2, <3>1 DEF EndInv, RetrieverIsOver, Idle
  <2> QED BY <2>5, <2>6, <2>7 DEF EndInv
<1>3. CASE Resolves(g) \/ DoesNotConnect(g) \/ Notifies(g)
  <2>1. at[g] \notin Over
    BY <1>3 DEF Resolves, DoesNotConnect, Notifies, At, Over, Idle
  <2>2. "started" \notin told /\ ~endedReady
    BY <2>1 DEF LInv, StartsOnce, EndInv, EndedHasStarted
  <2>3. closing' = closing /\ closing[g] = "no" /\ at[g] \notin {"unborn", "exit"} /\ thread = g
    BY <1>3, <2>1 DEF Resolves, DoesNotConnect, Notifies, At, IInv, ActiveIsHeld, Over, Idle
  <2>4. at'[App] = at[App]
    BY <1>0, <1>3, TheThreads DEF Resolves, DoesNotConnect, Notifies, StateOK, Go
  <2>5. EndedHasStarted' /\ RetrieverIsOver' /\ EndedIsClosed'
    BY <1>1, <2>2, <2>4 DEF EndInv, EndedHasStarted, RetrieverIsOver, EndedIsClosed
  <2>6. CASE ~Notifies(g)
    <3>1. "started" \notin told'
      BY <1>3, <2>2, <2>6 DEF Resolves, DoesNotConnect, Tell
    <3> QED BY <2>5, <3>1 DEF EndInv, StartedIsUnclosed, StartedIsHeld, ClosedIsJoined
  <2>7. CASE Notifies(g)
    <3>1. \A h \in SocketThreads \ {g} : ~Alive(h)
      BY <2>3 DEF LInv, OneWorks, Alive
    <3>2. \A h \in SocketThreads \ {g} : at'[h] = at[h]
      BY <1>0, <2>7, TheThreads DEF Notifies, Go, StateOK
    <3>3. StartedIsUnclosed' /\ StartedIsHeld'
      BY <1>1, <2>3, <3>1, <3>2 DEF StartedIsUnclosed, StartedIsHeld, Alive
    <3>4. open \/ \E t \in Threads : closing[t] = "join"
      BY <2>7 DEF IInv, ReadyIsAwaited, Notifies, At
    <3>5. ClosedIsJoined'
      BY <2>3, <2>7, <3>4 DEF ClosedIsJoined, Notifies
    <3> QED BY <2>5, <3>3, <3>5 DEF EndInv
  <2> QED BY <2>6, <2>7
<1> QED BY <1>0, <1>2, <1>3, SocketThreadSteps

LEMMA CloseKeepsEndInv ==
  ASSUME IInv, LInv, EndInv, NEW t \in Threads, close(t)
  PROVE  EndInv'
<1>0. StateOK
  BY DEF IInv
<1>1. /\ closing[t] # "no" /\ UNCHANGED <<at, role, endedReady>>
      /\ "started" \in told' <=> "started" \in told
      /\ \A u \in Threads \ {t} : closing'[u] = closing[u]
  BY <1>0 DEF StateOK, close, CloseTest, CloseInner, CloseJoin, CloseStop, Tell, appVars
<1>2. EndedHasStarted' /\ StartedIsUnclosed' /\ RetrieverIsOver'
  BY <1>1 DEF EndInv, EndedHasStarted, StartedIsUnclosed, RetrieverIsOver
<1>3. \A h \in SocketThreads : "started" \in told => (Alive(h)' <=> Alive(h)) /\ closing[h] = "no"
  BY <1>1, <1>2 DEF EndInv, StartedIsUnclosed, Alive
<1>4. CASE CloseTest(t)
  <2>1. closing[t] = "test" /\ closing'[t] = (IF open THEN "inner" ELSE "no")
        /\ UNCHANGED <<open, thread>>
    BY <1>0, <1>4 DEF StateOK, CloseTest
  <2>2. StartedIsHeld' /\ ClosedIsJoined'
    BY <1>1, <1>3, <2>1 DEF EndInv, StartedIsHeld, ClosedIsJoined
  <2>3. EndedIsClosed'
    BY <1>1, <2>1 DEF EndInv, EndedIsClosed
  <2> QED BY <1>2, <2>2, <2>3 DEF EndInv
<1>5. CASE CloseInner(t)
  <2>1. closing'[t] = "join" /\ ~open' /\ thread' = thread
    BY <1>0, <1>5 DEF StateOK, CloseInner
  <2>2. StartedIsHeld' /\ ClosedIsJoined' /\ EndedIsClosed'
    BY <1>1, <1>3, <2>1 DEF EndInv, StartedIsHeld, ClosedIsJoined, EndedIsClosed
  <2> QED BY <1>2, <2>2 DEF EndInv
<1>6. CASE CloseJoin(t)
  <2>1. /\ thread \notin {t, NoThread} => ~Alive(thread)
        /\ closing[t] = "join" /\ closing'[t] = "stop" /\ open' = open
    BY <1>0, <1>6 DEF StateOK, CloseJoin
  <2>2. "started" \in told => \A h \in SocketThreads : ~Alive(h)
    BY <1>1, <1>3, <2>1, TheThreads DEF EndInv, StartedIsHeld
  <2>3. StartedIsHeld' /\ ClosedIsJoined'
    BY <1>1, <1>3, <2>2 DEF StartedIsHeld, ClosedIsJoined
  <2>4. EndedIsClosed'
    BY <1>1, <2>1 DEF EndInv, EndedIsClosed
  <2> QED BY <1>2, <2>3, <2>4 DEF EndInv
<1>7. CASE CloseStop(t)
  <2>1. closing[t] = "stop" /\ closing'[t] = "no" /\ UNCHANGED <<open, thread>>
    BY <1>0, <1>7 DEF StateOK, CloseStop
  <2>2. StartedIsHeld' /\ ClosedIsJoined' /\ EndedIsClosed'
    BY <1>1, <1>3, <2>1 DEF EndInv, StartedIsHeld, ClosedIsJoined, EndedIsClosed
  <2> QED BY <1>2, <2>2 DEF EndInv
<1> QED BY <1>4, <1>5, <1>6, <1>7 DEF close

\* The steps of the application in end() and start(), and of the media thread.
LEMMA OthersKeepEndInv ==
  ASSUME IInv, LInv, EndInv,
         MediaThread \/ sendMediaMessage \/ end \/ AppThread \/ Server \/ PatientStart \/ UNCHANGED vars
  PROVE  EndInv'
<1>0. StateOK
  BY DEF IInv
<1>1. CASE close(App) \/ close(Media)
  BY <1>1, CloseKeepsEndInv
<1>2. CASE \E g \in SocketThreads : connect(g)
  <2>1. ~endedReady' /\ told' = {} /\ at'[App] = "idle"
    BY <1>0, <1>2, TheThreads DEF connect, StateOK
  <2> QED BY <2>1 DEF EndInv, EndedHasStarted, StartedIsUnclosed, StartedIsHeld, ClosedIsJoined,
          RetrieverIsOver, EndedIsClosed
<1>3. CASE ~close(App) /\ ~close(Media) /\ ~ \E g \in SocketThreads : connect(g)
  <2>1. OthersProceed
    BY <1>0, <1>3, OtherSteps
  <2>2. /\ \A g \in SocketThreads : at'[g] = at[g] /\ closing'[g] = closing[g]
        /\ \A t \in Threads : closing[t] = "join" => closing'[t] = "join"
        /\ open' = open /\ ToldAlike
    BY <1>0, <2>1, TheThreads DEF OthersProceed, StateOK
  <2>3. UNCHANGED <<thread, role>>
    BY <1>3 DEF MediaThread, AppThread, sendMediaMessage, retrieve, retrieverEnds, mediaMessageSent,
         closeAfterMediaError, end, endBroadcaster, endWatcher, Ending, sendCloseStream,
         joinWorker, endClose, PatientStart, start, Server, ServerReplies, ServerSendsMedia,
         ServerDrops, socketVars, appVars, vars
  <2>4. StartedIsUnclosed' /\ StartedIsHeld' /\ ClosedIsJoined'
    BY <2>2, <2>3 DEF EndInv, StartedIsUnclosed, StartedIsHeld, ClosedIsJoined, Alive, ToldAlike
  <2>5. EndedHasStarted' /\ RetrieverIsOver' /\ EndedIsClosed'
    <3>1. CASE endBroadcaster \/ endWatcher
      <4>1. /\ endedReady' => "started" \in told /\ (role = "watcher" => RetrieverRuns)
            /\ \/ role = "broadcaster" /\ at'[App] \in {"sendCloseStream", "endClose"}
               \/ role = "watcher" /\ at'[App] = "joinWorker"
        BY <1>0, <3>1 DEF endBroadcaster, endWatcher, Ending, Go, StateOK
      <4> QED BY <2>2, <2>3, <4>1 DEF EndedHasStarted, RetrieverIsOver, EndedIsClosed, RetrieverRuns,
              ToldAlike
    <3>3. CASE sendCloseStream \/ joinWorker
      <4>1. /\ at'[App] = "endClose" /\ at'[Media] = at[Media]
            /\ role = "broadcaster" \/ at[Media] = "off"
            /\ endedReady' = endedReady
        BY <1>0, <3>3, TheThreads DEF sendCloseStream, joinWorker, At, Go, StateOK, appVars, EndInv,
             RetrieverIsOver
      <4> QED BY <2>2, <2>3, <4>1 DEF EndInv, EndedHasStarted, RetrieverIsOver, EndedIsClosed, ToldAlike
    <3>4. CASE endClose \/ PatientStart
      <4>1. /\ closing'[App] = "test" /\ at'[Media] = at[Media]
            /\ (at[App] = "endClose" /\ at'[App] = "idle") \/ at'[App] = "connect"
            /\ endedReady' = endedReady
        BY <1>0, <3>4, TheThreads DEF endClose, PatientStart, start, At, Go, StateOK, appVars
      <4> QED BY <2>2, <2>3, <4>1 DEF EndInv, EndedHasStarted, RetrieverIsOver, EndedIsClosed, ToldAlike
    <3>5. CASE retrieve \/ retrieverEnds \/ mediaMessageSent \/ closeAfterMediaError \/ sendMediaMessage
      <4>1. /\ at'[App] = at[App] /\ closing'[App] = closing[App] /\ endedReady' = endedReady
            /\ at[Media] # "off" \/ role = "broadcaster"
        BY <1>0, <3>5, TheThreads DEF retrieve, retrieverEnds, mediaMessageSent, closeAfterMediaError,
             sendMediaMessage, checkError, At, Go, StateOK, socketVars, appVars
      <4> QED BY <2>2, <2>3, <4>1 DEF EndInv, EndedHasStarted, RetrieverIsOver, EndedIsClosed, ToldAlike
    <3>6. CASE Server \/ UNCHANGED vars
      <4>1. UNCHANGED <<at, closing, endedReady>>
        BY <3>6 DEF Server, ServerReplies, ServerSendsMedia, ServerDrops, socketVars, appVars, vars
      <4> QED BY <2>2, <2>3, <4>1 DEF EndInv, EndedHasStarted, RetrieverIsOver, EndedIsClosed, ToldAlike
    <3> QED BY <1>3, <3>1, <3>3, <3>4, <3>5, <3>6 DEF MediaThread, AppThread, end
  <2> QED BY <2>4, <2>5 DEF EndInv
<1> QED BY <1>1, <1>2, <1>3

\* In every state what was ended once it had started is closed and waited for.
THEOREM EndInvariance == Spec => []EndInv
<1>1. Init => EndInv
  <2> SUFFICES ASSUME Init PROVE EndInv
    OBVIOUS
  <2>1. ~endedReady /\ told = {} /\ at[App] = "idle"
    BY TheThreads DEF Init
  <2> QED BY <2>1 DEF EndInv, EndedHasStarted, StartedIsUnclosed, StartedIsHeld, ClosedIsJoined,
          RetrieverIsOver, EndedIsClosed
<1>2. IInv /\ LInv /\ EndInv /\ [Next]_vars => EndInv'
  <2> SUFFICES ASSUME IInv, LInv, EndInv, [Next]_vars PROVE EndInv'
    OBVIOUS
  <2>1. ASSUME NEW g \in SocketThreads, SocketThread(g) PROVE EndInv'
    BY <2>1, SocketThreadKeepsEndInv, CloseKeepsEndInv
  <2> QED BY <2>1, OthersKeepEndInv DEF Next, Threaded
<1> QED BY <1>1, <1>2, Invariance, LInvariance, PTL DEF Spec
-----------------------------------------------------------------------------
(* The invariant of the wire.                                              *)

\* How many messages the chain has received, and has asked for, when it comes to a
\* step, the server's being numbered from 1 on.
Got ==
  [sendC0 |-> 0, sendC1 |-> 0, receiveS0 |-> 0, receiveS1 |-> 1, sendC2 |-> 2, receiveS2 |-> 2,
   sendSetChunkSize |-> 3, sendConnectCommandMessage |-> 3, receiveWindowAcknowledgeSize |-> 3,
   receiveSetPeerBandWidth |-> 4, sendWindowAcknowledgeSize |-> 5, receiveSetChunkSize |-> 5,
   receiveConnectionCommandResponse |-> 6, sendCreateStreamCommand |-> 7,
   receiveCreateStreamCommandResponse |-> 7, sendPublishCommand |-> 8,
   receiveOnStatusCommandResponse |-> 8, sendPlayCommandMessage |-> 8,
   receiveStreamBeginMessage |-> 8, receivePlayOnStatusCommandMessageResponse |-> 9,
   receiveRtmpSampleAccessMessage |-> 10]
Asked ==
  [sendC0 |-> 0, sendC1 |-> 1, receiveS0 |-> 2, receiveS1 |-> 2, sendC2 |-> 2, receiveS2 |-> 3,
   sendSetChunkSize |-> 3, sendConnectCommandMessage |-> 3, receiveWindowAcknowledgeSize |-> 7,
   receiveSetPeerBandWidth |-> 7, sendWindowAcknowledgeSize |-> 7, receiveSetChunkSize |-> 7,
   receiveConnectionCommandResponse |-> 7, sendCreateStreamCommand |-> 7,
   receiveCreateStreamCommandResponse |-> 8, sendPublishCommand |-> 8,
   receiveOnStatusCommandResponse |-> 9, sendPlayCommandMessage |-> 8,
   receiveStreamBeginMessage |-> 11, receivePlayOnStatusCommandMessageResponse |-> 11,
   receiveRtmpSampleAccessMessage |-> 11]
Chain == HandshakeSteps \cup CommandSteps

\* The message a client message is answered after, and the last of its answers.
From == [C0 |-> 0, C1 |-> 1, C2 |-> 2, SetChunkSize |-> 3, Connect |-> 3, WindowAck |-> 7,
         CreateStream |-> 7, Publish |-> 8, Play |-> 8]
To   == [C0 |-> 1, C1 |-> 2, C2 |-> 3, SetChunkSize |-> 3, Connect |-> 7, WindowAck |-> 7,
         CreateStream |-> 8, Publish |-> 9, Play |-> 11]

\* The kind of the n-th message of the server to a session of role r.
IsNth(r, n, kind) ==
  /\ n = 1 => kind = "S0"
  /\ n = 2 => kind = "S1"
  /\ n = 3 => kind = "S2"
  /\ n = 4 => kind = "WindowAck"
  /\ n = 5 => kind = "SetPeerBW"
  /\ n = 6 => kind = "SetChunkSize"
  /\ n = 7 => kind = "ConnectResult"
  /\ n = 8 => kind = "CreateStreamResult"
  /\ n = 9 => kind = IF r = "broadcaster" THEN "OnStatus" ELSE "StreamBegin"
  /\ r = "watcher" => /\ n = 10 => kind = "OnStatus"
                      /\ n = 11 => kind = "SampleAccess"

\* The client messages in q ask for those after the n-th up to the m-th: asks[i] is the
\* number of the last one before those the i-th asks for.
AsksFor(q, n, m) ==
  \E asks \in [1 .. Len(q) + 1 -> 0 .. 11] :
    /\ asks[1] = n /\ asks[Len(q) + 1] = m
    /\ \A i \in 1 .. Len(q) :
         IF q[i] = "CloseStream" THEN asks[i + 1] = asks[i]
                                 ELSE asks[i] = From[q[i]] /\ asks[i + 1] = To[q[i]]

\* What a thread at step l of the chain is sent is what comes next, and what it has asked
\* for and is not sent yet is being asked for; a watcher that has all gets media.
Heard(l) == Got[l] + Len(s2c)
Last(n)  == IF n > 11 THEN 11 ELSE n
InStep(l) ==
  /\ \A i \in DOMAIN s2c : IsNth(role, Got[l] + i, s2c[i].kind)
  /\ link = "up" => /\ AsksFor(c2s, Last(Heard(l)), Asked[l])
                    /\ role = "watcher" /\ granted => Heard(l) >= 11
StaysInStep(g) ==
  at[g] \in Chain /\ open /\ "unlisted" \notin cause => InStep(at[g])

\* Each session has steps of its own.
OwnStep(l) ==
  /\ l \in {"sendPublishCommand", "receiveOnStatusCommandResponse"} => role = "broadcaster"
  /\ l \in {"sendPlayCommandMessage", "receiveStreamBeginMessage",
            "receivePlayOnStatusCommandMessageResponse",
            "receiveRtmpSampleAccessMessage"} => role = "watcher"

\* What the server refused is in cause, ...
RefusalIsKnown(g) ==
  /\ at[g] \in Chain /\ open /\ "refused" \notin cause => \A i \in DOMAIN s2c : s2c[i].ok
  /\ at[g] \in {"receiveSetPeerBandWidth", "sendWindowAcknowledgeSize"} /\ open /\ ~wack =>
       "refused" \in cause

\* ... and without a cause the chain goes on until it has told.
Unsettled(g) == thread = g /\ open /\ told \cap {"started", "closed"} = {} /\ cause = {}
GoesOnUntilTold(g) == Unsettled(g) => at[g] \notin Over \/ closing[g] \in {"test", "inner"}

WireOf(g) == StaysInStep(g) /\ OwnStep(at[g]) /\ RefusalIsKnown(g) /\ GoesOnUntilTold(g)

\* Nobody else reads while the chain runs.
MediaWaits == (\E g \in SocketThreads : at[g] \notin Over) => at[Media] = "off"

WireInv == MediaWaits /\ \A g \in SocketThreads : WireOf(g)

-----------------------------------------------------------------------------
(* What is asked for.                                                      *)

LEMMA NothingAsked == ASSUME NEW n \in 0 .. 11 PROVE AsksFor(<<>>, n, n)
<1> DEFINE asks == [i \in 1 .. 1 |-> n]
<1>1. Len(<<>>) = 0 /\ 0 + 1 = 1 /\ asks \in [1 .. 1 -> 0 .. 11] /\ asks[1] = n
  OBVIOUS
<1> HIDE DEF asks
<1> QED BY <1>1 DEF AsksFor

\* A message that asks for what comes next, and one that asks for nothing.
LEMMA AsksMore ==
  ASSUME NEW q \in Seq(ClientMsgs), NEW n, NEW m, AsksFor(q, n, m),
         NEW msg, NEW k \in 0 .. 11,
         IF msg = "CloseStream" THEN k = m ELSE m = From[msg] /\ k = To[msg]
  PROVE  AsksFor(Append(q, msg), n, k)
<1>1. PICK asks \in [1 .. Len(q) + 1 -> 0 .. 11] :
        /\ asks[1] = n /\ asks[Len(q) + 1] = m
        /\ \A i \in 1 .. Len(q) :
             IF q[i] = "CloseStream" THEN asks[i + 1] = asks[i]
                                     ELSE asks[i] = From[q[i]] /\ asks[i + 1] = To[q[i]]
  BY DEF AsksFor
<1>2. Len(q) \in Nat
  OBVIOUS
<1> DEFINE r == Append(q, msg)
           more == [i \in 1 .. Len(q) + 2 |-> IF i = Len(q) + 2 THEN k ELSE asks[i]]
<1>3. /\ Len(r) = Len(q) + 1
      /\ \A i \in 1 .. Len(q) : r[i] = q[i]
      /\ r[Len(q) + 1] = msg
  OBVIOUS
<1>4. /\ more \in [1 .. Len(r) + 1 -> 0 .. 11]
      /\ \A i \in 1 .. Len(q) + 1 : more[i] = asks[i]
      /\ more[Len(q) + 2] = k
  BY <1>1, <1>2, <1>3
<1> HIDE DEF r, more
<1>5. more[1] = n /\ more[Len(r) + 1] = k
  BY <1>1, <1>2, <1>3, <1>4
<1>6. \A i \in 1 .. Len(r) :
         IF r[i] = "CloseStream" THEN more[i + 1] = more[i]
                                 ELSE more[i] = From[r[i]] /\ more[i + 1] = To[r[i]]
  <2>1. ASSUME NEW i \in 1 .. Len(q)
        PROVE  r[i] = q[i] /\ more[i] = asks[i] /\ more[i + 1] = asks[i + 1]
    BY <1>2, <1>3, <1>4
  <2>2. more[Len(q) + 1] = m /\ more[Len(q) + 1 + 1] = k
    BY <1>1, <1>2, <1>4
  <2> QED BY <1>1, <1>2, <1>3, <2>1, <2>2
<1>7. AsksFor(r, n, k)
  BY <1>4, <1>5, <1>6 DEF AsksFor
<1> QED BY <1>7 DEF r

LEMMA AsksLess ==
  ASSUME NEW q \in Seq(ClientMsgs), q # <<>>, NEW n, NEW m, AsksFor(q, n, m)
  PROVE  IF Head(q) = "CloseStream" THEN AsksFor(Tail(q), n, m)
         ELSE n = From[Head(q)] /\ AsksFor(Tail(q), To[Head(q)], m)
<1>1. PICK asks \in [1 .. Len(q) + 1 -> 0 .. 11] :
        /\ asks[1] = n /\ asks[Len(q) + 1] = m
        /\ \A i \in 1 .. Len(q) :
             IF q[i] = "CloseStream" THEN asks[i + 1] = asks[i]
                                     ELSE asks[i] = From[q[i]] /\ asks[i + 1] = To[q[i]]
  BY DEF AsksFor
<1>2. Len(q) \in Nat /\ Len(q) >= 1 /\ q[1] = Head(q)
  OBVIOUS
<1> DEFINE r == Tail(q)
           less == [i \in 1 .. Len(q) |-> asks[i + 1]]
<1>3. Len(r) = Len(q) - 1 /\ \A i \in 1 .. Len(r) : r[i] = q[i + 1] /\ i + 1 \in 1 .. Len(q)
  BY <1>2
<1>4. /\ less \in [1 .. Len(r) + 1 -> 0 .. 11]
      /\ \A i \in 1 .. Len(r) + 1 : less[i] = asks[i + 1]
  BY <1>1, <1>2, <1>3
<1> HIDE DEF r, less
<1>5. less[1] = asks[1 + 1] /\ less[Len(r) + 1] = m
  BY <1>1, <1>2, <1>3, <1>4
<1>6. /\ Head(q) = "CloseStream" => asks[1 + 1] = n
      /\ Head(q) # "CloseStream" => n = From[Head(q)] /\ asks[1 + 1] = To[Head(q)]
  BY <1>1, <1>2
<1>7. \A i \in 1 .. Len(r) :
         IF r[i] = "CloseStream" THEN less[i + 1] = less[i]
                                 ELSE less[i] = From[r[i]] /\ less[i + 1] = To[r[i]]
  <2>1. ASSUME NEW i \in 1 .. Len(r)
        PROVE  less[i] = asks[i + 1] /\ less[i + 1] = asks[i + 1 + 1]
    BY <1>2, <1>3, <1>4
  <2> QED BY <1>1, <1>3, <2>1
<1>8. AsksFor(r, asks[1 + 1], m)
  BY <1>4, <1>5, <1>7 DEF AsksFor
<1> QED BY <1>6, <1>8 DEF r

-----------------------------------------------------------------------------
(* The socket thread keeps its step.                                       *)

\* Steps of thread g that fail: it closes the socket, found it closed, or has a cause.
LEMMA FailsKeepsWire ==
  ASSUME StateOK, NEW g \in SocketThreads, NEW l \in Chain, At(g, l),
         Fails(g, l) \/ FindsItClosed(g, l)
  PROVE  WireOf(g)'
<1>1. at'[g] \in {"handshakeDone", "exit"}
  BY DEF Fails, FindsItClosed, Unwound, Go, StateOK
<1>2. open' => cause' # {} \/ closing'[g] = "test"
  BY DEF Fails, FindsItClosed, checkError, Errors, StateOK, socketVars
<1> QED BY <1>1, <1>2 DEF WireOf, StaysInStep, OwnStep, RefusalIsKnown, GoesOnUntilTold, Unsettled,
        Chain

\* Where the acknowledgement's size has to be known.
AfterSize == {"receiveSetPeerBandWidth", "sendWindowAcknowledgeSize"}

LEMMA SendKeepsWire ==
  ASSUME StateOK, NEW g \in SocketThreads, WireOf(g), NEW l \in Chain,
         NEW msg \in DOMAIN From, NEW next \in Chain \ AfterSize,
         Asked[l] = From[msg], Asked[next] = To[msg], Got[next] = Got[l], OwnStep(next),
         SendStep(g, l, msg, next)
  PROVE  WireOf(g)'
<1>1. CASE Fails(g, l) \/ FindsItClosed(g, l)
  BY <1>1, FailsKeepsWire DEF SendStep
<1>2. CASE /\ Connected
           /\ c2s' = IF link = "up" THEN Append(c2s, msg) ELSE c2s
           /\ Go(g, next)
           /\ UNCHANGED <<socketVars, sessionFlags, s2c, granted, cause, told, appVars>>
  <2>1. /\ at[g] = l /\ at'[g] = next /\ open
        /\ UNCHANGED <<role, open, link, s2c, granted, cause, told, wack, thread>>
    BY <1>2 DEF SendStep, At, Go, StateOK, Connected, socketVars, sessionFlags, appVars
  <2>2. msg # "CloseStream" /\ To[msg] \in 0 .. 11
    BY DEF From, To
  <2>3. c2s \in Seq(ClientMsgs) /\ (link = "up" => c2s' = Append(c2s, msg))
    BY <1>2 DEF StateOK
  <2>4. "unlisted" \notin cause => InStep(l)
    BY <2>1 DEF WireOf, StaysInStep
  <2>5. Heard(next)' = Heard(l) /\ \A i : Got[next] + i = Got[l] + i
    BY <2>1 DEF Heard
  <2>6. link = "up" /\ "unlisted" \notin cause => AsksFor(c2s', Last(Heard(l)), Asked[next])
    BY <2>2, <2>3, <2>4, AsksMore DEF InStep
  <2>7. "unlisted" \notin cause => InStep(next)'
    BY <2>1, <2>4, <2>5, <2>6 DEF InStep
  <2>8. StaysInStep(g)'
    BY <2>1, <2>7 DEF StaysInStep
  <2>9. OwnStep(at[g])' /\ RefusalIsKnown(g)' /\ GoesOnUntilTold(g)'
    BY <2>1 DEF WireOf, OwnStep, RefusalIsKnown, GoesOnUntilTold, AfterSize, Chain, Over, Idle
  <2> QED BY <2>8, <2>9 DEF WireOf
<1> QED BY <1>1, <1>2 DEF SendStep

\* What a step that receives finds is what it is for ...
LEMMA HeadIsNext ==
  ASSUME StateOK, NEW g \in SocketThreads, WireOf(g), at[g] \in DOMAIN Expected,
         open, s2c # <<>>, "unlisted" \notin cause
  PROVE  Head(s2c).kind = Expected[at[g]]
<1>1. s2c \in Seq(ServerMsgs) /\ 1 \in DOMAIN s2c /\ s2c[1] = Head(s2c)
  BY DEF StateOK
<1>2. at[g] \in Chain
  BY DEF Expected, Chain
<1>3. IsNth(role, Got[at[g]] + 1, Head(s2c).kind)
  BY <1>1, <1>2 DEF WireOf, StaysInStep, InStep
<1> QED BY <1>3 DEF WireOf, OwnStep, IsNth, Got, Expected

\* ... and what remains is in step with where it goes.
LEMMA TakesNext ==
  ASSUME StateOK, NEW g \in SocketThreads, WireOf(g), NEW l \in Chain, at[g] = l,
         Connected, s2c # <<>>, s2c' = Tail(s2c),
         UNCHANGED <<role, open, link, c2s, granted, cause>>,
         NEW next \in Chain, Got[next] = Got[l] + 1, Asked[next] = Asked[l], at'[g] = next
  PROVE  StaysInStep(g)'
<1> SUFFICES ASSUME "unlisted" \notin cause PROVE InStep(next)'
  BY DEF StaysInStep
<1>1. /\ s2c \in Seq(ServerMsgs) /\ Len(s2c) \in Nat /\ Len(s2c') = Len(s2c) - 1
      /\ \A i \in DOMAIN s2c' : i \in Nat /\ i + 1 \in DOMAIN s2c /\ s2c'[i] = s2c[i + 1]
  BY DEF StateOK
<1>2. InStep(l)
  BY DEF WireOf, StaysInStep, Connected
<1>3. Got[l] \in Nat
  BY DEF Got, Chain
<1>4. Heard(next)' = Heard(l)
  BY <1>1, <1>3 DEF Heard
<1>5. \A i \in DOMAIN s2c' : IsNth(role, Got[next] + i, s2c'[i].kind)
  <2> TAKE i \in DOMAIN s2c'
  <2>0. i \in Nat /\ i + 1 \in DOMAIN s2c /\ s2c'[i] = s2c[i + 1]
    BY <1>1, Zenon
  <2>1. Got[next] + i = Got[l] + (i + 1)
    <3>1. \A m, n \in Nat : (m + 1) + n = m + (n + 1)
      OBVIOUS
    <3> QED BY <1>3, <2>0, <3>1
  <2> QED BY <1>2, <2>0, <2>1 DEF InStep
<1> QED BY <1>2, <1>4, <1>5 DEF InStep

LEMMA TakesKnown ==
  ASSUME StateOK, NEW g \in SocketThreads, WireOf(g), at[g] \in Chain, open,
         s2c # <<>>, s2c' = Tail(s2c), "refused" \notin cause
  PROVE  Head(s2c).ok /\ \A i \in DOMAIN s2c' : s2c'[i].ok
<1>1. /\ s2c \in Seq(ServerMsgs) /\ 1 \in DOMAIN s2c /\ Head(s2c) = s2c[1]
      /\ \A i \in DOMAIN s2c' : i + 1 \in DOMAIN s2c /\ s2c'[i] = s2c[i + 1]
  BY DEF StateOK
<1> QED BY <1>1 DEF WireOf, RefusalIsKnown

LEMMA ReceiveKeepsWire ==
  ASSUME StateOK, NEW g \in SocketThreads, WireOf(g), NEW l \in DOMAIN Expected,
         NEW next \in Chain \cup {"sessionReady"},
         next \in Chain => Got[next] = Got[l] + 1 /\ Asked[next] = Asked[l],
         next \in AfterSize => l \in AfterSize, OwnStep(next),
         NEW refused \in {next, "exit", "handshakeDone", "statusRefused"},
         ReceiveStep(g, l, next, refused)
  PROVE  WireOf(g)'
<1>0. l \in Chain
  BY DEF Expected, Chain
<1>1. CASE Fails(g, l) \/ FindsItClosed(g, l)
  BY <1>0, <1>1, FailsKeepsWire DEF ReceiveStep
<1>2. CASE /\ Connected
           /\ s2c # <<>>
           /\ s2c' = Tail(s2c)
           /\ Go(g, IF Accepts(l, Head(s2c)) THEN next ELSE refused)
           /\ UNCHANGED <<socketVars, sessionFlags, c2s, granted, cause, told, appVars>>
  <2>1. /\ at[g] = l /\ open
        /\ at'[g] = IF Accepts(l, Head(s2c)) THEN next ELSE refused
        /\ UNCHANGED <<role, open, link, c2s, granted, cause, told, wack, thread>>
    BY <1>2 DEF ReceiveStep, At, Go, StateOK, Connected, socketVars, sessionFlags, appVars
  <2>2. "refused" \notin cause => \A i \in DOMAIN s2c' : s2c'[i].ok
    BY <1>0, <1>2, <2>1, TakesKnown
  <2>3. CASE at'[g] = next
    <3>1. StaysInStep(g)'
      <4>1. CASE next \in Chain
        BY <1>0, <1>2, <2>1, <2>3, <4>1, TakesNext
      <4>2. CASE next \notin Chain
        BY <2>3, <4>2 DEF StaysInStep
      <4> QED BY <4>1, <4>2
    <3>2. OwnStep(at[g])'
      BY <2>1, <2>3 DEF OwnStep
    <3>3. RefusalIsKnown(g)'
      BY <2>1, <2>2, <2>3, <1>0 DEF WireOf, RefusalIsKnown, AfterSize
    <3>4. GoesOnUntilTold(g)'
      BY <2>3 DEF GoesOnUntilTold, Chain, Over, Idle
    <3> QED BY <3>1, <3>2, <3>3, <3>4 DEF WireOf
  <2>4. CASE at'[g] # next
    <3>1. ~Accepts(l, Head(s2c)) /\ at'[g] \in {"exit", "handshakeDone", "statusRefused"}
      BY <2>1, <2>4
    <3>2. cause # {}
      <4>1. "refused" \in cause \/ Head(s2c).ok
        BY <1>0, <1>2, <2>1, TakesKnown
      <4>2. "unlisted" \in cause \/ Head(s2c).kind = Expected[l]
        BY <1>2, <2>1, HeadIsNext
      <4> QED BY <3>1, <4>1, <4>2 DEF Accepts
    <3> QED BY <2>1, <3>1, <3>2 DEF WireOf, StaysInStep, OwnStep, RefusalIsKnown, GoesOnUntilTold,
            Unsettled, Chain
  <2> QED BY <2>3, <2>4
<1> QED BY <1>1, <1>2 DEF ReceiveStep

LEMMA ReceiveDynamicKeepsWire ==
  ASSUME StateOK, NEW g \in SocketThreads, WireOf(g), NEW l \in DOMAIN Expected,
         NEW next \in (Chain \ AfterSize) \cup {"sessionReady"},
         next \in Chain => Got[next] = Got[l] + 1 /\ Asked[next] = Asked[l], OwnStep(next),
         NEW refused \in {next, "exit", "handshakeDone", "statusRefused"},
         NEW onEmpty \in {next, "exit", "handshakeDone", "statusRefused"},
         ReceiveDynamicStep(g, l, next, refused, onEmpty)
  PROVE  WireOf(g)'
<1>1. CASE ReceiveStep(g, l, next, refused)
  <2>1. next \in Chain \cup {"sessionReady"} /\ next \notin AfterSize
    BY DEF AfterSize
  <2> QED BY <1>1, <2>1, ReceiveKeepsWire
<1>2. CASE /\ At(g, l)
           /\ cause' = cause \cup {"unlisted"}
           /\ Go(g, onEmpty)
           /\ UNCHANGED <<socketVars, sessionFlags, wireVars, told, appVars>>
  <2>1. /\ at[g] = l /\ l \in Chain /\ at'[g] = onEmpty /\ "unlisted" \in cause'
        /\ UNCHANGED <<role, open, s2c>> /\ cause \subseteq cause'
    BY <1>2 DEF At, Go, StateOK, socketVars, wireVars, appVars, Expected, Chain
  <2>2. OwnStep(at[g])'
    BY <2>1 DEF OwnStep
  <2>3. RefusalIsKnown(g)'
    BY <2>1 DEF WireOf, RefusalIsKnown, AfterSize
  <2> QED BY <2>1, <2>2, <2>3 DEF WireOf, StaysInStep, GoesOnUntilTold, Unsettled
<1> QED BY <1>1, <1>2 DEF ReceiveDynamicStep

LEMMA ReceiveSizeKeepsWire ==
  ASSUME StateOK, NEW g \in SocketThreads, WireOf(g), receiveWindowAcknowledgeSize(g)
  PROVE  WireOf(g)'
<1> DEFINE l == "receiveWindowAcknowledgeSize"
           next == "receiveSetPeerBandWidth"
<1>0. /\ l \in Chain /\ next \in Chain /\ at[g] = l
      /\ Got[next] = Got[l] + 1 /\ Asked[next] = Asked[l]
  BY DEF Chain, Got, Asked, receiveWindowAcknowledgeSize, At
<1>1. CASE Fails(g, l) \/ FindsItClosed(g, l)
  BY <1>0, <1>1, FailsKeepsWire DEF receiveWindowAcknowledgeSize
<1>2. CASE /\ Connected
           /\ s2c # <<>>
           /\ s2c' = Tail(s2c)
           /\ wack' = Head(s2c).ok
           /\ Go(g, next)
           /\ UNCHANGED <<socketVars, stopped, c2s, granted, cause, told, appVars>>
  <2>1. at'[g] = next /\ UNCHANGED <<role, open, link, c2s, granted, cause>> /\ open
    BY <1>2 DEF Go, StateOK, Connected, socketVars, appVars
  <2>2. StaysInStep(g)'
    BY <1>0, <1>2, <2>1, TakesNext
  <2>3. "refused" \notin cause => Head(s2c).ok /\ \A i \in DOMAIN s2c' : s2c'[i].ok
    BY <1>0, <1>2, <2>1, TakesKnown
  <2>4. RefusalIsKnown(g)'
    BY <1>2, <2>1, <2>3 DEF RefusalIsKnown
  <2> QED BY <2>1, <2>2, <2>4 DEF WireOf, OwnStep, GoesOnUntilTold, Over, Idle
<1> QED BY <1>1, <1>2 DEF receiveWindowAcknowledgeSize

\* Without a size there is nothing to acknowledge: the server refused it.
LEMMA SendSizeKeepsWire ==
  ASSUME StateOK, NEW g \in SocketThreads, WireOf(g), sendWindowAcknowledgeSize(g)
  PROVE  WireOf(g)'
<1> DEFINE l == "sendWindowAcknowledgeSize"
           next == "receiveSetChunkSize"
<1>1. CASE SendStep(g, l, "WindowAck", next)
  <2>1. /\ l \in Chain /\ next \in Chain \ AfterSize /\ "WindowAck" \in DOMAIN From
        /\ Asked[l] = From["WindowAck"] /\ Asked[next] = To["WindowAck"] /\ Got[next] = Got[l]
        /\ OwnStep(next)
    BY DEF Chain, AfterSize, Got, Asked, From, To, OwnStep
  <2> QED BY <1>1, <2>1, SendKeepsWire
<1>2. CASE ~wack /\ At(g, l) /\ Go(g, "handshakeDone")
           /\ UNCHANGED <<socketVars, sessionFlags, wireVars, cause, told, appVars>>
  <2>1. at[g] = l /\ at'[g] = "handshakeDone" /\ UNCHANGED <<open, cause>>
    BY <1>2 DEF At, Go, StateOK, socketVars
  <2>2. open => cause # {}
    BY <1>2, <2>1 DEF WireOf, RefusalIsKnown
  <2> QED BY <2>1, <2>2 DEF WireOf, StaysInStep, OwnStep, RefusalIsKnown, GoesOnUntilTold, Unsettled,
          Chain
<1> QED BY <1>1, <1>2 DEF sendWindowAcknowledgeSize

LEMMA LeavingKeepsWire ==
  ASSUME StateOK, NEW g \in SocketThreads, WireOf(g),
         \/ statusRefused(g) \/ sessionReady(g) \/ startMediaPacketRetriever(g)
         \/ handshakeDone(g) \/ FailedToConnect(g)
  PROVE  WireOf(g)'
<1>1. at'[g] \in FinalSteps \cup {"exit"}
  BY TheThreads DEF statusRefused, sessionReady, startMediaPacketRetriever, handshakeDone,
     FailedToConnect, AfterReady, Go, StateOK
<1>2. StaysInStep(g)' /\ OwnStep(at[g])' /\ RefusalIsKnown(g)'
  BY <1>1 DEF StaysInStep, OwnStep, RefusalIsKnown, Chain
<1>3. GoesOnUntilTold(g)'
  <2>1. CASE statusRefused(g)
    <3>1. closing'[g] = "test"
      BY <2>1 DEF statusRefused, StateOK
    <3> QED BY <3>1 DEF GoesOnUntilTold
  <2>2. CASE sessionReady(g)
    <3>1. (~open' \/ at'[g] = "notifyReady") \/ "started" \in told'
      BY <2>2 DEF sessionReady, Go, Tell, StateOK, socketVars
    <3> QED BY <3>1 DEF GoesOnUntilTold, Unsettled, Over, Idle
  <2>3. CASE startMediaPacketRetriever(g) \/ handshakeDone(g)
    <3>1. at[g] \in Over /\ closing[g] = "no"
      BY <2>3 DEF startMediaPacketRetriever, handshakeDone, At, Over, Idle
    <3>2. /\ UNCHANGED <<thread, open, cause>> /\ told \subseteq told'
      BY <2>3 DEF startMediaPacketRetriever, handshakeDone, Tell, socketVars
    <3>3. ~Unsettled(g)
      BY <3>1 DEF WireOf, GoesOnUntilTold
    <3> QED BY <3>2, <3>3 DEF GoesOnUntilTold, Unsettled
  <2>4. CASE FailedToConnect(g)
    BY <2>4 DEF FailedToConnect, Tell, GoesOnUntilTold, Unsettled
  <2> QED BY <2>1, <2>2, <2>3, <2>4
<1> QED BY <1>2, <1>3 DEF WireOf

LEMMA ConnectingKeepsWire ==
  ASSUME StateOK, NEW g \in SocketThreads, WireOf(g), resolve(g) \/ connectImpl(g)
  PROVE  WireOf(g)'
<1>1. CASE FailedToConnect(g)
  BY <1>1, LeavingKeepsWire
<1>2. CASE resolve(g) /\ Go(g, "connectImpl")
  <2>1. at'[g] = "connectImpl"
    BY <1>2 DEF Go, StateOK
  <2> QED BY <2>1 DEF WireOf, StaysInStep, OwnStep, RefusalIsKnown, GoesOnUntilTold, Chain, Over, Idle
<1>3. CASE /\ c2s' = <<>> /\ s2c' = <<>> /\ granted' = FALSE
           /\ Go(g, "sendC0")
  <2>1. at'[g] = "sendC0" /\ Got["sendC0"] = 0 /\ Asked["sendC0"] = 0
    BY <1>3 DEF Go, StateOK, Got, Asked
  <2>2. Len(s2c') = 0 /\ Last(0) = 0 /\ AsksFor(c2s', 0, 0)
    BY <1>3, NothingAsked DEF Last
  <2>3. InStep("sendC0")'
    BY <1>3, <2>1, <2>2 DEF InStep, Heard
  <2>4. StaysInStep(g)'
    BY <2>1, <2>3 DEF StaysInStep
  <2> QED BY <1>3, <2>1, <2>4 DEF WireOf, OwnStep, RefusalIsKnown, GoesOnUntilTold, Over, Idle
<1> QED BY <1>1, <1>2, <1>3 DEF resolve, connectImpl

LEMMA HandshakeKeepsWire ==
  ASSUME StateOK, NEW g \in SocketThreads, WireOf(g), handshake(g)
  PROVE  WireOf(g)'
<1>1. CASE handshakeDone(g)
  BY <1>1, LeavingKeepsWire
<1>2. CASE sendC0(g) \/ sendC1(g) \/ sendC2(g)
  <2>1. ASSUME NEW l, NEW msg, NEW next, SendStep(g, l, msg, next),
               <<l, msg, next>> \in {<<"sendC0", "C0", "sendC1">>, <<"sendC1", "C1", "receiveS0">>,
                                     <<"sendC2", "C2", "receiveS2">>}
        PROVE  WireOf(g)'
    <3>1. /\ l \in Chain /\ next \in Chain \ AfterSize /\ msg \in DOMAIN From
          /\ Asked[l] = From[msg] /\ Asked[next] = To[msg] /\ Got[next] = Got[l]
          /\ OwnStep(next)
      BY <2>1 DEF Chain, AfterSize, Got, Asked, From, To, OwnStep
    <3> QED BY <2>1, <3>1, SendKeepsWire
  <2> QED BY <1>2, <2>1 DEF sendC0, sendC1, sendC2
<1>3. CASE receiveS0(g) \/ receiveS1(g) \/ receiveS2(g)
  <2>1. ASSUME NEW l, NEW next, ReceiveStep(g, l, next, "exit"),
               <<l, next>> \in {<<"receiveS0", "receiveS1">>, <<"receiveS1", "sendC2">>,
                                <<"receiveS2", "sendSetChunkSize">>}
        PROVE  WireOf(g)'
    <3>1. /\ l \in DOMAIN Expected /\ next \in Chain /\ next \notin AfterSize
          /\ Got[next] = Got[l] + 1 /\ Asked[next] = Asked[l] /\ OwnStep(next)
      BY <2>1 DEF Expected, Chain, AfterSize, Got, Asked, OwnStep
    <3> QED BY <2>1, <3>1, ReceiveKeepsWire
  <2> QED BY <1>3, <2>1 DEF receiveS0, receiveS1, receiveS2
<1> QED BY <1>1, <1>2, <1>3 DEF handshake

LEMMA ConnectChainKeepsWire ==
  ASSUME StateOK, NEW g \in SocketThreads, WireOf(g), connectChain(g)
  PROVE  WireOf(g)'
<1>1. CASE sendSetChunkSize(g) \/ sendConnectCommandMessage(g) \/ sendCreateStreamCommand(g)
  <2>1. ASSUME NEW l, NEW msg, NEW next, SendStep(g, l, msg, next),
               <<l, msg, next>> \in
                 {<<"sendSetChunkSize", "SetChunkSize", "sendConnectCommandMessage">>,
                  <<"sendConnectCommandMessage", "Connect", "receiveWindowAcknowledgeSize">>,
                  <<"sendCreateStreamCommand", "CreateStream", "receiveCreateStreamCommandResponse">>}
        PROVE  WireOf(g)'
    <3>1. /\ l \in Chain /\ next \in Chain \ AfterSize /\ msg \in DOMAIN From
          /\ Asked[l] = From[msg] /\ Asked[next] = To[msg] /\ Got[next] = Got[l]
          /\ OwnStep(next)
      BY <2>1 DEF Chain, AfterSize, Got, Asked, From, To, OwnStep
    <3> QED BY <2>1, <3>1, SendKeepsWire
  <2> QED BY <1>1, <2>1 DEF sendSetChunkSize, sendConnectCommandMessage, sendCreateStreamCommand
<1>2. CASE receiveSetPeerBandWidth(g) \/ receiveSetChunkSize(g)
  <2>1. ASSUME NEW l, NEW next, ReceiveStep(g, l, next, "handshakeDone"),
               <<l, next>> \in {<<"receiveSetPeerBandWidth", "sendWindowAcknowledgeSize">>,
                                <<"receiveSetChunkSize", "receiveConnectionCommandResponse">>}
        PROVE  WireOf(g)'
    <3>1. /\ l \in DOMAIN Expected /\ next \in Chain /\ (next \in AfterSize => l \in AfterSize)
          /\ Got[next] = Got[l] + 1 /\ Asked[next] = Asked[l] /\ OwnStep(next)
      BY <2>1 DEF Expected, Chain, AfterSize, Got, Asked, OwnStep
    <3> QED BY <2>1, <3>1, ReceiveKeepsWire
  <2> QED BY <1>2, <2>1 DEF receiveSetPeerBandWidth, receiveSetChunkSize
<1>3. CASE receiveConnectionCommandResponse(g)
  <2> DEFINE l == "receiveConnectionCommandResponse"
             next == "sendCreateStreamCommand"
  <2>1. /\ l \in DOMAIN Expected /\ next \in Chain \ AfterSize
        /\ Got[next] = Got[l] + 1 /\ Asked[next] = Asked[l] /\ OwnStep(next)
    BY DEF Expected, Chain, AfterSize, Got, Asked, OwnStep
  <2>2. ReceiveDynamicStep(g, l, next, "handshakeDone", "handshakeDone")
    BY <1>3 DEF receiveConnectionCommandResponse
  <2> HIDE DEF l, next
  <2> QED BY <2>1, <2>2, ReceiveDynamicKeepsWire
<1>4. CASE receiveWindowAcknowledgeSize(g) \/ sendWindowAcknowledgeSize(g)
  BY <1>4, ReceiveSizeKeepsWire, SendSizeKeepsWire
<1> QED BY <1>1, <1>2, <1>3, <1>4 DEF connectChain

LEMMA BroadcasterChainKeepsWire ==
  ASSUME StateOK, NEW g \in SocketThreads, WireOf(g), broadcasterChain(g)
  PROVE  WireOf(g)'
<1>0. role = "broadcaster"
  BY DEF broadcasterChain
<1>1. CASE connectChain(g)
  BY <1>1, ConnectChainKeepsWire
<1>2. CASE receiveCreateStreamCommandResponse(g, "sendPublishCommand")
  <2> DEFINE l == "receiveCreateStreamCommandResponse"
             next == "sendPublishCommand"
  <2>1. /\ l \in DOMAIN Expected /\ next \in Chain \ AfterSize
        /\ Got[next] = Got[l] + 1 /\ Asked[next] = Asked[l] /\ OwnStep(next)
    BY <1>0 DEF Expected, Chain, AfterSize, Got, Asked, OwnStep
  <2>2. ReceiveDynamicStep(g, l, next, next, next)
    BY <1>2 DEF receiveCreateStreamCommandResponse
  <2> HIDE DEF l, next
  <2> QED BY <2>1, <2>2, ReceiveDynamicKeepsWire
<1>3. CASE sendPublishCommand(g)
  <2> DEFINE l == "sendPublishCommand"
             next == "receiveOnStatusCommandResponse"
  <2>1. /\ l \in Chain /\ next \in Chain \ AfterSize /\ "Publish" \in DOMAIN From
        /\ Asked[l] = From["Publish"] /\ Asked[next] = To["Publish"] /\ Got[next] = Got[l]
        /\ OwnStep(next)
    BY <1>0 DEF Chain, AfterSize, Got, Asked, From, To, OwnStep
  <2>2. SendStep(g, l, "Publish", next)
    BY <1>3 DEF sendPublishCommand
  <2> HIDE DEF l, next
  <2> QED BY <2>1, <2>2, SendKeepsWire
<1>4. CASE receiveOnStatusCommandResponse(g)
  <2> DEFINE l == "receiveOnStatusCommandResponse"
  <2>1. l \in DOMAIN Expected /\ "sessionReady" \notin Chain /\ OwnStep("sessionReady")
    BY DEF Expected, Chain, OwnStep
  <2>2. ReceiveDynamicStep(g, l, "sessionReady", "statusRefused", "statusRefused")
    BY <1>4 DEF receiveOnStatusCommandResponse
  <2> HIDE DEF l
  <2> QED BY <2>1, <2>2, ReceiveDynamicKeepsWire
<1> QED BY <1>1, <1>2, <1>3, <1>4 DEF broadcasterChain

LEMMA WatcherChainKeepsWire ==
  ASSUME StateOK, NEW g \in SocketThreads, WireOf(g), watcherChain(g)
  PROVE  WireOf(g)'
<1>0. role = "watcher"
  BY DEF watcherChain
<1>1. CASE connectChain(g) \/ startMediaPacketRetriever(g)
  BY <1>1, ConnectChainKeepsWire, LeavingKeepsWire
<1>2. CASE \/ receiveCreateStreamCommandResponse(g, "sendPlayCommandMessage")
           \/ receiveStreamBeginMessage(g) \/ receivePlayOnStatusCommandMessageResponse(g)
  <2>1. ASSUME NEW l, NEW next, NEW refused, ReceiveDynamicStep(g, l, next, refused, refused),
               <<l, next, refused>> \in
                 {<<"receiveCreateStreamCommandResponse", "sendPlayCommandMessage",
                    "sendPlayCommandMessage">>,
                  <<"receiveStreamBeginMessage", "receivePlayOnStatusCommandMessageResponse",
                    "receivePlayOnStatusCommandMessageResponse">>,
                  <<"receivePlayOnStatusCommandMessageResponse", "receiveRtmpSampleAccessMessage",
                    "statusRefused">>}
        PROVE  WireOf(g)'
    <3>1. /\ l \in DOMAIN Expected /\ next \in Chain \ AfterSize
          /\ Got[next] = Got[l] + 1 /\ Asked[next] = Asked[l] /\ OwnStep(next)
          /\ refused \in {next, "exit", "handshakeDone", "statusRefused"}
      BY <1>0, <2>1 DEF Expected, Chain, AfterSize, Got, Asked, OwnStep
    <3> QED BY <2>1, <3>1, ReceiveDynamicKeepsWire
  <2> QED BY <1>2, <2>1 DEF receiveCreateStreamCommandResponse, receiveStreamBeginMessage,
          receivePlayOnStatusCommandMessageResponse
<1>3. CASE sendPlayCommandMessage(g)
  <2> DEFINE l == "sendPlayCommandMessage"
             next == "receiveStreamBeginMessage"
  <2>1. /\ l \in Chain /\ next \in Chain \ AfterSize /\ "Play" \in DOMAIN From
        /\ Asked[l] = From["Play"] /\ Asked[next] = To["Play"] /\ Got[next] = Got[l]
        /\ OwnStep(next)
    BY <1>0 DEF Chain, AfterSize, Got, Asked, From, To, OwnStep
  <2>2. SendStep(g, l, "Play", next)
    BY <1>3 DEF sendPlayCommandMessage
  <2> HIDE DEF l, next
  <2> QED BY <2>1, <2>2, SendKeepsWire
<1>4. CASE receiveRtmpSampleAccessMessage(g)
  <2> DEFINE l == "receiveRtmpSampleAccessMessage"
  <2>1. l \in DOMAIN Expected /\ "sessionReady" \notin Chain /\ OwnStep("sessionReady")
    BY DEF Expected, Chain, OwnStep
  <2>2. ReceiveDynamicStep(g, l, "sessionReady", "handshakeDone", "handshakeDone")
    BY <1>4 DEF receiveRtmpSampleAccessMessage
  <2> HIDE DEF l
  <2> QED BY <2>1, <2>2, ReceiveDynamicKeepsWire
<1> QED BY <1>1, <1>2, <1>3, <1>4 DEF watcherChain

\* A step of one socket thread leaves those of the others as they are: they have no
\* chain to run, and thread_ does not hold them while it runs one.
LEMMA SocketThreadKeepsWireInv ==
  ASSUME IInv, LInv, WireInv, NEW g \in SocketThreads, SocketThread(g), ~close(g)
  PROVE  WireInv'
<1>0. StateOK /\ WireOf(g)
  BY DEF IInv, WireInv
<1>1. WireOf(g)'
  BY <1>0, ConnectingKeepsWire, HandshakeKeepsWire, BroadcasterChainKeepsWire,
     WatcherChainKeepsWire, LeavingKeepsWire DEF SocketThread
<1>2. /\ thread' = thread /\ told \subseteq told' /\ cause \subseteq cause'
      /\ (at'[Media] = at[Media] \/ at[g] = "startMediaPacketRetriever")
  BY <1>0, SocketThreadLeaves
<1>3. /\ closing[g] = "no" /\ at[g] \notin {"unborn", "exit"}
      /\ \A h \in SocketThreads \ {g} : at'[h] = at[h] /\ closing'[h] = closing[h]
      /\ at[g] \in Over => at'[g] \in Over /\ open' = open
  <2>1. Proceeds(g) \/ Resolves(g) \/ DoesNotConnect(g) \/ Notifies(g)
    BY <1>0, SocketThreadSteps
  <2>2. CASE Proceeds(g)
    BY <1>0, <2>2 DEF Proceeds, StateOK
  <2>3. CASE Resolves(g) \/ DoesNotConnect(g) \/ Notifies(g)
    BY <1>0, <2>3 DEF Resolves, DoesNotConnect, Notifies, At, Go, StateOK, Over, Idle
  <2> QED BY <2>1, <2>2, <2>3
<1>4. \A h \in SocketThreads \ {g} : ~Alive(h)
  BY <1>3 DEF LInv, OneWorks, Alive
<1>5. ASSUME NEW h \in SocketThreads \ {g} PROVE WireOf(h)'
  <2>1. at'[h] \in {"unborn", "exit"} /\ closing'[h] = "no"
    BY <1>3, <1>4 DEF Alive
  <2>2. StaysInStep(h)' /\ OwnStep(at[h])' /\ RefusalIsKnown(h)'
    BY <2>1 DEF StaysInStep, OwnStep, RefusalIsKnown, Chain
  <2>3. at[h] \in Over /\ closing[h] = "no"
    BY <1>4 DEF Alive, Over, Idle
  <2>4. CASE at[g] \in Idle
    <3>1. ~Unsettled(h)
      BY <2>3 DEF WireInv, WireOf, GoesOnUntilTold
    <3>2. open' = open
      BY <1>3, <2>4 DEF Over
    <3>3. ~Unsettled(h)'
      BY <1>2, <3>1, <3>2, Zenon DEF Unsettled
    <3> QED BY <2>2, <3>3 DEF WireOf, GoesOnUntilTold
  <2>5. CASE at[g] \notin Idle
    <3>1. thread = g
      BY <2>5 DEF IInv, ActiveIsHeld, Idle
    <3>2. ~Unsettled(h)'
      BY <1>2, <3>1, Zenon DEF Unsettled
    <3> QED BY <2>2, <3>2 DEF WireOf, GoesOnUntilTold
  <2> QED BY <2>4, <2>5
<1>6. MediaWaits'
  BY <1>2, <1>3, <1>4 DEF WireInv, MediaWaits, Alive, Over, Idle
<1> QED BY <1>1, <1>5, <1>6 DEF WireInv

-----------------------------------------------------------------------------
(* The others keep the step of the chain.                                  *)

\* A step of somebody else that leaves the wire as it is, or as the chain expects it.
LEMMA OtherKeepsWire ==
  ASSUME NEW g \in SocketThreads, WireOf(g), at'[g] = at[g], closing'[g] = closing[g],
         UNCHANGED <<role, open, thread, wack>>, told \subseteq told', cause \subseteq cause',
         StaysInStep(g)',
         at[g] \in Chain /\ open /\ "refused" \notin cause' => \A i \in DOMAIN s2c' : s2c'[i].ok
  PROVE  WireOf(g)'
<1>1. OwnStep(at[g])' /\ RefusalIsKnown(g)'
  BY DEF WireOf, OwnStep, RefusalIsKnown
<1>2. Unsettled(g)' => Unsettled(g)
  BY Zenon DEF Unsettled
<1>3. GoesOnUntilTold(g)'
  BY <1>2 DEF WireOf, GoesOnUntilTold
<1> QED BY <1>1, <1>3 DEF WireOf

LEMMA SameWire ==
  ASSUME NEW g \in SocketThreads, WireOf(g), at'[g] = at[g], cause \subseteq cause',
         UNCHANGED <<role, open>>, at[g] \in Chain => UNCHANGED <<link, c2s, s2c, granted>>
  PROVE  /\ StaysInStep(g)'
         /\ at[g] \in Chain /\ open /\ "refused" \notin cause' => \A i \in DOMAIN s2c' : s2c'[i].ok
<1>1. StaysInStep(g)'
  BY DEF WireOf, StaysInStep, InStep, Heard
<1> QED BY <1>1 DEF WireOf, RefusalIsKnown

\* The answers to a message are those it asks for.
LEMMA RepliesAreNext ==
  ASSUME NEW msg \in ClientMsgs \ {"CloseStream"}, NEW r,
         msg = "Publish" => r = "broadcaster", msg = "Play" => r = "watcher"
  PROVE  /\ From[msg] \in 0 .. 8 /\ To[msg] \in 0 .. 11
         /\ DOMAIN Replies[msg] = 1 .. To[msg] - From[msg]
         /\ Len(Replies[msg]) = To[msg] - From[msg]
         /\ \A j \in DOMAIN Replies[msg] : IsNth(r, From[msg] + j, Replies[msg][j])
<1>1. CASE msg = "C0"
  BY <1>1 DEF From, To, Replies, IsNth
<1>2. CASE msg = "C1"
  BY <1>2 DEF From, To, Replies, IsNth
<1>3. CASE msg = "C2"
  BY <1>3 DEF From, To, Replies, IsNth
<1>4. CASE msg \in {"SetChunkSize", "WindowAck"}
  BY <1>4 DEF From, To, Replies, IsNth
<1>5. CASE msg = "Connect"
  BY <1>5 DEF From, To, Replies, IsNth
<1>6. CASE msg = "CreateStream"
  BY <1>6 DEF From, To, Replies, IsNth
<1>7. CASE msg = "Publish"
  BY <1>7 DEF From, To, Replies, IsNth
<1>8. CASE msg = "Play"
  BY <1>8 DEF From, To, Replies, IsNth
<1> QED BY <1>1, <1>2, <1>3, <1>4, <1>5, <1>6, <1>7, <1>8 DEF ClientMsgs

LEMMA ReplyKeepsStep ==
  ASSUME StateOK, Grants, role \in {"broadcaster", "watcher"}, ServerReplies,
         NEW l \in Chain, InStep(l)
  PROVE  InStep(l)'
<1> DEFINE msg == Head(c2s)
           kinds == Replies[msg]
<1>0. /\ c2s \in Seq(ClientMsgs) /\ c2s # <<>> /\ msg \in ClientMsgs /\ link = "up"
      /\ s2c \in Seq(ServerMsgs) /\ c2s' = Tail(c2s) /\ UNCHANGED <<role, link>>
  BY DEF StateOK, ServerReplies, socketVars, appVars
<1>1. PICK no \in SUBSET (Refusable \cap Range1(kinds)) :
        /\ s2c' = s2c \o [i \in DOMAIN kinds |-> [kind |-> kinds[i], ok |-> kinds[i] \notin no]]
        /\ granted' = (granted \/ (msg \in {"Publish", "Play"} /\ no = {}))
  BY DEF ServerReplies
<1>2. AsksFor(c2s, Last(Heard(l)), Asked[l]) /\ (role = "watcher" /\ granted => Heard(l) >= 11)
  BY <1>0 DEF InStep
<1>3. Got[l] \in Nat /\ Len(s2c) \in Nat /\ Heard(l) \in Nat
  <2>1. Got[l] \in Nat
    BY DEF Got, Chain
  <2>2. Len(s2c) \in Nat
    BY <1>0
  <2> QED BY <2>1, <2>2 DEF Heard
<1>6. /\ Len(s2c') = Len(s2c) + Len(kinds)
      /\ \A i \in DOMAIN s2c' :
           \/ i \in DOMAIN s2c /\ s2c'[i] = s2c[i]
           \/ i - Len(s2c) \in DOMAIN kinds /\ s2c'[i].kind = kinds[i - Len(s2c)]
  <2>1. kinds \in Seq(Kinds)
    BY <1>0, RepliesType
  <2> HIDE DEF msg, kinds
  <2>2. Len(s2c') = Len(s2c) + Len(kinds) /\ \A i \in DOMAIN s2c' :
          \/ i \in DOMAIN s2c /\ s2c'[i] = s2c[i]
          \/ /\ i - Len(s2c) \in DOMAIN kinds
             /\ s2c'[i].kind = kinds[i - Len(s2c)]
             /\ s2c'[i].ok <=> kinds[i - Len(s2c)] \notin no
    BY <1>0, <1>1, <2>1, AnswersFollow, Zenon
  <2> QED BY <2>2
<1>4. CASE msg = "CloseStream"
  <2>1. Len(kinds) = 0 /\ DOMAIN kinds = {}
    BY <1>4 DEF Replies
  <2>2. /\ Len(s2c') = Len(s2c) /\ \A i \in DOMAIN s2c' : i \in DOMAIN s2c /\ s2c'[i] = s2c[i]
        /\ granted' <=> granted
    <3> HIDE DEF kinds
    <3>1. granted' <=> granted
      BY <1>1, <1>4
    <3>2. Len(s2c') = Len(s2c)
      BY <1>3, <1>6, <2>1
    <3> QED BY <1>6, <2>1, <3>1, <3>2
  <2>3. AsksFor(c2s', Last(Heard(l)), Asked[l])
    BY <1>0, <1>2, <1>4, AsksLess
  <2> QED BY <1>0, <1>2, <2>2, <2>3 DEF InStep, Heard
<1>5. CASE msg # "CloseStream"
  <2>1. /\ msg = "Publish" => role = "broadcaster"
        /\ msg = "Play" => role = "watcher"
    BY <1>0 DEF Grants, PublishIsGranted, PlayIsGranted, NoPlay
  <2>2. /\ From[msg] \in 0 .. 8 /\ To[msg] \in 0 .. 11
        /\ DOMAIN kinds = 1 .. To[msg] - From[msg] /\ Len(kinds) = To[msg] - From[msg]
        /\ \A j \in DOMAIN kinds : IsNth(role, From[msg] + j, kinds[j])
    BY <1>0, <1>5, <2>1, RepliesAreNext
  <2>3. Last(Heard(l)) = From[msg] /\ AsksFor(c2s', To[msg], Asked[l])
    BY <1>0, <1>2, <1>5, AsksLess
  <2> HIDE DEF msg, kinds
  <2>4. Heard(l) = From[msg]
    <3>1. CASE Heard(l) > 11
      BY <2>2, <2>3, <3>1 DEF Last
    <3>2. CASE Heard(l) <= 11
      BY <1>3, <2>3, <3>2 DEF Last
    <3> QED BY <1>3, <3>1, <3>2
  <2>5. Got[l] + Len(s2c) = From[msg]
    BY <2>4 DEF Heard
  <2>6. Heard(l)' = To[msg]
    <3>1. Len(s2c') = Len(s2c) + (To[msg] - From[msg])
      BY <1>6, <2>2
    <3>2. From[msg] \in Int /\ To[msg] \in Int
      BY <2>2
    <3>3. Got[l] + Len(s2c') = To[msg]
      BY <1>3, <2>5, <3>1, <3>2
    <3> QED BY <3>3 DEF Heard
  <2>7. \A i \in DOMAIN s2c' : IsNth(role, Got[l] + i, s2c'[i].kind)
    <3> TAKE i \in DOMAIN s2c'
    <3>1. CASE i \in DOMAIN s2c /\ s2c'[i] = s2c[i]
      BY <3>1 DEF InStep
    <3>2. CASE i - Len(s2c) \in DOMAIN kinds /\ s2c'[i].kind = kinds[i - Len(s2c)]
      <4>1. i \in Nat
        BY <1>0, <1>1
      <4>2. Got[l] + i = From[msg] + (i - Len(s2c))
        BY <1>3, <2>2, <2>5, <4>1
      <4> QED BY <2>2, <3>2, <4>2
    <3> QED BY <1>6, <3>1, <3>2
  <2>8. Last(To[msg]) = To[msg]
    BY <2>2 DEF Last
  <2>9. role = "watcher" /\ granted' => To[msg] >= 11
    <3>1. ~(role = "watcher" /\ granted)
      BY <1>2, <2>2, <2>4
    <3>2. msg = "Play" => To[msg] = 11
      BY DEF To
    <3>3. To[msg] \in Nat /\ (msg = "Play" => To[msg] >= 11)
      BY <2>2, <3>2
    <3> QED BY <1>1, <2>1, <3>1, <3>3
  <2> QED BY <1>0, <2>3, <2>6, <2>7, <2>8, <2>9 DEF InStep
<1> QED BY <1>4, <1>5

LEMMA RepliesKeepWire ==
  ASSUME StateOK, Grants, role \in {"broadcaster", "watcher"}, ServerReplies,
         NEW g \in SocketThreads, WireOf(g)
  PROVE  WireOf(g)'
<1> DEFINE msg == Head(c2s)
           kinds == Replies[msg]
<1>0. /\ UNCHANGED <<role, open, thread, wack, at, closing, told>>
      /\ s2c \in Seq(ServerMsgs) /\ msg \in ClientMsgs
  BY DEF StateOK, ServerReplies, socketVars, sessionFlags, appVars
<1>1. PICK no \in SUBSET (Refusable \cap Range1(kinds)) :
        /\ s2c' = s2c \o [i \in DOMAIN kinds |-> [kind |-> kinds[i], ok |-> kinds[i] \notin no]]
        /\ cause' = IF no # {} THEN cause \cup {"refused"} ELSE cause
  BY DEF ServerReplies
<1>2. cause \subseteq cause' /\ ("refused" \notin cause' => no = {} /\ "refused" \notin cause)
  BY <1>1
<1>3. StaysInStep(g)'
  <2> SUFFICES ASSUME at[g] \in Chain, open, "unlisted" \notin cause PROVE InStep(at[g])'
    BY <1>0, <1>2 DEF StaysInStep
  <2>1. InStep(at[g])
    BY DEF WireOf, StaysInStep
  <2> DEFINE l == at[g]
  <2> HIDE DEF l
  <2>2. ASSUME NEW k \in Chain, InStep(k) PROVE InStep(k)'
    BY <2>2, ReplyKeepsStep
  <2> QED BY <1>0, <2>1, <2>2
<1>4. ASSUME at[g] \in Chain, open, "refused" \notin cause' PROVE \A i \in DOMAIN s2c' : s2c'[i].ok
  <2>1. kinds \in Seq(Kinds)
    BY <1>0, RepliesType
  <2> HIDE DEF msg, kinds
  <2>2. Len(s2c') = Len(s2c) + Len(kinds) /\ \A i \in DOMAIN s2c' :
          \/ i \in DOMAIN s2c /\ s2c'[i] = s2c[i]
          \/ /\ i - Len(s2c) \in DOMAIN kinds
             /\ s2c'[i].kind = kinds[i - Len(s2c)]
             /\ s2c'[i].ok <=> kinds[i - Len(s2c)] \notin no
    BY <1>0, <1>1, <2>1, AnswersFollow, Zenon
  <2>3. \A i \in DOMAIN s2c : s2c[i].ok
    BY <1>2, <1>4 DEF WireOf, RefusalIsKnown
  <2> QED BY <1>2, <1>4, <2>2, <2>3
<1> QED BY <1>0, <1>2, <1>3, <1>4, OtherKeepsWire

LEMMA MediaKeepsWire ==
  ASSUME StateOK, ServerSendsMedia, NEW g \in SocketThreads, WireOf(g)
  PROVE  WireOf(g)'
<1>0. /\ UNCHANGED <<role, open, link, c2s, granted, thread, wack, at, closing, told, cause>>
      /\ role = "watcher" /\ link = "up" /\ granted
  BY DEF ServerSendsMedia, socketVars, sessionFlags, appVars
<1>1. /\ s2c \in Seq(ServerMsgs) /\ Len(s2c) \in Nat /\ Len(s2c') = Len(s2c) + 1
      /\ \A i \in DOMAIN s2c' : \/ i \in DOMAIN s2c /\ s2c'[i] = s2c[i]
                                \/ i = Len(s2c) + 1 /\ s2c'[i].ok
  BY DEF StateOK, ServerSendsMedia
<1>2. ASSUME NEW l \in Chain, InStep(l) PROVE InStep(l)'
  <2>1. Got[l] \in Nat
    BY DEF Got, Chain
  <2>2. Got[l] + Len(s2c) >= 11 /\ AsksFor(c2s, Last(Heard(l)), Asked[l])
    BY <1>0, <1>2 DEF InStep, Heard
  <2>3. Got[l] + Len(s2c') = Got[l] + Len(s2c) + 1
    BY <1>1, <2>1
  <2>4. Last(Heard(l)) = 11 /\ Last(Heard(l))' = 11 /\ Heard(l)' >= 11
    BY <1>1, <2>1, <2>2, <2>3 DEF Heard, Last
  <2>5. \A i \in DOMAIN s2c' : IsNth(role, Got[l] + i, s2c'[i].kind)
    <3> TAKE i \in DOMAIN s2c'
    <3>1. CASE i \in DOMAIN s2c /\ s2c'[i] = s2c[i]
      BY <1>2, <3>1 DEF InStep
    <3>2. CASE i = Len(s2c) + 1
      <4>1. Got[l] + i \in Nat /\ Got[l] + i > 11
        BY <1>1, <2>1, <2>2, <3>2
      <4> HIDE DEF InStep
      <4> QED BY <4>1 DEF IsNth
    <3> QED BY <1>1, <3>1, <3>2
  <2> QED BY <1>0, <2>2, <2>4, <2>5 DEF InStep
<1>3. StaysInStep(g)'
  BY <1>0, <1>2 DEF WireOf, StaysInStep
<1>4. at[g] \in Chain /\ open /\ "refused" \notin cause' => \A i \in DOMAIN s2c' : s2c'[i].ok
  BY <1>0, <1>1 DEF WireOf, RefusalIsKnown
<1> QED BY <1>0, <1>3, <1>4, OtherKeepsWire

LEMMA CloseStreamKeepsWire ==
  ASSUME StateOK, sendCloseStream, NEW g \in SocketThreads, WireOf(g)
  PROVE  WireOf(g)'
<1>0. /\ at'[g] = at[g] /\ closing'[g] = closing[g] /\ told \subseteq told'
      /\ UNCHANGED <<role, open, link, thread, s2c, granted, wack, cause>>
  BY TheThreads DEF StateOK, sendCloseStream, checkError, Go, sessionFlags, appVars
<1>1. c2s' = c2s \/ (link = "up" /\ c2s' = Append(c2s, "CloseStream"))
  BY DEF sendCloseStream
<1>2. ASSUME NEW l \in Chain, InStep(l) PROVE InStep(l)'
  <2>1. Asked[l] \in 0 .. 11 /\ c2s \in Seq(ClientMsgs)
    BY DEF Asked, Chain, StateOK
  <2>2. link = "up" => AsksFor(c2s', Last(Heard(l)), Asked[l])
    BY <1>1, <1>2, <2>1, AsksMore DEF InStep
  <2> QED BY <1>0, <1>2, <2>2 DEF InStep, Heard
<1>3. StaysInStep(g)'
  BY <1>0, <1>2 DEF WireOf, StaysInStep
<1>4. at[g] \in Chain /\ open /\ "refused" \notin cause' => \A i \in DOMAIN s2c' : s2c'[i].ok
  BY <1>0 DEF WireOf, RefusalIsKnown
<1> QED BY <1>0, <1>3, <1>4, OtherKeepsWire

LEMMA CloseKeepsWire ==
  ASSUME IInv, WireInv, NEW t \in Threads, close(t)
  PROVE  WireInv'
<1>0. StateOK /\ MediaWaits
  BY DEF IInv, WireInv
<1>1. MediaWaits'
  BY <1>0 DEF MediaWaits, close, CloseTest, CloseInner, CloseJoin, CloseStop
<1>2. ASSUME NEW g \in SocketThreads PROVE WireOf(g)'
  <2>0. WireOf(g)
    BY DEF WireInv
  <2>1. CASE CloseInner(t)
    <3>1. UNCHANGED <<at, role>> /\ ~open'
      BY <2>1 DEF CloseInner, appVars
    <3>2. OwnStep(at[g])'
      BY <2>0, <3>1 DEF WireOf, OwnStep
    <3> QED BY <3>1, <3>2 DEF WireOf, StaysInStep, RefusalIsKnown, GoesOnUntilTold, Unsettled
  <2>2. CASE CloseTest(t) \/ CloseJoin(t) \/ CloseStop(t)
    <3>1. /\ UNCHANGED <<at, role, open, link, c2s, s2c, granted, wack, cause, told>>
          /\ thread' \in {thread, NoThread} /\ cause \subseteq cause'
          /\ \/ closing'[g] = closing[g]
             \/ closing'[g] = "inner" \/ ~open \/ closing[g] \notin {"test", "inner"}
      BY <1>0, <2>2 DEF CloseTest, CloseJoin, CloseStop, wireVars, sessionFlags, appVars, StateOK
    <3>2. StaysInStep(g)' /\ OwnStep(at[g])' /\ RefusalIsKnown(g)'
      BY <2>0, <3>1, SameWire DEF WireOf, OwnStep, RefusalIsKnown
    <3>3. GoesOnUntilTold(g)'
      BY <2>0, <3>1, TheThreads DEF WireOf, GoesOnUntilTold, Unsettled
    <3> QED BY <3>2, <3>3 DEF WireOf
  <2> QED BY <2>1, <2>2 DEF close
<1> QED BY <1>1, <1>2 DEF WireInv

LEMMA ConnectKeepsWire ==
  ASSUME IInv, LInv, WireInv, NEW g \in SocketThreads, connect(g)
  PROVE  WireInv'
<1>0. /\ at'[g] = "resolve" /\ thread' = g /\ at'[Media] = "off"
      /\ \A h \in SocketThreads \ {g} : at'[h] = at[h] /\ at[h] \in {"unborn", "exit"}
  BY NothingRuns, TheThreads DEF connect, At, IInv, StateOK, LInv, ConnectsQuietly, Alive
<1>1. ASSUME NEW h \in SocketThreads PROVE WireOf(h)'
  <2>1. at'[h] \in {"resolve", "unborn", "exit"} /\ (h # g => thread' # h)
    BY <1>0
  <2>2. at'[h] = "resolve" \/ thread' # h
    BY <1>0
  <2> QED BY <2>1, <2>2 DEF WireOf, StaysInStep, OwnStep, RefusalIsKnown, GoesOnUntilTold, Unsettled,
          Chain, Over, Idle
<1> QED BY <1>0, <1>1 DEF WireInv, MediaWaits

\* The media thread is off while the chain runs, and an item is handed to it, or taken
\* from the wire, when every chain is over.
LEMMA MediaThreadKeepsWire ==
  ASSUME IInv, LInv, WireInv,
         retrieve \/ retrieverEnds \/ mediaMessageSent \/ closeAfterMediaError \/ sendMediaMessage
  PROVE  WireInv'
<1>0. StateOK
  BY DEF IInv
<1>1. \A g \in SocketThreads : at[g] \in Over
  <2>1. CASE sendMediaMessage
    BY <2>1 DEF sendMediaMessage, LInv, StartsOnce
  <2>2. CASE ~sendMediaMessage
    <3>1. at[Media] # "off"
      BY <2>2 DEF retrieve, retrieverEnds, mediaMessageSent, closeAfterMediaError, At
    <3> QED BY <3>1 DEF WireInv, MediaWaits
  <2> QED BY <2>1, <2>2
<1>2. ASSUME NEW g \in SocketThreads
      PROVE  at'[g] = at[g] /\ closing'[g] = closing[g]
  BY <1>0, TheThreads DEF retrieve, retrieverEnds, mediaMessageSent, closeAfterMediaError,
     sendMediaMessage, checkError, At, Go, StateOK, socketVars
<1>3. told \subseteq told' /\ UNCHANGED <<role, open, thread, wack, cause>>
  BY DEF retrieve, retrieverEnds, mediaMessageSent, closeAfterMediaError, sendMediaMessage,
     checkError, socketVars, sessionFlags, appVars
<1>4. ASSUME NEW g \in SocketThreads PROVE WireOf(g)'
  <2>1. WireOf(g) /\ at[g] \notin Chain
    BY <1>1 DEF WireInv, Over, Idle, Chain
  <2> QED BY <1>2, <1>3, <2>1, SameWire, OtherKeepsWire
<1> QED BY <1>1, <1>2, <1>4 DEF WireInv, MediaWaits

LEMMA OthersKeepWire ==
  ASSUME IInv, LInv, Grants, WireInv, role \in {"broadcaster", "watcher"},
         MediaThread \/ sendMediaMessage \/ end \/ AppThread \/ Server \/ PatientStart \/ UNCHANGED vars
  PROVE  WireInv'
<1>0. StateOK
  BY DEF IInv
<1>1. CASE close(App) \/ close(Media)
  BY <1>1, CloseKeepsWire
<1>2. CASE \E g \in SocketThreads : connect(g)
  BY <1>2, ConnectKeepsWire
<1>3. CASE retrieve \/ retrieverEnds \/ mediaMessageSent \/ closeAfterMediaError \/ sendMediaMessage
  BY <1>3, MediaThreadKeepsWire
<1>4. CASE ServerReplies \/ ServerSendsMedia
  <2>1. UNCHANGED at
    BY <1>4 DEF ServerReplies, ServerSendsMedia
  <2> QED BY <1>0, <1>4, <2>1, RepliesKeepWire, MediaKeepsWire DEF WireInv, MediaWaits
<1>5. CASE sendCloseStream
  <2>1. \A g \in SocketThreads : at'[g] = at[g]
    BY <1>0, <1>5, TheThreads DEF sendCloseStream, Go, StateOK
  <2>2. at'[Media] = at[Media]
    BY <1>0, <1>5, TheThreads DEF sendCloseStream, Go, StateOK
  <2> QED BY <1>0, <1>5, <2>1, <2>2, CloseStreamKeepsWire DEF WireInv, MediaWaits
<1>6. CASE end \/ joinWorker \/ endClose \/ PatientStart \/ ServerDrops \/ UNCHANGED vars
  <2>1. /\ at'[Media] = at[Media]
        /\ \A g \in SocketThreads : at'[g] = at[g] /\ closing'[g] = closing[g]
    BY <1>0, <1>6, TheThreads DEF end, endBroadcaster, endWatcher, joinWorker, endClose, PatientStart,
       start, ServerDrops, Go, StateOK, socketVars, vars
  <2>2. UNCHANGED <<role, open, thread, wack, told, cause, c2s, s2c, granted>> /\ link' \in {link, "down"}
    BY <1>6 DEF end, endBroadcaster, endWatcher, Ending, joinWorker, endClose, PatientStart,
       start, ServerDrops, socketVars, sessionFlags, wireVars, appVars, vars
  <2>3. ASSUME NEW g \in SocketThreads PROVE WireOf(g)'
    <3>1. WireOf(g)
      BY DEF WireInv
    <3>2. StaysInStep(g)'
      BY <2>1, <2>2, <3>1 DEF WireOf, StaysInStep, InStep, Heard
    <3>3. at[g] \in Chain /\ open /\ "refused" \notin cause' => \A i \in DOMAIN s2c' : s2c'[i].ok
      BY <2>2, <3>1 DEF WireOf, RefusalIsKnown
    <3> QED BY <2>1, <2>2, <3>1, <3>2, <3>3, OtherKeepsWire
  <2> QED BY <2>1, <2>3 DEF WireInv, MediaWaits
<1> QED BY <1>1, <1>2, <1>3, <1>4, <1>5, <1>6 DEF MediaThread, AppThread, Server

\* In every state what the chain has sent and is sent fits the step it is at.
THEOREM WireInvariance == Spec => []WireInv
<1>1. Init => WireInv
  <2> SUFFICES ASSUME Init PROVE WireInv
    OBVIOUS
  <2>1. /\ ~open /\ at[Media] = "off"
        /\ \A g \in SocketThreads : at[g] = "unborn"
    BY TheThreads DEF Init
  <2> QED BY <2>1 DEF WireInv, MediaWaits, WireOf, StaysInStep, OwnStep, RefusalIsKnown,
          GoesOnUntilTold, Unsettled, Chain
<1>2. /\ IInv /\ LInv /\ Grants /\ TypeOK /\ WireInv /\ [Next]_vars
      => WireInv'
  <2> SUFFICES ASSUME IInv, LInv, Grants, TypeOK, WireInv, [Next]_vars PROVE WireInv'
    OBVIOUS
  <2>1. role \in {"broadcaster", "watcher"}
    BY RoleAssumption DEF TypeOK
  <2>2. ASSUME NEW g \in SocketThreads, SocketThread(g) PROVE WireInv'
    BY <2>2, SocketThreadKeepsWireInv, CloseKeepsWire
  <2> QED BY <2>1, <2>2, OthersKeepWire DEF Next, Threaded
<1> QED BY <1>1, <1>2, Invariance, LInvariance, GrantsInvariance, TypeCorrect, PTL DEF Spec

\* What a receiving function finds at the head of the stream is the packet it is for,
\* however many attempts there were and whatever the server refuses.
THEOREM HeadIsWhatIsExpected == Spec => []HeadIsExpected
<1>1. IInv /\ WireInv => HeadIsExpected
  BY HeadIsNext DEF IInv, WireInv, HeadIsExpected
<1> QED BY <1>1, Invariance, WireInvariance, PTL

\* The end of a started session leaves nothing behind, and no chain stops in silence
\* without a refusal or an error that checkError does not know.
THEOREM NothingStaysBehind == Spec => []NothingIsLeftBehind
<1>1. IInv /\ EndInv => EndOfStartedSessionIsComplete
  <2> SUFFICES ASSUME IInv, EndInv, At(App, "idle"), endedReady
               PROVE  /\ ~open
                      /\ \A g \in SocketThreads : ~Alive(g) \/ \E t \in Threads : closing[t] = "join"
                      /\ role = "watcher" => at[Media] = "off"
    BY DEF EndOfStartedSessionIsComplete, IInv, MetricsEndWithSocket
  <2>1. "started" \in told /\ ~open
    BY DEF EndInv, EndedHasStarted, EndedIsClosed, At
  <2> QED BY <2>1 DEF EndInv, ClosedIsJoined, RetrieverIsOver, At
<1>2. WireInv => SilentOnlyIfRefused
  <2> SUFFICES ASSUME WireInv, NEW g \in SocketThreads, thread = g, ~Alive(g), open,
                      told \cap {"started", "closed"} = {}, cause = {}
               PROVE  FALSE
    BY DEF SilentOnlyIfRefused
  <2>1. Unsettled(g) /\ at[g] \in Over /\ closing[g] = "no"
    BY DEF Unsettled, Alive, Over, Idle
  <2> QED BY <2>1 DEF WireInv, WireOf, GoesOnUntilTold
<1>3. IInv /\ EndInv /\ WireInv => NothingIsLeftBehind
  BY <1>1, <1>2 DEF NothingIsLeftBehind
<1> QED BY <1>3, Invariance, EndInvariance, WireInvariance, PTL
=============================================================================
