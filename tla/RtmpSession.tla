----------------------------- MODULE RtmpSession -----------------------------
(***************************************************************************)
(* One RTMP client session: the application thread that starts and ends    *)
(* it, the socket threads BaseSocket::connect spawns (each runs the whole  *)
(* handshake and command chain, nested in socketDidConnect), the media     *)
(* thread (the watcher's packet retriever, or the worker of the queue that *)
(* feeds the broadcaster), and the server at the other end.                *)
(*                                                                         *)
(* A thread in the middle of BaseSocket::close keeps its place in          *)
(* closing[t]; while it is there, at[t] is where it goes on afterwards.    *)
(***************************************************************************)
EXTENDS Naturals, Sequences, FiniteSets

CONSTANTS Roles,         \* which of the two client sessions to look at
          App,           \* the thread that calls start() and end()
          Media,         \* the retriever (watcher) or the queue worker (broadcaster)
          SocketThreads, \* the boost::threads connect() may spawn: bounds the starts
          NoThread,      \* thread_ holds no joinable thread
          MaxMedia       \* bound on the media messages in flight

ASSUME RoleAssumption == Roles \subseteq {"broadcaster", "watcher"}
ASSUME ThreadAssumption ==
  /\ App # Media
  /\ {App, Media} \cap SocketThreads = {}
  /\ NoThread \notin SocketThreads \cup {App, Media}
ASSUME BoundAssumption == MaxMedia \in Nat

VARIABLES
  role,     \* which of the two this one is: it never changes
  open,     \* innerSocket_.is_open()
  link,     \* the TCP connection: "none", "up", or "down" once the server dropped it
  thread,   \* thread_, the socket thread that can be joined
  at,       \* at[t]: the function thread t is in
  closing,  \* closing[t]: how far t is inside BaseSocket::close
  npm,      \* the role's NetworkPerformanceMetrics is running
  stopped,  \* RtmpWatcherSession::stopped_
  wack,     \* windowAcknowledgementSize_ > 0
  c2s, s2c, \* messages in flight, client to server and server to client
  granted,  \* history: the server accepted publish/play on this connection
  cause,    \* history: why this chain may have stopped without notifying anyone
  told,     \* history: what the delegates were told since the last connect()
  wanted,   \* history: start() was called after the last end()
  endedReady\* history: the last end() was called on a started session (for the
            \* watcher, one whose retriever is running)

socketVars == <<open, link, thread, closing, npm>>
sessionFlags == <<stopped, wack>>
wireVars   == <<c2s, s2c, granted>>
appVars    == <<role, wanted, endedReady>>
vars == <<socketVars, at, sessionFlags, wireVars, cause, told, appVars>>

Threads == {App, Media} \cup SocketThreads

HandshakeSteps == {"sendC0", "sendC1", "receiveS0", "receiveS1", "sendC2", "receiveS2"}
CommandSteps ==
  {"sendSetChunkSize", "sendConnectCommandMessage", "receiveWindowAcknowledgeSize",
   "receiveSetPeerBandWidth", "sendWindowAcknowledgeSize", "receiveSetChunkSize",
   "receiveConnectionCommandResponse", "sendCreateStreamCommand",
   "receiveCreateStreamCommandResponse", "sendPublishCommand",
   "receiveOnStatusCommandResponse", "sendPlayCommandMessage",
   "receiveStreamBeginMessage", "receivePlayOnStatusCommandMessageResponse",
   "receiveRtmpSampleAccessMessage"}
FinalSteps == {"statusRefused", "sessionReady", "notifyReady", "startMediaPacketRetriever", "handshakeDone"}
SocketSteps == {"unborn", "resolve", "connectImpl", "exit"}
                 \cup HandshakeSteps \cup CommandSteps \cup FinalSteps
AppSteps   == {"idle", "connect", "sendCloseStream", "joinWorker", "endClose"}
MediaSteps == {"off", "loop", "rest", "io", "close"}

\* what each receiving function expects to find at the head of the stream
Expected ==
  [receiveS0 |-> "S0", receiveS1 |-> "S1", receiveS2 |-> "S2",
   receiveWindowAcknowledgeSize |-> "WindowAck", receiveSetPeerBandWidth |-> "SetPeerBW",
   receiveSetChunkSize |-> "SetChunkSize",
   receiveConnectionCommandResponse |-> "ConnectResult",
   receiveCreateStreamCommandResponse |-> "CreateStreamResult",
   receiveOnStatusCommandResponse |-> "OnStatus",
   receiveStreamBeginMessage |-> "StreamBegin",
   receivePlayOnStatusCommandMessageResponse |-> "OnStatus",
   receiveRtmpSampleAccessMessage |-> "SampleAccess"]

ClientMsgs == {"C0", "C1", "C2", "SetChunkSize", "Connect", "WindowAck",
               "CreateStream", "Publish", "Play", "CloseStream"}
ServerMsgs == [kind : {Expected[l] : l \in DOMAIN Expected} \cup {"Media"}, ok : BOOLEAN]

-----------------------------------------------------------------------------
(* Helpers.                                                                *)

\* thread t is in function l and not inside close()
At(t, l) == at[t] = l /\ closing[t] = "no"
Go(t, l) == at' = [at EXCEPT ![t] = l]
Alive(g) == at[g] \notin {"unborn", "exit"} \/ closing[g] # "no"
Tell(what) == told' = told \cup what

\* a socket thread whose chain stops returns through every callback it is
\* nested in; past S2 that includes the handshakeDone notification
Unwound(l) == IF l \in CommandSteps THEN "handshakeDone" ELSE "exit"

\* Mutant of checkError: the lost connection is reported but not closed.
checkErrorOnlyNotifies(t, ec) ==
  /\ told' = IF ec = "lost" THEN told \cup {"reconnect"} ELSE told
  /\ closing' = IF ec = "fatal" THEN [closing EXCEPT ![t] = "test"] ELSE closing

\* BaseSocket::checkError for an operation of thread t: "lost" stands for the
\* codes that ask for a reconnection (reset, aborted, timed out, eof, broken
\* pipe), "fatal" for those that only close, "unlisted" for all the others
checkError(t, ec) ==
  /\ told' = IF ec = "lost" THEN told \cup {"reconnect"} ELSE told
  /\ closing' = IF ec \in {"lost", "fatal"} THEN [closing EXCEPT ![t] = "test"] ELSE closing

\* the codes an operation can end with: on a socket another thread closed it is
\* operation_aborted, or a bad descriptor if it had not begun
Errors == IF open THEN {"lost", "fatal", "unlisted"} ELSE {"lost", "unlisted"}

Connected == open /\ link # "none"

-----------------------------------------------------------------------------
(* BaseSocket::close, one action per step another thread can observe.      *)

CloseTest(t) ==
  /\ closing[t] = "test"
  /\ closing' = [closing EXCEPT ![t] = IF open THEN "inner" ELSE "no"]
  /\ UNCHANGED <<open, link, thread, npm, at, sessionFlags, wireVars, cause, told, appVars>>

CloseInner(t) ==
  /\ closing[t] = "inner"
  /\ open' = FALSE
  /\ link' = "none"
  /\ c2s' = <<>> /\ s2c' = <<>>
  /\ Tell({"closed"})
  /\ closing' = [closing EXCEPT ![t] = "join"]
  /\ UNCHANGED <<thread, npm, at, sessionFlags, granted, cause, appVars>>

\* Mutant of CloseJoin: the application's close() joins the retriever as well.
CloseJoinsRetriever(t) ==
  /\ closing[t] = "join"
  /\ thread \notin {t, NoThread} => ~Alive(thread)
  /\ t = App => at[Media] = "off"
  /\ thread' = NoThread
  /\ closing' = [closing EXCEPT ![t] = "stop"]
  /\ UNCHANGED <<open, link, npm, at, sessionFlags, wireVars, cause, told, appVars>>

CloseJoin(t) ==
  /\ closing[t] = "join"
  /\ thread \notin {t, NoThread} => ~Alive(thread)
  /\ thread' = NoThread
  /\ closing' = [closing EXCEPT ![t] = "stop"]
  /\ UNCHANGED <<open, link, npm, at, sessionFlags, wireVars, cause, told, appVars>>

\* Mutant of CloseStop: close() forgets the metrics.
CloseStopForgetsMetrics(t) ==
  /\ closing[t] = "stop"
  /\ closing' = [closing EXCEPT ![t] = "no"]
  /\ UNCHANGED <<open, link, thread, npm, at, sessionFlags, wireVars, cause, told, appVars>>

CloseStop(t) ==
  /\ closing[t] = "stop"
  /\ npm' = FALSE
  /\ closing' = [closing EXCEPT ![t] = "no"]
  /\ UNCHANGED <<open, link, thread, at, sessionFlags, wireVars, cause, told, appVars>>

close(t) == CloseTest(t) \/ CloseInner(t) \/ CloseJoin(t) \/ CloseStop(t)

-----------------------------------------------------------------------------
(* The socket thread: resolve, connectImpl, and the functions of the chain.*)

\* Mutant of FailedToConnect: the delegates do not hear socketDidClose.
FailedToConnectUnclosed(g) ==
  /\ Tell({"failed", "reconnect"})
  /\ Go(g, "exit")
  /\ UNCHANGED <<socketVars, sessionFlags, wireVars, cause, appVars>>

\* notifications of a connection that failed: socketFailedToConnect,
\* reconnectionRequired, socketDidClose
FailedToConnect(g) ==
  /\ Tell({"failed", "reconnect", "closed"})
  /\ Go(g, "exit")
  /\ UNCHANGED <<socketVars, sessionFlags, wireVars, cause, appVars>>

resolve(g) ==
  /\ At(g, "resolve")
  /\ \/ /\ Go(g, "connectImpl")
        /\ open' = TRUE            \* async_connect opens the descriptor
        /\ UNCHANGED <<link, thread, closing, npm, sessionFlags, wireVars, cause, told, appVars>>
     \/ FailedToConnect(g)

connectImpl(g) ==
  /\ At(g, "connectImpl")
  /\ \/ /\ open
        /\ link' = "up"
        /\ c2s' = <<>> /\ s2c' = <<>> /\ granted' = FALSE
        /\ Go(g, "sendC0")
        /\ UNCHANGED <<open, thread, closing, npm, sessionFlags, cause, told, appVars>>
     \/ FailedToConnect(g)

\* the operation of function l fails: checkError, then the callback logs
Fails(g, l) ==
  /\ \E ec \in Errors :
       /\ checkError(g, ec)
       /\ cause' = IF ec = "unlisted" THEN cause \cup {"unlisted"} ELSE cause
  /\ Go(g, Unwound(l))
  /\ UNCHANGED <<open, link, thread, npm, sessionFlags, wireVars, appVars>>

\* if (!socket_->isOpen()) return;
FindsItClosed(g, l) ==
  /\ ~open
  /\ l \in CommandSteps
  /\ Go(g, Unwound(l))
  /\ UNCHANGED <<socketVars, sessionFlags, wireVars, cause, told, appVars>>

SendStep(g, l, msg, next) ==
  /\ At(g, l)
  /\ \/ /\ Connected
        /\ c2s' = IF link = "up" THEN Append(c2s, msg) ELSE c2s
        /\ Go(g, next)
        /\ UNCHANGED <<socketVars, sessionFlags, s2c, granted, cause, told, appVars>>
     \/ Fails(g, l)
     \/ FindsItClosed(g, l)

\* isSuccessfull() of these responses looks for a property only they carry
Recognised == {"receiveConnectionCommandResponse", "receiveOnStatusCommandResponse",
               "receivePlayOnStatusCommandMessageResponse", "receiveRtmpSampleAccessMessage"}
Accepts(l, m) == m.ok /\ (l \in Recognised => m.kind = Expected[l])

\* a packet is read by its size and acted upon whatever its type; the callback
\* goes on to next when the packet is acceptable and to refused when it is not
ReceiveStep(g, l, next, refused) ==
  /\ At(g, l)
  /\ \/ /\ Connected
        /\ s2c # <<>>
        /\ s2c' = Tail(s2c)
        /\ Go(g, IF Accepts(l, Head(s2c)) THEN next ELSE refused)
        /\ UNCHANGED <<socketVars, sessionFlags, c2s, granted, cause, told, appVars>>
     \/ Fails(g, l)
     \/ FindsItClosed(g, l)

\* RtmpSocket::receiveDynamicPacket reads a header and then a payload, and drops
\* the header's error code: after one that does not close the socket the payload
\* read asks for 0 bytes and succeeds, so the callback gets an empty packet
ReceiveDynamicStep(g, l, next, refused, onEmpty) ==
  \/ ReceiveStep(g, l, next, refused)
  \/ /\ At(g, l)
     /\ open
     /\ cause' = cause \cup {"unlisted"}
     /\ Go(g, onEmpty)
     /\ UNCHANGED <<socketVars, sessionFlags, wireVars, told, appVars>>

-----------------------------------------------------------------------------
(* RtmpClientSession: the handshake.                                       *)

sendC0(g) == SendStep(g, "sendC0", "C0", "sendC1")
sendC1(g) == SendStep(g, "sendC1", "C1", "receiveS0")
\* another version than ours is logged, and the chain just stops there
receiveS0(g) == ReceiveStep(g, "receiveS0", "receiveS1", "exit")
receiveS1(g) == ReceiveStep(g, "receiveS1", "sendC2", "exit")
sendC2(g) == SendStep(g, "sendC2", "C2", "receiveS2")
receiveS2(g) == ReceiveStep(g, "receiveS2", "sendSetChunkSize", "exit")

\* handshakeDone is notified when handshakeCompleted() returns, which is once
\* the whole command chain nested in it has come to an end
handshakeDone(g) ==
  /\ At(g, "handshakeDone")
  /\ Tell({"handshake"})
  /\ Go(g, "exit")
  /\ UNCHANGED <<socketVars, sessionFlags, wireVars, cause, appVars>>

handshake(g) ==
  \/ sendC0(g) \/ sendC1(g) \/ receiveS0(g) \/ receiveS1(g)
  \/ sendC2(g) \/ receiveS2(g) \/ handshakeDone(g)

-----------------------------------------------------------------------------
(* The command chain. Both sessions run the same functions up to the       *)
(* creation of the stream.                                                 *)

sendSetChunkSize(g) ==
  SendStep(g, "sendSetChunkSize", "SetChunkSize", "sendConnectCommandMessage")
sendConnectCommandMessage(g) ==
  SendStep(g, "sendConnectCommandMessage", "Connect", "receiveWindowAcknowledgeSize")

receiveWindowAcknowledgeSize(g) ==
  LET l == "receiveWindowAcknowledgeSize" IN
  /\ At(g, l)
  /\ \/ /\ Connected
        /\ s2c # <<>>
        /\ s2c' = Tail(s2c)
        /\ wack' = Head(s2c).ok
        /\ Go(g, "receiveSetPeerBandWidth")
        /\ UNCHANGED <<socketVars, stopped, c2s, granted, cause, told, appVars>>
     \/ Fails(g, l)
     \/ FindsItClosed(g, l)

receiveSetPeerBandWidth(g) ==
  ReceiveStep(g, "receiveSetPeerBandWidth", "sendWindowAcknowledgeSize", "handshakeDone")

\* Mutant of sendWindowAcknowledgeSize: the server's SetChunkSize is not received.
sendWindowAcknowledgeSizeSkips(g) ==
  wack /\ SendStep(g, "sendWindowAcknowledgeSize", "WindowAck", "receiveConnectionCommandResponse")

sendWindowAcknowledgeSize(g) ==
  LET l == "sendWindowAcknowledgeSize" IN
  \/ wack /\ SendStep(g, l, "WindowAck", "receiveSetChunkSize")
  \/ ~wack /\ At(g, l) /\ Go(g, "handshakeDone")
     /\ UNCHANGED <<socketVars, sessionFlags, wireVars, cause, told, appVars>>

receiveSetChunkSize(g) ==
  ReceiveStep(g, "receiveSetChunkSize", "receiveConnectionCommandResponse", "handshakeDone")
receiveConnectionCommandResponse(g) ==
  ReceiveDynamicStep(g, "receiveConnectionCommandResponse",
                     "sendCreateStreamCommand", "handshakeDone", "handshakeDone")
sendCreateStreamCommand(g) ==
  SendStep(g, "sendCreateStreamCommand", "CreateStream", "receiveCreateStreamCommandResponse")

\* isSuccessfull() of this response is always true
receiveCreateStreamCommandResponse(g, next) ==
  ReceiveDynamicStep(g, "receiveCreateStreamCommandResponse", next, next, next)

connectChain(g) ==
  \/ sendSetChunkSize(g) \/ sendConnectCommandMessage(g)
  \/ receiveWindowAcknowledgeSize(g) \/ receiveSetPeerBandWidth(g)
  \/ sendWindowAcknowledgeSize(g) \/ receiveSetChunkSize(g)
  \/ receiveConnectionCommandResponse(g) \/ sendCreateStreamCommand(g)

\* an onStatus of level "error": reconnectionRequired, then close
statusRefused(g) ==
  /\ At(g, "statusRefused")
  /\ Tell({"reconnect"})
  /\ closing' = [closing EXCEPT ![g] = "test"]
  /\ Go(g, "handshakeDone")
  /\ UNCHANGED <<open, link, thread, npm, sessionFlags, wireVars, cause, appVars>>

AfterReady == IF role = "watcher" THEN "startMediaPacketRetriever" ELSE "handshakeDone"

sessionReady(g) ==
  \/ /\ At(g, "sessionReady")
     /\ Go(g, IF open THEN "notifyReady" ELSE AfterReady)
     /\ UNCHANGED <<socketVars, sessionFlags, wireVars, cause, told, appVars>>
  \/ /\ At(g, "notifyReady")
     /\ npm' = TRUE
     /\ Tell({"started"})
     /\ Go(g, AfterReady)
     /\ UNCHANGED <<open, link, thread, closing, sessionFlags, wireVars, cause, appVars>>

sendPublishCommand(g) ==
  SendStep(g, "sendPublishCommand", "Publish", "receiveOnStatusCommandResponse")
\* Mutant of receiveOnStatusCommandResponse: a status of level "error" is as good.
receiveOnStatusIgnoresLevel(g) ==
  ReceiveDynamicStep(g, "receiveOnStatusCommandResponse",
                     "sessionReady", "sessionReady", "statusRefused")
receiveOnStatusCommandResponse(g) ==
  ReceiveDynamicStep(g, "receiveOnStatusCommandResponse",
                     "sessionReady", "statusRefused", "statusRefused")

broadcasterChain(g) ==
  /\ role = "broadcaster"
  /\ \/ connectChain(g)
     \/ receiveCreateStreamCommandResponse(g, "sendPublishCommand")
     \/ sendPublishCommand(g) \/ receiveOnStatusCommandResponse(g)

sendPlayCommandMessage(g) ==
  SendStep(g, "sendPlayCommandMessage", "Play", "receiveStreamBeginMessage")
receiveStreamBeginMessage(g) ==
  LET next == "receivePlayOnStatusCommandMessageResponse" IN
  ReceiveDynamicStep(g, "receiveStreamBeginMessage", next, next, next)
receivePlayOnStatusCommandMessageResponse(g) ==
  ReceiveDynamicStep(g, "receivePlayOnStatusCommandMessageResponse",
                     "receiveRtmpSampleAccessMessage", "statusRefused", "statusRefused")
receiveRtmpSampleAccessMessage(g) ==
  ReceiveDynamicStep(g, "receiveRtmpSampleAccessMessage",
                     "sessionReady", "handshakeDone", "handshakeDone")

startMediaPacketRetriever(g) ==
  /\ At(g, "startMediaPacketRetriever")
  /\ at' = [at EXCEPT ![g] = "handshakeDone", ![Media] = IF stopped THEN "loop" ELSE @]
  /\ stopped' = FALSE
  /\ UNCHANGED <<socketVars, wack, wireVars, cause, told, appVars>>

watcherChain(g) ==
  /\ role = "watcher"
  /\ \/ connectChain(g)
     \/ receiveCreateStreamCommandResponse(g, "sendPlayCommandMessage")
     \/ sendPlayCommandMessage(g) \/ receiveStreamBeginMessage(g)
     \/ receivePlayOnStatusCommandMessageResponse(g)
     \/ receiveRtmpSampleAccessMessage(g) \/ startMediaPacketRetriever(g)

SocketThread(g) ==
  \/ resolve(g) \/ connectImpl(g) \/ handshake(g)
  \/ broadcasterChain(g) \/ watcherChain(g)
  \/ statusRefused(g) \/ sessionReady(g) \/ close(g)

-----------------------------------------------------------------------------
(* The media thread.                                                       *)

\* the retriever's receive: a media message, or an error; one after the first chunk
\* ("rest") does not end the loop over the chunks, which ChunkReader has in detail
retrieve ==
  /\ \/ At(Media, "loop") /\ ~stopped
     \/ At(Media, "rest")
  /\ \/ /\ Connected
        /\ s2c # <<>>
        /\ s2c' = Tail(s2c)
        /\ Go(Media, "loop")
        /\ UNCHANGED <<told, closing>>
     \/ /\ \E ec \in Errors : checkError(Media, ec)
        /\ \/ UNCHANGED at
           \/ Connected /\ Go(Media, "rest")
        /\ UNCHANGED s2c
  /\ UNCHANGED <<open, link, thread, npm, sessionFlags, c2s, granted, cause, appVars>>

retrieverEnds ==
  /\ At(Media, "loop")
  /\ stopped
  /\ Go(Media, "off")
  /\ UNCHANGED <<socketVars, sessionFlags, wireVars, cause, told, appVars>>

\* the queue's worker hands an item to sendAudioMessage / sendVideoMessage, which
\* the owner's queue does only between sessionStarted and the end
sendMediaMessage ==
  /\ role = "broadcaster"
  /\ At(Media, "off")
  /\ "started" \in told /\ wanted
  /\ open
  /\ Go(Media, "io")
  /\ UNCHANGED <<socketVars, sessionFlags, wireVars, cause, told, appVars>>

\* its sendPacket returns; on an error of any kind the callback closes the socket
mediaMessageSent ==
  /\ At(Media, "io")
  /\ \/ /\ Connected
        /\ Go(Media, "off")
        /\ UNCHANGED <<told, closing>>
     \/ /\ \E ec \in Errors : checkError(Media, ec)
        /\ Go(Media, "close")
  /\ UNCHANGED <<open, link, thread, npm, sessionFlags, wireVars, cause, appVars>>

closeAfterMediaError ==
  /\ At(Media, "close")
  /\ closing' = [closing EXCEPT ![Media] = "test"]
  /\ Go(Media, "off")
  /\ UNCHANGED <<open, link, thread, npm, sessionFlags, wireVars, cause, told, appVars>>

MediaThread ==
  \/ retrieve \/ retrieverEnds \/ mediaMessageSent \/ closeAfterMediaError
  \/ close(Media)

-----------------------------------------------------------------------------
(* The application thread: start() and end().                              *)

\* BaseSocket::connect first closes the socket
start ==
  /\ At(App, "idle")
  /\ \E g \in SocketThreads : at[g] = "unborn"   \* the bound on starts
  /\ Go(App, "connect")
  /\ closing' = [closing EXCEPT ![App] = "test"]
  /\ wanted' = TRUE
  /\ UNCHANGED <<open, link, thread, npm, sessionFlags, wireVars, cause, told, role, endedReady>>

connect(g) ==
  /\ At(App, "connect")
  /\ at[g] = "unborn"
  /\ at' = [at EXCEPT ![App] = "idle", ![g] = "resolve"]
  /\ thread' = g
  /\ told' = {} /\ cause' = {} /\ endedReady' = FALSE
  /\ UNCHANGED <<open, link, closing, npm, sessionFlags, wireVars, role, wanted>>

\* and no chain is about to start it, which would undo end()'s stopped_ = true
RetrieverRuns ==
  /\ at[Media] # "off"
  /\ \A g \in SocketThreads : at[g] # "startMediaPacketRetriever"

Ending ==
  /\ At(App, "idle")
  /\ wanted' = FALSE /\ UNCHANGED role
  /\ endedReady' = ("started" \in told /\ (role = "watcher" => RetrieverRuns))

endBroadcaster ==
  /\ role = "broadcaster"
  /\ Ending
  /\ Go(App, IF open THEN "sendCloseStream" ELSE "endClose")
  /\ UNCHANGED <<socketVars, sessionFlags, wireVars, cause, told>>

\* Mutant of sendCloseStream: it is sent again until it succeeds.
sendCloseStreamRetries ==
  /\ At(App, "sendCloseStream")
  /\ \/ /\ Connected
        /\ c2s' = IF link = "up" THEN Append(c2s, "CloseStream") ELSE c2s
        /\ Go(App, "endClose")
        /\ UNCHANGED <<told, closing>>
     \/ /\ \E ec \in Errors : checkError(App, ec)
        /\ UNCHANGED <<c2s, at>>
  /\ UNCHANGED <<open, link, thread, npm, sessionFlags, s2c, granted, cause, appVars>>

sendCloseStream ==
  /\ At(App, "sendCloseStream")
  /\ \/ /\ Connected
        /\ c2s' = IF link = "up" THEN Append(c2s, "CloseStream") ELSE c2s
        /\ UNCHANGED <<told, closing>>
     \/ /\ \E ec \in Errors : checkError(App, ec)
        /\ UNCHANGED c2s
  /\ Go(App, "endClose")
  /\ UNCHANGED <<open, link, thread, npm, sessionFlags, s2c, granted, cause, appVars>>

\* Mutant of endWatcher: the worker is not told to stop.
endWatcherJoinsOnly ==
  /\ role = "watcher"
  /\ Ending
  /\ Go(App, "joinWorker")
  /\ UNCHANGED <<socketVars, sessionFlags, wireVars, cause, told>>

endWatcher ==
  /\ role = "watcher"
  /\ Ending
  /\ stopped' = TRUE
  /\ Go(App, "joinWorker")
  /\ UNCHANGED <<socketVars, wack, wireVars, cause, told>>

joinWorker ==
  /\ At(App, "joinWorker")
  /\ at[Media] = "off"
  /\ Go(App, "endClose")
  /\ UNCHANGED <<socketVars, sessionFlags, wireVars, cause, told, appVars>>

\* Mutant of endClose: end() leaves the socket to the server.
endCloseOmitted ==
  /\ At(App, "endClose")
  /\ Go(App, "idle")
  /\ UNCHANGED <<socketVars, sessionFlags, wireVars, cause, told, appVars>>

\* RtmpSession::end
endClose ==
  /\ At(App, "endClose")
  /\ closing' = [closing EXCEPT ![App] = "test"]
  /\ Go(App, "idle")
  /\ UNCHANGED <<open, link, thread, npm, sessionFlags, wireVars, cause, told, appVars>>

end == endBroadcaster \/ endWatcher

\* what the application thread does once inside start() or end()
AppThread ==
  \/ \E g \in SocketThreads : connect(g)
  \/ sendCloseStream \/ joinWorker \/ endClose \/ close(App)

-----------------------------------------------------------------------------
(* The server (external): it answers in the order the client expects.      *)

Replies ==
  [C0 |-> <<"S0">>, C1 |-> <<"S1">>, C2 |-> <<"S2">>, SetChunkSize |-> <<>>,
   Connect |-> <<"WindowAck", "SetPeerBW", "SetChunkSize", "ConnectResult">>,
   WindowAck |-> <<>>, CreateStream |-> <<"CreateStreamResult">>,
   Publish |-> <<"OnStatus">>, Play |-> <<"StreamBegin", "OnStatus", "SampleAccess">>,
   CloseStream |-> <<>>]

\* another protocol version, a zero window, an error result or status, no access
Refusable == {"S0", "WindowAck", "ConnectResult", "OnStatus", "SampleAccess"}
Range1(s) == {s[i] : i \in DOMAIN s}

ServerReplies ==
  /\ link = "up" /\ c2s # <<>>
  /\ LET msg == Head(c2s) IN
     \E no \in SUBSET (Refusable \cap Range1(Replies[msg])) :
       /\ s2c' = s2c \o [i \in DOMAIN Replies[msg] |->
                            [kind |-> Replies[msg][i], ok |-> Replies[msg][i] \notin no]]
       /\ granted' = (granted \/ (msg \in {"Publish", "Play"} /\ no = {}))
       /\ cause' = IF no # {} THEN cause \cup {"refused"} ELSE cause
  /\ c2s' = Tail(c2s)
  /\ UNCHANGED <<socketVars, at, sessionFlags, told, appVars>>

ServerSendsMedia ==
  /\ role = "watcher" /\ link = "up" /\ granted
  /\ Len(s2c) < MaxMedia
  /\ s2c' = Append(s2c, [kind |-> "Media", ok |-> TRUE])
  /\ UNCHANGED <<socketVars, at, sessionFlags, c2s, granted, cause, told, appVars>>

ServerDrops ==
  /\ link = "up"
  /\ link' = "down"
  /\ UNCHANGED <<open, thread, closing, npm, at, sessionFlags, wireVars, cause, told, appVars>>

Server == ServerReplies \/ ServerSendsMedia \/ ServerDrops

-----------------------------------------------------------------------------
Init ==
  /\ role \in Roles
  /\ open = FALSE /\ link = "none" /\ thread = NoThread /\ npm = FALSE
  /\ at = [t \in Threads |-> CASE t = App   -> "idle"
                               [] t = Media -> "off"
                               [] OTHER     -> "unborn"]
  /\ closing = [t \in Threads |-> "no"]
  /\ stopped = TRUE /\ wack = FALSE
  /\ c2s = <<>> /\ s2c = <<>> /\ granted = FALSE
  /\ cause = {} /\ told = {} /\ wanted = FALSE /\ endedReady = FALSE

\* The application the views are: it starts again only after end(), when what has
\* started is closed and the threads that worked for it are gone (the queue's worker
\* was joined, and the delay before a reconnection outlasts a failed attempt).
PatientStart ==
  /\ ~wanted
  /\ "started" \in told => "closed" \in told
  /\ \A g \in SocketThreads : ~Alive(g)
  /\ at[Media] = "off" /\ closing[Media] = "no"
  /\ start

\* one that calls start() on a session that has started
StartAgain == "started" \in told /\ start

Threaded ==
  \/ \E g \in SocketThreads : SocketThread(g)
  \/ MediaThread \/ sendMediaMessage
  \/ end \/ AppThread
  \/ Server

Next      == Threaded \/ PatientStart
EagerNext == Next \/ StartAgain

\* Every thread goes on: an operation ends within its five seconds, resolving and
\* connecting end by the system's own limits. Nothing makes the application call,
\* the server answer or the queue have an item.
Fairness ==
  /\ \A g \in SocketThreads : WF_vars(SocketThread(g))
  /\ WF_vars(MediaThread)
  /\ WF_vars(AppThread)

Spec      == Init /\ [][Next]_vars /\ Fairness
EagerSpec == Init /\ [][EagerNext]_vars /\ Fairness

-----------------------------------------------------------------------------
(* Properties.                                                             *)

StateOK ==
  /\ open \in BOOLEAN /\ npm \in BOOLEAN /\ link \in {"none", "up", "down"}
  /\ thread \in SocketThreads \cup {NoThread}
  /\ at \in [Threads -> SocketSteps \cup AppSteps \cup MediaSteps]
  /\ at[App] \in AppSteps /\ at[Media] \in MediaSteps
  /\ \A g \in SocketThreads : at[g] \in SocketSteps
  /\ closing \in [Threads -> {"no", "test", "inner", "join", "stop"}]
  /\ stopped \in BOOLEAN /\ wack \in BOOLEAN
  /\ c2s \in Seq(ClientMsgs) /\ s2c \in Seq(ServerMsgs) /\ granted \in BOOLEAN
  /\ cause \subseteq {"refused", "unlisted"}
  /\ told \subseteq {"reconnect", "closed", "failed", "started", "handshake"}
  /\ wanted \in BOOLEAN /\ endedReady \in BOOLEAN
TypeOK == role \in Roles /\ StateOK

\* The delegates hear sessionStarted only when the server has granted the stream on
\* this very connection (sessionReady, at the end of the two command chains).
StartedOnlyIfGranted ==
  [][("started" \in told' /\ "started" \notin told) => granted]_vars

\* The chain reads packets by size, without looking at their type: what each
\* receiving function finds at the head of the stream is the packet it is for,
\* unless a header was lost to an error checkError does not list.
HeadIsExpected ==
  \A g \in SocketThreads :
    (at[g] \in DOMAIN Expected /\ open /\ s2c # <<>> /\ "unlisted" \notin cause)
      => Head(s2c).kind = Expected[at[g]]

\* The metrics thread never outlives the socket: it runs only while the socket is
\* open or some thread is still inside a close() that is going to stop it.
MetricsEndWithSocket ==
  npm => (open \/ \E t \in Threads : closing[t] \in {"join", "stop"})

\* The end of a started session (a watcher's: one whose retriever runs) leaves
\* nothing behind: once end() has returned the socket is closed, no retriever and
\* no socket thread runs, and the metrics are stopped, unless another thread's
\* close() is still waiting for that thread or about to stop the metrics.
EndOfStartedSessionIsComplete ==
  (At(App, "idle") /\ endedReady /\ ~wanted) =>
    /\ ~open
    /\ \A g \in SocketThreads : ~Alive(g) \/ \E t \in Threads : closing[t] = "join"
    /\ role = "watcher" => at[Media] = "off"
    /\ npm => \E t \in Threads : closing[t] \in {"join", "stop"}

\* A chain that ends with the socket still open and the delegates told neither
\* that the session started nor that the connection is closed is one the server
\* refused, or one an I/O error outside checkError's list stopped.
SilentOnlyIfRefused ==
  \A g \in SocketThreads :
    (thread = g /\ ~Alive(g) /\ open /\ told \cap {"started", "closed"} = {}) => cause # {}

\* Neither an end nor a chain that stopped by itself leaves behind what nobody was told of.
NothingIsLeftBehind == EndOfStartedSessionIsComplete /\ SilentOnlyIfRefused

\* start() and, on a started session, end() always return, unless the retriever met an
\* error between the chunks of a message, after which it may never leave its loop.
StartReturns == at[App] = "connect" ~> at[App] # "connect"
EndReturns ==
  (at[App] \in AppSteps \ {"connect"} /\ endedReady) ~> (At(App, "idle") \/ at[Media] = "rest")

\* A started session is as good for a second start as for an end: both calls return.
CallsReturn == StartReturns /\ EndReturns

\* Whatever the server and the network do, a connection attempt is followed by
\* sessionStarted, by socketDidClose, or by a refusal.
AttemptIsSettled ==
  \A g \in SocketThreads :
    at[g] = "resolve" ~> (told \cap {"started", "closed"} # {} \/ cause # {})

\* The session keeps the promises of SessionLifecycle.
Lifecycle == INSTANCE SessionLifecycle WITH
  phase   <- CASE \A g \in SocketThreads : at[g] = "unborn" -> "idle"
               [] "closed" \in told                          -> "over"
               [] {"closed", "started"} \cap told = {"started"} -> "live"
               [] OTHER                                      -> "attempt",
  busy    <- \E g \in SocketThreads : Alive(g),
  metered <- npm
KeepsLifecycle == Lifecycle!Spec

\* rtmp_session.h:68 "Ends the current session if running": what was ended is not
\* started afterwards, neither the session nor its retriever.
EndedSessionStaysEnded ==
  [][(("started" \in told' /\ "started" \notin told)
       \/ (at[Media] = "off" /\ at'[Media] = "loop")) => wanted]_vars
=============================================================================
