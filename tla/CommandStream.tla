---------------------------- MODULE CommandStream ----------------------------
(***************************************************************************)
(* What a client session writes on its connection after the handshake and  *)
(* what it makes of the answers, unit by unit: the headers, the bodies and *)
(* the chunks of its messages, and a server that takes them apart by their *)
(* announced sizes.                                                        *)
(*                                                                         *)
(* A stream is a sequence of units as in Amf0.  RtmpSession has the        *)
(* threads and the errors of the same functions; here one thread runs them.*)
(***************************************************************************)
EXTENDS Integers, Sequences
LOCAL INSTANCE SequencesExt
LOCAL INSTANCE Amf0
Meta == INSTANCE Metadata

CONSTANTS Roles,       \* which of the two client sessions to look at
          DefaultSize, \* what RtmpSessionSettings starts with
          ServerSizes, \* the chunk sizes a server may announce
          Windows,     \* the windows a server may announce
          MediaSizes,  \* bodies of audio and video messages
          MaxSessions, \* bound on the calls of start()
          MaxMedia     \* bound on the media messages of a session

ConstantsOK ==
  /\ Roles \subseteq {"broadcaster", "watcher"}
  /\ {DefaultSize} \cup ServerSizes \cup MediaSizes \subseteq Nat \ {0}
  /\ Windows \subseteq Nat /\ {MaxSessions, MaxMedia} \subseteq Nat

VARIABLES
  role,      \* which of the two this one is: it never changes
  sessions,  \* the calls of start() so far
  at,        \* the function the session is in
  chunkSize, \* settings_.chunkSize(), which outlives the connections
  window,    \* windowAcknowledgementSize_
  up, down,  \* the two directions of the connection
  server,    \* what the server knows and has announced
  sent,      \* history: the messages of this connection
  heard,     \* history: those the server has taken from it
  meant,     \* history: its verdicts, and whether the client has a way to see them
  taken      \* history: what the client took them for

client == <<role, sessions, chunkSize, window>>
verdicts == <<meant, taken>>
vars == <<client, at, up, down, server, sent, heard, verdicts>>

-----------------------------------------------------------------------------
(* Headers.                                                                *)

RtmpChunkStreamType == [Type0 |-> 0, Type1 |-> 1, Type3 |-> 3]
RtmpChunkStreamFmt ==
  [ControlMessage |-> 2, AMF_Object |-> 3, AudioMessage |-> 4, VideoMessage |-> 5]
RtmpMessageType ==
  [SetChunkSizeMessage |-> 1, UserControlMessage |-> 4, WindowAcknowledgementSizeMessage |-> 5,
   SetPeerBandwidth |-> 6, AudioMessage |-> 8, VideoMessage |-> 9, DataMessage_AMF0 |-> 18,
   CommandMessage_AMF0 |-> 20]

Byte == 0 .. 255

toBigEndian24(n) == <<(n \div 65536) % 256, (n \div 256) % 256, n % 256>>
toBigEndian32(n) == <<(n \div 16777216) % 256>> \o toBigEndian24(n)
toLittleEndian32(n) == Reverse(toBigEndian32(n))
fromBigEndian24(d) == d[1] * 65536 + d[2] * 256 + d[3]
fromBigEndian32(d) == d[1] * 16777216 + fromBigEndian24(Tail(d))

chunkStreamID(streamFormatType, fmt) ==
  RtmpChunkStreamType[streamFormatType] * 64 + RtmpChunkStreamFmt[fmt]

\* Only whether all the bits of a time are set matters; hasExtendedTimestamp() then
\* says that the header is four units longer, which no message writes.
time(saturated) == IF saturated THEN <<255, 255, 255>> ELSE <<0, 0, 0>>
hSize(saturated) == IF saturated THEN 16 ELSE 12

\* Mutant of Header: a message without a stream has it written nevertheless.
HeaderAlwaysOnStream(streamType, fmt, saturated, size, type) ==
  <<chunkStreamID(streamType, fmt)>> \o time(saturated) \o toBigEndian24(size)
  \o <<RtmpMessageType[type]>> \o toLittleEndian32(0)

\* every message but createStream is of type 0, on the stream 0
Header(streamType, fmt, saturated, size, type) ==
  <<chunkStreamID(streamType, fmt)>> \o time(saturated) \o toBigEndian24(size)
  \o <<RtmpMessageType[type]>>
  \o IF streamType = "Type0" THEN toLittleEndian32(0) ELSE << >>

\* Mutant of trunkToSize: the chunks after the first have no header.
trunkToSizeBare(payload, fmt, h, maxSize) == payload

\* RtmpMediaMessage::trunkToSize, with the header newChunkedPacket gives the chunks
trunkToSize(payload, fmt, h, maxSize) ==
  LET from == h + maxSize
      rest == Len(payload) - from
      chunk(i) == <<chunkStreamID("Type3", fmt)>>
                  \o SubSeq(payload, from + (i - 1) * maxSize + 1,
                            IF i * maxSize < rest THEN from + i * maxSize ELSE Len(payload))
  IN  IF rest <= 0 THEN payload
      ELSE SubSeq(payload, 1, from)
           \o FlattenSeq([i \in 1 .. (rest + maxSize - 1) \div maxSize |-> chunk(i)])

-----------------------------------------------------------------------------
(* The messages of the client: a header's kind and fields, and a body.     *)

Word == [connect |-> 2000001, createStream |-> 2000002, publish |-> 2000003, play |-> 2000004,
         closeStream |-> 2000005, live |-> 2000006, fpad |-> 2000007, objectEncoding |-> 2000008,
         app |-> 2000009, tcUrl |-> 2000010, result |-> 2000011, onStatus |-> 2000012,
         sampleAccess |-> 2000013, level |-> 2000014, code |-> 2000015, error |-> 2000016,
         status |-> 2000017, success |-> 2000018, rejected |-> 2000019, version |-> 2000020,
         appName |-> 2000021, url |-> 2000022, streamName |-> 2000023]
Picture == 2000024

Text1(word) == serializeString(Word[word], TRUE)
serializeNullObject == <<NullMarker>>

Plain(fmt, type, body) ==
  [streamType |-> "Type0", fmt |-> fmt, saturated |-> FALSE, type |-> type, body |-> body]
Command(body) == Plain("AMF_Object", "CommandMessage_AMF0", body)

\* the constructor leaves the chunk stream of the commands
RtmpSetChunkSizeMessage(size) == Plain("AMF_Object", "SetChunkSizeMessage", toBigEndian32(size))
RtmpWindowAcknowledgementSizeMessage(size) ==
  Plain("ControlMessage", "WindowAcknowledgementSizeMessage", toBigEndian32(size))

RtmpConnectCommandMessage ==
  Command(Text1("connect") \o serializeNumber(1)
          \o serializeObject([n \in {Word.fpad, Word.objectEncoding, Word.app, Word.tcUrl} |->
               CASE n = Word.fpad           -> BooleanVariant(FALSE)
                 [] n = Word.objectEncoding -> NumberVariant(0)
                 [] n = Word.app            -> StringVariant(Word.appName)
                 [] n = Word.tcUrl          -> StringVariant(Word.url)]))

RtmpCreateStreamCommandMessage ==
  [Command(Text1("createStream") \o serializeNumber(2) \o serializeNullObject)
     EXCEPT !.streamType = "Type1"]

RtmpCloseStreamCommandMessage ==
  Command(Text1("closeStream") \o serializeNumber(1) \o serializeNullObject)

\* Mutant of RtmpPublishCommandMessage: the name and the type change places.
RtmpPublishCommandMessageSwapped ==
  Command(Text1("publish") \o serializeNumber(0) \o serializeNullObject
          \o Text1("live") \o Text1("streamName"))

RtmpPublishCommandMessage ==
  Command(Text1("publish") \o serializeNumber(0) \o serializeNullObject
          \o Text1("streamName") \o Text1("live"))

RtmpPlayCommandMessage ==
  Command(Text1("play") \o serializeNumber(0) \o serializeNullObject
          \o Text1("streamName") \o serializeNumber(-1000))

RtmpMetadataMessage ==
  Plain("AMF_Object", "DataMessage_AMF0",
        Meta!Message(Meta!sendOnMetaDataMessage(
          [width |-> 1280, height |-> 720, audioChannels |-> 1, frameRate |-> 30,
           videoDataRate |-> 350, videoFrameRate |-> 0])))

MediaMessage(kind, saturated, size) ==
  [Plain(kind, kind, [i \in 1 .. size |-> Picture]) EXCEPT !.saturated = saturated]

serialize(m) == Header(m.streamType, m.fmt, m.saturated, Len(m.body), m.type) \o m.body

-----------------------------------------------------------------------------
(* The answers the client decodes.                                         *)

\* the packets of a fixed size
windowAcknowledgementSize(packet) == fromBigEndian32(SubSeq(packet, 13, 16))
announcedChunkSize(packet) == fromBigEndian32(SubSeq(packet, 13, 16))

\* the header of the others
payloadSize(packet) == fromBigEndian24(SubSeq(packet, 5, 7))

\* the properties go to the first container that is still empty
Containers(items) ==
  SelectSeq(items, LAMBDA item : item.type = "object" /\ item.value # NoProperties)

Announces(properties, name) ==
  /\ Word[name] \in DOMAIN properties
  /\ properties[Word[name]].type = "string"
  /\ properties[Word[name]].value # Word.error

\* Mutant of connectIsSuccessfull: it asks the command object.
connectIsSuccessfullAsksFirst(items) ==
  Containers(items) # << >> /\ Announces(Containers(items)[1].value, "code")

connectIsSuccessfull(items) ==
  Len(Containers(items)) > 1 /\ Announces(Containers(items)[2].value, "code")

createStreamIsSuccessfull(items) == TRUE
streamBeginIsSuccessfull(items) == TRUE

onStatusIsSuccessfull(items) ==
  Containers(items) # << >> /\ Announces(Containers(items)[1].value, "level")

\* the second boolean is written over the first, and the other flag stays unset
sampleAccessIsSuccessfull(items) ==
  LET flags == SelectSeq(items, LAMBDA item : item.type = "boolean")
  IN  flags # << >> /\ flags[IF Len(flags) > 1 THEN 2 ELSE 1].value

-----------------------------------------------------------------------------
(* The session.                                                            *)

Open == at \notin {"idle", "closed"}

\* whether a receiver that was told said finds the message where it expects it, when it
\* was cut by cut; a message that is sent whole is one chunk
Framed(m, cut, said) ==
  /\ ~m.saturated
  /\ cut = said \/ (Len(m.body) <= said /\ Len(m.body) <= cut)

Said == IF sent = << >> THEN 128 ELSE fromBigEndian32(sent[1].body)

Put(m, units, cut) ==
  /\ up' = up \o units
  /\ sent' = Append(sent, [type |-> m.type, body |-> m.body, framed |-> Framed(m, cut, Said)])

Send(l, m, next) ==
  /\ at = l
  /\ at' = next
  /\ Put(m, serialize(m), Len(m.body))
  /\ UNCHANGED <<client, down, server, heard, verdicts>>

\* receivePacket: as many units as the packet has
Receive(l, size, next) ==
  /\ at = l /\ Len(down) >= size
  /\ down' = SubSeq(down, size + 1, Len(down))
  /\ at' = next
  /\ UNCHANGED <<role, sessions, up, server, sent, heard, verdicts>>

\* what a packet that is there decodes to
Items == deserialize(SubSeq(down, 13, 12 + payloadSize(down)))

\* receiveDynamicPacket: a header and as many units as it says, in one go.  What an
\* answer in several chunks looks like then, and what follows it, can be anything.
Decode(l, isSuccessfull) ==
  /\ at = l
  /\ \/ server.torn /\ down' = down /\ \E yes \in BOOLEAN : taken' = Append(taken, yes)
     \/ /\ ~server.torn /\ Len(down) >= 12 /\ Len(down) >= 12 + payloadSize(down)
        /\ down' = SubSeq(down, 13 + payloadSize(down), Len(down))
        /\ taken' = Append(taken, isSuccessfull)
  /\ UNCHANGED <<client, up, server, sent, heard, meant>>

Verdict == taken'[Len(taken')]

sendSetChunkSize ==
  Send("sendSetChunkSize", RtmpSetChunkSizeMessage(chunkSize), "sendConnectCommandMessage")
sendConnectCommandMessage ==
  Send("sendConnectCommandMessage", RtmpConnectCommandMessage, "receiveWindowAcknowledgeSize")

receiveWindowAcknowledgeSize ==
  /\ Receive("receiveWindowAcknowledgeSize", 16, "receiveSetPeerBandWidth")
  /\ window' = windowAcknowledgementSize(down)
  /\ UNCHANGED chunkSize

\* Mutant of receiveSetPeerBandWidth: the limit's type is left in the stream.
receiveSetPeerBandWidthShort ==
  /\ Receive("receiveSetPeerBandWidth", 16, "sendWindowAcknowledgeSize")
  /\ UNCHANGED <<window, chunkSize>>

receiveSetPeerBandWidth ==
  /\ Receive("receiveSetPeerBandWidth", 17, "sendWindowAcknowledgeSize")
  /\ UNCHANGED <<window, chunkSize>>

sendWindowAcknowledgeSize ==
  \/ window > 0 /\ Send("sendWindowAcknowledgeSize", RtmpWindowAcknowledgementSizeMessage(window),
                        "receiveSetChunkSize")
  \/ /\ window = 0 /\ at = "sendWindowAcknowledgeSize"
     /\ at' = "silent"
     /\ UNCHANGED <<client, up, down, server, sent, heard, verdicts>>

\* the server's size is what the client's own messages are cut by from now on
receiveSetChunkSize ==
  /\ Receive("receiveSetChunkSize", 16, "receiveConnectionCommandResponse")
  /\ chunkSize' = announcedChunkSize(down)
  /\ UNCHANGED window

receiveConnectionCommandResponse ==
  /\ Decode("receiveConnectionCommandResponse", connectIsSuccessfull(Items))
  /\ at' = IF Verdict THEN "sendCreateStreamCommand" ELSE "silent"

sendCreateStreamCommand ==
  Send("sendCreateStreamCommand", RtmpCreateStreamCommandMessage,
       "receiveCreateStreamCommandResponse")

\* the stream in the answer is not looked at
receiveCreateStreamCommandResponse ==
  /\ Decode("receiveCreateStreamCommandResponse", createStreamIsSuccessfull(Items))
  /\ at' = IF role = "broadcaster" THEN "sendPublishCommand" ELSE "sendPlayCommandMessage"

sendPublishCommand ==
  Send("sendPublishCommand", RtmpPublishCommandMessage, "receiveOnStatusCommandResponse")
sendPlayCommandMessage ==
  Send("sendPlayCommandMessage", RtmpPlayCommandMessage, "receiveStreamBeginMessage")

receiveStreamBeginMessage ==
  /\ Decode("receiveStreamBeginMessage", streamBeginIsSuccessfull(Items))
  /\ at' = "receiveOnStatusCommandResponse"

\* the watcher's function is called receivePlayOnStatusCommandMessageResponse
receiveOnStatusCommandResponse ==
  /\ Decode("receiveOnStatusCommandResponse", onStatusIsSuccessfull(Items))
  /\ at' = CASE ~Verdict             -> "closed"
             [] role = "broadcaster" -> "live"
             [] OTHER                -> "receiveRtmpSampleAccessMessage"

receiveRtmpSampleAccessMessage ==
  /\ Decode("receiveRtmpSampleAccessMessage", sampleAccessIsSuccessfull(Items))
  /\ at' = IF Verdict THEN "live" ELSE "silent"

\* once in a session, to bound them
sendOnMetaDataMessage ==
  /\ role = "broadcaster" /\ \A i \in DOMAIN sent : sent[i].type # "DataMessage_AMF0"
  /\ Send("live", RtmpMetadataMessage, "live")

\* sendAudioMessage and sendVideoMessage
sendMediaMessage ==
  /\ role = "broadcaster" /\ at = "live"
  /\ Len(SelectSeq(sent, LAMBDA m : m.type \in {"AudioMessage", "VideoMessage"})) < MaxMedia
  /\ \E kind \in {"AudioMessage", "VideoMessage"}, size \in MediaSizes, saturated \in BOOLEAN :
       LET m == MediaMessage(kind, saturated, size)
       IN  Put(m, trunkToSize(serialize(m), m.fmt, hSize(saturated), chunkSize), chunkSize)
  /\ UNCHANGED <<client, at, down, server, heard, verdicts>>

\* a broadcaster says so before it closes
end ==
  /\ Open
  /\ IF role = "broadcaster"
     THEN Put(RtmpCloseStreamCommandMessage, serialize(RtmpCloseStreamCommandMessage),
              Len(RtmpCloseStreamCommandMessage.body))
     ELSE UNCHANGED <<up, sent>>
  /\ at' = "closed"
  /\ UNCHANGED <<client, down, server, heard, verdicts>>

\* an operation failed or took too long
Lost ==
  /\ Open
  /\ at' = "closed"
  /\ UNCHANGED <<client, up, down, server, sent, heard, verdicts>>

NewServer == [limit |-> 128, size |-> 128, body |-> << >>, left |-> 0, type |-> 0,
              torn |-> FALSE, lost |-> FALSE]

\* up to the end of the handshake
start ==
  /\ ~Open /\ sessions < MaxSessions
  /\ sessions' = sessions + 1
  /\ at' = "sendSetChunkSize"
  /\ server' = NewServer
  /\ up' = << >> /\ down' = << >> /\ sent' = << >> /\ heard' = << >>
  /\ meant' = << >> /\ taken' = << >>
  /\ UNCHANGED <<role, chunkSize, window>>

-----------------------------------------------------------------------------
(* The server: it takes chunks apart, a command at a time.                 *)

Control(type, body) == Plain("ControlMessage", type, body)
Info(word, value) == [n \in {Word[word], Word.version} |-> StringVariant(Word[value])]

\* a server gives a reason with its verdict, and may leave the command object out
ConnectResponse(withProperties, code) ==
  Command(Text1("result") \o serializeNumber(1)
          \o (IF withProperties THEN serializeObject([n \in {Word.version} |-> NumberVariant(3)])
              ELSE serializeNullObject)
          \o serializeObject(Info("code", code)))
CreateStreamResponse ==
  Command(Text1("result") \o serializeNumber(2) \o serializeNullObject \o serializeNumber(1))
StreamBegin == Control("UserControlMessage", <<0, 0, 0, 0, 0, 1>>)
OnStatus(yes) ==
  Command(Text1("onStatus") \o serializeNumber(0) \o serializeNullObject
          \o serializeObject(Info("level", IF yes THEN "status" ELSE "error")))
SampleAccess(audio, video) ==
  Plain("AMF_Object", "DataMessage_AMF0",
        Text1("sampleAccess") \o serializeBoolean(audio) \o serializeBoolean(video))

\* the answers are cut by the size the server has announced by then; of a verdict that
\* the client has no way to tell from its contrary it is not known what it makes of it
Answer(s, answers, size, verdict) ==
  /\ server' = [s EXCEPT !.size = size,
                         !.torn = @ \/ \E i \in DOMAIN answers : Len(answers[i].body) > size]
  /\ down' = down \o FlattenSeq([i \in DOMAIN answers |->
                       trunkToSize(serialize(answers[i]), answers[i].fmt, 12, size)])
  /\ meant' = meant \o verdict
Means(yes, known) == [yes |-> yes, known |-> known]

Connected(s) ==
  \E w \in Windows, size \in ServerSizes, withProperties \in BOOLEAN,
     code \in {"success", "rejected", "error"} :
    Answer(s, <<Control("WindowAcknowledgementSizeMessage", toBigEndian32(w)),
                Control("SetPeerBandwidth", toBigEndian32(w) \o <<2>>),
                Control("SetChunkSizeMessage", toBigEndian32(size)),
                ConnectResponse(withProperties, code)>>, size,
           <<Means(code = "success", code = "error" \/ (code = "success") = withProperties)>>)

Published(s) == \E yes \in BOOLEAN : Answer(s, <<OnStatus(yes)>>, s.size, <<Means(yes, TRUE)>>)

\* nothing follows a refusal
Played(s) ==
  \/ Answer(s, <<StreamBegin, OnStatus(FALSE)>>, s.size, <<Means(TRUE, TRUE), Means(FALSE, TRUE)>>)
  \/ \E audio, video \in BOOLEAN :
       Answer(s, <<StreamBegin, OnStatus(TRUE), SampleAccess(audio, video)>>, s.size,
              <<Means(TRUE, TRUE), Means(TRUE, TRUE), Means(audio \/ video, video \/ ~audio)>>)

CommandName(body) == IF Len(body) > 3 THEN body[4] ELSE Empty
IsSize(body) == Len(body) = 4 /\ \A i \in 1 .. 4 : body[i] \in Byte

Understands(s, type, body) ==
  LET name == IF type = RtmpMessageType.CommandMessage_AMF0 THEN CommandName(body) ELSE Empty IN
  CASE type = RtmpMessageType.SetChunkSizeMessage /\ IsSize(body) ->
         Answer([s EXCEPT !.limit = fromBigEndian32(body)], << >>, s.size, << >>)
    [] name = Word.connect      -> Connected(s)
    [] name = Word.createStream ->
         Answer(s, <<CreateStreamResponse>>, s.size, <<Means(TRUE, TRUE)>>)
    [] name = Word.publish      -> Published(s)
    [] name = Word.play         -> Played(s)
    [] OTHER                    -> Answer(s, << >>, s.size, << >>)

headSize(unit) ==
  CASE unit \in 0 .. 63    -> 12
    [] unit \in 64 .. 127  -> 8
    [] unit \in 192 .. 255 -> 1
    [] OTHER               -> 0

\* what stands where a header should: none, one of a new message inside another, or the
\* contrary, or one with impossible fields
NoHeader(h) ==
  \/ h = 0
  \/ (h = 1) # (server.left > 0)
  \/ /\ h > 1
     /\ \/ \E i \in 1 .. h : up[i] \notin Byte
        \/ up[8] \notin {RtmpMessageType[t] : t \in DOMAIN RtmpMessageType}

\* one chunk, once it is all there
ServerReads ==
  /\ ~server.lost /\ up # << >>
  /\ LET h == headSize(up[1]) IN
     /\ Len(up) >= h
     /\ IF NoHeader(h)
        THEN /\ server' = [server EXCEPT !.lost = TRUE]
             /\ UNCHANGED <<up, down, heard, meant>>
        ELSE LET extra == IF h > 1 /\ SubSeq(up, 2, 4) = time(TRUE) THEN 4 ELSE 0
                 size  == IF h > 1 THEN fromBigEndian24(SubSeq(up, 5, 7)) ELSE server.left
                 n     == IF size < server.limit THEN size ELSE server.limit
                 from  == h + extra + 1
                 type  == IF h > 1 THEN up[8] ELSE server.type
                 body  == (IF h > 1 THEN << >> ELSE server.body) \o SubSeq(up, from, from + n - 1)
                 whole == size = n
                 s     == [server EXCEPT !.left = size - n, !.type = type,
                                         !.body = IF whole THEN << >> ELSE body]
             IN  /\ Len(up) >= from + n - 1
                 /\ up' = SubSeq(up, from + n, Len(up))
                 /\ heard' = IF whole THEN Append(heard, [type |-> type, body |-> body]) ELSE heard
                 /\ IF whole THEN Understands(s, type, body)
                    ELSE server' = s /\ UNCHANGED <<down, meant>>
  /\ UNCHANGED <<client, at, sent, taken>>

-----------------------------------------------------------------------------
Init ==
  /\ role \in Roles
  /\ sessions = 0 /\ at = "idle" /\ chunkSize = DefaultSize /\ window = 0
  /\ up = << >> /\ down = << >> /\ server = NewServer
  /\ sent = << >> /\ heard = << >> /\ meant = << >> /\ taken = << >>

Sends ==
  \/ sendSetChunkSize \/ sendConnectCommandMessage \/ sendWindowAcknowledgeSize
  \/ sendCreateStreamCommand \/ sendPublishCommand \/ sendPlayCommandMessage
  \/ sendOnMetaDataMessage \/ sendMediaMessage

Receives ==
  \/ receiveWindowAcknowledgeSize \/ receiveSetPeerBandWidth \/ receiveSetChunkSize
  \/ receiveConnectionCommandResponse \/ receiveCreateStreamCommandResponse
  \/ receiveStreamBeginMessage \/ receiveOnStatusCommandResponse \/ receiveRtmpSampleAccessMessage

Next == start \/ Sends \/ Receives \/ end \/ Lost \/ ServerReads

Spec == Init /\ [][Next]_vars

-----------------------------------------------------------------------------
(* Properties.                                                             *)

Steps ==
  {"idle", "sendSetChunkSize", "sendConnectCommandMessage", "receiveWindowAcknowledgeSize",
   "receiveSetPeerBandWidth", "sendWindowAcknowledgeSize", "receiveSetChunkSize",
   "receiveConnectionCommandResponse", "sendCreateStreamCommand",
   "receiveCreateStreamCommandResponse", "sendPublishCommand", "sendPlayCommandMessage",
   "receiveStreamBeginMessage", "receiveOnStatusCommandResponse",
   "receiveRtmpSampleAccessMessage", "live", "silent", "closed"}

\* the two numbers are ones a server has put into a packet
TypeOK ==
  /\ role \in Roles /\ sessions \in 0 .. MaxSessions /\ at \in Steps
  /\ chunkSize \in {DefaultSize} \cup ServerSizes /\ window \in {0} \cup Windows
  /\ server.limit \in {128, DefaultSize} \cup ServerSizes /\ server.size \in {128} \cup ServerSizes
  /\ \A i \in DOMAIN taken : taken[i] \in BOOLEAN

\* The server takes from the connection the messages the client has put on it, in their
\* order and with their types and bodies, up to the first one that was not cut by the size
\* the client had announced: sizes, headers and chunks agree.
ServerHearsTheClient ==
  /\ server.lost => \E i \in DOMAIN sent : ~sent[i].framed
  /\ \A i \in DOMAIN heard :
       (\A j \in 1 .. i : j \in DOMAIN sent => sent[j].framed) =>
         /\ i \in DOMAIN sent
         /\ heard[i] = [type |-> RtmpMessageType[sent[i].type], body |-> sent[i].body]

\* The client's verdicts on the answers are the server's, answer by answer, as long as
\* every answer has come in one chunk and is one the client has a way to understand; the
\* window and the chunk size it keeps are such as the server announces.
AnswersAreUnderstood ==
  /\ TypeOK
  /\ ~server.torn => \A i \in DOMAIN taken :
                       i \in DOMAIN meant /\ (meant[i].known => taken[i] = meant[i].yes)

\* A session that is live is so for the application and the stream of its own: these are
\* what the server was asked for on this connection, and what it has granted.
LiveIsAgreed ==
  at = "live" /\ ~server.torn =>
    /\ \E i \in DOMAIN heard :
         LET items == deserialize(heard[i].body) IN
         /\ CommandName(heard[i].body) = Word.connect
         /\ items[3].value[Word.app] = StringVariant(Word.appName)
    /\ \E i \in DOMAIN heard :
         /\ CommandName(heard[i].body) = (IF role = "broadcaster" THEN Word.publish ELSE Word.play)
         /\ deserialize(heard[i].body)[4] = StringVariant(Word.streamName)
    /\ \A i \in DOMAIN meant : meant[i].known => meant[i].yes
=============================================================================
