--------------------------- MODULE WatcherMediaProofs ---------------------------
(***************************************************************************)
(* Theorems about WatcherMedia, on both devices, for any formats,          *)
(* broadcasters and input buffers, any scale of the clock and any number   *)
(* of packets and sessions.                                                *)
(***************************************************************************)
EXTENDS WatcherMedia, SequenceTheorems, TLAPS

-----------------------------------------------------------------------------
(* What TypeOK says, part by part, and what a message in hand is.          *)

\* where the threads can be
AppPlaces == {"idle", "connect", "connectClosed", "markRunning", "end", "endClosed", "ended"}
SocketPlaces == {"idle", "work", "ready", "started"}
RetrieverPlaces == {"off", "loop", "closed", "use", "pps", "decode1", "decode2", "decode3"}
ThreadsOK ==
  /\ at \in [Threads -> AppPlaces \cup SocketPlaces \cup RetrieverPlaces]
  /\ at["app"] \in AppPlaces /\ at["socket"] \in SocketPlaces /\ at["retriever"] \in RetrieverPlaces

\* TypeOK in parts, with the shape of what it leaves open
SessionOK ==
  /\ session \in {"off", "resolving", "open", "live", "closed"}
  /\ stopped \in BOOLEAN /\ sessions \in Nat
  /\ isRunning \in BOOLEAN /\ isActive \in BOOLEAN /\ raced \in BOOLEAN /\ missed \in BOOLEAN
  /\ env \in Threads \cup {"none"}
SubjectOK ==
  /\ device \in Devices /\ [source |-> source, settings |-> published] \in Broadcasters
  /\ appActive \in BOOLEAN /\ surface \in BOOLEAN /\ inBackground \in BOOLEAN /\ calls \in Nat
StreamOK ==
  /\ streamFormat \in Formats /\ sent \in Nat /\ position \in Nat /\ timebase \in Nat
  /\ fresh \in BOOLEAN /\ drifted \in BOOLEAN /\ unheard \in BOOLEAN
AppleOK ==
  /\ fmt \in Formats \cup {NoSet} /\ decoder \in Formats \cup {NoSet}
  /\ samples \in Nat /\ wasted \in Nat /\ late \in BOOLEAN
JavaOK ==
  /\ codec \in [sps : Formats \cup {NoSet}, pps : Formats \cup {NoSet}]
  /\ codec.sps = NoSet <=> codec.pps = NoSet
  /\ pictures \in Seq(Nat) /\ Len(pictures) <= InputBuffers
  /\ holding \in Nat \cup {NoTime} /\ startWhen \in Nat \cup {NoTime}
  /\ wakeAt \in Nat /\ now \in Nat

\* a message in hand
Picture(f, delay, time) ==
  [kind |-> "video", payload |-> PicturePacket(TRUE, delay), format |-> f, time |-> time]
Parameters(f, nl, time) ==
  [kind |-> "video", payload |-> buildParametersVideoPacketWithSPS(f, f, nl),
   format |-> f, time |-> time]
IsPictureInHand == \E f \in Formats, d \in {0, 1}, t \in Nat : packet = Picture(f, d, t)
AreParametersInHand(nls) == \E f \in Formats, nl \in nls, t \in Nat : packet = Parameters(f, nl, t)
PacketOK ==
  /\ At("retriever", "use") =>
       \/ IsPictureInHand \/ AreParametersInHand({2, 4})
       \/ packet.kind \in {"metadata", "audio"}
  /\ At("retriever", "pps") => device = "android" /\ codec # NoCodec /\ AreParametersInHand({4})
  /\ at["retriever"] \in {"decode1", "decode2", "decode3"} => samples >= 1

Types == ThreadsOK /\ SessionOK /\ SubjectOK /\ StreamOK /\ AppleOK /\ JavaOK /\ PacketOK

\* what is unpacked of a picture
LEMMA PictureIsUnpacked ==
  ASSUME NEW d
  PROVE  unpackVideoData(PicturePacket(TRUE, d))
           = [descriptor |-> NoDescriptor, delay |-> d, rest |-> "picture"]
<1> DEFINE p == PicturePacket(TRUE, d)
<1>1. p.codec = 23 /\ p.config = 1 /\ p.delay = d
  BY DEF PicturePacket
<1> HIDE DEF p
<1>2. acceptableCodec(p) /\ acceptableConfig(p)
  BY <1>1 DEF acceptableCodec, acceptableConfig
<1>3. unpackVideoData(p) = [descriptor |-> NoDescriptor, delay |-> d, rest |-> "picture"]
  BY <1>1, <1>2 DEF unpackVideoData
<1> QED BY <1>3 DEF p

\* what is unpacked of parameters: nothing, unless a length of a NAL unit takes 4 bytes
LEMMA ParametersAreUnpacked ==
  ASSUME NEW f, NEW nl \in {2, 4}
  PROVE  unpackVideoData(buildParametersVideoPacketWithSPS(f, f, nl)) =
           IF nl = 4
           THEN [descriptor |-> [sps |-> f, pps |-> f, nalUnitSize |-> 4],
                 delay |-> 0, rest |-> "nothing"]
           ELSE [descriptor |-> NoDescriptor, delay |-> 0, rest |-> "tail"]
<1> DEFINE p == buildParametersVideoPacketWithSPS(f, f, nl)
<1>1. /\ p.codec = 23 /\ p.config = 0 /\ p.delay = 0 /\ p.nal = NalByte(nl)
      /\ p.spsCount = 225 /\ p.sps = f /\ p.ppsCount = 1 /\ p.pps = f
  BY DEF buildParametersVideoPacketWithSPS
<1> HIDE DEF p
<1>2. acceptableCodec(p) /\ acceptableConfig(p)
  BY <1>1 DEF acceptableCodec, acceptableConfig
<1>3. nalUnitSize(p) = nl
  <2>1. NalByte(2) = 253 /\ NalByte(4) = 255 /\ (253 % 4) + 1 = 2 /\ (255 % 4) + 1 = 4
    BY DEF NalByte
  <2> QED BY <1>1, <2>1 DEF nalUnitSize
<1>4. Supported(p) <=> nl = 4
  BY <1>1, <1>3 DEF Supported
<1>5. unpackVideoData(p) =
        IF nl = 4
        THEN [descriptor |-> [sps |-> f, pps |-> f, nalUnitSize |-> 4],
              delay |-> 0, rest |-> "nothing"]
        ELSE [descriptor |-> NoDescriptor, delay |-> 0, rest |-> "tail"]
  BY <1>1, <1>2, <1>3, <1>4 DEF unpackVideoData
<1> QED BY <1>5 DEF p

LEMMA NothingIsInvalid == ~isValid(NoDescriptor)
BY DEF isValid, NoDescriptor

\* what the device finds in the message in hand
LEMMA InHand ==
  /\ IsPictureInHand =>
       /\ packet.kind = "video" /\ packet.format \in Formats /\ packet.time \in Nat
       /\ ~isValid(Descriptor) /\ Rest = "picture"
  /\ AreParametersInHand({2, 4}) =>
       /\ packet.kind = "video" /\ packet.format \in Formats /\ packet.time \in Nat
            /\ Rest # "picture"
       /\ isValid(Descriptor) =>
            /\ AreParametersInHand({4})
            /\ Descriptor.sps = packet.format /\ Descriptor.pps = packet.format
  /\ AreParametersInHand({4}) =>
       /\ AreParametersInHand({2, 4}) /\ isValid(Descriptor)
<1>1. ASSUME NEW f \in Formats, NEW d \in {0, 1}, NEW t \in Nat, packet = Picture(f, d, t)
      PROVE  /\ packet.kind = "video" /\ packet.format \in Formats /\ packet.time \in Nat
             /\ ~isValid(Descriptor) /\ Rest = "picture"
  <2>1. packet.kind = "video" /\ packet.format = f /\ packet.time = t
          /\ packet.payload = PicturePacket(TRUE, d)
    BY <1>1 DEF Picture
  <2>2. unpackVideoData(packet.payload)
          = [descriptor |-> NoDescriptor, delay |-> d, rest |-> "picture"]
    BY <2>1, PictureIsUnpacked
  <2>3. Descriptor = NoDescriptor /\ Rest = "picture"
    BY <2>2 DEF Descriptor, Rest
  <2> QED BY <2>1, <2>3, NothingIsInvalid
<1>2. ASSUME NEW f \in Formats, NEW nl \in {2, 4}, NEW t \in Nat, packet = Parameters(f, nl, t)
      PROVE  /\ packet.kind = "video" /\ packet.format = f /\ packet.time = t /\ Rest # "picture"
             /\ isValid(Descriptor) <=> nl = 4
             /\ nl = 4 => Descriptor.sps = f /\ Descriptor.pps = f
  <2>1. /\ packet.kind = "video" /\ packet.format = f /\ packet.time = t
        /\ packet.payload = buildParametersVideoPacketWithSPS(f, f, nl)
    BY <1>2 DEF Parameters
  <2>2. unpackVideoData(packet.payload) =
          IF nl = 4
          THEN [descriptor |-> [sps |-> f, pps |-> f, nalUnitSize |-> 4],
                delay |-> 0, rest |-> "nothing"]
          ELSE [descriptor |-> NoDescriptor, delay |-> 0, rest |-> "tail"]
    BY <2>1, ParametersAreUnpacked
  <2>3. CASE nl = 4
    <3>1. Descriptor = [sps |-> f, pps |-> f, nalUnitSize |-> 4] /\ Rest = "nothing"
      BY <2>2, <2>3 DEF Descriptor, Rest
    <3>2. Descriptor.sps = f /\ Descriptor.pps = f /\ f # NoSet
      BY <3>1, SetAssumption
    <3> QED BY <2>1, <2>3, <3>1, <3>2 DEF isValid
  <2>4. CASE nl # 4
    <3>1. Descriptor = NoDescriptor /\ Rest = "tail"
      BY <2>2, <2>4 DEF Descriptor, Rest
    <3> QED BY <2>1, <2>4, <3>1, NothingIsInvalid
  <2> QED BY <2>3, <2>4
<1>3. IsPictureInHand =>
        /\ packet.kind = "video" /\ packet.format \in Formats /\ packet.time \in Nat
        /\ ~isValid(Descriptor) /\ Rest = "picture"
  BY <1>1 DEF IsPictureInHand
<1>4. ASSUME AreParametersInHand({2, 4})
      PROVE  /\ packet.kind = "video" /\ packet.format \in Formats /\ packet.time \in Nat
             /\ Rest # "picture"
             /\ isValid(Descriptor) =>
                  /\ AreParametersInHand({4})
                  /\ Descriptor.sps = packet.format /\ Descriptor.pps = packet.format
  <2>1. PICK f \in Formats, nl \in {2, 4}, t \in Nat : packet = Parameters(f, nl, t)
    BY <1>4 DEF AreParametersInHand
  <2>2. nl = 4 => AreParametersInHand({4})
    BY <2>1 DEF AreParametersInHand
  <2> QED BY <1>2, <2>1, <2>2
<1>5. ASSUME AreParametersInHand({4})
      PROVE  AreParametersInHand({2, 4}) /\ isValid(Descriptor)
  <2>1. PICK f \in Formats, t \in Nat : packet = Parameters(f, 4, t)
    BY <1>5 DEF AreParametersInHand
  <2>2. AreParametersInHand({2, 4})
    BY <2>1 DEF AreParametersInHand
  <2> QED BY <1>2, <2>1, <2>2
<1> QED BY <1>3, <1>4, <1>5

LEMMA InitIsTyped ==
  ASSUME Init
  PROVE  Types
<1>1. ThreadsOK
  BY DEF Init, ThreadsOK, Threads, AppPlaces, SocketPlaces, RetrieverPlaces
<1>2. SessionOK
  BY DEF Init, SessionOK
<1>3. SubjectOK
  <2>1. PICK b \in Broadcasters : source = b.source /\ published = b.settings
    BY DEF Init
  <2>2. [source |-> source, settings |-> published] = b
    BY <2>1, SetAssumption
  <2> QED BY <2>2 DEF Init, SubjectOK
<1>4. StreamOK
  BY DEF Init, StreamOK
<1>5. AppleOK
  BY DEF Init, AppleOK
<1>6. JavaOK
  BY BoundsAssumption DEF Init, JavaOK, NoCodec
<1>7. PacketOK
  BY DEF Init, PacketOK, At, Threads
<1> QED BY <1>1, <1>2, <1>3, <1>4, <1>5, <1>6, <1>7 DEF Types

-----------------------------------------------------------------------------
(* Types: the threads, the session and what the system changes.            *)

\* where a thread goes, and that the others stay
LEMMA Goes ==
  ASSUME ThreadsOK, NEW t \in Threads, NEW s \in AppPlaces \cup SocketPlaces \cup RetrieverPlaces,
         Go(t, s)
  PROVE  /\ at' \in [Threads -> AppPlaces \cup SocketPlaces \cup RetrieverPlaces]
         /\ at'[t] = s /\ \A u \in Threads \ {t} : at'[u] = at[u]
BY DEF ThreadsOK, Go

LEMMA AppGoes ==
  ASSUME ThreadsOK, App
  PROVE  /\ ThreadsOK' /\ at'["retriever"] = at["retriever"]
         /\ ~connect => at'["socket"] = at["socket"]
<1>0. {"app", "socket", "retriever"} = Threads
  BY DEF Threads
<1>1. CASE connect
  <2>1. at' = [at EXCEPT !["app"] = "markRunning", !["socket"] = "work"]
    BY <1>1 DEF connect
  <2> QED BY <1>0, <1>1, <2>1 DEF ThreadsOK, AppPlaces, SocketPlaces, RetrieverPlaces
<1>2. ASSUME NEW s \in AppPlaces, Go("app", s)
      PROVE  ThreadsOK' /\ at'["retriever"] = at["retriever"] /\ at'["socket"] = at["socket"]
  BY <1>0, <1>2, Goes DEF ThreadsOK
<1>3. CASE ~connect
  <2>1. \E s \in AppPlaces : Go("app", s)
    BY <1>3 DEF App, start, connectCloses, connectJoined, markRunning, end, endJoined, ended,
         AppPlaces
  <2> QED BY <1>2, <1>3, <2>1
<1> QED BY <1>1, <1>3

LEMMA SocketGoes ==
  ASSUME ThreadsOK, Socket
  PROVE  /\ ThreadsOK' /\ at'["app"] = at["app"]
         /\ ~startMediaPacketRetriever => at'["retriever"] = at["retriever"]
<1>0. {"app", "socket", "retriever"} = Threads
  BY DEF Threads
<1>1. CASE startMediaPacketRetriever
  <2>1. at' = [at EXCEPT !["socket"] = "idle", !["retriever"] = IF stopped THEN "loop" ELSE @]
    BY <1>1 DEF startMediaPacketRetriever
  <2> QED BY <1>0, <1>1, <2>1 DEF ThreadsOK, AppPlaces, SocketPlaces, RetrieverPlaces
<1>2. ASSUME NEW s \in SocketPlaces, Go("socket", s)
      PROVE  ThreadsOK' /\ at'["retriever"] = at["retriever"] /\ at'["app"] = at["app"]
  BY <1>0, <1>2, Goes DEF ThreadsOK
<1>3. CASE ~startMediaPacketRetriever
  <2>1. at' = at \/ \E s \in SocketPlaces : Go("socket", s)
    BY <1>3 DEF Socket, resolved, socketFails, testOpen, sessionStarted, SocketPlaces
  <2> QED BY <1>2, <1>3, <2>1 DEF ThreadsOK
<1> QED BY <1>1, <1>3

\* whatever the message that arrives, the retriever has it and may use it
LEMMA MessageArrives ==
  ASSUME metadataArrives \/ audioArrives \/ videoArrives
  PROVE  \E p : Arrives(p)
<1>1. CASE metadataArrives
  <2>1. PICK dated \in BOOLEAN : Arrives([kind |-> "metadata", dated |-> dated])
    BY <1>1 DEF metadataArrives
  <2> QED BY <2>1
<1>2. CASE audioArrives
  <2>1. Arrives([kind |-> "audio", payload |-> buildParametersAudioPacket])
    BY <1>2 DEF audioArrives
  <2> QED BY <2>1
<1>3. CASE videoArrives
  <2> SUFFICES ASSUME \A p : ~Arrives(p) PROVE FALSE
    OBVIOUS
  <2> QED BY <1>3 DEF videoArrives
<1> QED BY <1>1, <1>2, <1>3

LEMMA ArrivalMoves ==
  ASSUME metadataArrives \/ audioArrives \/ videoArrives
  PROVE  /\ At("retriever", "loop") /\ session = "live" /\ Go("retriever", "use")
         /\ IF device = "android" THEN env' = "retriever" ELSE UNCHANGED env
         /\ UNCHANGED <<subject, session_, isRunning, isActive, raced, apple, java, thread, world,
                       settings, audioFormat, missed>>
<1>1. PICK p : Arrives(p)
  BY MessageArrives
<1> QED BY <1>1 DEF Arrives, updateEnv

LEMMA RetrieverGoes ==
  ASSUME ThreadsOK, Retriever
  PROVE  ThreadsOK' /\ at'["app"] = at["app"] /\ at'["socket"] = at["socket"]
<1>0. {"app", "socket", "retriever"} = Threads
  BY DEF Threads
<1>2. ASSUME NEW s \in RetrieverPlaces, Go("retriever", s)
      PROVE  ThreadsOK' /\ at'["app"] = at["app"] /\ at'["socket"] = at["socket"]
  BY <1>0, <1>2, Goes DEF ThreadsOK
<1>3. \E s \in RetrieverPlaces : Go("retriever", s)
  <2>1. CASE metadataArrives \/ audioArrives \/ videoArrives
    BY <2>1, ArrivalMoves DEF RetrieverPlaces
  <2>2. CASE retrieverEnds \/ lostConnection \/ lostConnectionJoined
    BY <2>2 DEF retrieverEnds, lostConnection, lostConnectionJoined, RetrieverPlaces, Loop
  <2>3. CASE metadataPacketReceived \/ audioPacketReceived
    BY <2>3 DEF metadataPacketReceived, audioPacketReceived, RetrieverPlaces, Loop
  <2>4. CASE videoFormatPacketReceived
    BY <2>4 DEF videoFormatPacketReceived, configure, RetrieverPlaces, Loop
  <2>5. CASE decodePictureParameters \/ videoPacketReceived
    BY <2>5 DEF decodePictureParameters, videoPacketReceived, RetrieverPlaces, Loop
  <2>6. CASE Decompressor
    BY <2>6 DEF Decompressor, unpackVideoPacket, decodeFrameWithSampleBuffer,
         createDecompressionSessionIfNeeded, decodeFrame, RetrieverPlaces, Loop
  <2> QED BY <2>1, <2>2, <2>3, <2>4, <2>5, <2>6 DEF Retriever
<1> QED BY <1>2, <1>3

\* the decoder's thread and the system leave the rest alone
LEMMA OthersStay ==
  ASSUME VideoDecoderThread \/ System \/ UNCHANGED vars
  PROVE  UNCHANGED <<at, packet, subject, session_, native, stream, clock, apple, codec, heard,
         missed>>
BY DEF VideoDecoderThread, takePicture, releaseOutputBuffer, System, applicationState,
     surfaceChanged, Tick, java, thread, world, vars

LEMMA NextKeepsThreads ==
  ASSUME ThreadsOK, [Next]_vars
  PROVE  ThreadsOK'
BY AppGoes, SocketGoes, RetrieverGoes, OthersStay DEF Next, ThreadsOK

LEMMA NextKeepsSession ==
  ASSUME SessionOK, [Next]_vars
  PROVE  SessionOK'
<1>0. {"app", "socket", "retriever"} = Threads
  BY DEF Threads
<1>1. ASSUME NEW t \in Threads, NEW value \in BOOLEAN, setActive(t, value), SessionOK
      PROVE  isActive' \in BOOLEAN /\ raced' \in BOOLEAN /\ env' \in Threads \cup {"none"}
  BY <1>1 DEF setActive, updateEnv, SessionOK
<1>2. CASE connectCloses \/ endJoined \/ socketFails \/ sessionStarted \/ lostConnection
  <2>1. /\ \/ setActive("app", FALSE) \/ setActive("socket", FALSE) \/ setActive("socket", TRUE)
           \/ setActive("retriever", FALSE) \/ UNCHANGED <<isActive, env, raced>>
        /\ session' \in {session, "closed", "live"} /\ UNCHANGED <<stopped, sessions, isRunning>>
        /\ missed' \in BOOLEAN
    BY <1>2 DEF connectCloses, endJoined, socketFails, sessionStarted, lostConnection, SessionOK
  <2>2. isActive' \in BOOLEAN /\ raced' \in BOOLEAN /\ env' \in Threads \cup {"none"}
    BY <1>0, <1>1, <2>1 DEF SessionOK
  <2> QED BY <2>1, <2>2 DEF SessionOK
<1>3. CASE start \/ connectJoined \/ connect \/ markRunning \/ end \/ ended
  <2>1. /\ session' \in {session, "resolving"} /\ sessions' \in {sessions, sessions + 1}
        /\ UNCHANGED <<isActive, env, raced, missed>>
    BY <1>3 DEF start, connectJoined, connect, markRunning, end, ended, native, session_
  <2>2. stopped' \in {stopped, TRUE}
    BY <1>3 DEF start, connectJoined, connect, markRunning, end, ended, session_
  <2>3. isRunning' \in {isRunning, TRUE, FALSE}
    BY <1>3 DEF start, connectJoined, connect, markRunning, end, ended, native
  <2>4. stopped' \in BOOLEAN /\ isRunning' \in BOOLEAN
    BY <2>2, <2>3 DEF SessionOK
  <2>5. sessions' \in Nat
    BY <2>1 DEF SessionOK
  <2>6. session' \in {"off", "resolving", "open", "live", "closed"}
    BY <2>1 DEF SessionOK
  <2> QED BY <2>1, <2>4, <2>5, <2>6 DEF SessionOK
<1>4. CASE resolved \/ testOpen \/ startMediaPacketRetriever
  BY <1>4 DEF resolved, testOpen, startMediaPacketRetriever, native, session_, SessionOK
<1>5. CASE metadataArrives \/ audioArrives \/ videoArrives
  <2>1. UNCHANGED <<session_, isRunning, isActive, raced, missed>> /\ env' \in {env, "retriever"}
    BY <1>5, ArrivalMoves
  <2> QED BY <1>0, <2>1 DEF session_, SessionOK
<1>6. CASE \/ retrieverEnds \/ lostConnectionJoined \/ metadataPacketReceived \/ audioPacketReceived
           \/ videoFormatPacketReceived \/ decodePictureParameters \/ videoPacketReceived
           \/ Decompressor
  <2>1. UNCHANGED <<session_, native, missed>>
    BY <1>6 DEF retrieverEnds, lostConnectionJoined, metadataPacketReceived, audioPacketReceived,
         videoFormatPacketReceived, decodePictureParameters, videoPacketReceived, Decompressor,
         unpackVideoPacket, decodeFrameWithSampleBuffer, createDecompressionSessionIfNeeded,
         decodeFrame
  <2> QED BY <2>1 DEF session_, native, SessionOK
<1>7. CASE VideoDecoderThread \/ System \/ UNCHANGED vars
  BY <1>7, OthersStay DEF session_, native, SessionOK
<1> QED BY <1>2, <1>3, <1>4, <1>5, <1>6, <1>7 DEF Next, App, Socket, Retriever

LEMMA NextKeepsSubject ==
  ASSUME SubjectOK, [Next]_vars
  PROVE  SubjectOK'
<1>1. CASE App
  <2>1. UNCHANGED <<subject, world>>
    BY <1>1 DEF App, start, connectCloses, connectJoined, connect, markRunning, end, endJoined,
         ended
  <2> QED BY <2>1 DEF subject, world, SubjectOK
<1>2. CASE Socket
  <2>1. UNCHANGED <<subject, world>>
    BY <1>2 DEF Socket, resolved, socketFails, testOpen, sessionStarted, startMediaPacketRetriever
  <2> QED BY <2>1 DEF subject, world, SubjectOK
<1>3. CASE Retriever
  <2>1. UNCHANGED <<subject, world>>
    <3>1. CASE metadataArrives \/ audioArrives \/ videoArrives
      BY <3>1, ArrivalMoves
    <3>2. CASE \/ retrieverEnds \/ lostConnection \/ lostConnectionJoined \/ metadataPacketReceived
               \/ audioPacketReceived \/ videoFormatPacketReceived \/ decodePictureParameters
               \/ videoPacketReceived \/ Decompressor
      BY <3>2 DEF retrieverEnds, lostConnection, lostConnectionJoined, metadataPacketReceived,
           audioPacketReceived, videoFormatPacketReceived, decodePictureParameters,
           videoPacketReceived, Decompressor, unpackVideoPacket, decodeFrameWithSampleBuffer,
           createDecompressionSessionIfNeeded, decodeFrame
    <3> QED BY <1>3, <3>1, <3>2 DEF Retriever
  <2> QED BY <2>1 DEF subject, world, SubjectOK
<1>4. CASE VideoDecoderThread \/ UNCHANGED vars
  <2>1. UNCHANGED <<subject, world>>
    BY <1>4 DEF VideoDecoderThread, takePicture, releaseOutputBuffer, vars
  <2> QED BY <2>1 DEF subject, world, SubjectOK
<1>5. CASE System
  <2>1. /\ UNCHANGED subject
        /\ appActive' \in {appActive, ~appActive} /\ surface' \in {surface, ~surface}
        /\ inBackground' \in {inBackground, TRUE} /\ calls' \in {calls, calls + 1}
    BY <1>5 DEF System, applicationState, surfaceChanged, Tick, Call, world
  <2>2. appActive' \in BOOLEAN /\ surface' \in BOOLEAN /\ inBackground' \in BOOLEAN
    BY <2>1 DEF SubjectOK
  <2>3. calls' \in Nat
    BY <2>1 DEF SubjectOK
  <2> QED BY <2>1, <2>2, <2>3 DEF subject, SubjectOK
<1> QED BY <1>1, <1>2, <1>3, <1>4, <1>5 DEF Next

-----------------------------------------------------------------------------
(* Types: the stream.                                                      *)

\* what the assumptions say of the bounds, number by number
LEMMA Bounds ==
  /\ InputBuffers \in Nat /\ UsPerMs \in Nat /\ UsPerMs >= 1
  /\ Wrap \in Nat /\ Wrap >= 1 /\ MaxTime \in Nat
BY BoundsAssumption

\* what a video message brings
LEMMA VideoArrived ==
  ASSUME StreamOK, videoArrives
  PROVE  \E m \in [type0 : BOOLEAN, extended : BOOLEAN, timestamp : Nat, delay : {0, 1}],
         f \in Formats :
           /\ fresh => m.type0
           /\ streamFormat' = f /\ fresh' = FALSE
           /\ position' = IF m.extended THEN position + 1
                          ELSE IF m.type0 THEN m.timestamp ELSE position + m.timestamp
           /\ timebase' = Timebase(timebase, m) + m.delay
           /\ drifted' = (m.extended \/ m.delay > 0 \/ (drifted /\ ~m.type0))
           /\ \/ packet' = Picture(f, m.delay, position') /\ f = streamFormat /\ unheard' = unheard
              \/ (\E nl \in {2, 4} : packet' = Parameters(f, nl, position')) /\ unheard' = TRUE
<1>1. PICK m \in Times, f \in Formats, isPicture \in BOOLEAN, nl \in {2, 4} :
    LET payload == IF isPicture THEN PicturePacket(TRUE, m.delay)
                   ELSE buildParametersVideoPacketWithSPS(f, f, nl) IN
    /\ isPicture => f = streamFormat /\ nl = 4
    /\ nl = 2 => source = "foreign"
    /\ ~isPicture => m = [type0 |-> fresh, extended |-> FALSE, timestamp |-> 0, delay |-> 0]
    /\ streamFormat' = f /\ fresh' = FALSE
    /\ position' = IF m.extended THEN position + 1
                   ELSE IF m.type0 THEN m.timestamp ELSE position + m.timestamp
    /\ position' <= MaxTime
    /\ Arrives([kind |-> "video", payload |-> payload, format |-> f, time |-> position'])
    /\ timebase' = Timebase(timebase, m) + unpackVideoData(payload).delay
    /\ drifted' = (m.extended \/ m.delay > 0 \/ (drifted /\ ~m.type0))
    /\ unheard' = (unheard \/ ~isPicture)
  BY DEF videoArrives
<1>2. m \in [type0 : BOOLEAN, extended : BOOLEAN, timestamp : Nat, delay : {0, 1}]
        /\ (fresh => m.type0)
  <2>1. \A i \in 0 .. MaxTime : i \in Nat
    BY Bounds
  <2>2. \A i \in 0 .. 1 : i \in {0, 1}
    OBVIOUS
  <2>3. m \in [type0 : BOOLEAN, extended : BOOLEAN, timestamp : 0 .. MaxTime, delay : 0 .. 1]
          /\ (fresh => m.type0)
    BY <1>1 DEF Times
  <2> QED BY <2>1, <2>2, <2>3
<1>3. CASE isPicture
  <2>1. unpackVideoData(PicturePacket(TRUE, m.delay)).delay = m.delay
    <3>1. unpackVideoData(PicturePacket(TRUE, m.delay))
            = [descriptor |-> NoDescriptor, delay |-> m.delay, rest |-> "picture"]
      <4> DEFINE e == m.delay
      <4>1. unpackVideoData(PicturePacket(TRUE, e))
              = [descriptor |-> NoDescriptor, delay |-> e, rest |-> "picture"]
        <5> HIDE DEF e
        <5> QED BY PictureIsUnpacked
      <4> QED BY <4>1
    <3> DEFINE u == unpackVideoData(PicturePacket(TRUE, m.delay))
    <3>2. u = [descriptor |-> NoDescriptor, delay |-> m.delay, rest |-> "picture"]
      BY <3>1
    <3>3. u.delay = m.delay
      <4> HIDE DEF u
      <4> QED BY <3>2
    <3> QED BY <3>3
  <2>2. packet' = Picture(f, m.delay, position')
    BY <1>1, <1>3 DEF Arrives, Picture
  <2>3. timebase' = Timebase(timebase, m) + m.delay
    BY <1>1, <1>3, <2>1
  <2>4. unheard' = unheard
    <3>1. unheard \in BOOLEAN
      BY DEF StreamOK
    <3>2. unheard' = (unheard \/ ~isPicture)
      BY <1>1
    <3> QED BY <1>3, <3>1, <3>2
  <2> QED BY <1>1, <1>2, <1>3, <2>2, <2>3, <2>4
<1>4. CASE ~isPicture
  <2>1. unpackVideoData(buildParametersVideoPacketWithSPS(f, f, nl)).delay = 0
    <3>1. nl = 2 \/ nl = 4
      OBVIOUS
    <3> QED BY <3>1, ParametersAreUnpacked
  <2>2. packet' = Parameters(f, nl, position')
    BY <1>1, <1>4 DEF Arrives, Parameters
  <2>3. m.delay = 0
    BY <1>1, <1>4
  <2>4. timebase' = Timebase(timebase, m) + m.delay
    BY <1>1, <1>4, <2>1, <2>3
  <2>5. unheard' = TRUE
    BY <1>1, <1>4
  <2> QED BY <1>1, <1>2, <2>2, <2>4, <2>5
<1> QED BY <1>3, <1>4

\* the times of a message are natural numbers
LEMMA VideoTimes ==
  ASSUME StreamOK, videoArrives
  PROVE  position' \in Nat /\ timebase' \in Nat /\ drifted' \in BOOLEAN /\ unheard' \in BOOLEAN
         /\ streamFormat' \in Formats /\ fresh' \in BOOLEAN
<1>1. PICK m \in [type0 : BOOLEAN, extended : BOOLEAN, timestamp : Nat, delay : {0, 1}],
        f \in Formats :
           /\ fresh => m.type0
           /\ streamFormat' = f /\ fresh' = FALSE
           /\ position' = IF m.extended THEN position + 1
                          ELSE IF m.type0 THEN m.timestamp ELSE position + m.timestamp
           /\ timebase' = Timebase(timebase, m) + m.delay
           /\ drifted' = (m.extended \/ m.delay > 0 \/ (drifted /\ ~m.type0))
           /\ \/ packet' = Picture(f, m.delay, position') /\ f = streamFormat /\ unheard' = unheard
              \/ (\E nl \in {2, 4} : packet' = Parameters(f, nl, position')) /\ unheard' = TRUE
  BY VideoArrived
<1>2. position \in Nat /\ timebase \in Nat /\ unheard \in BOOLEAN /\ m.timestamp \in Nat
        /\ m.delay \in {0, 1}
  BY DEF StreamOK
<1>3. position' \in Nat
  BY <1>1, <1>2
<1>4. timebase' \in Nat
  BY <1>1, <1>2 DEF Timebase
<1>5. drifted' \in BOOLEAN
  BY <1>1
<1>6. unheard' \in BOOLEAN
  BY <1>1, <1>2
<1> QED BY <1>1, <1>3, <1>4, <1>5, <1>6

\* the steps that leave the stream alone
LEMMA StreamStays ==
  ASSUME [Next]_vars, ~connect, ~metadataArrives, ~audioArrives, ~videoArrives
  PROVE  UNCHANGED <<stream, clock>>
<1>1. CASE App
  BY <1>1 DEF App, start, connectCloses, connectJoined, markRunning, end, endJoined, ended
<1>2. CASE Socket
  BY <1>2 DEF Socket, resolved, socketFails, testOpen, sessionStarted, startMediaPacketRetriever
<1>3. CASE Retriever
  BY <1>3 DEF Retriever, retrieverEnds, lostConnection, lostConnectionJoined,
       metadataPacketReceived, audioPacketReceived, videoFormatPacketReceived,
       decodePictureParameters, videoPacketReceived, Decompressor, unpackVideoPacket,
       decodeFrameWithSampleBuffer, createDecompressionSessionIfNeeded, decodeFrame
<1>4. CASE VideoDecoderThread \/ System \/ UNCHANGED vars
  BY <1>4, OthersStay
<1> QED BY <1>1, <1>2, <1>3, <1>4 DEF Next

\* the steps that leave alone what was heard of the parameters
LEMMA HeardStays ==
  ASSUME [Next]_vars, ~connect, ~videoArrives, ~videoFormatPacketReceived, ~decodePictureParameters,
         ~unpackVideoPacket
  PROVE  UNCHANGED <<unheard, codec, fmt>>
<1>1. CASE App
  BY <1>1 DEF App, start, connectCloses, connectJoined, markRunning, end, endJoined, ended, heard,
       apple, java
<1>2. CASE Socket
  BY <1>2 DEF Socket, resolved, socketFails, testOpen, sessionStarted, startMediaPacketRetriever,
       heard, apple, java
<1>3. CASE Retriever
  BY <1>3 DEF Retriever, retrieverEnds, lostConnection, lostConnectionJoined,
       metadataPacketReceived, metadataArrives, audioArrives, Arrives, apple, java, heard,
       audioPacketReceived, videoPacketReceived, Decompressor, decodeFrameWithSampleBuffer,
       createDecompressionSessionIfNeeded, decodeFrame
<1>4. CASE VideoDecoderThread \/ System \/ UNCHANGED vars
  BY <1>4, OthersStay DEF heard, apple
<1> QED BY <1>1, <1>2, <1>3, <1>4 DEF Next

LEMMA NextKeepsStream ==
  ASSUME StreamOK, [Next]_vars
  PROVE  StreamOK'
<1>1. CASE connect
  <2>1. streamFormat' \in Formats /\ fresh' = TRUE /\ position' = 0 /\ unheard' = TRUE
        /\ UNCHANGED <<sent, timebase, drifted>>
    BY <1>1 DEF connect, clock
  <2> QED BY <2>1 DEF StreamOK
<1>2. CASE metadataArrives \/ audioArrives
  <2>1. sent' = sent + 1 /\ UNCHANGED <<streamFormat, fresh, position, timebase, drifted, unheard>>
    BY <1>2 DEF metadataArrives, audioArrives, Arrives, clock
  <2> QED BY <2>1 DEF StreamOK
<1>3. CASE videoArrives
  <2>1. sent' = sent + 1
    BY <1>3 DEF videoArrives, Arrives
  <2> QED BY <1>3, <2>1, VideoTimes DEF StreamOK
<1>4. CASE ~connect /\ ~metadataArrives /\ ~audioArrives /\ ~videoArrives
  <2>1. UNCHANGED <<streamFormat, sent, fresh, position, timebase, drifted>>
    BY <1>4, StreamStays DEF stream, clock
  <2>2. unheard' \in BOOLEAN
    <3>1. CASE videoFormatPacketReceived
      <4>1. unheard' \in {unheard, Full, FALSE}
        BY <3>1 DEF videoFormatPacketReceived, configure
      <4> QED BY <4>1 DEF StreamOK, Full
    <3>2. CASE decodePictureParameters \/ unpackVideoPacket
      BY <3>2 DEF decodePictureParameters, unpackVideoPacket
    <3>3. CASE ~videoFormatPacketReceived /\ ~decodePictureParameters /\ ~unpackVideoPacket
      BY <1>4, <3>3, HeardStays DEF StreamOK
    <3> QED BY <3>1, <3>2, <3>3
  <2> QED BY <2>1, <2>2 DEF StreamOK
<1> QED BY <1>1, <1>2, <1>3, <1>4

-----------------------------------------------------------------------------
(* Types: the two decoders and the message in hand.                        *)

\* what the other threads leave to the retriever, or start it
LEMMA RetrieverStays ==
  ASSUME ThreadsOK, [Next]_vars, ~Retriever
  PROVE  /\ UNCHANGED <<device, source, packet, codec, fmt, samples, wasted, heard>> \/ connect
         /\ UNCHANGED <<device, source, published, packet, codec, fmt, samples, wasted, settings,
                        audioFormat>>
         /\ \/ at'["retriever"] = at["retriever"]
            \/ startMediaPacketRetriever /\ at'["retriever"] \in {"loop", at["retriever"]}
<1>1. CASE App
  <2>1. UNCHANGED <<subject, packet, fmt, samples, wasted, java, settings, audioFormat>>
    BY <1>1 DEF App, start, connectCloses, connectJoined, connect, markRunning, end, endJoined,
         ended, apple, heard
  <2>2. UNCHANGED heard \/ connect
    BY <1>1 DEF App, start, connectCloses, connectJoined, markRunning, end, endJoined, ended
  <2> QED BY <1>1, <2>1, <2>2, AppGoes DEF subject, java
<1>2. CASE Socket
  <2>1. UNCHANGED <<subject, packet, apple, java, heard>>
    BY <1>2 DEF Socket, resolved, socketFails, testOpen, sessionStarted, startMediaPacketRetriever
  <2>2. startMediaPacketRetriever => at'["retriever"] \in {"loop", at["retriever"]}
    <3>1. startMediaPacketRetriever =>
            at' = [at EXCEPT !["socket"] = "idle", !["retriever"] = IF stopped THEN "loop" ELSE @]
      BY DEF startMediaPacketRetriever
    <3> QED BY <3>1 DEF ThreadsOK, Threads
  <2> QED BY <1>2, <2>1, <2>2, SocketGoes DEF subject, apple, java, heard
<1>3. CASE VideoDecoderThread \/ System \/ UNCHANGED vars
  BY <1>3, OthersStay DEF subject, apple, heard
<1> QED BY <1>1, <1>2, <1>3 DEF Next

\* what the steps of the retriever that have no use for them leave alone
LEMMA DecompressorStays ==
  ASSUME Retriever, ~Decompressor
  PROVE  UNCHANGED apple
<1>1. CASE metadataArrives \/ audioArrives \/ videoArrives
  BY <1>1, ArrivalMoves
<1>2. CASE \/ retrieverEnds \/ lostConnection \/ lostConnectionJoined \/ metadataPacketReceived
           \/ audioPacketReceived \/ videoFormatPacketReceived \/ decodePictureParameters
           \/ videoPacketReceived
  BY <1>2 DEF retrieverEnds, lostConnection, lostConnectionJoined, metadataPacketReceived,
       audioPacketReceived, videoFormatPacketReceived, decodePictureParameters, videoPacketReceived
<1> QED BY <1>1, <1>2 DEF Retriever

LEMMA CodecStays ==
  ASSUME Retriever, ~videoFormatPacketReceived, ~decodePictureParameters
  PROVE  UNCHANGED <<codec, thread>> /\ (UNCHANGED pictures \/ videoPacketReceived)
<1>1. CASE metadataArrives \/ audioArrives \/ videoArrives
  BY <1>1, ArrivalMoves DEF java
<1>2. CASE \/ retrieverEnds \/ lostConnection \/ lostConnectionJoined \/ metadataPacketReceived
           \/ audioPacketReceived
  BY <1>2 DEF retrieverEnds, lostConnection, lostConnectionJoined, metadataPacketReceived,
       audioPacketReceived, java
<1>3. CASE videoPacketReceived
  BY <1>3 DEF videoPacketReceived, java
<1>4. CASE Decompressor
  BY <1>4 DEF Decompressor, unpackVideoPacket, java, decodeFrameWithSampleBuffer,
       createDecompressionSessionIfNeeded, decodeFrame
<1> QED BY <1>1, <1>2, <1>3, <1>4 DEF Retriever

\* the parameters of a descriptor that is valid
LEMMA DescriptorIsOfTheStream ==
  ASSUME ThreadsOK, PacketOK, At("retriever", "use"), packet.kind = "video"
  PROVE  /\ packet.format \in Formats /\ packet.time \in Nat
         /\ (Rest = "picture") => ~isValid(Descriptor) /\ IsPictureInHand
         /\ isValid(Descriptor) =>
              /\ AreParametersInHand({4})
              /\ Descriptor.sps = packet.format /\ Descriptor.pps = packet.format
<1>1. IsPictureInHand \/ AreParametersInHand({2, 4})
  BY DEF PacketOK
<1> QED BY <1>1, InHand

\* a sample is released only when there is one
LEMMA NextKeepsApple ==
  ASSUME ThreadsOK, AppleOK, PacketOK, [Next]_vars
  PROVE  AppleOK'
<1>1. CASE unpackVideoPacket
  <2>1. /\ UNCHANGED <<decoder, wasted, late>> /\ samples' \in {samples, samples + 1}
        /\ fmt' = fmt \/ (isValid(Descriptor) /\ fmt' = Descriptor.sps)
        /\ At("retriever", "use") /\ packet.kind = "video"
    BY <1>1 DEF unpackVideoPacket, IsVideo
  <2>2. fmt' \in Formats \cup {NoSet}
    BY <2>1, DescriptorIsOfTheStream DEF AppleOK
  <2>3. samples' \in Nat
    BY <2>1 DEF AppleOK
  <2> QED BY <2>1, <2>2, <2>3 DEF AppleOK
<1>2. CASE decodeFrameWithSampleBuffer
  BY <1>2 DEF decodeFrameWithSampleBuffer, apple, AppleOK
<1>3. CASE createDecompressionSessionIfNeeded
  <2>1. /\ UNCHANGED <<fmt, wasted>> /\ samples' \in {samples, samples - 1}
        /\ decoder' \in {decoder, fmt}
        /\ At("retriever", "decode2")
    BY <1>3 DEF createDecompressionSessionIfNeeded, release
  <2>2. late' \in {late, late \/ stopped}
    BY <1>3 DEF createDecompressionSessionIfNeeded
  <2>3. late' \in BOOLEAN
    BY <2>2 DEF AppleOK
  <2>4. samples' \in Nat
    <3>1. samples \in Nat /\ samples >= 1
      BY <2>1 DEF AppleOK, PacketOK, At
    <3> QED BY <2>1, <3>1
  <2> QED BY <2>1, <2>3, <2>4 DEF AppleOK
<1>4. CASE decodeFrame
  <2>1. /\ UNCHANGED <<fmt, late>> /\ samples' = samples - 1 /\ decoder' \in {decoder, NoSet}
        /\ wasted' \in {0, wasted, wasted + 1} /\ At("retriever", "decode3")
    BY <1>4 DEF decodeFrame, release, reset
  <2>2. samples' \in Nat /\ wasted' \in Nat
    <3>1. samples \in Nat /\ samples >= 1 /\ wasted \in Nat
      BY <2>1 DEF AppleOK, PacketOK, At
    <3> QED BY <2>1, <3>1
  <2> QED BY <2>1, <2>2 DEF AppleOK
<1>5. CASE Retriever /\ ~Decompressor
  BY <1>5, DecompressorStays DEF apple, AppleOK
<1>6. CASE ~Retriever
  <2>1. UNCHANGED <<fmt, samples, wasted>>
    BY <1>6, RetrieverStays
  <2>2. decoder' \in {decoder, NoSet} /\ late' \in {late, FALSE}
    <3>1. CASE App
      BY <3>1 DEF App, start, connectCloses, connectJoined, connect, markRunning, end, endJoined,
           ended, apple
    <3>2. CASE Socket
      BY <3>2 DEF Socket, resolved, socketFails, testOpen, sessionStarted,
           startMediaPacketRetriever, apple
    <3>3. CASE VideoDecoderThread \/ System \/ UNCHANGED vars
      BY <3>3, OthersStay DEF apple
    <3> QED BY <1>6, <3>1, <3>2, <3>3 DEF Next
  <2>3. late' \in BOOLEAN
    BY <2>2 DEF AppleOK
  <2> QED BY <2>1, <2>2, <2>3 DEF AppleOK
<1> QED BY <1>1, <1>2, <1>3, <1>4, <1>5, <1>6 DEF Decompressor

\* the parameters that a codec is given or made with
LEMMA CodecIsGiven ==
  ASSUME ThreadsOK, JavaOK, PacketOK, videoFormatPacketReceived \/ decodePictureParameters
  PROVE  /\ codec' \in [sps : Formats \cup {NoSet}, pps : Formats \cup {NoSet}]
         /\ codec'.sps = NoSet <=> codec'.pps = NoSet
         /\ codec # NoCodec => codec' # NoCodec
<1>0. codec \in [sps : Formats \cup {NoSet}, pps : Formats \cup {NoSet}]
      /\ (codec.sps = NoSet <=> codec.pps = NoSet) /\ (codec = NoCodec <=> codec.sps = NoSet)
  BY DEF JavaOK, NoCodec
<1>1. Descriptor.sps \in Formats /\ Descriptor.pps \in Formats
  <2>1. CASE videoFormatPacketReceived
    BY <2>1, DescriptorIsOfTheStream DEF videoFormatPacketReceived, IsVideo
  <2>2. CASE decodePictureParameters
    <3>1. AreParametersInHand({4})
      BY <2>2 DEF decodePictureParameters, PacketOK
    <3> QED BY <3>1, InHand
  <2> QED BY <2>1, <2>2
<1>2. Descriptor.sps # NoSet /\ Descriptor.pps # NoSet
  BY <1>1, SetAssumption
<1>3. \/ codec' = codec
      \/ codec # NoCodec /\ codec' = [codec EXCEPT !.sps = Descriptor.sps]
      \/ codec # NoCodec /\ codec' = [codec EXCEPT !.pps = Descriptor.pps]
      \/ codec' = [sps |-> Descriptor.sps, pps |-> Descriptor.pps]
  <2>1. videoFormatPacketReceived =>
          \/ codec' = codec
          \/ codec # NoCodec /\ codec' = [codec EXCEPT !.sps = Descriptor.sps]
          \/ codec' = [sps |-> Descriptor.sps, pps |-> Descriptor.pps]
    BY DEF videoFormatPacketReceived, configure
  <2>2. decodePictureParameters =>
          codec # NoCodec /\ (codec' = codec \/ codec' = [codec EXCEPT !.pps = Descriptor.pps])
    BY DEF decodePictureParameters, PacketOK
  <2> QED BY <2>1, <2>2
<1> HIDE DEF Descriptor
<1> QED BY <1>0, <1>1, <1>2, <1>3 DEF NoCodec

LEMMA NextKeepsJava ==
  ASSUME ThreadsOK, SubjectOK, StreamOK, JavaOK, PacketOK, [Next]_vars
  PROVE  JavaOK'
<1>1. CASE videoFormatPacketReceived \/ decodePictureParameters
  <2>1. UNCHANGED <<pictures, thread>>
    BY <1>1 DEF videoFormatPacketReceived, decodePictureParameters
  <2> QED BY <1>1, <2>1, CodecIsGiven DEF thread, JavaOK
<1>2. CASE Retriever /\ ~videoFormatPacketReceived /\ ~decodePictureParameters
        /\ ~videoPacketReceived
  BY <1>2, CodecStays DEF thread, JavaOK
<1>3. CASE videoPacketReceived
  <2>1. /\ UNCHANGED <<codec, thread>>
        /\ \/ UNCHANGED pictures
           \/ Len(pictures) # InputBuffers /\ pictures' = Append(pictures, timebase)
    BY <1>3 DEF videoPacketReceived, Full
  <2>2. pictures \in Seq(Nat) /\ timebase \in Nat /\ Len(pictures) <= InputBuffers
          /\ InputBuffers \in Nat
        /\ Len(pictures) \in Nat
    BY Bounds, LenProperties DEF JavaOK, StreamOK
  <2>3. Append(pictures, timebase) \in Seq(Nat)
          /\ Len(Append(pictures, timebase)) = Len(pictures) + 1
    BY <2>2, AppendProperties
  <2>4. pictures' \in Seq(Nat) /\ Len(pictures') <= InputBuffers
    BY <2>1, <2>2, <2>3
  <2> QED BY <2>1, <2>4 DEF thread, JavaOK
<1>4. CASE takePicture
  <2>1. pictures \in Seq(Nat) /\ pictures # << >>
    BY <1>4 DEF takePicture, JavaOK
  <2>2. Head(pictures) \in Nat /\ Tail(pictures) \in Seq(Nat)
          /\ Len(Tail(pictures)) = Len(pictures) - 1
        /\ Len(pictures) \in Nat
    BY <2>1, HeadTailProperties, LenProperties
  <2>3. /\ UNCHANGED <<codec, now>> /\ holding' = Head(pictures) /\ pictures' = Tail(pictures)
        /\ startWhen' \in {startWhen, now}
    BY <1>4 DEF takePicture
  <2>4. wakeAt' \in Nat
    <3> DEFINE sleep == sleepTime(Head(pictures), startWhen')
    <3>1. wakeAt' = now + IF sleep > 0 THEN sleep ELSE 0
      BY <1>4 DEF takePicture
    <3>2. now \in Nat /\ startWhen' \in Nat
      BY <1>4 DEF takePicture, JavaOK, NoTime
    <3>3. PresentationTime(Head(pictures)) \in Nat
      BY <2>2, Bounds DEF PresentationTime
    <3>4. sleep \in Int
      BY <3>2, <3>3 DEF sleepTime
    <3> HIDE DEF sleep
    <3> QED BY <3>1, <3>2, <3>4
  <2>5. startWhen' \in Nat \cup {NoTime} /\ Len(pictures') <= InputBuffers
    BY <2>2, <2>3, Bounds DEF JavaOK
  <2> QED BY <2>2, <2>3, <2>4, <2>5 DEF JavaOK
<1>5. CASE releaseOutputBuffer
  BY <1>5 DEF releaseOutputBuffer, java, JavaOK
<1>6. CASE Tick
  BY <1>6 DEF Tick, java, JavaOK
<1>7. CASE applicationState \/ surfaceChanged \/ UNCHANGED vars
  BY <1>7 DEF applicationState, surfaceChanged, vars, java, thread, JavaOK
<1>8. CASE App \/ Socket
  <2>1. UNCHANGED <<java, thread>>
    BY <1>8 DEF App, start, connectCloses, connectJoined, connect, markRunning, end, endJoined,
         ended, Socket, resolved, socketFails, testOpen, sessionStarted, startMediaPacketRetriever
  <2> QED BY <2>1 DEF java, thread, JavaOK
<1> QED BY <1>1, <1>2, <1>3, <1>4, <1>5, <1>6, <1>7, <1>8 DEF Next, System, VideoDecoderThread

\* the message in hand stays what it was until the retriever is done with it
LEMMA NextKeepsPacket ==
  ASSUME ThreadsOK, JavaOK, AppleOK, StreamOK, PacketOK, [Next]_vars
  PROVE  PacketOK'
<1>0. \A s : (ThreadsOK /\ Go("retriever", s)) => at'["retriever"] = s
  BY DEF ThreadsOK, Threads, Go
<1>1. CASE ~Retriever
  <2>1. UNCHANGED <<device, packet, codec, samples>>
    BY <1>1, RetrieverStays
  <2>2. at'["retriever"] = at["retriever"] \/ at'["retriever"] = "loop"
    BY <1>1, RetrieverStays
  <2> QED BY <2>1, <2>2 DEF PacketOK, At, IsPictureInHand, AreParametersInHand
<1>2. CASE metadataArrives \/ audioArrives
  <2>1. Go("retriever", "use") /\ packet'.kind \in {"metadata", "audio"}
    BY <1>2 DEF metadataArrives, audioArrives, Arrives
  <2>2. at'["retriever"] = "use"
    BY <1>0, <2>1
  <2> QED BY <2>1, <2>2 DEF PacketOK, At
<1>3. CASE videoArrives
  <2>1. at'["retriever"] = "use"
    BY <1>0, <1>3 DEF videoArrives, Arrives
  <2>2. \E f \in Formats, d \in {0, 1} :
          \/ packet' = Picture(f, d, position')
          \/ \E nl \in {2, 4} : packet' = Parameters(f, nl, position')
    BY <1>3, VideoArrived
  <2>3. position' \in Nat
    BY <1>3, VideoTimes
  <2>4. IsPictureInHand' \/ AreParametersInHand({2, 4})'
    BY <2>2, <2>3 DEF IsPictureInHand, AreParametersInHand
  <2> QED BY <2>1, <2>4 DEF PacketOK, At
<1>4. CASE videoFormatPacketReceived
  <2>1. device = "android" /\ UNCHANGED device /\ AreParametersInHand({4})
    BY <1>4, DescriptorIsOfTheStream DEF videoFormatPacketReceived, IsVideo, subject
  <2>2. \/ at'["retriever"] = "loop"
        \/ codec # NoCodec /\ at'["retriever"] = "pps" /\ UNCHANGED packet
    BY <1>0, <1>4 DEF videoFormatPacketReceived, configure, Loop
  <2>3. codec # NoCodec => codec' # NoCodec
    BY <1>4, CodecIsGiven
  <2> QED BY <2>1, <2>2, <2>3 DEF PacketOK, At, AreParametersInHand
<1>5. CASE unpackVideoPacket
  <2>1. at'["retriever"] = "loop" \/ (at'["retriever"] = "decode1" /\ samples' = samples + 1)
    BY <1>0, <1>5 DEF unpackVideoPacket, Loop
  <2>2. samples \in Nat
    BY DEF AppleOK
  <2>3. at'["retriever"] = "decode1" => samples' >= 1
    BY <2>1, <2>2
  <2> QED BY <2>1, <2>3 DEF PacketOK, At
<1>6. CASE decodeFrameWithSampleBuffer
  <2>1. at["retriever"] = "decode1" /\ at'["retriever"] \in {"loop", "decode2"} /\ UNCHANGED samples
    BY <1>0, <1>6 DEF decodeFrameWithSampleBuffer, Loop, At, apple
  <2> QED BY <2>1 DEF PacketOK, At
<1>7. CASE createDecompressionSessionIfNeeded
  <2>1. at["retriever"] = "decode2"
        /\ (at'["retriever"] = "loop" \/ (at'["retriever"] = "decode3" /\ UNCHANGED samples))
    BY <1>0, <1>7 DEF createDecompressionSessionIfNeeded, Loop, At
  <2> QED BY <2>1 DEF PacketOK, At
<1>8. CASE \/ retrieverEnds \/ lostConnection \/ lostConnectionJoined \/ metadataPacketReceived
           \/ audioPacketReceived \/ decodePictureParameters \/ videoPacketReceived \/ decodeFrame
  <2>1. Go("retriever", "off") \/ Go("retriever", "closed") \/ Go("retriever", "loop")
    BY <1>8 DEF retrieverEnds, lostConnection, lostConnectionJoined, metadataPacketReceived,
         audioPacketReceived, decodePictureParameters, videoPacketReceived, decodeFrame, Loop
  <2>2. at'["retriever"] \in {"off", "closed", "loop"}
    BY <1>0, <2>1
  <2> QED BY <2>2 DEF PacketOK, At
<1> QED BY <1>1, <1>2, <1>3, <1>4, <1>5, <1>6, <1>7, <1>8 DEF Retriever, Decompressor

LEMMA NextKeepsTypes ==
  ASSUME Types, [Next]_vars
  PROVE  Types'
BY NextKeepsThreads, NextKeepsSession, NextKeepsSubject, NextKeepsStream, NextKeepsApple,
     NextKeepsJava, NextKeepsPacket DEF Types

\* the parts and the whole
LEMMA TypesImplyTypeOK == Types => TypeOK
<1> SUFFICES ASSUME Types PROVE TypeOK
  OBVIOUS
<1>1. {fresh, stopped, isRunning, isActive, raced, appActive, surface, inBackground, missed, late,
        drifted,
       unheard} \subseteq BOOLEAN
  BY DEF Types, SessionOK, SubjectOK, StreamOK, AppleOK
<1>2. {sent, position, timebase, samples, wasted, wakeAt, now, calls, sessions} \subseteq Nat
  BY DEF Types, SessionOK, SubjectOK, StreamOK, AppleOK, JavaOK
<1>3. /\ device \in Devices /\ [source |-> source, settings |-> published] \in Broadcasters
      /\ session \in {"off", "resolving", "open", "live", "closed"} /\ env \in Threads \cup {"none"}
      /\ streamFormat \in Formats /\ {fmt, decoder} \subseteq Formats \cup {NoSet}
  BY DEF Types, SessionOK, SubjectOK, StreamOK, AppleOK
<1>4. /\ codec.sps \in Formats \cup {NoSet} /\ (codec.sps = NoSet <=> codec.pps = NoSet)
      /\ Len(pictures) <= InputBuffers /\ {holding, startWhen} \subseteq Nat \cup {NoTime}
  BY DEF Types, JavaOK
<1>5. /\ at["app"] \in {"idle", "connect", "connectClosed", "markRunning", "end", "endClosed",
           "ended"}
      /\ at["socket"] \in {"idle", "work", "ready", "started"}
      /\ at["retriever"] \in {"off", "loop", "closed", "use", "pps", "decode1", "decode2",
           "decode3"}
  BY DEF Types, ThreadsOK, AppPlaces, SocketPlaces, RetrieverPlaces
<1> QED BY <1>1, <1>2, <1>3, <1>4, <1>5 DEF TypeOK

\* The parts of the type invariant hold.
THEOREM TypesHold == Spec => []Types
BY InitIsTyped, NextKeepsTypes, PTL DEF Spec

\* Every variable of the watcher's media keeps its type on both devices.
THEOREM TypeCorrect == Spec => []TypeOK
BY TypesHold, TypesImplyTypeOK, PTL

-----------------------------------------------------------------------------
(* The bridge.  While the application is away, before a connection and     *)
(* after an end, the session is over and the retriever has nothing in hand: *)
(* so no other thread takes env_ from a retriever that is using it.        *)

\* isActive is that of a session that is live, or of one that closed on the way
ActiveIsLive == (device = "android" /\ isActive) => session = "live" \/ raced
\* a chain of commands that has ended well has an open session, or one closed meanwhile
ReadyOrClosed == At("socket", "ready") => session \in {"open", "closed"}
LiveIsStarted == session = "live" => at["socket"] \in {"idle", "started"}
\* the application before the connection and after the end of one
AppIsAway == \/ at["app"] \in {"connect", "connectClosed", "endClosed", "ended"}
             \/ At("app", "idle") /\ ~isRunning
AwayIsClosed ==
  (~missed /\ AppIsAway) => session \in {"off", "closed"} /\ at["retriever"] \in {"off", "loop"}
\* a message in hand is of the session whose chain of commands was the last
HandIsOfTheLast ==
  (~missed /\ at["retriever"] \in {"use", "pps"}) => at["socket"] \in {"idle", "started"}
Bridge == /\ ActiveIsLive /\ ReadyOrClosed /\ LiveIsStarted /\ AwayIsClosed /\ HandIsOfTheLast
          /\ ForeignEnvOnlyIfMissed

LEMMA InitIsBridged ==
  ASSUME Init
  PROVE  Bridge
BY DEF Init, Bridge, ActiveIsLive, ReadyOrClosed, LiveIsStarted, AppIsAway, AwayIsClosed,
     HandIsOfTheLast, ForeignEnvOnlyIfMissed, At, Threads

\* where the retriever comes from and goes to
LEMMA RetrieverMoves ==
  ASSUME ThreadsOK, Retriever
  PROVE  /\ at["retriever"] # "off"
         /\ (at["retriever"] = "loop" /\ at'["retriever"] # "off") => session = "live"
         /\ at'["retriever"] = "use" =>
              /\ at["retriever"] = "loop"
              /\ IF device = "android" THEN env' = "retriever" ELSE UNCHANGED env
              /\ metadataArrives \/ audioArrives \/ videoArrives
         /\ at'["retriever"] = "pps" => at["retriever"] = "use" /\ videoFormatPacketReceived
<1>0. \A s : Go("retriever", s) => at'["retriever"] = s
  BY DEF ThreadsOK, Threads, Go
<1>1. CASE metadataArrives \/ audioArrives \/ videoArrives
  <2>1. /\ at["retriever"] = "loop" /\ session = "live" /\ Go("retriever", "use")
        /\ IF device = "android" THEN env' = "retriever" ELSE UNCHANGED env
    BY <1>1, ArrivalMoves DEF At
  <2>2. at'["retriever"] = "use"
    BY <1>0, <2>1
  <2> QED BY <1>1, <2>1, <2>2
<1>2. CASE retrieverEnds \/ lostConnection
  <2>1. /\ at["retriever"] = "loop" /\ (session = "live" \/ Go("retriever", "off"))
        /\ Go("retriever", "off") \/ Go("retriever", "closed")
    BY <1>2 DEF retrieverEnds, lostConnection, At
  <2> QED BY <1>0, <2>1
<1>3. CASE videoFormatPacketReceived
  <2>1. at["retriever"] = "use" /\ (Go("retriever", "loop") \/ Go("retriever", "pps"))
    BY <1>3 DEF videoFormatPacketReceived, configure, Loop, IsVideo, At
  <2> QED BY <1>0, <1>3, <2>1
<1>4. CASE \/ lostConnectionJoined \/ metadataPacketReceived \/ audioPacketReceived
           \/ decodePictureParameters \/ videoPacketReceived \/ Decompressor
  <2>1. at["retriever"] \in {"closed", "use", "pps", "decode1", "decode2", "decode3"}
    BY <1>4 DEF lostConnectionJoined, metadataPacketReceived, audioPacketReceived,
         decodePictureParameters, videoPacketReceived, Decompressor, unpackVideoPacket, IsVideo, At,
         decodeFrameWithSampleBuffer, createDecompressionSessionIfNeeded, decodeFrame
  <2>2. \/ Go("retriever", "loop") \/ Go("retriever", "decode1") \/ Go("retriever", "decode2")
        \/ Go("retriever", "decode3")
    BY <1>4 DEF lostConnectionJoined, metadataPacketReceived, audioPacketReceived,
         decodePictureParameters, videoPacketReceived, Decompressor, unpackVideoPacket, Loop,
         decodeFrameWithSampleBuffer, createDecompressionSessionIfNeeded, decodeFrame
  <2> QED BY <1>0, <2>1, <2>2
<1> QED BY <1>1, <1>2, <1>3, <1>4 DEF Retriever

\* the steps that do not touch the session
LEMMA SessionStays ==
  ASSUME (Retriever /\ ~lostConnection) \/ VideoDecoderThread \/ System \/ UNCHANGED vars
  PROVE  UNCHANGED <<device, session_, isRunning, isActive, raced, missed>>
<1>1. CASE metadataArrives \/ audioArrives \/ videoArrives
  BY <1>1, ArrivalMoves DEF subject
<1>2. CASE \/ retrieverEnds \/ lostConnectionJoined \/ metadataPacketReceived \/ audioPacketReceived
           \/ videoFormatPacketReceived \/ decodePictureParameters \/ videoPacketReceived
           \/ Decompressor
  BY <1>2 DEF retrieverEnds, lostConnectionJoined, metadataPacketReceived, audioPacketReceived,
       videoFormatPacketReceived, decodePictureParameters, videoPacketReceived, Decompressor,
       unpackVideoPacket, decodeFrameWithSampleBuffer, createDecompressionSessionIfNeeded,
       decodeFrame, subject, native
<1>3. CASE VideoDecoderThread \/ System \/ UNCHANGED vars
  BY <1>3, OthersStay DEF subject, native
<1> QED BY <1>1, <1>2, <1>3 DEF Retriever

\* the steps that do not touch env_
LEMMA EnvStays ==
  ASSUME \/ Retriever /\ ~lostConnection /\ ~metadataArrives /\ ~audioArrives /\ ~videoArrives
         \/ VideoDecoderThread \/ System \/ UNCHANGED vars
  PROVE  UNCHANGED env
<1>2. CASE \/ retrieverEnds \/ lostConnectionJoined \/ metadataPacketReceived \/ audioPacketReceived
           \/ videoFormatPacketReceived \/ decodePictureParameters \/ videoPacketReceived
           \/ Decompressor
  BY <1>2 DEF retrieverEnds, lostConnectionJoined, metadataPacketReceived, audioPacketReceived,
       videoFormatPacketReceived, decodePictureParameters, videoPacketReceived, Decompressor,
       unpackVideoPacket, decodeFrameWithSampleBuffer, createDecompressionSessionIfNeeded,
       decodeFrame, native
<1>3. CASE VideoDecoderThread \/ System \/ UNCHANGED vars
  BY <1>3, OthersStay DEF native
<1> QED BY <1>2, <1>3 DEF Retriever

LEMMA AppKeepsBridge ==
  ASSUME ThreadsOK, SessionOK, Bridge, App
  PROVE  Bridge'
<1>0. /\ ThreadsOK' /\ at'["retriever"] = at["retriever"]
      /\ ~connect => at'["socket"] = at["socket"]
      /\ \A s : Go("app", s) => at'["app"] = s
  BY AppGoes DEF ThreadsOK, Threads, Go
<1>a. UNCHANGED device
  BY DEF App, start, connectCloses, connectJoined, connect, markRunning, end, endJoined, ended,
       subject
<1>1. CASE start \/ connectJoined \/ markRunning \/ end \/ ended
  <2>1. UNCHANGED <<session, isActive, raced, env, missed>> /\ UNCHANGED at["socket"]
    <3>1. ~connect
      BY <1>1 DEF start, connectJoined, markRunning, end, ended, connect, At
    <3> QED BY <1>0, <1>1, <3>1 DEF start, connectJoined, markRunning, end, ended, session_, native
  <2>2. AppIsAway' => AppIsAway
    <3>1. start => AppIsAway
      BY DEF start, AppIsAway, At
    <3>2. connectJoined => AppIsAway
      BY DEF connectJoined, AppIsAway, At
    <3>3. markRunning => at'["app"] = "idle" /\ isRunning'
      BY <1>0 DEF markRunning
    <3>4. end => at'["app"] = "end"
      BY <1>0 DEF end
    <3>5. ended => AppIsAway
      BY DEF ended, AppIsAway, At
    <3> QED BY <1>1, <3>1, <3>2, <3>3, <3>4, <3>5 DEF AppIsAway, At
  <2> QED BY <1>0, <1>a, <2>1, <2>2 DEF Bridge, ActiveIsLive, ReadyOrClosed, LiveIsStarted,
       AwayIsClosed, HandIsOfTheLast, ForeignEnvOnlyIfMissed, At
<1>2. CASE connectCloses
  <2>1. /\ session \in {"open", "live"} /\ session' = "closed" /\ UNCHANGED missed /\ AppIsAway
        /\ UNCHANGED at["socket"]
    <3>1. ~connect
      BY <1>2 DEF connect, connectCloses
    <3> QED BY <1>0, <1>2, <3>1 DEF connectCloses, IsOpen, AppIsAway, At
  <2>2. missed
    BY <2>1 DEF Bridge, AwayIsClosed
  <2>3. device = "android" => isActive' = FALSE
    BY <1>2 DEF connectCloses, setActive
  <2> QED BY <1>0, <1>a, <2>1, <2>2, <2>3 DEF Bridge, ActiveIsLive, ReadyOrClosed, LiveIsStarted,
       AwayIsClosed, HandIsOfTheLast, ForeignEnvOnlyIfMissed, At
<1>3. CASE connect
  <2>1. /\ session \notin {"open", "live"} /\ session' = "resolving"
        /\ UNCHANGED <<isActive, raced, env, missed>>
        /\ AppIsAway /\ at["socket"] = "idle"
    BY <1>3 DEF connect, IsOpen, AppIsAway, At, native
  <2>2. at'["socket"] = "work" /\ at'["app"] = "markRunning"
    BY <1>3 DEF connect, ThreadsOK, Threads
  <2>3. ~AppIsAway'
    BY <2>2 DEF AppIsAway, At
  <2> QED BY <1>0, <1>a, <2>1, <2>2, <2>3 DEF Bridge, ActiveIsLive, ReadyOrClosed, LiveIsStarted,
       AwayIsClosed, HandIsOfTheLast, ForeignEnvOnlyIfMissed, At
<1>4. CASE endJoined
  <2>1. at["retriever"] = "off" /\ UNCHANGED at["socket"]
    <3>1. ~connect
      BY <1>4 DEF connect, endJoined, At
    <3> QED BY <1>0, <1>4, <3>1 DEF endJoined, At
  <2>2. CASE IsOpen
    <3>1. session' = "closed" /\ UNCHANGED missed /\ (device = "android" => isActive' = FALSE)
      BY <1>4, <2>2 DEF endJoined, setActive
    <3> QED BY <1>0, <1>a, <2>1, <3>1 DEF Bridge, ActiveIsLive, ReadyOrClosed, LiveIsStarted,
         AwayIsClosed, HandIsOfTheLast, ForeignEnvOnlyIfMissed, At
  <2>3. CASE ~IsOpen
    <3>1. UNCHANGED <<session, isActive, env, raced>> /\ missed' = (missed \/ session = "resolving")
      BY <1>4, <2>3 DEF endJoined
    <3>2. missed' \/ session \in {"off", "closed"}
      BY <2>3, <3>1 DEF IsOpen, SessionOK
    <3> QED BY <1>0, <1>a, <2>1, <3>1, <3>2 DEF Bridge, ActiveIsLive, ReadyOrClosed, LiveIsStarted,
         AwayIsClosed, HandIsOfTheLast, ForeignEnvOnlyIfMissed, At
  <2> QED BY <2>2, <2>3
<1> QED BY <1>1, <1>2, <1>3, <1>4 DEF App

LEMMA SocketKeepsBridge ==
  ASSUME ThreadsOK, SessionOK, Bridge, Socket
  PROVE  Bridge'
<1>0. /\ ThreadsOK' /\ at'["app"] = at["app"]
      /\ \A s : Go("socket", s) => at'["socket"] = s
      /\ ~startMediaPacketRetriever => at'["retriever"] = at["retriever"]
  BY SocketGoes DEF ThreadsOK, Threads, Go
<1>a. UNCHANGED <<device, missed, isRunning>> /\ (AppIsAway' <=> AppIsAway)
  <2>1. UNCHANGED <<device, missed, isRunning>>
    BY DEF Socket, resolved, socketFails, testOpen, sessionStarted, startMediaPacketRetriever,
         subject, native
  <2> QED BY <1>0, <2>1 DEF AppIsAway, At
<1>b. startMediaPacketRetriever => At("socket", "started")
  BY DEF startMediaPacketRetriever
<1>1. CASE resolved
  <2>1. /\ session = "resolving" /\ session' = "open" /\ UNCHANGED <<isActive, raced, env, at>>
        /\ at["socket"] = "work"
    BY <1>1 DEF resolved, native, At
  <2> QED BY <1>a, <2>1 DEF Bridge, ActiveIsLive, ReadyOrClosed, LiveIsStarted, AwayIsClosed,
       HandIsOfTheLast, ForeignEnvOnlyIfMissed, At
<1>2. CASE socketFails
  <2>1. /\ session \in {"resolving", "open"} /\ session' = "closed" /\ at["socket"] = "work"
        /\ at'["socket"] = "idle"
    BY <1>0, <1>2 DEF socketFails, At
  <2>2. device = "android" => isActive' = FALSE
    BY <1>2 DEF socketFails, setActive
  <2>3. at'["retriever"] = at["retriever"]
    BY <1>0, <1>b, <2>1 DEF At
  <2> QED BY <1>0, <1>a, <2>1, <2>2, <2>3 DEF Bridge, ActiveIsLive, ReadyOrClosed, LiveIsStarted,
       AwayIsClosed, HandIsOfTheLast, ForeignEnvOnlyIfMissed, At
<1>3. CASE testOpen
  <2>1. /\ session \in {"open", "closed"} /\ at["socket"] = "work"
        /\ UNCHANGED <<session, isActive, raced, env>>
        /\ at'["socket"] = IF session = "open" THEN "ready" ELSE "idle"
    BY <1>0, <1>3 DEF testOpen, native, session_, At
  <2>3. at'["retriever"] = at["retriever"]
    BY <1>0, <1>b, <2>1 DEF At
  <2> QED BY <1>0, <1>a, <2>1, <2>3 DEF Bridge, ActiveIsLive, ReadyOrClosed, LiveIsStarted,
       AwayIsClosed, HandIsOfTheLast, ForeignEnvOnlyIfMissed, At
<1>4. CASE sessionStarted
  <2>1. /\ at["socket"] = "ready" /\ at'["socket"] = "started"
        /\ session' = IF session = "open" THEN "live" ELSE session
    BY <1>0, <1>4 DEF sessionStarted, At
  <2>2. session \in {"open", "closed"}
    BY <2>1 DEF Bridge, ReadyOrClosed, At
  <2>3. device = "android" => raced' = (session = "closed")
    <3>1. device = "android" => raced' = (TRUE /\ session = "closed")
      BY <1>4 DEF sessionStarted, setActive
    <3> QED BY <3>1
  <2>4. at'["retriever"] = at["retriever"]
    BY <1>0, <1>b, <2>1 DEF At
  <2>5. (device = "android" /\ session' # "live") => raced'
    BY <2>1, <2>2, <2>3
  <2>6. AppIsAway /\ ~missed => session' = "closed"
    BY <2>1, <2>2 DEF Bridge, AwayIsClosed
  <2>7. at["retriever"] \in {"use", "pps"} => missed
    BY <2>1 DEF Bridge, HandIsOfTheLast
  <2>8. LiveIsStarted' /\ ReadyOrClosed' /\ ActiveIsLive'
    BY <1>a, <2>1, <2>5 DEF LiveIsStarted, ReadyOrClosed, ActiveIsLive, At
  <2>9. AwayIsClosed' /\ HandIsOfTheLast' /\ ForeignEnvOnlyIfMissed'
    BY <1>a, <2>1, <2>4, <2>6, <2>7 DEF Bridge, AwayIsClosed, HandIsOfTheLast,
         ForeignEnvOnlyIfMissed, At
  <2> QED BY <2>8, <2>9 DEF Bridge
<1>5. CASE startMediaPacketRetriever
  <2>1. /\ UNCHANGED <<session, isActive, raced, env>> /\ at["socket"] = "started"
        /\ at' = [at EXCEPT !["socket"] = "idle", !["retriever"] = IF stopped THEN "loop" ELSE @]
    BY <1>5 DEF startMediaPacketRetriever, native, At
  <2>2. at'["socket"] = "idle" /\ at'["retriever"] \in {"loop", at["retriever"]}
    BY <2>1 DEF ThreadsOK, Threads
  <2> QED BY <1>0, <1>a, <2>1, <2>2 DEF Bridge, ActiveIsLive, ReadyOrClosed, LiveIsStarted,
       AwayIsClosed, HandIsOfTheLast, ForeignEnvOnlyIfMissed, At
<1> QED BY <1>1, <1>2, <1>3, <1>4, <1>5 DEF Socket

LEMMA RetrieverKeepsBridge ==
  ASSUME ThreadsOK, SessionOK, Bridge, Retriever
  PROVE  Bridge'
<1>0. ThreadsOK' /\ at'["app"] = at["app"] /\ at'["socket"] = at["socket"]
  BY RetrieverGoes
<1>1. CASE lostConnection
  <2>1. /\ session = "live" /\ session' = "closed" /\ UNCHANGED <<device, missed, isRunning>>
        /\ at["retriever"] = "loop" /\ at'["retriever"] = "closed"
    BY <1>1 DEF lostConnection, At, subject, ThreadsOK, Threads, Go
  <2>2. device = "android" => isActive' = FALSE
    BY <1>1 DEF lostConnection, setActive
  <2>3. AppIsAway' <=> AppIsAway
    BY <1>0, <2>1 DEF AppIsAway, At
  <2>4. ~missed => ~AppIsAway
    BY <2>1 DEF Bridge, AwayIsClosed
  <2> QED BY <1>0, <2>1, <2>2, <2>3, <2>4 DEF Bridge, ActiveIsLive, ReadyOrClosed, LiveIsStarted,
       AwayIsClosed, HandIsOfTheLast, ForeignEnvOnlyIfMissed, At
<1>2. CASE ~lostConnection
  <2>1. UNCHANGED <<device, session, isRunning, isActive, raced, missed>>
    BY <1>2, SessionStays DEF session_
  <2>2. AppIsAway' <=> AppIsAway
    BY <1>0, <2>1 DEF AppIsAway, At
  <2>3. /\ at["retriever"] # "off"
        /\ (at["retriever"] = "loop" /\ at'["retriever"] # "off") => session = "live"
    BY RetrieverMoves
  <2>4. at'["retriever"] = "use" => at["retriever"] = "loop"
          /\ (device = "android" => env' = "retriever")
    BY RetrieverMoves
  <2>5. at'["retriever"] = "pps" => at["retriever"] = "use"
    BY RetrieverMoves
  <2>6. ActiveIsLive' /\ ReadyOrClosed' /\ LiveIsStarted'
    BY <1>0, <2>1 DEF Bridge, ActiveIsLive, ReadyOrClosed, LiveIsStarted, At
  <2>7. AwayIsClosed'
    BY <2>1, <2>2, <2>3 DEF Bridge, AwayIsClosed
  <2>8. HandIsOfTheLast'
    BY <1>0, <2>1, <2>3, <2>4, <2>5 DEF Bridge, HandIsOfTheLast, LiveIsStarted
  <2>9. ForeignEnvOnlyIfMissed'
    BY <2>1, <2>4 DEF ForeignEnvOnlyIfMissed, At
  <2> QED BY <2>6, <2>7, <2>8, <2>9 DEF Bridge
<1> QED BY <1>1, <1>2

LEMMA NextKeepsBridge ==
  ASSUME Types, Bridge, [Next]_vars
  PROVE  Bridge'
<1>1. ThreadsOK /\ SessionOK
  BY DEF Types
<1>2. CASE VideoDecoderThread \/ System \/ UNCHANGED vars
  <2>1. UNCHANGED <<device, session, isRunning, isActive, raced, missed>> /\ UNCHANGED env
    BY <1>2, SessionStays, EnvStays DEF session_
  <2>2. UNCHANGED at
    BY <1>2, OthersStay
  <2> QED BY <2>1, <2>2 DEF Bridge, ActiveIsLive, ReadyOrClosed, LiveIsStarted, AppIsAway,
       AwayIsClosed, HandIsOfTheLast, ForeignEnvOnlyIfMissed, At
<1> QED BY <1>1, <1>2, AppKeepsBridge, SocketKeepsBridge, RetrieverKeepsBridge DEF Next

\* What the bridge rests on holds: whoever of the application, the socket and the retriever is
\* where, the session is one that allows it, or an end() has missed a session.
THEOREM BridgeHolds == Spec => [](Types /\ Bridge)
<1>1. Types /\ Bridge /\ [Next]_vars => (Types /\ Bridge)'
  BY NextKeepsTypes, NextKeepsBridge
<1>2. Init => Types /\ Bridge
  BY InitIsTyped, InitIsBridged
<1> QED BY <1>1, <1>2, PTL DEF Spec

\* The flags of the JNI bridge are those of a live session, and the env_ that the retriever
\* calls Java through is its own, unless an end() has missed a session that was not open yet.
THEOREM BridgeIsInStep == Spec => []BridgeFollowsTheSession
<1>1. Types /\ Bridge => BridgeFollowsTheSession
  <2>1. ActiveIsLive => ConnectedIsLive
    BY DEF ActiveIsLive, ConnectedIsLive, isConnected
  <2> QED BY <2>1, TypesImplyTypeOK DEF Bridge, BridgeFollowsTheSession
<1> QED BY <1>1, BridgeHolds, PTL

-----------------------------------------------------------------------------
(* The decompressor.                                                       *)

\* the one frame that a change of format may cost has been lost, and the decoder with it
OneLost ==
  wasted <= 1 /\ (wasted = 1 => decoder = NoSet \/ (decoder = fmt /\ At("retriever", "decode3")))
Gone == (stopped /\ decoder # NoSet) => late
Decoding == at["retriever"] \in {"decode1", "decode2", "decode3"}
SamplesOK == ~inBackground => appActive /\ samples = IF Decoding THEN 1 ELSE 0
Kept == OneLost /\ Gone /\ SamplesOK

LEMMA InitKeepsNothing ==
  ASSUME Init
  PROVE  Kept
BY DEF Init, Kept, OneLost, Gone, Decoding, SamplesOK, Threads

\* another thread moves the retriever only to start it
LEMMA RetrieverIsStarted ==
  ASSUME ThreadsOK, [Next]_vars, ~Retriever
  PROVE  \/ at'["retriever"] = at["retriever"]
         \/ at["retriever"] = "off" /\ at'["retriever"] = "loop"
<1>1. CASE at'["retriever"] = at["retriever"]
  BY <1>1
<1>2. CASE startMediaPacketRetriever
  <2>1. /\ stopped => at["retriever"] = "off"
        /\ at' = [at EXCEPT !["socket"] = "idle", !["retriever"] = IF stopped THEN "loop" ELSE @]
    BY <1>2 DEF startMediaPacketRetriever, At
  <2> QED BY <2>1 DEF ThreadsOK, Threads
<1> QED BY <1>1, <1>2, RetrieverStays

\* what the others do to the decompressor: the application ends it
LEMMA OthersKeepNothing ==
  ASSUME Types, Kept, [Next]_vars, ~Retriever
  PROVE  Kept'
<1>0. ThreadsOK /\ AppleOK
  BY DEF Types
<1>1. UNCHANGED <<fmt, samples, wasted>>
  BY <1>0, RetrieverStays
<1>2. at'["retriever"] = at["retriever"] \/ (at["retriever"] = "off" /\ at'["retriever"] = "loop")
  BY <1>0, RetrieverIsStarted
<1>3. \/ decoder' = NoSet
      \/ UNCHANGED <<decoder, late>> /\ (UNCHANGED stopped \/ stopped' = FALSE)
  <2>1. CASE App
    BY <2>1 DEF App, start, connectCloses, connectJoined, connect, markRunning, end, endJoined,
         ended, apple, session_
  <2>2. CASE Socket
    BY <2>2 DEF Socket, resolved, socketFails, testOpen, sessionStarted, startMediaPacketRetriever,
         apple, session_
  <2>3. CASE VideoDecoderThread \/ System \/ UNCHANGED vars
    BY <2>3, OthersStay DEF apple, session_
  <2> QED BY <2>1, <2>2, <2>3 DEF Next
<1>4. inBackground' \/ UNCHANGED <<inBackground, appActive>>
  <2>1. CASE App
    BY <2>1 DEF App, start, connectCloses, connectJoined, connect, markRunning, end, endJoined,
         ended, world
  <2>2. CASE Socket
    BY <2>2 DEF Socket, resolved, socketFails, testOpen, sessionStarted, startMediaPacketRetriever,
         world
  <2>3. CASE VideoDecoderThread \/ System \/ UNCHANGED vars
    BY <2>3 DEF VideoDecoderThread, takePicture, releaseOutputBuffer, System, applicationState,
         surfaceChanged, Tick, world, vars
  <2> QED BY <2>1, <2>2, <2>3 DEF Next
<1>5. OneLost'
  <2>1. decoder' = NoSet \/ UNCHANGED decoder
    BY <1>3
  <2> QED BY <1>1, <1>2, <2>1 DEF Kept, OneLost, At
<1>6. Gone'
  BY <1>3 DEF Kept, Gone
<1>7. Decoding' <=> Decoding
  BY <1>2 DEF Decoding
<1>8. SamplesOK'
  <2>1. CASE inBackground'
    BY <2>1 DEF SamplesOK
  <2>2. CASE UNCHANGED <<inBackground, appActive>>
    BY <1>1, <1>7, <2>2 DEF Kept, SamplesOK
  <2> QED BY <1>4, <2>1, <2>2
<1> QED BY <1>5, <1>6, <1>8 DEF Kept

LEMMA RetrieverKeepsNothing ==
  ASSUME Types, Kept, Retriever
  PROVE  Kept'
<1>0. /\ ThreadsOK /\ AppleOK /\ PacketOK
      /\ \A s : Go("retriever", s) => at'["retriever"] = s
  BY DEF Types, ThreadsOK, Threads, Go
<1>1. UNCHANGED <<stopped, appActive, inBackground>>
  <2>1. CASE metadataArrives \/ audioArrives \/ videoArrives \/ lostConnection
    <3>1. UNCHANGED world
      BY <2>1, ArrivalMoves DEF lostConnection
    <3>2. UNCHANGED stopped
      BY <2>1, ArrivalMoves DEF lostConnection, session_
    <3> QED BY <3>1, <3>2 DEF world
  <2>2. CASE \/ retrieverEnds \/ lostConnectionJoined \/ metadataPacketReceived
             \/ audioPacketReceived \/ videoFormatPacketReceived \/ decodePictureParameters
             \/ videoPacketReceived \/ Decompressor
    <3>1. UNCHANGED <<session_, world>>
      BY <2>2 DEF retrieverEnds, lostConnectionJoined, metadataPacketReceived, audioPacketReceived,
           videoFormatPacketReceived, decodePictureParameters, videoPacketReceived, Decompressor,
           unpackVideoPacket, decodeFrameWithSampleBuffer, createDecompressionSessionIfNeeded,
           decodeFrame
    <3> QED BY <3>1 DEF session_, world
  <2> QED BY <2>1, <2>2 DEF Retriever
<1>2. CASE ~Decompressor
  <2>1. UNCHANGED <<fmt, decoder, samples, wasted, late>>
    BY <1>2, DecompressorStays DEF apple
  <2>2. ~Decoding
    <3>1. CASE \/ retrieverEnds \/ lostConnection \/ lostConnectionJoined \/ metadataPacketReceived
               \/ audioPacketReceived \/ videoFormatPacketReceived \/ decodePictureParameters
               \/ videoPacketReceived
      <4>1. at["retriever"] \in {"loop", "closed", "use", "pps"}
        BY <3>1 DEF retrieverEnds, lostConnection, lostConnectionJoined, metadataPacketReceived,
             audioPacketReceived, videoFormatPacketReceived, decodePictureParameters,
             videoPacketReceived, IsVideo, At
      <4> QED BY <4>1 DEF Decoding
    <3>2. CASE metadataArrives \/ audioArrives \/ videoArrives
      <4>1. at["retriever"] = "loop"
        BY <3>2, ArrivalMoves DEF At
      <4> QED BY <4>1 DEF Decoding
    <3> QED BY <1>2, <3>1, <3>2 DEF Retriever
  <2>3. ~Decoding'
    <3>1. CASE \/ retrieverEnds \/ lostConnection \/ lostConnectionJoined \/ metadataPacketReceived
               \/ audioPacketReceived \/ videoFormatPacketReceived \/ decodePictureParameters
               \/ videoPacketReceived
      <4>1. \/ Go("retriever", "off") \/ Go("retriever", "closed")
            \/ Go("retriever", "loop") \/ Go("retriever", "pps")
        BY <3>1 DEF retrieverEnds, lostConnection, lostConnectionJoined, metadataPacketReceived,
             configure, audioPacketReceived, videoFormatPacketReceived, decodePictureParameters,
             videoPacketReceived, Loop
      <4> QED BY <1>0, <4>1 DEF Decoding
    <3>2. CASE metadataArrives \/ audioArrives \/ videoArrives
      <4>1. Go("retriever", "use")
        BY <3>2, ArrivalMoves
      <4> QED BY <1>0, <4>1 DEF Decoding
    <3> QED BY <1>2, <3>1, <3>2 DEF Retriever
  <2>4. OneLost'
    BY <2>1, <2>2 DEF Kept, OneLost, Decoding, At
  <2>5. Gone'
    BY <1>1, <2>1 DEF Kept, Gone
  <2>6. SamplesOK'
    BY <1>1, <2>1, <2>2, <2>3 DEF Kept, SamplesOK
  <2> QED BY <2>4, <2>5, <2>6 DEF Kept
<1>3. CASE unpackVideoPacket
  <2>1. /\ UNCHANGED <<decoder, wasted, late>> /\ at["retriever"] = "use"
        /\ \/ samples' = samples + 1 /\ at'["retriever"] = "decode1"
           \/ UNCHANGED samples /\ at'["retriever"] = "loop"
    <3>1. /\ UNCHANGED <<decoder, wasted, late>> /\ at["retriever"] = "use"
          /\ \/ samples' = samples + 1 /\ Go("retriever", "decode1")
             \/ UNCHANGED samples /\ Go("retriever", "loop")
      BY <1>3 DEF unpackVideoPacket, IsVideo, Loop, At
    <3> QED BY <1>0, <3>1
  <2>2. ~Decoding /\ (at'["retriever"] = "decode1" => Decoding')
          /\ (at'["retriever"] = "loop" => ~Decoding')
    BY <2>1 DEF Decoding
  <2>3. SamplesOK'
    BY <1>1, <2>1, <2>2 DEF Kept, SamplesOK
  <2>4. OneLost'
    BY <2>1 DEF Kept, OneLost, At
  <2>5. Gone'
    BY <1>1, <2>1 DEF Kept, Gone
  <2> QED BY <2>3, <2>4, <2>5 DEF Kept
<1>4. CASE decodeFrameWithSampleBuffer
  <2>1. /\ UNCHANGED <<fmt, decoder, samples, wasted, late>> /\ at["retriever"] = "decode1"
        /\ IF appActive THEN Go("retriever", "decode2") ELSE Go("retriever", "loop")
    BY <1>4 DEF decodeFrameWithSampleBuffer, Loop, At, apple
  <2>2. Decoding /\ (appActive => Decoding')
    BY <1>0, <2>1 DEF Decoding
  <2>3. SamplesOK'
    BY <1>1, <2>1, <2>2 DEF Kept, SamplesOK
  <2>4. OneLost'
    BY <2>1 DEF Kept, OneLost, At
  <2>5. Gone'
    BY <1>1, <2>1 DEF Kept, Gone
  <2> QED BY <2>3, <2>4, <2>5 DEF Kept
<1>5. CASE createDecompressionSessionIfNeeded
  <2>1. /\ UNCHANGED <<fmt, wasted>> /\ at["retriever"] = "decode2"
        /\ \/ ~appActive /\ UNCHANGED <<decoder, late>>
           \/ /\ appActive /\ Go("retriever", "decode3") /\ UNCHANGED samples
              /\ \/ UNCHANGED <<decoder, late>>
                 \/ decoder' = fmt /\ late' = (late \/ stopped)
    BY <1>5 DEF createDecompressionSessionIfNeeded, At
  <2>2. Decoding /\ (appActive => at'["retriever"] = "decode3" /\ Decoding')
    BY <1>0, <2>1 DEF Decoding
  <2>3. SamplesOK'
    BY <1>1, <2>1, <2>2 DEF Kept, SamplesOK
  <2>4. OneLost'
    BY <2>1, <2>2 DEF Kept, OneLost, At
  <2>5. Gone'
    BY <1>1, <2>1 DEF Kept, Gone
  <2> QED BY <2>3, <2>4, <2>5 DEF Kept
<1>6. CASE decodeFrame
  <2>1. /\ UNCHANGED <<fmt, late>> /\ samples' = samples - 1 /\ at["retriever"] = "decode3"
        /\ Go("retriever", "loop")
        /\ \/ decoder \in {fmt, NoSet} /\ wasted' = 0 /\ UNCHANGED decoder
           \/ decoder' = NoSet /\ UNCHANGED wasted
           \/ decoder \notin {fmt, NoSet} /\ decoder' = NoSet /\ wasted' = wasted + 1
    BY <1>6 DEF decodeFrame, release, reset, Loop, At
  <2>2. Decoding /\ ~Decoding'
    BY <1>0, <2>1 DEF Decoding
  <2>3. SamplesOK'
    <3>1. ~inBackground => samples = 1
      BY <2>2 DEF Kept, SamplesOK
    <3>2. ~inBackground => samples' = 0
      BY <2>1, <3>1
    <3> QED BY <1>1, <2>2, <3>2 DEF Kept, SamplesOK
  <2>4. OneLost'
    <3>1. wasted \in Nat /\ wasted <= 1 /\ (wasted = 1 => decoder \in {fmt, NoSet})
      BY <1>0 DEF AppleOK, Kept, OneLost
    <3>2. (wasted' = 0) \/ (wasted' <= 1 /\ decoder' = NoSet)
      BY <2>1, <3>1
    <3> QED BY <3>2 DEF OneLost
  <2>5. Gone'
    BY <1>1, <2>1 DEF Kept, Gone
  <2> QED BY <2>3, <2>4, <2>5 DEF Kept
<1> QED BY <1>2, <1>3, <1>4, <1>5, <1>6 DEF Decompressor

LEMMA NextKeepsNothing ==
  ASSUME Types, Kept, [Next]_vars
  PROVE  Kept'
BY OthersKeepNothing, RetrieverKeepsNothing

\* A change of format costs the Apple decompressor one frame, an ended one has no session left,
\* and a sample that was made is released.
THEOREM NothingIsKept == Spec => []DecompressorKeepsNothing
<1>1. Init => Types /\ Kept
  BY InitIsTyped, InitKeepsNothing
<1>2. Types /\ Kept /\ [Next]_vars => (Types /\ Kept)'
  BY NextKeepsTypes, NextKeepsNothing
<1>3. Types /\ Kept => DecompressorKeepsNothing
  <2> SUFFICES ASSUME Types, Kept PROVE DecompressorKeepsNothing
    OBVIOUS
  <2>1. OneFrameLostPerChange
    BY DEF Kept, OneLost, OneFrameLostPerChange
  <2>2. EndedDecoderIsGone
    BY DEF Kept, Gone, EndedDecoderIsGone
  <2>3. SamplesAreReleased
    BY DEF Kept, SamplesOK, Decoding, SamplesAreReleased, At
  <2> QED BY <2>1, <2>2, <2>3 DEF DecompressorKeepsNothing
<1> QED BY <1>1, <1>2, <1>3, PTL DEF Spec

-----------------------------------------------------------------------------
(* What is shown of the stream.                                            *)

VideoInHand == At("retriever", "use") /\ packet.kind = "video"

\* the timebase is the position in the stream, but for what drifts
InStep == /\ (~drifted /\ ~fresh) => timebase = position
          /\ TimebaseInStep
\* the video message in hand is of the format of the stream
OfTheStream == (~missed /\ (VideoInHand \/ At("retriever", "pps"))) => packet.format = streamFormat
\* a decoder that has heard the parameters has those of the stream
Heard ==
  (~missed /\ ~unheard) =>
    IF device = "android"
    THEN codec.sps = streamFormat /\ (~At("retriever", "pps") => codec.pps = streamFormat)
    ELSE fmt = streamFormat
\* the picture that the decoder's thread has is waited for until its time
Shown == holding # NoTime => startWhen \in Nat /\ wakeAt >= startWhen + PresentationTime(holding)
Follows == InStep /\ OfTheStream /\ Heard /\ Shown

LEMMA InitFollows ==
  ASSUME Init
  PROVE  Follows
<1>1. fresh /\ unheard /\ holding = NoTime /\ at["retriever"] = "off"
  BY DEF Init, Threads
<1> QED BY <1>1 DEF Follows, InStep, TimebaseInStep, OfTheStream, VideoInHand, Heard, Shown, At

\* the fields of a message in hand
LEMMA PictureFields ==
  /\ \A f, d, t : Picture(f, d, t).time = t /\ Picture(f, d, t).format = f
       /\ Picture(f, d, t).kind = "video"
  /\ \A f, nl, t : /\ Parameters(f, nl, t).time = t /\ Parameters(f, nl, t).format = f
                     /\ Parameters(f, nl, t).kind = "video"
<1>1. ASSUME NEW f, NEW d, NEW t
      PROVE  Picture(f, d, t).time = t /\ Picture(f, d, t).format = f
             /\ Picture(f, d, t).kind = "video"
  <2> DEFINE payload == PicturePacket(TRUE, d)
  <2>1. Picture(f, d, t) = [kind |-> "video", payload |-> payload, format |-> f, time |-> t]
    BY DEF Picture
  <2> HIDE DEF payload
  <2> QED BY <2>1
<1>2. ASSUME NEW f, NEW nl, NEW t
      PROVE  /\ Parameters(f, nl, t).time = t /\ Parameters(f, nl, t).format = f
             /\ Parameters(f, nl, t).kind = "video"
  BY DEF Parameters
<1> QED BY <1>1, <1>2

\* what an end() has missed stays missed
LEMMA MissedStays ==
  ASSUME SessionOK, [Next]_vars, missed
  PROVE  missed'
<1>1. CASE endJoined
  BY <1>1 DEF endJoined
<1>2. CASE start \/ connectCloses \/ connectJoined \/ connect \/ markRunning \/ end \/ ended
  BY <1>2 DEF start, connectCloses, connectJoined, connect, markRunning, end, ended
<1>3. CASE Socket
  BY <1>3 DEF Socket, resolved, socketFails, testOpen, sessionStarted, startMediaPacketRetriever
<1>4. CASE lostConnection
  BY <1>4 DEF lostConnection
<1>5. CASE (Retriever /\ ~lostConnection) \/ VideoDecoderThread \/ System \/ UNCHANGED vars
  BY <1>5, SessionStays
<1> QED BY <1>1, <1>2, <1>3, <1>4, <1>5 DEF Next, App

\* an absolute time puts the timebase back in step, a difference keeps it there
LEMMA NextKeepsInStep ==
  ASSUME Types, InStep, [Next]_vars
  PROVE  InStep'
<1>0. ThreadsOK /\ StreamOK
  BY DEF Types
<1>1. CASE videoArrives
  <2>1. PICK m \in [type0 : BOOLEAN, extended : BOOLEAN, timestamp : Nat, delay : {0, 1}],
          f \in Formats :
           /\ fresh => m.type0
           /\ streamFormat' = f /\ fresh' = FALSE
           /\ position' = IF m.extended THEN position + 1
                          ELSE IF m.type0 THEN m.timestamp ELSE position + m.timestamp
           /\ timebase' = Timebase(timebase, m) + m.delay
           /\ drifted' = (m.extended \/ m.delay > 0 \/ (drifted /\ ~m.type0))
           /\ \/ packet' = Picture(f, m.delay, position') /\ f = streamFormat /\ unheard' = unheard
              \/ (\E nl \in {2, 4} : packet' = Parameters(f, nl, position')) /\ unheard' = TRUE
    BY <1>0, <1>1, VideoArrived
  <2>2. packet'.time = position'
    BY <2>1, PictureFields
  <2>3. ASSUME ~drifted'
        PROVE  timebase' = position'
    <3>1. /\ ~m.extended /\ m.delay = 0 /\ (m.type0 \/ ~drifted)
      <4>1. ~(m.delay > 0) /\ m.delay \in {0, 1}
        BY <2>1, <2>3
      <4>2. m.delay = 0
        BY <4>1
      <4>3. ~m.extended /\ (m.type0 \/ ~drifted)
        BY <2>1, <2>3
      <4> QED BY <4>2, <4>3
    <3>2. m.timestamp \in Nat /\ timebase \in Nat /\ position \in Nat
      BY <1>0 DEF StreamOK
    <3>3. CASE m.type0
      <4>1. timebase' = m.timestamp + 0 /\ position' = m.timestamp
        BY <2>1, <3>1, <3>3 DEF Timebase
      <4> QED BY <3>2, <4>1
    <3>4. CASE ~m.type0
      <4>1. timebase' = (timebase + m.timestamp) + 0 /\ position' = position + m.timestamp
        BY <2>1, <3>1, <3>4 DEF Timebase
      <4>2. timebase = position
        BY <2>1, <3>1, <3>4 DEF InStep
      <4> QED BY <3>2, <4>1, <4>2
    <3> QED BY <3>3, <3>4
  <2> QED BY <2>2, <2>3 DEF InStep, TimebaseInStep
<1>2. CASE metadataArrives \/ audioArrives
  <2>1. UNCHANGED <<fresh, position, timebase, drifted>> /\ packet'.kind \in {"metadata", "audio"}
    BY <1>2 DEF metadataArrives, audioArrives, Arrives, clock
  <2> QED BY <2>1 DEF InStep, TimebaseInStep
<1>3. CASE ~videoArrives /\ ~metadataArrives /\ ~audioArrives
  <2>1. UNCHANGED <<timebase, drifted>> /\ ((~drifted' /\ ~fresh') => UNCHANGED <<fresh, position>>)
    <3>1. CASE connect
      BY <3>1 DEF connect, clock
    <3>2. CASE ~connect
      BY <1>3, <3>2, StreamStays DEF stream, clock
    <3> QED BY <3>1, <3>2
  <2>2. at'["retriever"] = "use" => at["retriever"] = "use" /\ UNCHANGED packet
    <3>1. CASE Retriever
      BY <1>0, <1>3, <3>1, RetrieverMoves
    <3>2. CASE ~Retriever
      BY <1>0, <3>2, RetrieverStays, RetrieverIsStarted
    <3> QED BY <3>1, <3>2
  <2> QED BY <2>1, <2>2 DEF InStep, TimebaseInStep, At
<1> QED BY <1>1, <1>2, <1>3

\* with a video message in hand there is no new session, unless one was missed
LEMMA NoConnectionInHand ==
  ASSUME Bridge, connect, ~missed
  PROVE  at["retriever"] \in {"off", "loop"}
BY DEF Bridge, AwayIsClosed, AppIsAway, connect, At

LEMMA NextKeepsOfTheStream ==
  ASSUME Types, Bridge, OfTheStream, [Next]_vars
  PROVE  OfTheStream'
<1>0. ThreadsOK /\ StreamOK /\ SessionOK
  BY DEF Types
<1>a. SUFFICES ASSUME ~missed'
               PROVE  OfTheStream'
  BY DEF OfTheStream
<1>b. ~missed
  BY <1>0, <1>a, MissedStays
<1>1. CASE videoArrives
  <2>1. \E f \in Formats : streamFormat' = f
          /\ \/ \E d : packet' = Picture(f, d, position')
             \/ \E nl : packet' = Parameters(f, nl, position')
    BY <1>0, <1>1, VideoArrived
  <2>2. packet'.format = streamFormat'
    BY <2>1, PictureFields
  <2> QED BY <2>2 DEF OfTheStream
<1>2. CASE metadataArrives \/ audioArrives
  <2>1. packet'.kind \in {"metadata", "audio"} /\ Go("retriever", "use")
    BY <1>2 DEF metadataArrives, audioArrives, Arrives
  <2>2. at'["retriever"] = "use"
    BY <1>0, <2>1 DEF ThreadsOK, Threads, Go
  <2> QED BY <2>1, <2>2 DEF OfTheStream, VideoInHand, At
<1>3. CASE ~videoArrives /\ ~metadataArrives /\ ~audioArrives
  <2>1. UNCHANGED streamFormat \/ connect
    BY <1>3, StreamStays DEF stream
  <2>2. (at'["retriever"] \in {"use", "pps"}) =>
          /\ UNCHANGED packet
          /\ \/ at["retriever"] = at'["retriever"]
             \/ at["retriever"] = "use" /\ packet.kind = "video"
    <3>1. CASE Retriever
      <4>1. at'["retriever"] # "use"
        BY <1>0, <1>3, <3>1, RetrieverMoves
      <4>2. at'["retriever"] = "pps" => at["retriever"] = "use" /\ videoFormatPacketReceived
        BY <1>0, <3>1, RetrieverMoves
      <4>3. (videoFormatPacketReceived /\ at'["retriever"] = "pps")
              => packet.kind = "video" /\ UNCHANGED packet
        <5>1. \A s : Go("retriever", s) => at'["retriever"] = s
          BY <1>0 DEF ThreadsOK, Threads, Go
        <5>2. videoFormatPacketReceived
                => packet.kind = "video" /\ (Go("retriever", "loop") \/ UNCHANGED packet)
          BY DEF videoFormatPacketReceived, configure, Loop, IsVideo
        <5> QED BY <5>1, <5>2
      <4> QED BY <4>1, <4>2, <4>3
    <3>2. CASE ~Retriever
      BY <1>0, <3>2, RetrieverStays, RetrieverIsStarted
    <3> QED BY <3>1, <3>2
  <2>3. connect => at["retriever"] \in {"off", "loop"}
    BY <1>b, NoConnectionInHand
  <2> QED BY <1>b, <2>1, <2>2, <2>3 DEF OfTheStream, VideoInHand, At
<1> QED BY <1>1, <1>2, <1>3

\* what was heard of the parameters: on Android the two sets are given one after the other
LEMMA NextKeepsHeard ==
  ASSUME Types, Bridge, OfTheStream, Heard, [Next]_vars
  PROVE  Heard'
<1>0. ThreadsOK /\ StreamOK /\ SessionOK /\ JavaOK /\ PacketOK
  BY DEF Types
<1>a. SUFFICES ASSUME ~missed', ~unheard'
               PROVE  Heard'
  BY DEF Heard
<1>b. ~missed
  BY <1>0, <1>a, MissedStays
<1>c. \A s : Go("retriever", s) => at'["retriever"] = s
  BY <1>0 DEF ThreadsOK, Threads, Go
<1>1. CASE connect
  BY <1>1, <1>a DEF connect
<1>2. CASE videoArrives
  <2>1. UNCHANGED <<streamFormat, unheard>>
    BY <1>0, <1>2, <1>a, VideoArrived
  <2>2. UNCHANGED <<device, codec, fmt>> /\ at["retriever"] = "loop"
    BY <1>2 DEF videoArrives, Arrives, At, subject, java, apple
  <2> QED BY <1>a, <1>b, <2>1, <2>2 DEF Heard, At
<1>3. CASE videoFormatPacketReceived
  <2>1. /\ device = "android" /\ at["retriever"] = "use" /\ packet.kind = "video"
        /\ isValid(Descriptor)
        /\ UNCHANGED <<device, streamFormat>>
    BY <1>3 DEF videoFormatPacketReceived, IsVideo, At, subject, stream
  <2>2. Descriptor.sps = streamFormat /\ Descriptor.pps = streamFormat
    <3>1. packet.format = streamFormat
      BY <1>b, <2>1 DEF OfTheStream, VideoInHand, At
    <3> QED BY <1>0, <2>1, <3>1, DescriptorIsOfTheStream DEF At
  <2>3. \/ UNCHANGED <<codec, unheard>> /\ Go("retriever", "loop")
        \/ codec' = [codec EXCEPT !.sps = Descriptor.sps] /\ Go("retriever", "pps")
        \/ codec' = [sps |-> Descriptor.sps, pps |-> Descriptor.pps]
    BY <1>3, <1>a DEF videoFormatPacketReceived, configure, Loop
  <2>5. CASE UNCHANGED <<codec, unheard>> /\ Go("retriever", "loop")
    BY <1>a, <1>b, <2>1, <2>5 DEF Heard, At
  <2>6. CASE codec' = [codec EXCEPT !.sps = Descriptor.sps] /\ Go("retriever", "pps")
    <3> HIDE DEF Descriptor
    <3>1. codec'.sps = streamFormat /\ at'["retriever"] = "pps"
      BY <1>0, <1>c, <2>2, <2>6 DEF JavaOK
    <3> QED BY <2>1, <3>1 DEF Heard, At
  <2>7. CASE codec' = [sps |-> Descriptor.sps, pps |-> Descriptor.pps]
    BY <2>1, <2>2, <2>7 DEF Heard
  <2> QED BY <2>3, <2>5, <2>6, <2>7
<1>4. CASE decodePictureParameters
  <2>1. /\ At("retriever", "pps") /\ UNCHANGED <<device, streamFormat>> /\ device = "android"
        /\ AreParametersInHand({4})
    BY <1>0, <1>4 DEF decodePictureParameters, PacketOK, subject, stream
  <2>2. ~unheard /\ ~Full
    BY <1>4, <1>a DEF decodePictureParameters
  <2>3. Descriptor.pps = streamFormat
    <3>1. packet.format = streamFormat
      BY <1>b, <2>1 DEF OfTheStream
    <3> QED BY <2>1, <3>1, InHand
  <2>4. codec.sps = streamFormat
    BY <1>b, <2>1, <2>2 DEF Heard
  <2>5. codec' = [codec EXCEPT !.pps = Descriptor.pps]
    BY <1>4, <2>2 DEF decodePictureParameters
  <2>6. codec'.sps = streamFormat /\ codec'.pps = streamFormat
    <3> HIDE DEF Descriptor
    <3> QED BY <1>0, <2>3, <2>4, <2>5 DEF JavaOK
  <2> QED BY <2>1, <2>6 DEF Heard
<1>5. CASE unpackVideoPacket
  <2>1. /\ device = "apple" /\ at["retriever"] = "use" /\ packet.kind = "video"
        /\ UNCHANGED <<device, streamFormat>>
        /\ \/ isValid(Descriptor) /\ fmt' = Descriptor.sps
           \/ fmt' = fmt /\ ~unheard
    <3>1. unheard \in BOOLEAN
      BY <1>0 DEF StreamOK
    <3> QED BY <1>5, <1>a, <3>1 DEF unpackVideoPacket, IsVideo, At, subject, stream
  <2>2. CASE isValid(Descriptor) /\ fmt' = Descriptor.sps
    <3>1. packet.format = streamFormat
      BY <1>b, <2>1 DEF OfTheStream, VideoInHand, At
    <3>2. Descriptor.sps = packet.format
      BY <1>0, <2>1, <2>2, DescriptorIsOfTheStream DEF At
    <3> QED BY <2>1, <2>2, <3>1, <3>2 DEF Heard
  <2>3. CASE fmt' = fmt /\ ~unheard
    BY <1>b, <2>1, <2>3 DEF Heard
  <2> QED BY <2>1, <2>2, <2>3
<1>6. CASE ~connect /\ ~videoArrives /\ ~videoFormatPacketReceived /\ ~decodePictureParameters
        /\ ~unpackVideoPacket
  <2>1. UNCHANGED <<unheard, codec, fmt>>
    BY <1>6, HeardStays
  <2>2. UNCHANGED streamFormat
    <3>1. CASE metadataArrives \/ audioArrives
      BY <3>1 DEF metadataArrives, audioArrives
    <3>2. CASE ~metadataArrives /\ ~audioArrives
      BY <1>6, <3>2, StreamStays DEF stream
    <3> QED BY <3>1, <3>2
  <2>3. UNCHANGED device
    <3>1. CASE Retriever /\ ~lostConnection
      BY <3>1, SessionStays
    <3>2. CASE lostConnection
      BY <3>2 DEF lostConnection, subject
    <3>3. CASE ~Retriever
      BY <1>0, <3>3, RetrieverStays
    <3> QED BY <3>1, <3>2, <3>3
  <2>4. At("retriever", "pps") => At("retriever", "pps")'
    <3>1. CASE Retriever
      <4>1. at["retriever"] # "pps"
        <5>1. CASE metadataArrives \/ audioArrives
          BY <5>1 DEF metadataArrives, audioArrives, Arrives, At
        <5>2. CASE ~metadataArrives /\ ~audioArrives
          BY <1>6, <3>1, <5>2 DEF Retriever, Decompressor, retrieverEnds, lostConnection,
               lostConnectionJoined, metadataPacketReceived, audioPacketReceived,
               videoPacketReceived, IsVideo, At, decodeFrameWithSampleBuffer,
               createDecompressionSessionIfNeeded, decodeFrame
        <5> QED BY <5>1, <5>2
      <4> QED BY <4>1 DEF At
    <3>2. CASE ~Retriever
      BY <1>0, <3>2, RetrieverIsStarted DEF At
    <3> QED BY <3>1, <3>2
  <2> QED BY <1>a, <1>b, <2>1, <2>2, <2>3, <2>4 DEF Heard
<1> QED BY <1>1, <1>2, <1>3, <1>4, <1>5, <1>6

\* who changes what the decoder's thread has, and who gives it more
LEMMA ThreadStays ==
  ASSUME [Next]_vars, ~takePicture, ~releaseOutputBuffer
  PROVE  UNCHANGED <<holding, startWhen, wakeAt>>
         /\ (Len(pictures') = Len(pictures) \/ videoPacketReceived)
<1>1. CASE App \/ Socket
  <2>1. UNCHANGED <<java, thread>>
    BY <1>1 DEF App, start, connectCloses, connectJoined, connect, markRunning, end, endJoined,
         ended, Socket, resolved, socketFails, testOpen, sessionStarted, startMediaPacketRetriever
  <2> QED BY <2>1 DEF java, thread
<1>2. CASE videoFormatPacketReceived \/ decodePictureParameters
  <2>1. UNCHANGED <<pictures, thread>>
    BY <1>2 DEF videoFormatPacketReceived, decodePictureParameters
  <2> QED BY <2>1 DEF thread
<1>3. CASE Retriever /\ ~videoFormatPacketReceived /\ ~decodePictureParameters
  BY <1>3, CodecStays DEF thread
<1>4. CASE Tick
  BY <1>4 DEF Tick, java
<1>5. CASE applicationState \/ surfaceChanged \/ UNCHANGED vars
  <2>1. UNCHANGED <<java, thread>>
    BY <1>5 DEF applicationState, surfaceChanged, vars
  <2> QED BY <2>1 DEF java, thread
<1> QED BY <1>1, <1>2, <1>3, <1>4, <1>5 DEF Next, VideoDecoderThread, System

\* the sleep of the decoder's thread ends no earlier than the presentation time
LEMMA NextKeepsShown ==
  ASSUME Types, Shown, [Next]_vars
  PROVE  Shown'
<1>0. JavaOK
  BY DEF Types
<1>1. CASE takePicture
  <2> DEFINE time == Head(pictures)
             sleep == sleepTime(time, startWhen')
  <2>1. /\ holding' = time /\ startWhen' \in {startWhen, now}
             /\ (startWhen = NoTime => startWhen' = now)
        /\ wakeAt' = now + IF sleep > 0 THEN sleep ELSE 0
    BY <1>1 DEF takePicture
  <2>2. now \in Nat /\ startWhen' \in Nat
    BY <1>0, <2>1 DEF JavaOK, NoTime
  <2>3. time \in Nat
    BY <1>0, <1>1, HeadTailProperties DEF takePicture, JavaOK
  <2>4. PresentationTime(time) \in Nat
    BY <2>3, Bounds DEF PresentationTime
  <2>5. sleep = PresentationTime(time) - (now - startWhen')
    BY DEF sleepTime
  <2>6. wakeAt' >= startWhen' + PresentationTime(time)
    <3> HIDE DEF sleep
    <3> QED BY <2>1, <2>2, <2>4, <2>5
  <2>7. PresentationTime(holding)' = PresentationTime(time)
    BY <2>1 DEF PresentationTime
  <2> QED BY <2>2, <2>6, <2>7 DEF Shown
<1>2. CASE releaseOutputBuffer
  BY <1>2 DEF releaseOutputBuffer, Shown
<1>3. CASE ~takePicture /\ ~releaseOutputBuffer
  <2>1. UNCHANGED <<holding, startWhen, wakeAt>>
    BY <1>3, ThreadStays
  <2> QED BY <2>1 DEF Shown, PresentationTime
<1> QED BY <1>1, <1>2, <1>3

LEMMA NextFollows ==
  ASSUME Types, Bridge, Follows, [Next]_vars
  PROVE  Follows'
BY NextKeepsInStep, NextKeepsOfTheStream, NextKeepsHeard, NextKeepsShown DEF Follows

\* what PicturesMatchParameters says of a step
LEMMA PictureHasItsParameters ==
  ASSUME Types, Follows, [Next]_vars, ~unheard, ~missed
  PROVE  /\ (Len(pictures') > Len(pictures) /\ Rest = "picture")
              => codec = [sps |-> packet.format, pps |-> packet.format]
         /\ (samples' > samples /\ Rest = "picture") => fmt = packet.format
<1>0. ThreadsOK /\ StreamOK /\ JavaOK /\ AppleOK
  BY DEF Types
<1>1. ASSUME Len(pictures') > Len(pictures)
      PROVE  codec = [sps |-> packet.format, pps |-> packet.format]
  <2>1. Len(pictures) \in Nat
    BY <1>0, LenProperties DEF JavaOK
  <2>2. ~takePicture
    <3> SUFFICES ASSUME takePicture PROVE FALSE
      OBVIOUS
    <3>1. pictures \in Seq(Nat) /\ pictures # << >> /\ pictures' = Tail(pictures)
      BY <1>0 DEF takePicture, JavaOK
    <3>2. Len(pictures') = Len(pictures) - 1
      BY <3>1, HeadTailProperties
    <3> QED BY <1>1, <2>1, <3>2
  <2>3. ~releaseOutputBuffer
    BY <1>1, <2>1 DEF releaseOutputBuffer, java
  <2>4. videoPacketReceived
    BY <1>1, <2>1, <2>2, <2>3, ThreadStays
  <2>5. device = "android" /\ VideoInHand
    BY <2>4 DEF videoPacketReceived, IsVideo, VideoInHand
  <2>6. packet.format = streamFormat /\ codec.sps = streamFormat /\ codec.pps = streamFormat
    BY <2>5 DEF Follows, OfTheStream, Heard, VideoInHand, At
  <2> QED BY <1>0, <2>6 DEF JavaOK
<1>2. ASSUME samples' > samples
      PROVE  fmt = packet.format
  <2>1. samples \in Nat
    BY <1>0 DEF AppleOK
  <2>2. unpackVideoPacket
    <3>1. Retriever
      BY <1>0, <1>2, <2>1, RetrieverStays
    <3>2. Decompressor
      BY <1>2, <2>1, <3>1, DecompressorStays DEF apple
    <3>3. ~decodeFrameWithSampleBuffer
      BY <1>2, <2>1 DEF decodeFrameWithSampleBuffer, apple
    <3>4. ~createDecompressionSessionIfNeeded
      BY <1>2, <2>1 DEF createDecompressionSessionIfNeeded, release
    <3>5. ~decodeFrame
      BY <1>2, <2>1 DEF decodeFrame, release
    <3> QED BY <3>2, <3>3, <3>4, <3>5 DEF Decompressor
  <2>3. device = "apple" /\ VideoInHand
    BY <2>2 DEF unpackVideoPacket, IsVideo, VideoInHand
  <2> QED BY <2>3 DEF Follows, OfTheStream, Heard
<1> QED BY <1>1, <1>2

\* what NotBeforeItsTime says of a step: a product in 32 bits that does not wrap is the product
LEMMA TimeIsKept ==
  ASSUME Types, Shown, [Next]_vars, holding # NoTime, holding' = NoTime
  PROVE  now >= startWhen + holding \/ holding * UsPerMs >= Wrap
<1>0. JavaOK
  BY DEF Types
<1>1. releaseOutputBuffer
  BY ThreadStays DEF takePicture
<1>2. now >= wakeAt /\ startWhen \in Nat /\ wakeAt >= startWhen + PresentationTime(holding)
  BY <1>1 DEF releaseOutputBuffer, Shown
<1>3. holding \in Nat /\ now \in Nat /\ wakeAt \in Nat
  BY <1>0 DEF JavaOK
<1> DEFINE us == holding * UsPerMs
<1>4. us \in Nat /\ us >= holding
  <2>1. UsPerMs - 1 \in Nat
    BY Bounds
  <2>2. holding * (UsPerMs - 1) \in Nat
    BY <1>3, <2>1
  <2>3. us = holding * (UsPerMs - 1) + holding
    BY <1>3, Bounds
  <2> QED BY <1>3, <2>2, <2>3
<1>5. PresentationTime(holding) = us % Wrap
  BY DEF PresentationTime
<1> HIDE DEF us
<1>6. CASE us < Wrap
  <2>1. us % Wrap = us
    BY <1>4, <1>6, Bounds
  <2> QED BY <1>2, <1>3, <1>4, <1>5, <2>1
<1>7. CASE us >= Wrap
  BY <1>7 DEF us
<1> QED BY <1>4, <1>6, <1>7, Bounds

\* What the steps of the two decoders rest on holds.
THEOREM StreamIsFollowed == Spec => [](Types /\ Bridge /\ Follows)
<1>1. Init => Types /\ Bridge /\ Follows
  BY InitIsTyped, InitIsBridged, InitFollows
<1>2. Types /\ Bridge /\ Follows /\ [Next]_vars => (Types /\ Bridge /\ Follows)'
  BY NextKeepsTypes, NextKeepsBridge, NextFollows
<1> QED BY <1>1, <1>2, PTL DEF Spec

\* No picture is given to a decoder with parameters other than those the stream announced
\* last, and none is shown before its time as long as the time takes 32 bits.
THEOREM PicturesFollow == Spec => PicturesFollowTheStream
<1> DEFINE Matches == (~unheard /\ ~missed) =>
             /\ (Len(pictures') > Len(pictures) /\ Rest = "picture")
                  => codec = [sps |-> packet.format, pps |-> packet.format]
             /\ (samples' > samples /\ Rest = "picture") => fmt = packet.format
           Waits == (holding # NoTime /\ holding' = NoTime)
             => now >= startWhen + holding \/ holding * UsPerMs >= Wrap
<1>1. Types /\ Bridge /\ Follows /\ [Next]_vars => [Matches]_vars
  BY PictureHasItsParameters
<1>2. Types /\ Bridge /\ Follows /\ [Next]_vars => [Waits]_vars
  BY TimeIsKept DEF Follows
<1>3. Spec => [][Matches]_vars
  BY <1>1, StreamIsFollowed, PTL DEF Spec
<1>4. Spec => [][Waits]_vars
  BY <1>2, StreamIsFollowed, PTL DEF Spec
<1> QED BY <1>3, <1>4 DEF PicturesFollowTheStream, PicturesMatchParameters, NotBeforeItsTime

\* videoTimebase_ is the time of the video message in hand, from one absolute time to the
\* next delay or extended timestamp.
THEOREM TimebaseIsInStep == Spec => []TimebaseInStep
<1>1. Follows => TimebaseInStep
  BY DEF Follows, InStep
<1> QED BY <1>1, StreamIsFollowed, PTL

-----------------------------------------------------------------------------
(* The format of the audio.                                                *)

\* the rates of the table that are asked for, and the place that is taken for a rate
LEMMA RatesAreFound ==
  /\ indexForSampleRate(48000) = 3
  /\ indexForSampleRate(3) = -1
<1> DEFINE r == audioSampleRates
<1>1. DOMAIN r = 1 .. 16
  BY DEF audioSampleRates
<1>2. /\ r[1] = 96000 /\ r[2] = 88200 /\ r[3] = 64000 /\ r[4] = 48000 /\ r[5] = 44100
      /\ r[6] = 32000 /\ r[7] = 24000 /\ r[8] = 22050 /\ r[9] = 16000 /\ r[10] = 12000
      /\ r[11] = 11025 /\ r[12] = 8000
      /\ r[13] = 7350 /\ r[14] = -1 /\ r[15] = -1 /\ r[16] = -1
  BY DEF audioSampleRates
<1>3. \A i \in 1 .. 16 : \/ i = 1 \/ i = 2 \/ i = 3 \/ i = 4 \/ i = 5 \/ i = 6 \/ i = 7 \/ i = 8
                         \/ i = 9 \/ i = 10 \/ i = 11 \/ i = 12 \/ i = 13 \/ i = 14 \/ i = 15 \/ i = 16
  OBVIOUS
<1> HIDE DEF r
<1>4. \A i \in DOMAIN r : r[i] # 3 /\ (r[i] = 48000 => i = 4)
  BY <1>1, <1>2, <1>3
<1>5. 4 \in DOMAIN r /\ r[4] = 48000
  BY <1>1, <1>2
<1>6. (CHOOSE i \in DOMAIN r : r[i] = 48000 /\ \A j \in DOMAIN r : r[j] = 48000 => i <= j) = 4
  <2> DEFINE First(i) == r[i] = 48000 /\ \A j \in DOMAIN r : r[j] = 48000 => i <= j
  <2>1. First(4) /\ 4 \in DOMAIN r
    BY <1>4, <1>5
  <2>2. \A i \in DOMAIN r : First(i) => i = 4
    BY <1>4
  <2> HIDE DEF First
  <2>3. (CHOOSE i \in DOMAIN r : First(i)) = 4
    BY <2>1, <2>2
  <2> QED BY <2>3 DEF First
<1>7. indexForSampleRate(48000) = 4 - 1
  BY <1>5, <1>6 DEF indexForSampleRate, r
<1>8. indexForSampleRate(3) = -1
  BY <1>4 DEF indexForSampleRate, r
<1> QED BY <1>7, <1>8

\* the format that is packed for the microphone is the one the renderer is given
LEMMA AudioIsUnpacked ==
  unpackAudioParams(buildParametersAudioPacket)
    = [channelCount |-> 1, frameLength |-> 1024, sampleRate |-> kSampleRate]
<1> DEFINE p == buildParametersAudioPacket
<1>1. srIndex(kSampleRate) = 3
  BY RatesAreFound DEF srIndex, kSampleRate
<1>2. 2 * 8 + 3 \div 2 = 17 /\ ((3 * 128) % 256) + 1 * 8 + 0 = 136
  OBVIOUS
<1>3. p.v0 = 175 /\ p.v1 = 0 /\ p.v2 = 17 /\ p.v3 = 136 /\ p.size = 4
  BY <1>1, <1>2 DEF buildParametersAudioPacket
<1> HIDE DEF p
<1>4. (136 \div 8) % 16 = 1 /\ (136 \div 4) % 2 = 0 /\ (17 * 2 + 136 \div 128) % 16 = 3
  OBVIOUS
<1>5. unpackAudioData(p)
        = [descriptor |-> [channelCount |-> 1, frameLength |-> 1024, sampleRate |-> -1],
           rest |-> "nothing"]
  BY <1>3, <1>4, RatesAreFound DEF unpackAudioData
<1>6. unpackAudioData(p).descriptor = [channelCount |-> 1, frameLength |-> 1024, sampleRate |-> -1]
  BY <1>5
<1>7. unpackAudioParams(p) = [channelCount |-> 1, frameLength |-> 1024, sampleRate |-> kSampleRate]
  BY <1>6 DEF unpackAudioParams
<1> QED BY <1>7 DEF p

\* the audio message in hand is that of the microphone's format
AudioInHand ==
  (At("retriever", "use") /\ packet.kind = "audio") => packet.payload = buildParametersAudioPacket
Listens == AudioInHand /\ AudioFormatArrives

\* only an audio packet changes the format of the renderer
LEMMA AudioStays ==
  ASSUME [Next]_vars, ~audioPacketReceived
  PROVE  UNCHANGED audioFormat
<1>1. CASE App
  BY <1>1 DEF App, start, connectCloses, connectJoined, connect, markRunning, end, endJoined, ended,
       heard
<1>2. CASE Socket
  BY <1>2 DEF Socket, resolved, socketFails, testOpen, sessionStarted, startMediaPacketRetriever,
       heard
<1>3. CASE metadataArrives \/ audioArrives \/ videoArrives
  BY <1>3, ArrivalMoves
<1>4. CASE \/ retrieverEnds \/ lostConnection \/ lostConnectionJoined \/ metadataPacketReceived
           \/ videoFormatPacketReceived \/ decodePictureParameters \/ videoPacketReceived
           \/ Decompressor
  BY <1>4 DEF retrieverEnds, lostConnection, lostConnectionJoined, metadataPacketReceived,
       videoFormatPacketReceived, decodePictureParameters, videoPacketReceived, Decompressor,
       unpackVideoPacket, decodeFrameWithSampleBuffer, createDecompressionSessionIfNeeded,
       decodeFrame, heard
<1>5. CASE VideoDecoderThread \/ System \/ UNCHANGED vars
  BY <1>5, OthersStay DEF heard
<1> QED BY <1>1, <1>2, <1>3, <1>4, <1>5 DEF Next, Retriever

LEMMA NextListens ==
  ASSUME ThreadsOK, StreamOK, Listens, [Next]_vars
  PROVE  Listens'
<1>1. AudioInHand'
  <2>1. CASE audioArrives
    <3>1. packet' = [kind |-> "audio", payload |-> buildParametersAudioPacket]
      BY <2>1 DEF audioArrives, Arrives
    <3>2. packet'.payload = buildParametersAudioPacket
      BY <3>1
    <3> QED BY <3>2 DEF AudioInHand
  <2>2. CASE metadataArrives
    <3>1. packet'.kind = "metadata"
      BY <2>2 DEF metadataArrives, Arrives
    <3> QED BY <3>1 DEF AudioInHand
  <2>3. CASE videoArrives
    <3>1. \E f, d, t : packet' = Picture(f, d, t) \/ packet' = Parameters(f, d, t)
      BY <2>3, VideoArrived
    <3>2. packet'.kind = "video"
      BY <3>1, PictureFields
    <3> QED BY <3>2 DEF AudioInHand
  <2>4. CASE ~audioArrives /\ ~metadataArrives /\ ~videoArrives
    <3>1. at'["retriever"] = "use" => at["retriever"] = "use" /\ UNCHANGED packet
      <4>1. CASE Retriever
        BY <2>4, <4>1, RetrieverMoves
      <4>2. CASE ~Retriever
        BY <4>2, RetrieverStays, RetrieverIsStarted
      <4> QED BY <4>1, <4>2
    <3> QED BY <3>1 DEF Listens, AudioInHand, At
  <2> QED BY <2>1, <2>2, <2>3, <2>4
<1>2. AudioFormatArrives'
  <2>1. CASE audioPacketReceived
    <3>1. packet.payload = buildParametersAudioPacket
      BY <2>1 DEF audioPacketReceived, Listens, AudioInHand
    <3>2. audioFormat' \in {unpackAudioParams(packet.payload), audioFormat}
      BY <2>1 DEF audioPacketReceived
    <3> QED BY <3>1, <3>2, AudioIsUnpacked DEF Listens, AudioFormatArrives
  <2>2. CASE ~audioPacketReceived
    BY <2>2, AudioStays DEF Listens, AudioFormatArrives
  <2> QED BY <2>1, <2>2
<1> QED BY <1>1, <1>2 DEF Listens

\* The renderer is given the format of the microphone, whose rate goes through the table of
\* rates twice.
THEOREM AudioFormatIsHeard == Spec => []AudioFormatArrives
<1>1. Init => Types /\ Listens
  <2>1. Init => Listens
    BY DEF Init, Listens, AudioInHand, AudioFormatArrives, At, Threads
  <2> QED BY <2>1, InitIsTyped
<1>2. Types /\ Listens /\ [Next]_vars => (Types /\ Listens)'
  BY NextKeepsTypes, NextListens DEF Types
<1>3. Listens => AudioFormatArrives
  BY DEF Listens
<1> QED BY <1>1, <1>2, <1>3, PTL DEF Spec
=================================================================================
