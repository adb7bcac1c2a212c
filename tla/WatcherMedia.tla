---------------------------- MODULE WatcherMedia ----------------------------
(***************************************************************************)
(* What a watcher does with a stream, on either device: KBUtility and      *)
(* KBVideoDecompressorSession under KBRtmpWatcherSessionView, and the JNI  *)
(* bridge under RtmpWatcherView with its VideoDecoderThread.               *)
(*                                                                         *)
(* The application starts and ends the view on its thread, the socket's    *)
(* thread and the retriever notify the delegate, and the decoder has a     *)
(* thread of its own.  The session is what SessionLifecycle promises; the  *)
(* stream is what a server sends of this library's broadcaster ("own") or  *)
(* of another ("foreign").                                                 *)
(***************************************************************************)
EXTENDS MediaPackets, Sequences

CONSTANTS Devices,      \* a subset of {"apple", "android"}, a behaviour is about one
          Formats,      \* what a parameter set describes
          Broadcasters, \* of what make a broadcaster is, "own" or "foreign", and its settings
          InputBuffers, \* that the codec of the Android decoder has
          UsPerMs,      \* microseconds of a millisecond, scaled down
          Wrap,         \* 2^32 microseconds, scaled down
          MaxTime,      \* bound on timestamps and on the clock, in milliseconds
          MaxPackets,   \* bound on the packets sent
          MaxSessions,  \* bound on the sessions
          MaxCalls      \* bound on what the application and the system do meanwhile

ASSUME SetAssumption ==
  /\ Devices \subseteq {"apple", "android"} /\ NoSet \notin Formats
  /\ \A b \in Broadcasters : /\ b.source \in {"own", "foreign"}
                            /\ b = [source |-> b.source, settings |-> b.settings]
ASSUME BoundsAssumption == {InputBuffers, UsPerMs, Wrap} \subseteq Nat \ {0}
                           /\ {MaxTime, MaxPackets, MaxSessions, MaxCalls} \subseteq Nat

VARIABLES
  device, source, published,
  session,       \* "off", "resolving", "open", "live" or "closed"
  stopped,       \* stopped_ of RtmpWatcherSession
  isRunning, isActive,
  env,           \* the thread whose env_ the collector holds
  at,            \* where each thread is
  packet,        \* what the retriever has in hand
  streamFormat,  \* what the pictures of the stream are
  sent,          \* packets so far
  fresh,         \* no video message of the session yet
  position,      \* the time of the last video packet, as the broadcaster meant it
  timebase,      \* videoTimebase_
  settings,      \* rtmpSettings, Unset before the first metadata
  audioFormat,   \* of the Apple renderer, NoAudio before the first parameters
  fmt,           \* formatDescription_ of the Apple collector, NoSet for none
  decoder,       \* sessionRef of the decompressor: its format, NoSet for none
  appActive,     \* the application is in the foreground
  samples,       \* sample buffers not released
  surface,       \* the one of the Android view can be drawn on
  codec,         \* the parameter sets the Android codec has, NoCodec before it is configured
  pictures,      \* the times of those in the codec
  holding,       \* the time of the picture the decoder's thread has, NoTime for none
  startWhen, wakeAt, now,
  calls, sessions,
  raced,         \* history: isActive was set by a session that was closed
  missed,        \* history: end() found a session that was not open yet
  late,          \* history: frames came after the decompressor was ended
  unheard,       \* history: the decoder may not have the parameters of the stream
  drifted,       \* history: the timebase may not be the position
  inBackground,  \* history: the application has not always been in the foreground
  wasted         \* history: frames lost in a row for their format

subject == <<device, source, published>>
session_ == <<session, stopped, sessions>>
native  == <<isRunning, isActive, env, raced>>
stream  == <<streamFormat, sent, fresh, position>>
clock   == <<timebase, drifted>>
apple   == <<fmt, decoder, samples, wasted, late>>
java    == <<codec, pictures>>
thread  == <<holding, startWhen, wakeAt, now>>
world   == <<appActive, surface, inBackground, calls>>
heard   == <<settings, audioFormat, unheard>>
vars == <<subject, session_, native, at, packet, stream, clock, apple, java, thread, world, heard, missed>>

Metadata_ == INSTANCE Metadata

Threads == {"app", "socket", "retriever"}
Unset   == [width |-> 0, height |-> 0, frameRate |-> 0, audioChannels |-> 0]
NoCodec == [sps |-> NoSet, pps |-> NoSet]
NoTime  == -1
NoPacket  == [kind |-> "none"]

Call == calls < MaxCalls /\ calls' = calls + 1
At(t, s) == at[t] = s
Go(t, s) == at' = [at EXCEPT ![t] = s]
IsOpen == session \in {"open", "live"}
isConnected == isRunning /\ isActive

-----------------------------------------------------------------------------
(* The collector of the JNI bridge.                                        *)

\* Mutant of updateEnv: the one of the first thread that called is kept.
updateEnvOnce(t) == env' = IF env = "none" THEN t ELSE env

\* what is held is given up, and the caller's taken
updateEnv(t) == env' = t

\* isActive is set, env_ becomes the caller's; the listener is called through it after that
setActive(t, value) ==
  IF device = "android"
  THEN isActive' = value /\ updateEnv(t) /\ raced' = (value /\ session = "closed")
  ELSE UNCHANGED <<isActive, env, raced>>

-----------------------------------------------------------------------------
(* The application's thread.                                               *)

\* start: nothing while the view is running, be its session closed or not
start ==
  /\ At("app", "idle") /\ ~isRunning /\ sessions < MaxSessions
  /\ isRunning' = (device = "apple")
  /\ Go("app", "connect")
  /\ UNCHANGED <<subject, session_, isActive, env, raced, packet, stream, clock, apple, java, thread,
                 world, heard, missed>>

\* connect() closes what is open first, and the delegate hears of it on this thread
connectCloses ==
  /\ At("app", "connect") /\ IsOpen
  /\ session' = "closed"
  /\ setActive("app", FALSE)
  /\ Go("app", "connectClosed")
  /\ UNCHANGED <<subject, stopped, sessions, isRunning, packet, stream, clock, apple, java, thread,
                 world, heard, missed>>

\* ... and joins the thread of the socket
connectJoined ==
  /\ At("app", "connectClosed") /\ At("socket", "idle")
  /\ Go("app", "connect")
  /\ UNCHANGED <<subject, session_, native, packet, stream, clock, apple, java, thread, world, heard, missed>>

connect ==
  /\ At("app", "connect") /\ ~IsOpen /\ At("socket", "idle")
  /\ session' = "resolving" /\ sessions' = sessions + 1
  /\ at' = [at EXCEPT !["app"] = "markRunning", !["socket"] = "work"]
  /\ \E f \in Formats : streamFormat' = f
  /\ fresh' = TRUE /\ position' = 0
  /\ UNCHANGED sent
  /\ unheard' = TRUE
  /\ UNCHANGED <<subject, stopped, native, packet, clock, apple, java, thread, world, settings,
                 audioFormat, missed>>

markRunning ==
  /\ At("app", "markRunning")
  /\ isRunning' = TRUE
  /\ Go("app", "idle")
  /\ UNCHANGED <<subject, session_, isActive, env, raced, packet, stream, clock, apple, java, thread,
                 world, heard, missed>>

\* Mutant of end: the decompressor is left for the next session.
endKeepsTheDecoder ==
  /\ At("app", "idle") /\ isRunning
  /\ stopped' = TRUE
  /\ isRunning' = (device = "android")
  /\ late' = FALSE
  /\ Go("app", "end")
  /\ UNCHANGED <<subject, session, sessions, isActive, env, raced, packet, stream, clock, fmt, decoder,
                 samples, wasted, java, thread, world, heard, missed>>

\* end: the Apple view ends its decompressor before the session, whose retriever goes on
end ==
  /\ At("app", "idle") /\ isRunning
  /\ stopped' = TRUE
  /\ isRunning' = (device = "android")
  /\ decoder' = NoSet /\ late' = FALSE
  /\ Go("app", "end")
  /\ UNCHANGED <<subject, session, sessions, isActive, env, raced, packet, stream, clock, fmt, samples,
                 wasted, java, thread, world, heard, missed>>

\* the retriever is joined, and the socket closed if it is open
endJoined ==
  /\ At("app", "end") /\ At("retriever", "off")
  /\ IF IsOpen
     THEN session' = "closed" /\ setActive("app", FALSE) /\ Go("app", "endClosed") /\ UNCHANGED missed
     ELSE /\ missed' = (missed \/ session = "resolving")
          /\ Go("app", "ended")
          /\ UNCHANGED <<session, isActive, env, raced>>
  /\ UNCHANGED <<subject, stopped, sessions, isRunning, packet, stream, clock, apple, java, thread, world, heard>>

ended ==
  /\ At("app", "ended") \/ (At("app", "endClosed") /\ At("socket", "idle"))
  /\ isRunning' = FALSE
  /\ Go("app", "idle")
  /\ UNCHANGED <<subject, session_, isActive, env, raced, packet, stream, clock, apple, java, thread,
                 world, heard, missed>>

App == \/ start \/ connectCloses \/ connectJoined \/ connect \/ markRunning
       \/ end \/ endJoined \/ ended

-----------------------------------------------------------------------------
(* The thread of the socket.                                               *)

resolved ==
  /\ At("socket", "work") /\ session = "resolving"
  /\ session' = "open"
  /\ UNCHANGED <<subject, stopped, sessions, native, at, packet, stream, clock, apple, java, thread, world,
                 heard, missed>>

\* the connection fails, or the chain of commands does
socketFails ==
  /\ At("socket", "work") /\ session \in {"resolving", "open"}
  /\ session' = "closed"
  /\ setActive("socket", FALSE)
  /\ Go("socket", "idle")
  /\ UNCHANGED <<subject, stopped, sessions, isRunning, packet, stream, clock, apple, java, thread, world,
                 heard, missed>>

\* the chain ends at its next test of isOpen(), the last of which sessionReady makes
testOpen ==
  /\ At("socket", "work") /\ session \in {"open", "closed"}
  /\ Go("socket", IF session = "open" THEN "ready" ELSE "idle")
  /\ UNCHANGED <<subject, session_, native, packet, stream, clock, apple, java, thread, world, heard, missed>>

sessionStarted ==
  /\ At("socket", "ready")
  /\ session' = IF session = "open" THEN "live" ELSE session
  /\ setActive("socket", TRUE)
  /\ Go("socket", "started")
  /\ UNCHANGED <<subject, stopped, sessions, isRunning, packet, stream, clock, apple, java, thread, world,
                 heard, missed>>

\* to start one over another that has not been joined ends the program, and this behaviour
startMediaPacketRetriever ==
  /\ At("socket", "started")
  /\ stopped => At("retriever", "off")
  /\ stopped' = FALSE
  /\ at' = [at EXCEPT !["socket"] = "idle", !["retriever"] = IF stopped THEN "loop" ELSE @]
  /\ UNCHANGED <<subject, session, sessions, native, packet, stream, clock, apple, java, thread, world,
                 heard, missed>>

Socket == resolved \/ socketFails \/ testOpen \/ sessionStarted \/ startMediaPacketRetriever

-----------------------------------------------------------------------------
(* The retriever, and what a server sends (external).                      *)

retrieverEnds ==
  /\ At("retriever", "loop") /\ stopped
  /\ Go("retriever", "off")
  /\ UNCHANGED <<subject, session_, native, packet, stream, clock, apple, java, thread, world, heard, missed>>

\* Mutant of lostConnection: the collector does not hear of the close.
lostConnectionUnheard ==
  /\ At("retriever", "loop") /\ session = "live"
  /\ session' = "closed"
  /\ Go("retriever", "closed")
  /\ UNCHANGED <<subject, stopped, sessions, native, packet, stream, clock, apple, java, thread, world,
                 heard, missed>>

lostConnection ==
  /\ At("retriever", "loop") /\ session = "live"
  /\ session' = "closed"
  /\ setActive("retriever", FALSE)
  /\ Go("retriever", "closed")
  /\ UNCHANGED <<subject, stopped, sessions, isRunning, packet, stream, clock, apple, java, thread, world,
                 heard, missed>>

lostConnectionJoined ==
  /\ At("retriever", "closed") /\ At("socket", "idle")
  /\ Go("retriever", "loop")
  /\ UNCHANGED <<subject, session_, native, packet, stream, clock, apple, java, thread, world, heard, missed>>

\* a message has arrived, and the delegate is called with it
Arrives(p) ==
  /\ At("retriever", "loop") /\ session = "live" /\ sent < MaxPackets
  /\ sent' = sent + 1
  /\ packet' = p
  /\ IF device = "android" THEN updateEnv("retriever") ELSE UNCHANGED env
  /\ Go("retriever", "use")
  /\ UNCHANGED <<subject, session_, isRunning, isActive, raced, apple, java, thread, world, settings,
                 audioFormat, missed>>

metadataArrives ==
  \E dated \in BOOLEAN :
    /\ dated => source = "foreign"
    /\ Arrives([kind |-> "metadata", dated |-> dated])
    /\ UNCHANGED <<streamFormat, fresh, position, clock, unheard>>

\* of audio only the parameters matter here: Playback has what becomes of the data
audioArrives ==
  /\ Arrives([kind |-> "audio", payload |-> buildParametersAudioPacket])
  /\ UNCHANGED <<streamFormat, fresh, position, clock, unheard>>

\* the time of the next video message: its own after a break in the stream, a difference
\* otherwise; another's that uses B-frames gives a delay, and one that has been on
\* for hours an extended timestamp (one of them before the next absolute time)
Times == {m \in [type0 : BOOLEAN, extended : BOOLEAN, timestamp : 0 .. MaxTime, delay : 0 .. 1] :
            /\ fresh => m.type0
            /\ m.extended => m.type0 /\ m.timestamp = 0 /\ m.delay = 0
            /\ m.delay > 0 \/ m.extended => source = "foreign" /\ ~drifted
            /\ (IF m.type0 THEN 0 ELSE position) + m.timestamp <= MaxTime}

\* new parameters, which may be those of another format, or the next picture
videoArrives ==
  \E m \in Times, f \in Formats, isPicture \in BOOLEAN, nl \in {2, 4} :
    LET payload == IF isPicture THEN PicturePacket(TRUE, m.delay)
                   ELSE buildParametersVideoPacketWithSPS(f, f, nl) IN
    /\ isPicture => f = streamFormat /\ nl = 4
    /\ nl = 2 => source = "foreign"
    /\ ~isPicture => m = [type0 |-> fresh, extended |-> FALSE, timestamp |-> 0, delay |-> 0]
    /\ streamFormat' = f /\ fresh' = FALSE
    /\ position' = IF m.extended THEN position + 1
                   ELSE IF m.type0 THEN m.timestamp ELSE position + m.timestamp
    /\ position' <= MaxTime
    /\ Arrives([kind |-> "video", payload |-> payload, format |-> f, time |-> position'])
    /\ timebase' = Timebase(timebase, m) + unpackVideoData(payload).delay
    /\ drifted' = (m.extended \/ m.delay > 0 \/ (drifted /\ ~m.type0))
    /\ unheard' = (unheard \/ ~isPicture)

Loop == Go("retriever", "loop") /\ packet' = NoPacket

\* onMetaData as it arrives: the broadcaster's own through the server, or another's
onMetaDataPayload(dated) ==
  IF source = "own"
  THEN Metadata_!Relayed(Metadata_!Message(Metadata_!sendOnMetaDataMessage(published)))
  ELSE Metadata_!ForeignMessage(published, dated)

metadataPacketReceived ==
  /\ At("retriever", "use") /\ packet.kind = "metadata"
  /\ settings' = Metadata_!metadataPacketReceived(device,
                   Metadata_!deserializeTag(onMetaDataPayload(packet.dated)))
  /\ Loop
  /\ UNCHANGED <<subject, session_, native, stream, clock, apple, java, thread, world, audioFormat,
                 unheard, missed>>

\* the Android view has no use for audio
audioPacketReceived ==
  /\ At("retriever", "use") /\ packet.kind = "audio"
  /\ audioFormat' = IF device = "apple" /\ unpackAudioParams(packet.payload) # NoAudio
                    THEN unpackAudioParams(packet.payload) ELSE audioFormat
  /\ Loop
  /\ UNCHANGED <<subject, session_, native, stream, clock, apple, java, thread, world, settings,
                 unheard, missed>>

Descriptor == unpackVideoData(packet.payload).descriptor
Rest == unpackVideoData(packet.payload).rest
IsVideo(d) == device = d /\ At("retriever", "use") /\ packet.kind = "video"

-----------------------------------------------------------------------------
(* The Android view and its decoder.                                       *)

Full == Len(pictures) = InputBuffers

\* Mutant of configure: the decoder has what it was first configured with.
configureOnce ==
  /\ codec' = IF codec = NoCodec /\ surface
              THEN [sps |-> Descriptor.sps, pps |-> Descriptor.pps] ELSE codec
  /\ unheard' = (codec = NoCodec /\ ~surface)
  /\ Loop

\* a decoder that is configured takes the parameters as samples, one after the other; one
\* that is not is made with them, which the codec or the surface may refuse
configure ==
  IF codec # NoCodec
  THEN /\ codec' = IF Full THEN codec ELSE [codec EXCEPT !.sps = Descriptor.sps]
       /\ unheard' = Full
       /\ Go("retriever", "pps") /\ UNCHANGED packet
  ELSE /\ \/ surface /\ codec' = [sps |-> Descriptor.sps, pps |-> Descriptor.pps] /\ unheard' = FALSE
          \/ UNCHANGED <<codec, unheard>>
       /\ Loop

\* parameters that come before the metadata are dropped
videoFormatPacketReceived ==
  /\ IsVideo("android") /\ isValid(Descriptor)
  /\ IF settings = Unset THEN Loop /\ UNCHANGED <<codec, unheard>> ELSE configure
  /\ UNCHANGED <<subject, session_, native, stream, clock, apple, pictures, thread, world, settings,
                 audioFormat, missed>>

decodePictureParameters ==
  /\ At("retriever", "pps")
  /\ codec' = IF Full THEN codec ELSE [codec EXCEPT !.pps = Descriptor.pps]
  /\ unheard' = (unheard \/ Full)
  /\ Loop
  /\ UNCHANGED <<subject, session_, native, stream, clock, apple, pictures, thread, world, settings,
                 audioFormat, missed>>

\* Mutant of videoPacketReceived: an input buffer is expected to be there.
videoPacketReceivedAlways ==
  /\ IsVideo("android") /\ ~isValid(Descriptor)
  /\ pictures' = IF codec # NoCodec /\ Rest # "nothing" THEN Append(pictures, timebase) ELSE pictures
  /\ Loop
  /\ UNCHANGED <<subject, session_, native, stream, clock, apple, codec, thread, world, heard, missed>>

\* a picture without a decoder, or without room in it, is dropped
videoPacketReceived ==
  /\ IsVideo("android") /\ ~isValid(Descriptor)
  /\ pictures' = IF codec # NoCodec /\ ~Full /\ Rest # "nothing"
                 THEN Append(pictures, timebase) ELSE pictures
  /\ Loop
  /\ UNCHANGED <<subject, session_, native, stream, clock, apple, codec, thread, world, heard, missed>>

\* videoTimebase_ * 1000, in 32 bits
PresentationTime(time) == (time * UsPerMs) % Wrap

\* Mutant of sleepTime: the time since the first picture is not that of the clock.
sleepTimeFromZero(time, from) == PresentationTime(time) - now

\* microseconds less milliseconds
sleepTime(time, from) == PresentationTime(time) - (now - from)

\* run: the first picture sets the clock
takePicture ==
  /\ holding = NoTime /\ pictures # << >>
  /\ holding' = Head(pictures) /\ pictures' = Tail(pictures)
  /\ startWhen' = IF startWhen = NoTime THEN now ELSE startWhen
  /\ wakeAt' = now + LET sleep == sleepTime(Head(pictures), startWhen')
                     IN IF sleep > 0 THEN sleep ELSE 0
  /\ UNCHANGED <<subject, session_, native, at, packet, stream, clock, apple, codec, now, world, heard, missed>>

releaseOutputBuffer ==
  /\ holding # NoTime /\ now >= wakeAt
  /\ holding' = NoTime /\ wakeAt' = 0
  /\ UNCHANGED <<subject, session_, native, at, packet, stream, clock, apple, java, startWhen, now, world,
                 heard, missed>>

VideoDecoderThread == takePicture \/ releaseOutputBuffer

-----------------------------------------------------------------------------
(* The Apple decompressor.                                                 *)

\* a picture becomes a sample of the format known; a format may be refused, and the
\* sample not be made
unpackVideoPacket ==
  /\ IsVideo("apple")
  /\ \E made \in BOOLEAN :
       /\ fmt' = IF isValid(Descriptor) /\ made THEN Descriptor.sps ELSE fmt
       /\ unheard' = (unheard /\ ~(isValid(Descriptor) /\ made))
       /\ IF fmt' # NoSet /\ Rest # "nothing" /\ made
          THEN samples' = samples + 1 /\ Go("retriever", "decode1") /\ UNCHANGED packet
          ELSE Loop /\ UNCHANGED samples
  /\ UNCHANGED <<subject, session_, native, stream, clock, decoder, wasted, late, java, thread, world,
                 settings, audioFormat, missed>>

release == samples' = samples - 1
reset == decoder' = NoSet

\* Mutant of decodeFrameWithSampleBuffer: a sample is abandoned wherever the application is.
decodeFrameAbandons ==
  /\ At("retriever", "decode1")
  /\ Go("retriever", "loop") /\ packet' = NoPacket
  /\ UNCHANGED <<subject, session_, native, stream, clock, apple, java, thread, world, heard, missed>>

\* in the background the sample is abandoned, not released
decodeFrameWithSampleBuffer ==
  /\ At("retriever", "decode1")
  /\ IF appActive THEN Go("retriever", "decode2") /\ UNCHANGED packet ELSE Loop
  /\ UNCHANGED <<subject, session_, native, stream, clock, apple, java, thread, world, heard, missed>>

\* ... and released when the application goes there just after
createDecompressionSessionIfNeeded ==
  /\ At("retriever", "decode2")
  /\ \/ /\ ~appActive
        /\ release /\ Loop /\ UNCHANGED <<decoder, late>>
     \/ /\ appActive
        /\ IF decoder = NoSet
           THEN \/ decoder' = fmt /\ late' = (late \/ stopped)
                \/ UNCHANGED <<decoder, late>>
           ELSE UNCHANGED <<decoder, late>>
        /\ Go("retriever", "decode3") /\ UNCHANGED <<packet, samples>>
  /\ UNCHANGED <<subject, session_, native, stream, clock, fmt, wasted, java, thread, world, heard, missed>>

\* Mutant of decodeFrame: a decoder that has failed is kept.
decodeFrameKeepsDecoder ==
  /\ At("retriever", "decode3")
  /\ wasted' = IF decoder \notin {fmt, NoSet} THEN wasted + 1 ELSE 0
  /\ release /\ Loop
  /\ UNCHANGED <<subject, session_, native, stream, clock, fmt, decoder, late, java, thread, world, heard, missed>>

\* the decoder fails on a sample of another format, and for reasons of its own
decodeFrame ==
  /\ At("retriever", "decode3")
  /\ \/ decoder \in {fmt, NoSet} /\ wasted' = 0 /\ UNCHANGED decoder
     \/ decoder = fmt /\ reset /\ UNCHANGED wasted
     \/ decoder \notin {fmt, NoSet} /\ reset /\ wasted' = wasted + 1
  /\ release /\ Loop
  /\ UNCHANGED <<subject, session_, native, stream, clock, fmt, late, java, thread, world, heard, missed>>

Decompressor == unpackVideoPacket \/ decodeFrameWithSampleBuffer \/ createDecompressionSessionIfNeeded
                \/ decodeFrame

Retriever ==
  \/ retrieverEnds \/ lostConnection \/ lostConnectionJoined
  \/ metadataArrives \/ audioArrives \/ videoArrives
  \/ metadataPacketReceived \/ audioPacketReceived
  \/ videoFormatPacketReceived \/ decodePictureParameters \/ videoPacketReceived
  \/ Decompressor

-----------------------------------------------------------------------------
(* The system: the application's state, the view's surface, the clock      *)
(* (external).                                                             *)

\* only a frame in hand makes a difference
applicationState ==
  /\ device = "apple" /\ at["retriever"] \in {"use", "decode1", "decode2"} /\ Call
  /\ appActive' = ~appActive /\ inBackground' = TRUE
  /\ UNCHANGED <<subject, session_, native, at, packet, stream, clock, apple, java, thread, surface, heard, missed>>

surfaceChanged ==
  /\ device = "android" /\ Call
  /\ surface' = ~surface
  /\ UNCHANGED <<subject, session_, native, at, packet, stream, clock, apple, java, thread, appActive,
                 inBackground, heard, missed>>

\* only a decoder has an eye on it
Tick ==
  /\ codec # NoCodec /\ now < MaxTime
  /\ now' = now + 1
  /\ UNCHANGED <<subject, session_, native, at, packet, stream, clock, apple, java, holding, startWhen,
                 wakeAt, world, heard, missed>>

System == applicationState \/ surfaceChanged \/ Tick

-----------------------------------------------------------------------------
Init ==
  /\ device \in Devices
  /\ \E b \in Broadcasters : source = b.source /\ published = b.settings
  /\ session = "off" /\ stopped = TRUE /\ sessions = 0
  /\ isRunning = FALSE /\ isActive = FALSE /\ env = "none" /\ raced = FALSE
  /\ at = [t \in Threads |-> IF t = "retriever" THEN "off" ELSE "idle"]
  /\ packet = NoPacket
  /\ streamFormat \in Formats /\ sent = 0 /\ fresh = TRUE /\ position = 0
  /\ timebase = 0 /\ drifted = FALSE
  /\ fmt = NoSet /\ decoder = NoSet /\ samples = 0 /\ wasted = 0 /\ late = FALSE
  /\ codec = NoCodec /\ pictures = << >>
  /\ holding = NoTime /\ startWhen = NoTime /\ wakeAt = 0 /\ now = 0
  /\ appActive = TRUE /\ surface = FALSE /\ inBackground = FALSE /\ calls = 0
  /\ settings = Unset /\ audioFormat = NoAudio /\ unheard = TRUE
  /\ missed = FALSE

Next == App \/ Socket \/ Retriever \/ VideoDecoderThread \/ System

Spec == Init /\ [][Next]_vars

-----------------------------------------------------------------------------
(* Properties.                                                             *)

TypeOK ==
  /\ device \in Devices /\ [source |-> source, settings |-> published] \in Broadcasters
  /\ session \in {"off", "resolving", "open", "live", "closed"}
  /\ {fresh, stopped, isRunning, isActive, raced, appActive, surface, inBackground, missed, late, drifted,
      unheard} \subseteq BOOLEAN
  /\ env \in Threads \cup {"none"}
  /\ at["app"] \in {"idle", "connect", "connectClosed", "markRunning", "end", "endClosed", "ended"}
  /\ at["socket"] \in {"idle", "work", "ready", "started"}
  /\ at["retriever"] \in {"off", "loop", "closed", "use", "pps", "decode1", "decode2", "decode3"}
  /\ streamFormat \in Formats /\ {fmt, decoder} \subseteq Formats \cup {NoSet}
  /\ codec.sps \in Formats \cup {NoSet} /\ (codec.sps = NoSet <=> codec.pps = NoSet)
  /\ {sent, position, timebase, samples, wasted, wakeAt, now, calls, sessions} \subseteq Nat
  /\ Len(pictures) <= InputBuffers
  /\ {holding, startWhen} \subseteq Nat \cup {NoTime}

\* isConnected tells the application of a session that is live, whichever of the three
\* threads set the two flags last; unless a session was announced after its end.
ConnectedIsLive ==
  (device = "android" /\ isConnected) => session = "live" \/ raced

\* The env_ the retriever calls Java through is its own thread's, and not one that another
\* thread took in between; unless an end() met a session that was not open yet, whose
\* retriever goes on beside the next start().
ForeignEnvOnlyIfMissed ==
  (device = "android" /\ At("retriever", "use") /\ env # "retriever") => missed

\* A picture is given to a decoder, or a sample made of it, with the parameters that the
\* stream announced last, unless those were dropped or refused,
\* or a retriever that an end() missed is behind.
PicturesMatchParameters ==
  [][(~unheard /\ ~missed) =>
       /\ (Len(pictures') > Len(pictures) /\ Rest = "picture")
            => codec = [sps |-> packet.format, pps |-> packet.format]
       /\ (samples' > samples /\ Rest = "picture") => fmt = packet.format]_vars

\* The decoder's thread shows no picture before its time, counted from the first, until the
\* presentation time has passed 32 bits: it counts microseconds as milliseconds.
NotBeforeItsTime ==
  [][(holding # NoTime /\ holding' = NoTime)
       => now >= startWhen + holding \/ holding * UsPerMs >= Wrap]_vars

\* The timebase is the time of the message in hand, absolute or not, in this session or
\* after the last one, except from a delay or an extended timestamp to the next absolute one.
TimebaseInStep ==
  (At("retriever", "use") /\ packet.kind = "video" /\ ~drifted) => timebase = packet.time

\* The frame rate and the channels that a broadcaster publishes are those the view has; this
\* library's does not send a rate of 0, and what comes after a date is lost.
MetadataArrives ==
  settings # Unset =>
    /\ settings.frameRate = IF source = "own" /\ published.frameRate = 0 THEN 30 ELSE published.frameRate
    /\ settings.audioChannels \in {published.audioChannels} \cup (IF source = "foreign" THEN {1} ELSE {})

\* What the broadcaster makes of the microphone's format is what the renderer is given.
AudioFormatArrives ==
  audioFormat \in {NoAudio, [channelCount |-> 1, frameLength |-> 1024, sampleRate |-> kSampleRate]}

\* A change of format costs one frame: the decoder that fails on it makes place for the next.
OneFrameLostPerChange == wasted <= 1 /\ (wasted = 1 => decoder \in {fmt, NoSet})

\* An ended view has no decompression session, unless a frame was still on its way to it.
EndedDecoderIsGone ==
  (device = "apple" /\ stopped /\ ~isRunning /\ decoder # NoSet) => late

\* Every sample made is released, whatever fails on its way, in the foreground.
SamplesAreReleased == (At("retriever", "loop") /\ samples > 0) => inBackground

\* The bridge's flags and its JVM environment, shared by three threads, are those of the
\* session and of the thread that uses them.
BridgeFollowsTheSession == TypeOK /\ ConnectedIsLive /\ ForeignEnvOnlyIfMissed

\* A view understands of a stream what its broadcaster meant: its settings, the format of
\* its audio and the time of its pictures.
StreamIsUnderstood == MetadataArrives /\ AudioFormatArrives /\ TimebaseInStep

\* Whatever fails, ends or changes meanwhile, the decompressor loses one frame of a change
\* and keeps nothing: neither a sample nor a decoder that has been ended.
DecompressorKeepsNothing == OneFrameLostPerChange /\ EndedDecoderIsGone /\ SamplesAreReleased

\* A picture meets a decoder that has its parameters, and the screen not before its time.
PicturesFollowTheStream == PicturesMatchParameters /\ NotBeforeItsTime
=============================================================================
