------------------------------ MODULE Broadcast ------------------------------
(***************************************************************************)
(* The media path of KBRtmpBroadcasterSessionView: the camera with its     *)
(* KBVideoCaptureSession and KBVideoCompressorSession, the microphone with *)
(* its KBAudioCaptureSession, the view that takes what both produce, the   *)
(* queue, and its handler, which hands the messages to the session and     *)
(* restarts both clocks when audio and video come apart.                   *)
(*                                                                         *)
(* The blocks of the main thread start and end all of this, for the        *)
(* application, for a lost connection or for an interruption; the capture  *)
(* threads and the queue's worker are anywhere when they do.  SessionView  *)
(* has the session's callbacks step by step, WorkQueue the queue and       *)
(* AudioSession the audio units; here these are what a frame meets.        *)
(***************************************************************************)
EXTENDS Naturals, Sequences

CONSTANTS Scenes,        \* what a behaviour is about: "camera", "media" or both, one at a time
          AllowedDelay,  \* kAudioVideoAllowedDelay, in buffers
          MaxTime,       \* bound on timestamps, in buffers
          MaxQueue,      \* bound on the queue
          MaxCalls       \* bound on what the application, the network and the system do

ASSUME SceneAssumption == Scenes \subseteq {"camera", "media"}
ASSUME TimeAssumption == /\ AllowedDelay \in Nat \ {0} /\ MaxTime \in Nat
                         /\ MaxQueue \in Nat /\ MaxCalls \in Nat

VARIABLES
  scene,       \* "camera": the permission is asked for, the user switches, nothing is sent;
               \* "media": the camera is there, and frames and buffers flow
  running, stopRequested, shouldReconnect, reconnecting, sessionReady,
  audioOnly,
  shouldSendAudioParameters,
  prev,        \* prev[m]: prevAudioTimestamp and prevVideoTimestamp
  session,     \* "off", "connecting", "connected" or "on"
  queue, started,
  handling,    \* the item the handler is about to send
  doing,       \* the block the main thread is in the middle of: "none", "end" or "reconnect"
  posted,      \* blocks waiting for the main thread: "end", "reconnect", "start"
  permission,  \* the answer to the camera's dialog: "asked", "yes" or "no"
  granted,     \* permissionGranted
  asked,       \* handlers of switchCamera that wait for the answer, or have it
  front,       \* useFrontCamera
  camera,      \* what the capture session's input is: "none", "front" or "back"
  nesting,     \* beginConfiguration less commitConfiguration
  capturing,   \* running, of KBVideoCaptureSession
  compressor,  \* "none", "mute" without a delegate, or "wired"
  encoder,     \* sessionRef: "none" or "open"
  videoTime,   \* the last timestamp less timeDelta; Invalid when timeDelta is
  frame, cam,  \* the timestamp of the frame in work and where it is
  recording,   \* running, of KBAudioCaptureSession
  sampleCount, \* audioSampleCount
  mic,         \* where the microphone's callback is
  interrupted, \* a telephone call has the audio
  calls,
  epoch,       \* history: the number of starts
  firstAudio,  \* history: the first audio message of the session: "none", "params" or "data"
  prevOf,      \* history: prevOf[m]: the start in which prev[m] was set, 0 for none
  unseen,      \* history: why the view may have no video
  raced        \* history: what a block found in the middle of something

flags  == <<running, stopRequested, shouldReconnect, reconnecting, sessionReady>>
media  == <<shouldSendAudioParameters, prev, prevOf, firstAudio>>
worker == <<queue, started, handling>>
main   == <<doing, posted>>
device == <<scene, permission, granted, asked, front, camera, nesting>>
video  == <<capturing, compressor, encoder, videoTime, frame, cam>>
audio  == <<recording, sampleCount, mic>>
world  == <<session, audioOnly, interrupted>>
vars == <<flags, media, worker, main, device, video, audio, world, calls, epoch, unseen, raced>>

Invalid == MaxTime + 1
NoItem  == [kind |-> "none", param |-> FALSE, ts |-> 0, of |-> 0]
Kinds   == {"audio", "video"}
Item(kind, param, ts) == [kind |-> kind, param |-> param, ts |-> ts, of |-> epoch]
Call    == calls < MaxCalls /\ calls' = calls + 1
Post(b) == posted' = posted \cup {b}
Races(s) == raced' = raced \cup s

-----------------------------------------------------------------------------
(* The view's flags.                                                       *)

setSessionReady(ready) == sessionReady' = ready /\ reconnecting' = ~ready

\* Mutant: the timestamps of the last messages stay.
clearKeepsTheTimestamps ==
  /\ running' = FALSE
  /\ shouldSendAudioParameters' = FALSE
  /\ UNCHANGED <<prev, prevOf>>
  /\ shouldReconnect' = FALSE
  /\ queue' = <<>>

clear ==
  /\ running' = FALSE
  /\ shouldSendAudioParameters' = FALSE
  /\ prev' = [m \in Kinds |-> 0] /\ prevOf' = [m \in Kinds |-> 0]
  /\ shouldReconnect' = FALSE
  /\ queue' = <<>>

\* Mutant: it is left to the first start.
markAsRunningOnce ==
  /\ running' = TRUE
  /\ stopRequested' = FALSE
  /\ shouldSendAudioParameters' = (shouldSendAudioParameters \/ epoch = 0)

markAsRunning ==
  /\ running' = TRUE
  /\ stopRequested' = FALSE
  /\ shouldSendAudioParameters' = TRUE

\* whom a block that clears the view finds at work: the microphone's thread, which has
\* seen sessionReady and will push, or the handler
foundAtWork == (IF mic # "idle" THEN {"producer"} ELSE {})
               \cup (IF handling # NoItem THEN {"handler"} ELSE {})

foundEncoding == IF cam = "encode" THEN {"frame"} ELSE {}

\* rtmpSession->end(): socketDidClose posts an end when a socket was open
endSession == /\ session' = "off"
              /\ IF session = "off" THEN UNCHANGED posted ELSE Post("end")

-----------------------------------------------------------------------------
(* KBVideoCaptureSession and KBAudioCaptureSession, from the main thread.  *)

\* Mutant: the delegate is set before there is a compressor to take it.
videoStartDelegateFirst(wired) ==
  IF ~granted THEN UNCHANGED <<capturing, compressor>>
  ELSE /\ capturing' = TRUE
       /\ compressor' = IF compressor = "none" THEN "mute" ELSE IF wired THEN "wired" ELSE compressor

\* start: nothing without the permission; the compressor is made without a delegate
videoStart(wired) ==
  IF ~granted THEN UNCHANGED <<capturing, compressor>>
  ELSE /\ capturing' = TRUE
       /\ compressor' = IF wired THEN "wired" ELSE IF compressor = "none" THEN "mute" ELSE compressor

\* Mutant: the encoder is left for the next start.
videoEndKeepsTheEncoder == capturing' = FALSE /\ UNCHANGED encoder

videoEnd ==
  /\ capturing' = FALSE
  /\ encoder' = "none"

\* the reset of both captures: the video's clock starts with its next frame
resetCaptures ==
  /\ videoTime' = IF compressor = "none" THEN videoTime ELSE Invalid
  /\ sampleCount' = 0

startBlock ==
  IF running
  THEN UNCHANGED <<flags, media, started, session, capturing, compressor, recording, epoch, unseen>>
  ELSE /\ markAsRunning
       /\ started' = TRUE
       /\ session' = "connecting"
       /\ IF audioOnly THEN UNCHANGED <<capturing, compressor>> /\ unseen' = {}
                       ELSE videoStart(TRUE) /\ unseen' = IF granted THEN {} ELSE {"permission"}
       /\ recording' = TRUE
       /\ epoch' = epoch + 1
       /\ firstAudio' = "none"
       /\ UNCHANGED <<shouldReconnect, reconnecting, sessionReady, prev, prevOf>>

startWithHost ==
  /\ doing = "none" /\ Call
  /\ startBlock
  /\ UNCHANGED <<queue, handling, main, device, encoder, videoTime, frame, cam, sampleCount, mic,
                 audioOnly, interrupted, raced>>

\* Mutant of startAgain: an end meanwhile calls the start off.
startAgainUnlessStopped ==
  /\ doing = "none" /\ "start" \in posted /\ "end" \notin posted
  /\ posted' = posted \ {"start"}
  /\ IF stopRequested
     THEN UNCHANGED <<flags, media, started, session, capturing, compressor, recording, epoch, unseen>>
     ELSE startBlock
  /\ UNCHANGED <<queue, handling, doing, device, encoder, videoTime, frame, cam, sampleCount, mic,
                 audioOnly, interrupted, calls, raced>>

\* the start that reconnectAfter posts, behind an end that it caused
startAgain ==
  /\ doing = "none" /\ "start" \in posted /\ "end" \notin posted
  /\ posted' = posted \ {"start"}
  /\ startBlock
  /\ UNCHANGED <<queue, handling, doing, device, encoder, videoTime, frame, cam, sampleCount, mic,
                 audioOnly, interrupted, calls, raced>>

\* the first part of end and of reconnectAfter, before the main thread waits for the
\* worker in queue->stop()
endBegin ==
  /\ doing = "none" /\ doing' = "end"
  /\ stopRequested' = TRUE
  /\ setSessionReady(FALSE)
  /\ clear
  /\ Races(foundAtWork)
  /\ UNCHANGED <<firstAudio, started, handling, device, video, audio, audioOnly, interrupted, epoch, unseen>>

end == endBegin /\ Call /\ endSession
endPosted ==
  /\ "end" \in posted
  /\ endBegin
  /\ session' = "off"
  /\ posted' = posted \ (IF session = "off" THEN {"end"} ELSE {})
  /\ UNCHANGED calls

reconnectAfter ==
  /\ doing = "none" /\ "reconnect" \in posted
  /\ IF ~shouldReconnect \/ reconnecting
     THEN /\ posted' = posted \ {"reconnect"}
          /\ UNCHANGED <<flags, media, worker, doing, session, raced>>
     ELSE /\ reconnecting' = TRUE
          /\ IF stopRequested
             THEN /\ posted' = posted \ {"reconnect"}
                  /\ UNCHANGED <<running, stopRequested, shouldReconnect, sessionReady, media, worker,
                                 doing, session, raced>>
             ELSE /\ doing' = "reconnect"
                  /\ sessionReady' = FALSE
                  /\ clear
                  /\ session' = "off"
                  /\ posted' = (posted \ {"reconnect"})
                               \cup (IF session = "off" THEN {} ELSE {"end"})
                  /\ Races(foundAtWork)
                  /\ UNCHANGED <<stopRequested, firstAudio, started, handling>>
  /\ UNCHANGED <<device, video, audio, audioOnly, interrupted, calls, epoch, unseen>>

\* Mutant of endRest: the queue was cleared before it was stopped.
endRestKeepsTheQueue ==
  /\ doing # "none" /\ handling = NoItem
  /\ started' = FALSE
  /\ videoEnd
  /\ Races(foundEncoding)
  /\ recording' = FALSE
  /\ IF doing = "reconnect" THEN Post("start") ELSE UNCHANGED posted
  /\ doing' = "none"
  /\ UNCHANGED <<queue, flags, media, handling, device, compressor, videoTime, frame, cam, sampleCount,
                 mic, world, calls, epoch, unseen>>

\* queue->stop() joins the worker; then the queue and the captures
endRest ==
  /\ doing # "none" /\ handling = NoItem
  /\ started' = FALSE
  /\ queue' = <<>>
  /\ videoEnd
  /\ Races(foundEncoding)
  /\ recording' = FALSE
  /\ IF doing = "reconnect" THEN Post("start") ELSE UNCHANGED posted
  /\ doing' = "none"
  /\ UNCHANGED <<flags, media, handling, device, compressor, videoTime, frame, cam, sampleCount, mic,
                 world, calls, epoch, unseen>>

\* the video alone stops, or starts, a compressor made here having no delegate
setAudioOnly ==
  /\ doing = "none" /\ Call
  /\ audioOnly' = ~audioOnly
  /\ CASE ~running -> UNCHANGED <<capturing, compressor, encoder, unseen, raced>>
       [] running /\ audioOnly ->
            /\ videoStart(FALSE)
            /\ unseen' = IF ~granted THEN {"permission"} ELSE
                         IF compressor' = "mute" THEN {"mute"} ELSE {}
            /\ UNCHANGED <<encoder, raced>>
       [] running /\ ~audioOnly ->
            /\ videoEnd
            /\ Races(foundEncoding)
            /\ UNCHANGED <<compressor, unseen>>
  /\ UNCHANGED <<flags, media, worker, main, device, videoTime, frame, cam, audio, session, interrupted,
                 epoch>>

\* a compressor that takes the settings resets its meter
setRtmpSettings ==
  /\ doing = "none" /\ Call
  /\ compressor # "none" /\ videoTime' = Invalid
  /\ UNCHANGED <<flags, media, worker, main, device, capturing, compressor, encoder, frame, cam, audio,
                 world, epoch, unseen, raced>>

-----------------------------------------------------------------------------
(* The session, as the view sees it, and the system's interruptions.       *)

socketDidConnect ==
  /\ session = "connecting"
  /\ session' = "connected"
  /\ shouldReconnect' = FALSE
  /\ UNCHANGED <<running, stopRequested, reconnecting, sessionReady, media, worker, main, device, video,
                 audio, audioOnly, interrupted, calls, epoch, unseen, raced>>

sessionStarted ==
  /\ session = "connected"
  /\ session' = "on"
  /\ resetCaptures
  /\ setSessionReady(TRUE)
  /\ UNCHANGED <<running, stopRequested, shouldReconnect, media, worker, main, device, capturing,
                 compressor, encoder, frame, cam, recording, mic, audioOnly, interrupted, calls, epoch,
                 unseen, raced>>

\* reconnectionRequired, or an error that does not require it, and socketDidClose
socketDidClose ==
  /\ session # "off" /\ Call
  /\ session' = "off"
  /\ \E required \in BOOLEAN :
       /\ shouldReconnect' = (shouldReconnect \/ (required /\ ~reconnecting))
       /\ Post(IF shouldReconnect' THEN "reconnect" ELSE "end")
  /\ UNCHANGED <<running, stopRequested, reconnecting, sessionReady, media, worker, doing, device,
                 video, audio, audioOnly, interrupted, epoch, unseen, raced>>

audioInterruptionBegan ==
  /\ doing = "none" /\ ~interrupted /\ Call
  /\ interrupted' = TRUE
  /\ videoEnd
  /\ Races(foundEncoding)
  /\ unseen' = IF running THEN unseen \cup {"interruption"} ELSE unseen
  /\ UNCHANGED <<flags, media, worker, main, device, compressor, videoTime, frame, cam, audio, session,
                 audioOnly, epoch>>

\* audioInterruptionEnded, with audioInterruptionShouldResume or without
audioInterruptionEnded ==
  /\ doing = "none" /\ interrupted
  /\ interrupted' = FALSE
  /\ recording' = FALSE
  /\ shouldReconnect' = TRUE
  /\ \/ Post("reconnect")
     \/ UNCHANGED posted
  /\ UNCHANGED <<running, stopRequested, reconnecting, sessionReady, media, worker, doing, device, video,
                 sampleCount, mic, session, audioOnly, calls, epoch, unseen, raced>>

-----------------------------------------------------------------------------
(* The camera.                                                             *)

Facing(f) == IF f THEN "front" ELSE "back"

\* Mutant of configure: the input that is there stays, and no other can be added.
configureKeepsTheInput(f) ==
  /\ granted' = TRUE
  /\ camera' = IF nesting = 0 /\ camera = "none" THEN Facing(f) ELSE camera
  /\ UNCHANGED <<nesting, raced>>

\* switchCamera's handler, permission given: without a device nothing; with an input
\* that cannot be added, a configuration that is begun and never committed, behind
\* which no later one takes effect
configure(f) ==
  /\ granted' = TRUE
  /\ \/ Races({"switch"}) /\ nesting' \in {nesting, nesting + 1} /\ UNCHANGED camera
     \/ /\ camera' = IF nesting = 0 THEN Facing(f) ELSE camera
        /\ UNCHANGED <<nesting, raced>>

\* the flag changes at once; the handler runs at once, or when the dialog is answered
switchCamera ==
  /\ scene = "camera" /\ doing = "none" /\ Call
  /\ front' = ~front
  /\ asked' = IF permission = "asked" THEN asked + 1 ELSE asked
  /\ IF permission = "yes" THEN configure(front') ELSE UNCHANGED <<granted, camera, nesting, raced>>
  /\ UNCHANGED <<scene, permission, flags, media, worker, main, video, audio, world, epoch, unseen>>

permissionAnswered ==
  /\ permission = "asked"
  /\ permission' \in {"yes", "no"}
  /\ UNCHANGED <<scene, granted, asked, front, camera, nesting, flags, media, worker, main, video, audio, world,
                 calls, epoch, unseen, raced>>

cameraHandler ==
  /\ asked > 0 /\ permission # "asked"
  /\ asked' = asked - 1
  /\ IF permission = "yes" THEN configure(front) ELSE UNCHANGED <<granted, camera, nesting, raced>>
  /\ UNCHANGED <<scene, permission, front, flags, media, worker, main, video, audio, world, calls, epoch, unseen>>

-----------------------------------------------------------------------------
(* The capture queue and the encoder's thread: one frame at a time.        *)

CamStep == UNCHANGED <<flags, prev, prevOf, firstAudio, shouldSendAudioParameters, started, handling, main,
                       device, capturing, compressor, audio, world, calls, epoch, unseen, raced>>

captureOutput ==
  /\ scene = "media" /\ cam = "idle" /\ camera # "none" /\ capturing
  /\ cam' = "encode"
  /\ CamStep /\ UNCHANGED <<queue, encoder, videoTime, frame>>

encodeFrame ==
  /\ cam = "encode"
  /\ \/ LET ts == IF encoder = "none" \/ videoTime = Invalid THEN 0 ELSE videoTime + 1
        IN /\ ts <= MaxTime
           /\ encoder' = "open" /\ videoTime' = ts   \* a new encoder begins with time zero
           /\ frame' = ts /\ cam' = "encoded"
     \/ /\ encoder' = "none"     \* none could be made, or it failed and is ended
        /\ videoTime' \in IF encoder = "none" THEN {videoTime, Invalid} ELSE {videoTime}
        /\ cam' = "idle" /\ UNCHANGED frame
  /\ CamStep /\ UNCHANGED queue

\* encoderOutputCallback and videoSampleEncoded
encoderOutputCallback ==
  /\ cam = "encoded"
  /\ \/ /\ UNCHANGED encoder
        /\ cam' = IF compressor = "wired" /\ sessionReady THEN "push" ELSE "idle"
     \/ encoder' = "none" /\ cam' = "idle"
  /\ frame' = IF cam' = "idle" THEN 0 ELSE frame   \* the frame is released
  /\ CamStep /\ UNCHANGED <<queue, videoTime>>

\* Queue::push of a queue that is stopped does nothing
push(item) ==
  IF started THEN Len(queue) < MaxQueue /\ queue' = Append(queue, item) ELSE UNCHANGED queue

\* one item stands for a frame and, before a key frame, its parameters
videoSampleEncoded ==
  /\ cam = "push" /\ cam' = "idle"
  /\ push(Item("video", FALSE, frame))
  /\ frame' = 0
  /\ CamStep /\ UNCHANGED <<encoder, videoTime>>

-----------------------------------------------------------------------------
(* The microphone's thread.                                                *)

MicStep == UNCHANGED <<flags, prev, prevOf, firstAudio, started, handling, main, device, video, recording,
                       world, calls, epoch, unseen, raced>>

processBuffer ==
  /\ scene = "media" /\ mic = "idle" /\ recording /\ ~interrupted /\ sessionReady
  /\ sampleCount < MaxTime
  /\ mic' = "push"
  /\ MicStep /\ UNCHANGED <<queue, shouldSendAudioParameters, sampleCount>>

\* the flag is read for the message, twice, and again afterwards
audioSampleReceived ==
  /\ mic = "push" /\ mic' = "sent"
  /\ push(Item("audio", shouldSendAudioParameters, sampleCount))
  /\ MicStep /\ UNCHANGED <<shouldSendAudioParameters, sampleCount>>

\* Mutant of parametersSent: every buffer counts for two.
parametersSentTwice ==
  /\ mic = "sent" /\ mic' = "idle"
  /\ shouldSendAudioParameters' = FALSE
  /\ sampleCount' = sampleCount + 2
  /\ MicStep /\ UNCHANGED queue

parametersSent ==
  /\ mic = "sent" /\ mic' = "idle"
  /\ shouldSendAudioParameters' = FALSE
  /\ sampleCount' = sampleCount + 1
  /\ MicStep /\ UNCHANGED queue

-----------------------------------------------------------------------------
(* The queue's handler.                                                    *)

pop ==
  /\ started /\ queue # <<>> /\ handling = NoItem
  /\ queue' = Tail(queue)
  /\ handling' = IF sessionReady THEN Head(queue) ELSE NoItem
  /\ UNCHANGED <<flags, media, started, main, device, video, audio, world, calls, epoch, unseen, raced>>

Distance(a, b) == IF a > b THEN a - b ELSE b - a
OutOfSync(p) == Distance(p["audio"], p["video"]) >= AllowedDelay

\* sendVideoMessage or sendAudioMessage, and what follows
handle ==
  /\ handling # NoItem
  /\ LET m == handling.kind IN
     /\ prev' = [prev EXCEPT ![m] = handling.ts]
     /\ prevOf' = [prevOf EXCEPT ![m] = handling.of]
     /\ firstAudio' = IF session = "on" /\ m = "audio" /\ firstAudio = "none"
                      THEN IF handling.param THEN "params" ELSE "data"
                      ELSE firstAudio
  /\ IF OutOfSync(prev') THEN resetCaptures ELSE UNCHANGED <<videoTime, sampleCount>>
  /\ handling' = NoItem
  /\ UNCHANGED <<flags, shouldSendAudioParameters, queue, started, main, device, capturing, compressor,
                 encoder, frame, cam, recording, mic, world, calls, epoch, unseen, raced>>

-----------------------------------------------------------------------------
Init ==
  /\ running = FALSE /\ stopRequested = FALSE /\ shouldReconnect = FALSE
  /\ reconnecting = FALSE /\ sessionReady = FALSE
  /\ audioOnly = FALSE /\ shouldSendAudioParameters = FALSE
  /\ prev = [m \in Kinds |-> 0] /\ prevOf = [m \in Kinds |-> 0]
  /\ session = "off" /\ queue = <<>> /\ started = FALSE /\ handling = NoItem
  /\ doing = "none" /\ posted = {}
  /\ scene \in Scenes /\ nesting = 0 /\ front = TRUE
  /\ IF scene = "camera"
     THEN permission = "asked" /\ asked = 1 /\ granted = FALSE /\ camera = "none"  \* by setup
     ELSE permission = "yes" /\ asked = 0 /\ granted = TRUE /\ camera = "front"
  /\ capturing = FALSE /\ compressor = "none" /\ encoder = "none" /\ videoTime = Invalid
  /\ frame = 0 /\ cam = "idle"
  /\ recording = FALSE
  /\ sampleCount = 0 /\ mic = "idle"
  /\ interrupted = FALSE /\ calls = 0
  /\ epoch = 0 /\ firstAudio = "none" /\ unseen = {} /\ raced = {}

Application == startWithHost \/ end \/ setAudioOnly \/ setRtmpSettings \/ switchCamera
System  == audioInterruptionBegan \/ audioInterruptionEnded \/ permissionAnswered \/ cameraHandler
Network == socketDidConnect \/ sessionStarted \/ socketDidClose
Block   == startAgain \/ endPosted \/ reconnectAfter \/ endRest
Camera  == captureOutput \/ encodeFrame \/ encoderOutputCallback \/ videoSampleEncoded
Sound   == processBuffer \/ audioSampleReceived \/ parametersSent
Worker  == pop \/ handle

Next == Application \/ System \/ Network \/ Block \/ Camera \/ Sound \/ Worker

\* the main queue runs what is posted to it, and the worker what it has taken
Fairness == WF_vars(Block) /\ WF_vars(Worker)

Spec == Init /\ [][Next]_vars /\ Fairness

-----------------------------------------------------------------------------
(* Properties.                                                             *)

TypeOK ==
  /\ scene \in Scenes
  /\ running \in BOOLEAN /\ stopRequested \in BOOLEAN /\ shouldReconnect \in BOOLEAN
  /\ reconnecting \in BOOLEAN /\ sessionReady \in BOOLEAN /\ audioOnly \in BOOLEAN
  /\ started \in BOOLEAN /\ granted \in BOOLEAN /\ front \in BOOLEAN /\ capturing \in BOOLEAN
  /\ recording \in BOOLEAN /\ interrupted \in BOOLEAN /\ shouldSendAudioParameters \in BOOLEAN
  /\ prev \in [Kinds -> 0 .. MaxTime] /\ prevOf \in [Kinds -> 0 .. epoch]
  /\ session \in {"off", "connecting", "connected", "on"}
  /\ Len(queue) <= MaxQueue
  /\ handling = NoItem \/ handling.of <= epoch
  /\ doing \in {"none", "end", "reconnect"} /\ posted \subseteq {"end", "reconnect", "start"}
  /\ permission \in {"asked", "yes", "no"} /\ asked \in Nat /\ nesting \in Nat
  /\ camera \in {"none", "front", "back"}
  /\ compressor \in {"none", "mute", "wired"} /\ encoder \in {"none", "open"}
  /\ videoTime \in 0 .. Invalid /\ sampleCount \in 0 .. MaxTime
  /\ cam \in {"idle", "encode", "encoded", "push"} /\ mic \in {"idle", "push", "sent"}
  /\ calls \in 0 .. MaxCalls /\ epoch \in Nat

\* What was queued before an end or a reconnection is never sent after it, not even by
\* a producer that had seen sessionReady when the view was cleared.
FreshMediaOnly ==
  [][(handling # NoItem /\ handling' = NoItem /\ session = "on")
       => handling.of = epoch]_vars

\* The first audio message of a session is the codec's parameters, without which no
\* player can decode what follows; unless the microphone's thread was between two of
\* its three readings of the flag when the view was cleared.
AudioStartsWithParameters ==
  firstAudio = "data" => "producer" \in raced

\* The captures are restarted for the distance of messages of this session only: the
\* timestamps of an earlier one are gone, unless the handler wrote one behind clear().
ResyncForThisSession ==
  [][(handling # NoItem /\ OutOfSync(prev'))
       => (\A m \in Kinds : prevOf'[m] \in {0, epoch}) \/ "handler" \in raced]_vars

\* Nothing of an earlier session is sent in this one, or counts in it.
MediaOfThisSession == FreshMediaOnly /\ ResyncForThisSession

\* A capture that has ended holds no encoder, unless a frame was on its way to it:
\* that frame makes a new one, which lives until the next end.
EndedCaptureHasNoEncoder ==
  (~capturing /\ encoder # "none" /\ cam # "encoded" /\ doing = "none") => "frame" \in raced

\* A running view with video has frames on their way to it: it captures, and the
\* compressor knows its delegate. Not so when the camera's permission came after the
\* start, when the compressor was made by setAudioOnly, or after an interruption.
VideoReachesTheView ==
  (running /\ ~audioOnly /\ doing = "none" /\ unseen = {}) => capturing /\ compressor = "wired"

\* The camera is the one the user switched to last, whatever was switched while the
\* permission was asked for; one switch that fails leaves every later one without effect.
CameraFollowsTheSwitch ==
  (permission = "yes" /\ asked = 0 /\ "switch" \notin raced) => camera = Facing(front)

\* The camera, the capture and its encoder are what the view and the user last asked for.
CaptureFollowsTheView ==
  TypeOK /\ EndedCaptureHasNoEncoder /\ VideoReachesTheView /\ CameraFollowsTheSwitch

\* A reconnection that was accepted, after a lost connection or an interruption, has
\* the view running with its captures again, whatever ends come in between: the one
\* that its own closing of the session posts runs before the start.
ReconnectionStartsAgain ==
  doing = "reconnect" ~> (running /\ recording /\ (audioOnly \/ ~granted \/ capturing))
=============================================================================
