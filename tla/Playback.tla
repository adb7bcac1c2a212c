------------------------------ MODULE Playback ------------------------------
(***************************************************************************)
(* What the watcher plays: KBAudioRendererSession with its BufferQueue, and *)
(* KBOpenGLBasedPreviewView with its queue of frames. The decompressors     *)
(* append, the audio unit's callback takes packets once enough of them are  *)
(* buffered and moves the audio clock, the renderer thread shows the next   *)
(* frame that is in sync with that clock, the metrics' thread resizes the   *)
(* buffer, and the main thread clears the queues. Times are milliseconds.   *)
(***************************************************************************)
EXTENDS Integers, Sequences

CONSTANTS
  Duration,      \* of an audio packet: all have the same, as shrinkToFit takes them to have
  AllowedDelay,  \* kAudioVideoAllowedDelay
  BufferSizes,   \* minimum buffer sizes of the network configurations
  NoTime,        \* kCMTimeInvalid
  MaxAudio,      \* bound on the audio packets
  MaxTime,       \* bound on the frames' timestamps
  MaxCalls       \* bound on the calls of the main and the metrics' threads

ASSUME DurationAssumption == Duration \in Nat \ {0}
ASSUME DelayAssumption == AllowedDelay \in Nat
ASSUME SizesAssumption == BufferSizes \subseteq Nat /\ BufferSizes # {}
ASSUME BoundAssumption == MaxAudio \in Nat /\ MaxTime \in Nat /\ MaxCalls \in Nat
ASSUME TimeAssumption == NoTime \notin Nat

VARIABLES
  audio,    \* timestamps of the packets in the BufferQueue
  total,    \* totalDuration_
  minSize,  \* minBufferSize_
  running,  \* the audio unit is started
  callback, \* where renderCallback is
  popped,   \* timestamp of the item it has popped
  clock,    \* audioPresentationTime
  sync,     \* networkTypeChanged has still to call syncBufferSize
  video,    \* timestamps of the frames in the preview's queue
  showing,  \* the renderer thread has its display link
  display,  \* where nextVideoFrame is
  peeked,   \* the timestamp it has read
  shown,    \* timestamp of lastImage
  main,     \* what the main thread has still to end
  sent, framed, calls, \* audio packets, last timestamp of a frame, calls so far
  cleared,  \* history: the audio queue was cleared since the callback found it ready
  swapped   \* history: the preview's queue was cleared since its head was looked for

buffer  == <<audio, total, minSize>>
speaker == <<running, callback, popped, cleared>>
screen  == <<showing, display, peeked, shown, swapped>>
bounds  == <<sent, framed, calls>>
vars == <<buffer, speaker, clock, sync, video, screen, main, bounds>>

NoFrame == 0

-----------------------------------------------------------------------------
(* BufferQueue.                                                            *)

push(ts) == audio' = Append(audio, ts) /\ total' = total + Duration

\* handleDurationDecrease
Decreased(d) == IF total - d < 0 THEN 0 ELSE total - d

clearBuffer == audio' = <<>> /\ total' = 0

isReady == total >= minSize
maxSize == minSize + minSize \div 3

\* shrinkToFit: how many packets the duration in excess stands for
Average   == total \div Len(audio)
Excess    == total - maxSize

\* Mutant of Removable: milliseconds are taken for packets.
RemovableMillis == Excess

Removable == Excess \div Average
Shrinks   == audio # <<>> /\ maxSize < total /\ (maxSize = 0 \/ (Average > 0 /\ Excess >= Average))

shrinkToFit ==
  IF ~Shrinks THEN UNCHANGED <<audio, total>>
  ELSE IF maxSize = 0 THEN clearBuffer
  ELSE /\ audio' = SubSeq(audio, Removable + 1, Len(audio))
       /\ total' = Decreased(Excess)

-----------------------------------------------------------------------------
(* The decompressors' threads.                                             *)

\* a packet of the new format starts the audio unit
startIfNeeded ==
  /\ ~running
  /\ running' = TRUE
  /\ UNCHANGED <<buffer, callback, popped, cleared, clock, sync, video, screen, main, bounds>>

appendAudioData ==
  /\ sent < MaxAudio
  /\ sent' = sent + 1
  /\ push(sent' * Duration)
  /\ UNCHANGED <<minSize, speaker, clock, sync, video, screen, main, framed, calls>>

\* waits while removeWithPredicate holds the queue's mutex
appendImage ==
  /\ display # "drop"
  /\ \E ts \in framed + 1 .. MaxTime : framed' = ts /\ video' = Append(video, ts)
  /\ UNCHANGED <<buffer, speaker, clock, sync, screen, main, sent, calls>>

-----------------------------------------------------------------------------
(* renderCallback, on the audio unit's thread.                             *)

\* Mutant of renderCheck: a packet is taken as soon as there is one.
renderUnready ==
  /\ running /\ callback = "idle"
  /\ callback' = "pop" /\ cleared' = FALSE
  /\ UNCHANGED <<buffer, running, popped, clock, sync, video, screen, main, bounds>>

\* !empty() && isReady(); else silence
renderCheck ==
  /\ running /\ callback = "idle"
  /\ audio # <<>> /\ isReady
  /\ callback' = "pop" /\ cleared' = FALSE
  /\ UNCHANGED <<buffer, running, popped, clock, sync, video, screen, main, bounds>>

\* T() when the queue has been emptied meanwhile: its timestamp is 0
renderPop ==
  /\ callback = "pop"
  /\ IF audio = <<>>
     THEN popped' = 0 /\ UNCHANGED <<audio, total>>
     ELSE popped' = Head(audio) /\ audio' = Tail(audio) /\ total' = Decreased(Duration)
  /\ callback' = "clock"
  /\ UNCHANGED <<minSize, running, cleared, clock, sync, video, screen, main, bounds>>

\* canRenderAudioSample and renderingAudioSample set the clock, unless the renderer
\* thread holds its mutex both times
renderClock ==
  /\ callback = "clock"
  /\ \/ clock' = popped
     \/ display \in {"test", "drop"} /\ UNCHANGED clock
  /\ callback' = "idle"
  /\ UNCHANGED <<buffer, running, popped, cleared, sync, video, screen, main, bounds>>

renderCallback == renderCheck \/ renderPop \/ renderClock

-----------------------------------------------------------------------------
(* nextVideoFrame, on the renderer thread.                                 *)

Waits(ts)  == ts = NoTime \/ clock = NoTime \/ ts - clock > AllowedDelay
Behind(ts) == ~Waits(ts) /\ clock - ts > AllowedDelay

\* the loop's test
nextVideoFrame ==
  /\ showing /\ display = "check"
  /\ video # <<>>
  /\ display' = "peek" /\ swapped' = FALSE
  /\ UNCHANGED <<buffer, speaker, clock, sync, video, showing, peeked, shown, main, bounds>>

\* front() of a queue that has been cleared meanwhile is whatever is in that memory
peek ==
  /\ display = "peek"
  /\ peeked' \in IF video = <<>> THEN 1 .. MaxTime \cup {NoTime} ELSE {Head(video)}
  /\ display' = "test"
  /\ UNCHANGED <<buffer, speaker, clock, sync, video, showing, swapped, shown, main, bounds>>

isVideoFrameTimestampAllowed ==
  /\ display = "test"
  /\ display' = IF Waits(peeked) THEN "check" ELSE IF Behind(peeked) THEN "drop" ELSE "pop"
  /\ UNCHANGED <<buffer, speaker, clock, sync, video, showing, swapped, peeked, shown, main, bounds>>

\* Mutant of popFrame: the last frame is taken.
popFrameBack ==
  /\ display = "pop"
  /\ IF video = <<>> THEN shown' = NoFrame /\ UNCHANGED video
                     ELSE shown' = video[Len(video)] /\ video' = SubSeq(video, 1, Len(video) - 1)
  /\ display' = "check"
  /\ UNCHANGED <<buffer, speaker, clock, sync, showing, swapped, peeked, main, bounds>>

popFrame ==
  /\ display = "pop"
  /\ IF video = <<>> THEN shown' = NoFrame /\ UNCHANGED video
                     ELSE shown' = Head(video) /\ video' = Tail(video)
  /\ display' = "check"
  /\ UNCHANGED <<buffer, speaker, clock, sync, showing, swapped, peeked, main, bounds>>

\* Mutant of Dropped: a frame that has to wait is dropped.
DroppedWaiting(ts) == Waits(ts)

\* the predicate of removeWithPredicate
Dropped(ts) == ~Waits(ts)

\* one item of removeWithPredicate, which holds the queue's mutex throughout
removeWithPredicate ==
  /\ display = "drop"
  /\ IF video # <<>> /\ Dropped(Head(video))
     THEN video' = Tail(video) /\ UNCHANGED display
     ELSE UNCHANGED video /\ display' = "check"
  /\ UNCHANGED <<buffer, speaker, clock, sync, showing, swapped, peeked, shown, main, bounds>>

Renderer == nextVideoFrame \/ peek \/ isVideoFrameTimestampAllowed \/ popFrame \/ removeWithPredicate

-----------------------------------------------------------------------------
(* The metrics' thread and the main thread.                                *)

Calling == calls < MaxCalls /\ calls' = calls + 1

networkTypeChanged ==
  /\ ~sync /\ Calling
  /\ minSize' \in BufferSizes
  /\ sync' = TRUE
  /\ UNCHANGED <<audio, total, speaker, clock, video, screen, main, sent, framed>>

Clears == cleared' = (cleared \/ (audio # <<>> /\ audio' = <<>>))

syncBufferSize ==
  /\ sync
  /\ shrinkToFit
  /\ Clears
  /\ sync' = FALSE
  /\ UNCHANGED <<minSize, running, callback, popped, clock, video, screen, main, bounds>>

\* the metadata of the stream brings the settings' own size
setRtmpSettings ==
  /\ Calling
  /\ minSize' \in BufferSizes
  /\ UNCHANGED <<audio, total, speaker, clock, sync, video, screen, main, sent, framed>>

\* realign
reset ==
  /\ main = "idle" /\ Calling
  /\ clearBuffer
  /\ Clears
  /\ UNCHANGED <<minSize, running, callback, popped, clock, sync, video, screen, main, sent, framed>>

\* start of the preview, whose thread makes the display link
start ==
  /\ main = "idle" /\ Calling
  /\ display # "drop"
  /\ showing' = TRUE
  /\ video' = <<>> /\ swapped' = TRUE
  /\ UNCHANGED <<buffer, speaker, clock, sync, display, peeked, shown, main, sent, framed>>

\* end of the preview; the thread is only cancelled and goes on with the frame at hand
end ==
  /\ main = "idle" /\ Calling
  /\ display # "drop"
  /\ showing' = FALSE
  /\ video' = <<>> /\ swapped' = TRUE
  /\ main' = "endAudio"
  /\ UNCHANGED <<buffer, speaker, clock, sync, display, peeked, shown, sent, framed>>

\* AudioOutputUnitStop returns once the callback has
endAudio ==
  /\ main = "endAudio"
  /\ IF running
     THEN callback = "idle" /\ clearBuffer /\ running' = FALSE
     ELSE UNCHANGED <<audio, total, running>>
  /\ main' = "idle"
  /\ UNCHANGED <<minSize, callback, popped, cleared, clock, sync, video, screen, bounds>>

Init ==
  /\ audio = <<>> /\ total = 0 /\ minSize \in BufferSizes
  /\ running = FALSE /\ callback = "idle" /\ popped = 0 /\ cleared = FALSE
  /\ clock = NoTime /\ sync = FALSE
  /\ video = <<>> /\ showing = FALSE /\ display = "check" /\ peeked = NoTime /\ shown = NoFrame /\ swapped = FALSE
  /\ main = "idle"
  /\ sent = 0 /\ framed = 0 /\ calls = 0

Next ==
  \/ startIfNeeded \/ appendAudioData \/ appendImage
  \/ renderCallback \/ Renderer
  \/ networkTypeChanged \/ syncBufferSize \/ setRtmpSettings
  \/ reset \/ start \/ end \/ endAudio

\* The audio unit and the display link keep calling, and a call goes on to its end.
\* Nothing makes the stream bring packets or the application call.
Fairness ==
  /\ WF_vars(renderCallback) /\ WF_vars(Renderer)
  /\ WF_vars(syncBufferSize) /\ WF_vars(endAudio)

Spec == Init /\ [][Next]_vars /\ Fairness

-----------------------------------------------------------------------------
(* Properties.                                                             *)

TypeOK ==
  /\ audio \in Seq(Nat) /\ total \in Nat /\ minSize \in BufferSizes
  /\ running \in BOOLEAN /\ cleared \in BOOLEAN
  /\ callback \in {"idle", "pop", "clock"} /\ popped \in Nat
  /\ clock \in Nat \cup {NoTime} /\ sync \in BOOLEAN
  /\ video \in Seq(Nat) /\ showing \in BOOLEAN
  /\ display \in {"check", "peek", "test", "pop", "drop"}
  /\ peeked \in Nat \cup {NoTime} /\ shown \in Nat /\ swapped \in BOOLEAN
  /\ main \in {"idle", "endAudio"}
  /\ sent \in 0 .. MaxAudio /\ framed \in 0 .. MaxTime /\ calls \in 0 .. MaxCalls

\* std::advance in shrinkToFit stays inside the list, however far the total has
\* drifted from what the packets last, if the list has not more packets than the new
\* size has milliseconds.
ShrinksInside ==
  (Shrinks /\ maxSize > 0 /\ Len(audio) <= maxSize) => Removable <= Len(audio)

\* The audio clock goes back only when the buffer was cleared between renderCallback's
\* test and its pop, which then plays an item of time 0.
ClockOnlyForward ==
  [][clock' # clock /\ clock # NoTime => clock' > clock \/ cleared]_vars

\* The frame taken is the one whose time was tested, although front() and pop() are two
\* calls, unless the main thread cleared the preview's queue in between.
ShownWasTested == [][shown' # shown => shown' = peeked \/ swapped]_vars

\* A frame the audio has left behind does not stay at the head of the queue.
Late(ts) == showing /\ video # <<>> /\ Head(video) = ts /\ Behind(ts)
LateIsSkipped == \A ts \in 1 .. MaxTime : Late(ts) ~> ~Late(ts)
=============================================================================
