--------------------------- MODULE PlaybackProofs ---------------------------
(* Proofs about Playback, for every packet duration, buffer size and bound. *)
EXTENDS Playback, TLAPS

\* What erasing the first k packets leaves.
LEMMA Suffix ==
  ASSUME NEW s \in Seq(Nat), NEW k \in Nat
  PROVE  /\ SubSeq(s, k + 1, Len(s)) \in Seq(Nat)
         /\ \A i \in 1 .. Len(SubSeq(s, k + 1, Len(s))) :
              /\ k + i \in 1 .. Len(s)
              /\ SubSeq(s, k + 1, Len(s))[i] = s[k + i]
<1>1. CASE k + 1 > Len(s)
  BY <1>1
<1>2. CASE k + 1 <= Len(s)
  BY <1>2
<1> QED BY <1>1, <1>2

\* What pop() takes and leaves.
LEMMA HeadTail ==
  ASSUME NEW s \in Seq(Nat), s # <<>>
  PROVE  Head(s) \in Nat /\ Tail(s) \in Seq(Nat)
  OBVIOUS

\* The number of packets shrinkToFit removes is a natural number.
LEMMA RemovableIsNat ==
  ASSUME TypeOK, Shrinks, maxSize > 0
  PROVE  /\ Average \in Nat \ {0} /\ Excess \in Nat
         /\ Removable \in Nat
<1>1. Len(audio) \in Nat \ {0} /\ total \in Nat
  BY DEF TypeOK, Shrinks
<1>2. minSize \in Nat /\ maxSize \in Nat
  BY SizesAssumption DEF TypeOK, maxSize
<1>3. Average \in Nat
  BY <1>1 DEF Average
<1> QED BY <1>1, <1>2, <1>3 DEF Shrinks, Removable, Excess

\* A resize erases a prefix of the packets, perhaps all of them.
LEMMA Resized ==
  ASSUME TypeOK, shrinkToFit
  PROVE  /\ audio' \in Seq(Nat) /\ total' \in Nat
         /\ audio' = audio \/ \E k \in Nat : audio' = SubSeq(audio, k + 1, Len(audio))
<1> audio \in Seq(Nat) /\ total \in Nat
  BY DEF TypeOK
<1>1. CASE ~Shrinks
  BY <1>1 DEF shrinkToFit
<1>2. CASE Shrinks /\ maxSize = 0
  <2>1. audio' = <<>> /\ total' = 0
    BY <1>2 DEF shrinkToFit, clearBuffer
  <2>2. Len(audio) \in Nat /\ SubSeq(audio, Len(audio) + 1, Len(audio)) = <<>>
    OBVIOUS
  <2>3. audio' = SubSeq(audio, Len(audio) + 1, Len(audio))
    BY <2>1, <2>2
  <2>4. audio' \in Seq(Nat) /\ total' \in Nat
    BY <2>1
  <2> QED BY <2>2, <2>3, <2>4
<1>3. CASE Shrinks /\ maxSize # 0
  <2>1. minSize \in Nat /\ maxSize \in Nat /\ maxSize > 0
    BY <1>3, SizesAssumption DEF TypeOK, maxSize
  <2>2. Removable \in Nat /\ Excess \in Nat
    BY <1>3, <2>1, RemovableIsNat
  <2>3. audio' = SubSeq(audio, Removable + 1, Len(audio)) /\ total' = Decreased(Excess)
    BY <1>3 DEF shrinkToFit
  <2>4. total' \in Nat
    BY <2>2, <2>3 DEF Decreased
  <2>5. audio' \in Seq(Nat)
    BY <2>2, <2>3, Suffix
  <2> QED BY <2>2, <2>3, <2>4, <2>5
<1> QED BY <1>1, <1>2, <1>3

\* The end of the renderer empties the buffer of a running audio unit only.
LEMMA AudioEnds ==
  ASSUME endAudio
  PROVE  \/ audio' = <<>> /\ total' = 0 /\ running' = FALSE
         \/ UNCHANGED <<audio, total, running>>
  BY DEF endAudio, clearBuffer

-----------------------------------------------------------------------------

LEMMA TypeInit == Init => TypeOK
<1> SUFFICES ASSUME Init PROVE TypeOK
  OBVIOUS
<1>1. audio \in Seq(Nat) /\ video \in Seq(Nat)
  BY DEF Init
<1>2. minSize \in BufferSizes /\ total \in Nat /\ popped \in Nat /\ shown \in Nat
  BY DEF Init, NoFrame
<1>3. /\ sent \in 0 .. MaxAudio /\ framed \in 0 .. MaxTime /\ calls \in 0 .. MaxCalls
  BY BoundAssumption DEF Init
<1> QED BY <1>1, <1>2, <1>3 DEF Init, TypeOK

LEMMA TypeStep == TypeOK /\ [Next]_vars => TypeOK'
<1> SUFFICES ASSUME TypeOK, [Next]_vars PROVE TypeOK'
  OBVIOUS
<1> USE DurationAssumption, BoundAssumption
<1> USE DEF TypeOK, buffer, speaker, screen, bounds
<1>1. CASE startIfNeeded
  BY <1>1 DEF startIfNeeded
<1>2. CASE appendAudioData
  BY <1>2 DEF appendAudioData, push
<1>3. CASE appendImage
  BY <1>3 DEF appendImage
<1>4. CASE renderCheck
  BY <1>4 DEF renderCheck
<1>5. CASE renderPop
  <2>1. audio' \in Seq(Nat) /\ popped' \in Nat /\ total' \in Nat
    <3>1. CASE audio = <<>>
      BY <1>5, <3>1 DEF renderPop
    <3>2. CASE audio # <<>>
      <4>1. audio' = Tail(audio) /\ popped' = Head(audio) /\ total' = Decreased(Duration)
        BY <1>5, <3>2 DEF renderPop
      <4>2. total' \in Nat
        BY <4>1 DEF Decreased
      <4> QED BY <3>2, <4>1, <4>2, HeadTail
    <3> QED BY <3>1, <3>2
  <2>2. callback' \in {"idle", "pop", "clock"}
    BY <1>5 DEF renderPop
  <2>3. UNCHANGED <<minSize, running, cleared, clock, sync, video, screen, main, bounds>>
    BY <1>5 DEF renderPop
  <2> QED BY <2>1, <2>2, <2>3
<1>6. CASE renderClock
  BY <1>6 DEF renderClock
<1>7. CASE nextVideoFrame
  BY <1>7 DEF nextVideoFrame
<1>8. CASE peek
  BY <1>8 DEF peek
<1>9. CASE isVideoFrameTimestampAllowed
  BY <1>9 DEF isVideoFrameTimestampAllowed
<1>10. CASE popFrame
  <2>1. video' \in Seq(Nat) /\ shown' \in Nat
    <3>1. CASE video = <<>>
      BY <1>10, <3>1 DEF popFrame, NoFrame
    <3>2. CASE video # <<>>
      BY <1>10, <3>2, HeadTail DEF popFrame
    <3> QED BY <3>1, <3>2
  <2> QED BY <1>10, <2>1 DEF popFrame
<1>11. CASE removeWithPredicate
  <2>1. video' \in Seq(Nat)
    BY <1>11, HeadTail DEF removeWithPredicate
  <2>2. display' \in {"check", "peek", "test", "pop", "drop"}
    BY <1>11 DEF removeWithPredicate
  <2> QED BY <1>11, <2>1, <2>2 DEF removeWithPredicate
<1>12. CASE networkTypeChanged
  BY <1>12 DEF networkTypeChanged, Calling
<1>13. CASE syncBufferSize
  <2>1. audio' \in Seq(Nat) /\ total' \in Nat
    BY <1>13, Resized DEF syncBufferSize
  <2>2. cleared' \in BOOLEAN /\ sync' \in BOOLEAN
    BY <1>13 DEF syncBufferSize, Clears
  <2>3. UNCHANGED <<minSize, running, callback, popped, clock, video, screen, main, bounds>>
    BY <1>13 DEF syncBufferSize
  <2> QED BY <2>1, <2>2, <2>3
<1>14. CASE setRtmpSettings
  BY <1>14 DEF setRtmpSettings, Calling
<1>15. CASE reset
  BY <1>15 DEF reset, Calling, clearBuffer, Clears
<1>16. CASE start
  BY <1>16 DEF start, Calling
<1>17. CASE end
  <2>1. video' \in Seq(Nat)
    BY <1>17 DEF end
  <2>2. calls' \in 0 .. MaxCalls
    BY <1>17 DEF end, Calling
  <2> QED BY <1>17, <2>1, <2>2 DEF end
<1>18. CASE endAudio
  <2>1. audio' \in Seq(Nat) /\ total' \in Nat /\ running' \in BOOLEAN
    <3>1. CASE audio' = <<>> /\ total' = 0 /\ running' = FALSE
      <4>1. audio' \in Seq(Nat) /\ total' \in Nat
        BY <3>1
      <4>2. running' \in BOOLEAN
        BY <3>1
      <4> QED BY <4>1, <4>2
    <3>2. CASE UNCHANGED <<audio, total, running>>
      <4>1. audio' = audio /\ total' = total /\ running' = running
        BY <3>2
      <4> QED BY <4>1
    <3> QED BY <1>18, <3>1, <3>2, AudioEnds
  <2> QED BY <1>18, <2>1 DEF endAudio
<1>19. CASE UNCHANGED vars
  BY <1>19 DEF vars
<1> QED
  BY <1>1, <1>2, <1>3, <1>4, <1>5, <1>6, <1>7, <1>8, <1>9, <1>10, <1>11, <1>12, <1>13, <1>14,
     <1>15, <1>16, <1>17, <1>18, <1>19 DEF Next, renderCallback, Renderer

\* The variables of the audio renderer and of the preview keep their types: the unsigned
\* count of std::advance and the buffered duration are never negative.
THEOREM TypeCorrect == Spec => []TypeOK
<1> QED BY TypeInit, TypeStep, PTL DEF Spec

-----------------------------------------------------------------------------

\* Whatever the total is, the average's rounding costs at most one packet per packet.
LEMMA RemovableIsLess ==
  ASSUME NEW t \in Nat, NEW n \in Nat \ {0}, NEW m \in Nat \ {0},
         n <= m, m < t, t \div n > 0
  PROVE  (t - m) \div (t \div n) <= n
<1> DEFINE a == t \div n
<1> DEFINE q == (t - m) \div a
<1>1. a \in Nat \ {0} /\ t < n * (a + 1)
  OBVIOUS
<1>2. t - m \in Nat /\ q \in Nat /\ q * a <= t - m
  BY <1>1
<1> HIDE DEF a, q
<1>3. n * (a + 1) = n * a + n
  BY <1>1
<1>4. q * a < n * a
  BY <1>1, <1>2, <1>3
<1>5. q < n
  BY <1>1, <1>2, <1>4
<1> QED BY <1>2, <1>5 DEF q, a

\* A resize never advances past the end of the list, if the list has not more packets
\* than the new size has milliseconds: the total may have drifted anywhere.
THEOREM ResizeStaysInside == Spec => []ShrinksInside
<1>1. TypeOK => ShrinksInside
  <2> SUFFICES ASSUME TypeOK, Shrinks, maxSize > 0, Len(audio) <= maxSize
               PROVE  Removable <= Len(audio)
    BY DEF ShrinksInside
  <2>1. Len(audio) \in Nat \ {0} /\ total \in Nat /\ maxSize \in Nat \ {0}
    BY SizesAssumption DEF TypeOK, Shrinks, maxSize
  <2>2. maxSize < total /\ total \div Len(audio) > 0
    BY <2>1 DEF Shrinks, Average
  <2>3. (total - maxSize) \div (total \div Len(audio)) <= Len(audio)
    BY <2>1, <2>2, RemovableIsLess
  <2> QED BY <2>3 DEF Removable, Excess, Average
<1> QED BY <1>1, TypeCorrect, PTL

-----------------------------------------------------------------------------

\* The packets are in the order they were made, and those made so far are no later
\* than Issued.
Issued == sent * Duration
Order  ==
  /\ \A i, j \in 1 .. Len(audio) : i < j => audio[i] < audio[j]
  /\ \A i \in 1 .. Len(audio) : 0 < audio[i] /\ audio[i] <= Issued

Above(b) == \A i \in 1 .. Len(audio) : b < audio[i]

\* What is buffered is later than what the clock shows and than the packet being played,
\* which is later than the clock unless it is the item of an emptied buffer.
ClockInv ==
  /\ Order
  /\ clock # NoTime => (Above(clock) /\ clock <= Issued)
  /\ callback = "pop" => (audio # <<>> \/ cleared)
  /\ callback = "clock" => (Above(popped) /\ popped <= Issued)
  /\ (callback = "clock" /\ clock # NoTime) => (clock < popped \/ cleared)

\* Packets leave the buffer only at its front.
Erased ==
  /\ audio' \in Seq(Nat)
  /\ \E k \in Nat : \A i \in 1 .. Len(audio') : k + i \in 1 .. Len(audio) /\ audio'[i] = audio[k + i]

LEMMA ErasedKeepsOrder ==
  ASSUME TypeOK, Order, Erased, sent' = sent
  PROVE  Order' /\ \A b \in Nat : Above(b) => \A i \in 1 .. Len(audio') : b < audio'[i]
<1>1. PICK k \in Nat : \A i \in 1 .. Len(audio') : k + i \in 1 .. Len(audio) /\ audio'[i] = audio[k + i]
  BY DEF Erased
<1>2. Len(audio') \in Nat /\ Len(audio) \in Nat
  BY DEF TypeOK, Erased
<1>3. \A i, j \in 1 .. Len(audio') : i < j => audio'[i] < audio'[j]
  <2> SUFFICES ASSUME NEW i \in 1 .. Len(audio'), NEW j \in 1 .. Len(audio'), i < j
               PROVE  audio'[i] < audio'[j]
    OBVIOUS
  <2>1. k + i \in 1 .. Len(audio) /\ k + j \in 1 .. Len(audio) /\ k + i < k + j
    BY <1>1, <1>2
  <2> QED BY <1>1, <2>1 DEF Order
<1>4. \A i \in 1 .. Len(audio') : 0 < audio'[i] /\ audio'[i] <= Issued
  BY <1>1 DEF Order
<1>5. Issued' = Issued
  BY DEF Issued
<1>6. \A b \in Nat : Above(b) => \A i \in 1 .. Len(audio') : b < audio'[i]
  BY <1>1 DEF Above
<1> QED BY <1>3, <1>4, <1>5, <1>6 DEF Order

LEMMA TailOf ==
  ASSUME NEW s \in Seq(Nat), s # <<>>
  PROVE  \A i \in 1 .. Len(Tail(s)) : 1 + i \in 1 .. Len(s) /\ Tail(s)[i] = s[1 + i]
<1>1. Len(s) \in Nat \ {0} /\ Len(Tail(s)) = Len(s) - 1
  OBVIOUS
<1>2. \A i \in 1 .. Len(Tail(s)) : Tail(s)[i] = s[i + 1]
  OBVIOUS
<1> QED BY <1>1, <1>2

LEMMA KeptIsErased ==
  ASSUME TypeOK, audio' = audio \/ audio' = <<>> \/ (audio # <<>> /\ audio' = Tail(audio))
                   \/ \E k \in Nat : audio' = SubSeq(audio, k + 1, Len(audio))
  PROVE  Erased
<1> audio \in Seq(Nat)
  BY DEF TypeOK
<1>1. CASE audio' = audio
  <2>1. \A i \in 1 .. Len(audio') : 0 + i \in 1 .. Len(audio) /\ audio'[i] = audio[0 + i]
    BY <1>1
  <2> QED BY <1>1, <2>1 DEF Erased
<1>2. CASE audio' = <<>>
  <2>1. audio' \in Seq(Nat) /\ Len(audio') = 0
    BY <1>2
  <2>2. \A i \in 1 .. Len(audio') : 0 + i \in 1 .. Len(audio) /\ audio'[i] = audio[0 + i]
    BY <2>1
  <2> QED BY <2>1, <2>2 DEF Erased
<1>3. CASE audio # <<>> /\ audio' = Tail(audio)
  <2>1. audio' \in Seq(Nat)
    BY <1>3, HeadTail
  <2>2. \A i \in 1 .. Len(audio') : 1 + i \in 1 .. Len(audio) /\ audio'[i] = audio[1 + i]
    BY <1>3, TailOf
  <2> QED BY <2>1, <2>2 DEF Erased
<1>4. CASE \E k \in Nat : audio' = SubSeq(audio, k + 1, Len(audio))
  <2>1. PICK k \in Nat : audio' = SubSeq(audio, k + 1, Len(audio))
    BY <1>4
  <2>2. audio' \in Seq(Nat)
    BY <2>1, Suffix
  <2>3. \A i \in 1 .. Len(audio') : k + i \in 1 .. Len(audio) /\ audio'[i] = audio[k + i]
    BY <2>1, Suffix
  <2> QED BY <2>2, <2>3 DEF Erased
<1> QED BY <1>1, <1>2, <1>3, <1>4

\* Nothing that the clock depends on changes.
LEMMA ClockUntouched ==
  ASSUME TypeOK, ClockInv, audio' = audio, sent' = sent, callback' = callback,
         popped' = popped, clock' = clock, cleared' = cleared
  PROVE  ClockInv'
  BY DEF ClockInv, Order, Above, Issued

\* Packets are erased, and it is recorded when that empties the buffer.
LEMMA ClockErased ==
  ASSUME TypeOK, ClockInv, Erased, Clears, sent' = sent, callback' = callback,
         popped' = popped, clock' = clock
  PROVE  ClockInv'
<1>1. Order' /\ \A b \in Nat : Above(b) => \A i \in 1 .. Len(audio') : b < audio'[i]
  BY ErasedKeepsOrder DEF ClockInv
<1>2. Issued' = Issued
  BY DEF Issued
<1>3. cleared => cleared'
  BY DEF Clears
<1>4. clock' # NoTime => (Above(clock)' /\ clock' <= Issued')
  BY <1>1, <1>2 DEF ClockInv, Above, TypeOK
<1>5. callback' = "pop" => (audio' # <<>> \/ cleared')
  <2> SUFFICES ASSUME callback = "pop", audio' = <<>> PROVE cleared'
    OBVIOUS
  <2>1. audio # <<>> \/ cleared
    BY DEF ClockInv
  <2> QED BY <2>1 DEF Clears
<1>6. callback' = "clock" => (Above(popped)' /\ popped' <= Issued')
  BY <1>1, <1>2 DEF ClockInv, Above, TypeOK
<1>7. (callback' = "clock" /\ clock' # NoTime) => (clock' < popped' \/ cleared')
  BY <1>3 DEF ClockInv
<1> QED BY <1>1, <1>4, <1>5, <1>6, <1>7 DEF ClockInv

\* A packet appended is later than all that were made.
LEMMA ClockAppended ==
  ASSUME TypeOK, ClockInv, appendAudioData
  PROVE  ClockInv'
<1> DEFINE ts == sent' * Duration
<1>1. /\ audio \in Seq(Nat) /\ sent \in Nat /\ sent' = sent + 1 /\ audio' = Append(audio, ts)
      /\ callback' = callback /\ popped' = popped /\ clock' = clock /\ cleared' = cleared
  BY DEF appendAudioData, push, speaker, TypeOK
<1>2. Issued \in Nat /\ Issued' = ts /\ ts \in Nat /\ Issued < ts
  <2>1. sent' * Duration = sent * Duration + Duration
    BY <1>1, DurationAssumption
  <2>2. sent * Duration \in Nat
    BY <1>1, DurationAssumption
  <2> QED BY <2>1, <2>2, DurationAssumption DEF Issued
<1> HIDE DEF ts
<1>3. /\ Len(audio') = Len(audio) + 1 /\ Len(audio) \in Nat
      /\ audio'[Len(audio) + 1] = ts
      /\ \A i \in 1 .. Len(audio) : audio'[i] = audio[i]
  BY <1>1, <1>2
<1>4. \A i \in 1 .. Len(audio) : audio[i] \in Nat /\ 0 < audio[i] /\ audio[i] < ts
  <2> SUFFICES ASSUME NEW i \in 1 .. Len(audio) PROVE audio[i] \in Nat /\ 0 < audio[i] /\ audio[i] < ts
    OBVIOUS
  <2>1. audio[i] \in Nat
    BY <1>1
  <2>2. 0 < audio[i] /\ audio[i] <= Issued
    BY DEF ClockInv, Order
  <2> QED BY <1>2, <2>1, <2>2
<1>5. Order'
  <2>1. \A i \in 1 .. Len(audio') : 0 < audio'[i] /\ audio'[i] <= Issued'
    <3> SUFFICES ASSUME NEW i \in 1 .. Len(audio') PROVE 0 < audio'[i] /\ audio'[i] <= Issued'
      OBVIOUS
    <3>1. CASE i \in 1 .. Len(audio)
      BY <1>2, <1>3, <1>4, <3>1
    <3>2. CASE i = Len(audio) + 1
      BY <1>2, <1>3, <3>2
    <3> QED BY <1>3, <3>1, <3>2
  <2>2. \A i, j \in 1 .. Len(audio') : i < j => audio'[i] < audio'[j]
    <3> SUFFICES ASSUME NEW i \in 1 .. Len(audio'), NEW j \in 1 .. Len(audio'), i < j
                 PROVE  audio'[i] < audio'[j]
      OBVIOUS
    <3>1. i \in 1 .. Len(audio) /\ (j \in 1 .. Len(audio) \/ j = Len(audio) + 1)
      BY <1>3
    <3>2. CASE j \in 1 .. Len(audio)
      BY <1>3, <3>1, <3>2 DEF ClockInv, Order
    <3>3. CASE j = Len(audio) + 1
      BY <1>3, <1>4, <3>1, <3>3
    <3> QED BY <3>1, <3>2, <3>3
  <2> QED BY <2>1, <2>2 DEF Order
<1>6. ASSUME NEW b \in Nat, Above(b), b <= Issued
      PROVE  (\A i \in 1 .. Len(audio') : b < audio'[i]) /\ b <= Issued'
  <2>1. b < ts
    BY <1>2, <1>6
  <2>2. \A i \in 1 .. Len(audio') : b < audio'[i]
    <3> SUFFICES ASSUME NEW i \in 1 .. Len(audio') PROVE b < audio'[i]
      OBVIOUS
    <3>1. CASE i \in 1 .. Len(audio)
      BY <1>3, <1>6, <3>1 DEF Above
    <3>2. CASE i = Len(audio) + 1
      BY <1>3, <2>1, <3>2
    <3> QED BY <1>3, <3>1, <3>2
  <2> QED BY <1>2, <2>1, <2>2
<1>7. clock' # NoTime => (Above(clock)' /\ clock' <= Issued')
  BY <1>1, <1>6 DEF ClockInv, Above, TypeOK
<1>8. callback' = "clock" => (Above(popped)' /\ popped' <= Issued')
  BY <1>1, <1>6 DEF ClockInv, Above, TypeOK
<1>9. audio' # <<>>
  BY <1>3
<1>10. (callback' = "clock" /\ clock' # NoTime) => (clock' < popped' \/ cleared')
  BY <1>1 DEF ClockInv
<1> QED BY <1>5, <1>7, <1>8, <1>9, <1>10 DEF ClockInv

\* What is popped is later than the clock, or is the item of an emptied buffer.
LEMMA ClockPopped ==
  ASSUME TypeOK, ClockInv, renderPop
  PROVE  ClockInv'
<1>1. /\ audio \in Seq(Nat) /\ callback = "pop" /\ callback' = "clock" /\ clock' = clock
      /\ cleared' = cleared /\ sent' = sent
  BY DEF renderPop, TypeOK, bounds
<1>2. audio' = audio \/ (audio # <<>> /\ audio' = Tail(audio))
  BY DEF renderPop
<1>3. Erased
  BY <1>2, KeptIsErased
<1>4. Order' /\ \A b \in Nat : Above(b) => \A i \in 1 .. Len(audio') : b < audio'[i]
  BY <1>1, <1>3, ErasedKeepsOrder DEF ClockInv
<1>5. Issued' = Issued /\ Issued \in Nat
  BY <1>1, DurationAssumption, BoundAssumption DEF Issued, TypeOK
<1>6. clock' # NoTime => (Above(clock)' /\ clock' <= Issued')
  BY <1>1, <1>4, <1>5 DEF ClockInv, Above, TypeOK
<1>7. Above(popped)' /\ popped' <= Issued'
  <2>1. CASE audio = <<>>
    <3>1. popped' = 0 /\ audio' = audio
      BY <2>1 DEF renderPop
    <3> QED BY <1>5, <2>1, <3>1 DEF Above
  <2>2. CASE audio # <<>>
    <3>1. popped' = audio[1] /\ audio' = Tail(audio) /\ 1 \in 1 .. Len(audio)
      BY <1>1, <2>2 DEF renderPop
    <3>2. popped' <= Issued'
      BY <1>5, <3>1 DEF ClockInv, Order
    <3>3. \A i \in 1 .. Len(audio') : popped' < audio'[i]
      <4> SUFFICES ASSUME NEW i \in 1 .. Len(audio') PROVE popped' < audio'[i]
        OBVIOUS
      <4>1. 1 + i \in 1 .. Len(audio) /\ audio'[i] = audio[1 + i] /\ i > 0
        BY <1>1, <2>2, <3>1, TailOf
      <4>2. audio[1] < audio[1 + i]
        BY <3>1, <4>1 DEF ClockInv, Order
      <4> QED BY <3>1, <4>1, <4>2
    <3> QED BY <3>2, <3>3 DEF Above
  <2> QED BY <2>1, <2>2
<1>8. clock' # NoTime => (clock' < popped' \/ cleared')
  <2>1. CASE audio = <<>>
    BY <1>1, <2>1 DEF ClockInv
  <2>2. CASE audio # <<>>
    <3>1. popped' = audio[1] /\ 1 \in 1 .. Len(audio)
      BY <1>1, <2>2 DEF renderPop
    <3> QED BY <1>1, <3>1 DEF ClockInv, Above
  <2> QED BY <2>1, <2>2
<1> QED BY <1>1, <1>4, <1>6, <1>7, <1>8 DEF ClockInv

LEMMA ClockInit == Init => ClockInv
<1> SUFFICES ASSUME Init PROVE ClockInv
  OBVIOUS
<1>1. audio = <<>> /\ clock = NoTime /\ callback = "idle"
  BY DEF Init
<1>2. Order
  BY <1>1 DEF Order
<1> QED BY <1>1, <1>2 DEF ClockInv

LEMMA ClockStep == TypeOK /\ ClockInv /\ [Next]_vars => ClockInv'
<1> SUFFICES ASSUME TypeOK, ClockInv, [Next]_vars PROVE ClockInv'
  OBVIOUS
<1>1. CASE appendAudioData
  BY <1>1, ClockAppended
<1>2. CASE renderCheck
  <2>1. /\ audio' = audio /\ sent' = sent /\ clock' = clock /\ callback' = "pop" /\ audio # <<>>
    BY <1>2 DEF renderCheck, buffer, bounds
  <2>2. Order' /\ Issued' = Issued
    BY <2>1 DEF ClockInv, Order, Issued
  <2>3. clock' # NoTime => (Above(clock)' /\ clock' <= Issued')
    BY <2>1, <2>2 DEF ClockInv, Above
  <2> QED BY <2>1, <2>2, <2>3 DEF ClockInv
<1>3. CASE renderPop
  BY <1>3, ClockPopped
<1>4. CASE renderClock
  <2>1. /\ audio' = audio /\ sent' = sent /\ callback = "clock" /\ callback' = "idle"
        /\ clock' = popped \/ clock' = clock
    BY <1>4 DEF renderClock, buffer, bounds
  <2>2. Order' /\ Issued' = Issued
    BY <2>1 DEF ClockInv, Order, Issued
  <2>3. clock' # NoTime => (Above(clock)' /\ clock' <= Issued')
    BY <2>1, <2>2 DEF ClockInv, Above
  <2> QED BY <2>1, <2>2, <2>3 DEF ClockInv
<1>5. CASE syncBufferSize \/ reset
  <2>1. CASE syncBufferSize
    <3>1. shrinkToFit /\ Clears /\ sent' = sent /\ callback' = callback /\ popped' = popped /\ clock' = clock
      BY <2>1 DEF syncBufferSize, bounds
    <3>2. Erased
      BY <3>1, Resized, KeptIsErased
    <3> QED BY <3>1, <3>2, ClockErased
  <2>2. CASE reset
    <3>1. audio' = <<>> /\ Clears /\ sent' = sent /\ callback' = callback /\ popped' = popped /\ clock' = clock
      BY <2>2 DEF reset, clearBuffer
    <3>2. Erased
      BY <3>1, KeptIsErased
    <3> QED BY <3>1, <3>2, ClockErased
  <2> QED BY <1>5, <2>1, <2>2
<1>6. CASE endAudio
  <2>1. /\ sent' = sent /\ callback' = callback /\ popped' = popped /\ clock' = clock /\ cleared' = cleared
    BY <1>6 DEF endAudio, bounds
  <2>2. CASE running
    <3>1. audio' = <<>> /\ callback = "idle"
      BY <1>6, <2>2 DEF endAudio, clearBuffer
    <3>2. Erased
      BY <3>1, KeptIsErased
    <3>3. Order' /\ \A b \in Nat : Above(b) => \A i \in 1 .. Len(audio') : b < audio'[i]
      BY <2>1, <3>2, ErasedKeepsOrder DEF ClockInv
    <3>4. Issued' = Issued
      BY <2>1 DEF Issued
    <3>5. clock' # NoTime => (Above(clock)' /\ clock' <= Issued')
      BY <2>1, <3>3, <3>4 DEF ClockInv, Above, TypeOK
    <3> QED BY <2>1, <3>1, <3>3, <3>5 DEF ClockInv
  <2>3. CASE ~running
    <3>1. audio' = audio
      BY <1>6, <2>3 DEF endAudio
    <3> QED BY <2>1, <3>1, ClockUntouched
  <2> QED BY <2>2, <2>3
<1>7. CASE \/ startIfNeeded \/ appendImage \/ Renderer \/ networkTypeChanged \/ setRtmpSettings
           \/ start \/ end \/ UNCHANGED vars
  <2>1. /\ audio' = audio /\ sent' = sent /\ callback' = callback
        /\ popped' = popped /\ clock' = clock /\ cleared' = cleared
    <3> USE DEF buffer, speaker, bounds
    <3>1. CASE startIfNeeded \/ appendImage
      BY <3>1 DEF startIfNeeded, appendImage
    <3>2. CASE nextVideoFrame \/ peek \/ isVideoFrameTimestampAllowed
      BY <3>2 DEF nextVideoFrame, peek, isVideoFrameTimestampAllowed
    <3>3. CASE popFrame \/ removeWithPredicate
      BY <3>3 DEF popFrame, removeWithPredicate
    <3>4. CASE networkTypeChanged \/ setRtmpSettings
      BY <3>4 DEF networkTypeChanged, setRtmpSettings
    <3>5. CASE start \/ end
      BY <3>5 DEF start, end
    <3>6. CASE UNCHANGED vars
      BY <3>6 DEF vars
    <3> QED BY <1>7, <3>1, <3>2, <3>3, <3>4, <3>5, <3>6 DEF Renderer
  <2> QED BY <2>1, ClockUntouched
<1> QED BY <1>1, <1>2, <1>3, <1>4, <1>5, <1>6, <1>7 DEF Next, renderCallback

\* The audio clock only moves forward, unless the buffer was cleared between
\* renderCallback's test and its pop: no resize and no other call moves it back.
THEOREM ClockForward == Spec => ClockOnlyForward
<1>1. TypeOK /\ ClockInv /\ [Next]_vars
        => [clock' # clock /\ clock # NoTime => clock' > clock \/ cleared]_vars
  <2> SUFFICES ASSUME TypeOK, ClockInv, [Next]_vars, clock' # clock, clock # NoTime
               PROVE  clock' > clock \/ cleared
    OBVIOUS
  <2>1. CASE renderClock
    <3>1. callback = "clock" /\ clock' = popped /\ popped \in Nat /\ clock \in Nat
      BY <2>1 DEF renderClock, TypeOK
    <3> QED BY <3>1 DEF ClockInv
  <2>2. CASE ~renderClock
    <3> USE DEF buffer, speaker, bounds
    <3>1. clock' = clock
      <4>1. CASE startIfNeeded \/ appendAudioData \/ appendImage
        BY <4>1 DEF startIfNeeded, appendAudioData, appendImage
      <4>2. CASE renderCheck \/ renderPop
        BY <4>2 DEF renderCheck, renderPop
      <4>3. CASE nextVideoFrame \/ peek \/ isVideoFrameTimestampAllowed
        BY <4>3 DEF nextVideoFrame, peek, isVideoFrameTimestampAllowed
      <4>4. CASE popFrame \/ removeWithPredicate
        BY <4>4 DEF popFrame, removeWithPredicate
      <4>5. CASE networkTypeChanged \/ syncBufferSize \/ setRtmpSettings
        BY <4>5 DEF networkTypeChanged, syncBufferSize, setRtmpSettings
      <4>6. CASE reset \/ start \/ end \/ endAudio
        BY <4>6 DEF reset, start, end, endAudio
      <4>7. CASE UNCHANGED vars
        BY <4>7 DEF vars
      <4> QED
        BY <2>2, <4>1, <4>2, <4>3, <4>4, <4>5, <4>6, <4>7 DEF Next, renderCallback, Renderer
    <3> QED BY <3>1
  <2> QED BY <2>1, <2>2
<1>2. Spec => [](TypeOK /\ ClockInv)
  BY TypeInit, TypeStep, ClockInit, ClockStep, PTL DEF Spec
<1> QED BY <1>1, <1>2, PTL DEF Spec, ClockOnlyForward
-----------------------------------------------------------------------------
(* The frame shown is the one that was tested.                             *)

\* From the test of empty() to the pop the head of the preview's queue stays, and is
\* the frame that was read, unless the queue was cleared.
HeadInv ==
  ~swapped =>
    /\ display \in {"peek", "test", "pop"} => video # <<>>
    /\ display \in {"test", "pop"} => Head(video) = peeked

LEMMA HeadStep == TypeOK /\ HeadInv /\ [Next]_vars => HeadInv'
<1> SUFFICES ASSUME TypeOK, HeadInv, [Next]_vars PROVE HeadInv'
  OBVIOUS
<1>1. CASE appendImage
  <2>1. PICK ts \in framed + 1 .. MaxTime : video' = Append(video, ts)
    BY <1>1 DEF appendImage
  <2>2. video \in Seq(Nat) /\ ts \in Nat
    BY BoundAssumption DEF TypeOK
  <2>3. video' # <<>> /\ (video # <<>> => Head(video') = Head(video))
    BY <2>1, <2>2
  <2> QED BY <1>1, <2>3 DEF appendImage, HeadInv, screen
<1>2. CASE Renderer
  BY <1>2 DEF Renderer, nextVideoFrame, peek, isVideoFrameTimestampAllowed, popFrame,
              removeWithPredicate, HeadInv
<1>3. CASE start \/ end
  BY <1>3 DEF start, end, HeadInv
<1>4. CASE UNCHANGED <<video, screen>>
  BY <1>4 DEF screen, HeadInv
<1> QED
  BY <1>1, <1>2, <1>3, <1>4 DEF Next, startIfNeeded, appendAudioData, renderCallback, renderCheck,
     renderPop, renderClock, networkTypeChanged, syncBufferSize, setRtmpSettings, reset,
     endAudio, vars

\* The frame the preview takes (nextVideoFrame) is the one whose timestamp it has tested,
\* although it reads front() and pops in two calls, unless the queue was cleared between.
THEOREM TestedIsShown == Spec => ShownWasTested
<1>1. Init => HeadInv
  BY DEF Init, HeadInv
<1>2. TypeOK /\ HeadInv /\ [Next]_vars => [shown' # shown => shown' = peeked \/ swapped]_vars
  <2> SUFFICES ASSUME HeadInv, [Next]_vars, shown' # shown, ~swapped PROVE shown' = peeked
    OBVIOUS
  <2>1. popFrame
    BY DEF Next, startIfNeeded, appendAudioData, appendImage, renderCallback, renderCheck,
       renderPop, renderClock, Renderer, nextVideoFrame, peek, isVideoFrameTimestampAllowed,
       removeWithPredicate, networkTypeChanged, syncBufferSize, setRtmpSettings, reset, start,
       end, endAudio, screen, vars
  <2> QED BY <2>1 DEF popFrame, HeadInv
<1> QED BY <1>1, <1>2, HeadStep, TypeCorrect, PTL DEF Spec, ShownWasTested
=============================================================================
