---------------------------- MODULE MediaPackets ----------------------------
(***************************************************************************)
(* The payloads of audio and video messages: what a broadcaster's          *)
(* KBUtility and FLV tags make of parameters and data, and what a          *)
(* watcher's MediaUtils makes of them.                                     *)
(*                                                                         *)
(* A payload is a record of its fields, those of its head being bytes.     *)
(***************************************************************************)
EXTENDS Integers

CONSTANT NoSet  \* no parameter set

kSampleRate == 48000

-----------------------------------------------------------------------------
(* Video.                                                                  *)

\* 6 bits reserved, 2 bits for the length of a NAL size less 1; 0 is no length
NalByte(nl) == 252 + ((nl - 1) % 4)

buildParametersVideoPacketWithSPS(sps, pps, nl) ==
  [codec |-> 23, config |-> 0, delay |-> 0, nal |-> NalByte(nl),
   spsCount |-> 225, sps |-> sps, ppsCount |-> 1, pps |-> pps]

\* what updateMedataData puts in front of a picture
PicturePacket(keyFrame, delay) ==
  [codec |-> (IF keyFrame THEN 1 ELSE 2) * 16 + 7, config |-> 1, delay |-> delay, nal |-> 0,
   spsCount |-> 0, sps |-> NoSet, ppsCount |-> 0, pps |-> NoSet]

NoDescriptor == [sps |-> NoSet, pps |-> NoSet, nalUnitSize |-> 0]
isValid(descriptor) == descriptor.sps # NoSet /\ descriptor.pps # NoSet

acceptableCodec(p)  == p.codec % 16 = 7
acceptableConfig(p) == p.config \in {0, 1, 2}
nalUnitSize(p) == (p.nal % 4) + 1

Supported(p) == nalUnitSize(p) = 4 /\ p.spsCount % 32 = 1 /\ p.ppsCount = 1

\* The descriptor, what is added to the timestamp, and what the iterator has not passed:
\* nothing, the picture, or bytes of a head that was given up.
unpackVideoData(p) ==
  IF ~acceptableCodec(p) \/ ~acceptableConfig(p)
  THEN [descriptor |-> NoDescriptor, delay |-> 0, rest |-> "tail"]
  ELSE IF p.config # 0
  THEN [descriptor |-> NoDescriptor, delay |-> p.delay,
        rest |-> IF p.config = 1 THEN "picture" ELSE "nothing"]
  ELSE IF Supported(p)
  THEN [descriptor |-> [sps |-> p.sps, pps |-> p.pps, nalUnitSize |-> nalUnitSize(p)],
        delay |-> p.delay, rest |-> "nothing"]
  ELSE [descriptor |-> NoDescriptor, delay |-> p.delay, rest |-> "tail"]

-----------------------------------------------------------------------------
(* Audio.                                                                  *)

audioSampleRates == <<96000, 88200, 64000, 48000, 44100, 32000, 24000, 22050, 16000, 12000,
                      11025, 8000, 7350, -1, -1, -1>>

indexForSampleRate(rate) ==
  IF \E i \in DOMAIN audioSampleRates : audioSampleRates[i] = rate
  THEN (CHOOSE i \in DOMAIN audioSampleRates :
          /\ audioSampleRates[i] = rate
          /\ \A j \in DOMAIN audioSampleRates : audioSampleRates[j] = rate => i <= j) - 1
  ELSE -1

srIndex(rate) == IF indexForSampleRate(rate) >= 0 THEN indexForSampleRate(rate) ELSE 4

\* profile 2, one channel, 1024 samples
buildParametersAudioPacket ==
  [v0 |-> 175, v1 |-> 0,
   v2 |-> 2 * 8 + srIndex(kSampleRate) \div 2,
   v3 |-> ((srIndex(kSampleRate) * 128) % 256) + 1 * 8 + 0, size |-> 4]

NoAudio == [channelCount |-> 0, frameLength |-> 0, sampleRate |-> 0]

\* the table of rates is asked for the place of the index, which is no rate
unpackAudioData(p) ==
  IF p.size < 4
  THEN [descriptor |-> NoAudio, rest |-> "whole"]
  ELSE IF p.v0 \in {175, 47} /\ p.v1 = 0
  THEN [descriptor |-> [channelCount |-> (p.v3 \div 8) % 16,
                        frameLength  |-> IF (p.v3 \div 4) % 2 = 1 THEN 960 ELSE 1024,
                        sampleRate   |-> indexForSampleRate((p.v2 * 2 + p.v3 \div 128) % 16)],
        rest |-> IF p.size > 4 THEN "data" ELSE "nothing"]
  ELSE [descriptor |-> NoAudio, rest |-> "data"]

\* Mutant of unpackAudioParams: the rate is taken as it was read.
unpackAudioParamsAsRead(p) == unpackAudioData(p).descriptor

\* the format that the renderer is given, NoAudio for none
unpackAudioParams(p) ==
  LET d == unpackAudioData(p).descriptor
  IN  IF d.channelCount > 0 /\ d.frameLength > 0
      THEN [d EXCEPT !.sampleRate = IF @ > 0 THEN @ ELSE kSampleRate]
      ELSE NoAudio

-----------------------------------------------------------------------------
(* Timestamps.                                                             *)

\* Mutant of Timebase: every timestamp is a difference.
TimebaseAlwaysAdds(base, m) == IF m.extended THEN base ELSE base + m.timestamp

\* the absolute time of a message of type 0, a difference otherwise; an extended timestamp
\* is not looked at
Timebase(base, m) ==
  IF m.extended THEN base ELSE IF m.type0 THEN m.timestamp ELSE base + m.timestamp
=============================================================================
