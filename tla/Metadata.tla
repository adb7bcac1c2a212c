------------------------------ MODULE Metadata ------------------------------
(***************************************************************************)
(* The onMetaData message: what FLVMediaAMFTag sends of a stream, what     *)
(* another broadcaster sends, and what is left of either on a watcher.     *)
(***************************************************************************)
LOCAL INSTANCE Naturals
LOCAL INSTANCE Sequences
LOCAL INSTANCE TLC
LOCAL INSTANCE SequencesExt
LOCAL INSTANCE Amf0

\* A name is a unit above every byte and every value in use.
Name == [duration |-> 1000001, width |-> 1000002, height |-> 1000003, videodatarate |-> 1000004,
         videoframerate |-> 1000005, framerate |-> 1000006, videocodecid |-> 1000007,
         audiodatarate |-> 1000008, audiosamplerate |-> 1000009, audiosamplesize |-> 1000010,
         stereo |-> 1000011, timestamp |-> 1000012, audiocodecid |-> 1000013,
         audiochannels |-> 1000014, encoder |-> 1000015, filesize |-> 1000016,
         avclevel |-> 1000017, avcprofile |-> 1000018]
onMetaData   == 1000019
setDataFrame == 1000020
avc  == 1000021
avc1 == 1000022
aac  == 1000023

FLVMediaAMFTag ==
  [duration |-> 0, width |-> 1280, height |-> 720, videoframerate |-> 0, videodatarate |-> 850,
   framerate |-> 30, videocodecid |-> 0, videocodecidStr |-> avc, audiodatarate |-> 60,
   audiosamplerate |-> 48000, audiosamplesize |-> 0, stereo |-> FALSE, audiocodecid |-> 0,
   audiochannels |-> 1, audiocodecidStr |-> aac, encoder |-> Empty, filesize |-> 0,
   avclevel |-> 41, avcprofile |-> 100, timestamp |-> 0]

-----------------------------------------------------------------------------
(* The broadcaster.                                                        *)

\* Mutant of sendOnMetaDataMessage: the number of channels is not filled in.
sendOnMetaDataMessageNoChannels(settings) ==
  [FLVMediaAMFTag EXCEPT !.width = settings.height, !.framerate = settings.frameRate,
     !.videodatarate = settings.videoDataRate, !.videoframerate = settings.videoFrameRate]

\* the width is set twice, to the width and then to the height; the height is never set
sendOnMetaDataMessage(settings) ==
  [FLVMediaAMFTag EXCEPT !.width = settings.height, !.audiochannels = settings.audioChannels,
     !.framerate = settings.frameRate, !.videodatarate = settings.videoDataRate,
     !.videoframerate = settings.videoFrameRate]

\* what is positive goes as a number; the codecs go as names, which hide their numbers; the
\* level and the profile go with avc1 only
Sent(tag, f) ==
  CASE f = "stereo"                    -> TRUE
    [] f = "encoder"                   -> tag.encoder # Empty
    [] f = "videocodecid"              -> tag.videocodecidStr # Empty \/ tag.videocodecid > 0
    [] f = "audiocodecid"              -> tag.audiocodecidStr # Empty
    [] f \in {"avclevel", "avcprofile"} -> tag[f] > 0 /\ tag.videocodecidStr = avc1
    [] OTHER                           -> tag[f] > 0

Variant(tag, f) ==
  CASE f = "stereo"  -> BooleanVariant(tag.stereo)
    [] f = "encoder" -> StringVariant(tag.encoder)
    [] f = "videocodecid" /\ tag.videocodecidStr # Empty -> StringVariant(tag.videocodecidStr)
    [] f = "audiocodecid" -> StringVariant(tag.audiocodecidStr)
    [] OTHER -> NumberVariant(tag[f])

FieldOf(name) == CHOOSE f \in DOMAIN Name : Name[f] = name

serialize(tag) ==
  serializeString(onMetaData, TRUE)
  \o serializeObject([n \in {Name[f] : f \in {g \in DOMAIN Name : Sent(tag, g)}} |->
                        Variant(tag, FieldOf(n))])

\* RtmpMetadataMessage: the tag behind the request to the server, which the server takes off
Message(tag) == serializeString(setDataFrame, TRUE) \o serialize(tag)

Relayed(message) == SubSeq(message, Len(serializeString(setDataFrame, TRUE)) + 1, Len(message))

\* another broadcaster: an array whose pairs come in an order of its choice, a date among them
ForeignPair(f, n) == <<0, 1, Name[f]>> \o serializeNumber(n)
ForeignDate == <<0, 1, 1000024, DateMarker>> \o [i \in 1 .. DoubleSize |-> 66] \o <<0, 0>>
ForeignMessage(s, dated) ==
  serializeString(onMetaData, TRUE) \o <<EcmaArrayMarker, 0, 0, 0, IF dated THEN 5 ELSE 4>>
  \o ForeignPair("width", s.width) \o ForeignPair("height", s.height)
  \o ForeignPair("framerate", s.frameRate) \o (IF dated THEN ForeignDate ELSE << >>)
  \o ForeignPair("audiochannels", s.audioChannels) \o <<0, 0, ObjectEndMarker>>

-----------------------------------------------------------------------------
(* The watcher.                                                            *)

TypeOf(f) == IF f = "stereo" THEN "boolean" ELSE IF f = "encoder" THEN "string" ELSE "number"

\* a field is taken from the dictionary when it is there with the type that is asked for
deserializeFromDict(tag, dict) ==
  [f \in DOMAIN tag |->
     IF f \in DOMAIN Name /\ Name[f] \in DOMAIN dict /\ dict[Name[f]].type = TypeOf(f)
     THEN dict[Name[f]].value ELSE tag[f]]

deserializeTag(payload) ==
  LET items == deserialize(payload)
      dicts == SelectSeq(items, LAMBDA item : item.type \in {"array", "object"})
  IN  FoldLeft(LAMBDA tag, item : deserializeFromDict(tag, item.value), FLVMediaAMFTag, dicts)

\* the Apple view takes the one dimension for the other; the Android view does not
metadataPacketReceived(device, tag) ==
  [width  |-> IF device = "apple" THEN tag.height ELSE tag.width,
   height |-> IF device = "apple" THEN tag.width ELSE tag.height,
   frameRate |-> tag.framerate, audioChannels |-> tag.audiochannels]
=============================================================================
