----------------------------- MODULE ChunkReader -----------------------------
(***************************************************************************)
(* RtmpSocket::receiveDynamicPacketWithDynamicHeader: how the watcher's    *)
(* retriever reassembles media packets from the chunks on the connection.  *)
(* Each function reads one field of the chunk header, then the payload; a  *)
(* packet longer than a chunk goes on in the while loop. Nothing marks the *)
(* chunks' borders: a reader that reads a field too many takes any value   *)
(* from the bytes it finds. The messages are cut the way                   *)
(* RtmpMediaMessage::trunkToSize cuts them; the server may do more.        *)
(***************************************************************************)
EXTENDS Integers, Sequences

CONSTANTS MaxSize,     \* settings_.chunkSize(), the same on both sides
          Sizes,       \* the payload sizes a message (or a misread header) may have
          MaxMessages, \* bound on the messages sent
          Window       \* bound on what is in flight when the server sends more

ASSUME SizeAssumption == MaxSize \in Nat \ {0} /\ Sizes \subseteq Nat
ASSUME CountAssumption == MaxMessages \in Nat /\ Window \in Nat

VARIABLES
  open,     \* innerSocket_.is_open()
  wire,     \* fields and payload bytes on their way, in order
  sent,     \* the payload sizes of the media messages begun
  left,     \* payload bytes of the last of them not sent yet
  cause,    \* history: what happened that this reader is not made for, bounded to
            \* one thing in a behaviour, and whether the connection was cut off
  at,       \* the function the reader is in
  inLoop,   \* it is inside the while loop
  fmt,      \* chunk type of the header being read
  extended, \* hasExtTimestamp
  header,   \* payload size and message type of the header being read
  total, current, \* std::get<1>(chunks) and std::get<2>(chunks)
  packet,   \* declared size of the packet, or Blank
  payload,  \* its bytes so far: the packet's own, and std::get<v8>(chunks)
  foreign,  \* history: a chunk read in the loop had a header of its own
  error,    \* the error saved for the callback
  delivered \* packets given to the delegate: declared size and bytes

connection == <<open, wire>>
server     == <<sent, left>>
chunk      == <<fmt, extended, header>>
round      == <<inLoop, total, current, packet, payload, foreign, error>>
chunkVars == <<connection, server, cause, at, chunk, round, delivered>>

Blank == -1
Lesser(a, b) == IF a <= b THEN a ELSE b

Values ==
  [basic |-> 0 .. 3, timestamp |-> BOOLEAN, size |-> Sizes, type |-> {"media", "other"}]

Tokens ==
  [field : {"basic"}, value : 0 .. 3] \cup [field : {"timestamp"}, value : BOOLEAN]
    \cup [field : {"size"}, value : Sizes] \cup [field : {"type"}, value : {"media", "other"}]
    \cup [field : {"streamID"}, value : {0}] \cup [field : {"body"}, value : Nat \X Nat]

\* the i-th payload byte of the m-th message
Byte(m, i) == [field |-> "body", value |-> <<m, i>>]
Bytes(m, from, to) == [i \in 1 .. (to - from + 1) |-> Byte(m, from + i - 1)]

-----------------------------------------------------------------------------
(* The server.                                                             *)

\* RtmpMediaMessage::serialize; a timestamp of 24 one bits is not followed by an
\* extended one
Header(type, sat, n, kind) ==
  << [field |-> "basic", value |-> type], [field |-> "timestamp", value |-> sat] >>
  \o (IF type \in {0, 1}
      THEN << [field |-> "size", value |-> n], [field |-> "type", value |-> kind] >> ELSE <<>>)
  \o (IF type = 0 THEN << [field |-> "streamID", value |-> 0] >> ELSE <<>>)

\* RtmpMediaMessage::trunkToSize: what stays in the head packet, and the pieces
firstChunk(n) == Lesser(n, MaxSize)

sendHead ==
  /\ open /\ Len(wire) <= Window /\ left = 0 /\ Len(sent) < MaxMessages
  /\ \E n \in Sizes, type \in {0, 1}, sat \in BOOLEAN :
       LET k == firstChunk(n) IN
       /\ sat => cause = {}
       /\ wire' = wire \o Header(type, sat, n, "media") \o Bytes(Len(sent) + 1, 1, k)
       /\ left' = n - k
       /\ sent' = Append(sent, n)
       /\ cause' = IF sat THEN {"saturated"} ELSE cause
  /\ UNCHANGED <<open, at, chunk, round, delivered>>

sendPiece ==
  /\ open /\ Len(wire) <= Window /\ left > 0
  /\ LET k == firstChunk(left)
         m == Len(sent)
         from == sent[m] - left + 1 IN
     /\ wire' = wire \o << [field |-> "basic", value |-> 3] >> \o Bytes(m, from, from + k - 1)
     /\ left' = left - k
  /\ UNCHANGED <<open, sent, cause, at, chunk, round, delivered>>

\* what this reader does not expect: a control message, a message whose header is
\* compressed, or one sent between the chunks of another
sendOther ==
  /\ open /\ Len(wire) <= Window /\ cause = {}
  /\ \/ /\ left = 0
        /\ \E n \in Sizes : wire' = wire \o Header(0, FALSE, n, "other") \o Bytes(0, 1, n)
        /\ cause' = {"control"}
     \/ /\ left = 0
        /\ wire' = wire \o Header(2, FALSE, MaxSize, "media") \o Bytes(0, 1, MaxSize)
        /\ cause' = {"compressed"}
     \/ /\ left > 0
        /\ \E n \in Sizes : /\ n <= MaxSize
                           /\ wire' = wire \o Header(0, FALSE, n, "media") \o Bytes(0, 1, n)
        /\ cause' = {"interleaved"}
  /\ UNCHANGED <<open, server, at, chunk, round, delivered>>

\* the connection closes: what was on its way, or still to be sent, is cut off
Lost ==
  /\ open' = FALSE /\ wire' = <<>>
  /\ cause' = IF wire # <<>> \/ left > 0 THEN cause \cup {"cut"} ELSE cause

drop ==
  /\ open
  /\ Lost
  /\ UNCHANGED <<server, at, chunk, round, delivered>>

-----------------------------------------------------------------------------
(* One chunk.                                                              *)

\* the values a read of field f may return
Read(f) == IF Head(wire).field = f THEN {Head(wire).value} ELSE Values[f]

Reads(function, n) == at = function /\ open /\ Len(wire) >= n
Took(n) == wire' = SubSeq(wire, n + 1, Len(wire)) /\ UNCHANGED open

receiveChunk ==
  /\ Reads("receiveChunk", 1)
  /\ Took(1)
  /\ \E type \in Read("basic") :
       /\ fmt' = type
       /\ at' = IF type = 3 THEN "receivePayload" ELSE "receiveTimestamp"
  /\ UNCHANGED <<server, cause, extended, header, round, delivered>>

receiveTimestamp ==
  /\ Reads("receiveTimestamp", 1)
  /\ Took(1)
  /\ \E sat \in Read("timestamp") : extended' = sat
  /\ at' = IF fmt \in {0, 1} THEN "receiveBodySize" ELSE "receivePayload"
  /\ UNCHANGED <<server, cause, fmt, header, round, delivered>>

receiveBodySize ==
  /\ Reads("receiveBodySize", 1)
  /\ Took(1)
  /\ \E n \in Read("size") : header' = [header EXCEPT !.size = n]
  /\ at' = "receiveMessageType"
  /\ UNCHANGED <<server, cause, fmt, extended, round, delivered>>

\* Mutant of AfterType: the stream ID is not read.
AfterTypeForgetsStreamID == "receivePayload"
AfterType == IF fmt = 0 THEN "receiveStreamID" ELSE "receivePayload"

receiveMessageType ==
  /\ Reads("receiveMessageType", 1)
  /\ Took(1)
  /\ \E kind \in Read("type") : header' = [header EXCEPT !.type = kind]
  /\ at' = IF extended THEN "receiveExtentedTimestamp" ELSE AfterType
  /\ UNCHANGED <<server, cause, fmt, extended, round, delivered>>

receiveExtentedTimestamp ==
  /\ Reads("receiveExtentedTimestamp", 1)
  /\ Took(1)
  /\ at' = AfterType
  /\ UNCHANGED <<server, cause, chunk, round, delivered>>

receiveStreamID ==
  /\ Reads("receiveStreamID", 1)
  /\ Took(1)
  /\ at' = "receivePayload"
  /\ UNCHANGED <<server, cause, chunk, round, delivered>>

-----------------------------------------------------------------------------
(* The round: receiveChunk's callbacks and the while loop around them.     *)

NewRound ==
  /\ at' = "receiveChunk" /\ inLoop' = FALSE
  /\ total' = 0 /\ current' = 0
  /\ packet' = Blank /\ payload' = <<>> /\ foreign' = FALSE /\ error' = FALSE

\* a chunk ends with an error: the first one ends the round, the loop's are saved
ChunkFails ==
  IF inLoop THEN /\ at' = "loop" /\ error' = TRUE /\ current' = 0
                 /\ UNCHANGED <<inLoop, packet, payload, foreign>>
            ELSE NewRound

\* Mutant of chunkSize: a whole chunk is always expected.
chunkSizeUncapped(n) == MaxSize

\* what the next chunk brings of n bytes
chunkSize(n) == Lesser(n, MaxSize)

\* receivePayload before its read: a header of its own gives the sizes; a type that
\* is not media is invalid_argument, its payload unread
receivePayload ==
  /\ at = "receivePayload"
  /\ IF fmt \in {0, 1} /\ header.type = "other"
     THEN /\ ChunkFails
          /\ total' = IF inLoop THEN header.size ELSE 0
     ELSE /\ at' = "readPayload"
          /\ IF fmt \in {0, 1}
             THEN /\ total' = header.size
                  /\ current' = chunkSize(header.size)
                  /\ packet' = IF inLoop THEN packet ELSE header.size
                  /\ foreign' = (foreign \/ inLoop)
             ELSE UNCHANGED <<total, current, packet, foreign>>
          /\ UNCHANGED <<inLoop, payload, error>>
  /\ UNCHANGED <<connection, server, cause, chunk, delivered>>

\* Mutant of keeps: what the loop reads is not kept.
keepsFirstOnly == ~inLoop
\* the packet of a chunk with a header of its own is dropped inside the loop
keeps == fmt \in {2, 3} \/ ~inLoop

readPayload ==
  /\ Reads("readPayload", current)
  /\ Took(current)
  /\ payload' = IF keeps THEN payload \o SubSeq(wire, 1, current) ELSE payload
  /\ at' = "loop"
  /\ UNCHANGED <<server, cause, chunk, inLoop, total, current, packet, foreign, error, delivered>>

\* Mutant of Deliver: what the loop has completed is not given away.
DeliverFirstOnly ==
  delivered' = IF ~error /\ ~inLoop /\ payload # <<>> /\ packet # Blank
               THEN Append(delivered, [size |-> packet, bytes |-> payload]) ELSE delivered

\* if (ec || size <= 0) return; otherwise the delegate gets the packet
Deliver ==
  delivered' = IF ~error /\ payload # <<>> /\ packet # Blank
               THEN Append(delivered, [size |-> packet, bytes |-> payload]) ELSE delivered

nextChunkSize == total - current

loop ==
  /\ at = "loop"
  /\ IF chunkSize(nextChunkSize) > 0
     THEN /\ total' = nextChunkSize
          /\ current' = chunkSize(nextChunkSize)
          /\ inLoop' = TRUE
          /\ at' = "receiveChunk"
          /\ UNCHANGED <<packet, payload, foreign, error, delivered>>
     ELSE Deliver /\ NewRound
  /\ UNCHANGED <<connection, server, cause, chunk>>

Reading == {"receiveChunk", "receiveTimestamp", "receiveBodySize", "receiveMessageType",
            "receiveExtentedTimestamp", "receiveStreamID", "readPayload"}
Wanted == IF at = "readPayload" THEN current ELSE 1   \* 0 bytes: fails only on a closed socket

\* a read fails, part of it done: with a code checkError closes the socket for (the
\* five seconds are one), or with another
readFails ==
  /\ at \in Reading
  /\ open => Wanted > 0
  /\ \/ Lost
     \/ /\ open /\ cause = {} /\ UNCHANGED open
        /\ \E k \in 0 .. Lesser(Wanted, Len(wire)) : wire' = SubSeq(wire, k + 1, Len(wire))
        /\ cause' = {"failure"}
  /\ ChunkFails
  /\ total' = IF inLoop THEN total ELSE 0
  /\ UNCHANGED <<server, chunk, delivered>>

Reader ==
  \/ receiveChunk \/ receiveTimestamp \/ receiveBodySize \/ receiveMessageType
  \/ receiveExtentedTimestamp \/ receiveStreamID \/ receivePayload \/ readPayload
  \/ loop

-----------------------------------------------------------------------------
ChunkInit ==
  /\ open = TRUE /\ wire = <<>> /\ sent = <<>> /\ left = 0 /\ cause = {}
  /\ at = "receiveChunk" /\ inLoop = FALSE
  /\ fmt = 0 /\ extended = FALSE /\ header = [size |-> 0, type |-> "media"]
  /\ total = 0 /\ current = 0
  /\ packet = Blank /\ payload = <<>> /\ foreign = FALSE /\ error = FALSE
  /\ delivered = <<>>

ChunkNext == sendHead \/ sendPiece \/ sendOther \/ drop \/ Reader \/ readFails

\* A read ends, with its bytes or with an error, and the server goes on with a message
\* it has begun.
ChunkFairness == WF_chunkVars(Reader \/ readFails) /\ WF_chunkVars(sendPiece)
ChunkSpec == ChunkInit /\ [][ChunkNext]_chunkVars /\ ChunkFairness
-----------------------------------------------------------------------------
(* Properties.                                                             *)

ChunkTypeOK ==
  /\ open \in BOOLEAN
  /\ wire \in Seq(Tokens) /\ payload \in Seq(Tokens)
  /\ sent \in Seq(Sizes) /\ left \in Nat
  /\ cause \subseteq {"saturated", "control", "compressed", "interleaved", "failure", "cut"}
  /\ at \in Reading \cup {"receivePayload", "loop"} /\ inLoop \in BOOLEAN
  /\ fmt \in 0 .. 3 /\ extended \in BOOLEAN
  /\ header \in [size : Nat, type : {"media", "other"}]
  /\ total \in Nat /\ current \in 0 .. MaxSize
  /\ packet \in Nat \cup {Blank} /\ foreign \in BOOLEAN /\ error \in BOOLEAN
  /\ delivered \in Seq([size : Nat, bytes : Seq(Tokens)])

FieldOf ==
  [receiveChunk |-> "basic", receiveTimestamp |-> "timestamp", receiveBodySize |-> "size",
   receiveMessageType |-> "type", receiveExtentedTimestamp |-> "extended",
   receiveStreamID |-> "streamID", readPayload |-> "body"]

\* The reader keeps its place: what each function reads is the field it is for, as long
\* as the server sends nothing this reader is not made for and no read fails half way.
KeepsItsPlace ==
  (cause = {} /\ at \in Reading /\ Wanted > 0 /\ wire # <<>>)
    => Head(wire).field = FieldOf[at]

\* Under the same condition, and up to where the connection was cut off, the packets given to the delegate are the messages sent,
\* whole and in order, none left out; an empty message is not one.
Whole(m) == [size |-> sent[m], bytes |-> Bytes(m, 1, sent[m])]
Messages ==
  LET Nth[m \in 0 .. Len(sent)] ==
        IF m = 0 THEN <<>> ELSE IF sent[m] = 0 THEN Nth[m - 1] ELSE Append(Nth[m - 1], Whole(m))
  IN Nth[Len(sent)]
DeliveredAreSent ==
  cause \subseteq {"cut"} => /\ Len(delivered) <= Len(Messages)
                             /\ delivered = SubSeq(Messages, 1, Len(delivered))

\* Field by field and message by message, the reader reads what was sent.
ReadsWhatWasSent == KeepsItsPlace /\ DeliveredAreSent

\* The unsigned difference totalSize - chunkSize never wraps, whatever the bytes read
\* as header say.
NoUnderflow == at = "loop" => current <= total

\* A packet is given to the delegate with as many bytes as its header declared, whatever
\* was read and whichever reads failed, unless another message came between its chunks.
LengthIsDeclared ==
  [][delivered' # delivered => (Len(payload) = packet \/ foreign)]_chunkVars

\* Every message begun is delivered whole, also when the five seconds of a read end
\* between two messages, unless the connection is cut off while the message or a later
\* one is on its way, a read fails or the server sends what the reader is not made for.
MessagesArrive ==
  \A m \in 1 .. MaxMessages :
    (Len(sent) >= m /\ sent[m] > 0)
      ~> (cause # {} \/ (Len(sent) >= m /\ \E i \in DOMAIN delivered : delivered[i] = Whole(m)))

\* rtmp_socket.cc:30: on an error chunkSize = 0 "will cause the while loop to end".
ErrorEndsTheLoop == (inLoop /\ error) ~> ~inLoop
=============================================================================
