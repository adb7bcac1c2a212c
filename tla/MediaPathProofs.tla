---------------------------- MODULE MediaPathProofs ----------------------------
(***************************************************************************)
(* Theorems about the two ends of the media's path: ChunkReader, where a   *)
(* socket takes messages from the connection, for every chunk size, all    *)
(* payload sizes and whatever the bytes it takes for headers say; and      *)
(* Broadcast, where a broadcaster makes them, for any delay, queue and     *)
(* number of calls.                                                        *)
(***************************************************************************)
EXTENDS ChunkReader, Broadcast, SequenceTheorems, WellFoundedInduction, TLAPS

-----------------------------------------------------------------------------
(* ChunkReader: types, counts and lengths.                                 *)

\* what a chunk still brings is at most what the message still misses
Fits == current <= total

\* A header with sizes of its own, read inside the loop, was recorded.
ForeignIsRecorded == (at = "readPayload" /\ inLoop /\ fmt \in {0, 1}) => foreign

\* What the packet has and what it misses make up its declared size, unless an error
\* or another message's chunk spoilt the count.
Accounted ==
  /\ (at \notin {"loop", "readPayload"} /\ ~inLoop) => packet = Blank
  /\ (at # "loop" /\ ~inLoop) => payload = <<>>
  /\ (~error /\ ~foreign /\ packet # Blank) =>
       packet = Len(payload) + (IF at = "loop" THEN total - current ELSE total)

\* What the server still has to send is part of the last message.
LeftIsOfLast == left > 0 => Len(sent) >= 1 /\ left <= sent[Len(sent)]

TInv == ChunkTypeOK /\ LeftIsOfLast
IInv == TInv /\ Fits /\ ForeignIsRecorded /\ Accounted

\* ChunkTypeOK in two parts: what is in flight, and the rest.
WireOK == wire \in Seq(Tokens)
ServerOK ==
  /\ open \in BOOLEAN
  /\ sent \in Seq(Sizes) /\ left \in Nat
  /\ cause \subseteq {"saturated", "control", "compressed", "interleaved", "failure", "cut"}
ReaderOK ==
  /\ at \in Reading \cup {"receivePayload", "loop"} /\ inLoop \in BOOLEAN
  /\ fmt \in 0 .. 3 /\ extended \in BOOLEAN
  /\ header \in [size : Nat, type : {"media", "other"}]
  /\ total \in Nat /\ current \in 0 .. MaxSize
  /\ packet \in Nat \cup {Blank} /\ foreign \in BOOLEAN /\ error \in BOOLEAN
  /\ payload \in Seq(Tokens)
  /\ delivered \in Seq([size : Nat, bytes : Seq(Tokens)])

LEMMA Parts == ChunkTypeOK <=> WireOK /\ ServerOK /\ ReaderOK
BY DEF ChunkTypeOK, WireOK, ServerOK, ReaderOK

-----------------------------------------------------------------------------
(* Sequences of tokens.                                                    *)

LEMMA ChunkSizes ==
  ASSUME NEW n \in Int
  PROVE  /\ chunkSize(n) \in Int /\ chunkSize(n) <= n /\ chunkSize(n) <= MaxSize
         /\ n >= 0 => chunkSize(n) \in 0 .. MaxSize
         /\ chunkSize(n) <= 0 => n <= 0
         /\ firstChunk(n) = chunkSize(n)
BY SizeAssumption DEF chunkSize, firstChunk, Lesser

LEMMA BytesAreTokens ==
  ASSUME NEW m \in Nat, NEW a \in Nat, NEW b \in Int
  PROVE  Bytes(m, a, b) \in Seq(Tokens)
<1>1. CASE b - a + 1 \in Nat
  <2>1. \A i \in 1 .. (b - a + 1) : Byte(m, a + i - 1) \in Tokens
    BY DEF Byte, Tokens
  <2>2. Bytes(m, a, b) \in [1 .. (b - a + 1) -> Tokens]
    BY <2>1 DEF Bytes
  <2> QED BY <1>1, <2>2, SeqDef
<1>2. CASE b - a + 1 \notin Nat
  <2>1. 1 .. (b - a + 1) = 1 .. 0
    BY <1>2
  <2>2. Bytes(m, a, b) \in [1 .. 0 -> Tokens]
    BY <2>1 DEF Bytes
  <2> QED BY <2>2, SeqDef
<1> QED BY <1>1, <1>2

LEMMA HeaderIsTokens ==
  ASSUME NEW type \in 0 .. 3, NEW sat \in BOOLEAN, NEW n, NEW kind \in {"media", "other"},
         type \in {0, 1} => n \in Sizes
  PROVE  Header(type, sat, n, kind) \in Seq(Tokens)
<1> DEFINE a == << [field |-> "basic", value |-> type], [field |-> "timestamp", value |-> sat] >>
           b == IF type \in {0, 1}
                THEN << [field |-> "size", value |-> n], [field |-> "type", value |-> kind] >>
                ELSE <<>>
           c == IF type = 0 THEN << [field |-> "streamID", value |-> 0] >> ELSE <<>>
<1>1. a \in Seq(Tokens)
  BY DEF Tokens
<1>2. b \in Seq(Tokens)
  BY DEF Tokens
<1>3. c \in Seq(Tokens)
  <2>1. [field |-> "streamID", value |-> 0] \in Tokens
    BY DEF Tokens
  <2>2. << [field |-> "streamID", value |-> 0] >> \in Seq(Tokens)
    BY <2>1
  <2> QED BY <2>2, EmptySeq
<1> HIDE DEF a, b, c
<1>4. a \o b \o c \in Seq(Tokens)
  BY <1>1, <1>2, <1>3, ConcatProperties
<1> QED BY <1>4 DEF Header, a, b, c

\* the headers the server sends
LEMMA SentHeadersAreTokens ==
  /\ \A n \in Sizes, type \in {0, 1}, sat \in BOOLEAN, kind \in {"media", "other"} :
       Header(type, sat, n, kind) \in Seq(Tokens)
  /\ \A n : Header(2, FALSE, n, "media") \in Seq(Tokens)
<1>1. \A n \in Sizes, type \in {0, 1}, sat \in BOOLEAN, kind \in {"media", "other"} :
        Header(type, sat, n, kind) \in Seq(Tokens)
  <2> SUFFICES ASSUME NEW n \in Sizes, NEW type \in {0, 1}, NEW sat \in BOOLEAN,
                      NEW kind \in {"media", "other"}
               PROVE  Header(type, sat, n, kind) \in Seq(Tokens)
    OBVIOUS
  <2>1. type \in 0 .. 3 /\ (type \in {0, 1} => n \in Sizes)
    OBVIOUS
  <2> QED BY <2>1, HeaderIsTokens
<1>2. \A n : Header(2, FALSE, n, "media") \in Seq(Tokens)
  <2> TAKE n
  <2>1. 2 \in 0 .. 3 /\ FALSE \in BOOLEAN /\ "media" \in {"media", "other"}
        /\ (2 \in {0, 1} => n \in Sizes)
    OBVIOUS
  <2> QED BY <2>1, HeaderIsTokens
<1> QED BY <1>1, <1>2

LEMMA Suffixes ==
  ASSUME WireOK, NEW k \in 0 .. Len(wire)
  PROVE  /\ SubSeq(wire, k + 1, Len(wire)) \in Seq(Tokens)
         /\ SubSeq(wire, 1, k) \in Seq(Tokens)
         /\ Len(SubSeq(wire, 1, k)) = k
<1>1. Len(wire) \in Nat /\ \A i \in 1 .. Len(wire) : wire[i] \in Tokens
  BY LenProperties, ElementOfSeq DEF WireOK
<1>2. \A i \in (k + 1) .. Len(wire) : wire[i] \in Tokens
  BY <1>1
<1>3. \A i \in 1 .. k : wire[i] \in Tokens
  BY <1>1
<1>4. SubSeq(wire, k + 1, Len(wire)) \in Seq(Tokens)
  BY <1>1, <1>2, SubSeqProperties
<1>5. SubSeq(wire, 1, k) \in Seq(Tokens) /\ Len(SubSeq(wire, 1, k)) = k
  BY <1>1, <1>3, SubSeqProperties
<1> QED BY <1>4, <1>5

\* what a read returns belongs to the field, also when it is another field's bytes
LEMMA ReadsAreValues ==
  ASSUME WireOK, Len(wire) >= 1, NEW f \in {"basic", "timestamp", "size", "type"},
         NEW v \in Read(f)
  PROVE  v \in Values[f]
<1>1. Head(wire) \in Tokens
  BY HeadTailProperties, EmptySeq DEF WireOK
<1>2. Head(wire).field = f => Head(wire).value \in Values[f]
  BY <1>1 DEF Tokens, Values
<1> QED BY <1>2 DEF Read

-----------------------------------------------------------------------------
(* Type correctness, one lemma per side.                                   *)

LEMMA ServerKeepsType ==
  ASSUME TInv, sendHead \/ sendPiece \/ sendOther \/ drop
  PROVE  TInv'
<1>0. ReaderOK'
  <2>1. ReaderOK
    BY DEF TInv, ChunkTypeOK, ReaderOK, Reading
  <2>2. UNCHANGED <<chunk, round, delivered, at>>
    BY DEF sendHead, sendPiece, sendOther, drop
  <2> QED BY <2>1, <2>2 DEF ReaderOK, Reading, chunk, round
<1>1. CASE sendHead
  <2>1. PICK n \in Sizes, type \in {0, 1}, sat \in BOOLEAN :
          /\ wire' = wire \o Header(type, sat, n, "media")
                          \o Bytes(Len(sent) + 1, 1, firstChunk(n))
          /\ left' = n - firstChunk(n)
          /\ sent' = Append(sent, n)
          /\ cause' = IF sat THEN {"saturated"} ELSE cause
    BY <1>1 DEF sendHead
  <2>2. n \in Nat /\ Len(sent) \in Nat /\ firstChunk(n) \in Nat /\ firstChunk(n) <= n
    BY ChunkSizes, SizeAssumption, LenProperties DEF TInv, ChunkTypeOK
  <2>3. WireOK'
    <3>1. Header(type, sat, n, "media") \in Seq(Tokens)
      BY SentHeadersAreTokens
    <3>2. Bytes(Len(sent) + 1, 1, firstChunk(n)) \in Seq(Tokens)
      BY <2>2, BytesAreTokens
    <3> QED BY <2>1, <3>1, <3>2, ConcatProperties DEF TInv, ChunkTypeOK, WireOK
  <2>4. ServerOK'
    <3>1. sent' \in Seq(Sizes)
      BY <2>1, AppendProperties DEF TInv, ChunkTypeOK
    <3>2. left' \in Nat
      BY <2>1, <2>2
    <3>3. open' = open /\ cause' \in {cause, {"saturated"}}
      BY <1>1, <2>1 DEF sendHead
    <3> QED BY <3>1, <3>2, <3>3 DEF TInv, ChunkTypeOK, ServerOK
  <2>5. LeftIsOfLast'
    BY <2>1, <2>2, AppendProperties DEF TInv, ChunkTypeOK, LeftIsOfLast
  <2> QED BY <1>0, <2>3, <2>4, <2>5 DEF TInv, ChunkTypeOK, WireOK, ServerOK, ReaderOK
<1>2. CASE sendPiece
  <2> DEFINE k == firstChunk(left)
             m == Len(sent)
             from == sent[m] - left + 1
  <2>1. /\ k \in Nat /\ k <= left /\ left \in Nat /\ left > 0
        /\ m \in Nat /\ from \in Nat /\ sent[m] \in Nat /\ left <= sent[m]
    <3>1. left \in Nat /\ left > 0 /\ m \in Nat /\ m >= 1 /\ left <= sent[m]
      BY <1>2, LenProperties DEF TInv, ChunkTypeOK, LeftIsOfLast, sendPiece
    <3>2. sent[m] \in Nat
      <4>1. m \in 1 .. Len(sent)
        BY <3>1
      <4>2. sent \in Seq(Sizes)
        BY DEF TInv, ChunkTypeOK
      <4> HIDE DEF m
      <4>3. sent[m] \in Sizes
        BY <4>1, <4>2, ElementOfSeq
      <4> QED BY <4>3, SizeAssumption
    <3>3. k \in Nat /\ k <= left
      BY <3>1, ChunkSizes
    <3> QED BY <3>1, <3>2, <3>3
  <2>2. ServerOK'
    BY <1>2, <2>1, SMTT(60) DEF sendPiece, TInv, ChunkTypeOK, ServerOK
  <2>3. LeftIsOfLast'
    BY <1>2, <2>1 DEF sendPiece, TInv, LeftIsOfLast
  <2>4. WireOK'
    <3>1. << [field |-> "basic", value |-> 3] >> \in Seq(Tokens)
      <4>1. [field |-> "basic", value |-> 3] \in Tokens
        BY DEF Tokens
      <4> QED BY <4>1
    <3>2. Bytes(m, from, from + k - 1) \in Seq(Tokens)
      <4>1. m \in Nat /\ from \in Nat /\ from + k - 1 \in Int
        BY <2>1
      <4> HIDE DEF k, m, from
      <4> QED BY <4>1, BytesAreTokens
    <3>3. wire' = wire \o << [field |-> "basic", value |-> 3] >> \o Bytes(m, from, from + k - 1)
      BY <1>2 DEF sendPiece
    <3> HIDE DEF k, m, from
    <3> QED BY <3>1, <3>2, <3>3, ConcatProperties DEF TInv, ChunkTypeOK, WireOK
  <2> QED BY <1>0, <2>2, <2>3, <2>4 DEF TInv, ChunkTypeOK, WireOK, ServerOK, ReaderOK
<1>3. CASE sendOther
  <2>1. \E h, b \in Seq(Tokens) : wire' = wire \o h \o b
    <3>1. CASE \E n \in Sizes : wire' = wire \o Header(0, FALSE, n, "other") \o Bytes(0, 1, n)
      <4>1. PICK n \in Sizes : wire' = wire \o Header(0, FALSE, n, "other") \o Bytes(0, 1, n)
        BY <3>1
      <4>2. Header(0, FALSE, n, "other") \in Seq(Tokens)
        BY SentHeadersAreTokens
      <4>3. Bytes(0, 1, n) \in Seq(Tokens)
        BY BytesAreTokens, SizeAssumption
      <4> QED BY <4>1, <4>2, <4>3
    <3>2. CASE wire' = wire \o Header(2, FALSE, MaxSize, "media") \o Bytes(0, 1, MaxSize)
      <4>1. Header(2, FALSE, MaxSize, "media") \in Seq(Tokens)
        BY SentHeadersAreTokens
      <4>2. Bytes(0, 1, MaxSize) \in Seq(Tokens)
        BY BytesAreTokens, SizeAssumption
      <4> QED BY <3>2, <4>1, <4>2
    <3>3. CASE \E n \in Sizes : wire' = wire \o Header(0, FALSE, n, "media") \o Bytes(0, 1, n)
      <4>1. PICK n \in Sizes : wire' = wire \o Header(0, FALSE, n, "media") \o Bytes(0, 1, n)
        BY <3>3
      <4>2. Header(0, FALSE, n, "media") \in Seq(Tokens)
        BY SentHeadersAreTokens
      <4>3. Bytes(0, 1, n) \in Seq(Tokens)
        BY BytesAreTokens, SizeAssumption
      <4> QED BY <4>1, <4>2, <4>3
    <3> QED BY <1>3, <3>1, <3>2, <3>3 DEF sendOther
  <2>2. WireOK'
    BY <2>1, ConcatProperties DEF TInv, ChunkTypeOK, WireOK
  <2>3. ServerOK' /\ LeftIsOfLast'
    BY <1>3 DEF sendOther, TInv, ChunkTypeOK, ServerOK, LeftIsOfLast, server
  <2> QED BY <1>0, <2>2, <2>3 DEF TInv, ChunkTypeOK, WireOK, ServerOK, ReaderOK
<1>4. CASE drop
  BY <1>0, <1>4, EmptySeq DEF drop, Lost, TInv, ChunkTypeOK, LeftIsOfLast, WireOK, ServerOK,
       ReaderOK, server
<1> QED BY <1>1, <1>2, <1>3, <1>4

\* a chunk that fails leaves the reader in the loop, or at the start of a round
LEMMA FailureKeepsType ==
  ASSUME ChunkTypeOK, ChunkFails, total' \in Nat, UNCHANGED <<chunk, delivered>>
  PROVE  ReaderOK'
<1>0. 0 \in 0 .. MaxSize
  BY SizeAssumption
<1>1. CASE inLoop
  BY <1>0, <1>1 DEF ChunkFails, ChunkTypeOK, ReaderOK, Reading, chunk
<1>2. CASE ~inLoop
  <2>1. NewRound
    BY <1>2 DEF ChunkFails
  <2> QED BY <1>0, <2>1, EmptySeq DEF NewRound, ChunkTypeOK, ReaderOK, Reading, chunk
<1>3. inLoop \in BOOLEAN
  BY DEF ChunkTypeOK
<1> QED BY <1>1, <1>2, <1>3

LEMMA ReaderKeepsType ==
  ASSUME TInv, Reader \/ readFails
  PROVE  TInv'
<1>0. /\ ChunkTypeOK /\ LeftIsOfLast
      /\ MaxSize \in Nat /\ MaxSize > 0 /\ Sizes \subseteq Nat
  BY SizeAssumption DEF TInv
<1>1. ServerOK' /\ LeftIsOfLast'
  BY <1>0 DEF ChunkTypeOK, LeftIsOfLast, ServerOK, Reader, receiveChunk, receiveTimestamp,
       receiveBodySize, receiveMessageType, receiveExtentedTimestamp, receiveStreamID,
       receivePayload, readPayload, loop, readFails, Lost, Took, server, connection
<1>2. \A k \in Nat : Len(wire) >= k /\ Took(k) => WireOK'
  BY <1>0, Suffixes, LenProperties DEF ChunkTypeOK, WireOK, Took
<1>3. CASE receiveChunk \/ receiveTimestamp \/ receiveBodySize \/ receiveMessageType
             \/ receiveExtentedTimestamp \/ receiveStreamID
  <2>1. WireOK'
    BY <1>2, <1>3 DEF receiveChunk, receiveTimestamp, receiveBodySize, receiveMessageType,
         receiveExtentedTimestamp, receiveStreamID, Reads
  <2>2. fmt' \in 0 .. 3 /\ extended' \in BOOLEAN
        /\ header' \in [size : Nat, type : {"media", "other"}]
    <3>1. Len(wire) >= 1 /\ WireOK
      BY <1>0, <1>3 DEF receiveChunk, receiveTimestamp, receiveBodySize, receiveMessageType,
           receiveExtentedTimestamp, receiveStreamID, Reads, ChunkTypeOK, WireOK
    <3>2. /\ Read("basic") \subseteq 0 .. 3 /\ Read("timestamp") \subseteq BOOLEAN
          /\ Read("size") \subseteq Sizes /\ Read("type") \subseteq {"media", "other"}
      BY <3>1, ReadsAreValues DEF Values
    <3> QED BY <1>0, <1>3, <3>2 DEF ChunkTypeOK, receiveChunk, receiveTimestamp, receiveBodySize,
              receiveMessageType, receiveExtentedTimestamp, receiveStreamID, chunk
  <2>3. at' \in Reading \cup {"receivePayload", "loop"}
    BY <1>3 DEF receiveChunk, receiveTimestamp, receiveBodySize, receiveMessageType,
         receiveExtentedTimestamp, receiveStreamID, AfterType, Reading
  <2>4. UNCHANGED <<round, delivered>>
    BY <1>3 DEF receiveChunk, receiveTimestamp, receiveBodySize, receiveMessageType,
         receiveExtentedTimestamp, receiveStreamID
  <2>5. ReaderOK'
    BY <1>0, <2>2, <2>3, <2>4 DEF ChunkTypeOK, ReaderOK, round
  <2> QED BY <1>1, <2>1, <2>5 DEF TInv, ChunkTypeOK, WireOK, ServerOK, ReaderOK
<1>4. CASE receivePayload
  <2>1. WireOK'
    BY <1>0, <1>4 DEF receivePayload, connection, ChunkTypeOK, WireOK
  <2>2. header.size \in Nat /\ chunkSize(header.size) \in 0 .. MaxSize
    <3>1. header.size \in Nat
      BY <1>0 DEF ChunkTypeOK
    <3> QED BY <3>1, ChunkSizes
  <2>3. ReaderOK'
    <3>1. CASE fmt \in {0, 1} /\ header.type = "other"
      <4>1. ChunkFails /\ total' \in {header.size, 0} /\ UNCHANGED <<chunk, delivered>>
        BY <1>4, <3>1 DEF receivePayload
      <4> QED BY <1>0, <2>2, <4>1, FailureKeepsType
    <3>2. CASE ~(fmt \in {0, 1} /\ header.type = "other")
      <4>1. at' \in Reading
        BY <1>4, <3>2 DEF receivePayload, Reading
      <4>2. total' \in Nat /\ current' \in 0 .. MaxSize /\ foreign' \in BOOLEAN
        BY <1>0, <1>4, <2>2, <3>2 DEF receivePayload, ChunkTypeOK
      <4>3. packet' \in Nat \cup {Blank}
        BY <1>0, <1>4, <2>2, <3>2 DEF receivePayload, ChunkTypeOK
      <4> QED BY <1>0, <1>4, <3>2, <4>1, <4>2, <4>3 DEF receivePayload, ChunkTypeOK, ReaderOK, chunk
    <3> QED BY <3>1, <3>2
  <2> QED BY <1>1, <2>1, <2>3 DEF TInv, ChunkTypeOK, WireOK, ServerOK, ReaderOK
<1>5. CASE readPayload
  <2>1. Len(wire) >= current /\ current \in Nat /\ Took(current) /\ current \in 0 .. Len(wire)
    BY <1>0, <1>5, LenProperties DEF readPayload, Reads, ChunkTypeOK
  <2>2. WireOK'
    BY <1>2, <2>1
  <2>3. payload' \in Seq(Tokens)
    <3>1. SubSeq(wire, 1, current) \in Seq(Tokens)
      BY <1>0, <2>1, Suffixes DEF ChunkTypeOK, WireOK
    <3>2. payload' = payload \o SubSeq(wire, 1, current) \/ payload' = payload
      BY <1>5 DEF readPayload
    <3>3. payload \in Seq(Tokens)
      BY <1>0 DEF ChunkTypeOK
    <3>4. payload \o SubSeq(wire, 1, current) \in Seq(Tokens)
      BY <3>1, <3>3, ConcatProperties
    <3> QED BY <3>2, <3>3, <3>4
  <2>4. ReaderOK'
    BY <1>0, <1>5, <2>3 DEF readPayload, ChunkTypeOK, ReaderOK, chunk
  <2> QED BY <1>1, <2>2, <2>4 DEF TInv, ChunkTypeOK, WireOK, ServerOK, ReaderOK
<1>6. CASE loop
  <2>1. WireOK'
    BY <1>0, <1>6 DEF loop, connection, ChunkTypeOK, WireOK
  <2>2. ReaderOK'
    <3>1. CASE chunkSize(nextChunkSize) > 0
      <4>1. nextChunkSize \in Nat /\ chunkSize(nextChunkSize) \in 0 .. MaxSize
        <5>1. nextChunkSize \in Int
          BY <1>0 DEF ChunkTypeOK, nextChunkSize
        <5> QED BY <3>1, <5>1, ChunkSizes
      <4> QED BY <1>0, <1>6, <3>1, <4>1 DEF loop, ChunkTypeOK, ReaderOK, Reading, chunk
    <3>2. CASE ~(chunkSize(nextChunkSize) > 0)
      <4>1. Deliver /\ NewRound /\ UNCHANGED chunk
        BY <1>6, <3>2 DEF loop
      <4>2. delivered' \in Seq([size : Nat, bytes : Seq(Tokens)])
        <5>1. CASE delivered' = delivered
          BY <1>0, <5>1 DEF ChunkTypeOK
        <5>2. CASE /\ packet # Blank
                   /\ delivered' = Append(delivered, [size |-> packet, bytes |-> payload])
          <6>1. [size |-> packet, bytes |-> payload] \in [size : Nat, bytes : Seq(Tokens)]
            BY <1>0, <5>2 DEF ChunkTypeOK
          <6> QED BY <1>0, <5>2, <6>1, AppendProperties DEF ChunkTypeOK
        <5> QED BY <4>1, <5>1, <5>2 DEF Deliver
      <4>3. 0 \in 0 .. MaxSize
        BY <1>0
      <4> QED BY <1>0, <4>1, <4>2, <4>3, EmptySeq DEF NewRound, ChunkTypeOK, ReaderOK, Reading,
            chunk
    <3> QED BY <3>1, <3>2
  <2> QED BY <1>1, <2>1, <2>2 DEF TInv, ChunkTypeOK, WireOK, ServerOK, ReaderOK
<1>7. CASE readFails
  <2>1. WireOK'
    <3>1. CASE wire' = <<>>
      BY <3>1, EmptySeq DEF WireOK
    <3>2. CASE \E k \in 0 .. Lesser(Wanted, Len(wire)) : wire' = SubSeq(wire, k + 1, Len(wire))
      <4>1. PICK k \in 0 .. Lesser(Wanted, Len(wire)) : wire' = SubSeq(wire, k + 1, Len(wire))
        BY <3>2
      <4>2. Wanted \in Nat /\ Len(wire) \in Nat
        BY <1>0, LenProperties DEF Wanted, ChunkTypeOK
      <4>3. k \in 0 .. Len(wire)
        BY <4>1, <4>2 DEF Lesser
      <4> QED BY <1>0, <4>1, <4>3, Suffixes DEF ChunkTypeOK, WireOK
    <3> QED BY <1>7, <3>1, <3>2 DEF readFails, Lost
  <2>2. ReaderOK'
    <3>1. ChunkFails /\ total' \in Nat /\ UNCHANGED <<chunk, delivered>>
      BY <1>0, <1>7 DEF readFails, ChunkTypeOK
    <3> QED BY <1>0, <3>1, FailureKeepsType
  <2> QED BY <1>1, <2>1, <2>2 DEF TInv, ChunkTypeOK, WireOK, ServerOK, ReaderOK
<1> QED BY <1>3, <1>4, <1>5, <1>6, <1>7 DEF Reader

LEMMA NextKeepsType ==
  ASSUME TInv, [ChunkNext]_chunkVars
  PROVE  TInv'
<1>1. CASE sendHead \/ sendPiece \/ sendOther \/ drop
  BY <1>1, ServerKeepsType
<1>2. CASE Reader \/ readFails
  BY <1>2, ReaderKeepsType
<1>3. CASE UNCHANGED chunkVars
  BY <1>3 DEF TInv, ChunkTypeOK, LeftIsOfLast, chunkVars, connection, server, chunk, round
<1> QED BY <1>1, <1>2, <1>3 DEF ChunkNext

LEMMA InitIsTyped ==
  ASSUME ChunkInit
  PROVE  TInv
<1>1. 0 \in 0 .. MaxSize
  BY SizeAssumption
<1>2. /\ <<>> \in Seq(Sizes) /\ <<>> \in Seq(Tokens)
      /\ <<>> \in Seq([size : Nat, bytes : Seq(Tokens)])
  BY EmptySeq
<1>3. WireOK /\ ServerOK
  BY <1>2 DEF ChunkInit, WireOK, ServerOK
<1>4. /\ payload \in Seq(Tokens)
      /\ delivered \in Seq([size : Nat, bytes : Seq(Tokens)])
  BY <1>2 DEF ChunkInit
<1>5. ReaderOK
  <2>1. at \in Reading /\ fmt \in 0 .. 3
    BY DEF ChunkInit, Reading
  <2>2. header \in [size : Nat, type : {"media", "other"}]
    BY DEF ChunkInit
  <2>3. total \in Nat /\ current \in 0 .. MaxSize /\ packet \in Nat \cup {Blank}
    BY <1>1 DEF ChunkInit
  <2>4. inLoop \in BOOLEAN /\ extended \in BOOLEAN /\ foreign \in BOOLEAN /\ error \in BOOLEAN
    BY DEF ChunkInit
  <2> QED BY <1>4, <2>1, <2>2, <2>3, <2>4 DEF ReaderOK
<1>6. LeftIsOfLast
  BY DEF ChunkInit, LeftIsOfLast
<1> QED BY <1>3, <1>5, <1>6, Parts DEF TInv

\* Whatever bytes the reader takes for a header and whichever reads fail, its state
\* keeps its type: no size is negative and no chunk longer than the chunk size.
THEOREM ReaderTypeCorrect == ChunkSpec => []ChunkTypeOK
<1>1. ChunkInit => TInv
  BY InitIsTyped
<1>2. TInv /\ [ChunkNext]_chunkVars => TInv'
  BY NextKeepsType
<1>3. TInv => ChunkTypeOK
  BY DEF TInv
<1> QED BY <1>1, <1>2, <1>3, PTL DEF ChunkSpec

-----------------------------------------------------------------------------
(* The size arithmetic.                                                    *)

\* No step makes a chunk longer than what is missing of the packet.
LEMMA NextKeepsFits ==
  ASSUME ChunkTypeOK, Fits, [ChunkNext]_chunkVars
  PROVE  Fits'
<1>0. total \in Nat /\ current \in Nat /\ header.size \in Nat /\ 0 \in Int
  BY SizeAssumption DEF ChunkTypeOK
<1>1. CASE receivePayload
  <2>1. chunkSize(header.size) <= header.size
    BY <1>0, ChunkSizes
  <2> QED BY <1>0, <1>1, <2>1 DEF receivePayload, ChunkFails, NewRound, Fits
<1>2. CASE loop
  <2>1. nextChunkSize \in Int /\ chunkSize(nextChunkSize) <= nextChunkSize
    <3>1. nextChunkSize \in Int
      BY <1>0 DEF nextChunkSize
    <3> QED BY <3>1, ChunkSizes
  <2> QED BY <1>0, <1>2, <2>1 DEF loop, NewRound, Fits
<1>3. CASE readFails
  BY <1>0, <1>3 DEF readFails, ChunkFails, NewRound, Fits
<1>4. CASE UNCHANGED <<total, current>>
  BY <1>4 DEF Fits
<1>5. ASSUME sendHead \/ sendPiece \/ sendOther \/ drop
             \/ receiveChunk \/ receiveTimestamp \/ receiveBodySize \/ receiveMessageType
             \/ receiveExtentedTimestamp \/ receiveStreamID \/ readPayload \/ UNCHANGED chunkVars
      PROVE  UNCHANGED <<total, current>>
  BY <1>5 DEF sendHead, sendPiece, sendOther, drop, receiveChunk, receiveTimestamp,
       receiveBodySize, receiveMessageType, receiveExtentedTimestamp, receiveStreamID,
       readPayload, chunkVars, round
<1> QED BY <1>1, <1>2, <1>3, <1>4, <1>5 DEF ChunkNext, Reader

\* totalSize - chunkSize, an unsigned difference, never wraps to a huge size.
THEOREM NeverUnderflows == ChunkSpec => []NoUnderflow
<1>0. ChunkInit => Fits
  BY DEF ChunkInit, Fits
<1>1. ChunkInit => TInv /\ Fits
  BY <1>0, InitIsTyped
<1>2. (TInv /\ Fits) /\ [ChunkNext]_chunkVars => (TInv /\ Fits)'
  BY NextKeepsType, NextKeepsFits DEF TInv
<1>3. TInv /\ Fits => NoUnderflow
  BY DEF Fits, NoUnderflow
<1> QED BY <1>1, <1>2, <1>3, PTL DEF ChunkSpec

-----------------------------------------------------------------------------
(* What a delivered packet holds.                                          *)

LEMMA NewRoundIsAccounted ==
  ASSUME NewRound
  PROVE  (ForeignIsRecorded /\ Accounted)'
BY DEF NewRound, ForeignIsRecorded, Accounted

LEMMA FailureIsAccounted ==
  ASSUME ChunkFails
  PROVE  (ForeignIsRecorded /\ Accounted)'
<1>1. CASE inLoop
  BY <1>1 DEF ChunkFails, ForeignIsRecorded, Accounted
<1>2. CASE ~inLoop
  BY <1>2, NewRoundIsAccounted DEF ChunkFails
<1> QED BY <1>1, <1>2

LEMMA NextKeepsAccounted ==
  ASSUME IInv, [ChunkNext]_chunkVars
  PROVE  (ForeignIsRecorded /\ Accounted)'
<1>0. /\ ChunkTypeOK /\ Fits /\ ForeignIsRecorded /\ Accounted
      /\ total \in Nat /\ current \in Nat /\ header.size \in Nat
      /\ fmt \in 0 .. 3 /\ inLoop \in BOOLEAN /\ foreign \in BOOLEAN /\ error \in BOOLEAN
  BY SizeAssumption DEF IInv, TInv, ChunkTypeOK
<1>1. CASE sendHead \/ sendPiece \/ sendOther \/ drop \/ UNCHANGED chunkVars
  <2>1. UNCHANGED <<at, chunk, round>>
    BY <1>1 DEF sendHead, sendPiece, sendOther, drop, chunkVars
  <2>2. UNCHANGED <<at, fmt, inLoop, total, current, packet, payload, foreign, error>>
    BY <2>1 DEF chunk, round
  <2> QED BY <1>0, <2>2 DEF ForeignIsRecorded, Accounted
<1>2. CASE receiveChunk \/ receiveTimestamp \/ receiveBodySize \/ receiveMessageType
             \/ receiveExtentedTimestamp \/ receiveStreamID
  <2>1. /\ at \notin {"loop", "readPayload"} /\ at' \notin {"loop", "readPayload"}
        /\ UNCHANGED round
    BY <1>2 DEF receiveChunk, receiveTimestamp, receiveBodySize, receiveMessageType,
         receiveExtentedTimestamp, receiveStreamID, Reads, AfterType
  <2> QED BY <1>0, <2>1 DEF round, ForeignIsRecorded, Accounted
<1>3. CASE receivePayload
  <2>1. CASE fmt \in {0, 1} /\ header.type = "other"
    BY <1>0, <1>3, <2>1, FailureIsAccounted DEF receivePayload
  <2>2. CASE fmt \in {0, 1} /\ header.type # "other"
    <3>1. /\ at = "receivePayload" /\ at' = "readPayload"
          /\ total' = header.size /\ foreign' = (foreign \/ inLoop)
          /\ packet' = IF inLoop THEN packet ELSE header.size
          /\ UNCHANGED <<fmt, inLoop, payload, error>>
      BY <1>3, <2>2 DEF receivePayload, chunk
    <3>2. CASE inLoop
      BY <1>0, <3>1, <3>2 DEF ForeignIsRecorded, Accounted
    <3>3. CASE ~inLoop
      <4>1. payload = <<>> /\ Len(<<>>) = 0
        BY <1>0, <3>1, <3>3, EmptySeq DEF Accounted
      <4> QED BY <1>0, <3>1, <3>3, <4>1 DEF ForeignIsRecorded, Accounted
    <3> QED BY <1>0, <3>2, <3>3
  <2>3. CASE fmt \notin {0, 1}
    <3>1. /\ at = "receivePayload" /\ at' = "readPayload"
          /\ UNCHANGED <<fmt, inLoop, total, foreign, packet, payload, error>>
      BY <1>3, <2>3 DEF receivePayload, chunk
    <3> QED BY <1>0, <2>3, <3>1 DEF ForeignIsRecorded, Accounted
  <2> QED BY <2>1, <2>2, <2>3
<1>4. CASE readPayload
  <2>1. /\ at = "readPayload" /\ at' = "loop"
        /\ payload' = IF keeps THEN payload \o SubSeq(wire, 1, current) ELSE payload
        /\ UNCHANGED <<fmt, inLoop, total, current, packet, foreign, error>>
    BY <1>4 DEF readPayload, Reads, chunk
  <2>2. CASE keeps
    <3>1. current \in 0 .. Len(wire) /\ WireOK
      BY <1>0, <1>4, LenProperties DEF readPayload, Reads, ChunkTypeOK, WireOK
    <3>2. /\ SubSeq(wire, 1, current) \in Seq(Tokens)
          /\ Len(SubSeq(wire, 1, current)) = current
      BY <3>1, Suffixes
    <3>3. payload \in Seq(Tokens) /\ Len(payload) \in Nat
      BY <1>0, LenProperties DEF ChunkTypeOK
    <3>4. Len(payload') = Len(payload) + current
      BY <2>1, <2>2, <3>2, <3>3, ConcatProperties
    <3> QED BY <1>0, <2>1, <3>3, <3>4 DEF ForeignIsRecorded, Accounted
  <2>3. CASE ~keeps
    <3>1. foreign
      BY <1>0, <2>1, <2>3 DEF keeps, ForeignIsRecorded
    <3> QED BY <2>1, <3>1 DEF ForeignIsRecorded, Accounted
  <2> QED BY <2>2, <2>3
<1>5. CASE loop
  <2>1. CASE chunkSize(nextChunkSize) > 0
    <3>1. /\ at = "loop" /\ at' = "receiveChunk" /\ inLoop' = TRUE
          /\ total' = total - current
          /\ UNCHANGED <<packet, payload, foreign, error>>
      BY <1>5, <2>1 DEF loop, nextChunkSize
    <3> QED BY <1>0, <3>1 DEF ForeignIsRecorded, Accounted
  <2>2. CASE ~(chunkSize(nextChunkSize) > 0)
    BY <1>5, <2>2, NewRoundIsAccounted DEF loop
  <2> QED BY <2>1, <2>2
<1>6. CASE readFails
  BY <1>0, <1>6, FailureIsAccounted DEF readFails
<1> QED BY <1>1, <1>2, <1>3, <1>4, <1>5, <1>6 DEF ChunkNext, Reader

LEMMA NextKeepsIInv ==
  ASSUME IInv, [ChunkNext]_chunkVars
  PROVE  IInv'
BY NextKeepsType, NextKeepsFits, NextKeepsAccounted DEF IInv, TInv

LEMMA InitIsAccounted ==
  ASSUME ChunkInit
  PROVE  IInv
<1>1. Fits /\ ForeignIsRecorded
  BY DEF ChunkInit, Fits, ForeignIsRecorded
<1>2. Accounted
  BY DEF ChunkInit, Accounted
<1> QED BY <1>1, <1>2, InitIsTyped DEF IInv

\* A packet is given to the delegate with exactly the bytes its header declared, unless
\* the header of another message was read between its chunks.
THEOREM DeclaredLength == ChunkSpec => LengthIsDeclared
<1>1. ChunkInit => IInv
  BY InitIsAccounted
<1>2. IInv /\ [ChunkNext]_chunkVars => IInv'
  BY NextKeepsIInv
<1>3. IInv /\ [ChunkNext]_chunkVars => [delivered' # delivered
        => (Len(payload) = packet \/ foreign)]_chunkVars
  <2> SUFFICES ASSUME IInv, ChunkNext, delivered' # delivered
               PROVE  Len(payload) = packet \/ foreign
    BY DEF chunkVars
  <2>1. /\ at = "loop" /\ Deliver
        /\ ~(chunkSize(nextChunkSize) > 0)
    BY DEF ChunkNext, Reader, sendHead, sendPiece, sendOther, drop, receiveChunk,
         receiveTimestamp, receiveBodySize, receiveMessageType, receiveExtentedTimestamp,
         receiveStreamID, receivePayload, readPayload, readFails, loop
  <2>2. ~error /\ packet # Blank
    BY <2>1 DEF Deliver
  <2>3. total \in Nat /\ current \in Nat /\ current <= total
    BY SizeAssumption DEF IInv, TInv, ChunkTypeOK, Fits
  <2>4. total - current = 0
    BY <2>1, <2>3, ChunkSizes DEF nextChunkSize
  <2>5. payload \in Seq(Tokens) /\ Len(payload) \in Nat
    BY LenProperties DEF IInv, TInv, ChunkTypeOK
  <2> QED BY <2>1, <2>2, <2>4, <2>5 DEF IInv, Accounted
<1> QED BY <1>1, <1>2, <1>3, PTL DEF ChunkSpec, LengthIsDeclared

-----------------------------------------------------------------------------
(* What the messages sent come to, message by message.                      *)

\* Induction over the naturals, from there being a smallest counterexample: a lemma with
\* an operator for a parameter could not be used.
LEMMA Induct ==
  ASSUME NEW T \in SUBSET Nat, 0 \in T, \A n \in T : n + 1 \in T
  PROVE  T = Nat
<1> DEFINE U == Nat \ T
<1>1. SUFFICES ASSUME U # {} PROVE FALSE
  OBVIOUS
<1>2. PICK n \in U : \A m \in U : <<m, n>> \notin OpToRel(<, Nat)
  <2> HIDE DEF U
  <2>1. U \subseteq Nat
    BY DEF U
  <2> QED BY <1>1, <2>1, NatLessThanWellFounded, WFMin
<1>3. \A m \in U : ~ (m < n)
  BY <1>2 DEF OpToRel
<1> QED BY <1>3

\* a packet given to the delegate
Packets == [size : Nat, bytes : Seq(Tokens)]

\* the packets given of the first m messages, from those of the messages before the last
After(given, s, m) ==
  IF s[m] = 0 THEN given ELSE Append(given, [size |-> s[m], bytes |-> Bytes(m, 1, s[m])])
UpTo(n, s, g) == g = [m \in 0 .. n |-> IF m = 0 THEN <<>> ELSE After(g[m - 1], s, m)]
Given(s) == CHOOSE g : UpTo(Len(s), s, g)

\* The packets of the first n messages exist, for every n,
LEMMA GivenUpTo ==
  ASSUME NEW s, NEW n \in Nat
  PROVE  \E g : UpTo(n, s, g)
<1> DEFINE T == {k \in Nat : \E g : UpTo(k, s, g)}
<1>1. 0 \in T
  <2>1. UpTo(0, s, [m \in 0 .. 0 |-> <<>>])
    BY DEF UpTo
  <2> QED BY <2>1
<1>2. ASSUME NEW k \in T PROVE k + 1 \in T
  <2>1. PICK g : UpTo(k, s, g)
    OBVIOUS
  <2> DEFINE h == [m \in 0 .. (k + 1) |-> IF m <= k THEN g[m] ELSE After(g[k], s, k + 1)]
             e == [m \in 0 .. (k + 1) |-> IF m = 0 THEN <<>> ELSE After(h[m - 1], s, m)]
  <2>2. ASSUME NEW m \in 0 .. (k + 1) PROVE h[m] = e[m]
    <3>1. CASE m = 0
      <4>1. g[0] = <<>>
        BY <2>1 DEF UpTo
      <4> QED BY <3>1, <4>1
    <3>2. CASE m \in 1 .. k
      <4>1. g[m] = After(g[m - 1], s, m)
        BY <2>1, <3>2 DEF UpTo
      <4>2. h[m] = g[m] /\ h[m - 1] = g[m - 1]
        BY <3>2
      <4> HIDE DEF h
      <4> QED BY <3>2, <4>1, <4>2
    <3>3. CASE m = k + 1
      <4>1. h[m] = After(g[k], s, k + 1) /\ h[m - 1] = g[k]
        BY <3>3
      <4> HIDE DEF h
      <4> QED BY <3>3, <4>1
    <3> QED BY <3>1, <3>2, <3>3
  <2>3. h = e
    <3>1. DOMAIN h = 0 .. (k + 1) /\ DOMAIN e = 0 .. (k + 1)
      OBVIOUS
    <3> QED BY <2>2, <3>1
  <2>4. UpTo(k + 1, s, h)
    <3> HIDE DEF h
    <3> QED BY <2>3 DEF UpTo
  <2> QED BY <2>4
<1>3. T = Nat
  <2> HIDE DEF T
  <2> QED BY <1>1, <1>2, Induct, T \subseteq Nat DEF T
<1> QED BY <1>3

\* and what comes with each message is what After says.
LEMMA GivenIs ==
  ASSUME NEW s \in Seq(Nat)
  PROVE  Given(s)[0] = <<>> /\ \A m \in 1 .. Len(s) : Given(s)[m] = After(Given(s)[m - 1], s, m)
<1>1. Len(s) \in Nat
  BY LenProperties
<1>2. UpTo(Len(s), s, Given(s))
  BY <1>1, GivenUpTo DEF Given
<1>3. ASSUME NEW n \in Nat, NEW g, UpTo(n, s, g)
      PROVE  g[0] = <<>> /\ \A m \in 1 .. n : g[m] = After(g[m - 1], s, m)
  <2>1. g[0] = <<>>
    BY <1>3 DEF UpTo
  <2>2. ASSUME NEW m \in 1 .. n PROVE g[m] = After(g[m - 1], s, m)
    BY <1>3 DEF UpTo
  <2> QED BY <2>1, <2>2
<1> QED BY <1>1, <1>2, <1>3

\* the property's own recursion, over all the messages sent
LEMMA MessagesAreGiven == Messages = Given(sent)[Len(sent)]
BY DEF Messages, Given, UpTo, After, Whole

\* induction over the messages of a sequence
LEMMA InductTo ==
  ASSUME NEW n \in Nat, NEW T \in SUBSET (0 .. n), 0 \in T, \A k \in T : k < n => k + 1 \in T
  PROVE  T = 0 .. n
<1> DEFINE U == T \cup {k \in Nat : k > n}
<1>0. \A k \in T : k \in Nat /\ k <= n
  OBVIOUS
<1>1. U \subseteq Nat /\ 0 \in U
  BY <1>0
<1>2. ASSUME NEW k \in U PROVE k + 1 \in U
  <2>1. CASE k \in T /\ k < n
    BY <2>1
  <2>2. CASE k >= n
    BY <1>1, <2>2
  <2> QED BY <2>1, <2>2
<1>3. U = Nat
  <2> HIDE DEF U
  <2> QED BY <1>1, <1>2, Induct, U \in SUBSET Nat
<1>4. \A k \in 0 .. n : k \in T
  BY <1>3
<1> QED BY <1>4

\* what the pieces of a message and the packets given are made of
LEMMA NatsAreTokens ==
  ASSUME NEW m \in Nat, NEW n \in Nat
  PROVE  Bytes(m, 1, n) \in Seq(Tokens)
<1>1. 1 \in Nat /\ n \in Int
  OBVIOUS
<1> QED BY <1>1, BytesAreTokens

LEMMA GivenTyped ==
  ASSUME NEW s \in Seq(Nat)
  PROVE  \A m \in 0 .. Len(s) : Given(s)[m] \in Seq(Packets)
<1> DEFINE T == {m \in 0 .. Len(s) : Given(s)[m] \in Seq(Packets)}
<1>0. Len(s) \in Nat /\ \A m \in 1 .. Len(s) : s[m] \in Nat
  BY LenProperties, ElementOfSeq
<1>1. 0 \in T
  <2>1. Given(s)[0] \in Seq(Packets)
    BY GivenIs, EmptySeq
  <2> QED BY <1>0, <2>1
<1>2. ASSUME NEW k \in T, k < Len(s) PROVE k + 1 \in T
  <2>1. k + 1 \in 1 .. Len(s) /\ Given(s)[k + 1] = After(Given(s)[k], s, k + 1)
    BY <1>0, <1>2, GivenIs
  <2>2. s[k + 1] \in Nat /\ Bytes(k + 1, 1, s[k + 1]) \in Seq(Tokens)
    <3>1. k + 1 \in Nat /\ s[k + 1] \in Nat
      BY <1>0, <2>1
    <3> QED BY <3>1, NatsAreTokens
  <2>3. [size |-> s[k + 1], bytes |-> Bytes(k + 1, 1, s[k + 1])] \in Packets
    BY <2>2 DEF Packets
  <2>4. After(Given(s)[k], s, k + 1) \in Seq(Packets)
    BY <2>3, AppendProperties DEF After
  <2> QED BY <2>1, <2>4
<1>3. T = 0 .. Len(s)
  <2>1. T \in SUBSET (0 .. Len(s))
    OBVIOUS
  <2> HIDE DEF T
  <2> QED BY <1>0, <1>1, <1>2, <2>1, InductTo
<1> QED BY <1>3

\* what was given of fewer messages comes first
IsPrefixOf(a, b) == Len(a) <= Len(b) /\ a = SubSeq(b, 1, Len(a))

LEMMA AppendHasPrefix ==
  ASSUME NEW S, NEW a \in Seq(S), NEW b \in Seq(S), NEW e \in S, IsPrefixOf(a, b)
  PROVE  IsPrefixOf(a, Append(b, e)) /\ IsPrefixOf(b, b)
<1>0. Len(a) \in Nat /\ Len(b) \in Nat /\ Len(a) <= Len(b) /\ a = SubSeq(b, 1, Len(a))
  BY LenProperties DEF IsPrefixOf
<1>1. Append(b, e) \in Seq(S) /\ Len(Append(b, e)) = Len(b) + 1
      /\ \A i \in 1 .. Len(b) : Append(b, e)[i] = b[i]
  BY <1>0, AppendProperties
<1>2. a = SubSeq(Append(b, e), 1, Len(a))
  BY <1>0, <1>1
<1>3. b = SubSeq(b, 1, Len(b))
  BY <1>0
<1> QED BY <1>0, <1>1, <1>2, <1>3 DEF IsPrefixOf

LEMMA GivenGrows ==
  ASSUME NEW s \in Seq(Nat), NEW m \in 0 .. Len(s)
  PROVE  IsPrefixOf(Given(s)[m], Given(s)[Len(s)])
<1> DEFINE T == {k \in 0 .. Len(s) : k >= m => IsPrefixOf(Given(s)[m], Given(s)[k])}
<1>0. Len(s) \in Nat /\ m \in Nat /\ m <= Len(s) /\ \A k \in 1 .. Len(s) : s[k] \in Nat
  BY LenProperties, ElementOfSeq
<1>1. IsPrefixOf(Given(s)[m], Given(s)[m])
  <2>1. Given(s)[m] \in Seq(Packets)
    BY GivenTyped
  <2>2. ASSUME NEW g \in Seq(Packets) PROVE IsPrefixOf(g, g)
    BY <2>2, LenProperties DEF IsPrefixOf
  <2> QED BY <2>1, <2>2
<1>2. 0 \in T
  BY <1>0, <1>1
<1>3. ASSUME NEW k \in T, k < Len(s) PROVE k + 1 \in T
  <2>1. CASE k + 1 = m
    BY <1>0, <1>1, <2>1
  <2>2. CASE k + 1 < m
    BY <1>0, <2>2
  <2>3. CASE k >= m
    <3>1. k + 1 \in 1 .. Len(s) /\ Given(s)[k + 1] = After(Given(s)[k], s, k + 1)
      BY <1>0, <1>3, GivenIs
    <3>2. Given(s)[k] \in Seq(Packets) /\ Given(s)[m] \in Seq(Packets)
      BY <1>0, GivenTyped
    <3>3. s[k + 1] \in Nat /\ Bytes(k + 1, 1, s[k + 1]) \in Seq(Tokens)
      <4>1. k + 1 \in Nat /\ s[k + 1] \in Nat
        BY <1>0, <3>1
      <4> QED BY <4>1, NatsAreTokens
    <3>4. [size |-> s[k + 1], bytes |-> Bytes(k + 1, 1, s[k + 1])] \in Packets
      BY <3>3 DEF Packets
    <3>5. IsPrefixOf(Given(s)[m], Given(s)[k])
      BY <2>3
    <3>6. IsPrefixOf(Given(s)[m],
                     Append(Given(s)[k], [size |-> s[k + 1], bytes |-> Bytes(k + 1, 1, s[k + 1])]))
      BY <3>2, <3>4, <3>5, AppendHasPrefix
    <3>7. IsPrefixOf(Given(s)[m], Given(s)[k + 1])
      BY <3>1, <3>5, <3>6 DEF After
    <3> QED BY <1>0, <3>1, <3>7
  <2> QED BY <1>0, <2>1, <2>2, <2>3
<1>4. T = 0 .. Len(s)
  <2>1. T \in SUBSET (0 .. Len(s))
    OBVIOUS
  <2> HIDE DEF T
  <2> QED BY <1>0, <1>2, <1>3, <2>1, InductTo
<1> QED BY <1>0, <1>4

\* A message more does not change what was given of those before it.
LEMMA GivenOfMore ==
  ASSUME NEW s \in Seq(Nat), NEW n \in Nat
  PROVE  \A m \in 0 .. Len(s) : Given(Append(s, n))[m] = Given(s)[m]
<1> DEFINE t == Append(s, n)
           T == {m \in 0 .. Len(s) : Given(t)[m] = Given(s)[m]}
<1>0. /\ Len(s) \in Nat /\ t \in Seq(Nat) /\ Len(t) = Len(s) + 1
      /\ \A m \in 1 .. Len(s) : t[m] = s[m]
  BY LenProperties, AppendProperties
<1> HIDE DEF t
<1>1. 0 \in T
  BY <1>0, GivenIs
<1>2. ASSUME NEW k \in T, k < Len(s) PROVE k + 1 \in T
  <2>1. k + 1 \in 1 .. Len(s) /\ k + 1 \in 1 .. Len(t)
    BY <1>0, <1>2
  <2>2. Given(s)[k + 1] = After(Given(s)[k], s, k + 1)
          /\ Given(t)[k + 1] = After(Given(t)[k], t, k + 1)
    BY <1>0, <2>1, GivenIs
  <2> QED BY <1>0, <2>1, <2>2 DEF After
<1>3. T = 0 .. Len(s)
  <2>1. T \in SUBSET (0 .. Len(s))
    OBVIOUS
  <2> HIDE DEF T
  <2> QED BY <1>0, <1>1, <1>2, <2>1, InductTo
<1> QED BY <1>3 DEF t

-----------------------------------------------------------------------------
(* The stream as a path: each token leads from a place to the next.         *)

\* A place in the stream: in message m, k of its bytes passed; the field that comes next,
\* under the reader's name of the function that reads it; the type in the header being
\* read; the bytes the piece being read still has. Between messages and between their
\* chunks it is a header that comes next.
Place(m, k, phase, type, more) ==
  [message |-> m, passed |-> k, phase |-> phase, type |-> type, more |-> more]
Chunk(m, k) == Place(m, k, "receiveChunk", 0, 0)
Border(m, k, s) == IF k = s[m] THEN Chunk(m + 1, 0) ELSE Chunk(m, k)
Pieces(m, k, s) ==
  IF k = s[m] THEN Chunk(m + 1, 0) ELSE Place(m, k, "readPayload", 0, firstChunk(s[m] - k))

\* x leads from the place p to the place q when s are the sizes of the messages
Token(f, v) == [field |-> f, value |-> v]
Step(p, x, q, s) ==
  /\ p.message \in 1 .. Len(s)
  /\ \/ /\ p.phase = "receiveChunk" /\ p.passed = 0
        /\ \E t \in {0, 1} :
             x = Token("basic", t) /\ q = Place(p.message, 0, "receiveTimestamp", t, 0)
     \/ /\ p.phase = "receiveChunk" /\ p.passed \in 1 .. (s[p.message] - 1)
        /\ x = Token("basic", 3) /\ q = Pieces(p.message, p.passed, s)
     \/ /\ p.phase = "receiveTimestamp"
        /\ x = Token("timestamp", FALSE) /\ q = Place(p.message, 0, "receiveBodySize", p.type, 0)
     \/ /\ p.phase = "receiveBodySize"
        /\ x = Token("size", s[p.message])
        /\ q = Place(p.message, 0, "receiveMessageType", p.type, 0)
     \/ /\ p.phase = "receiveMessageType"
        /\ x = Token("type", "media")
        /\ q = IF p.type = 0 THEN Place(p.message, 0, "receiveStreamID", 0, 0)
             ELSE Pieces(p.message, 0, s)
     \/ /\ p.phase = "receiveStreamID"
        /\ x = Token("streamID", 0) /\ q = Pieces(p.message, 0, s)
     \/ /\ p.phase = "readPayload" /\ p.passed >= 0 /\ p.more >= 1
        /\ p.passed + p.more <= s[p.message]
        /\ x = Byte(p.message, p.passed + 1)
        /\ q = IF p.more = 1 THEN Border(p.message, p.passed + 1, s)
               ELSE Place(p.message, p.passed + 1, "readPayload", 0, p.more - 1)

\* w leads from a to b, by way of the places of f
Path(f, w, s, a, b) ==
  f[1] = a /\ f[Len(w) + 1] = b /\ \A i \in 1 .. Len(w) : Step(f[i], w[i], f[i + 1], s)
Leads(w, s, a, b) == \E f : Path(f, w, s, a, b)

LEMMA NothingLeads ==
  ASSUME NEW s, NEW a, NEW b
  PROVE  Leads(<<>>, s, a, b) <=> a = b
<1>1. ASSUME a = b PROVE Leads(<<>>, s, a, b)
  <2>1. Path([i \in Nat |-> a], <<>>, s, a, b)
    BY <1>1 DEF Path
  <2> QED BY <2>1 DEF Leads
<1>2. ASSUME Leads(<<>>, s, a, b) PROVE a = b
  <2>1. PICK f : Path(f, <<>>, s, a, b)
    BY <1>2 DEF Leads
  <2>2. Len(<<>>) = 0
    OBVIOUS
  <2>3. f[1] = a /\ f[0 + 1] = b
    BY <2>1, <2>2 DEF Path
  <2> QED BY <2>3
<1> QED BY <1>1, <1>2

LEMMA OneLeads ==
  ASSUME NEW s, NEW a, NEW b, NEW x, Step(a, x, b, s)
  PROVE  Leads(<<x>>, s, a, b)
<1> DEFINE f == [i \in 1 .. 2 |-> IF i = 1 THEN a ELSE b]
<1>1. f[1] = a /\ f[2] = b /\ Len(<<x>>) = 1 /\ <<x>>[1] = x
  OBVIOUS
<1> HIDE DEF f
<1>2. \A i \in 1 .. 1 : Step(f[i], <<x>>[i], f[i + 1], s)
  <2> TAKE i \in 1 .. 1
  <2>1. i = 1
    OBVIOUS
  <2> QED BY <1>1, <2>1
<1>3. Path(f, <<x>>, s, a, b)
  BY <1>1, <1>2 DEF Path
<1> QED BY <1>3 DEF Leads

\* What leads from a to b, and on to c, leads from a to c;
LEMMA LeadsOn ==
  ASSUME NEW s, NEW a, NEW b, NEW c, NEW u \in Seq(Tokens), NEW v \in Seq(Tokens),
         Leads(u, s, a, b), Leads(v, s, b, c)
  PROVE  Leads(u \o v, s, a, c)
<1>1. PICK f : Path(f, u, s, a, b)
  BY DEF Leads
<1>2. PICK g : Path(g, v, s, b, c)
  BY DEF Leads
<1>3. Len(u) \in Nat /\ Len(v) \in Nat
  BY LenProperties
<1> DEFINE h == [i \in 1 .. (Len(u) + Len(v) + 1) |-> IF i <= Len(u) THEN f[i] ELSE g[i - Len(u)]]
<1>4. /\ Len(u \o v) = Len(u) + Len(v)
      /\ \A i \in 1 .. Len(u) : (u \o v)[i] = u[i]
      /\ \A i \in 1 .. Len(v) : (u \o v)[i + Len(u)] = v[i]
  BY <1>3, ConcatProperties
<1>5. /\ f[1] = a /\ f[Len(u) + 1] = b /\ \A i \in 1 .. Len(u) : Step(f[i], u[i], f[i + 1], s)
      /\ g[1] = b /\ g[Len(v) + 1] = c /\ \A i \in 1 .. Len(v) : Step(g[i], v[i], g[i + 1], s)
  BY <1>1, <1>2 DEF Path
<1>6. /\ \A i \in 1 .. (Len(u) + 1) : h[i] = f[i]
      /\ \A i \in 1 .. (Len(v) + 1) : h[Len(u) + i] = g[i]
  BY <1>3, <1>5
<1> HIDE DEF h
<1>7. h[1] = a /\ h[Len(u \o v) + 1] = c
  BY <1>3, <1>4, <1>5, <1>6
<1>8. ASSUME NEW i \in 1 .. Len(u \o v) PROVE Step(h[i], (u \o v)[i], h[i + 1], s)
  <2>1. CASE i <= Len(u)
    BY <1>3, <1>4, <1>5, <1>6, <2>1
  <2>2. CASE i > Len(u)
    <3> DEFINE j == i - Len(u)
    <3>1. j \in 1 .. Len(v) /\ i = Len(u) + j /\ i = j + Len(u) /\ i + 1 = Len(u) + (j + 1)
      BY <1>3, <1>4, <2>2
    <3> HIDE DEF j
    <3>2. h[i] = g[j] /\ h[i + 1] = g[j + 1] /\ (u \o v)[i] = v[j]
      <4>1. h[Len(u) + j] = g[j]
        <5>1. j \in 1 .. (Len(v) + 1)
          BY <1>3, <3>1
        <5> QED BY <1>6, <5>1, Zenon
      <4>2. j + 1 \in 1 .. (Len(v) + 1) /\ h[Len(u) + (j + 1)] = g[j + 1]
        <5>1. j + 1 \in 1 .. (Len(v) + 1)
          BY <1>3, <3>1
        <5> QED BY <1>6, <5>1, Zenon
      <4>3. (u \o v)[j + Len(u)] = v[j]
        BY <1>3, <1>4, <3>1
      <4> QED BY <3>1, <4>1, <4>2, <4>3
    <3>3. Step(g[j], v[j], g[j + 1], s)
      BY <1>5, <3>1
    <3> QED BY <3>2, <3>3
  <2> QED BY <1>3, <1>4, <2>1, <2>2
<1>9. Path(h, u \o v, s, a, c)
  BY <1>7, <1>8 DEF Path
<1> QED BY <1>9 DEF Leads

\* and what leads from a to c leads by a first step.
LEMMA LeadsApart ==
  ASSUME NEW s, NEW a, NEW c, NEW w \in Seq(Tokens), Len(w) >= 1, Leads(w, s, a, c)
  PROVE  \E b : Step(a, w[1], b, s) /\ Leads(SubSeq(w, 2, Len(w)), s, b, c)
<1>1. PICK f : Path(f, w, s, a, c)
  BY DEF Leads
<1>2. Len(w) \in Nat /\ 1 \in 1 .. Len(w)
  BY LenProperties
<1>3. f[1] = a /\ f[Len(w) + 1] = c /\ \A i \in 1 .. Len(w) : Step(f[i], w[i], f[i + 1], s)
  BY <1>1 DEF Path
<1> DEFINE g == [i \in 1 .. Len(w) |-> f[i + 1]]
           v == SubSeq(w, 2, Len(w))
<1>4. Step(a, w[1], g[1], s)
  BY <1>2, <1>3
<1>5. Len(v) = Len(w) - 1 /\ \A i \in 1 .. (Len(w) - 1) : v[i] = w[i + 1]
  <2>2. \A i \in 2 .. Len(w) : w[i] \in Tokens
    BY <1>2, ElementOfSeq
  <2>3. Len(SubSeq(w, 2, Len(w))) = IF 2 <= Len(w) THEN Len(w) - 2 + 1 ELSE 0
    BY <1>2, <2>2, SubSeqProperties
  <2>4. \A i \in 1 .. (Len(w) - 1) : SubSeq(w, 2, Len(w))[i] = w[i + 1]
    BY <1>2, SMTT(30)
  <2>5. Len(SubSeq(w, 2, Len(w))) = Len(w) - 1
    <3>1. CASE 2 <= Len(w)
      BY <1>2, <2>3, <3>1, Z3
    <3>2. CASE Len(w) = 1
      BY <1>2, <2>3, <3>2, Z3
    <3>3. \A n \in Nat : 1 \in 1 .. n => 2 <= n \/ n = 1
      OBVIOUS
    <3>4. 2 <= Len(w) \/ Len(w) = 1
      BY <1>2, <3>3
    <3> QED BY <3>1, <3>2, <3>4
  <2> QED BY <2>4, <2>5
<1>a. \A i \in 1 .. Len(w) : g[i] = f[i + 1]
  OBVIOUS
<1> HIDE DEF g, v
<1>6. /\ g[1] = f[2] /\ g[Len(v) + 1] = c
      /\ \A i \in 1 .. Len(v) : g[i] = f[i + 1] /\ g[i + 1] = f[i + 2]
  <2>1. g[1] = f[1 + 1] /\ 1 + 1 = 2
    BY <1>2, <1>a
  <2>2. Len(v) + 1 = Len(w) /\ g[Len(w)] = c
    BY <1>2, <1>3, <1>5, <1>a
  <2>3. ASSUME NEW i \in 1 .. Len(v) PROVE g[i] = f[i + 1] /\ g[i + 1] = f[i + 2]
    <3>1. i \in 1 .. Len(w) /\ i + 1 \in 1 .. Len(w) /\ (i + 1) + 1 = i + 2
      BY <1>2, <1>5
    <3>2. g[i] = f[i + 1] /\ g[i + 1] = f[(i + 1) + 1]
      BY <1>a, <3>1
    <3> QED BY <3>1, <3>2
  <2> QED BY <2>1, <2>2, <2>3
<1>7. ASSUME NEW i \in 1 .. Len(v) PROVE Step(g[i], v[i], g[i + 1], s)
  <2>1. i + 1 \in 1 .. Len(w) /\ i \in 1 .. (Len(w) - 1) /\ (i + 1) + 1 = i + 2
    BY <1>2, <1>5
  <2>2. Step(f[i + 1], w[i + 1], f[(i + 1) + 1], s)
    BY <1>3, <2>1
  <2> QED BY <1>5, <1>6, <2>1, <2>2
<1>8. Path(g, v, s, g[1], c)
  <2> HIDE DEF g, v
  <2> QED BY <1>6, <1>7 DEF Path
<1>9. Leads(v, s, g[1], c)
  BY <1>8 DEF Leads
<1> QED BY <1>4, <1>9 DEF v

\* inside a piece of message m
Body(m, k, more) == Place(m, k, "readPayload", 0, more)

LEMMA BodyStep ==
  ASSUME NEW m, NEW k, NEW c, NEW x, NEW q, NEW s, Step(Body(m, k, c), x, q, s)
  PROVE  /\ m \in 1 .. Len(s) /\ k >= 0 /\ c >= 1 /\ k + c <= s[m]
         /\ x = Byte(m, k + 1)
         /\ q = IF c = 1 THEN Border(m, k + 1, s) ELSE Body(m, k + 1, c - 1)
<1> DEFINE p == Body(m, k, c)
<1>1. p.message = m /\ p.passed = k /\ p.phase = "readPayload" /\ p.more = c
  BY DEF Body, Place
<1>2. Step(p, x, q, s)
  OBVIOUS
<1> HIDE DEF p
<1> QED BY <1>1, <1>2 DEF Step, Body

LEMMA BodySteps ==
  ASSUME NEW s, NEW m \in 1 .. Len(s), NEW k \in Nat, NEW c \in Nat, c >= 1, k + c <= s[m]
  PROVE  Step(Body(m, k, c), Byte(m, k + 1),
              IF c = 1 THEN Border(m, k + 1, s) ELSE Body(m, k + 1, c - 1), s)
<1> DEFINE p == Body(m, k, c)
<1>1. p.message = m /\ p.passed = k /\ p.phase = "readPayload" /\ p.more = c
  BY DEF Body, Place
<1> HIDE DEF p
<1>2. Step(p, Byte(m, k + 1), IF c = 1 THEN Border(m, k + 1, s) ELSE Body(m, k + 1, c - 1), s)
  BY <1>1 DEF Step, Body
<1> QED BY <1>2 DEF p

\* The bytes of a piece lead to its end,
LEMMA BytesLead ==
  ASSUME NEW s, NEW m \in 1 .. Len(s), NEW k \in Nat, NEW c \in Nat, c >= 1, k + c <= s[m]
  PROVE  Leads(Bytes(m, k + 1, k + c), s, Body(m, k, c), Border(m, k + c, s))
<1> DEFINE f == [i \in 1 .. (c + 1) |->
                   IF i <= c THEN Body(m, k + i - 1, c - i + 1) ELSE Border(m, k + c, s)]
           w == Bytes(m, k + 1, k + c)
<1>1. Len(w) = c /\ \A i \in 1 .. c : w[i] = Byte(m, k + i)
  <2>1. (k + c) - (k + 1) + 1 = c
    OBVIOUS
  <2>2. w = [i \in 1 .. c |-> Byte(m, (k + 1) + i - 1)]
    BY <2>1 DEF Bytes
  <2>3. \A i \in 1 .. c : (k + 1) + i - 1 = k + i
    OBVIOUS
  <2> QED BY <2>2, <2>3
<1>2. /\ \A i \in 1 .. c : f[i] = Body(m, k + i - 1, c - i + 1)
      /\ f[c + 1] = Border(m, k + c, s)
  OBVIOUS
<1> HIDE DEF f, w
<1>3. ASSUME NEW i \in 1 .. c PROVE Step(f[i], w[i], f[i + 1], s)
  <2> DEFINE j == k + i - 1
             d == c - i + 1
  <2>1. j \in Nat /\ d \in Nat /\ d >= 1 /\ j + d <= s[m] /\ j + 1 = k + i
    <3>1. j + d = k + c
      OBVIOUS
    <3> QED BY <3>1
  <2>2. f[i] = Body(m, j, d) /\ w[i] = Byte(m, j + 1)
    BY <1>1, <1>2, <2>1
  <2>3. f[i + 1] = IF d = 1 THEN Border(m, j + 1, s) ELSE Body(m, j + 1, d - 1)
    <3>1. CASE i = c
      BY <1>2, <3>1
    <3>2. CASE i < c
      <4>1. i + 1 \in 1 .. c /\ k + (i + 1) - 1 = j + 1 /\ c - (i + 1) + 1 = d - 1 /\ d # 1
        BY <3>2
      <4> HIDE DEF j, d
      <4> QED BY <1>2, <4>1
    <3> QED BY <3>1, <3>2
  <2> HIDE DEF j, d
  <2>4. Step(Body(m, j, d), Byte(m, j + 1),
             IF d = 1 THEN Border(m, j + 1, s) ELSE Body(m, j + 1, d - 1), s)
    BY <2>1, BodySteps
  <2> QED BY <2>2, <2>3, <2>4
<1>4. f[1] = Body(m, k, c)
  <2>1. 1 \in 1 .. c /\ k + 1 - 1 = k /\ c - 1 + 1 = c
    OBVIOUS
  <2> QED BY <1>2, <2>1
<1>5. Path(f, w, s, Body(m, k, c), Border(m, k + c, s))
  BY <1>1, <1>2, <1>3, <1>4 DEF Path
<1> QED BY <1>5 DEF Leads, w

\* and whatever leads on from inside a piece begins with them.
LEMMA BodyRun ==
  ASSUME NEW s, NEW m, NEW k \in Nat, NEW c \in Nat, c >= 1, NEW z,
         NEW w \in Seq(Tokens), Len(w) >= c, Leads(w, s, Body(m, k, c), z)
  PROVE  /\ SubSeq(w, 1, c) = Bytes(m, k + 1, k + c)
         /\ Leads(SubSeq(w, c + 1, Len(w)), s, Border(m, k + c, s), z)
<1>1. PICK f : Path(f, w, s, Body(m, k, c), z)
  BY DEF Leads
<1>2. Len(w) \in Nat /\ c <= Len(w) /\ 1 <= c
  BY LenProperties
<1>3. f[1] = Body(m, k, c) /\ f[Len(w) + 1] = z
        /\ \A i \in 1 .. Len(w) : Step(f[i], w[i], f[i + 1], s)
  BY <1>1 DEF Path
<1> DEFINE T == {j \in 0 .. (c - 1) : f[j + 1] = Body(m, k + j, c - j)}
<1>4. 0 \in T
  <2>1. 0 \in 0 .. (c - 1) /\ k + 0 = k /\ c - 0 = c /\ 0 + 1 = 1
    BY <1>2
  <2> QED BY <1>3, <2>1
<1>5. ASSUME NEW j \in 0 .. (c - 1), f[j + 1] = Body(m, k + j, c - j)
      PROVE  /\ w[j + 1] = Byte(m, k + j + 1)
             /\ f[j + 2] = IF c - j = 1 THEN Border(m, k + j + 1, s)
                           ELSE Body(m, k + j + 1, c - j - 1)
  <2>1. j + 1 \in 1 .. Len(w) /\ (j + 1) + 1 = j + 2
    BY <1>2
  <2>2. Step(Body(m, k + j, c - j), w[j + 1], f[j + 2], s)
    <3>1. Step(f[j + 1], w[j + 1], f[(j + 1) + 1], s)
      BY <1>3, <2>1
    <3> QED BY <1>5, <2>1, <3>1
  <2> QED BY <2>2, BodyStep
<1>6. ASSUME NEW j \in T, j < c - 1 PROVE j + 1 \in T
  <2>1. j \in 0 .. (c - 1) /\ f[j + 1] = Body(m, k + j, c - j)
    OBVIOUS
  <2>2. f[j + 2] = IF c - j = 1 THEN Border(m, k + j + 1, s) ELSE Body(m, k + j + 1, c - j - 1)
    BY <1>5, <2>1
  <2>3. c - j # 1 /\ k + j + 1 = k + (j + 1) /\ c - j - 1 = c - (j + 1) /\ j + 2 = (j + 1) + 1
          /\ j + 1 \in 0 .. (c - 1)
    BY <1>2, <1>6
  <2>4. f[(j + 1) + 1] = Body(m, k + (j + 1), c - (j + 1))
    BY <2>2, <2>3
  <2> QED BY <2>3, <2>4
<1>7. T = 0 .. (c - 1)
  <2>1. T \in SUBSET (0 .. (c - 1)) /\ c - 1 \in Nat
    BY <1>2
  <2> HIDE DEF T
  <2> QED BY <1>4, <1>6, <2>1, InductTo
<1>8. \A j \in 1 .. c : w[j] = Byte(m, k + j)
  <2> TAKE j \in 1 .. c
  <2> DEFINE i == j - 1
  <2>1. i \in 0 .. (c - 1) /\ i + 1 = j /\ k + i + 1 = k + j
    BY <1>2
  <2> HIDE DEF i
  <2>2. f[i + 1] = Body(m, k + i, c - i)
    BY <1>7, <2>1
  <2> QED BY <1>5, <2>1, <2>2
<1>9. f[c + 1] = Border(m, k + c, s)
  <2> DEFINE i == c - 1
  <2>1. i \in 0 .. (c - 1) /\ c - i = 1 /\ k + i + 1 = k + c /\ i + 2 = c + 1
    BY <1>2
  <2> HIDE DEF i
  <2>2. f[i + 1] = Body(m, k + i, c - i)
    BY <1>7, <2>1
  <2>3. f[i + 2] = IF c - i = 1 THEN Border(m, k + i + 1, s) ELSE Body(m, k + i + 1, c - i - 1)
    BY <1>5, <2>1, <2>2
  <2> QED BY <2>1, <2>3
<1>10. SubSeq(w, 1, c) = Bytes(m, k + 1, k + c)
  <2>1. /\ SubSeq(w, 1, c) \in Seq(Tokens) /\ Len(SubSeq(w, 1, c)) = c
        /\ \A i \in 1 .. c : SubSeq(w, 1, c)[i] = Byte(m, k + i)
    <3>1. 1 \in Int /\ c \in Int /\ \A i \in 1 .. c : w[i] \in Tokens
      BY <1>2, ElementOfSeq
    <3>2. /\ SubSeq(w, 1, c) \in Seq(Tokens)
          /\ Len(SubSeq(w, 1, c)) = IF 1 <= c THEN c - 1 + 1 ELSE 0
          /\ \A i \in 1 .. (c - 1 + 1) : SubSeq(w, 1, c)[i] = w[1 + i - 1]
      BY <3>1, SubSeqProperties
    <3> DEFINE u == SubSeq(w, 1, c)
    <3> HIDE DEF u
    <3>3. u \in Seq(Tokens) /\ Len(u) = c /\ \A i \in 1 .. c : u[i] = w[i]
      <4>1. c - 1 + 1 = c /\ \A i \in 1 .. c : 1 + i - 1 = i
        OBVIOUS
      <4> QED BY <1>2, <3>2, <4>1 DEF u
    <3> QED BY <1>8, <3>3 DEF u
  <2>2. /\ Bytes(m, k + 1, k + c) = [i \in 1 .. c |-> Byte(m, k + i)]
        /\ \A i \in 1 .. c : Byte(m, k + i) \in Tokens
    <3>1. (k + c) - (k + 1) + 1 = c /\ \A i \in 1 .. c : (k + 1) + i - 1 = k + i
      OBVIOUS
    <3>2. \A i \in 1 .. c : w[i] \in Tokens
      BY <1>2, ElementOfSeq
    <3> QED BY <1>8, <3>1, <3>2 DEF Bytes
  <2>3. \A u \in Seq(Tokens) : u = [i \in 1 .. Len(u) |-> u[i]]
    OBVIOUS
  <2> QED BY <2>1, <2>2, <2>3
<1> DEFINE v == SubSeq(w, c + 1, Len(w))
           g == [i \in 1 .. (Len(w) - c + 1) |-> f[i + c]]
<1>11. Len(v) = Len(w) - c /\ \A i \in 1 .. (Len(w) - c) : v[i] = w[i + c]
  <2>1. c + 1 \in Int /\ Len(w) \in Int /\ \A i \in (c + 1) .. Len(w) : w[i] \in Tokens
    BY <1>2, ElementOfSeq
  <2>2. /\ Len(v) = IF c + 1 <= Len(w) THEN Len(w) - (c + 1) + 1 ELSE 0
        /\ \A i \in 1 .. (Len(w) - (c + 1) + 1) : v[i] = w[(c + 1) + i - 1]
    BY <2>1, SubSeqProperties
  <2> HIDE DEF v
  <2>3. Len(w) - (c + 1) + 1 = Len(w) - c /\ \A i \in 1 .. (Len(w) - c) : (c + 1) + i - 1 = i + c
    BY <1>2
  <2>4. Len(v) = Len(w) - c
    BY <1>2, <2>2
  <2>5. \A i \in 1 .. (Len(w) - c) : v[i] = w[i + c]
    BY <2>2, <2>3
  <2> QED BY <2>4, <2>5
<1>12. \A i \in 1 .. (Len(w) - c + 1) : g[i] = f[i + c]
  OBVIOUS
<1> HIDE DEF g, v
<1>13. ASSUME NEW i \in 1 .. Len(v) PROVE Step(g[i], v[i], g[i + 1], s)
  <2>1. /\ i + c \in 1 .. Len(w) /\ i \in 1 .. (Len(w) - c) /\ i \in 1 .. (Len(w) - c + 1)
        /\ i + 1 \in 1 .. (Len(w) - c + 1) /\ (i + 1) + c = (i + c) + 1
    BY <1>2, <1>11
  <2>2. Step(f[i + c], w[i + c], f[(i + c) + 1], s)
    BY <1>3, <2>1
  <2>3. g[i] = f[i + c] /\ g[i + 1] = f[(i + 1) + c] /\ v[i] = w[i + c]
    BY <1>11, <1>12, <2>1
  <2> QED BY <2>1, <2>2, <2>3
<1>14. g[1] = Border(m, k + c, s) /\ g[Len(v) + 1] = z
  <2>1. /\ 1 \in 1 .. (Len(w) - c + 1) /\ 1 + c = c + 1
        /\ Len(v) + 1 \in 1 .. (Len(w) - c + 1) /\ (Len(v) + 1) + c = Len(w) + 1
    BY <1>2, <1>11
  <2>2. g[1] = f[1 + c] /\ g[Len(v) + 1] = f[(Len(v) + 1) + c]
    BY <1>12, <2>1
  <2> QED BY <1>3, <1>9, <2>1, <2>2
<1>15. Path(g, v, s, Border(m, k + c, s), z)
  BY <1>13, <1>14 DEF Path
<1>16. Leads(v, s, Border(m, k + c, s), z)
  BY <1>15 DEF Leads
<1> QED BY <1>10, <1>16 DEF v

\* a message more does not change the way through those before it
LEMMA LeadsWithMore ==
  ASSUME NEW s \in Seq(Nat), NEW n \in Nat, NEW w \in Seq(Tokens), NEW a, NEW b, Leads(w, s, a, b)
  PROVE  Leads(w, Append(s, n), a, b)
<1> DEFINE t == Append(s, n)
<1>1. Len(s) \in Nat /\ Len(t) = Len(s) + 1 /\ \A i \in 1 .. Len(s) : t[i] = s[i]
  BY LenProperties, AppendProperties
<1> HIDE DEF t
<1>2. ASSUME NEW p, NEW x, NEW q, Step(p, x, q, s) PROVE Step(p, x, q, t)
  <2>1. p.message \in 1 .. Len(s) /\ p.message \in 1 .. Len(t) /\ t[p.message] = s[p.message]
    BY <1>1, <1>2 DEF Step
  <2>2. /\ \A k : Pieces(p.message, k, t) = Pieces(p.message, k, s)
        /\ \A k : Border(p.message, k, t) = Border(p.message, k, s)
    BY <2>1 DEF Pieces, Border
  <2> QED BY <1>2, <2>1, <2>2 DEF Step
<1>3. PICK f : Path(f, w, s, a, b)
  BY DEF Leads
<1>4. Path(f, w, t, a, b)
  BY <1>2, <1>3 DEF Path
<1> QED BY <1>4 DEF Leads, t

-----------------------------------------------------------------------------
(* The reader in step with the server: where each of them is, and what the  *)
(* reader has of the message it reads.                                      *)

\* where the server is in the stream
ServerPlace ==
  IF left = 0 THEN Chunk(Len(sent) + 1, 0) ELSE Chunk(Len(sent), sent[Len(sent)] - left)

\* where the reader is, that reads message r
ReaderPlace(r) ==
  IF at = "receiveChunk" THEN Chunk(r, Len(payload))
  ELSE IF at \in {"receivePayload", "readPayload"} THEN Pieces(r, Len(payload), sent)
  ELSE IF at = "loop" THEN Border(r, Len(payload), sent)
  ELSE Place(r, 0, at, fmt, 0)

\* What it has read so far of the message's header, and of its payload, is the message's.
HeaderHolds(r) ==
  /\ (at # "receiveChunk" \/ inLoop) => r <= Len(sent)
  /\ at # "receiveChunk" => IF inLoop THEN fmt = 3 ELSE fmt \in {0, 1}
  /\ inLoop => at \in {"receiveChunk", "receivePayload", "readPayload", "loop"}
  /\ at # "receiveExtentedTimestamp"
  /\ at \in {"receiveBodySize", "receiveMessageType"} => ~extended
  /\ (at \in {"receiveMessageType", "receiveStreamID"} \/ (at = "receivePayload" /\ ~inLoop))
       => header.size = sent[r]
  /\ (at = "receiveStreamID" \/ (at = "receivePayload" /\ ~inLoop)) => header.type = "media"
  /\ at = "receiveStreamID" => fmt = 0

PayloadHolds(r) ==
  /\ (at \in {"readPayload", "loop"} \/ inLoop) =>
       /\ packet = sent[r] /\ payload = Bytes(r, 1, Len(payload)) /\ current = chunkSize(total)
       /\ Len(payload) = sent[r] - (IF at = "loop" THEN total - current ELSE total)
       /\ total <= sent[r]
  /\ inLoop => Len(payload) > 0 /\ (at # "loop" => total > 0)

Holds(r) == HeaderHolds(r) /\ PayloadHolds(r)

\* The reader reads message r, having given those before it; while nothing was cut off
\* what is in flight leads from its place to the server's.
Tracks(r) ==
  /\ r \in 1 .. (Len(sent) + 1) /\ delivered = Given(sent)[r - 1]
  /\ error \/ Holds(r)
  /\ cause = {} => ~error /\ Leads(wire, sent, ReaderPlace(r), ServerPlace)

\* The last message has begun. A closed connection has nothing in flight, and only a
\* closed one was cut off.
Begun == left > 0 => left < sent[Len(sent)]
Closed == (~open => wire = <<>>) /\ (cause = {"cut"} => ~open)
\* The reader is in step with the server, as long as nothing but a cut happened that it
\* is not made for.
RInv ==
  /\ IInv /\ Begun /\ Closed
  /\ cause \subseteq {"cut"} => \E r \in 1 .. (Len(sent) + 1) : Tracks(r)

\* the steps that lead on from between chunks, and from inside a header
LEMMA ChunkStep ==
  ASSUME NEW m, NEW k, NEW x, NEW q, NEW s, Step(Chunk(m, k), x, q, s)
  PROVE  /\ m \in 1 .. Len(s)
         /\ \/ /\ k = 0
               /\ \E t \in {0, 1} :
                    x = Token("basic", t) /\ q = Place(m, 0, "receiveTimestamp", t, 0)
            \/ k \in 1 .. (s[m] - 1) /\ x = Token("basic", 3) /\ q = Pieces(m, k, s)
<1> DEFINE p == Chunk(m, k)
<1>1. p.message = m /\ p.passed = k /\ p.phase = "receiveChunk"
  BY DEF Chunk, Place
<1>2. Step(p, x, q, s)
  OBVIOUS
<1> HIDE DEF p
<1> QED BY <1>1, <1>2 DEF Step

\* field f of a header is x, and leads to q
IsField(m, f, t, x, q, s) ==
  /\ m \in 1 .. Len(s)
  /\ f = "receiveTimestamp" => x = Token("timestamp", FALSE)
       /\ q = Place(m, 0, "receiveBodySize", t, 0)
  /\ f = "receiveBodySize" => x = Token("size", s[m]) /\ q = Place(m, 0, "receiveMessageType", t, 0)
  /\ f = "receiveMessageType" =>
       /\ x = Token("type", "media")
       /\ q = IF t = 0 THEN Place(m, 0, "receiveStreamID", 0, 0) ELSE Pieces(m, 0, s)
  /\ f = "receiveStreamID" => x = Token("streamID", 0) /\ q = Pieces(m, 0, s)

LEMMA HeaderStep ==
  ASSUME NEW m, NEW f, NEW t, NEW x, NEW q, NEW s, Step(Place(m, 0, f, t, 0), x, q, s)
  PROVE  IsField(m, f, t, x, q, s)
<1> DEFINE p == Place(m, 0, f, t, 0)
<1>1. p.message = m /\ p.passed = 0 /\ p.phase = f /\ p.type = t /\ p.more = 0
  BY DEF Place
<1>2. Step(p, x, q, s)
  OBVIOUS
<1> HIDE DEF p
<1> QED BY <1>1, <1>2 DEF Step, IsField

\* the functions that read a field of a chunk's header
LEMMA HeaderIsTracked ==
  ASSUME IInv, cause = {}, NEW r \in 1 .. (Len(sent) + 1), Tracks(r),
         receiveChunk \/ receiveTimestamp \/ receiveBodySize \/ receiveMessageType
           \/ receiveExtentedTimestamp \/ receiveStreamID
  PROVE  Tracks(r)'
<1>0. /\ ChunkTypeOK /\ wire \in Seq(Tokens) /\ Len(wire) >= 1 /\ Took(1)
      /\ (at # "loop" /\ ~inLoop) => payload = <<>>
      /\ ~error /\ Holds(r) /\ Leads(wire, sent, ReaderPlace(r), ServerPlace)
      /\ Len(sent) \in Nat
  BY LenProperties DEF IInv, TInv, ChunkTypeOK, Accounted, Tracks, receiveChunk, receiveTimestamp,
       receiveBodySize, receiveMessageType, receiveExtentedTimestamp, receiveStreamID, Reads
<1>1. UNCHANGED <<sent, left, cause, inLoop, total, current, packet, payload, foreign, error,
                  delivered>>
  BY DEF receiveChunk, receiveTimestamp, receiveBodySize,
     receiveMessageType, receiveExtentedTimestamp, receiveStreamID, server, round
<1>2. PICK b : Step(ReaderPlace(r), wire[1], b, sent)
        /\ Leads(SubSeq(wire, 2, Len(wire)), sent, b, ServerPlace)
  BY <1>0, LeadsApart
<1>3. wire' = SubSeq(wire, 2, Len(wire)) /\ Head(wire) = wire[1]
  <2>1. 1 + 1 = 2
    OBVIOUS
  <2> QED BY <1>0, <2>1 DEF Took
<1>4. SUFFICES b = ReaderPlace(r)' /\ Holds(r)'
  <2>1. ServerPlace' = ServerPlace
    BY <1>1 DEF ServerPlace
  <2>2. Tracks(r)' <=>
          /\ r \in 1 .. (Len(sent') + 1) /\ delivered' = Given(sent')[r - 1]
          /\ error' \/ Holds(r)'
          /\ cause' = {} => ~error' /\ Leads(wire', sent', ReaderPlace(r)', ServerPlace')
    BY DEF Tracks
  <2>3. r \in 1 .. (Len(sent') + 1) /\ delivered' = Given(sent')[r - 1] /\ ~error'
    BY <1>0, <1>1 DEF Tracks
  <2>4. b = ReaderPlace(r)' => Leads(wire', sent', ReaderPlace(r)', ServerPlace')
    BY <1>1, <1>2, <1>3, <2>1
  <2> QED BY <2>2, <2>3, <2>4
<1>5. CASE receiveChunk
  <2>0. /\ at = "receiveChunk" /\ ReaderPlace(r) = Chunk(r, Len(payload))
        /\ UNCHANGED <<extended, header>>
    BY <1>5 DEF receiveChunk, Reads, ReaderPlace
  <2>1. CASE ~inLoop
    <3>1. Len(payload) = 0
      BY <1>0, <2>0, <2>1
    <3>2. PICK t \in {0, 1} : wire[1] = Token("basic", t)
            /\ b = Place(r, 0, "receiveTimestamp", t, 0)
      BY <1>2, <2>0, <3>1, ChunkStep
    <3>3. r \in 1 .. Len(sent)
      BY <1>2, <2>0, <3>1, ChunkStep
    <3>4. fmt' = t /\ at' = "receiveTimestamp"
      BY <1>3, <1>5, <3>2 DEF receiveChunk, Read, Token
    <3>5. b = ReaderPlace(r)'
      BY <3>2, <3>4 DEF ReaderPlace
    <3>6. Holds(r)'
      BY <1>1, <2>1, <3>3, <3>4 DEF Holds, HeaderHolds, PayloadHolds
    <3> QED BY <3>5, <3>6
  <2>2. CASE inLoop
    <3>1. Len(payload) > 0
      BY <1>0, <2>2 DEF Holds, PayloadHolds
    <3>2. wire[1] = Token("basic", 3) /\ b = Pieces(r, Len(payload), sent) /\ r \in 1 .. Len(sent)
      BY <1>2, <2>0, <3>1, ChunkStep
    <3>3. fmt' = 3 /\ at' = "receivePayload"
      BY <1>3, <1>5, <3>2 DEF receiveChunk, Read, Token
    <3>4. b = ReaderPlace(r)'
      BY <1>1, <3>2, <3>3 DEF ReaderPlace
    <3>5. Holds(r)'
      BY <1>0, <1>1, <2>0, <2>2, <3>2, <3>3 DEF Holds, HeaderHolds, PayloadHolds
    <3> QED BY <3>4, <3>5
  <2> QED BY <2>1, <2>2
<1>6. CASE ~receiveChunk
  <2>0. /\ at \in {"receiveTimestamp", "receiveBodySize", "receiveMessageType", "receiveStreamID"}
        /\ ~inLoop /\ ReaderPlace(r) = Place(r, 0, at, fmt, 0) /\ payload = <<>>
        /\ UNCHANGED fmt /\ fmt \in {0, 1}
    <3>1. at \in {"receiveTimestamp", "receiveBodySize", "receiveMessageType", "receiveStreamID",
            "receiveExtentedTimestamp"}
          /\ UNCHANGED fmt
      BY <1>6 DEF receiveTimestamp, receiveBodySize, chunk,
           receiveMessageType, receiveExtentedTimestamp, receiveStreamID, Reads
    <3>2. at # "receiveExtentedTimestamp" /\ ~inLoop
      BY <1>0, <3>1 DEF Holds, HeaderHolds
    <3>3. fmt \in {0, 1}
      BY <1>0, <3>1, <3>2 DEF Holds, HeaderHolds
    <3> QED BY <1>0, <3>1, <3>2, <3>3 DEF ReaderPlace
  <2>1. Step(Place(r, 0, at, fmt, 0), wire[1], b, sent)
    BY <1>2, <2>0
  <2>2. /\ r \in 1 .. Len(sent)
        /\ at = "receiveTimestamp" => wire[1] = Token("timestamp", FALSE)
             /\ b = Place(r, 0, "receiveBodySize", fmt, 0)
        /\ at = "receiveBodySize" => wire[1] = Token("size", sent[r])
             /\ b = Place(r, 0, "receiveMessageType", fmt, 0)
        /\ at = "receiveMessageType" =>
              /\ wire[1] = Token("type", "media")
              /\ b = IF fmt = 0 THEN Place(r, 0, "receiveStreamID", 0, 0) ELSE Pieces(r, 0, sent)
        /\ at = "receiveStreamID" => wire[1] = Token("streamID", 0) /\ b = Pieces(r, 0, sent)
    <3>1. IsField(r, at, fmt, wire[1], b, sent)
      BY <2>1, HeaderStep
    <3> QED BY <3>1 DEF IsField
  <2>3. Len(payload) = 0
    BY <2>0
  <2>4. CASE at = "receiveTimestamp"
    <3>1. extended' = FALSE /\ at' = "receiveBodySize" /\ header' = header
      BY <1>3, <2>0, <2>2, <2>4 DEF receiveTimestamp, receiveBodySize, receiveChunk,
           receiveMessageType, receiveExtentedTimestamp, receiveStreamID, Reads, Read, Token
    <3>2. b = ReaderPlace(r)'
      BY <2>0, <2>2, <2>4, <3>1 DEF ReaderPlace
    <3>3. Holds(r)'
      BY <1>1, <2>0, <2>2, <3>1 DEF Holds, HeaderHolds, PayloadHolds
    <3> QED BY <3>2, <3>3
  <2>5. CASE at = "receiveBodySize"
    <3>1. header'.size = sent[r] /\ at' = "receiveMessageType" /\ extended' = extended
      BY <1>0, <1>3, <2>0, <2>2, <2>5 DEF receiveTimestamp, receiveBodySize, receiveChunk,
           receiveMessageType, receiveExtentedTimestamp, receiveStreamID, Reads, Read, Token,
             ChunkTypeOK
    <3>2. b = ReaderPlace(r)'
      BY <2>0, <2>2, <2>5, <3>1 DEF ReaderPlace
    <3>3. Holds(r)'
      BY <1>0, <1>1, <2>0, <2>2, <2>5, <3>1 DEF Holds, HeaderHolds, PayloadHolds
    <3> QED BY <3>2, <3>3
  <2>6. CASE at = "receiveMessageType"
    <3>0. receiveMessageType
      BY <2>6 DEF receiveTimestamp, receiveBodySize, receiveChunk, receiveExtentedTimestamp,
           receiveStreamID, Reads
    <3>a. PICK kind \in Read("type") : header' = [header EXCEPT !.type = kind]
      BY <3>0 DEF receiveMessageType
    <3>b. kind = "media"
      BY <1>3, <2>2, <2>6 DEF Read, Token
    <3>1. /\ header'.type = "media" /\ header'.size = header.size
          /\ at' = IF extended THEN "receiveExtentedTimestamp" ELSE AfterType
      BY <1>0, <3>0, <3>a, <3>b DEF receiveMessageType, ChunkTypeOK
    <3>2. header.size = sent[r] /\ ~extended
      BY <1>0, <2>6 DEF Holds, HeaderHolds
    <3>3. at' = IF fmt = 0 THEN "receiveStreamID" ELSE "receivePayload"
      BY <3>1, <3>2 DEF AfterType
    <3>4. b = ReaderPlace(r)'
      BY <1>1, <2>0, <2>2, <2>3, <2>6, <3>3 DEF ReaderPlace
    <3>5. Holds(r)'
      BY <1>0, <1>1, <2>0, <2>2, <2>6, <3>1, <3>2, <3>3 DEF Holds, HeaderHolds, PayloadHolds
    <3> QED BY <3>4, <3>5
  <2>7. CASE at = "receiveStreamID"
    <3>1. at' = "receivePayload" /\ header' = header
      BY <2>7 DEF receiveTimestamp, receiveBodySize, receiveChunk, chunk,
           receiveMessageType, receiveExtentedTimestamp, receiveStreamID, Reads
    <3>2. b = ReaderPlace(r)'
      BY <1>1, <2>0, <2>2, <2>3, <2>7, <3>1 DEF ReaderPlace
    <3>3. Holds(r)'
      BY <1>0, <1>1, <2>0, <2>2, <2>7, <3>1 DEF Holds, HeaderHolds, PayloadHolds
    <3> QED BY <3>2, <3>3
  <2> QED BY <2>0, <2>4, <2>5, <2>6, <2>7
<1> QED BY <1>5, <1>6

LEMMA BytesLength ==
  ASSUME NEW m \in Nat, NEW n \in Nat
  PROVE  Len(Bytes(m, 1, n)) = n /\ \A i \in 1 .. n : Bytes(m, 1, n)[i] = Byte(m, i)
<1>1. n - 1 + 1 = n /\ \A i \in 1 .. n : 1 + i - 1 = i
  OBVIOUS
<1>2. Bytes(m, 1, n) = [i \in 1 .. n |-> Byte(m, i)]
  BY <1>1 DEF Bytes
<1> QED BY <1>2

LEMMA BytesJoin ==
  ASSUME NEW m \in Nat, NEW k \in Nat, NEW c \in Nat
  PROVE  Bytes(m, 1, k) \o Bytes(m, k + 1, k + c) = Bytes(m, 1, k + c)
<1> DEFINE u == Bytes(m, 1, k)
           v == Bytes(m, k + 1, k + c)
           w == Bytes(m, 1, k + c)
<1>1. u \in Seq(Tokens) /\ Len(u) = k /\ \A i \in 1 .. k : u[i] = Byte(m, i)
  BY NatsAreTokens, BytesLength
<1>2. v \in Seq(Tokens) /\ Len(v) = c /\ \A i \in 1 .. c : v[i] = Byte(m, k + i)
  <2>1. (k + c) - (k + 1) + 1 = c /\ \A i \in 1 .. c : (k + 1) + i - 1 = k + i
    OBVIOUS
  <2>2. v = [i \in 1 .. c |-> Byte(m, k + i)]
    BY <2>1 DEF Bytes
  <2>3. v \in Seq(Tokens)
    <3>1. k + 1 \in Nat /\ k + c \in Int
      OBVIOUS
    <3> QED BY <3>1, BytesAreTokens
  <2> QED BY <2>2, <2>3
<1>3. w \in Seq(Tokens) /\ Len(w) = k + c /\ \A i \in 1 .. (k + c) : w[i] = Byte(m, i)
  <2>1. k + c \in Nat
    OBVIOUS
  <2> QED BY <2>1, NatsAreTokens, BytesLength
<1> HIDE DEF u, v, w
<1>4. /\ u \o v \in Seq(Tokens) /\ Len(u \o v) = k + c
      /\ \A i \in 1 .. (k + c) : (u \o v)[i] = IF i <= Len(u) THEN u[i] ELSE v[i - Len(u)]
  BY <1>1, <1>2, ConcatProperties
<1>5. ASSUME NEW i \in 1 .. (k + c) PROVE (u \o v)[i] = w[i]
  <2>1. CASE i <= k
    <3>1. i \in 1 .. k /\ i <= Len(u)
      BY <1>1, <2>1
    <3>2. (u \o v)[i] = u[i]
      BY <1>4, <3>1
    <3>3. u[i] = Byte(m, i) /\ w[i] = Byte(m, i)
      BY <1>1, <1>3, <3>1
    <3> QED BY <3>2, <3>3
  <2>2. CASE i > k
    <3>1. i - k \in 1 .. c /\ k + (i - k) = i /\ ~(i <= Len(u))
      BY <1>1, <2>2
    <3>2. (u \o v)[i] = v[i - k]
      BY <1>1, <1>4, <3>1
    <3>3. v[i - k] = Byte(m, k + (i - k))
      BY <1>2, <3>1
    <3>4. w[i] = Byte(m, i) /\ Byte(m, k + (i - k)) = Byte(m, i)
      BY <1>3, <3>1
    <3> QED BY <3>2, <3>3, <3>4
  <2>3. i <= k \/ i > k
    OBVIOUS
  <2> QED BY <2>1, <2>2, <2>3
<1>6. u \o v = w
  BY <1>3, <1>4, <1>5, SeqEqual
<1> QED BY <1>6 DEF u, v, w

\* a new round reads the next message from its start
LEMMA NewRoundHolds ==
  ASSUME NEW r, NewRound
  PROVE  Holds(r)' /\ ReaderPlace(r)' = Chunk(r, 0) /\ ~error'
<1>1. Holds(r)'
  BY DEF NewRound, Holds, HeaderHolds, PayloadHolds
<1>2. payload' = <<>> /\ Len(<<>>) = 0 /\ at' = "receiveChunk"
  BY DEF NewRound
<1> QED BY <1>1, <1>2 DEF NewRound, ReaderPlace

LEMMA FailureHolds ==
  ASSUME NEW r, ChunkFails
  PROVE  error' \/ Holds(r)'
BY NewRoundHolds DEF ChunkFails

\* what is known of the sizes
LEMMA SizesAreNats ==
  ASSUME IInv
  PROVE  /\ MaxSize \in Nat /\ MaxSize > 0
         /\ sent \in Seq(Nat) /\ Len(sent) \in Nat /\ \A m \in 1 .. Len(sent) : sent[m] \in Nat
         /\ left \in Nat /\ total \in Nat /\ current \in Nat /\ current <= total
         /\ wire \in Seq(Tokens) /\ Len(wire) \in Nat
         /\ payload \in Seq(Tokens) /\ Len(payload) \in Nat
         /\ (at # "loop" /\ ~inLoop) => payload = <<>>
         /\ at \in Reading \cup {"receivePayload", "loop"} /\ inLoop \in BOOLEAN
              /\ error \in BOOLEAN
         /\ fmt \in 0 .. 3
<1>1. MaxSize \in Nat /\ MaxSize > 0 /\ Sizes \subseteq Nat
  BY SizeAssumption
<1>2. sent \in Seq(Sizes) /\ sent \in Seq(Nat)
  <2>1. sent \in Seq(Sizes)
    BY DEF IInv, TInv, ChunkTypeOK
  <2> QED BY <1>1, <2>1, SeqMonotonic
<1>3. Len(sent) \in Nat /\ \A m \in 1 .. Len(sent) : sent[m] \in Nat
  BY <1>2, LenProperties, ElementOfSeq
<1>4. /\ left \in Nat /\ total \in Nat /\ current \in Nat
      /\ wire \in Seq(Tokens) /\ payload \in Seq(Tokens)
      /\ at \in Reading \cup {"receivePayload", "loop"} /\ inLoop \in BOOLEAN /\ error \in BOOLEAN
      /\ fmt \in 0 .. 3
  BY <1>1 DEF IInv, TInv, ChunkTypeOK
<1>5. current <= total /\ ((at # "loop" /\ ~inLoop) => payload = <<>>)
  BY DEF IInv, Fits, Accounted
<1> QED BY <1>1, <1>2, <1>3, <1>4, <1>5, LenProperties

\* receivePayload gives the sizes of the piece that comes next
LEMMA PayloadIsTracked ==
  ASSUME IInv, cause \subseteq {"cut"}, NEW r \in 1 .. (Len(sent) + 1), Tracks(r), receivePayload
  PROVE  Tracks(r)'
<1>0. /\ at = "receivePayload" /\ UNCHANGED <<open, wire, sent, left, cause, fmt, extended,
                                              header, delivered>>
      /\ r \in 1 .. (Len(sent) + 1) /\ delivered = Given(sent)[r - 1]
      /\ error \/ Holds(r)
      /\ cause = {} => ~error /\ Leads(wire, sent, ReaderPlace(r), ServerPlace)
  BY DEF receivePayload, Tracks, connection, server, chunk
<1>1. SUFFICES (error' \/ Holds(r)') /\ (cause = {} => ~error' /\ ReaderPlace(r)' = ReaderPlace(r))
  <2>1. ServerPlace' = ServerPlace
    BY <1>0 DEF ServerPlace
  <2> QED BY <1>0, <2>1 DEF Tracks
<1>2. CASE error
  BY <1>0, <1>1, <1>2, FailureHolds DEF receivePayload
<1>3. CASE ~error
  <2>1. Holds(r) /\ r \in 1 .. Len(sent)
    BY <1>0, <1>3, SizesAreNats DEF Holds, HeaderHolds
  <2>2. CASE ~inLoop
    <3>1. fmt \in {0, 1} /\ header.type = "media" /\ header.size = sent[r]
      BY <1>0, <2>1, <2>2 DEF Holds, HeaderHolds
    <3>2. /\ at' = "readPayload" /\ total' = sent[r] /\ current' = chunkSize(sent[r])
               /\ packet' = sent[r]
          /\ UNCHANGED <<inLoop, payload, error>>
      BY <2>2, <3>1 DEF receivePayload
    <3>3. payload = <<>> /\ Len(payload) = 0 /\ payload = Bytes(r, 1, Len(payload))
            /\ sent[r] \in Nat
      <4>1. payload = <<>> /\ sent[r] \in Nat /\ r \in Nat
        BY <1>0, <2>1, <2>2, SizesAreNats
      <4>2. Bytes(r, 1, 0) = <<>>
        <5>1. Bytes(r, 1, 0) \in Seq(Tokens) /\ Len(Bytes(r, 1, 0)) = 0
          BY <4>1, NatsAreTokens, BytesLength
        <5> QED BY <5>1, EmptySeq
      <4> QED BY <4>1, <4>2
    <3>4. HeaderHolds(r)'
      BY <1>0, <2>1, <2>2, <3>1, <3>2 DEF HeaderHolds
    <3>5. PayloadHolds(r)'
      BY <1>0, <2>2, <3>2, <3>3 DEF PayloadHolds
    <3>6. ReaderPlace(r)' = ReaderPlace(r)
      BY <1>0, <3>2 DEF ReaderPlace
    <3> QED BY <1>1, <1>3, <3>2, <3>4, <3>5, <3>6 DEF Holds
  <2>3. CASE inLoop
    <3>1. fmt = 3
      BY <1>0, <2>1, <2>3 DEF Holds, HeaderHolds
    <3>2. at' = "readPayload" /\ UNCHANGED <<inLoop, payload, error, total, current, packet>>
      BY <2>3, <3>1 DEF receivePayload
    <3>4. HeaderHolds(r)'
      BY <1>0, <2>1, <2>3, <3>1, <3>2 DEF HeaderHolds
    <3>5. PayloadHolds(r)'
      BY <1>0, <2>1, <2>3, <3>2 DEF Holds, PayloadHolds
    <3>6. ReaderPlace(r)' = ReaderPlace(r)
      BY <1>0, <3>2 DEF ReaderPlace
    <3> QED BY <1>1, <1>3, <3>2, <3>4, <3>5, <3>6 DEF Holds
  <2> QED BY <2>2, <2>3
<1> QED BY <1>2, <1>3

\* readPayload takes that piece
LEMMA ReadIsTracked ==
  ASSUME IInv, cause = {}, NEW r \in 1 .. (Len(sent) + 1), Tracks(r), readPayload
  PROVE  Tracks(r)'
<1>0. /\ at = "readPayload" /\ at' = "loop" /\ Len(wire) >= current
      /\ UNCHANGED <<sent, left, cause, fmt, extended, header, inLoop, total, current, packet,
                     error, delivered>>
      /\ wire' = SubSeq(wire, current + 1, Len(wire))
      /\ payload' = IF keeps THEN payload \o SubSeq(wire, 1, current) ELSE payload
  BY DEF readPayload, Reads, Took, server, chunk
<1>1. /\ r \in 1 .. (Len(sent) + 1) /\ delivered = Given(sent)[r - 1]
      /\ ~error /\ Holds(r) /\ Leads(wire, sent, ReaderPlace(r), ServerPlace)
  BY DEF Tracks
<1> DEFINE k == Len(payload)
<1>s. /\ MaxSize \in Nat /\ MaxSize > 0
      /\ Len(sent) \in Nat /\ \A m \in 1 .. Len(sent) : sent[m] \in Nat
      /\ total \in Nat /\ current \in Nat /\ current <= total
      /\ wire \in Seq(Tokens) /\ Len(wire) \in Nat
      /\ payload \in Seq(Tokens) /\ Len(payload) \in Nat
      /\ inLoop \in BOOLEAN
  BY SizesAreNats
<1>2. /\ r \in 1 .. Len(sent) /\ sent[r] \in Nat /\ keeps /\ r \in Nat
      /\ packet = sent[r] /\ payload = Bytes(r, 1, k) /\ current = chunkSize(total)
      /\ k = sent[r] - total /\ k \in Nat /\ total <= sent[r]
      /\ ReaderPlace(r) = Pieces(r, k, sent)
  <2>1. r \in 1 .. Len(sent) /\ r \in Nat
    BY <1>0, <1>1, <1>s DEF Holds, HeaderHolds
  <2>2. keeps
    BY <1>0, <1>1, <1>s DEF Holds, HeaderHolds, keeps
  <2>3. ReaderPlace(r) = Pieces(r, k, sent)
    BY <1>0 DEF ReaderPlace
  <2> QED BY <1>0, <1>1, <2>1, <2>2, <2>3, <1>s DEF Holds, PayloadHolds
<1> HIDE DEF k
<1>3. /\ payload' = Bytes(r, 1, k + current)
      /\ Leads(wire', sent, Border(r, k + current, sent), ServerPlace)
  <2>1. CASE total = 0
    <3>1. current = 0 /\ k = sent[r]
      BY <1>2, <2>1, <1>s
    <3>2. SubSeq(wire, 1, current) = <<>> /\ SubSeq(wire, current + 1, Len(wire)) = wire
      <4>1. SubSeq(wire, 1, 0) = <<>> /\ SubSeq(wire, 1, Len(wire)) = wire
        BY <1>s, SubSeqEmpty, SubSeqFull
      <4> QED BY <3>1, <4>1
    <3>3. payload' = payload /\ wire' = wire
      BY <1>0, <1>2, <3>2, <1>s, ConcatEmptySeq
    <3>4. Pieces(r, k, sent) = Border(r, k + current, sent) /\ k + current = k
      BY <1>2, <3>1 DEF Pieces, Border
    <3> QED BY <1>1, <1>2, <3>3, <3>4
  <2>2. CASE total > 0
    <3>1. current \in Nat /\ current >= 1 /\ firstChunk(total) = current
      BY <1>2, <2>2, <1>s DEF firstChunk, chunkSize, Lesser
    <3>2. Pieces(r, k, sent) = Body(r, k, current)
      <4>1. k # sent[r] /\ sent[r] - k = total
        BY <1>2, <2>2, <1>s
      <4> QED BY <3>1, <4>1 DEF Pieces, Body
    <3>3. /\ SubSeq(wire, 1, current) = Bytes(r, k + 1, k + current)
          /\ Leads(SubSeq(wire, current + 1, Len(wire)), sent, Border(r, k + current, sent),
               ServerPlace)
      <4>1. Leads(wire, sent, Body(r, k, current), ServerPlace)
        BY <1>1, <1>2, <3>2
      <4>2. Len(wire) >= current /\ k \in Nat /\ wire \in Seq(Tokens)
        BY <1>0, <1>2, <1>s
      <4>3. ASSUME NEW c \in Nat, c >= 1, Len(wire) >= c,
                   Leads(wire, sent, Body(r, k, c), ServerPlace)
            PROVE  /\ SubSeq(wire, 1, c) = Bytes(r, k + 1, k + c)
                   /\ Leads(SubSeq(wire, c + 1, Len(wire)), sent, Border(r, k + c, sent),
                        ServerPlace)
        BY <4>2, <4>3, BodyRun
      <4> QED BY <3>1, <4>1, <4>2, <4>3
    <3>4. payload' = Bytes(r, 1, k) \o Bytes(r, k + 1, k + current)
      BY <1>0, <1>2, <3>3
    <3> QED BY <1>0, <1>2, <3>1, <3>3, <3>4, BytesJoin
  <2>3. total = 0 \/ total > 0
    BY <1>s
  <2> QED BY <2>1, <2>2, <2>3
<1>4. Len(payload') = k + current
  <2>1. k + current \in Nat /\ r \in Nat
    BY <1>2, <1>s
  <2> QED BY <1>3, <2>1, BytesLength
<1>5. HeaderHolds(r)'
  BY <1>0, <1>1, <1>2 DEF Holds, HeaderHolds
<1>6. PayloadHolds(r)'
  <2>1. k + current = sent[r] - (total - current) /\ (inLoop => k + current > 0)
    <3>1. inLoop => k > 0
      BY <1>0, <1>1 DEF Holds, PayloadHolds, k
    <3>2. \A size, all, c \in Int : size - all + c = size - (all - c)
      OBVIOUS
    <3>3. k = sent[r] - total
      BY <1>2, <1>s
    <3>4. k \in Nat /\ current \in Nat /\ total \in Nat /\ sent[r] \in Nat
      BY <1>2, <1>s
    <3>5. k + current = sent[r] - (total - current)
      BY <3>2, <3>3, <3>4
    <3> QED BY <3>1, <3>4, <3>5
  <2> QED BY <1>0, <1>2, <1>3, <1>4, <2>1 DEF PayloadHolds
<1>7. ReaderPlace(r)' = Border(r, k + current, sent) /\ ServerPlace' = ServerPlace
  BY <1>0, <1>4 DEF ReaderPlace, ServerPlace
<1> QED BY <1>0, <1>1, <1>3, <1>5, <1>6, <1>7 DEF Tracks, Holds

\* the loop goes on to the next piece, or gives the packet and goes on to the next message
LEMMA LoopIsTracked ==
  ASSUME IInv, cause \subseteq {"cut"}, NEW r \in 1 .. (Len(sent) + 1), Tracks(r), loop
  PROVE  \E q \in 1 .. (Len(sent) + 1) : Tracks(q)'
<1>0. /\ at = "loop" /\ UNCHANGED <<open, wire, sent, left, cause, fmt, extended, header>>
      /\ delivered = Given(sent)[r - 1] /\ (error \/ Holds(r))
      /\ cause = {} => ~error /\ Leads(wire, sent, ReaderPlace(r), ServerPlace)
  BY DEF loop, Tracks, connection, server, chunk
<1>s. /\ MaxSize \in Nat /\ MaxSize > 0
      /\ sent \in Seq(Nat) /\ Len(sent) \in Nat /\ \A m \in 1 .. Len(sent) : sent[m] \in Nat
      /\ total \in Nat /\ current \in Nat /\ current <= total
      /\ payload \in Seq(Tokens) /\ Len(payload) \in Nat
      /\ inLoop \in BOOLEAN /\ error \in BOOLEAN
  BY SizesAreNats
<1>1. ServerPlace' = ServerPlace
  BY <1>0 DEF ServerPlace
<1>2. CASE chunkSize(nextChunkSize) > 0
  <2>1. /\ total' = total - current /\ current' = chunkSize(total - current) /\ inLoop' = TRUE
        /\ at' = "receiveChunk" /\ UNCHANGED <<packet, payload, foreign, error, delivered>>
    BY <1>2 DEF loop, nextChunkSize
  <2>2. CASE error
    BY <1>0, <1>1, <2>1, <2>2 DEF Tracks
  <2>3. CASE ~error
    <3>1. Holds(r) /\ r \in 1 .. Len(sent) /\ sent[r] \in Nat
      BY <1>0, <1>s, <2>3 DEF Holds, HeaderHolds
    <3>2. /\ packet = sent[r] /\ payload = Bytes(r, 1, Len(payload)) /\ current = chunkSize(total)
          /\ Len(payload) = sent[r] - (total - current) /\ total <= sent[r]
      BY <1>0, <3>1 DEF Holds, PayloadHolds
    <3>3. total - current \in Nat /\ total - current > 0 /\ total > 0
      BY <1>2, <1>s, ChunkSizes DEF nextChunkSize, chunkSize, Lesser
    <3>4. current > 0 /\ Len(payload) > 0 /\ Len(payload) # sent[r]
      <4>1. current > 0
        BY <1>s, <3>2, <3>3 DEF chunkSize, Lesser
      <4> DEFINE n    == Len(payload)
                 size == sent[r]
      <4>2. /\ n = size - (total - current) /\ total <= size
            /\ size \in Nat /\ total \in Nat /\ current \in Nat
        BY <1>s, <3>1, <3>2
      <4> HIDE DEF n, size
      <4>3. n > 0 /\ n # size
        BY <3>3, <4>1, <4>2
      <4> QED BY <4>1, <4>3 DEF n, size
    <3>5. HeaderHolds(r)'
      BY <1>0, <2>1, <3>1 DEF HeaderHolds
    <3>6. PayloadHolds(r)'
      <4>1. total' > 0 /\ Len(payload') > 0
        BY <2>1, <3>3, <3>4
      <4>2. packet' = sent'[r] /\ payload' = Bytes(r, 1, Len(payload'))
        BY <1>0, <2>1, <3>2
      <4>3. current' = chunkSize(total')
        BY <2>1
      <4>4. Len(payload') = sent'[r] - total' /\ total' <= sent'[r]
        <5>1. Len(payload') = sent'[r] - (total - current) /\ sent'[r] = sent[r]
          BY <1>0, <2>1, <3>2
        <5>2. total' = total - current /\ total - current <= total /\ total <= sent[r]
          BY <1>s, <2>1, <3>2
        <5> QED BY <1>s, <3>1, <5>1, <5>2
      <4> QED BY <2>1, <4>1, <4>2, <4>3, <4>4 DEF PayloadHolds
    <3>7. ReaderPlace(r)' = ReaderPlace(r)
      BY <1>0, <2>1, <3>4 DEF ReaderPlace, Border
    <3> QED BY <1>0, <1>1, <2>1, <3>5, <3>6, <3>7 DEF Tracks, Holds
  <2> QED BY <2>2, <2>3, <1>s
<1>3. CASE ~(chunkSize(nextChunkSize) > 0)
  <2>1. Deliver /\ NewRound
    BY <1>3 DEF loop
  <2>2. \A q : Holds(q)' /\ ReaderPlace(q)' = Chunk(q, 0) /\ ~error'
    BY <2>1, NewRoundHolds
  <2>3. CASE error
    <3>1. delivered' = delivered
      BY <2>1, <2>3 DEF Deliver
    <3> QED BY <1>0, <2>2, <2>3, <3>1 DEF Tracks
  <2>4. CASE ~error
    <3>1. Holds(r) /\ r \in 1 .. Len(sent) /\ sent[r] \in Nat /\ r \in Nat
      BY <1>0, <1>s, <2>4 DEF Holds, HeaderHolds
    <3>2. /\ packet = sent[r] /\ payload = Bytes(r, 1, Len(payload))
          /\ Len(payload) = sent[r] - (total - current)
      BY <1>0, <3>1 DEF Holds, PayloadHolds
    <3>3. total - current = 0
      <4>1. total - current \in Int
        BY <1>s
      <4>2. chunkSize(total - current) <= 0 => total - current <= 0
        BY <4>1, ChunkSizes
      <4>3. chunkSize(total - current) \in Int
        BY <4>1, ChunkSizes
      <4> QED BY <1>3, <1>s, <4>2, <4>3 DEF nextChunkSize
    <3>4. Len(payload) = sent[r] /\ payload = Bytes(r, 1, sent[r]) /\ packet # Blank
      BY <1>s, <3>1, <3>2, <3>3 DEF Blank
    <3>5. delivered' = After(Given(sent)[r - 1], sent, r)
      <4>1. payload = <<>> <=> sent[r] = 0
        <5>1. \A u \in Seq(Tokens) : Len(u) = 0 <=> u = <<>>
          BY EmptySeq
        <5>2. Len(payload) = 0 <=> payload = <<>>
          BY <1>s, <5>1
        <5> QED BY <3>4, <5>2
      <4>2. CASE sent[r] = 0
        <5>1. delivered' = delivered
          BY <2>1, <4>1, <4>2 DEF Deliver
        <5> QED BY <1>0, <4>2, <5>1 DEF After
      <4>3. CASE sent[r] # 0
        <5>1. delivered' = Append(delivered, [size |-> packet, bytes |-> payload])
          BY <2>1, <2>4, <3>4, <4>1, <4>3 DEF Deliver
        <5>2. packet = sent[r] /\ payload = Bytes(r, 1, sent[r])
          BY <3>2, <3>4
        <5> QED BY <1>0, <4>3, <5>1, <5>2 DEF After
      <4> QED BY <4>2, <4>3
    <3>6. Given(sent)[r] = After(Given(sent)[r - 1], sent, r)
      BY <1>s, <3>1, GivenIs
    <3>7. ReaderPlace(r) = Chunk(r + 1, 0)
      BY <1>0, <3>4 DEF ReaderPlace, Border
    <3>8. r + 1 \in 1 .. (Len(sent) + 1) /\ (r + 1) - 1 = r
      BY <1>s, <3>1
    <3>9. Tracks(r + 1)'
      BY <1>0, <1>1, <2>2, <3>5, <3>6, <3>7, <3>8 DEF Tracks
    <3> QED BY <3>8, <3>9
  <2> QED BY <2>3, <2>4, <1>s
<1> QED BY <1>2, <1>3

\* A read that fails without a cut fails between two messages; after a cut nothing more
\* is given.
LEMMA FailureIsTracked ==
  ASSUME IInv, cause \subseteq {"cut"}, NEW r \in 1 .. (Len(sent) + 1), Tracks(r),
         readFails, cause' \subseteq {"cut"}
  PROVE  \E q \in 1 .. (Len(sent) + 1) : Tracks(q)'
<1>0. /\ at \in Reading /\ Lost /\ ChunkFails /\ UNCHANGED <<sent, left, fmt, extended, header,
                                                             delivered>>
      /\ delivered = Given(sent)[r - 1] /\ (error \/ Holds(r))
      /\ cause = {} => ~error /\ Leads(wire, sent, ReaderPlace(r), ServerPlace)
  BY DEF readFails, Tracks, server, chunk
<1>1. CASE cause' # {}
  <2>1. error' \/ Holds(r)'
    BY <1>0, FailureHolds
  <2> QED BY <1>0, <1>1, <2>1 DEF Tracks
<1>2. CASE cause' = {}
  <2>1. cause = {} /\ wire = <<>> /\ wire' = <<>> /\ left <= 0
    BY <1>0, <1>2, SizesAreNats DEF Lost
  <2>2. ~error /\ Holds(r) /\ left = 0 /\ ReaderPlace(r) = Chunk(Len(sent) + 1, 0)
    <3>1. left = 0 /\ ServerPlace = Chunk(Len(sent) + 1, 0)
      BY <2>1, SizesAreNats DEF ServerPlace
    <3> QED BY <1>0, <2>1, <3>1, NothingLeads
  <2>s. /\ sent \in Seq(Nat) /\ Len(sent) \in Nat /\ \A m \in 1 .. Len(sent) : sent[m] \in Nat
        /\ total \in Nat /\ payload \in Seq(Tokens) /\ Len(payload) \in Nat
        /\ (at # "loop" /\ ~inLoop) => payload = <<>>
        /\ inLoop \in BOOLEAN
    BY SizesAreNats
  <2>3. /\ at \in {"receiveChunk", "readPayload"} /\ ~inLoop
        /\ delivered = Given(sent)[Len(sent)]
    <3>1. CASE at = "receiveChunk"
      <4>1. Chunk(r, Len(payload)) = Chunk(Len(sent) + 1, 0)
        BY <2>2, <3>1 DEF ReaderPlace
      <4>2. r = Len(sent) + 1 /\ Len(payload) = 0
        BY <4>1 DEF Chunk, Place
      <4>3. ~inLoop
        BY <2>2, <2>s, <4>2 DEF Holds, HeaderHolds
      <4> QED BY <1>0, <2>s, <3>1, <4>2, <4>3
    <3>2. CASE at = "readPayload"
      <4>1. Pieces(r, Len(payload), sent) = Chunk(Len(sent) + 1, 0) /\ r \in 1 .. Len(sent)
              /\ r \in Nat
        BY <2>2, <2>s, <3>2 DEF ReaderPlace, Holds, HeaderHolds
      <4>2. Len(payload) = sent[r] /\ Chunk(r + 1, 0) = Chunk(Len(sent) + 1, 0)
        BY <4>1 DEF Pieces, Chunk, Place
      <4>3. r + 1 = Len(sent) + 1
        BY <4>2 DEF Chunk, Place
      <4>4. r = Len(sent)
        BY <2>s, <4>1, <4>3
      <4>5. total = 0
        BY <2>2, <2>s, <3>2, <4>1, <4>2 DEF Holds, PayloadHolds
      <4>6. ~inLoop
        BY <2>2, <2>s, <3>2, <4>5 DEF Holds, PayloadHolds
      <4>7. sent[r] = 0
        BY <2>s, <3>2, <4>2, <4>6
      <4>8. Given(sent)[r] = Given(sent)[r - 1]
        BY <2>s, <4>1, <4>7, GivenIs DEF After
      <4> QED BY <1>0, <3>2, <4>4, <4>6, <4>8
    <3>3. CASE at \notin {"receiveChunk", "readPayload"}
      <4>1. at \notin {"receivePayload", "loop"}
        BY <1>0 DEF Reading
      <4>2. Place(r, 0, at, fmt, 0) = Chunk(Len(sent) + 1, 0)
        BY <2>2, <3>3, <4>1 DEF ReaderPlace
      <4>3. at = "receiveChunk"
        BY <4>2 DEF Place, Chunk
      <4> QED BY <3>3, <4>3
    <3> QED BY <3>1, <3>2, <3>3
  <2>4. NewRound
    BY <1>0, <2>3 DEF ChunkFails
  <2>5. PICK q \in 1 .. (Len(sent) + 1) : q = Len(sent) + 1 /\ q - 1 = Len(sent)
    BY <2>s
  <2>6. Holds(q)' /\ ReaderPlace(q)' = Chunk(q, 0) /\ ~error'
    BY <2>4, NewRoundHolds
  <2>7. ServerPlace' = Chunk(q, 0)
    BY <1>0, <2>2, <2>5 DEF ServerPlace
  <2>8. Leads(wire', sent', ReaderPlace(q)', ServerPlace')
    BY <2>1, <2>6, <2>7, NothingLeads
  <2>9. Tracks(q)'
    BY <1>0, <2>3, <2>5, <2>6, <2>8 DEF Tracks
  <2> QED BY <2>5, <2>9
<1> QED BY <1>1, <1>2

-----------------------------------------------------------------------------
(* What the server sends leads on to where it is then.                      *)

\* two tokens, and three stretches, one after the other
LEMMA TwoLead ==
  ASSUME NEW s, NEW a, NEW b, NEW c, NEW x \in Tokens, NEW y \in Tokens,
         Step(a, x, b, s), Step(b, y, c, s)
  PROVE  <<x, y>> \in Seq(Tokens) /\ Leads(<<x, y>>, s, a, c)
<1> DEFINE f == [i \in 1 .. 3 |-> IF i = 1 THEN a ELSE IF i = 2 THEN b ELSE c]
           w == <<x, y>>
<1>1. f[1] = a /\ f[2] = b /\ f[3] = c
  OBVIOUS
<1>2. Len(w) = 2 /\ w[1] = x /\ w[2] = y /\ w \in Seq(Tokens)
  OBVIOUS
<1> HIDE DEF f, w
<1>3. ASSUME NEW i \in 1 .. 2 PROVE Step(f[i], w[i], f[i + 1], s)
  <2>1. i = 1 \/ i = 2
    OBVIOUS
  <2>2. CASE i = 1
    BY <1>1, <1>2, <2>2
  <2>3. CASE i = 2
    BY <1>1, <1>2, <2>3
  <2> QED BY <2>1, <2>2, <2>3
<1>4. Path(f, w, s, a, c)
  BY <1>1, <1>2, <1>3 DEF Path
<1> QED BY <1>2, <1>4 DEF Leads, w

LEMMA LeadsOnAgain ==
  ASSUME NEW s, NEW a, NEW b, NEW c, NEW d,
         NEW u \in Seq(Tokens), NEW v \in Seq(Tokens), NEW w \in Seq(Tokens),
         Leads(u, s, a, b), Leads(v, s, b, c), Leads(w, s, c, d)
  PROVE  Leads((u \o v) \o w, s, a, d)
<1>1. u \o v \in Seq(Tokens) /\ Leads(u \o v, s, a, c)
  BY LeadsOn, ConcatProperties
<1> DEFINE x == u \o v
<1> HIDE DEF x
<1>2. x \in Seq(Tokens) /\ Leads(x, s, a, c)
  BY <1>1 DEF x
<1>3. Leads(x \o w, s, a, d)
  BY <1>2, LeadsOn
<1> QED BY <1>3 DEF x

\* The fields of a header lead from between messages to the pieces.
LEMMA HeaderSteps ==
  ASSUME NEW s, NEW m \in 1 .. Len(s), NEW t \in {0, 1}
  PROVE  /\ Step(Chunk(m, 0), Token("basic", t), Place(m, 0, "receiveTimestamp", t, 0), s)
         /\ Step(Place(m, 0, "receiveTimestamp", t, 0), Token("timestamp", FALSE),
                 Place(m, 0, "receiveBodySize", t, 0), s)
         /\ Step(Place(m, 0, "receiveBodySize", t, 0), Token("size", s[m]),
                 Place(m, 0, "receiveMessageType", t, 0), s)
         /\ Step(Place(m, 0, "receiveMessageType", t, 0), Token("type", "media"),
                 IF t = 0 THEN Place(m, 0, "receiveStreamID", 0, 0) ELSE Pieces(m, 0, s), s)
         /\ Step(Place(m, 0, "receiveStreamID", 0, 0), Token("streamID", 0), Pieces(m, 0, s), s)
<1>0. /\ \A f, u : Place(m, 0, f, u, 0).message = m /\ Place(m, 0, f, u, 0).passed = 0
      /\ \A f, u : Place(m, 0, f, u, 0).phase = f /\ Place(m, 0, f, u, 0).type = u
  BY DEF Place
<1>1. ASSUME NEW p, p.message = m, p.passed = 0, p.phase = "receiveChunk"
      PROVE  Step(p, Token("basic", t), Place(m, 0, "receiveTimestamp", t, 0), s)
  BY <1>1 DEF Step
<1>2. ASSUME NEW p, p.message = m, p.phase = "receiveTimestamp", p.type = t
      PROVE  Step(p, Token("timestamp", FALSE), Place(m, 0, "receiveBodySize", t, 0), s)
  BY <1>2 DEF Step
<1>3. ASSUME NEW p, p.message = m, p.phase = "receiveBodySize", p.type = t
      PROVE  Step(p, Token("size", s[m]), Place(m, 0, "receiveMessageType", t, 0), s)
  BY <1>3 DEF Step
<1>4. ASSUME NEW p, p.message = m, p.phase = "receiveMessageType", p.type = t
      PROVE  Step(p, Token("type", "media"),
                  IF t = 0 THEN Place(m, 0, "receiveStreamID", 0, 0) ELSE Pieces(m, 0, s), s)
  BY <1>4 DEF Step
<1>5. ASSUME NEW p, p.message = m, p.phase = "receiveStreamID"
      PROVE  Step(p, Token("streamID", 0), Pieces(m, 0, s), s)
  BY <1>5 DEF Step
<1>6. Step(Chunk(m, 0), Token("basic", t), Place(m, 0, "receiveTimestamp", t, 0), s)
  BY <1>0, <1>1 DEF Chunk
<1>7. Step(Place(m, 0, "receiveTimestamp", t, 0), Token("timestamp", FALSE),
           Place(m, 0, "receiveBodySize", t, 0), s)
  BY <1>0, <1>2
<1>8. Step(Place(m, 0, "receiveBodySize", t, 0), Token("size", s[m]),
           Place(m, 0, "receiveMessageType", t, 0), s)
  BY <1>0, <1>3
<1>9. Step(Place(m, 0, "receiveMessageType", t, 0), Token("type", "media"),
           IF t = 0 THEN Place(m, 0, "receiveStreamID", 0, 0) ELSE Pieces(m, 0, s), s)
  BY <1>0, <1>4
<1>10. Step(Place(m, 0, "receiveStreamID", 0, 0), Token("streamID", 0), Pieces(m, 0, s), s)
  BY <1>0, <1>5
<1> QED BY <1>6, <1>7, <1>8, <1>9, <1>10

LEMMA HeaderLeads ==
  ASSUME NEW s, NEW m \in 1 .. Len(s), NEW t \in {0, 1}, s[m] \in Sizes
  PROVE  /\ Header(t, FALSE, s[m], "media") \in Seq(Tokens)
         /\ Leads(Header(t, FALSE, s[m], "media"), s, Chunk(m, 0), Pieces(m, 0, s))
<1> DEFINE a == <<Token("basic", t), Token("timestamp", FALSE)>>
           b == <<Token("size", s[m]), Token("type", "media")>>
           c == IF t = 0 THEN <<Token("streamID", 0)>> ELSE <<>>
           z == IF t = 0 THEN Place(m, 0, "receiveStreamID", 0, 0) ELSE Pieces(m, 0, s)
<1>0. /\ Token("basic", t) \in Tokens /\ Token("timestamp", FALSE) \in Tokens
      /\ Token("size", s[m]) \in Tokens /\ Token("type", "media") \in Tokens
           /\ Token("streamID", 0) \in Tokens
  BY DEF Token, Tokens
<1>1. a \in Seq(Tokens) /\ Leads(a, s, Chunk(m, 0), Place(m, 0, "receiveBodySize", t, 0))
  BY <1>0, HeaderSteps, TwoLead
<1>2. b \in Seq(Tokens) /\ Leads(b, s, Place(m, 0, "receiveBodySize", t, 0), z)
  BY <1>0, HeaderSteps, TwoLead
<1>3. c \in Seq(Tokens) /\ Leads(c, s, z, Pieces(m, 0, s))
  <2>1. CASE t = 0
    <3>1. <<Token("streamID", 0)>> \in Seq(Tokens)
      BY <1>0
    <3>2. Leads(<<Token("streamID", 0)>>, s, Place(m, 0, "receiveStreamID", 0, 0), Pieces(m, 0, s))
      BY HeaderSteps, OneLeads
    <3> QED BY <2>1, <3>1, <3>2
  <2>2. CASE t # 0
    <3>1. Leads(<<>>, s, Pieces(m, 0, s), Pieces(m, 0, s)) /\ <<>> \in Seq(Tokens)
      BY NothingLeads, EmptySeq
    <3> QED BY <2>2, <3>1
  <2> QED BY <2>1, <2>2
<1>4. Header(t, FALSE, s[m], "media") = (a \o b) \o c
  BY DEF Header, Token
<1> HIDE DEF a, b, c, z
<1>5. a \o b \in Seq(Tokens) /\ Leads(a \o b, s, Chunk(m, 0), z)
  BY <1>1, <1>2, LeadsOn, ConcatProperties
<1>6. (a \o b) \o c \in Seq(Tokens) /\ Leads((a \o b) \o c, s, Chunk(m, 0), Pieces(m, 0, s))
  BY <1>3, <1>5, LeadsOn, ConcatProperties
<1> QED BY <1>4, <1>6

\* the pieces of a message that a chunk brings, none when it is empty
LEMMA PiecesLead ==
  ASSUME NEW s, NEW m \in 1 .. Len(s), NEW k \in Nat, s[m] \in Nat, k <= s[m], s[m] > 0 => k < s[m]
  PROVE  /\ firstChunk(s[m] - k) \in Nat
         /\ Bytes(m, k + 1, k + firstChunk(s[m] - k)) \in Seq(Tokens)
         /\ Leads(Bytes(m, k + 1, k + firstChunk(s[m] - k)), s, Pieces(m, k, s),
                  Border(m, k + firstChunk(s[m] - k), s))
<1>0. m \in Nat /\ MaxSize \in Nat /\ MaxSize > 0
  BY SizeAssumption
<1>1. CASE k < s[m]
  <2> DEFINE c == firstChunk(s[m] - k)
  <2>1. c \in Nat /\ c >= 1 /\ k + c <= s[m] /\ k # s[m]
    BY <1>0, <1>1 DEF firstChunk, Lesser
  <2>2. Pieces(m, k, s) = Body(m, k, c)
    BY <2>1 DEF Pieces, Body
  <2> HIDE DEF c
  <2>3. Bytes(m, k + 1, k + c) \in Seq(Tokens)
    <3>1. k + 1 \in Nat /\ k + c \in Int
      BY <2>1
    <3> QED BY <1>0, <3>1, BytesAreTokens
  <2>4. Leads(Bytes(m, k + 1, k + c), s, Body(m, k, c), Border(m, k + c, s))
    BY <2>1, BytesLead
  <2> QED BY <2>1, <2>2, <2>3, <2>4 DEF c
<1>2. CASE k = s[m]
  <2> DEFINE c == firstChunk(s[m] - k)
  <2>1. s[m] - k = 0 /\ k = 0 /\ firstChunk(0) = 0
    BY <1>0, <1>2 DEF firstChunk, Lesser
  <2>2. c = 0
    BY <2>1
  <2> HIDE DEF c
  <2>3. c \in Nat /\ k + c = k /\ k + c = 0 /\ k + 1 = 1
    BY <2>1, <2>2
  <2>4. Bytes(m, 1, 0) \in Seq(Tokens) /\ Bytes(m, 1, 0) = <<>>
    <3>1. Bytes(m, 1, 0) \in Seq(Tokens) /\ Len(Bytes(m, 1, 0)) = 0
      BY <1>0, NatsAreTokens, BytesLength
    <3> QED BY <3>1, EmptySeq
  <2>5. Pieces(m, k, s) = Border(m, k, s)
    BY <1>2 DEF Pieces, Border
  <2>6. Leads(<<>>, s, Pieces(m, k, s), Border(m, k, s))
    BY <2>5, NothingLeads
  <2>7. /\ Bytes(m, k + 1, k + c) \in Seq(Tokens)
        /\ Leads(Bytes(m, k + 1, k + c), s, Pieces(m, k, s), Border(m, k + c, s))
    BY <2>3, <2>4, <2>6
  <2> QED BY <2>3, <2>7 DEF c
<1> QED BY <1>1, <1>2

\* a new message, whole or its first piece
LEMMA HeadIsTracked ==
  ASSUME IInv, cause = {}, NEW r \in 1 .. (Len(sent) + 1), Tracks(r), sendHead, cause' = {}
  PROVE  Tracks(r)'
<1>1. PICK n \in Sizes, type \in {0, 1} :
        /\ wire' = wire \o Header(type, FALSE, n, "media") \o Bytes(Len(sent) + 1, 1, firstChunk(n))
        /\ left' = n - firstChunk(n)
        /\ sent' = Append(sent, n)
  BY DEF sendHead
<1>2. left = 0 /\ UNCHANGED <<at, fmt, extended, header, inLoop, total, current, packet, payload,
                              error, delivered>>
  BY DEF sendHead, chunk, round
<1>s. /\ MaxSize \in Nat /\ MaxSize > 0 /\ n \in Nat
      /\ sent \in Seq(Nat) /\ Len(sent) \in Nat /\ \A m \in 1 .. Len(sent) : sent[m] \in Nat
      /\ wire \in Seq(Tokens)
  BY SizesAreNats, SizeAssumption
<1>3. /\ delivered = Given(sent)[r - 1] /\ ~error /\ Holds(r)
      /\ Leads(wire, sent, ReaderPlace(r), ServerPlace)
  BY DEF Tracks
<1> DEFINE M == Len(sent) + 1
<1>4. /\ Len(sent') = M /\ sent'[M] = n /\ \A m \in 1 .. Len(sent) : sent'[m] = sent[m]
      /\ M \in 1 .. Len(sent') /\ M \in Nat
  BY <1>1, <1>s, AppendProperties
<1>5. Leads(wire, sent', ReaderPlace(r), Chunk(M, 0))
  <2>1. ServerPlace = Chunk(M, 0)
    BY <1>2 DEF ServerPlace
  <2> HIDE DEF M
  <2> QED BY <1>1, <1>3, <1>s, <2>1, LeadsWithMore
<1> HIDE DEF M
<1>6. /\ Header(type, FALSE, n, "media") \in Seq(Tokens)
      /\ Leads(Header(type, FALSE, n, "media"), sent', Chunk(M, 0), Pieces(M, 0, sent'))
  BY <1>4, HeaderLeads
<1>7. /\ firstChunk(n) \in Nat /\ Bytes(M, 1, firstChunk(n)) \in Seq(Tokens)
      /\ Leads(Bytes(M, 1, firstChunk(n)), sent', Pieces(M, 0, sent'),
               Border(M, firstChunk(n), sent'))
  <2>0. sent'[M] \in Nat /\ 0 \in Nat /\ 0 <= sent'[M] /\ sent'[M] = n /\ M \in 1 .. Len(sent')
          /\ (n > 0 => 0 < n)
    BY <1>s, <1>4
  <2>1. /\ firstChunk(n - 0) \in Nat
        /\ Bytes(M, 0 + 1, 0 + firstChunk(n - 0)) \in Seq(Tokens)
        /\ Leads(Bytes(M, 0 + 1, 0 + firstChunk(n - 0)), sent', Pieces(M, 0, sent'),
                 Border(M, 0 + firstChunk(n - 0), sent'))
    BY <2>0, PiecesLead
  <2>2. n - 0 = n /\ 0 + 1 = 1
    BY <1>s
  <2>3. firstChunk(n) \in Nat
    BY <2>1, <2>2
  <2>4. 0 + firstChunk(n) = firstChunk(n)
    BY <2>3
  <2> QED BY <2>1, <2>2, <2>4
<1>8. Border(M, firstChunk(n), sent') = ServerPlace'
  <2>1. firstChunk(n) \in Nat /\ n - (n - firstChunk(n)) = firstChunk(n)
    BY <1>7, <1>s
  <2>2. left' = 0 <=> firstChunk(n) = n
    BY <1>1, <1>s, <2>1
  <2> QED BY <1>1, <1>4, <2>1, <2>2 DEF Border, ServerPlace
<1>9. Leads(wire', sent', ReaderPlace(r), ServerPlace')
  <2>1. Leads((wire \o Header(type, FALSE, n, "media")) \o Bytes(M, 1, firstChunk(n)), sent',
              ReaderPlace(r), Border(M, firstChunk(n), sent'))
    BY <1>s, <1>5, <1>6, <1>7, LeadsOnAgain
  <2> QED BY <1>1, <1>8, <2>1 DEF M
<1>10. Holds(r)' /\ ReaderPlace(r)' = ReaderPlace(r)
  <2>1. CASE r \in 1 .. Len(sent)
    <3>1. sent'[r] = sent[r] /\ r <= Len(sent')
      BY <1>4, <1>s, <2>1 DEF M
    <3>2. HeaderHolds(r)'
      BY <1>2, <1>3, <3>1 DEF Holds, HeaderHolds
    <3>3. PayloadHolds(r)'
      BY <1>2, <1>3, <3>1 DEF Holds, PayloadHolds
    <3>4. ReaderPlace(r)' = ReaderPlace(r)
      BY <1>2, <3>1 DEF ReaderPlace, Pieces, Border
    <3> QED BY <3>2, <3>3, <3>4 DEF Holds
  <2>2. CASE r = Len(sent) + 1
    <3>1. at = "receiveChunk" /\ ~inLoop
      BY <1>3, <1>s, <2>2 DEF Holds, HeaderHolds
    <3>2. HeaderHolds(r)'
      BY <1>2, <3>1 DEF HeaderHolds
    <3>3. PayloadHolds(r)'
      BY <1>2, <3>1 DEF PayloadHolds
    <3>4. ReaderPlace(r)' = ReaderPlace(r)
      BY <1>2, <3>1 DEF ReaderPlace
    <3> QED BY <3>2, <3>3, <3>4 DEF Holds
  <2> QED BY <1>s, <2>1, <2>2
<1>11. r \in 1 .. (Len(sent') + 1) /\ delivered' = Given(sent')[r - 1]
  <2>1. r - 1 \in 0 .. Len(sent) /\ r \in 1 .. (Len(sent') + 1)
    BY <1>s, <1>4 DEF M
  <2> QED BY <1>1, <1>2, <1>3, <1>s, <2>1, GivenOfMore
<1> QED BY <1>2, <1>3, <1>9, <1>10, <1>11 DEF Tracks

\* a piece more of the last one
LEMMA PieceIsTracked ==
  ASSUME IInv, Begun, cause = {}, NEW r \in 1 .. (Len(sent) + 1), Tracks(r), sendPiece
  PROVE  Tracks(r)'
<1> DEFINE M == Len(sent)
           k == sent[M] - left
           c == firstChunk(left)
<1>1. /\ left > 0 /\ left' = left - c
      /\ wire' = wire \o << [field |-> "basic", value |-> 3] >>
                      \o Bytes(M, (sent[M] - left + 1), (sent[M] - left + 1) + c - 1)
      /\ UNCHANGED <<sent, cause, at, fmt, extended, header, inLoop, total, current, packet,
                     payload, error, delivered>>
  BY DEF sendPiece, chunk, round
<1>2. /\ r \in 1 .. (Len(sent) + 1) /\ delivered = Given(sent)[r - 1] /\ ~error /\ Holds(r)
      /\ Leads(wire, sent, ReaderPlace(r), ServerPlace)
  BY DEF Tracks
<1>s. /\ MaxSize \in Nat /\ MaxSize > 0 /\ left \in Nat /\ M \in Nat /\ wire \in Seq(Tokens)
      /\ M \in 1 .. Len(sent) /\ sent[M] \in Nat /\ left < sent[M]
  <2>1. Len(sent) \in Nat /\ Len(sent) >= 1 /\ left < sent[Len(sent)]
    BY <1>1, SizesAreNats DEF IInv, TInv, LeftIsOfLast, Begun
  <2> QED BY <2>1, SizesAreNats
<1>3. ServerPlace = Chunk(M, k) /\ k \in Nat /\ k \in 1 .. (sent[M] - 1) /\ sent[M] - k = left
        /\ k < sent[M]
  <2>1. ServerPlace = Chunk(M, k)
    BY <1>1, <1>s DEF ServerPlace
  <2>2. \A size, rest \in Nat : rest > 0 /\ rest < size =>
          /\ size - rest \in Nat /\ size - rest \in 1 .. (size - 1)
          /\ size - (size - rest) = rest /\ size - rest < size
    OBVIOUS
  <2> QED BY <1>1, <1>s, <2>1, <2>2
<1>4. Token("basic", 3) \in Tokens /\ <<Token("basic", 3)>> \in Seq(Tokens)
      /\ << [field |-> "basic", value |-> 3] >> = <<Token("basic", 3)>>
  BY DEF Token, Tokens
<1>5. Step(Chunk(M, k), Token("basic", 3), Pieces(M, k, sent), sent)
  <2> DEFINE p == Chunk(M, k)
  <2>1. p.message = M /\ p.passed = k /\ p.phase = "receiveChunk"
    BY DEF Chunk, Place
  <2> HIDE DEF p, M, k
  <2>2. Step(p, Token("basic", 3), Pieces(M, k, sent), sent)
    BY <1>s, <1>3, <2>1 DEF Step
  <2> QED BY <2>2 DEF p
<1> HIDE DEF M, k, c
<1>6. Leads(<<Token("basic", 3)>>, sent, Chunk(M, k), Pieces(M, k, sent))
  BY <1>5, OneLeads
<1>7. /\ c \in Nat /\ Bytes(M, k + 1, k + c) \in Seq(Tokens)
      /\ Leads(Bytes(M, k + 1, k + c), sent, Pieces(M, k, sent), Border(M, k + c, sent))
  <2>1. firstChunk(sent[M] - k) = c
    BY <1>3 DEF c
  <2>2. /\ firstChunk(sent[M] - k) \in Nat
        /\ Bytes(M, k + 1, k + firstChunk(sent[M] - k)) \in Seq(Tokens)
        /\ Leads(Bytes(M, k + 1, k + firstChunk(sent[M] - k)), sent, Pieces(M, k, sent),
                  Border(M, k + firstChunk(sent[M] - k), sent))
    BY <1>s, <1>3, PiecesLead
  <2> QED BY <2>1, <2>2
<1>8. wire' = (wire \o <<Token("basic", 3)>>) \o Bytes(M, k + 1, k + c)
  <2>1. (sent[M] - left + 1) + c - 1 = k + c /\ sent[M] - left + 1 = k + 1
    <3>1. k = sent[M] - left /\ sent[M] \in Nat /\ left \in Nat /\ c \in Nat
      BY <1>s, <1>7 DEF k
    <3>2. \A a, b, d \in Nat : ((a - b) + 1) + d - 1 = (a - b) + d
      OBVIOUS
    <3> QED BY <3>1, <3>2
  <2> QED BY <1>1, <1>4, <2>1 DEF M
<1>9. Border(M, k + c, sent) = ServerPlace'
  <2>0. /\ left' = left - c /\ sent[M] - k = left
        /\ sent[M] \in Nat /\ left \in Nat /\ c \in Nat /\ k \in Nat
    BY <1>1, <1>3, <1>s, <1>7
  <2>a. \A a, b, d, e \in Nat : \A z \in Int :
          (z = b - d /\ a - e = b) => (z = 0 <=> e + d = a) /\ a - z = e + d
    OBVIOUS
  <2>b. left' \in Int
    BY <2>0
  <2>1. left' = 0 <=> k + c = sent[M]
    BY <2>0, <2>a, <2>b
  <2>2. sent[M] - left' = k + c
    BY <2>0, <2>a, <2>b
  <2>3. ServerPlace' = IF left' = 0 THEN Chunk(M + 1, 0) ELSE Chunk(M, sent[M] - left')
    BY <1>1 DEF ServerPlace, M
  <2> QED BY <2>1, <2>2, <2>3 DEF Border
<1>10. Leads(wire', sent, ReaderPlace(r), ServerPlace')
  <2>1. Leads(wire, sent, ReaderPlace(r), Chunk(M, k))
    BY <1>2, <1>3
  <2>2. Leads((wire \o <<Token("basic", 3)>>) \o Bytes(M, k + 1, k + c), sent, ReaderPlace(r),
          Border(M, k + c, sent))
    BY <1>4, <1>6, <1>7, <1>s, <2>1, LeadsOnAgain
  <2> QED BY <1>8, <1>9, <2>2
<1>11. Holds(r)' /\ ReaderPlace(r)' = ReaderPlace(r)
  BY <1>1, <1>2 DEF Holds, HeaderHolds, PayloadHolds, ReaderPlace
<1> QED BY <1>1, <1>2, <1>10, <1>11 DEF Tracks

-----------------------------------------------------------------------------
(* The whole of a step.                                                     *)

\* what a step leaves of the two facts the proofs above take for granted
LEMMA NextKeepsBegun ==
  ASSUME IInv, Begun, [ChunkNext]_chunkVars
  PROVE  Begun'
<1>s. MaxSize \in Nat /\ MaxSize > 0 /\ Sizes \subseteq Nat /\ left \in Nat /\ sent \in Seq(Nat)
  BY SizesAreNats, SizeAssumption
<1>1. CASE sendHead
  <2>1. PICK n \in Sizes : left' = n - firstChunk(n) /\ sent' = Append(sent, n)
    BY <1>1 DEF sendHead
  <2>2. n \in Nat /\ sent'[Len(sent')] = n
    BY <1>s, <2>1, AppendProperties
  <2>3. left' > 0 => left' < n
    BY <1>s, <2>1, <2>2 DEF firstChunk, Lesser
  <2> QED BY <2>2, <2>3 DEF Begun
<1>2. CASE sendPiece
  <2>1. left' = left - firstChunk(left) /\ sent' = sent /\ left > 0
    BY <1>2 DEF sendPiece
  <2>2. left' < left
    BY <1>s, <2>1 DEF firstChunk, Lesser
  <2>3. left < sent[Len(sent)] /\ sent[Len(sent)] \in Nat
    <3>1. Len(sent) \in 1 .. Len(sent)
      BY <2>1, SizesAreNats DEF IInv, TInv, LeftIsOfLast
    <3> QED BY <2>1, <3>1, SizesAreNats DEF Begun
  <2>4. left' \in Int
    BY <1>s, <2>1 DEF firstChunk, Lesser
  <2> QED BY <1>s, <2>1, <2>2, <2>3, <2>4 DEF Begun
<1>3. CASE sendOther \/ drop \/ Reader \/ readFails \/ UNCHANGED chunkVars
  <2>1. UNCHANGED <<sent, left>>
    BY <1>3 DEF sendOther, drop, Reader, receiveChunk, receiveTimestamp, receiveBodySize,
         receiveMessageType, receiveExtentedTimestamp, receiveStreamID, receivePayload, readPayload,
         loop, readFails, server, chunkVars
  <2> QED BY <2>1 DEF Begun
<1> QED BY <1>1, <1>2, <1>3 DEF ChunkNext

LEMMA NextKeepsClosed ==
  ASSUME Closed, [ChunkNext]_chunkVars
  PROVE  Closed'
<1>1. CASE sendHead \/ sendPiece \/ sendOther
  <2>1. /\ open /\ open' = open
        /\ \/ cause' = cause
           \/ cause' \in {{"saturated"}, {"control"}, {"compressed"}, {"interleaved"}}
    BY <1>1 DEF sendHead, sendPiece, sendOther
  <2> QED BY <2>1 DEF Closed
<1>2. CASE drop \/ (readFails /\ Lost)
  <2>1. ~open' /\ wire' = <<>>
    BY <1>2 DEF drop, Lost
  <2> QED BY <2>1 DEF Closed
<1>3. CASE readFails /\ ~Lost
  <2>1. open' /\ cause' = {"failure"}
    BY <1>3 DEF readFails
  <2> QED BY <2>1 DEF Closed
<1>4. CASE Reader
  <2>1. UNCHANGED <<open, cause>> /\ (open \/ UNCHANGED wire)
    BY <1>4 DEF Reader, receiveChunk, receiveTimestamp, receiveBodySize, receiveMessageType, Took,
         Reads, receiveExtentedTimestamp, receiveStreamID, receivePayload, readPayload, loop,
           connection
  <2> QED BY <2>1 DEF Closed
<1>5. CASE UNCHANGED chunkVars
  BY <1>5 DEF chunkVars, connection, Closed
<1> QED BY <1>1, <1>2, <1>3, <1>4, <1>5 DEF ChunkNext

\* the connection is cut off, or closes with nothing left to cut
LEMMA DropIsTracked ==
  ASSUME IInv, cause \subseteq {"cut"}, NEW r \in 1 .. (Len(sent) + 1), Tracks(r), drop
  PROVE  Tracks(r)'
<1>1. /\ Lost /\ UNCHANGED <<sent, left, at, fmt, extended, header, inLoop, total, current,
                             packet, payload, error, delivered>>
      /\ cause' = {} => cause = {} /\ wire = wire'
  BY DEF drop, Lost, server, chunk, round
<1>2. ServerPlace' = ServerPlace /\ ReaderPlace(r)' = ReaderPlace(r) /\ Holds(r)' = Holds(r)
  BY <1>1 DEF ServerPlace, ReaderPlace, Pieces, Border, Holds, HeaderHolds, PayloadHolds
<1> QED BY <1>1, <1>2 DEF Tracks

\* what the server does is tracked too, as is a step of the reader, or nothing
LEMMA NextIsTracked ==
  ASSUME RInv, [ChunkNext]_chunkVars, cause' \subseteq {"cut"}
  PROVE  \E q \in 1 .. (Len(sent') + 1) : Tracks(q)'
<1>1. IInv /\ Begun /\ Closed
  BY DEF RInv
<1>2. /\ cause \subseteq {"cut"}
      /\ cause' = cause \/ Lost
  BY DEF ChunkNext, sendHead, sendPiece, sendOther, drop, Lost, Reader, receiveChunk,
       receiveTimestamp,
       receiveBodySize, receiveMessageType, receiveExtentedTimestamp, receiveStreamID,
       receivePayload, readPayload, loop, readFails, chunkVars
<1>3. PICK r \in 1 .. (Len(sent) + 1) : Tracks(r)
  BY <1>2 DEF RInv
<1>4. open => cause = {}
  BY <1>1, <1>2 DEF Closed
<1>5. Len(sent) \in Nat
  BY <1>1, SizesAreNats
<1>6. ASSUME Tracks(r)' PROVE \E q \in 1 .. (Len(sent') + 1) : Tracks(q)'
  <2>1. r \in 1 .. (Len(sent') + 1)
    BY <1>6 DEF Tracks
  <2> QED BY <1>6, <2>1
<1>7. CASE sendHead
  <2>1. cause = {} /\ cause' = {}
    BY <1>4, <1>7 DEF sendHead
  <2>2. Tracks(r)'
    BY <1>1, <1>3, <1>7, <2>1, HeadIsTracked
  <2> QED BY <1>6, <2>2
<1>8. CASE sendPiece
  <2>1. cause = {}
    BY <1>4, <1>8 DEF sendPiece
  <2>2. Tracks(r)'
    BY <1>1, <1>3, <1>8, <2>1, PieceIsTracked
  <2> QED BY <1>6, <2>2
<1>9. CASE sendOther
  BY <1>9 DEF sendOther
<1>10. CASE drop
  BY <1>1, <1>2, <1>3, <1>6, <1>10, DropIsTracked
<1>11. CASE receiveChunk \/ receiveTimestamp \/ receiveBodySize \/ receiveMessageType
              \/ receiveExtentedTimestamp \/ receiveStreamID
  <2>1. cause = {}
    BY <1>4, <1>11 DEF receiveChunk, receiveTimestamp, receiveBodySize, receiveMessageType,
         receiveExtentedTimestamp, receiveStreamID, Reads
  <2>2. Tracks(r)'
    BY <1>1, <1>3, <1>11, <2>1, HeaderIsTracked
  <2> QED BY <1>6, <2>2
<1>12. CASE receivePayload
  BY <1>1, <1>2, <1>3, <1>6, <1>12, PayloadIsTracked
<1>13. CASE readPayload
  <2>1. cause = {}
    BY <1>4, <1>13 DEF readPayload, Reads
  <2>2. Tracks(r)'
    BY <1>1, <1>3, <1>13, <2>1, ReadIsTracked
  <2> QED BY <1>6, <2>2
<1>14. CASE loop
  <2>1. sent' = sent
    BY <1>14 DEF loop, server
  <2>2. \E q \in 1 .. (Len(sent) + 1) : Tracks(q)'
    BY <1>1, <1>2, <1>3, <1>14, LoopIsTracked
  <2> QED BY <2>1, <2>2
<1>15. CASE readFails
  <2>1. sent' = sent
    BY <1>15 DEF readFails, server
  <2>2. \E q \in 1 .. (Len(sent) + 1) : Tracks(q)'
    BY <1>1, <1>2, <1>3, <1>15, FailureIsTracked
  <2> QED BY <2>1, <2>2
<1>16. CASE UNCHANGED chunkVars
  <2>1. UNCHANGED <<sent, left, cause, wire, at, fmt, extended, header, inLoop, total, current,
                    packet, payload, error, delivered>>
    BY <1>16 DEF chunkVars, connection, server, chunk, round
  <2>2. ServerPlace' = ServerPlace /\ ReaderPlace(r)' = ReaderPlace(r) /\ Holds(r)' = Holds(r)
    BY <2>1 DEF ServerPlace, ReaderPlace, Pieces, Border, Holds, HeaderHolds, PayloadHolds
  <2>3. Tracks(r)'
    BY <1>3, <2>1, <2>2 DEF Tracks
  <2> QED BY <1>6, <2>3
<1> QED BY <1>7, <1>8, <1>9, <1>10, <1>11, <1>12, <1>13, <1>14, <1>15, <1>16 DEF ChunkNext, Reader

LEMMA InitIsTracked ==
  ASSUME ChunkInit
  PROVE  RInv
<1>1. IInv
  BY InitIsAccounted
<1>2. Begun /\ Closed
  BY DEF ChunkInit, Begun, Closed
<1>3. Len(sent) = 0 /\ 1 \in 1 .. (Len(sent) + 1) /\ 1 - 1 = 0 /\ Len(sent) + 1 = 1
        /\ Len(payload) = 0
  BY DEF ChunkInit
<1>4. Given(sent)[0] = <<>>
  BY <1>1, SizesAreNats, GivenIs
<1>5. Holds(1)
  BY DEF ChunkInit, Holds, HeaderHolds, PayloadHolds
<1>6. ServerPlace = Chunk(1, 0) /\ ReaderPlace(1) = Chunk(1, 0)
  BY <1>3 DEF ChunkInit, ServerPlace, ReaderPlace
<1>7. Leads(wire, sent, ReaderPlace(1), ServerPlace)
  <2>1. wire = <<>>
    BY DEF ChunkInit
  <2> QED BY <1>6, <2>1, NothingLeads
<1>8. delivered = Given(sent)[1 - 1] /\ ~error
  BY <1>3, <1>4 DEF ChunkInit
<1>9. Tracks(1)
  BY <1>3, <1>5, <1>7, <1>8 DEF Tracks
<1> QED BY <1>1, <1>2, <1>3, <1>9 DEF RInv

\* what the tracked reader finds next is the field it is for
LEMMA TrackedKeepsItsPlace ==
  ASSUME RInv
  PROVE  KeepsItsPlace
<1> SUFFICES ASSUME cause = {}, at \in Reading, Wanted > 0, wire # <<>>
             PROVE  Head(wire).field = FieldOf[at]
  BY DEF KeepsItsPlace
<1>1. IInv /\ \E r \in 1 .. (Len(sent) + 1) : Tracks(r)
  BY DEF RInv
<1>2. PICK r \in 1 .. (Len(sent) + 1) : Tracks(r)
  BY <1>1
<1>3. Holds(r) /\ Leads(wire, sent, ReaderPlace(r), ServerPlace)
  BY <1>2 DEF Tracks
<1>s. /\ wire \in Seq(Tokens) /\ Len(wire) \in Nat /\ total \in Nat /\ current \in Nat
      /\ MaxSize \in Nat /\ \A m \in 1 .. Len(sent) : sent[m] \in Nat
  BY <1>1, SizesAreNats
<1>4. Len(wire) >= 1 /\ Head(wire) = wire[1]
  BY <1>s, EmptySeq
<1>5. PICK b : Step(ReaderPlace(r), wire[1], b, sent)
  BY <1>3, <1>4, <1>s, LeadsApart
<1>6. CASE at = "receiveChunk"
  <2>1. Step(Chunk(r, Len(payload)), wire[1], b, sent)
    BY <1>5, <1>6 DEF ReaderPlace
  <2>2. wire[1].field = "basic"
    BY <2>1, ChunkStep DEF Token
  <2> QED BY <1>4, <1>6, <2>2 DEF FieldOf
<1>7. CASE at = "readPayload"
  <2>1. /\ r \in 1 .. Len(sent) /\ sent[r] \in Nat /\ total <= sent[r]
        /\ current = chunkSize(total) /\ Len(payload) = sent[r] - total
    BY <1>3, <1>7, <1>s DEF Holds, HeaderHolds, PayloadHolds
  <2>2. current > 0
    BY <1>7 DEF Wanted
  <2>3. total > 0 /\ Len(payload) # sent[r] /\ sent[r] - Len(payload) = total
    BY <1>s, <2>1, <2>2 DEF chunkSize, Lesser
  <2>4. firstChunk(total) = current
    BY <2>1 DEF firstChunk, chunkSize
  <2>5. ReaderPlace(r) = Body(r, Len(payload), current)
    BY <1>7, <2>3, <2>4 DEF ReaderPlace, Pieces, Body
  <2>6. Step(Body(r, Len(payload), current), wire[1], b, sent)
    BY <1>5, <2>5
  <2>7. wire[1] = Byte(r, Len(payload) + 1)
    BY <2>6, BodyStep
  <2> QED BY <1>4, <1>7, <2>7 DEF FieldOf, Byte
<1>8. CASE at \in {"receiveTimestamp", "receiveBodySize", "receiveMessageType", "receiveStreamID"}
  <2>1. Step(Place(r, 0, at, fmt, 0), wire[1], b, sent)
    BY <1>5, <1>8 DEF ReaderPlace
  <2>2. /\ r \in 1 .. Len(sent)
        /\ at = "receiveTimestamp" => wire[1] = Token("timestamp", FALSE)
             /\ b = Place(r, 0, "receiveBodySize", fmt, 0)
        /\ at = "receiveBodySize" => wire[1] = Token("size", sent[r])
             /\ b = Place(r, 0, "receiveMessageType", fmt, 0)
        /\ at = "receiveMessageType" =>
              /\ wire[1] = Token("type", "media")
              /\ b = IF fmt = 0 THEN Place(r, 0, "receiveStreamID", 0, 0) ELSE Pieces(r, 0, sent)
        /\ at = "receiveStreamID" => wire[1] = Token("streamID", 0) /\ b = Pieces(r, 0, sent)
    <3>1. IsField(r, at, fmt, wire[1], b, sent)
      BY <2>1, HeaderStep
    <3> QED BY <3>1 DEF IsField
  <2> QED BY <1>4, <1>8, <2>2 DEF FieldOf, Token
<1>9. at # "receiveExtentedTimestamp"
  BY <1>3 DEF Holds, HeaderHolds
<1> QED BY <1>6, <1>7, <1>8, <1>9 DEF Reading

\* what the tracked reader gave are the first of the messages
LEMMA TrackedAreSent ==
  ASSUME RInv
  PROVE  DeliveredAreSent
<1> SUFFICES ASSUME cause \subseteq {"cut"}
             PROVE  /\ Len(delivered) <= Len(Messages)
                    /\ delivered = SubSeq(Messages, 1, Len(delivered))
  BY DEF DeliveredAreSent
<1>1. PICK r \in 1 .. (Len(sent) + 1) : Tracks(r)
  BY DEF RInv
<1>2. sent \in Seq(Nat) /\ Len(sent) \in Nat
  BY SizesAreNats DEF RInv
<1>3. delivered = Given(sent)[r - 1] /\ r - 1 \in 0 .. Len(sent)
  BY <1>1, <1>2 DEF Tracks
<1>4. IsPrefixOf(delivered, Given(sent)[Len(sent)])
  BY <1>2, <1>3, GivenGrows
<1> QED BY <1>4, MessagesAreGiven DEF IsPrefixOf

\* Field by field and message by message, the reader reads what was sent.
THEOREM ReadsAreWhatWasSent == ChunkSpec => []ReadsWhatWasSent
<1>1. ChunkInit => RInv
  BY InitIsTracked
<1>2. RInv /\ [ChunkNext]_chunkVars => RInv'
  <2> SUFFICES ASSUME RInv, [ChunkNext]_chunkVars PROVE RInv'
    OBVIOUS
  <2>1. IInv' /\ Begun' /\ Closed'
    BY NextKeepsIInv, NextKeepsBegun, NextKeepsClosed DEF RInv
  <2>2. (cause \subseteq {"cut"} => \E r \in 1 .. (Len(sent) + 1) : Tracks(r))'
    BY NextIsTracked
  <2> QED BY <2>1, <2>2 DEF RInv
<1>3. RInv => ReadsWhatWasSent
  BY TrackedKeepsItsPlace, TrackedAreSent DEF ReadsWhatWasSent
<1> QED BY <1>1, <1>2, <1>3, PTL DEF ChunkSpec

-----------------------------------------------------------------------------
(* Broadcast: types.                                                       *)

Items == [kind : Kinds, param : BOOLEAN, ts : 0 .. MaxTime, of : Nat]

\* The types, and the timestamp the microphone's callback is about to go past.
TypeInv ==
  /\ TypeOK
  /\ queue \in Seq(Items) /\ handling \in Items \cup {NoItem}
  /\ \A i \in 1 .. Len(queue) : queue[i].of <= epoch
  /\ frame \in 0 .. MaxTime
  /\ mic # "idle" => sampleCount < MaxTime

Flags ==
  /\ running \in BOOLEAN /\ stopRequested \in BOOLEAN /\ shouldReconnect \in BOOLEAN
  /\ reconnecting \in BOOLEAN /\ sessionReady \in BOOLEAN /\ audioOnly \in BOOLEAN
  /\ started \in BOOLEAN /\ granted \in BOOLEAN /\ front \in BOOLEAN /\ capturing \in BOOLEAN
  /\ recording \in BOOLEAN /\ interrupted \in BOOLEAN /\ shouldSendAudioParameters \in BOOLEAN

Places ==
  /\ scene \in Scenes /\ session \in {"off", "connecting", "connected", "on"}
  /\ doing \in {"none", "end", "reconnect"} /\ posted \subseteq {"end", "reconnect", "start"}
  /\ permission \in {"asked", "yes", "no"} /\ camera \in {"none", "front", "back"}
  /\ compressor \in {"none", "mute", "wired"} /\ encoder \in {"none", "open"}
  /\ cam \in {"idle", "encode", "encoded", "push"} /\ mic \in {"idle", "push", "sent"}

Counts ==
  /\ asked \in Nat /\ nesting \in Nat /\ calls \in 0 .. MaxCalls /\ epoch \in Nat
  /\ videoTime \in 0 .. Invalid /\ sampleCount \in 0 .. MaxTime /\ frame \in 0 .. MaxTime
  /\ mic # "idle" => sampleCount < MaxTime

Sent == /\ prev \in [Kinds -> 0 .. MaxTime] /\ prevOf \in [Kinds -> 0 .. epoch]
        /\ handling \in Items \cup {NoItem} /\ (handling = NoItem \/ handling.of <= epoch)

Waiting == /\ queue \in Seq(Items) /\ Len(queue) <= MaxQueue
           /\ \A i \in 1 .. Len(queue) : queue[i].of <= epoch

LEMMA TypeParts == TypeInv <=> Flags /\ Places /\ Counts /\ Sent /\ Waiting
  BY DEF TypeInv, TypeOK, Flags, Places, Counts, Sent, Waiting

LEMMA TypeInit == Init => TypeInv
<1> SUFFICES ASSUME Init PROVE TypeInv
  OBVIOUS
<1>1. Flags /\ Places
  BY DEF Init, Flags, Places
<1>2. Counts
  BY TimeAssumption DEF Init, Counts, Invalid
<1>3. Sent /\ Waiting
  BY TimeAssumption DEF Init, Sent, Waiting, Kinds
<1> QED BY <1>1, <1>2, <1>3, TypeParts

LEMMA Appended ==
  ASSUME NEW S, NEW q \in Seq(S), NEW x \in S
  PROVE  /\ Append(q, x) \in Seq(S) /\ Len(Append(q, x)) = Len(q) + 1 /\ Len(q) \in Nat
         /\ \A i \in 1 .. Len(q) : Append(q, x)[i] = q[i]
         /\ Append(q, x)[Len(q) + 1] = x
  OBVIOUS

LEMMA Tailed ==
  ASSUME NEW S, NEW q \in Seq(S), q # <<>>
  PROVE  /\ Tail(q) \in Seq(S) /\ Len(Tail(q)) = Len(q) - 1 /\ Len(q) \in Nat \ {0}
         /\ \A i \in 1 .. Len(q) - 1 : Tail(q)[i] = q[i + 1]
         /\ Head(q) = q[1] /\ Head(q) \in S
  OBVIOUS

\* What push leaves is the queue, or the queue with the item behind it.
LEMMA Pushed ==
  ASSUME TypeInv, NEW item \in Items, item.of = epoch, push(item), epoch' = epoch
  PROVE  Waiting'
<1>1. CASE started
  <2>1. queue' = Append(queue, item) /\ Len(queue) < MaxQueue /\ queue \in Seq(Items)
          /\ epoch \in Nat
    BY <1>1 DEF TypeInv, TypeOK, push
  <2>2. queue' \in Seq(Items) /\ Len(queue') <= MaxQueue
    BY <2>1, Appended, TimeAssumption
  <2>3. ASSUME NEW i \in 1 .. Len(queue') PROVE queue'[i].of <= epoch
    <3>1. i \in 1 .. Len(queue) \/ i = Len(queue) + 1
      BY <2>1, Appended
    <3>2. CASE i \in 1 .. Len(queue)
      BY <2>1, <3>2, Appended DEF TypeInv
    <3>3. CASE i = Len(queue) + 1
      BY <2>1, <3>3, Appended
    <3> QED BY <3>1, <3>2, <3>3
  <2> QED BY <2>2, <2>3 DEF Waiting
<1>2. CASE ~started
  BY <1>2 DEF push, TypeInv, TypeOK, Waiting
<1> QED BY <1>1, <1>2

LEMMA FlagsNext == TypeInv /\ [Next]_vars => Flags'
<1> SUFFICES ASSUME TypeInv, [Next]_vars PROVE Flags'
  OBVIOUS
<1>0. Flags
  BY TypeParts
<1> USE <1>0, TimeAssumption DEF Flags, flags, media, worker, main, device, video, audio, world,
      Call, Post, Races
<1>1. CASE startWithHost
  BY <1>1, ZenonT(90) DEF startWithHost, startBlock, markAsRunning, videoStart
<1>2. CASE end
  BY <1>2 DEF end, endBegin, endSession, clear, setSessionReady
<1>3. CASE setAudioOnly
  BY <1>3, ZenonT(90) DEF setAudioOnly, videoStart, videoEnd
<1>4. CASE setRtmpSettings
  BY <1>4 DEF setRtmpSettings
<1>5. CASE switchCamera
  BY <1>5, ZenonT(90) DEF switchCamera, configure, Facing
<1>6. CASE audioInterruptionBegan
  BY <1>6 DEF audioInterruptionBegan, videoEnd
<1>7. CASE audioInterruptionEnded
  BY <1>7 DEF audioInterruptionEnded
<1>8. CASE permissionAnswered
  BY <1>8 DEF permissionAnswered
<1>9. CASE cameraHandler
  BY <1>9, ZenonT(90) DEF cameraHandler, configure, Facing
<1>10. CASE socketDidConnect
  BY <1>10, ZenonT(90) DEF socketDidConnect
<1>11. CASE sessionStarted
  BY <1>11 DEF sessionStarted, resetCaptures, setSessionReady
<1>12. CASE socketDidClose
  BY <1>12 DEF socketDidClose
<1>13. CASE startAgain
  BY <1>13, ZenonT(90) DEF startAgain, startBlock, markAsRunning, videoStart
<1>14. CASE endPosted
  BY <1>14 DEF endPosted, endBegin, clear, setSessionReady
<1>15. CASE reconnectAfter
  <2>1. CASE ~shouldReconnect \/ reconnecting
    BY <1>15, <2>1 DEF reconnectAfter
  <2>2. CASE ~(~shouldReconnect \/ reconnecting) /\ stopRequested
    BY <1>15, <2>2 DEF reconnectAfter
  <2>3. CASE ~(~shouldReconnect \/ reconnecting) /\ ~stopRequested
    BY <1>15, <2>3 DEF reconnectAfter, clear
  <2> QED BY <2>1, <2>2, <2>3
<1>16. CASE endRest
  BY <1>16 DEF endRest, videoEnd
<1>17. CASE captureOutput
  BY <1>17 DEF captureOutput, CamStep
<1>18. CASE encodeFrame
  BY <1>18 DEF encodeFrame, CamStep
<1>19. CASE encoderOutputCallback
  BY <1>19 DEF encoderOutputCallback, CamStep
<1>20. CASE videoSampleEncoded
  BY <1>20 DEF videoSampleEncoded, CamStep, push, Item
<1>21. CASE processBuffer
  BY <1>21 DEF processBuffer, MicStep
<1>22. CASE audioSampleReceived
  BY <1>22 DEF audioSampleReceived, MicStep, push, Item
<1>23. CASE parametersSent
  BY <1>23, ZenonT(90) DEF parametersSent, MicStep
<1>24. CASE pop
  BY <1>24 DEF pop
<1>25. CASE handle
  BY <1>25 DEF handle, resetCaptures
<1>26. CASE UNCHANGED vars
  BY <1>26 DEF vars
<1> QED BY <1>1, <1>2, <1>3, <1>4, <1>5, <1>6, <1>7, <1>8, <1>9, <1>10, <1>11, <1>12, <1>13,
      <1>14, <1>15, <1>16, <1>17, <1>18, <1>19, <1>20, <1>21, <1>22, <1>23, <1>24, <1>25, <1>26
        DEF Next, Application, System, Network, Block, Camera, Sound, Worker

LEMMA PlacesNext == TypeInv /\ [Next]_vars => Places'
<1> SUFFICES ASSUME TypeInv, [Next]_vars PROVE Places'
  OBVIOUS
<1>0. Places
  BY TypeParts
<1> USE <1>0, TimeAssumption DEF Places, flags, media, worker, main, device, video, audio, world,
      Call, Post, Races
<1>1. CASE startWithHost
  BY <1>1 DEF startWithHost, startBlock, markAsRunning, videoStart
<1>2. CASE end
  BY <1>2, ZenonT(90) DEF end, endBegin, endSession, clear, setSessionReady
<1>3. CASE setAudioOnly
  BY <1>3, ZenonT(90) DEF setAudioOnly, videoStart, videoEnd
<1>4. CASE setRtmpSettings
  BY <1>4 DEF setRtmpSettings
<1>5. CASE switchCamera
  BY <1>5 DEF switchCamera, configure, Facing
<1>6. CASE audioInterruptionBegan
  BY <1>6 DEF audioInterruptionBegan, videoEnd
<1>7. CASE audioInterruptionEnded
  BY <1>7, ZenonT(90) DEF audioInterruptionEnded
<1>8. CASE permissionAnswered
  BY <1>8 DEF permissionAnswered
<1>9. CASE cameraHandler
  BY <1>9 DEF cameraHandler, configure, Facing
<1>10. CASE socketDidConnect
  BY <1>10 DEF socketDidConnect
<1>11. CASE sessionStarted
  BY <1>11 DEF sessionStarted, resetCaptures, setSessionReady
<1>12. CASE socketDidClose
  BY <1>12 DEF socketDidClose
<1>13. CASE startAgain
  BY <1>13 DEF startAgain, startBlock, markAsRunning, videoStart
<1>14. CASE endPosted
  BY <1>14 DEF endPosted, endBegin, clear, setSessionReady
<1>15. CASE reconnectAfter
  BY <1>15, ZenonT(90) DEF reconnectAfter, clear
<1>16. CASE endRest
  BY <1>16 DEF endRest, videoEnd
<1>17. CASE captureOutput
  BY <1>17 DEF captureOutput, CamStep
<1>18. CASE encodeFrame
  BY <1>18 DEF encodeFrame, CamStep
<1>19. CASE encoderOutputCallback
  BY <1>19 DEF encoderOutputCallback, CamStep
<1>20. CASE videoSampleEncoded
  BY <1>20 DEF videoSampleEncoded, CamStep, push, Item
<1>21. CASE processBuffer
  BY <1>21 DEF processBuffer, MicStep
<1>22. CASE audioSampleReceived
  BY <1>22 DEF audioSampleReceived, MicStep, push, Item
<1>23. CASE parametersSent
  BY <1>23 DEF parametersSent, MicStep
<1>24. CASE pop
  BY <1>24 DEF pop
<1>25. CASE handle
  BY <1>25 DEF handle, resetCaptures
<1>26. CASE UNCHANGED vars
  BY <1>26 DEF vars
<1> QED BY <1>1, <1>2, <1>3, <1>4, <1>5, <1>6, <1>7, <1>8, <1>9, <1>10, <1>11, <1>12, <1>13,
      <1>14, <1>15, <1>16, <1>17, <1>18, <1>19, <1>20, <1>21, <1>22, <1>23, <1>24, <1>25, <1>26
        DEF Next, Application, System, Network, Block, Camera, Sound, Worker

LEMMA CountsNext == TypeInv /\ [Next]_vars => Counts'
<1> SUFFICES ASSUME TypeInv, [Next]_vars PROVE Counts'
  OBVIOUS
<1>0. Counts
  BY TypeParts
<1> USE <1>0, TimeAssumption DEF Counts, Places, TypeInv, TypeOK, Invalid, flags, media, worker,
      main, device, video, audio, world, Call, Post, Races
<1>1. CASE startWithHost
  BY <1>1 DEF startWithHost, startBlock, markAsRunning, videoStart
<1>2. CASE end
  BY <1>2 DEF end, endBegin, endSession, clear, setSessionReady
<1>3. CASE setAudioOnly
  BY <1>3 DEF setAudioOnly, videoStart, videoEnd
<1>4. CASE setRtmpSettings
  BY <1>4 DEF setRtmpSettings
<1>5. CASE switchCamera
  <2>1. asked' \in Nat /\ nesting' \in Nat
    BY <1>5 DEF switchCamera, configure
  <2>2. calls' \in 0 .. MaxCalls
    BY <1>5 DEF switchCamera
  <2>3. UNCHANGED <<epoch, videoTime, sampleCount, frame, mic>>
    BY <1>5 DEF switchCamera
  <2> QED BY <2>1, <2>2, <2>3
<1>6. CASE audioInterruptionBegan
  BY <1>6 DEF audioInterruptionBegan, videoEnd
<1>7. CASE audioInterruptionEnded
  BY <1>7 DEF audioInterruptionEnded
<1>8. CASE permissionAnswered
  BY <1>8 DEF permissionAnswered
<1>9. CASE cameraHandler
  BY <1>9 DEF cameraHandler, configure, Facing
<1>10. CASE socketDidConnect
  BY <1>10 DEF socketDidConnect
<1>11. CASE sessionStarted
  BY <1>11 DEF sessionStarted, resetCaptures, setSessionReady
<1>12. CASE socketDidClose
  BY <1>12 DEF socketDidClose
<1>13. CASE startAgain
  BY <1>13 DEF startAgain, startBlock, markAsRunning, videoStart
<1>14. CASE endPosted
  BY <1>14 DEF endPosted, endBegin, clear, setSessionReady
<1>15. CASE reconnectAfter
  BY <1>15 DEF reconnectAfter, clear
<1>16. CASE endRest
  BY <1>16 DEF endRest, videoEnd
<1>17. CASE captureOutput
  BY <1>17 DEF captureOutput, CamStep
<1>18. CASE encodeFrame
  BY <1>18 DEF encodeFrame, CamStep
<1>19. CASE encoderOutputCallback
  BY <1>19 DEF encoderOutputCallback, CamStep
<1>20. CASE videoSampleEncoded
  BY <1>20 DEF videoSampleEncoded, CamStep, push, Item
<1>21. CASE processBuffer
  BY <1>21 DEF processBuffer, MicStep
<1>22. CASE audioSampleReceived
  BY <1>22 DEF audioSampleReceived, MicStep, push, Item
<1>23. CASE parametersSent
  BY <1>23 DEF parametersSent, MicStep
<1>24. CASE pop
  BY <1>24 DEF pop
<1>25. CASE handle
  BY <1>25 DEF handle, resetCaptures
<1>26. CASE UNCHANGED vars
  BY <1>26 DEF vars
<1> QED BY <1>1, <1>2, <1>3, <1>4, <1>5, <1>6, <1>7, <1>8, <1>9, <1>10, <1>11, <1>12, <1>13,
      <1>14, <1>15, <1>16, <1>17, <1>18, <1>19, <1>20, <1>21, <1>22, <1>23, <1>24, <1>25, <1>26
        DEF Next, Application, System, Network, Block, Camera, Sound, Worker

LEMMA SentNext == TypeInv /\ [Next]_vars => Sent' /\ Waiting'
<1> SUFFICES ASSUME TypeInv, [Next]_vars PROVE Sent' /\ Waiting'
  OBVIOUS
<1>0. Sent /\ Counts /\ Waiting
  BY TypeParts
<1>a. ASSUME UNCHANGED <<prev, prevOf, handling, queue>>, epoch' \in {epoch, epoch + 1}
      PROVE  Sent' /\ Waiting'
  <2>1. epoch \in Nat /\ epoch <= epoch' /\ epoch' \in Nat
    BY <1>0, <1>a DEF Counts
  <2>2. prev' \in [Kinds -> 0 .. MaxTime] /\ prevOf' \in [Kinds -> 0 .. epoch']
    BY <1>0, <1>a, <2>1 DEF Sent
  <2>3. handling' \in Items \cup {NoItem} /\ (handling' = NoItem \/ handling'.of <= epoch')
    <3>1. CASE handling \in Items /\ handling.of <= epoch
      BY <1>a, <2>1, <3>1 DEF Items
    <3>2. CASE handling = NoItem
      BY <1>a, <3>2
    <3> QED BY <1>0, <3>1, <3>2 DEF Sent
  <2>4. ASSUME NEW i \in 1 .. Len(queue) PROVE queue[i].of <= epoch'
    <3>1. queue[i] \in Items /\ queue[i].of <= epoch
      BY <1>0 DEF Waiting
    <3> QED BY <2>1, <3>1 DEF Items
  <2> QED BY <1>0, <1>a, <2>2, <2>3, <2>4 DEF Sent, Waiting
<1>b. ASSUME /\ prev' = [m \in Kinds |-> 0] /\ prevOf' = [m \in Kinds |-> 0]
             /\ queue' = <<>> /\ handling' = handling /\ epoch' = epoch
      PROVE  Sent' /\ Waiting'
  BY <1>0, <1>b, TimeAssumption DEF Sent, Waiting, Counts
<1> USE DEF flags, media, worker, main, device, video, audio, world, Call, Post, Races
<1>1. CASE startWithHost
  <2>1. UNCHANGED <<prev, prevOf, handling, queue>> /\ epoch' \in {epoch, epoch + 1}
    BY <1>1 DEF startWithHost, startAgain, startBlock
  <2> QED BY <2>1, <1>a
<1>2. CASE end
  <2>1. /\ prev' = [m \in Kinds |-> 0] /\ prevOf' = [m \in Kinds |-> 0]
        /\ queue' = <<>> /\ handling' = handling /\ epoch' = epoch
    BY <1>2 DEF end, endPosted, endBegin, clear
  <2> QED BY <2>1, <1>b
<1>3. CASE setAudioOnly
  BY <1>3, <1>a DEF setAudioOnly, videoStart, videoEnd
<1>4. CASE setRtmpSettings
  BY <1>4, <1>a DEF setRtmpSettings
<1>5. CASE switchCamera
  BY <1>5, <1>a DEF switchCamera, configure, Facing
<1>6. CASE audioInterruptionBegan
  BY <1>6, <1>a DEF audioInterruptionBegan, videoEnd
<1>7. CASE audioInterruptionEnded
  BY <1>7, <1>a DEF audioInterruptionEnded
<1>8. CASE permissionAnswered
  BY <1>8, <1>a DEF permissionAnswered
<1>9. CASE cameraHandler
  BY <1>9, <1>a DEF cameraHandler, configure, Facing
<1>10. CASE socketDidConnect
  BY <1>10, <1>a DEF socketDidConnect
<1>11. CASE sessionStarted
  BY <1>11, <1>a DEF sessionStarted, resetCaptures, setSessionReady
<1>12. CASE socketDidClose
  BY <1>12, <1>a DEF socketDidClose
<1>13. CASE startAgain
  <2>1. UNCHANGED <<prev, prevOf, handling, queue>> /\ epoch' \in {epoch, epoch + 1}
    BY <1>13 DEF startWithHost, startAgain, startBlock
  <2> QED BY <2>1, <1>a
<1>14. CASE endPosted
  <2>1. /\ prev' = [m \in Kinds |-> 0] /\ prevOf' = [m \in Kinds |-> 0]
        /\ queue' = <<>> /\ handling' = handling /\ epoch' = epoch
    BY <1>14 DEF end, endPosted, endBegin, clear
  <2> QED BY <2>1, <1>b
<1>15. CASE reconnectAfter
  <2>1. \/ UNCHANGED <<prev, prevOf, handling, queue, epoch>>
        \/ /\ prev' = [m \in Kinds |-> 0] /\ prevOf' = [m \in Kinds |-> 0]
           /\ queue' = <<>> /\ handling' = handling /\ epoch' = epoch
    BY <1>15 DEF reconnectAfter, clear
  <2> QED BY <2>1, <1>a, <1>b
<1>16. CASE endRest
  <2>1. queue' = <<>> /\ UNCHANGED <<prev, prevOf, handling, epoch>>
    BY <1>16 DEF endRest
  <2> QED BY <1>0, <2>1, TimeAssumption DEF Sent, Waiting
<1>17. CASE captureOutput
  BY <1>17, <1>a DEF captureOutput, CamStep
<1>18. CASE encodeFrame
  BY <1>18, <1>a DEF encodeFrame, CamStep
<1>19. CASE encoderOutputCallback
  BY <1>19, <1>a DEF encoderOutputCallback, CamStep
<1>20. CASE videoSampleEncoded
  <2>1. frame \in 0 .. MaxTime /\ epoch \in Nat
    BY <1>0 DEF Counts
  <2>2. Item("video", FALSE, frame) \in Items /\ Item("video", FALSE, frame).of = epoch
    BY <2>1 DEF Item, Items, Kinds
  <2>3. UNCHANGED <<prev, prevOf, epoch, handling>>
    BY <1>20 DEF videoSampleEncoded, CamStep
  <2>4. push(Item("video", FALSE, frame))
    BY <1>20 DEF videoSampleEncoded
  <2>5. Waiting'
    BY <2>2, <2>3, <2>4, Pushed
  <2> QED BY <1>0, <2>3, <2>5 DEF Sent
<1>21. CASE processBuffer
  BY <1>21, <1>a DEF processBuffer, MicStep
<1>22. CASE audioSampleReceived
  <2>1. sampleCount \in 0 .. MaxTime /\ epoch \in Nat /\ shouldSendAudioParameters \in BOOLEAN
    BY <1>0, TypeParts DEF Counts, Flags
  <2> DEFINE item == Item("audio", shouldSendAudioParameters, sampleCount)
  <2>2. item \in Items /\ item.of = epoch
    BY <2>1 DEF Item, Items, Kinds
  <2>3. UNCHANGED <<prev, prevOf, epoch, handling>>
    BY <1>22 DEF audioSampleReceived, MicStep
  <2>4. push(item)
    BY <1>22 DEF audioSampleReceived
  <2> HIDE DEF item
  <2>5. Waiting'
    BY <2>2, <2>3, <2>4, Pushed
  <2> QED BY <1>0, <2>3, <2>5 DEF Sent
<1>23. CASE parametersSent
  BY <1>23, <1>a DEF parametersSent, MicStep
<1>24. CASE pop
  <2>1. queue # <<>> /\ queue' = Tail(queue) /\ UNCHANGED <<prev, prevOf, epoch>>
    BY <1>24 DEF pop
  <2>2. queue \in Seq(Items) /\ Len(queue) <= MaxQueue
          /\ \A i \in 1 .. Len(queue) : queue[i].of <= epoch
    BY <1>0 DEF Waiting
  <2>3. /\ queue' \in Seq(Items) /\ Len(queue') = Len(queue) - 1 /\ Len(queue) \in Nat \ {0}
        /\ \A i \in 1 .. Len(queue) - 1 : queue'[i] = queue[i + 1]
        /\ Head(queue) = queue[1] /\ Head(queue) \in Items
    BY <2>1, <2>2, Tailed
  <2>4. Waiting'
    <3>1. Len(queue') <= MaxQueue
      BY <2>2, <2>3, TimeAssumption
    <3>2. ASSUME NEW i \in 1 .. Len(queue') PROVE queue'[i].of <= epoch
      <4>1. i \in 1 .. Len(queue) - 1 /\ i + 1 \in 1 .. Len(queue)
        BY <2>3
      <4> QED BY <2>2, <2>3, <4>1
    <3> QED BY <2>1, <2>3, <3>1, <3>2 DEF Waiting
  <2>5. handling' \in Items \cup {NoItem} /\ (handling' = NoItem \/ handling'.of <= epoch)
    <3>1. handling' \in {Head(queue), NoItem}
      BY <1>24 DEF pop
    <3>2. Head(queue).of <= epoch
      BY <2>2, <2>3
    <3> QED BY <2>3, <3>1, <3>2
  <2> QED BY <1>0, <2>1, <2>4, <2>5 DEF Sent
<1>25. CASE handle
  <2>1. handling \in Items /\ handling.of <= epoch /\ epoch \in Nat
    BY <1>25, <1>0 DEF handle, Sent, Counts
  <2>2. handling.kind \in Kinds /\ handling.ts \in 0 .. MaxTime /\ handling.of \in 0 .. epoch
    BY <2>1 DEF Items
  <2>3. /\ prev' = [prev EXCEPT ![handling.kind] = handling.ts]
        /\ prevOf' = [prevOf EXCEPT ![handling.kind] = handling.of]
        /\ handling' = NoItem /\ UNCHANGED <<epoch, queue>>
    BY <1>25 DEF handle
  <2> QED BY <1>0, <2>2, <2>3 DEF Sent, Waiting
<1>26. CASE UNCHANGED vars
  BY <1>26, <1>a DEF vars
<1> QED BY <1>1, <1>2, <1>3, <1>4, <1>5, <1>6, <1>7, <1>8, <1>9, <1>10, <1>11, <1>12, <1>13,
      <1>14, <1>15, <1>16, <1>17, <1>18, <1>19, <1>20, <1>21, <1>22, <1>23, <1>24, <1>25, <1>26
        DEF Next, Application, System, Network, Block, Camera, Sound, Worker

LEMMA TypeNext == TypeInv /\ [Next]_vars => TypeInv'
<1> SUFFICES ASSUME TypeInv, [Next]_vars PROVE TypeInv'
  OBVIOUS
<1>1. Flags' /\ Places' /\ Counts' /\ Sent' /\ Waiting'
  BY FlagsNext, PlacesNext, CountsNext, SentNext
<1> QED BY <1>1 DEF TypeInv, TypeOK, Flags, Places, Counts, Sent, Waiting

\* Every variable has its type, for any bounds.
THEOREM TypeCorrect == Spec => []TypeOK
<1>1. TypeInv => TypeOK
  BY DEF TypeInv
<1> QED BY <1>1, TypeInit, TypeNext, PTL DEF Spec

-----------------------------------------------------------------------------
(* The life of the view.  It runs between the block that starts it and the *)
(* one that clears it, and between the end of the second part of that      *)
(* block and the next start nothing is queued or in hand.                  *)

Life ==
  /\ running => started /\ doing = "none"
  /\ session # "off" \/ sessionReady => running
  /\ session = "on" => sessionReady
  /\ session \in {"connecting", "connected"} => ~sessionReady
  /\ (~running /\ doing = "none") => ~started /\ queue = <<>> /\ handling = NoItem

LEMMA LifeInit == Init => Life
  BY DEF Init, Life

LEMMA LifeNext == TypeInv /\ Life /\ [Next]_vars => Life'
<1> SUFFICES ASSUME TypeInv, Life, [Next]_vars PROVE Life'
  OBVIOUS
<1>0. Flags /\ Places
  BY TypeParts
<1> USE <1>0 DEF Life, Flags, Places, flags, media, worker, main, device, video, audio, world,
      Call, Post, Races
<1>1. CASE startWithHost
  BY <1>1 DEF startWithHost, startBlock, markAsRunning, videoStart
<1>2. CASE end
  BY <1>2 DEF end, endBegin, endSession, clear, setSessionReady
<1>3. CASE setAudioOnly
  BY <1>3 DEF setAudioOnly, videoStart, videoEnd
<1>4. CASE setRtmpSettings
  BY <1>4 DEF setRtmpSettings
<1>5. CASE switchCamera
  BY <1>5 DEF switchCamera, configure, Facing
<1>6. CASE audioInterruptionBegan
  BY <1>6 DEF audioInterruptionBegan, videoEnd
<1>7. CASE audioInterruptionEnded
  BY <1>7 DEF audioInterruptionEnded
<1>8. CASE permissionAnswered
  BY <1>8 DEF permissionAnswered
<1>9. CASE cameraHandler
  BY <1>9 DEF cameraHandler, configure, Facing
<1>10. CASE socketDidConnect
  BY <1>10 DEF socketDidConnect
<1>11. CASE sessionStarted
  BY <1>11 DEF sessionStarted, resetCaptures, setSessionReady
<1>12. CASE socketDidClose
  BY <1>12 DEF socketDidClose
<1>13. CASE startAgain
  BY <1>13 DEF startAgain, startBlock, markAsRunning, videoStart
<1>14. CASE endPosted
  BY <1>14 DEF endPosted, endBegin, clear, setSessionReady
<1>15. CASE reconnectAfter
  <2>1. CASE ~shouldReconnect \/ reconnecting
    BY <1>15, <2>1 DEF reconnectAfter
  <2>2. CASE ~(~shouldReconnect \/ reconnecting) /\ stopRequested
    BY <1>15, <2>2 DEF reconnectAfter
  <2>3. CASE ~(~shouldReconnect \/ reconnecting) /\ ~stopRequested
    BY <1>15, <2>3 DEF reconnectAfter, clear
  <2> QED BY <2>1, <2>2, <2>3
<1>16. CASE endRest
  BY <1>16 DEF endRest, videoEnd
<1>17. CASE captureOutput
  BY <1>17 DEF captureOutput, CamStep
<1>18. CASE encodeFrame
  BY <1>18 DEF encodeFrame, CamStep
<1>19. CASE encoderOutputCallback
  BY <1>19 DEF encoderOutputCallback, CamStep
<1>20. CASE videoSampleEncoded
  BY <1>20 DEF videoSampleEncoded, CamStep, push, Item
<1>21. CASE processBuffer
  BY <1>21 DEF processBuffer, MicStep
<1>22. CASE audioSampleReceived
  BY <1>22 DEF audioSampleReceived, MicStep, push, Item
<1>23. CASE parametersSent
  BY <1>23 DEF parametersSent, MicStep
<1>24. CASE pop
  BY <1>24 DEF pop
<1>25. CASE handle
  BY <1>25 DEF handle, resetCaptures
<1>26. CASE UNCHANGED vars
  BY <1>26 DEF vars
<1> QED BY <1>1, <1>2, <1>3, <1>4, <1>5, <1>6, <1>7, <1>8, <1>9, <1>10, <1>11, <1>12, <1>13,
      <1>14, <1>15, <1>16, <1>17, <1>18, <1>19, <1>20, <1>21, <1>22, <1>23, <1>24, <1>25, <1>26
        DEF Next, Application, System, Network, Block, Camera, Sound, Worker

\* What is queued or in hand is of this start.
OfThisStart ==
  /\ handling # NoItem => handling.of = epoch
  /\ \A i \in 1 .. Len(queue) : queue[i].of = epoch

LEMMA OfThisStartNext == TypeInv /\ Life /\ OfThisStart /\ [Next]_vars => OfThisStart'
<1> SUFFICES ASSUME TypeInv, Life, OfThisStart, [Next]_vars PROVE OfThisStart'
  OBVIOUS
<1>0. queue \in Seq(Items)
  BY DEF TypeInv
<1>a. ASSUME UNCHANGED <<handling, queue, epoch>> PROVE OfThisStart'
  BY <1>a DEF OfThisStart
<1>b. ASSUME queue' = <<>>, UNCHANGED <<handling, epoch>> PROVE OfThisStart'
  BY <1>b DEF OfThisStart
<1>c. ASSUME NEW item \in Items, item.of = epoch, push(item), UNCHANGED <<handling, epoch>>
      PROVE  OfThisStart'
  <2>1. CASE ~started
    BY <1>c, <2>1 DEF push, OfThisStart
  <2>2. CASE started
    <3>1. queue' = Append(queue, item)
      BY <1>c, <2>2 DEF push
    <3>2. ASSUME NEW i \in 1 .. Len(queue') PROVE queue'[i].of = epoch
      <4>1. i \in 1 .. Len(queue) \/ i = Len(queue) + 1
        BY <1>0, <3>1, Appended
      <4>2. CASE i \in 1 .. Len(queue)
        BY <1>0, <3>1, <4>2, Appended DEF OfThisStart
      <4>3. CASE i = Len(queue) + 1
        BY <1>0, <1>c, <3>1, <4>3, Appended
      <4> QED BY <4>1, <4>2, <4>3
    <3> QED BY <1>c, <3>2 DEF OfThisStart
  <2> QED BY <2>1, <2>2
<1> USE DEF flags, media, worker, main, device, video, audio, world, Call, Post, Races
<1>1. CASE startWithHost
  <2>1. CASE running
    BY <1>1, <2>1, <1>a DEF startWithHost, startAgain, startBlock, worker
  <2>2. CASE ~running
    <3>1. handling' = NoItem /\ queue' = <<>>
      BY <1>1, <2>2 DEF Life, startWithHost, startAgain, startBlock
    <3> QED BY <3>1 DEF OfThisStart
  <2> QED BY <2>1, <2>2
<1>2. CASE end
  <2>1. queue' = <<>> /\ UNCHANGED <<handling, epoch>>
    BY <1>2 DEF end, endPosted, endBegin, clear, endRest
  <2> QED BY <2>1, <1>b
<1>3. CASE setAudioOnly
  BY <1>3, <1>a DEF setAudioOnly, videoStart, videoEnd
<1>4. CASE setRtmpSettings
  BY <1>4, <1>a DEF setRtmpSettings
<1>5. CASE switchCamera
  BY <1>5, <1>a DEF switchCamera, configure, Facing
<1>6. CASE audioInterruptionBegan
  BY <1>6, <1>a DEF audioInterruptionBegan, videoEnd
<1>7. CASE audioInterruptionEnded
  BY <1>7, <1>a DEF audioInterruptionEnded
<1>8. CASE permissionAnswered
  BY <1>8, <1>a DEF permissionAnswered
<1>9. CASE cameraHandler
  BY <1>9, <1>a DEF cameraHandler, configure, Facing
<1>10. CASE socketDidConnect
  BY <1>10, <1>a DEF socketDidConnect
<1>11. CASE sessionStarted
  BY <1>11, <1>a DEF sessionStarted, resetCaptures, setSessionReady
<1>12. CASE socketDidClose
  BY <1>12, <1>a DEF socketDidClose
<1>13. CASE startAgain
  <2>1. CASE running
    BY <1>13, <2>1, <1>a DEF startWithHost, startAgain, startBlock, worker
  <2>2. CASE ~running
    <3>1. handling' = NoItem /\ queue' = <<>>
      BY <1>13, <2>2 DEF Life, startWithHost, startAgain, startBlock
    <3> QED BY <3>1 DEF OfThisStart
  <2> QED BY <2>1, <2>2
<1>14. CASE endPosted
  <2>1. queue' = <<>> /\ UNCHANGED <<handling, epoch>>
    BY <1>14 DEF end, endPosted, endBegin, clear, endRest
  <2> QED BY <2>1, <1>b
<1>15. CASE reconnectAfter
  <2>1. UNCHANGED <<handling, epoch>> /\ (queue' = queue \/ queue' = <<>>)
    BY <1>15 DEF reconnectAfter, clear, worker
  <2> QED BY <2>1, <1>a, <1>b
<1>16. CASE endRest
  <2>1. queue' = <<>> /\ UNCHANGED <<handling, epoch>>
    BY <1>16 DEF end, endPosted, endBegin, clear, endRest
  <2> QED BY <2>1, <1>b
<1>17. CASE captureOutput
  BY <1>17, <1>a DEF captureOutput, CamStep
<1>18. CASE encodeFrame
  BY <1>18, <1>a DEF encodeFrame, CamStep
<1>19. CASE encoderOutputCallback
  BY <1>19, <1>a DEF encoderOutputCallback, CamStep
<1>20. CASE videoSampleEncoded
  <2>1. Item("video", FALSE, frame) \in Items /\ Item("video", FALSE, frame).of = epoch
    BY DEF Item, Items, Kinds, TypeInv, TypeOK
  <2>2. push(Item("video", FALSE, frame)) /\ UNCHANGED <<handling, epoch>>
    BY <1>20 DEF videoSampleEncoded, CamStep
  <2> QED BY <2>1, <2>2, <1>c
<1>21. CASE processBuffer
  BY <1>21, <1>a DEF processBuffer, MicStep
<1>22. CASE audioSampleReceived
  <2> DEFINE item == Item("audio", shouldSendAudioParameters, sampleCount)
  <2>1. item \in Items /\ item.of = epoch
    BY DEF Item, Items, Kinds, TypeInv, TypeOK
  <2>2. push(item) /\ UNCHANGED <<handling, epoch>>
    BY <1>22 DEF audioSampleReceived, MicStep
  <2> HIDE DEF item
  <2> QED BY <2>1, <2>2, <1>c
<1>23. CASE parametersSent
  BY <1>23, <1>a DEF parametersSent, MicStep
<1>24. CASE pop
  <2>1. queue # <<>> /\ queue' = Tail(queue) /\ epoch' = epoch
          /\ handling' \in {Head(queue), NoItem}
    BY <1>24 DEF pop
  <2>2. /\ Len(queue') = Len(queue) - 1 /\ Len(queue) \in Nat \ {0} /\ Head(queue) = queue[1]
        /\ \A i \in 1 .. Len(queue) - 1 : queue'[i] = queue[i + 1]
    BY <1>0, <2>1, Tailed
  <2>3. ASSUME NEW i \in 1 .. Len(queue') PROVE queue'[i].of = epoch
    <3>1. i \in 1 .. Len(queue) - 1 /\ i + 1 \in 1 .. Len(queue)
      BY <2>2
    <3> QED BY <2>2, <3>1 DEF OfThisStart
  <2>4. handling' # NoItem => handling'.of = epoch
    BY <2>1, <2>2 DEF OfThisStart
  <2> QED BY <2>1, <2>3, <2>4 DEF OfThisStart
<1>25. CASE handle
  <2>1. handling' = NoItem /\ UNCHANGED <<queue, epoch>>
    BY <1>25 DEF handle
  <2> QED BY <2>1 DEF OfThisStart
<1>26. CASE UNCHANGED vars
  BY <1>26, <1>a DEF vars
<1> QED BY <1>1, <1>2, <1>3, <1>4, <1>5, <1>6, <1>7, <1>8, <1>9, <1>10, <1>11, <1>12, <1>13,
      <1>14, <1>15, <1>16, <1>17, <1>18, <1>19, <1>20, <1>21, <1>22, <1>23, <1>24, <1>25, <1>26
        DEF Next, Application, System, Network, Block, Camera, Sound, Worker

\* The timestamps in hand are of this start or cleared, unless a handler wrote one
\* behind clear().
Timestamps ==
  "handler" \notin raced =>
    /\ \A m \in Kinds : prevOf[m] \in {0, epoch}
    /\ ~running => handling = NoItem /\ \A m \in Kinds : prevOf[m] = 0

LEMMA TimestampsNext ==
  TypeInv /\ Life /\ OfThisStart /\ Timestamps /\ [Next]_vars => Timestamps'
<1> SUFFICES ASSUME TypeInv, Life, OfThisStart, Timestamps, [Next]_vars, "handler" \notin raced'
             PROVE  Timestamps'
  BY DEF Timestamps
<1>0. Flags /\ Places /\ Sent /\ Counts
  BY TypeParts
<1> USE <1>0 DEF Timestamps, Life, Sent, Flags, flags, media, worker, main, device, video, audio,
      world, Call, Post, Races
<1>1. CASE startWithHost
  BY <1>1 DEF startWithHost, startBlock, markAsRunning, videoStart
<1>2. CASE end
  <2>1. handling = NoItem
    BY <1>2 DEF end, endPosted, endBegin, foundAtWork
  <2>2. prevOf' = [m \in Kinds |-> 0] /\ handling' = handling
    BY <1>2 DEF end, endPosted, endBegin, clear
  <2> QED BY <2>1, <2>2
<1>3. CASE setAudioOnly
  BY <1>3 DEF setAudioOnly, videoStart, videoEnd
<1>4. CASE setRtmpSettings
  BY <1>4 DEF setRtmpSettings
<1>5. CASE switchCamera
  BY <1>5 DEF switchCamera, configure, Facing
<1>6. CASE audioInterruptionBegan
  BY <1>6 DEF audioInterruptionBegan, videoEnd
<1>7. CASE audioInterruptionEnded
  BY <1>7 DEF audioInterruptionEnded
<1>8. CASE permissionAnswered
  BY <1>8 DEF permissionAnswered
<1>9. CASE cameraHandler
  BY <1>9 DEF cameraHandler, configure, Facing
<1>10. CASE socketDidConnect
  BY <1>10 DEF socketDidConnect
<1>11. CASE sessionStarted
  BY <1>11 DEF sessionStarted, resetCaptures, setSessionReady
<1>12. CASE socketDidClose
  BY <1>12 DEF socketDidClose
<1>13. CASE startAgain
  BY <1>13 DEF startAgain, startBlock, markAsRunning, videoStart
<1>14. CASE endPosted
  <2>1. handling = NoItem
    BY <1>14 DEF end, endPosted, endBegin, foundAtWork
  <2>2. prevOf' = [m \in Kinds |-> 0] /\ handling' = handling
    BY <1>14 DEF end, endPosted, endBegin, clear
  <2> QED BY <2>1, <2>2
<1>15. CASE reconnectAfter
  <2>1. CASE UNCHANGED <<prevOf, handling, epoch, running, raced>>
    BY <2>1
  <2>2. CASE ~(UNCHANGED <<prevOf, handling, epoch, running, raced>>)
    <3>1. /\ prevOf' = [m \in Kinds |-> 0] /\ handling' = handling
          /\ raced' = raced \cup foundAtWork
      BY <1>15, <2>2 DEF reconnectAfter, clear
    <3> QED BY <3>1 DEF foundAtWork
  <2> QED BY <2>1, <2>2
<1>16. CASE endRest
  BY <1>16 DEF endRest, videoEnd
<1>17. CASE captureOutput
  BY <1>17 DEF captureOutput, CamStep
<1>18. CASE encodeFrame
  BY <1>18 DEF encodeFrame, CamStep
<1>19. CASE encoderOutputCallback
  BY <1>19 DEF encoderOutputCallback, CamStep
<1>20. CASE videoSampleEncoded
  BY <1>20 DEF videoSampleEncoded, CamStep, push, Item
<1>21. CASE processBuffer
  BY <1>21 DEF processBuffer, MicStep
<1>22. CASE audioSampleReceived
  BY <1>22 DEF audioSampleReceived, MicStep, push, Item
<1>23. CASE parametersSent
  BY <1>23 DEF parametersSent, MicStep
<1>24. CASE pop
  BY <1>24 DEF pop
<1>25. CASE handle
  <2>1. handling \in Items /\ handling.of = epoch /\ running
    BY <1>25 DEF handle, Sent, OfThisStart, Timestamps
  <2>2. /\ prevOf' = [prevOf EXCEPT ![handling.kind] = epoch]
        /\ handling' = NoItem /\ UNCHANGED <<epoch, running, raced>>
    BY <1>25, <2>1 DEF handle
  <2> QED BY <2>1, <2>2
<1>26. CASE UNCHANGED vars
  BY <1>26 DEF vars
<1> QED BY <1>1, <1>2, <1>3, <1>4, <1>5, <1>6, <1>7, <1>8, <1>9, <1>10, <1>11, <1>12, <1>13,
      <1>14, <1>15, <1>16, <1>17, <1>18, <1>19, <1>20, <1>21, <1>22, <1>23, <1>24, <1>25, <1>26
        DEF Next, Application, System, Network, Block, Camera, Sound, Worker

MediaInv == TypeInv /\ Life /\ OfThisStart /\ Timestamps

LEMMA MediaInit == Init => MediaInv
<1> SUFFICES ASSUME Init PROVE MediaInv
  OBVIOUS
<1>1. TypeInv /\ Life
  BY TypeInit, LifeInit
<1>2. OfThisStart /\ Timestamps
  BY DEF Init, OfThisStart, Timestamps
<1> QED BY <1>1, <1>2 DEF MediaInv

LEMMA MediaNext == MediaInv /\ [Next]_vars => MediaInv'
  BY TypeNext, LifeNext, OfThisStartNext, TimestampsNext DEF MediaInv

Fresh  == (handling # NoItem /\ handling' = NoItem /\ session = "on") => handling.of = epoch
Resync == (handling # NoItem /\ OutOfSync(prev'))
            => (\A m \in Kinds : prevOf'[m] \in {0, epoch}) \/ "handler" \in raced

LEMMA ResyncStep == MediaInv /\ [Next]_vars => [Resync]_vars
<1> SUFFICES ASSUME MediaInv, [Next]_vars, handling # NoItem, "handler" \notin raced,
                    NEW m \in Kinds
             PROVE  prevOf'[m] \in {0, epoch}
  BY DEF Resync
<1>0. TypeInv /\ Life /\ prevOf[m] \in {0, epoch} /\ running /\ handling.of = epoch
  BY DEF MediaInv, Timestamps, OfThisStart
<1>1. CASE prevOf' = prevOf
  BY <1>0, <1>1
<1>2. CASE prevOf' = [k \in Kinds |-> 0]
  BY <1>2
<1>3. CASE prevOf' = [prevOf EXCEPT ![handling.kind] = handling.of]
  <2>1. prevOf \in [Kinds -> 0 .. epoch]
    BY <1>0, TypeParts DEF Sent
  <2> QED BY <1>0, <1>3, <2>1
<1>4. \/ prevOf' = prevOf
      \/ prevOf' = [k \in Kinds |-> 0]
      \/ prevOf' = [prevOf EXCEPT ![handling.kind] = handling.of]
  <2> USE DEF media
  <2>1. CASE startWithHost
    BY <2>1 DEF startWithHost, startBlock
  <2>2. CASE end
    BY <2>2 DEF end, endBegin, clear
  <2>3. CASE setAudioOnly
    BY <2>3 DEF setAudioOnly
  <2>4. CASE setRtmpSettings
    BY <2>4 DEF setRtmpSettings
  <2>5. CASE switchCamera
    BY <2>5 DEF switchCamera
  <2>6. CASE audioInterruptionBegan
    BY <2>6 DEF audioInterruptionBegan
  <2>7. CASE audioInterruptionEnded
    BY <2>7 DEF audioInterruptionEnded
  <2>8. CASE permissionAnswered
    BY <2>8 DEF permissionAnswered
  <2>9. CASE cameraHandler
    BY <2>9 DEF cameraHandler
  <2>10. CASE socketDidConnect
    BY <2>10 DEF socketDidConnect
  <2>11. CASE sessionStarted
    BY <2>11 DEF sessionStarted
  <2>12. CASE socketDidClose
    BY <2>12 DEF socketDidClose
  <2>13. CASE startAgain
    BY <2>13 DEF startAgain, startBlock
  <2>14. CASE endPosted
    BY <2>14 DEF endPosted, endBegin, clear
  <2>15. CASE reconnectAfter
    BY <2>15 DEF reconnectAfter, clear
  <2>16. CASE endRest
    BY <2>16 DEF endRest
  <2>17. CASE captureOutput
    BY <2>17 DEF captureOutput, CamStep
  <2>18. CASE encodeFrame
    BY <2>18 DEF encodeFrame, CamStep
  <2>19. CASE encoderOutputCallback
    BY <2>19 DEF encoderOutputCallback, CamStep
  <2>20. CASE videoSampleEncoded
    BY <2>20 DEF videoSampleEncoded, CamStep
  <2>21. CASE processBuffer
    BY <2>21 DEF processBuffer, MicStep
  <2>22. CASE audioSampleReceived
    BY <2>22 DEF audioSampleReceived, MicStep
  <2>23. CASE parametersSent
    BY <2>23 DEF parametersSent, MicStep
  <2>24. CASE pop
    BY <2>24 DEF pop
  <2>25. CASE handle
    BY <2>25 DEF handle
  <2>26. CASE UNCHANGED vars
    BY <2>26 DEF vars
  <2> QED BY <2>1, <2>2, <2>3, <2>4, <2>5, <2>6, <2>7, <2>8, <2>9, <2>10, <2>11, <2>12, <2>13,
        <2>14, <2>15, <2>16, <2>17, <2>18, <2>19, <2>20, <2>21, <2>22, <2>23, <2>24, <2>25, <2>26
          DEF Next, Application, System, Network, Block, Camera, Sound, Worker
<1> QED BY <1>1, <1>2, <1>3, <1>4

\* Nothing of an earlier session is sent in this one, or counts in it.
THEOREM MediaIsOfThisSession == Spec => MediaOfThisSession
<1>1. MediaInv => [Fresh]_vars
  BY DEF MediaInv, OfThisStart, Fresh
<1>2. Spec => [][Fresh]_vars /\ [][Resync]_vars
  BY <1>1, MediaInit, MediaNext, ResyncStep, PTL DEF Spec
<1> QED BY <1>2 DEF MediaOfThisSession, FreshMediaOnly, ResyncForThisSession, Fresh, Resync

-----------------------------------------------------------------------------
(* The first audio message of a session.  Until one has been handed over,  *)
(* the first audio item on the way is one with the parameters; as long as  *)
(* there is none, the flag is up and the microphone has not read it.       *)

Audio(item) == item.kind = "audio"

AudioFlow ==
  /\ mic # "idle" => sessionReady
  /\ firstAudio # "data"
  /\ session \in {"connecting", "connected"} =>
       /\ shouldSendAudioParameters /\ firstAudio = "none" /\ ~Audio(handling)
       /\ \A i \in 1 .. Len(queue) : ~Audio(queue[i])
  /\ (session = "on" /\ firstAudio = "none") =>
       /\ Audio(handling) => handling.param
       /\ \A i \in 1 .. Len(queue) : Audio(queue[i]) /\ ~queue[i].param =>
            Audio(handling) \/ \E j \in 1 .. i - 1 : Audio(queue[j])
       /\ ~shouldSendAudioParameters \/ mic = "sent" =>
            Audio(handling) \/ \E j \in 1 .. Len(queue) : Audio(queue[j])

AudioInv == "producer" \notin raced => AudioFlow

\* An item pushed behind the queue.
LEMMA PushedBehind ==
  ASSUME TypeInv, NEW item \in Items, push(item)
  PROVE  \/ ~started /\ queue' = queue
         \/ /\ started /\ Len(queue') = Len(queue) + 1 /\ Len(queue) \in Nat
            /\ \A i \in 1 .. Len(queue) : queue'[i] = queue[i]
            /\ queue'[Len(queue) + 1] = item
<1>1. queue \in Seq(Items)
  BY DEF TypeInv
<1> QED BY <1>1, Appended, SMTT(60) DEF push, TypeInv, TypeOK

LEMMA AudioNext == TypeInv /\ Life /\ AudioInv /\ [Next]_vars => AudioInv'
<1> SUFFICES ASSUME TypeInv, Life, AudioInv, [Next]_vars, "producer" \notin raced' PROVE AudioFlow'
  BY DEF AudioInv
<1>0. Flags /\ Places /\ queue \in Seq(Items) /\ handling \in Items \cup {NoItem}
  BY TypeParts DEF TypeInv
<1>n. ~Audio(NoItem)
  BY DEF Audio, NoItem
<1> USE DEF flags, media, worker, main, device, video, audio, world, Call, Post, Races
<1>1. CASE startWithHost
  <2>1. AudioFlow
    BY <1>1 DEF AudioInv, startWithHost, startAgain
  <2>2. CASE running
    BY <1>1, <2>1, <2>2 DEF startWithHost, startAgain, startBlock, AudioFlow
  <2>3. CASE ~running
    <3>1. ~sessionReady /\ queue = <<>> /\ handling = NoItem /\ mic = "idle"
      BY <1>1, <2>1, <2>3 DEF Life, AudioFlow, startWithHost, startAgain, Places
    <3>2. /\ session' = "connecting" /\ shouldSendAudioParameters' = TRUE /\ firstAudio' = "none"
          /\ queue' = <<>> /\ handling' = NoItem /\ mic' = "idle"
      BY <1>1, <2>3, <3>1 DEF startWithHost, startAgain, startBlock, markAsRunning
    <3> QED BY <1>n, <3>2 DEF AudioFlow
  <2> QED BY <2>2, <2>3
<1>2. CASE end
  <2>1. AudioFlow /\ mic = "idle"
    BY <1>2 DEF AudioInv, end, endPosted, endBegin, foundAtWork
  <2>2. session' = "off" /\ mic' = mic /\ firstAudio' = firstAudio
    BY <1>2 DEF end, endPosted, endBegin, endSession, clear
  <2> QED BY <2>1, <2>2 DEF AudioFlow
<1>3. CASE setAudioOnly
  BY <1>3 DEF AudioInv, AudioFlow, setAudioOnly, videoStart, videoEnd
<1>4. CASE setRtmpSettings
  BY <1>4 DEF AudioInv, AudioFlow, setRtmpSettings
<1>5. CASE switchCamera
  BY <1>5 DEF AudioInv, AudioFlow, switchCamera, configure, Facing
<1>6. CASE audioInterruptionBegan
  BY <1>6 DEF AudioInv, AudioFlow, audioInterruptionBegan, videoEnd
<1>7. CASE audioInterruptionEnded
  BY <1>7 DEF AudioInv, AudioFlow, audioInterruptionEnded
<1>8. CASE permissionAnswered
  BY <1>8 DEF AudioInv, AudioFlow, permissionAnswered
<1>9. CASE cameraHandler
  BY <1>9 DEF AudioInv, AudioFlow, cameraHandler, configure, Facing
<1>10. CASE socketDidConnect
  BY <1>10 DEF AudioInv, AudioFlow, socketDidConnect
<1>11. CASE sessionStarted
  <2>1. AudioFlow /\ session = "connected" /\ session' = "on" /\ sessionReady' /\ ~sessionReady
          /\ mic = "idle"
    BY <1>11 DEF AudioInv, AudioFlow, sessionStarted, setSessionReady, Life
  <2>2. UNCHANGED <<mic, firstAudio, shouldSendAudioParameters, handling, queue>>
    BY <1>11 DEF sessionStarted
  <2> QED BY <2>1, <2>2 DEF AudioFlow
<1>12. CASE socketDidClose
  BY <1>12 DEF AudioInv, AudioFlow, socketDidClose
<1>13. CASE startAgain
  <2>1. AudioFlow
    BY <1>13 DEF AudioInv, startWithHost, startAgain
  <2>2. CASE running
    BY <1>13, <2>1, <2>2 DEF startWithHost, startAgain, startBlock, AudioFlow
  <2>3. CASE ~running
    <3>1. ~sessionReady /\ queue = <<>> /\ handling = NoItem /\ mic = "idle"
      BY <1>13, <2>1, <2>3 DEF Life, AudioFlow, startWithHost, startAgain, Places
    <3>2. /\ session' = "connecting" /\ shouldSendAudioParameters' = TRUE /\ firstAudio' = "none"
          /\ queue' = <<>> /\ handling' = NoItem /\ mic' = "idle"
      BY <1>13, <2>3, <3>1 DEF startWithHost, startAgain, startBlock, markAsRunning
    <3> QED BY <1>n, <3>2 DEF AudioFlow
  <2> QED BY <2>2, <2>3
<1>14. CASE endPosted
  <2>1. AudioFlow /\ mic = "idle"
    BY <1>14 DEF AudioInv, end, endPosted, endBegin, foundAtWork
  <2>2. session' = "off" /\ mic' = mic /\ firstAudio' = firstAudio
    BY <1>14 DEF end, endPosted, endBegin, endSession, clear
  <2> QED BY <2>1, <2>2 DEF AudioFlow
<1>15. CASE reconnectAfter
  <2>1. CASE UNCHANGED <<raced, sessionReady, session, firstAudio, shouldSendAudioParameters,
                         handling, queue, mic>>
    BY <2>1 DEF AudioInv, AudioFlow
  <2>2. CASE ~(UNCHANGED <<raced, sessionReady, session, firstAudio, shouldSendAudioParameters,
                           handling, queue, mic>>)
    <3>1. /\ session' = "off" /\ mic' = mic /\ firstAudio' = firstAudio
          /\ raced' = raced \cup foundAtWork
      BY <1>15, <2>2 DEF reconnectAfter, clear
    <3>2. AudioFlow /\ mic = "idle"
      BY <3>1 DEF AudioInv, foundAtWork
    <3> QED BY <3>1, <3>2 DEF AudioFlow
  <2> QED BY <2>1, <2>2
<1>16. CASE endRest
  <2>1. AudioFlow /\ session = "off"
    BY <1>16 DEF AudioInv, endRest, Life
  <2>2. UNCHANGED <<mic, sessionReady, firstAudio, session>>
    BY <1>16 DEF endRest
  <2> QED BY <2>1, <2>2 DEF AudioFlow
<1>17. CASE captureOutput
  BY <1>17 DEF AudioInv, AudioFlow, captureOutput, CamStep
<1>18. CASE encodeFrame
  BY <1>18 DEF AudioInv, AudioFlow, encodeFrame, CamStep
<1>19. CASE encoderOutputCallback
  BY <1>19 DEF AudioInv, AudioFlow, encoderOutputCallback, CamStep
<1>20. CASE videoSampleEncoded
  <2>1. AudioFlow
    BY <1>20 DEF AudioInv, videoSampleEncoded, CamStep
  <2> DEFINE item == Item("video", FALSE, frame)
  <2>2. item \in Items /\ ~Audio(item)
    BY DEF Item, Items, Kinds, TypeInv, TypeOK, Audio
  <2>3. push(item) /\ UNCHANGED <<sessionReady, session, firstAudio, shouldSendAudioParameters,
                                  handling, mic>>
    BY <1>20 DEF videoSampleEncoded, CamStep
  <2> HIDE DEF item
  <2>4. CASE queue' = queue
    BY <2>1, <2>3, <2>4 DEF AudioFlow
  <2>5. CASE /\ Len(queue') = Len(queue) + 1 /\ Len(queue) \in Nat
             /\ \A i \in 1 .. Len(queue) : queue'[i] = queue[i]
             /\ queue'[Len(queue) + 1] = item
    <3>1. \A i \in 1 .. Len(queue') : Audio(queue'[i]) => i \in 1 .. Len(queue)
            /\ queue'[i] = queue[i]
      BY <2>2, <2>5
    <3>2. \A i \in 1 .. Len(queue) : i \in 1 .. Len(queue') /\ queue'[i] = queue[i]
      BY <2>5
    <3>3. \A i \in 1 .. Len(queue) : \A j \in 1 .. i - 1 : j \in 1 .. Len(queue)
      BY <2>5
    <3> QED BY <2>1, <2>3, <3>1, <3>2, <3>3 DEF AudioFlow
  <2> QED BY <2>2, <2>3, <2>4, <2>5, PushedBehind
<1>21. CASE processBuffer
  BY <1>21 DEF AudioInv, AudioFlow, processBuffer, MicStep
<1>22. CASE audioSampleReceived
  <2>1. AudioFlow /\ mic = "push" /\ running /\ started /\ sessionReady
    BY <1>22 DEF AudioInv, AudioFlow, audioSampleReceived, MicStep, Life
  <2> DEFINE item == Item("audio", shouldSendAudioParameters, sampleCount)
  <2>2. item \in Items /\ Audio(item) /\ item.param = shouldSendAudioParameters
    BY <1>0 DEF Item, Items, Kinds, TypeInv, TypeOK, Audio
  <2>3. push(item) /\ UNCHANGED <<sessionReady, session, firstAudio, shouldSendAudioParameters,
                                  handling>>
    BY <1>22 DEF audioSampleReceived, MicStep
  <2> HIDE DEF item
  <2>4. /\ Len(queue') = Len(queue) + 1 /\ Len(queue) \in Nat
        /\ \A i \in 1 .. Len(queue) : queue'[i] = queue[i]
        /\ queue'[Len(queue) + 1] = item
    BY <2>1, <2>2, <2>3, PushedBehind
  <2>5. session \notin {"connecting", "connected"}
    BY <2>1 DEF Life
  <2>6. ASSUME session = "on", firstAudio = "none"
        PROVE  /\ Audio(handling) => handling.param
               /\ \A i \in 1 .. Len(queue') : Audio(queue'[i]) /\ ~queue'[i].param =>
                    Audio(handling) \/ \E j \in 1 .. i - 1 : Audio(queue'[j])
               /\ \E j \in 1 .. Len(queue') : Audio(queue'[j])
    <3>1. Audio(handling) => handling.param
      BY <2>1, <2>6 DEF AudioFlow
    <3>2. ASSUME NEW i \in 1 .. Len(queue'), Audio(queue'[i]), ~queue'[i].param, ~Audio(handling)
          PROVE  \E j \in 1 .. i - 1 : Audio(queue'[j])
      <4>1. CASE i \in 1 .. Len(queue)
        <5>1. PICK j \in 1 .. i - 1 : Audio(queue[j])
          BY <2>1, <2>4, <2>6, <3>2, <4>1 DEF AudioFlow
        <5>2. j \in 1 .. Len(queue) /\ queue'[j] = queue[j]
          BY <2>4, <4>1
        <5> QED BY <5>1, <5>2
      <4>2. CASE i = Len(queue) + 1
        <5>1. ~shouldSendAudioParameters
          BY <2>2, <2>4, <3>2, <4>2
        <5>2. PICK j \in 1 .. Len(queue) : Audio(queue[j])
          BY <2>1, <2>6, <3>2, <5>1 DEF AudioFlow
        <5>3. j \in 1 .. i - 1 /\ queue'[j] = queue[j]
          BY <2>4, <4>2
        <5> QED BY <5>2, <5>3
      <4> QED BY <2>4, <4>1, <4>2
    <3>3. Len(queue) + 1 \in 1 .. Len(queue') /\ Audio(queue'[Len(queue) + 1])
      BY <2>2, <2>4
    <3> QED BY <3>1, <3>2, <3>3
  <2> QED BY <2>1, <2>3, <2>5, <2>6 DEF AudioFlow
<1>23. CASE parametersSent
  <2>1. AudioFlow /\ mic = "sent" /\ sessionReady
    BY <1>23 DEF AudioInv, AudioFlow, parametersSent, MicStep
  <2>2. /\ mic' = "idle" /\ shouldSendAudioParameters' = FALSE
        /\ UNCHANGED <<sessionReady, session, firstAudio, handling, queue>>
    BY <1>23 DEF parametersSent, MicStep
  <2>3. session \notin {"connecting", "connected"}
    BY <2>1 DEF Life
  <2> QED BY <2>1, <2>2, <2>3 DEF AudioFlow
<1>24. CASE pop
  <2>1. AudioFlow /\ handling = NoItem /\ queue # <<>> /\ queue' = Tail(queue)
    BY <1>24 DEF AudioInv, pop
  <2>2. UNCHANGED <<sessionReady, session, firstAudio, shouldSendAudioParameters, mic>>
    BY <1>24 DEF pop
  <2>3. /\ Len(queue') = Len(queue) - 1 /\ Len(queue) \in Nat \ {0} /\ Head(queue) = queue[1]
        /\ \A i \in 1 .. Len(queue) - 1 : queue'[i] = queue[i + 1]
    BY <1>0, <2>1, Tailed
  <2>4. \A i \in 1 .. Len(queue') : i + 1 \in 1 .. Len(queue) /\ queue'[i] = queue[i + 1]
    BY <2>3
  <2>5. handling' = (IF sessionReady THEN queue[1] ELSE NoItem) /\ 1 \in 1 .. Len(queue)
    BY <1>24, <2>3 DEF pop
  <2>6. ASSUME session \in {"connecting", "connected"}
        PROVE  ~Audio(handling') /\ \A i \in 1 .. Len(queue') : ~Audio(queue'[i])
    BY <2>1, <2>4, <2>5, <2>6, <1>n DEF AudioFlow
  <2>7. ASSUME session = "on", firstAudio = "none"
        PROVE  /\ Audio(handling') => handling'.param
               /\ \A i \in 1 .. Len(queue') : Audio(queue'[i]) /\ ~queue'[i].param =>
                    Audio(handling') \/ \E j \in 1 .. i - 1 : Audio(queue'[j])
               /\ ~shouldSendAudioParameters \/ mic = "sent" =>
                    Audio(handling') \/ \E j \in 1 .. Len(queue') : Audio(queue'[j])
    <3>1. handling' = queue[1] /\ ~Audio(handling)
      BY <2>1, <2>5, <2>7, <1>n DEF Life
    <3>2. Audio(queue[1]) => queue[1].param
      BY <2>1, <2>5, <2>7, <3>1 DEF AudioFlow
    <3>3. ASSUME NEW k \in 1 .. Len(queue), Audio(queue[k]), ~Audio(queue[1])
          PROVE  k - 1 \in 1 .. Len(queue') /\ Audio(queue'[k - 1])
      BY <2>3, <3>3
    <3>4. ASSUME NEW i \in 1 .. Len(queue'), Audio(queue'[i]), ~queue'[i].param, ~Audio(queue[1])
          PROVE  \E j \in 1 .. i - 1 : Audio(queue'[j])
      <4>1. PICK k \in 1 .. (i + 1) - 1 : Audio(queue[k])
        BY <2>1, <2>4, <2>7, <3>1, <3>4 DEF AudioFlow
      <4>2. k \in 1 .. Len(queue) /\ k # 1
        BY <2>3, <3>4, <4>1
      <4>3. k - 1 \in 1 .. i - 1 /\ Audio(queue'[k - 1])
        BY <2>3, <4>1, <4>2, <3>3, <3>4
      <4> QED BY <4>3
    <3>5. ASSUME ~shouldSendAudioParameters \/ mic = "sent", ~Audio(queue[1])
          PROVE  \E j \in 1 .. Len(queue') : Audio(queue'[j])
      <4>1. PICK k \in 1 .. Len(queue) : Audio(queue[k])
        BY <2>1, <2>7, <3>1, <3>5 DEF AudioFlow
      <4> QED BY <3>3, <3>5, <4>1
    <3> QED BY <3>1, <3>2, <3>4, <3>5
  <2> QED BY <2>1, <2>2, <2>6, <2>7 DEF AudioFlow
<1>25. CASE handle
  <2>1. AudioFlow /\ handling' = NoItem /\ UNCHANGED <<queue, sessionReady, session,
                                                       shouldSendAudioParameters, mic>>
    BY <1>25 DEF AudioInv, handle
  <2>2. firstAudio' = IF session = "on" /\ Audio(handling) /\ firstAudio = "none"
                      THEN IF handling.param THEN "params" ELSE "data" ELSE firstAudio
    BY <1>25 DEF handle, Audio
  <2>3. CASE session = "on" /\ Audio(handling) /\ firstAudio = "none"
    <3>1. firstAudio' = "params"
      BY <2>1, <2>2, <2>3 DEF AudioFlow
    <3> QED BY <2>1, <2>3, <3>1 DEF AudioFlow
  <2>4. CASE ~(session = "on" /\ Audio(handling) /\ firstAudio = "none")
    BY <2>1, <2>2, <2>4, <1>n DEF AudioFlow
  <2> QED BY <2>3, <2>4
<1>26. CASE UNCHANGED vars
  BY <1>26 DEF AudioInv, AudioFlow, vars
<1> QED BY <1>1, <1>2, <1>3, <1>4, <1>5, <1>6, <1>7, <1>8, <1>9, <1>10, <1>11, <1>12, <1>13,
      <1>14, <1>15, <1>16, <1>17, <1>18, <1>19, <1>20, <1>21, <1>22, <1>23, <1>24, <1>25, <1>26
        DEF Next, Application, System, Network, Block, Camera, Sound, Worker

\* The first audio message of a session is the parameters, unless the microphone was
\* between two of its readings when the view was cleared.
THEOREM ParametersFirst == Spec => []AudioStartsWithParameters
<1>1. Init => AudioInv
  BY DEF Init, AudioInv, AudioFlow, Audio, NoItem
<1>2. AudioInv => AudioStartsWithParameters
  BY DEF AudioInv, AudioFlow, AudioStartsWithParameters
<1>3. TypeInv /\ Life /\ AudioInv /\ [Next]_vars => (TypeInv /\ Life /\ AudioInv)'
  BY TypeNext, LifeNext, AudioNext
<1> QED BY <1>1, <1>2, <1>3, TypeInit, LifeInit, PTL DEF Spec

-----------------------------------------------------------------------------
(* The camera and its capture.                                             *)

\* A capture that has ended has no frame on its way to the encoder.
Encoding == "frame" \in raced \/ capturing \/ (cam # "encode" /\ encoder = "none")

LEMMA EncodingNext == TypeInv /\ Encoding /\ [Next]_vars => Encoding'
<1> SUFFICES ASSUME TypeInv, Encoding, [Next]_vars PROVE Encoding'
  OBVIOUS
<1>0. Flags
  BY TypeParts
<1> USE <1>0 DEF Encoding, Flags, foundEncoding, flags, media, worker, main, device, video, audio,
      world, Call, Post, Races
<1>1. CASE startWithHost
  BY <1>1 DEF startWithHost, startBlock, markAsRunning, videoStart
<1>2. CASE end
  BY <1>2 DEF end, endBegin, endSession, clear, setSessionReady
<1>3. CASE setAudioOnly
  BY <1>3 DEF setAudioOnly, videoStart, videoEnd
<1>4. CASE setRtmpSettings
  BY <1>4 DEF setRtmpSettings
<1>5. CASE switchCamera
  BY <1>5 DEF switchCamera, configure, Facing
<1>6. CASE audioInterruptionBegan
  BY <1>6 DEF audioInterruptionBegan, videoEnd
<1>7. CASE audioInterruptionEnded
  BY <1>7 DEF audioInterruptionEnded
<1>8. CASE permissionAnswered
  BY <1>8 DEF permissionAnswered
<1>9. CASE cameraHandler
  BY <1>9 DEF cameraHandler, configure, Facing
<1>10. CASE socketDidConnect
  BY <1>10 DEF socketDidConnect
<1>11. CASE sessionStarted
  BY <1>11 DEF sessionStarted, resetCaptures, setSessionReady
<1>12. CASE socketDidClose
  BY <1>12 DEF socketDidClose
<1>13. CASE startAgain
  BY <1>13 DEF startAgain, startBlock, markAsRunning, videoStart
<1>14. CASE endPosted
  BY <1>14 DEF endPosted, endBegin, clear, setSessionReady
<1>15. CASE reconnectAfter
  BY <1>15 DEF reconnectAfter, clear
<1>16. CASE endRest
  BY <1>16 DEF endRest, videoEnd
<1>17. CASE captureOutput
  BY <1>17 DEF captureOutput, CamStep
<1>18. CASE encodeFrame
  BY <1>18 DEF encodeFrame, CamStep
<1>19. CASE encoderOutputCallback
  BY <1>19 DEF encoderOutputCallback, CamStep
<1>20. CASE videoSampleEncoded
  BY <1>20 DEF videoSampleEncoded, CamStep, push, Item
<1>21. CASE processBuffer
  BY <1>21 DEF processBuffer, MicStep
<1>22. CASE audioSampleReceived
  BY <1>22 DEF audioSampleReceived, MicStep, push, Item
<1>23. CASE parametersSent
  BY <1>23 DEF parametersSent, MicStep
<1>24. CASE pop
  BY <1>24 DEF pop
<1>25. CASE handle
  BY <1>25 DEF handle, resetCaptures
<1>26. CASE UNCHANGED vars
  BY <1>26 DEF vars
<1> QED BY <1>1, <1>2, <1>3, <1>4, <1>5, <1>6, <1>7, <1>8, <1>9, <1>10, <1>11, <1>12, <1>13,
      <1>14, <1>15, <1>16, <1>17, <1>18, <1>19, <1>20, <1>21, <1>22, <1>23, <1>24, <1>25, <1>26
        DEF Next, Application, System, Network, Block, Camera, Sound, Worker

\* A view that is clear has nothing to see.
Seeing == (running /\ ~audioOnly /\ unseen = {}) => capturing /\ compressor = "wired"

LEMMA SeeingNext == TypeInv /\ Life /\ Seeing /\ [Next]_vars => Seeing'
<1> SUFFICES ASSUME TypeInv, Life, Seeing, [Next]_vars PROVE Seeing'
  OBVIOUS
<1>0. Flags /\ Places
  BY TypeParts
<1> USE <1>0 DEF Seeing, Life, Flags, Places, flags, media, worker, main, device, video, audio,
      world, Call, Post, Races
<1>1. CASE startWithHost
  BY <1>1 DEF startWithHost, startBlock, markAsRunning, videoStart
<1>2. CASE end
  BY <1>2 DEF end, endBegin, endSession, clear, setSessionReady
<1>3. CASE setAudioOnly
  BY <1>3 DEF setAudioOnly, videoStart, videoEnd
<1>4. CASE setRtmpSettings
  BY <1>4 DEF setRtmpSettings
<1>5. CASE switchCamera
  BY <1>5 DEF switchCamera, configure, Facing
<1>6. CASE audioInterruptionBegan
  BY <1>6 DEF audioInterruptionBegan, videoEnd
<1>7. CASE audioInterruptionEnded
  BY <1>7 DEF audioInterruptionEnded
<1>8. CASE permissionAnswered
  BY <1>8 DEF permissionAnswered
<1>9. CASE cameraHandler
  BY <1>9 DEF cameraHandler, configure, Facing
<1>10. CASE socketDidConnect
  BY <1>10 DEF socketDidConnect
<1>11. CASE sessionStarted
  BY <1>11 DEF sessionStarted, resetCaptures, setSessionReady
<1>12. CASE socketDidClose
  BY <1>12 DEF socketDidClose
<1>13. CASE startAgain
  BY <1>13 DEF startAgain, startBlock, markAsRunning, videoStart
<1>14. CASE endPosted
  BY <1>14 DEF endPosted, endBegin, clear, setSessionReady
<1>15. CASE reconnectAfter
  BY <1>15 DEF reconnectAfter, clear
<1>16. CASE endRest
  BY <1>16 DEF endRest, videoEnd
<1>17. CASE captureOutput
  BY <1>17 DEF captureOutput, CamStep
<1>18. CASE encodeFrame
  BY <1>18 DEF encodeFrame, CamStep
<1>19. CASE encoderOutputCallback
  BY <1>19 DEF encoderOutputCallback, CamStep
<1>20. CASE videoSampleEncoded
  BY <1>20 DEF videoSampleEncoded, CamStep, push, Item
<1>21. CASE processBuffer
  BY <1>21 DEF processBuffer, MicStep
<1>22. CASE audioSampleReceived
  BY <1>22 DEF audioSampleReceived, MicStep, push, Item
<1>23. CASE parametersSent
  BY <1>23 DEF parametersSent, MicStep
<1>24. CASE pop
  BY <1>24 DEF pop
<1>25. CASE handle
  BY <1>25 DEF handle, resetCaptures
<1>26. CASE UNCHANGED vars
  BY <1>26 DEF vars
<1> QED BY <1>1, <1>2, <1>3, <1>4, <1>5, <1>6, <1>7, <1>8, <1>9, <1>10, <1>11, <1>12, <1>13,
      <1>14, <1>15, <1>16, <1>17, <1>18, <1>19, <1>20, <1>21, <1>22, <1>23, <1>24, <1>25, <1>26
        DEF Next, Application, System, Network, Block, Camera, Sound, Worker

\* The dialog has somebody waiting for it, and no configuration is left open.
Facings ==
  "switch" \in raced \/
    /\ nesting = 0
    /\ permission = "asked" => asked > 0
    /\ (permission = "yes" /\ asked = 0) => camera = Facing(front)

LEMMA FacingsNext == TypeInv /\ Facings /\ [Next]_vars => Facings'
<1> SUFFICES ASSUME TypeInv, Facings, [Next]_vars PROVE Facings'
  OBVIOUS
<1>0. Flags /\ Places /\ Counts
  BY TypeParts
<1> USE <1>0 DEF Facings, Flags, Places, Counts, Facing, flags, media, worker, main, device,
      video, audio, world, Call, Post, Races
<1>1. CASE startWithHost
  BY <1>1 DEF startWithHost, startBlock, markAsRunning, videoStart
<1>2. CASE end
  BY <1>2 DEF end, endBegin, endSession, clear, setSessionReady
<1>3. CASE setAudioOnly
  BY <1>3 DEF setAudioOnly, videoStart, videoEnd
<1>4. CASE setRtmpSettings
  BY <1>4 DEF setRtmpSettings
<1>5. CASE switchCamera
  BY <1>5 DEF switchCamera, configure, Facing
<1>6. CASE audioInterruptionBegan
  BY <1>6 DEF audioInterruptionBegan, videoEnd
<1>7. CASE audioInterruptionEnded
  BY <1>7 DEF audioInterruptionEnded
<1>8. CASE permissionAnswered
  BY <1>8 DEF permissionAnswered
<1>9. CASE cameraHandler
  BY <1>9 DEF cameraHandler, configure, Facing
<1>10. CASE socketDidConnect
  BY <1>10 DEF socketDidConnect
<1>11. CASE sessionStarted
  BY <1>11 DEF sessionStarted, resetCaptures, setSessionReady
<1>12. CASE socketDidClose
  BY <1>12 DEF socketDidClose
<1>13. CASE startAgain
  BY <1>13 DEF startAgain, startBlock, markAsRunning, videoStart
<1>14. CASE endPosted
  BY <1>14 DEF endPosted, endBegin, clear, setSessionReady
<1>15. CASE reconnectAfter
  BY <1>15 DEF reconnectAfter, clear
<1>16. CASE endRest
  BY <1>16 DEF endRest, videoEnd
<1>17. CASE captureOutput
  BY <1>17 DEF captureOutput, CamStep
<1>18. CASE encodeFrame
  BY <1>18 DEF encodeFrame, CamStep
<1>19. CASE encoderOutputCallback
  BY <1>19 DEF encoderOutputCallback, CamStep
<1>20. CASE videoSampleEncoded
  BY <1>20 DEF videoSampleEncoded, CamStep, push, Item
<1>21. CASE processBuffer
  BY <1>21 DEF processBuffer, MicStep
<1>22. CASE audioSampleReceived
  BY <1>22 DEF audioSampleReceived, MicStep, push, Item
<1>23. CASE parametersSent
  BY <1>23 DEF parametersSent, MicStep
<1>24. CASE pop
  BY <1>24 DEF pop
<1>25. CASE handle
  BY <1>25 DEF handle, resetCaptures
<1>26. CASE UNCHANGED vars
  BY <1>26 DEF vars
<1> QED BY <1>1, <1>2, <1>3, <1>4, <1>5, <1>6, <1>7, <1>8, <1>9, <1>10, <1>11, <1>12, <1>13,
      <1>14, <1>15, <1>16, <1>17, <1>18, <1>19, <1>20, <1>21, <1>22, <1>23, <1>24, <1>25, <1>26
        DEF Next, Application, System, Network, Block, Camera, Sound, Worker

\* The encoder, the capture and the camera are what the view and the user asked for last.
THEOREM CaptureFollows == Spec => []CaptureFollowsTheView
<1>1. Init => TypeInv /\ Life /\ Encoding /\ Seeing /\ Facings
  <2> SUFFICES ASSUME Init PROVE TypeInv /\ Life /\ Encoding /\ Seeing /\ Facings
    OBVIOUS
  <2>1. Facings
    BY DEF Init, Facings, Facing
  <2> QED BY <2>1, TypeInit, LifeInit DEF Init, Encoding, Seeing
<1>2. TypeInv /\ Life /\ Encoding /\ Seeing /\ Facings /\ [Next]_vars
        => (TypeInv /\ Life /\ Encoding /\ Seeing /\ Facings)'
  BY TypeNext, LifeNext, EncodingNext, SeeingNext, FacingsNext
<1>3. TypeInv /\ Encoding /\ Seeing /\ Facings => CaptureFollowsTheView
  <2> SUFFICES ASSUME TypeInv, Encoding, Seeing, Facings PROVE CaptureFollowsTheView
    OBVIOUS
  <2>1. EndedCaptureHasNoEncoder
    BY DEF Encoding, EndedCaptureHasNoEncoder
  <2>2. VideoReachesTheView
    BY DEF Seeing, VideoReachesTheView
  <2>3. CameraFollowsTheSwitch
    BY DEF Facings, CameraFollowsTheSwitch
  <2> QED BY <2>1, <2>2, <2>3 DEF TypeInv, CaptureFollowsTheView
<1> QED BY <1>1, <1>2, <1>3, PTL DEF Spec
================================================================================
