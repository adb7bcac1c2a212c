-------------------------------- MODULE Amf0 --------------------------------
(***************************************************************************)
(* AMF::v0::Serializer and Deserializer, as functions on payloads.         *)
(*                                                                         *)
(* A payload is a sequence of units, a unit being a byte or what stands    *)
(* for a name, a text or a number: a name is one unit long, a double is    *)
(* its eight units, markers and lengths are the bytes they are.  A reader  *)
(* that has lost its place reads units for what they are not, as it reads  *)
(* bytes in the code.                                                      *)
(***************************************************************************)
LOCAL INSTANCE Naturals
LOCAL INSTANCE Sequences
LOCAL INSTANCE TLC
LOCAL INSTANCE FiniteSetsExt

NumberMarker    == 0
BooleanMarker   == 1
StringMarker    == 2
ObjectMarker    == 3
NullMarker      == 5
EcmaArrayMarker == 8
ObjectEndMarker == 9
DateMarker      == 11  \* no reader for this one

Empty == 0  \* the text without characters; the others have a unit above the markers
DoubleSize == 8

NumberVariant(n)  == [type |-> "number", value |-> n]
BooleanVariant(b) == [type |-> "boolean", value |-> b]
StringVariant(s)  == [type |-> "string", value |-> s]
NullVariant       == [type |-> "null", value |-> 0]
Undefined         == [type |-> "undefined", value |-> 0]
Dictionary(type, d) == [type |-> type, value |-> d]
NoProperties == << >>

-----------------------------------------------------------------------------
(* Serializer.                                                             *)

serializeString(s, includeMarker) ==
  (IF includeMarker THEN <<StringMarker>> ELSE << >>)
  \o IF s = Empty THEN <<0, 0>> ELSE <<0, 1, s>>

serializeNumber(n) == <<NumberMarker>> \o [i \in 1 .. DoubleSize |-> n]

serializeBoolean(b) == <<BooleanMarker, IF b THEN 1 ELSE 0>>

serializeVariant(v) ==
  CASE v.type = "string"  -> serializeString(v.value, TRUE)
    [] v.type = "number"  -> serializeNumber(v.value)
    [] v.type = "boolean" -> serializeBoolean(v.value)
    [] v.type = "null"    -> <<NullMarker>>

serializeProperties(props) ==
  FoldSet(LAMBDA name, data : data \o serializeString(name, FALSE) \o serializeVariant(props[name]),
          << >>, DOMAIN props)

serializeObject(props) ==
  <<ObjectMarker>> \o serializeProperties(props) \o serializeString(Empty, FALSE) \o <<ObjectEndMarker>>

-----------------------------------------------------------------------------
(* Deserializer: each function takes a payload and a place in it, and      *)
(* gives what it read and the place it has reached.                        *)

Left(data, i) == IF i > Len(data) THEN 0 ELSE Len(data) + 1 - i

length16(data, i) == data[i] * 256 + data[i + 1]

Text(data, i, length) == IF length = 0 THEN Empty ELSE data[i]

deserializeString(data, i) ==
  LET length == length16(data, i)
  IN  [value |-> StringVariant(Text(data, i + 2, length)), next |-> i + 2 + length]

\* a number that is cut off is 0 and is not skipped
deserializeNumber(data, i) ==
  IF Left(data, i) < DoubleSize THEN [value |-> NumberVariant(0), next |-> i]
  ELSE [value |-> NumberVariant(data[i]), next |-> i + DoubleSize]

deserializeBoolean(data, i) ==
  IF Left(data, i) = 0 THEN [value |-> BooleanVariant(FALSE), next |-> i]
  ELSE [value |-> BooleanVariant(data[i] > 0), next |-> i + 1]

\* a value the reader does not know is Undefined, and only its marker is skipped
deserializeSubset(data, i) ==
  IF Left(data, i) = 0 THEN [value |-> Undefined, next |-> i]
  ELSE CASE data[i] = StringMarker  -> deserializeString(data, i + 1)
         [] data[i] = NumberMarker  -> deserializeNumber(data, i + 1)
         [] data[i] = BooleanMarker -> deserializeBoolean(data, i + 1)
         [] data[i] = NullMarker    -> [value |-> NullVariant, next |-> i + 1]
         [] OTHER                   -> [value |-> Undefined, next |-> i + 1]

\* the pairs that the array announces; what its end looks like does not matter
deserializeEcmaArray(data, from, size) ==
  LET pairs[n \in Nat, i \in Nat] ==
        IF n = 0 \/ Left(data, i) < 2 THEN [dict |-> NoProperties, next |-> i]
        ELSE IF Left(data, i + 2) = 0 \/ Left(data, i + 2) < length16(data, i)
        THEN [dict |-> NoProperties, next |-> i + 2]
        ELSE LET length == length16(data, i)
                 item   == deserializeSubset(data, i + 2 + length)
                 rest   == pairs[n - 1, item.next]
             IN  [rest EXCEPT !.dict = @ @@ (Text(data, i + 2, length) :> item.value)]
      all == pairs[size, from]
  IN  [value |-> Dictionary("array", all.dict), next |-> all.next]

\* pairs until the marker of the end, which the empty name before it does not hide
deserializeObject(data, from) ==
  LET pairs[i \in Nat] ==
        IF data[i] = ObjectEndMarker THEN [dict |-> NoProperties, next |-> i + 1]
        ELSE LET key == deserializeString(data, i)
             IN  IF key.value.value = Empty THEN pairs[key.next]
                 ELSE LET item == deserializeSubset(data, key.next)
                          rest == pairs[item.next]
                      IN  [rest EXCEPT !.dict = @ @@ (key.value.value :> item.value)]
      all == pairs[from]
  IN  [value |-> Dictionary("object", all.dict), next |-> all.next]

deserializeItem(data, i) ==
  CASE data[i] = ObjectMarker -> deserializeObject(data, i + 1)
    [] data[i] = EcmaArrayMarker ->
         IF Left(data, i + 1) < 4 THEN [value |-> Undefined, next |-> i + 1]
         ELSE deserializeEcmaArray(data, i + 5, data[i + 4])
    [] OTHER -> deserializeSubset(data, i)

\* everything there is to read, in its order
deserialize(data) ==
  LET items[i \in Nat] ==
        IF Left(data, i) = 0 THEN << >>
        ELSE LET item == deserializeItem(data, i) IN <<item.value>> \o items[item.next]
  IN  items[1]
=============================================================================
