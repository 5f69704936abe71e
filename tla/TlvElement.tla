----------------------------- MODULE TlvElement -----------------------------
(***************************************************************************)
(* Matter TLV, one element at a time: the Writer and the Reader of single  *)
(* elements (tlv/tlv.go), and the decoding of an element into a Go bool,   *)
(* string, []byte or integer (tlv/decoder.go), as operators.               *)
(*                                                                         *)
(* A Reader is the bytes it has not read yet.  A function that can fail    *)
(* returns a record with the field err; what a failed writer had already   *)
(* written is dropped, as Marshal drops it.                                *)
(*                                                                         *)
(* Reflection: a Go type is a record with the field kind.  The value of an *)
(* int or uint of any size is a 64-bit integer (reflect.Value.Int, Uint),  *)
(* of a string or []byte a sequence of bytes.                              *)
(***************************************************************************)
EXTENDS Bytes, FiniteSetsExt

-----------------------------------------------------------------------------
(* Types and tags, tlv.go 11-54 *)

TypeSignedInt == 0
TypeUnsignedInt == 4
TypeBoolean == 8
TypeUTF8String == 12
TypeByteString == 16
TypeNull == 20
TypeStructure == 21
TypeArray == 22
TypeList == 23
TypeEndOfContainer == 24

TagControlAnonymous == 0
TagControlContextSpecific == 32
TagControlFullyQualified6 == 192
TagControlFullyQualified8 == 224

MaxInt32 == 2147483647

IsContainer(type) == type \in {TypeStructure, TypeArray, TypeList}

Anonymous == [Class |-> TagControlAnonymous, ID |-> Zero(8), Profile |-> Zero(4)]

ContextTag(id) ==
    [Class |-> TagControlContextSpecific, ID |-> id, Profile |-> Zero(4)]

\* A number below 2^31 as an integer of four bytes, and back.
Digits(number) ==
    <<((number \div 256) \div 256) \div 256, ((number \div 256) \div 256) % 256,
      (number \div 256) % 256, number % 256>>
Number(x) == ((x[1] * 256 + x[2]) * 256 + x[3]) * 256 + x[4]

Fail == [err |-> TRUE]
Done(bytes) == [err |-> FALSE, bytes |-> bytes]

\* One write after another; the first error ends the writing.
Then(r, s) == IF r.err \/ s.err THEN Fail ELSE Done(r.bytes \o s.bytes)

-----------------------------------------------------------------------------
(* Writer, tlv.go 274-513 *)

writeControlByte(class, type) == Done(<<class + type>>)

\* writeTag.  Only a context tag that does not fit is refused.
writeTag(tag) ==
    CASE tag.Class = TagControlAnonymous -> Done(<<>>)
      [] tag.Class = TagControlContextSpecific ->
             IF tag.ID = ZeroExtend(Truncate(tag.ID, 1), 8)
             THEN Done(Truncate(tag.ID, 1)) ELSE Fail
      [] tag.Class \in {64, 128}  \* CommonProfile2, ImplicitProfile2
             -> Done(LittleEndian(Truncate(tag.ID, 2)))
      [] tag.Class \in {96, 160}  \* CommonProfile4, ImplicitProfile4
             -> Done(LittleEndian(Truncate(tag.ID, 4)))
      [] tag.Class = TagControlFullyQualified6 ->
             Done(LittleEndian(SubSeq(tag.Profile, 1, 2))
                    \o LittleEndian(Truncate(tag.Profile, 2))
                    \o LittleEndian(Truncate(tag.ID, 2)))
      [] tag.Class = TagControlFullyQualified8 ->
             Done(LittleEndian(SubSeq(tag.Profile, 1, 2))
                    \o LittleEndian(Truncate(tag.Profile, 2))
                    \o LittleEndian(Truncate(tag.ID, 4)))
      [] OTHER -> Fail

\* What every Put method does: control byte, tag, value bytes.
Put(tag, type, valBuf) ==
    Then(writeControlByte(tag.Class, type), Then(writeTag(tag), Done(valBuf)))

\* How many bytes a number takes, of 1, 2, 4 and 8: the exponent.
signedSize(value) == Min({k \in 0 .. 3 : value = SignExtend(Truncate(value, 2 ^ k), 8)})
unsignedSize(value) == Min({k \in 0 .. 3 : value = ZeroExtend(Truncate(value, 2 ^ k), 8)})

\* An integer of 2^sub bytes.
putInt(tag, base, sub, value) ==
    Put(tag, base + sub, LittleEndian(Truncate(value, 2 ^ sub)))

\* Mutant: the limits of the signed types are those of the unsigned ones.
UnsignedLimits(tag, value) == putInt(tag, TypeSignedInt, unsignedSize(value), value)

PutSignedInt(tag, value) == putInt(tag, TypeSignedInt, signedSize(value), value)
PutUnsignedInt(tag, value) == putInt(tag, TypeUnsignedInt, unsignedSize(value), value)

PutBoolean(tag, value) == Put(tag, TypeBoolean + (IF value THEN 1 ELSE 0), <<>>)

\* writeStringOrBytes, for the lengths below 2^31 a slice can have here.
lengthSize(length) == IF length <= 255 THEN 0 ELSE IF length <= 65535 THEN 1 ELSE 2

writeStringOrBytes(tag, baseType, data) ==
    LET sub == lengthSize(Len(data))
    IN  Put(tag, baseType + sub, LittleEndian(Truncate(Digits(Len(data)), 2 ^ sub)) \o data)

PutString(tag, value) == writeStringOrBytes(tag, TypeUTF8String, value)
PutBytes(tag, value) == writeStringOrBytes(tag, TypeByteString, value)

StartContainer(tag, type) == Put(tag, type, <<>>)
EndContainer == writeControlByte(TagControlAnonymous, TypeEndOfContainer)

-----------------------------------------------------------------------------
(* Reader, tlv.go 56-272 *)

\* io.ReadFull of n bytes: what was read and the Reader after it.
ReadFull(r, n) ==
    IF Len(r) < n THEN Fail
    ELSE [err |-> FALSE, buf |-> SubSeq(r, 1, n), rest |-> SubSeq(r, n + 1, Len(r))]

\* Mutant: the profile tags of four bytes are read as those of two.
ShortProfileTags(control) == <<0, 1, 2, 2, 2, 2, 8, 8>>[control \div 32 + 1]

\* The bytes readTag reads, for the eight tag controls in their order.
tagLength(control) == <<0, 1, 2, 4, 2, 4, 8, 8>>[control \div 32 + 1]

\* readTag.  Both fully qualified forms are read as Profile and ID of 4 bytes.
readTag(control, r) ==
    LET in == ReadFull(r, tagLength(control))
        q  == IF control >= TagControlFullyQualified6 THEN 4 ELSE 0
    IN  IF in.err THEN Fail
        ELSE [err  |-> FALSE,
              tag  |-> [Class   |-> control,
                        ID      |-> ZeroExtend(LittleEndian(
                                        Slice(in.buf, q, Len(in.buf))), 8),
                        Profile |-> ZeroExtend(LittleEndian(Slice(in.buf, 0, q)), 4)],
              rest |-> in.rest]

\* readStringOrBytes.  A length above math.MaxInt32 is refused.
readStringOrBytes(lenLenBits, r) ==
    LET in == ReadFull(r, 2 ^ lenLenBits)
    IN  IF in.err THEN Fail
        ELSE LET length == ZeroExtend(LittleEndian(in.buf), 8)
             IN  IF length # ZeroExtend(Truncate(length, 4), 8) \/ length[5] >= 128
                 THEN Fail ELSE ReadFull(in.rest, Number(Truncate(length, 4)))

\* readValue.
readValue(type, r) ==
    CASE type < TypeBoolean -> ReadFull(r, 2 ^ (type % 4))
      [] type \in {TypeBoolean, TypeBoolean + 1} ->
             [err |-> FALSE, buf |-> <<type - TypeBoolean>>, rest |-> r]
      [] type \in TypeUTF8String .. TypeNull - 1 -> readStringOrBytes(type % 4, r)
      [] type = TypeNull \/ IsContainer(type) ->
             [err |-> FALSE, buf |-> <<>>, rest |-> r]
      [] OTHER -> Fail

\* ReadElement.
ReadElement(r) ==
    IF r = <<>> THEN Fail
    ELSE LET type == r[1] % 32
             tag  == readTag(r[1] - type, Tail(r))
             val  == IF tag.err THEN Fail
                     ELSE IF type = TypeEndOfContainer
                     THEN [err |-> FALSE, buf |-> <<>>, rest |-> tag.rest]
                     ELSE readValue(type, tag.rest)
         IN  IF val.err THEN Fail
             ELSE [err  |-> FALSE,
                   elem |-> [Tag |-> tag.tag, Type |-> type, Value |-> val.buf,
                             SubElements |-> <<>>],
                   rest |-> val.rest]

-----------------------------------------------------------------------------
(* Scalars, decoder.go *)

Set(v) == [err |-> FALSE, value |-> v]

\* parseSignedInt and parseUnsignedInt.  The Reader yields 1, 2, 4 or 8 bytes.
parseSignedInt(b) == SignExtend(LittleEndian(b), 8)
parseUnsignedInt(b) == ZeroExtend(LittleEndian(b), 8)

decodeBool(tlv) ==
    IF tlv.Type \notin {TypeBoolean, TypeBoolean + 1} THEN Fail
    ELSE Set(tlv.Value # <<>> /\ tlv.Value[1] = 1)

decodeString(tlv) ==
    IF tlv.Type \div 4 # TypeUTF8String \div 4 THEN Fail ELSE Set(tlv.Value)

decodeBytes(tlv) ==
    IF tlv.Type \div 4 # TypeByteString \div 4 THEN Fail ELSE Set(tlv.Value)

\* decodeInt, decodeUint: OverflowInt and OverflowUint for a type of size bytes.
decodeInt(tlv, size) ==
    IF tlv.Type \div 4 # TypeSignedInt \div 4 THEN Fail
    ELSE LET val == parseSignedInt(tlv.Value)
         IN  IF val # SignExtend(Truncate(val, size), 8) THEN Fail ELSE Set(val)

\* Mutant: SetUint without the overflow test keeps the low bytes.
NoOverflowTest(tlv, size) ==
    IF tlv.Type \div 4 # TypeUnsignedInt \div 4 THEN Fail
    ELSE Set(ZeroExtend(Truncate(parseUnsignedInt(tlv.Value), size), 8))

decodeUint(tlv, size) ==
    IF tlv.Type \div 4 # TypeUnsignedInt \div 4 THEN Fail
    ELSE LET val == parseUnsignedInt(tlv.Value)
         IN  IF val # ZeroExtend(Truncate(val, size), 8) THEN Fail ELSE Set(val)

\* The cases of Decode for these types.
decodeScalar(tlv, T) ==
    CASE T.kind = "bool" -> decodeBool(tlv)
      [] T.kind = "string" -> decodeString(tlv)
      [] T.kind = "bytes" -> decodeBytes(tlv)
      [] T.kind = "int" -> decodeInt(tlv, T.size)
      [] T.kind = "uint" -> decodeUint(tlv, T.size)
=============================================================================
