-------------------------- MODULE TlvStreamProofs ---------------------------
(***************************************************************************)
(* The TLV stream, for all values, nestings and lengths: single elements   *)
(* first (what the Writer writes, ReadElement reads, whatever comes after  *)
(* it, and fails on every beginning of it; decoding gives the value back), *)
(* then the stream of them, by the invariant StreamInv.                    *)
(***************************************************************************)
EXTENDS TlvStream, DataProofs

-----------------------------------------------------------------------------
(* TLV elements *)

\* io.ReadFull takes the bytes x in front of rest, and fails on fewer bytes.
LEMMA ReadFullTakes ==
    ASSUME NEW x \in Seq(Byte), NEW rest \in Seq(Byte)
    PROVE  ReadFull(x \o rest, Len(x)) = [err |-> FALSE, buf |-> x, rest |-> rest]
<1> DEFINE r == x \o rest
<1>1. r \in Seq(Byte) /\ Len(r) = Len(x) + Len(rest) /\ Len(x) \in Nat /\ Len(rest) \in Nat
  BY ConcatProperties, LenProperties, Zenon
<1>2. Slice(r, 0, Len(x)) = x
  <2>1. Slice(r, 0, Len(x)) = Slice(x, 0, Len(x))
    BY <1>1, SliceOfPrefix
  <2> QED
    BY <2>1, SliceAll, Zenon
<1>3. Slice(r, Len(x), Len(r)) = rest
  BY <1>1, SliceOfSuffix, Zenon
<1>4. SubSeq(r, 1, Len(x)) = x /\ SubSeq(r, Len(x) + 1, Len(r)) = rest /\ ~(Len(r) < Len(x))
  BY <1>1, <1>2, <1>3 DEF Slice
<1> HIDE DEF r
<1>5. ReadFull(r, Len(x)) = [err |-> FALSE, buf |-> x, rest |-> rest]
  BY <1>4, Zenon DEF ReadFull
<1> QED
  BY <1>5, Zenon DEF r

\* io.ReadFull fails when there are too few bytes.
LEMMA ReadFullShort ==
    ASSUME NEW r, NEW size, Len(r) < size
    PROVE  ReadFull(r, size) = Fail
BY Zenon DEF ReadFull

\* The bytes vb are the value of an element of this type, and nothing less is.
ValueEncodes(type, vb, value) ==
    /\ vb \in Seq(Byte)
    /\ \A rest \in Seq(Byte) :
          readValue(type, vb \o rest) = [err |-> FALSE, buf |-> value, rest |-> rest]
    /\ \A k \in 0 .. Len(vb) - 1 : readValue(type, Slice(vb, 0, k)) = Fail

\* The bytes are an element, and nothing less is.
Encodes(bytes, elem) ==
    /\ bytes \in Seq(Byte) /\ Len(bytes) >= 1
    /\ \A rest \in Seq(Byte) :
          ReadElement(bytes \o rest) = [err |-> FALSE, elem |-> elem, rest |-> rest]
    /\ \A k \in 0 .. Len(bytes) - 1 : ReadElement(Slice(bytes, 0, k)) = Fail

\* The sizes of a number: a power of two.
LEMMA Powers ==
    ASSUME NEW k \in 0 .. 3
    PROVE  2 ^ k \in {1, 2, 4, 8} /\ 2 ^ k \in 1 .. 8 /\ 2 ^ k \in Nat
<1>1. 2 ^ 0 = 1 /\ 2 ^ 1 = 2 /\ 2 ^ 2 = 4 /\ 2 ^ 3 = 8
  BY SMT
<1>2. k = 0 \/ k = 1 \/ k = 2 \/ k = 3
  BY SMT
<1>3. 2 ^ k \in {1, 2, 4, 8}
  BY <1>1, <1>2, Zenon
<1> QED
  BY <1>3, SMT

\* The cases of readValue.
LEMMA ValueCases ==
    ASSUME NEW type, NEW r
    PROVE  /\ type \in 0 .. 7 => readValue(type, r) = ReadFull(r, 2 ^ (type % 4))
           /\ type \in {8, 9} =>
                  readValue(type, r) = [err |-> FALSE, buf |-> <<type - 8>>, rest |-> r]
           /\ type \in 12 .. 19 => readValue(type, r) = readStringOrBytes(type % 4, r)
           /\ type \in 20 .. 23 =>
                  readValue(type, r) = [err |-> FALSE, buf |-> <<>>, rest |-> r]
<1> DEFINE number == ReadFull(r, 2 ^ (type % 4))
           text == readStringOrBytes(type % 4, r)
           bool == [err |-> FALSE, buf |-> <<type - TypeBoolean>>, rest |-> r]
           none == [err |-> FALSE, buf |-> <<>>, rest |-> r]
<1>1. readValue(type, r) =
          CASE type < 8 -> number
            [] type \in {8, 8 + 1} -> bool
            [] type \in 12 .. 20 - 1 -> text
            [] type = 20 \/ type \in {21, 22, 23} -> none
            [] OTHER -> Fail
  BY Zenon DEF readValue, TypeBoolean, TypeUTF8String, TypeNull, IsContainer, TypeStructure,
     TypeArray, TypeList
<1>2. bool = [err |-> FALSE, buf |-> <<type - 8>>, rest |-> r]
  BY Zenon DEF TypeBoolean
<1> HIDE DEF number, text, bool, none
<1>3. /\ type \in 0 .. 7 => readValue(type, r) = number
      /\ type \in {8, 9} => readValue(type, r) = bool
      /\ type \in 12 .. 19 => readValue(type, r) = text
      /\ type \in 20 .. 23 => readValue(type, r) = none
  BY <1>1, SMT
<1> QED
  BY <1>2, <1>3, Zenon DEF number, text, bool, none

\* readValue of a number.
LEMMA NumberValue ==
    ASSUME NEW base \in {TypeSignedInt, TypeUnsignedInt}, NEW k \in 0 .. 3,
           NEW vb \in Uint(2 ^ k)
    PROVE  ValueEncodes(base + k, vb, vb)
<1>1. 2 ^ k \in Nat
  BY Powers, Zenon
<1>2. vb \in Seq(Byte) /\ Len(vb) = 2 ^ k
  BY <1>1, UintIsSeq, Zenon
<1>3. \A r : readValue(base + k, r) = ReadFull(r, Len(vb))
  <2>1. base + k \in 0 .. 7 /\ (base + k) % 4 = k
    BY SMT DEF TypeSignedInt, TypeUnsignedInt
  <2>2. \A r : readValue(base + k, r) = ReadFull(r, 2 ^ ((base + k) % 4))
    BY <2>1, ValueCases, Zenon
  <2> QED
    BY <1>2, <2>1, <2>2, Zenon
<1>4. \A i \in 0 .. Len(vb) - 1 : Len(Slice(vb, 0, i)) < Len(vb)
  <2> SUFFICES ASSUME NEW i \in 0 .. Len(vb) - 1 PROVE Len(Slice(vb, 0, i)) < Len(vb)
    BY Zenon
  <2>1. i \in Nat /\ 0 + i = i /\ i <= Len(vb) /\ i < Len(vb)
    BY <1>1, <1>2
  <2> QED
    BY <1>2, <2>1, SliceProperties, ZenonT(60)
<1> QED
  BY <1>2, <1>3, <1>4, ReadFullTakes, ReadFullShort, Zenon DEF ValueEncodes

\* readValue of what takes no bytes.
LEMMA NoValue ==
    ASSUME NEW type, NEW value,
           \A r : readValue(type, r) = [err |-> FALSE, buf |-> value, rest |-> r]
    PROVE  ValueEncodes(type, <<>>, value)
<1>1. <<>> \in Seq(Byte) /\ \A k \in 0 .. Len(<<>>) - 1 : FALSE
  BY SMT
<1>2. \A rest \in Seq(Byte) : <<>> \o rest = rest
  BY ConcatEmptySeq, Zenon
<1> QED
  BY <1>1, <1>2, Zenon DEF ValueEncodes

\* At most one byte is its own reverse.
LEMMA LittleEndianShort ==
    ASSUME NEW x, x \in Uint(0) \/ x \in Uint(1)
    PROVE  LittleEndian(x) = x
<1> DEFINE y == LittleEndian(x)
<1>1. x \in Seq(Byte) /\ Len(x) \in {0, 1}
  <2>1. 0 \in Nat /\ 1 \in Nat
    BY Zenon
  <2> QED
    BY <2>1, UintIsSeq, Zenon
<1>2. y \in Seq(Byte) /\ Len(y) = Len(x) /\ \A i \in 1 .. Len(x) : y[i] = x[i]
  BY <1>1 DEF LittleEndian
<1> HIDE DEF y
<1>3. x = y
  BY <1>1, <1>2, SeqEqual, Zenon
<1> QED
  BY <1>3, Zenon DEF y

\* What the Writer writes for a tag.
LEMMA TagWritten ==
    ASSUME NEW tag, Plain(tag), ~writeTag(tag).err
    PROVE  LET size == tagLength(tag.Class)
           IN  /\ size \in {0, 1, 2, 4} /\ tag.Class \in {0, 32, 64, 96, 128, 160}
               /\ tag.ID = ZeroExtend(Truncate(tag.ID, size), 8)
               /\ Truncate(tag.ID, size) \in Uint(size)
               /\ writeTag(tag) = Done(LittleEndian(Truncate(tag.ID, size)))
<1> DEFINE size == tagLength(tag.Class)
           id == tag.ID
<1>1. tag \in Tag /\ tag.Class \in {0, 32, 64, 96, 128, 160} /\ id \in Uint(8)
  BY Zenon DEF Plain, Tag
<1>2. /\ tagLength(0) = 0 /\ tagLength(32) = 1 /\ tagLength(64) = 2
      /\ tagLength(96) = 4 /\ tagLength(128) = 2 /\ tagLength(160) = 4
      /\ idSize(0) = 0 /\ idSize(64) = 2 /\ idSize(96) = 4
      /\ idSize(128) = 2 /\ idSize(160) = 4
  BY SMT DEF tagLength, idSize
<1>3. size \in {0, 1, 2, 4}
  BY <1>1, <1>2, ZenonT(60)
<1>4. Truncate(id, size) \in Uint(size)
  <2>1. 8 \in Nat /\ size \in 0 .. 8
    BY <1>3
  <2> QED
    BY <1>1, <2>1, TruncateType
<1>5. CASE tag.Class = 0
  <2>1. size = 0 /\ id = ZeroExtend(Truncate(id, 0), 8) /\ writeTag(tag) = Done(<<>>)
    BY <1>2, <1>5, SMT DEF Plain, TagControlContextSpecific, TagControlAnonymous, writeTag,
       TagControlFullyQualified6, TagControlFullyQualified8
  <2>2. Truncate(id, 0) = <<>>
    BY <1>4, <2>1, SMT DEF Uint
  <2> QED
    BY <1>1, <1>3, <1>4, <2>1, <2>2, LittleEndianShort
<1>6. CASE tag.Class = 32
  <2>1. /\ size = 1 /\ id = ZeroExtend(Truncate(id, 1), 8)
        /\ writeTag(tag) = Done(Truncate(id, 1))
    BY <1>2, <1>6, SMT DEF Plain, TagControlContextSpecific, TagControlAnonymous, writeTag,
       TagControlFullyQualified6, TagControlFullyQualified8, Fail
  <2> QED
    BY <1>1, <1>3, <1>4, <2>1, LittleEndianShort
<1>7. CASE tag.Class \in {64, 128}
  <2>1. /\ size = 2 /\ id = ZeroExtend(Truncate(id, 2), 8)
        /\ writeTag(tag) = Done(LittleEndian(Truncate(id, 2)))
    BY <1>2, <1>7, SMT DEF Plain, TagControlContextSpecific, TagControlAnonymous, writeTag,
       TagControlFullyQualified6, TagControlFullyQualified8
  <2> QED
    BY <1>1, <1>3, <1>4, <2>1, Zenon
<1>8. CASE tag.Class \in {96, 160}
  <2>1. /\ size = 4 /\ id = ZeroExtend(Truncate(id, 4), 8)
        /\ writeTag(tag) = Done(LittleEndian(Truncate(id, 4)))
    BY <1>2, <1>8, SMT DEF Plain, TagControlContextSpecific, TagControlAnonymous, writeTag,
       TagControlFullyQualified6, TagControlFullyQualified8
  <2> QED
    BY <1>1, <1>3, <1>4, <2>1, Zenon
<1> QED
  BY <1>1, <1>5, <1>6, <1>7, <1>8, Zenon

\* readTag gets the tag back, and fails on fewer bytes.
LEMMA TagRead ==
    ASSUME NEW tag, Plain(tag), ~writeTag(tag).err
    PROVE  LET tb == writeTag(tag).bytes
           IN  /\ tb \in Seq(Byte) /\ writeTag(tag) = Done(tb)
               /\ \A rest \in Seq(Byte) :
                     readTag(tag.Class, tb \o rest) = [err |-> FALSE, tag |-> tag, rest |-> rest]
               /\ \A r : Len(r) < Len(tb) => readTag(tag.Class, r) = Fail
<1> DEFINE size == tagLength(tag.Class)
           id == Truncate(tag.ID, size)
           tb == LittleEndian(id)
<1>1. /\ size \in {0, 1, 2, 4} /\ tag.Class \in {0, 32, 64, 96, 128, 160}
      /\ tag.ID = ZeroExtend(id, 8) /\ id \in Uint(size) /\ writeTag(tag) = Done(tb)
  BY TagWritten, ZenonT(60)
<1>2. size \in Nat
  BY <1>1
<1>3. tb \in Seq(Byte) /\ Len(tb) = size /\ LittleEndian(tb) = id
  <2>1. id \in Uint(size)
    BY <1>1, Zenon
  <2> HIDE DEF id, size
  <2>2. tb \in Uint(size) /\ LittleEndian(tb) = id
    BY <1>2, <2>1, LittleEndianTwice, Zenon
  <2> HIDE DEF tb
  <2> QED
    BY <1>2, <2>2, UintIsSeq, Zenon
<1>4. writeTag(tag).bytes = tb
  BY <1>1 DEF Done
<1>5. tag = [Class |-> tag.Class, ID |-> tag.ID, Profile |-> Zero(4)]
  BY Zenon DEF Plain, Tag
<1>6. Slice(tb, 0, Len(tb)) = tb /\ Slice(tb, 0, 0) = <<>>
  BY <1>3, SliceAll, SubSeqEmpty DEF Slice
<1>7. ZeroExtend(LittleEndian(<<>>), 4) = Zero(4)
  <2>1. <<>> \in Uint(0)
    BY DEF Uint
  <2>2. LittleEndian(<<>>) = <<>>
    BY <2>1, LittleEndianShort, Zenon
  <2>3. Zero(4) \in Seq(Byte) /\ 4 - Len(<<>>) = 4
    BY DEF Zero, Fill, Byte
  <2> QED
    BY <2>2, <2>3, ConcatEmptySeq, Zenon DEF ZeroExtend
<1>8. ~(tag.Class >= TagControlFullyQualified6)
  BY <1>1, SMT DEF TagControlFullyQualified6
<1> HIDE DEF size, id, tb
<1>9. ASSUME NEW rest \in Seq(Byte)
      PROVE  readTag(tag.Class, tb \o rest) = [err |-> FALSE, tag |-> tag, rest |-> rest]
  <2> DEFINE in == [err |-> FALSE, buf |-> tb, rest |-> rest]
  <2>1. ReadFull(tb \o rest, tagLength(tag.Class)) = in
    BY <1>3, ReadFullTakes, Zenon DEF size
  <2>2. in.err = FALSE /\ in.buf = tb /\ in.rest = rest
    BY Zenon
  <2> HIDE DEF in
  <2>3. readTag(tag.Class, tb \o rest)
            = [err  |-> FALSE,
               tag  |-> [Class   |-> tag.Class,
                         ID      |-> ZeroExtend(LittleEndian(Slice(tb, 0, Len(tb))), 8),
                         Profile |-> ZeroExtend(LittleEndian(Slice(tb, 0, 0)), 4)],
               rest |-> rest]
    BY <1>8, <2>1, <2>2, Zenon DEF readTag
  <2>4. ZeroExtend(LittleEndian(Slice(tb, 0, Len(tb))), 8) = tag.ID
    BY <1>1, <1>3, <1>6, Zenon
  <2>5. ZeroExtend(LittleEndian(Slice(tb, 0, 0)), 4) = Zero(4)
    BY <1>6, <1>7, Zenon
  <2> QED
    BY <1>5, <2>3, <2>4, <2>5, Zenon
<1>10. ASSUME NEW r, Len(r) < Len(tb) PROVE readTag(tag.Class, r) = Fail
  <2>1. ReadFull(r, tagLength(tag.Class)) = Fail
    BY <1>3, <1>10, ReadFullShort, Zenon DEF size
  <2>2. Fail.err = TRUE
    BY Zenon DEF Fail
  <2> QED
    BY <2>1, <2>2, Zenon DEF readTag
<1> QED
  BY <1>1, <1>3, <1>4, <1>9, <1>10, Zenon

\* The digits of an integer that was made wider.
LEMMA ExtendDigits ==
    ASSUME NEW k \in Nat, NEW m \in Nat, k <= m, NEW x \in Uint(k)
    PROVE  LET y == ZeroExtend(x, m)
           IN  /\ y \in Seq(Byte) /\ Len(y) = m
               /\ \A i \in 1 .. m - k : y[i] = 0
               /\ \A i \in m - k + 1 .. m : y[i] = x[i - (m - k)]
<1> DEFINE z == Zero(m - k)
           y == z \o x
<1>1. x \in Seq(Byte) /\ Len(x) = k
  BY UintIsSeq, Zenon
<1>2. z \in Seq(Byte) /\ Len(z) = m - k /\ \A i \in 1 .. m - k : z[i] = 0
  BY DEF Zero, Fill, Byte
<1>3. ZeroExtend(x, m) = y
  BY <1>1, Zenon DEF ZeroExtend
<1> HIDE DEF z
<1>4. /\ y \in Seq(Byte) /\ Len(y) = Len(z) + Len(x)
      /\ \A i \in 1 .. Len(z) + Len(x) : y[i] = IF i <= Len(z) THEN z[i] ELSE x[i - Len(z)]
  BY <1>1, <1>2, ConcatProperties, Zenon
<1> HIDE DEF y
<1> QED
  BY <1>1, <1>2, <1>3, <1>4, SMTT(60)

\* Widening in two steps.
LEMMA ExtendTwice ==
    ASSUME NEW k \in Nat, NEW m \in Nat, NEW w \in Nat, k <= m, m <= w, NEW x \in Uint(k)
    PROVE  ZeroExtend(ZeroExtend(x, m), w) = ZeroExtend(x, w)
<1> DEFINE y == ZeroExtend(x, m)
           a == ZeroExtend(y, w)
           b == ZeroExtend(x, w)
<1>1. /\ y \in Seq(Byte) /\ Len(y) = m
      /\ \A i \in 1 .. m - k : y[i] = 0
      /\ \A i \in m - k + 1 .. m : y[i] = x[i - (m - k)]
  BY ExtendDigits, Zenon
<1>2. k <= w
  OBVIOUS
<1>3. /\ b \in Seq(Byte) /\ Len(b) = w
      /\ \A i \in 1 .. w - k : b[i] = 0
      /\ \A i \in w - k + 1 .. w : b[i] = x[i - (w - k)]
  BY <1>2, ExtendDigits, Zenon
<1> HIDE DEF y
<1>4. y \in Uint(m)
  BY <1>1, UintIsSeq, Zenon
<1>5. /\ a \in Seq(Byte) /\ Len(a) = w
      /\ \A i \in 1 .. w - m : a[i] = 0
      /\ \A i \in w - m + 1 .. w : a[i] = y[i - (w - m)]
  BY <1>4, ExtendDigits, Zenon
<1> HIDE DEF a, b
<1>6. ASSUME NEW i \in 1 .. w PROVE a[i] = b[i]
  <2>1. CASE i \in 1 .. w - m
    BY <1>3, <1>5, <2>1
  <2>2. CASE i \in w - m + 1 .. w - k
    <3>1. a[i] = y[i - (w - m)] /\ i - (w - m) \in 1 .. m - k /\ i \in 1 .. w - k
      BY <1>5, <2>2
    <3> QED
      BY <1>1, <1>3, <3>1, Zenon
  <2>3. CASE i \in w - k + 1 .. w
    <3>1. /\ a[i] = y[i - (w - m)] /\ i - (w - m) \in m - k + 1 .. m
          /\ i - (w - m) - (m - k) = i - (w - k)
      BY <1>5, <2>3
    <3> QED
      BY <1>1, <1>3, <2>3, <3>1, Zenon
  <2>4. i \in 1 .. w - m \/ i \in w - m + 1 .. w - k \/ i \in w - k + 1 .. w
    OBVIOUS
  <2> QED
    BY <2>1, <2>2, <2>3, <2>4, Zenon
<1>7. a = b
  BY <1>3, <1>5, <1>6, SeqEqual, Zenon
<1> QED
  BY <1>7, Zenon DEF a, b, y

\* A number in base 256: what is left and the last digit.
LEMMA LastDigit ==
    ASSUME NEW x \in Nat, NEW y \in Int, NEW z \in Int, y = x \div 256, z = x % 256
    PROVE  y \in Nat /\ z \in Nat /\ z <= 255 /\ x = 256 * y + z
  BY SMT

\* The four digits of a length.
LEMMA DigitsNumber ==
    ASSUME NEW x \in Nat, x <= MaxInt32
    PROVE  LET d == Digits(x)
           IN  /\ d \in Uint(4) /\ d[1] < 128 /\ Number(d) = x
               /\ x <= 255 => d[1] = 0 /\ d[2] = 0 /\ d[3] = 0
               /\ x <= 65535 => d[1] = 0 /\ d[2] = 0
<1> DEFINE a == x \div 256
           b == a \div 256
           c == b \div 256
           p == x % 256
           q == a % 256
           r == b % 256
<1>1. x <= 2147483647
  BY SMT DEF MaxInt32
<1>2. Digits(x) = <<c, r, q, p>>
  BY Zenon DEF Digits
<1> HIDE DEF a, b, c, p, q, r
<1>3. a \in Nat /\ p \in Nat /\ p <= 255 /\ x = 256 * a + p
  <2>1. a = x \div 256 /\ p = x % 256 /\ a \in Int /\ p \in Int
    BY SMT DEF a, p
  <2> QED
    BY <2>1, LastDigit, SMT
<1>4. b \in Nat /\ q \in Nat /\ q <= 255 /\ a = 256 * b + q
  <2>1. b = a \div 256 /\ q = a % 256 /\ b \in Int /\ q \in Int
    BY <1>3, SMT DEF b, q
  <2> QED
    BY <1>3, <2>1, LastDigit, SMT
<1>5. c \in Nat /\ r \in Nat /\ r <= 255 /\ b = 256 * c + r
  <2>1. c = b \div 256 /\ r = b % 256 /\ c \in Int /\ r \in Int
    BY <1>4, SMT DEF c, r
  <2> QED
    BY <1>4, <2>1, LastDigit, SMT
<1>6. c <= 127
  BY <1>1, <1>3, <1>4, <1>5, SMT
<1>7. <<c, r, q, p>> \in Uint(4)
  BY <1>3, <1>4, <1>5, <1>6, SMT DEF Uint, Byte
<1>8. Number(<<c, r, q, p>>) = ((c * 256 + r) * 256 + q) * 256 + p
  BY Zenon DEF Number
<1>9. ((c * 256 + r) * 256 + q) * 256 + p = x
  BY <1>3, <1>4, <1>5, SMT
<1>10. x <= 255 => q = 0 /\ r = 0 /\ c = 0
  BY <1>3, <1>4, <1>5, SMT
<1>11. x <= 65535 => r = 0 /\ c = 0
  BY <1>3, <1>4, <1>5, SMT
<1> QED
  BY <1>2, <1>5, <1>6, <1>7, <1>8, <1>9, <1>10, <1>11, SMT

\* The last digits of an integer.
LEMMA TruncateDigits ==
    ASSUME NEW m \in Nat, NEW size \in 0 .. m, NEW x \in Uint(m)
    PROVE  \A i \in 1 .. size : Truncate(x, size)[i] = x[m - size + i]
<1> DEFINE from == m - size
<1>1. x \in Seq(Byte) /\ Len(x) = m
  BY UintIsSeq
<1>2. from \in Nat /\ from + size = m /\ size \in Nat /\ from + size <= Len(x)
  BY <1>1
<1> HIDE DEF from
<1>3. Truncate(x, size) = Slice(x, from, from + size)
  BY <1>1, <1>2 DEF Truncate, Slice
<1>4. \A i \in 1 .. size : Slice(x, from, from + size)[i] = x[from + i]
  BY <1>1, <1>2, SliceProperties, Zenon
<1> QED
  BY <1>3, <1>4 DEF from

\* The bytes of a length are enough for it.
LEMMA LengthDigits ==
    ASSUME NEW x \in Nat, x <= MaxInt32
    PROVE  LET sub == lengthSize(x)
               low == Truncate(Digits(x), 2 ^ sub)
           IN  sub \in 0 .. 2 /\ low \in Uint(2 ^ sub) /\ ZeroExtend(low, 4) = Digits(x)
<1> DEFINE sub == lengthSize(x)
           size == 2 ^ sub
           d == Digits(x)
           low == Truncate(d, size)
           wide == ZeroExtend(low, 4)
<1>1. /\ d \in Uint(4)
      /\ x <= 255 => d[1] = 0 /\ d[2] = 0 /\ d[3] = 0
      /\ x <= 65535 => d[1] = 0 /\ d[2] = 0
  BY DigitsNumber
<1>2. \/ sub = 0 /\ d[1] = 0 /\ d[2] = 0 /\ d[3] = 0
      \/ sub = 1 /\ d[1] = 0 /\ d[2] = 0
      \/ sub = 2
  BY <1>1, SMT DEF lengthSize
<1>3. 2 ^ 0 = 1 /\ 2 ^ 1 = 2 /\ 2 ^ 2 = 4
  BY SMT
<1> HIDE DEF sub
<1>4. \/ size = 1 /\ d[1] = 0 /\ d[2] = 0 /\ d[3] = 0
      \/ size = 2 /\ d[1] = 0 /\ d[2] = 0
      \/ size = 4
  BY <1>2, <1>3, Zenon
<1> HIDE DEF size, d
<1>5. size \in 0 .. 4 /\ 4 \in Nat /\ size \in Nat /\ size <= 4
  BY <1>4
<1>6. low \in Uint(size) /\ \A i \in 1 .. size : low[i] = d[4 - size + i]
  BY <1>1, <1>5, TruncateType, TruncateDigits
<1> HIDE DEF low
<1>7. /\ wide \in Seq(Byte) /\ Len(wide) = 4
      /\ \A i \in 1 .. 4 - size : wide[i] = 0
      /\ \A i \in 4 - size + 1 .. 4 : wide[i] = low[i - (4 - size)]
  BY <1>5, <1>6, ExtendDigits, ZenonT(60)
<1> HIDE DEF wide
<1>8. ASSUME NEW i \in 1 .. 4 PROVE wide[i] = d[i]
  <2>1. CASE i \in 1 .. 4 - size
    BY <1>4, <1>7, <2>1
  <2>2. CASE i \in 4 - size + 1 .. 4
    <3>1. i - (4 - size) \in 1 .. size /\ 4 - size + (i - (4 - size)) = i
      BY <1>5, <2>2
    <3> QED
      BY <1>6, <1>7, <2>2, <3>1, Zenon
  <2> QED
    BY <1>5, <2>1, <2>2
<1>9. d \in Seq(Byte) /\ Len(d) = 4
  <2>1. d \in Uint(4)
    BY <1>1, SMT
  <2> QED
    BY <1>5, <2>1, UintIsSeq, Zenon
<1>10. wide = d
  BY <1>7, <1>8, <1>9, SeqEqual
<1>11. sub \in 0 .. 2
  BY <1>2
<1> QED
  BY <1>6, <1>10, <1>11 DEF wide, low, size, d, sub

\* The first bytes.
LEMMA Prefix ==
    ASSUME NEW b \in Seq(Byte), NEW j \in Nat, j <= Len(b)
    PROVE  LET s == Slice(b, 0, j)
           IN  s \in Seq(Byte) /\ Len(s) = j /\ \A i \in 1 .. j : s[i] = b[i]
<1>1. 0 \in Nat /\ 0 + j = j /\ 0 + j <= Len(b) /\ \A i \in 1 .. j : 0 + i = i
  OBVIOUS
<1>2. /\ Slice(b, 0, 0 + j) \in Seq(Byte)
      /\ Len(Slice(b, 0, 0 + j)) = j
      /\ \A i \in 1 .. j : Slice(b, 0, 0 + j)[i] = b[0 + i]
  BY Zenon, <1>1, SliceProperties
<1> QED
  BY Zenon, <1>1, <1>2

\* What is left of two pieces.
LEMMA CutConcat ==
    ASSUME NEW a \in Seq(Byte), NEW b \in Seq(Byte), NEW k \in 0 .. Len(a \o b) - 1
    PROVE  LET c == Slice(a \o b, 0, k)
           IN  /\ c \in Seq(Byte) /\ Len(c) = k
               /\ k >= Len(a) => /\ k - Len(a) \in 0 .. Len(b) - 1
                                /\ c = a \o Slice(b, 0, k - Len(a))
<1> DEFINE ab == a \o b
           c == Slice(ab, 0, k)
<1>1. ab \in Seq(Byte) /\ Len(ab) = Len(a) + Len(b) /\ Len(a) \in Nat /\ Len(b) \in Nat
  BY ConcatProperties, LenProperties
<1>2. k \in Nat /\ k < Len(ab) /\ k <= Len(ab)
  BY <1>1
<1>3. /\ c \in Seq(Byte) /\ Len(c) = k
      /\ \A i \in 1 .. k : c[i] = ab[i]
  BY <1>1, <1>2, Prefix, Zenon
<1>4. ASSUME k >= Len(a)
      PROVE  k - Len(a) \in 0 .. Len(b) - 1 /\ c = a \o Slice(b, 0, k - Len(a))
  <2> DEFINE j == k - Len(a)
             s == Slice(b, 0, j)
             t == a \o s
  <2>1. j \in Nat /\ j \in 0 .. Len(b) - 1 /\ j <= Len(b) /\ k = Len(a) + j
    BY <1>1, <1>2, <1>4
  <2> HIDE DEF j
  <2>2. s \in Seq(Byte) /\ Len(s) = j /\ \A i \in 1 .. j : s[i] = b[i]
    BY <2>1, Prefix, Zenon
  <2> HIDE DEF s
  <2>3. /\ t \in Seq(Byte) /\ Len(t) = Len(a) + Len(s)
        /\ \A i \in 1 .. Len(a) + Len(s) : t[i] = IF i <= Len(a) THEN a[i] ELSE s[i - Len(a)]
    BY <2>2, ConcatProperties
  <2>4. \A i \in 1 .. Len(a) + Len(b) : ab[i] = IF i <= Len(a) THEN a[i] ELSE b[i - Len(a)]
    BY ConcatProperties
  <2> HIDE DEF t, ab, c
  <2>5. ASSUME NEW i \in 1 .. k PROVE c[i] = t[i]
    <3>1. i \in 1 .. Len(a) + Len(b) /\ i \in 1 .. Len(a) + Len(s)
      BY <1>1, <1>2, <2>1, <2>2
    <3>2. CASE i <= Len(a)
      BY <1>3, <2>3, <2>4, <3>1, <3>2, Zenon
    <3>3. CASE ~(i <= Len(a))
      <4>1. i - Len(a) \in 1 .. j
        BY <1>1, <2>1, <3>3
      <4>2. c[i] = b[i - Len(a)] /\ t[i] = s[i - Len(a)]
        BY <1>3, <2>3, <2>4, <3>1, <3>3, Zenon
      <4> QED
        BY <2>2, <4>1, <4>2
    <3> QED
      BY <3>2, <3>3
  <2>6. c = t
    BY <1>1, <1>3, <2>1, <2>2, <2>3, <2>5, SeqEqual, SMTT(60)
  <2> QED
    BY <2>1, <2>6 DEF t, s, j
<1> QED
  BY <1>3, <1>4 DEF ab, c

\* readValue of a text or a byte string.
LEMMA StringValue ==
    ASSUME NEW base \in {TypeUTF8String, TypeByteString}, NEW data \in Seq(Byte),
           Len(data) <= MaxInt32
    PROVE  LET sub == lengthSize(Len(data))
           IN  ValueEncodes(base + sub,
                   LittleEndian(Truncate(Digits(Len(data)), 2 ^ sub)) \o data, data)
<1> DEFINE sub == lengthSize(Len(data))
           size == 2 ^ sub
           d == Digits(Len(data))
           low == Truncate(d, size)
           lb == LittleEndian(low)
           vb == lb \o data
           length == ZeroExtend(low, 8)
<1>0. Len(data) \in Nat
  BY LenProperties
<1>1. sub \in 0 .. 2 /\ low \in Uint(size) /\ ZeroExtend(low, 4) = d
  BY <1>0, LengthDigits
<1>2. d \in Uint(4) /\ d[1] < 128 /\ Number(d) = Len(data)
  BY <1>0, DigitsNumber
<1> HIDE DEF sub, d
<1>3. size \in {1, 2, 4, 8} /\ size \in Nat /\ size <= 4 /\ sub \in 0 .. 3
  <2>1. 2 ^ 0 = 1 /\ 2 ^ 1 = 2 /\ 2 ^ 2 = 4
    BY SMT
  <2>2. sub = 0 \/ sub = 1 \/ sub = 2
    BY <1>1, SMT
  <2>3. size \in {1, 2, 4}
    BY <2>1, <2>2, Zenon
  <2> HIDE DEF size
  <2> QED
    BY <2>2, <2>3
<1>4. (base + sub) \in 12 .. 19 /\ (base + sub) % 4 = sub
  BY <1>1, SMT DEF TypeUTF8String, TypeByteString
<1>5. \A r : readValue(base + sub, r) = readStringOrBytes(sub, r)
  <2>1. \A r : readValue(base + sub, r) = readStringOrBytes((base + sub) % 4, r)
    BY <1>4, ValueCases, Zenon
  <2> QED
    BY <1>4, <2>1, Zenon
<1>6. \A r : readStringOrBytes(sub, r) =
                LET in == ReadFull(r, size)
                IN  IF in.err THEN Fail
                    ELSE LET ln == ZeroExtend(LittleEndian(in.buf), 8)
                         IN  IF ln # ZeroExtend(Truncate(ln, 4), 8) \/ ln[5] >= 128
                             THEN Fail ELSE ReadFull(in.rest, Number(Truncate(ln, 4)))
  BY Zenon DEF readStringOrBytes
<1> HIDE DEF size, low
<1>7. lb \in Uint(size) /\ LittleEndian(lb) = low
  BY <1>1, <1>3, LittleEndianTwice
<1>8. lb \in Seq(Byte) /\ Len(lb) = size
  BY <1>3, <1>7, UintIsSeq
<1> HIDE DEF lb
<1>9. vb \in Seq(Byte) /\ Len(vb) = size + Len(data)
  BY <1>8, ConcatProperties, SMTT(60)
<1>10. length = ZeroExtend(d, 8)
  <2>1. 4 \in Nat /\ 8 \in Nat /\ 4 <= 8
    BY SMT
  <2> QED
    BY <1>1, <1>3, <2>1, ExtendTwice, Zenon
<1>11. Truncate(length, 4) = d
  <2>1. 8 \in Nat /\ 4 \in 0 .. 8
    BY SMT
  <2>2. Truncate(ZeroExtend(d, 8), 4) = d
    BY <1>2, <2>1, ExtendTruncate, Zenon
  <2> HIDE DEF length
  <2> QED
    BY <1>10, <2>2, Zenon
<1>12. length[5] = d[1]
  <2>1. 4 \in Nat /\ 8 \in Nat /\ 4 <= 8 /\ 5 \in 8 - 4 + 1 .. 8 /\ 5 - (8 - 4) = 1
    BY SMT
  <2>2. ZeroExtend(d, 8)[5] = d[5 - (8 - 4)]
    BY <1>2, <2>1, ExtendDigits, ZenonT(60)
  <2> QED
    BY <1>10, <2>1, <2>2, Zenon
<1> HIDE DEF length
<1>13. ~(length # ZeroExtend(Truncate(length, 4), 8) \/ length[5] >= 128)
  <2>1. length = ZeroExtend(Truncate(length, 4), 8)
    BY <1>10, <1>11
  <2>2. ~(d[1] >= 128)
    <3>1. 1 \in 1 .. 4 /\ \A x \in Byte : x \in Int
      BY SMT DEF Byte
    <3>2. d[1] \in Int
      BY <1>2, <3>1, Zenon DEF Uint
    <3> QED
      BY <1>2, <3>2, SMT
  <2> QED
    BY <1>12, <2>1, <2>2, Zenon
<1>14. \A rest \in Seq(Byte) :
          readStringOrBytes(sub, lb \o rest) = ReadFull(rest, Len(data))
  <2> SUFFICES ASSUME NEW rest \in Seq(Byte)
               PROVE  readStringOrBytes(sub, lb \o rest) = ReadFull(rest, Len(data))
    OBVIOUS
  <2> DEFINE in == ReadFull(lb \o rest, size)
  <2>1. in = [err |-> FALSE, buf |-> lb, rest |-> rest]
    BY <1>8, ReadFullTakes, Zenon
  <2> HIDE DEF in
  <2>2. ~in.err /\ in.buf = lb /\ in.rest = rest
    BY <2>1, Zenon
  <2>3. ZeroExtend(LittleEndian(in.buf), 8) = length
    BY <1>7, <2>2, Zenon DEF length
  <2>4. Number(Truncate(length, 4)) = Len(data)
    BY <1>2, <1>11, Zenon
  <2>5. readStringOrBytes(sub, lb \o rest) =
            IF in.err THEN Fail
            ELSE IF ZeroExtend(LittleEndian(in.buf), 8)
                        # ZeroExtend(Truncate(ZeroExtend(LittleEndian(in.buf), 8), 4), 8)
                    \/ ZeroExtend(LittleEndian(in.buf), 8)[5] >= 128
                 THEN Fail
                 ELSE ReadFull(in.rest, Number(Truncate(ZeroExtend(LittleEndian(in.buf), 8), 4)))
    BY <1>6, Zenon DEF in
  <2>6. readStringOrBytes(sub, lb \o rest) =
            IF length # ZeroExtend(Truncate(length, 4), 8) \/ length[5] >= 128
            THEN Fail ELSE ReadFull(rest, Number(Truncate(length, 4)))
    BY <2>2, <2>3, <2>5, Zenon
  <2> QED
    BY <1>13, <2>4, <2>6, Zenon
<1>15. \A r : Len(r) < size => readStringOrBytes(sub, r) = Fail
  <2>1. \A r : Len(r) < size => ReadFull(r, size) = Fail
    BY ReadFullShort, Zenon
  <2>2. Fail.err
    BY Zenon DEF Fail
  <2> QED
    BY <1>6, <2>1, <2>2, Zenon
<1>16. ASSUME NEW rest \in Seq(Byte)
       PROVE  readValue(base + sub, vb \o rest) = [err |-> FALSE, buf |-> data, rest |-> rest]
  <2>1. vb \o rest = lb \o (data \o rest)
    BY <1>8, Associative, Zenon
  <2>2. data \o rest \in Seq(Byte)
    BY ConcatProperties
  <2>3. readValue(base + sub, vb \o rest) = ReadFull(data \o rest, Len(data))
    BY <1>5, <1>14, <2>1, <2>2, Zenon
  <2> QED
    BY <2>3, ReadFullTakes, Zenon
<1>17. ASSUME NEW k \in 0 .. Len(vb) - 1
       PROVE  readValue(base + sub, Slice(vb, 0, k)) = Fail
  <2> DEFINE c == Slice(vb, 0, k)
  <2>1. /\ c \in Seq(Byte) /\ Len(c) = k
        /\ k >= Len(lb) => /\ k - Len(lb) \in 0 .. Len(data) - 1
                          /\ c = lb \o Slice(data, 0, k - Len(lb))
    BY <1>8, CutConcat, ZenonT(60)
  <2> HIDE DEF c
  <2>2. CASE k < size
    BY <1>5, <1>15, <2>1, <2>2, Zenon DEF c
  <2>3. CASE k >= size
    <3> DEFINE j == k - size
               s == Slice(data, 0, j)
    <3>1. j \in 0 .. Len(data) - 1 /\ c = lb \o s
      BY <1>8, <2>1, <2>3
    <3>2. j \in Nat /\ j <= Len(data) /\ j < Len(data)
      BY <1>0, <3>1
    <3> HIDE DEF j
    <3>3. s \in Seq(Byte) /\ Len(s) = j
      BY <3>2, Prefix, Zenon
    <3> HIDE DEF s
    <3>4. ReadFull(s, Len(data)) = Fail
      BY <3>2, <3>3, ReadFullShort, Zenon
    <3> QED
      BY <1>5, <1>14, <3>1, <3>3, <3>4, Zenon DEF c
  <2> QED
    BY <1>3, <2>1, <2>2, <2>3
<1> QED
  BY <1>9, <1>16, <1>17, Zenon DEF ValueEncodes, vb, lb, low, size, d, sub

\* A byte in front.
LEMMA InFront ==
    ASSUME NEW c \in Byte, NEW b \in Seq(Byte)
    PROVE  LET r == <<c>> \o b
           IN  r \in Seq(Byte) /\ Len(r) = Len(b) + 1 /\ r # <<>> /\ r[1] = c /\ Tail(r) = b
<1> DEFINE r == <<c>> \o b
<1>1. <<c>> \in Seq(Byte) /\ Len(<<c>>) = 1 /\ Len(b) \in Nat
  BY LenProperties
<1>2. /\ r \in Seq(Byte) /\ Len(r) = 1 + Len(b)
      /\ \A i \in 1 .. 1 + Len(b) : r[i] = IF i <= 1 THEN <<c>>[i] ELSE b[i - 1]
  BY <1>1, ConcatProperties
<1> HIDE DEF r
<1>3. r # <<>> /\ r[1] = c
  BY <1>1, <1>2
<1>4. Tail(r) \in Seq(Byte) /\ Len(Tail(r)) = Len(b) /\ \A i \in 1 .. Len(b) : Tail(r)[i] = b[i]
  <2>1. Tail(r) \in Seq(Byte) /\ Len(Tail(r)) = Len(b)
    BY <1>1, <1>2, <1>3, HeadTailProperties
  <2>2. \A i \in 1 .. Len(b) : Tail(r)[i] = r[i + 1]
    BY <1>2, <1>3, <2>1, HeadTailProperties
  <2> QED
    BY <1>1, <1>2, <2>1, <2>2
<1>5. Tail(r) = b
  BY <1>4, SeqEqual
<1> QED
  BY <1>2, <1>3, <1>5 DEF r

\* The cases of ReadElement.
LEMMA ReadCases ==
    ASSUME NEW c \in Byte, NEW b \in Seq(Byte), NEW class, NEW type, c % 32 = type, c - type = class
    PROVE  LET tag == readTag(class, b)
               val == readValue(type, tag.rest)
               in  == ReadElement(<<c>> \o b)
           IN  /\ tag.err => in = Fail
               /\ ~tag.err /\ type # 24 /\ val.err => in = Fail
               /\ ~tag.err /\ type # 24 /\ ~val.err =>
                      in = [err |-> FALSE, elem |-> Leaf(tag.tag, type, val.buf),
                            rest |-> val.rest]
               /\ ~tag.err /\ type = 24 =>
                      in = [err |-> FALSE, elem |-> Leaf(tag.tag, type, <<>>),
                            rest |-> tag.rest]
<1> DEFINE r == <<c>> \o b
           tag == readTag(class, b)
           val == readValue(type, tag.rest)
           none == [err |-> FALSE, buf |-> <<>>, rest |-> tag.rest]
           got == IF tag.err THEN Fail ELSE IF type = 24 THEN none ELSE val
<1>1. r # <<>> /\ r[1] = c /\ Tail(r) = b
  BY InFront
<1> HIDE DEF r
<1>2. ReadElement(r) = IF got.err THEN Fail
                       ELSE [err  |-> FALSE,
                             elem |-> [Tag |-> tag.tag, Type |-> type, Value |-> got.buf,
                                       SubElements |-> <<>>],
                             rest |-> got.rest]
  BY <1>1, Zenon DEF ReadElement, TypeEndOfContainer
<1> HIDE DEF tag, val, none
<1>3. /\ tag.err => got = Fail
      /\ ~tag.err /\ type = 24 => got = none
      /\ ~tag.err /\ type # 24 => got = val
  BY Zenon
<1> HIDE DEF got
<1>4. Fail.err /\ ~none.err /\ none.buf = <<>> /\ none.rest = tag.rest
  BY Zenon DEF Fail, none
<1> QED
  BY <1>2, <1>3, <1>4, ZenonT(60) DEF Leaf, r, tag, val

\* What Put writes, when it writes.
LEMMA PutWrites ==
    ASSUME NEW tag, NEW type, NEW vb, Plain(tag), ~Put(tag, type, vb).err
    PROVE  /\ ~writeTag(tag).err
           /\ Put(tag, type, vb).bytes = <<tag.Class + type>> \o (writeTag(tag).bytes \o vb)
<1> DEFINE w == writeTag(tag)
           a == Done(<<tag.Class + type>>)
           b == Then(w, Done(vb))
<1>1. Put(tag, type, vb) = Then(a, b)
  BY Zenon DEF Put, writeControlByte
<1>2. ~a.err /\ a.bytes = <<tag.Class + type>> /\ ~Done(vb).err /\ Done(vb).bytes = vb /\ Fail.err
  BY Zenon DEF Done, Fail
<1> HIDE DEF w, a
<1>3. ~w.err
  BY <1>1, <1>2, Zenon DEF Then
<1>4. b = Done(w.bytes \o vb)
  BY <1>2, <1>3, Zenon DEF Then
<1> HIDE DEF b
<1>5. ~b.err /\ b.bytes = w.bytes \o vb
  BY <1>4, Zenon DEF Done
<1>6. Then(a, b) = Done(a.bytes \o b.bytes)
  BY <1>2, <1>5, Zenon DEF Then
<1>7. Done(a.bytes \o b.bytes).bytes = a.bytes \o b.bytes
  BY Zenon DEF Done
<1> QED
  BY <1>1, <1>2, <1>3, <1>5, <1>6, <1>7, Zenon DEF w

\* What Put writes is the element, and nothing less is.
LEMMA ElementRead ==
    ASSUME NEW tag, NEW type \in 0 .. 31, NEW vb, NEW value, Plain(tag), type # 24,
           ~Put(tag, type, vb).err, ValueEncodes(type, vb, value)
    PROVE  Encodes(Put(tag, type, vb).bytes, Leaf(tag, type, value))
<1> DEFINE class == tag.Class
           c == class + type
           tb == writeTag(tag).bytes
           body == tb \o vb
           bytes == <<c>> \o body
<1>1. Put(tag, type, vb).bytes = bytes /\ ~writeTag(tag).err
  BY PutWrites, Zenon
<1>2. /\ tb \in Seq(Byte)
      /\ \A rest \in Seq(Byte) :
            readTag(class, tb \o rest) = [err |-> FALSE, tag |-> tag, rest |-> rest]
      /\ \A r : Len(r) < Len(tb) => readTag(class, r) = Fail
  BY <1>1, TagRead, Zenon
<1>3. /\ vb \in Seq(Byte)
      /\ \A rest \in Seq(Byte) :
            readValue(type, vb \o rest) = [err |-> FALSE, buf |-> value, rest |-> rest]
      /\ \A k \in 0 .. Len(vb) - 1 : readValue(type, Slice(vb, 0, k)) = Fail
  BY Zenon DEF ValueEncodes
<1>4. c \in Byte /\ c % 32 = type /\ c - type = class
  <2>1. class \in {0, 32, 64, 96, 128, 160}
    BY <1>1, TagWritten, Zenon
  <2> HIDE DEF class
  <2> QED
    BY <2>1, SMT DEF Byte
<1> HIDE DEF class, c, tb
<1>5. body \in Seq(Byte) /\ Len(body) = Len(tb) + Len(vb)
  BY <1>2, <1>3, ConcatProperties
<1>6. bytes \in Seq(Byte) /\ Len(bytes) = Len(body) + 1 /\ Len(body) \in Nat
  <2> HIDE DEF body
  <2> QED
    BY <1>4, <1>5, InFront, LenProperties
<1>7. ASSUME NEW rest \in Seq(Byte)
      PROVE  ReadElement(bytes \o rest)
                 = [err |-> FALSE, elem |-> Leaf(tag, type, value), rest |-> rest]
  <2> DEFINE t == readTag(class, body \o rest)
             v == readValue(type, t.rest)
  <2>1. vb \o rest \in Seq(Byte) /\ body \o rest \in Seq(Byte)
    BY <1>3, <1>5, ConcatProperties
  <2>2. body \o rest = tb \o (vb \o rest)
    BY <1>2, <1>3, Associative, Zenon
  <2>3. t = [err |-> FALSE, tag |-> tag, rest |-> vb \o rest]
    BY <1>2, <2>1, <2>2, Zenon
  <2> HIDE DEF t
  <2>4. ~t.err /\ t.tag = tag /\ t.rest = vb \o rest
    BY <2>3, Zenon
  <2>5. v = [err |-> FALSE, buf |-> value, rest |-> rest]
    BY <1>3, <2>4, Zenon
  <2> HIDE DEF v
  <2>6. ~v.err /\ v.buf = value /\ v.rest = rest
    BY <2>5, Zenon
  <2>7. bytes \o rest = <<c>> \o (body \o rest)
    <3>1. <<c>> \in Seq(Byte)
      BY <1>4
    <3> QED
      BY <1>5, <3>1, Associative, Zenon
  <2>8. ReadElement(<<c>> \o (body \o rest))
            = [err |-> FALSE, elem |-> Leaf(t.tag, type, v.buf), rest |-> v.rest]
    BY <1>4, <2>1, <2>4, <2>6, ReadCases, ZenonT(60) DEF t, v
  <2> QED
    BY <2>4, <2>6, <2>7, <2>8, Zenon
<1>8. ASSUME NEW k \in 0 .. Len(bytes) - 1
      PROVE  ReadElement(Slice(bytes, 0, k)) = Fail
  <2> DEFINE s == Slice(body, 0, k - 1)
  <2>1. CASE k = 0
    <3>1. Slice(bytes, 0, 0) = <<>>
      <4>1. 0 \in Nat /\ 0 <= Len(bytes)
        BY <1>6
      <4>2. Slice(bytes, 0, 0) \in Seq(Byte) /\ Len(Slice(bytes, 0, 0)) = 0
        <5> HIDE DEF bytes
        <5> QED
          BY <1>6, <4>1, Prefix, Zenon
      <4> QED
        BY <4>2, EmptySeq
    <3> QED
      BY <2>1, <3>1, Zenon DEF ReadElement
  <2>2. CASE k # 0
    <3>1. k - 1 \in 0 .. Len(body) - 1 /\ k >= 1 /\ k - 1 \in Nat /\ k - 1 <= Len(body)
      BY <1>6, <2>2
    <3>2. Slice(bytes, 0, k) = <<c>> \o s
      <4>1. <<c>> \in Seq(Byte) /\ Len(<<c>>) = 1
        BY <1>4
      <4>2. k >= Len(<<c>>)
        BY <3>1, <4>1
      <4>3. Slice(bytes, 0, k) = <<c>> \o Slice(body, 0, k - Len(<<c>>))
        BY <1>5, <4>1, <4>2, CutConcat, Zenon
      <4> QED
        BY <4>1, <4>3, Zenon
    <3>3. /\ s \in Seq(Byte) /\ Len(s) = k - 1
          /\ k - 1 >= Len(tb) => /\ (k - 1) - Len(tb) \in 0 .. Len(vb) - 1
                                /\ s = tb \o Slice(vb, 0, (k - 1) - Len(tb))
      BY <1>2, <1>3, <3>1, CutConcat, ZenonT(60)
    <3> HIDE DEF s
    <3> DEFINE t == readTag(class, s)
               v == readValue(type, t.rest)
    <3>4. CASE k - 1 < Len(tb)
      <4>1. t = Fail
        BY <1>2, <3>3, <3>4, Zenon
      <4>2. Fail.err
        BY Zenon DEF Fail
      <4> QED
        BY <1>4, <3>2, <3>3, <4>1, <4>2, ReadCases, ZenonT(60)
    <3>5. CASE k - 1 >= Len(tb)
      <4> DEFINE j == (k - 1) - Len(tb)
                 left == Slice(vb, 0, j)
      <4>1. j \in 0 .. Len(vb) - 1 /\ s = tb \o left
        BY <3>3, <3>5
      <4> HIDE DEF j
      <4>2. left \in Seq(Byte)
        <5>1. j \in Nat /\ j <= Len(vb)
          BY <1>3, <4>1, LenProperties
        <5> QED
          BY <1>3, <5>1, Prefix, Zenon
      <4>3. t = [err |-> FALSE, tag |-> tag, rest |-> left]
        BY <1>2, <4>1, <4>2, Zenon
      <4> HIDE DEF t
      <4>4. ~t.err /\ t.rest = left
        BY <4>3, Zenon
      <4>5. v = Fail
        BY <1>3, <4>1, <4>4, Zenon
      <4>6. Fail.err
        BY Zenon DEF Fail
      <4> HIDE DEF v
      <4>7. ~t.err /\ type # 24 /\ v.err => ReadElement(<<c>> \o s) = Fail
        BY <1>4, <3>3, ReadCases, Zenon DEF t, v
      <4> QED
        BY <3>2, <4>4, <4>5, <4>6, <4>7, Zenon
    <3>6. k - 1 < Len(tb) \/ k - 1 >= Len(tb)
      BY <1>2, <3>1, LenProperties
    <3> QED
      BY <3>4, <3>5, <3>6
  <2> QED
    BY <2>1, <2>2
<1>9. Len(bytes) >= 1
  BY <1>6
<1> QED
  BY <1>1, <1>6, <1>7, <1>8, <1>9, Zenon DEF Encodes, c, tb, class

\* The smallest of a few exponents.
LEMMA Smallest ==
    ASSUME NEW S, S \subseteq 0 .. 3, 3 \in S
    PROVE  Min(S) \in S
<1>1. \E x \in S : \A y \in S : x <= y
  <2>1. CASE 0 \in S
    BY <2>1
  <2>2. CASE 0 \notin S /\ 1 \in S
    <3>1. \A y \in S : 1 <= y
      BY <2>2
    <3> QED
      BY <2>2, <3>1
  <2>3. CASE 0 \notin S /\ 1 \notin S /\ 2 \in S
    <3>1. \A y \in S : 2 <= y
      BY <2>3
    <3> QED
      BY <2>3, <3>1
  <2>4. CASE 0 \notin S /\ 1 \notin S /\ 2 \notin S
    <3>1. \A y \in S : 3 <= y
      BY <2>4
    <3> QED
      BY <3>1
  <2> QED
    BY <2>1, <2>2, <2>3, <2>4
<1> QED
  BY <1>1, Zenon DEF Min

\* Eight bytes hold every number.
LEMMA WholeNumber ==
    ASSUME NEW x \in Uint(8)
    PROVE  x = ZeroExtend(Truncate(x, 8), 8) /\ x = SignExtend(Truncate(x, 8), 8)
<1>1. x \in Seq(Byte) /\ Len(x) = 8
  <2>1. 8 \in Nat
    OBVIOUS
  <2> QED
    BY <2>1, UintIsSeq, Zenon
<1>2. Truncate(x, 8) = x
  <2>1. Len(x) - 8 + 1 = 1
    BY <1>1
  <2>2. SubSeq(x, 1, Len(x)) = x
    BY <1>1, SubSeqFull
  <2> QED
    BY <2>1, <2>2, Zenon DEF Truncate
<1>3. \A byte : Fill(8 - Len(x), byte) = <<>>
  <2>1. 1 .. 8 - Len(x) = {}
    BY <1>1
  <2>2. \A byte : [i \in {} |-> byte] = <<>>
    BY SMT
  <2> QED
    BY <2>1, <2>2, Zenon DEF Fill
<1>4. <<>> \o x = x
  BY <1>1, ConcatEmptySeq, Zenon
<1>5. ZeroExtend(x, 8) = x
  BY <1>3, <1>4, Zenon DEF ZeroExtend, Zero
<1>6. SignExtend(x, 8) = x
  <2> DEFINE sign == IF x[1] >= 128 THEN 255 ELSE 0
  <2>1. SignExtend(x, 8) = Fill(8 - Len(x), sign) \o x
    BY Zenon DEF SignExtend
  <2> HIDE DEF sign
  <2> QED
    BY <1>3, <1>4, <2>1, Zenon
<1> QED
  BY <1>2, <1>5, <1>6, Zenon

\* The sizes the Writer chooses are large enough.
LEMMA ChosenSizes ==
    ASSUME NEW x \in Uint(8)
    PROVE  /\ signedSize(x) \in 0 .. 3 /\ x = SignExtend(Truncate(x, 2 ^ signedSize(x)), 8)
           /\ unsignedSize(x) \in 0 .. 3
           /\ x = ZeroExtend(Truncate(x, 2 ^ unsignedSize(x)), 8)
<1> DEFINE S == {k \in 0 .. 3 : x = SignExtend(Truncate(x, 2 ^ k), 8)}
           U == {k \in 0 .. 3 : x = ZeroExtend(Truncate(x, 2 ^ k), 8)}
<1>1. 2 ^ 3 = 8 /\ 3 \in 0 .. 3
  BY SMT
<1>2. 3 \in S /\ 3 \in U
  BY <1>1, WholeNumber, Zenon
<1>3. S \subseteq 0 .. 3 /\ U \subseteq 0 .. 3
  BY Zenon
<1>4. Min(S) \in S /\ Min(U) \in U
  <2> HIDE DEF S, U
  <2> QED
    BY <1>2, <1>3, Smallest, Zenon
<1>5. signedSize(x) = Min(S) /\ unsignedSize(x) = Min(U)
  BY Zenon DEF signedSize, unsignedSize
<1>6. \A m : m \in S => m \in 0 .. 3 /\ x = SignExtend(Truncate(x, 2 ^ m), 8)
  BY Zenon
<1>7. \A m : m \in U => m \in 0 .. 3 /\ x = ZeroExtend(Truncate(x, 2 ^ m), 8)
  BY Zenon
<1> HIDE DEF S, U
<1> QED
  BY <1>4, <1>5, <1>6, <1>7, Zenon

\* The bytes of a number.
LEMMA NumberBytes ==
    ASSUME NEW x \in Uint(8), NEW k \in 0 .. 3
    PROVE  LET low == Truncate(x, 2 ^ k)
           IN  LittleEndian(low) \in Uint(2 ^ k) /\ LittleEndian(LittleEndian(low)) = low
<1> DEFINE size == 2 ^ k
           low == Truncate(x, size)
<1>1. size \in Nat /\ size \in 1 .. 8
  BY Powers, Zenon
<1> HIDE DEF size
<1>2. size \in 0 .. 8 /\ 8 \in Nat
  BY <1>1
<1>3. low \in Uint(size)
  BY <1>2, TruncateType, Zenon
<1> HIDE DEF low
<1>4. LittleEndian(low) \in Uint(size) /\ LittleEndian(LittleEndian(low)) = low
  BY <1>1, <1>3, LittleEndianTwice, Zenon
<1> QED
  BY <1>4, Zenon DEF size, low

\* putInt writes the element.
LEMMA IntRead ==
    ASSUME NEW tag, Plain(tag), NEW base \in {TypeSignedInt, TypeUnsignedInt},
           NEW k \in 0 .. 3, NEW x \in Uint(8), ~putInt(tag, base, k, x).err
    PROVE  Encodes(putInt(tag, base, k, x).bytes,
                   Leaf(tag, base + k, LittleEndian(Truncate(x, 2 ^ k))))
<1> DEFINE vb == LittleEndian(Truncate(x, 2 ^ k))
<1>1. putInt(tag, base, k, x) = Put(tag, base + k, vb)
  BY Zenon DEF putInt
<1>2. vb \in Uint(2 ^ k)
  BY NumberBytes, Zenon
<1> HIDE DEF vb
<1>3. ValueEncodes(base + k, vb, vb)
  BY <1>2, NumberValue, Zenon
<1>4. base + k \in 0 .. 31 /\ base + k # 24
  BY SMT DEF TypeSignedInt, TypeUnsignedInt
<1>5. Encodes(Put(tag, base + k, vb).bytes, Leaf(tag, base + k, vb))
  BY <1>1, <1>3, <1>4, ElementRead, Zenon
<1> QED
  BY <1>1, <1>5, Zenon DEF vb

\* writeStringOrBytes writes the element.
LEMMA StringRead ==
    ASSUME NEW tag, Plain(tag), NEW base \in {TypeUTF8String, TypeByteString},
           NEW data \in Seq(Byte), Len(data) <= MaxInt32, ~writeStringOrBytes(tag, base, data).err
    PROVE  Encodes(writeStringOrBytes(tag, base, data).bytes,
                   Leaf(tag, base + lengthSize(Len(data)), data))
<1> DEFINE sub == lengthSize(Len(data))
           vb == LittleEndian(Truncate(Digits(Len(data)), 2 ^ sub)) \o data
<1>1. writeStringOrBytes(tag, base, data) = Put(tag, base + sub, vb)
  BY Zenon DEF writeStringOrBytes
<1>2. ValueEncodes(base + sub, vb, data)
  BY StringValue, Zenon
<1>3. sub \in 0 .. 2
  BY LengthDigits, LenProperties, Zenon
<1> HIDE DEF vb, sub
<1>4. base + sub \in 0 .. 31 /\ base + sub # 24
  BY <1>3, SMT DEF TypeUTF8String, TypeByteString
<1>5. Encodes(Put(tag, base + sub, vb).bytes, Leaf(tag, base + sub, data))
  BY <1>1, <1>2, <1>4, ElementRead, Zenon
<1> QED
  BY <1>1, <1>5, Zenon DEF sub

\* PutBoolean and StartContainer write the element.
LEMMA PlainRead ==
    ASSUME NEW tag, Plain(tag)
    PROVE  /\ \A bit \in {0, 1} : ~Put(tag, 8 + bit, <<>>).err =>
                  Encodes(Put(tag, 8 + bit, <<>>).bytes, Leaf(tag, 8 + bit, <<bit>>))
           /\ \A type \in 20 .. 23 : ~Put(tag, type, <<>>).err =>
                  Encodes(Put(tag, type, <<>>).bytes, Leaf(tag, type, <<>>))
<1>1. ASSUME NEW bit \in {0, 1}, ~Put(tag, 8 + bit, <<>>).err
      PROVE  Encodes(Put(tag, 8 + bit, <<>>).bytes, Leaf(tag, 8 + bit, <<bit>>))
  <2>1. 8 + bit \in 0 .. 31 /\ 8 + bit # 24 /\ 8 + bit \in {8, 9} /\ (8 + bit) - 8 = bit
    BY SMT
  <2>2. \A r : readValue(8 + bit, r) = [err |-> FALSE, buf |-> <<(8 + bit) - 8>>, rest |-> r]
    BY <2>1, ValueCases, Zenon
  <2>3. \A r : readValue(8 + bit, r) = [err |-> FALSE, buf |-> <<bit>>, rest |-> r]
    BY <2>1, <2>2, Zenon
  <2>4. ValueEncodes(8 + bit, <<>>, <<bit>>)
    BY <2>3, NoValue, Zenon
  <2> QED
    BY <1>1, <2>1, <2>4, ElementRead, Zenon
<1>2. ASSUME NEW type \in 20 .. 23, ~Put(tag, type, <<>>).err
      PROVE  Encodes(Put(tag, type, <<>>).bytes, Leaf(tag, type, <<>>))
  <2>1. type \in 0 .. 31 /\ type # 24
    BY SMT
  <2>2. \A r : readValue(type, r) = [err |-> FALSE, buf |-> <<>>, rest |-> r]
    BY ValueCases, Zenon
  <2>3. ValueEncodes(type, <<>>, <<>>)
    BY <2>2, NoValue, Zenon
  <2> QED
    BY <1>2, <2>1, <2>3, ElementRead, Zenon
<1> QED
  BY <1>1, <1>2, Zenon

\* The element that ends a container, and the one for nil.
LEMMA ControlRead ==
    /\ Plain(Anonymous)
    /\ Encodes(EndContainer.bytes, Leaf(Anonymous, TypeEndOfContainer, <<>>))
    /\ Encodes(writeControlByte(Anonymous.Class, TypeNull).bytes, Leaf(Anonymous, TypeNull, <<>>))
<1> DEFINE z == Zero(8)
<1>1. z \in Uint(8) /\ Zero(4) = Zero(4) /\ z \in Seq(Byte) /\ Len(z) = 8
  BY DEF Zero, Fill, Uint, Byte
<1>2. Truncate(z, 0) = <<>>
  BY <1>1 DEF Truncate
<1>3. ZeroExtend(<<>>, 8) = z
  BY <1>1 DEF ZeroExtend
<1>4. Anonymous.Class = 0 /\ Anonymous.ID = z /\ Anonymous \in Tag
  BY <1>1, Zenon DEF Anonymous, Tag, TagControlAnonymous
<1>5. idSize(0) = 0
  BY SMT DEF idSize
<1> HIDE DEF z
<1>6. Plain(Anonymous)
  BY <1>2, <1>3, <1>4, <1>5, Zenon DEF Plain
<1>7. writeTag(Anonymous) = Done(<<>>)
  BY <1>4, SMT DEF writeTag, TagControlAnonymous, TagControlContextSpecific,
     TagControlFullyQualified6, TagControlFullyQualified8
<1>8. ~Done(<<>>).err /\ Done(<<>>).bytes = <<>>
  BY Zenon DEF Done
<1>9. /\ \A r \in Seq(Byte) :
            readTag(0, <<>> \o r) = [err |-> FALSE, tag |-> Anonymous, rest |-> r]
  BY <1>4, <1>6, <1>7, <1>8, TagRead, Zenon
<1>10. \A r \in Seq(Byte) : <<>> \o r = r
  BY ConcatEmptySeq, Zenon
<1>11. \A r \in Seq(Byte) : readTag(0, r) = [err |-> FALSE, tag |-> Anonymous, rest |-> r]
  BY <1>9, <1>10, Zenon
<1>12. EndContainer.bytes = <<24>> /\ writeControlByte(Anonymous.Class, TypeNull).bytes = <<20>>
  <2>1. 0 + 24 = 24 /\ 0 + 20 = 20
    BY SMT
  <2> QED
    BY <1>4, <2>1, Zenon DEF EndContainer, writeControlByte, TagControlAnonymous,
       TypeEndOfContainer, TypeNull, Done
<1>13. 24 \in Byte /\ 24 % 32 = 24 /\ 24 - 24 = 0 /\ 20 \in Byte /\ 20 % 32 = 20 /\ 20 - 20 = 0
       /\ 20 # 24 /\ 20 \in 20 .. 23
  BY SMT DEF Byte
<1>14. ASSUME NEW c \in {20, 24}, NEW r \in Seq(Byte)
       PROVE  ReadElement(<<c>> \o r)
                  = [err |-> FALSE, elem |-> Leaf(Anonymous, c, <<>>), rest |-> r]
  <2> DEFINE t == readTag(0, r)
             v == readValue(c, t.rest)
  <2>0. c \in Byte /\ c % 32 = c /\ c - c = 0
    BY <1>13, Zenon
  <2>1. ~t.err /\ t.tag = Anonymous /\ t.rest = r
    <3>1. t = [err |-> FALSE, tag |-> Anonymous, rest |-> r]
      BY <1>11, Zenon
    <3> HIDE DEF t
    <3> QED
      BY <3>1, Zenon
  <2>2. /\ ~t.err /\ c # 24 /\ ~v.err => ReadElement(<<c>> \o r)
              = [err |-> FALSE, elem |-> Leaf(t.tag, c, v.buf), rest |-> v.rest]
        /\ ~t.err /\ c = 24 => ReadElement(<<c>> \o r)
              = [err |-> FALSE, elem |-> Leaf(t.tag, c, <<>>), rest |-> t.rest]
    BY <2>0, ReadCases, ZenonT(60)
  <2>3. c = 20 => v = [err |-> FALSE, buf |-> <<>>, rest |-> t.rest]
    <3>1. c = 20 => c \in 20 .. 23
      OBVIOUS
    <3> QED
      BY <3>1, ValueCases, Zenon
  <2> HIDE DEF t, v
  <2>4. c = 20 => ~v.err /\ v.buf = <<>> /\ v.rest = t.rest
    <3>1. \A y : y = [err |-> FALSE, buf |-> <<>>, rest |-> t.rest] =>
                   ~y.err /\ y.buf = <<>> /\ y.rest = t.rest
      OBVIOUS
    <3> QED
      BY <2>3, <3>1, Zenon
  <2>5. c = 20 => c # 24
    BY SMT
  <2> QED
    BY <2>1, <2>2, <2>4, <2>5, Zenon
<1>15. ASSUME NEW c \in {20, 24} PROVE Encodes(<<c>>, Leaf(Anonymous, c, <<>>))
  <2>1. <<c>> \in Seq(Byte) /\ Len(<<c>>) = 1
    BY DEF Byte
  <2>2. ASSUME NEW k \in 0 .. Len(<<c>>) - 1 PROVE ReadElement(Slice(<<c>>, 0, k)) = Fail
    <3>1. k = 0
      BY <2>1
    <3>2. Slice(<<c>>, 0, 0) = <<>>
      BY <2>1 DEF Slice
    <3> QED
      BY <3>1, <3>2, Zenon DEF ReadElement
  <2>3. Len(<<c>>) >= 1
    BY <2>1
  <2> QED
    BY <1>14, <2>1, <2>2, <2>3, Zenon DEF Encodes
<1> QED
  BY <1>6, <1>12, <1>15, Zenon DEF TypeEndOfContainer, TypeNull

\* The cases of encoded and Element.
LEMMA PutCases ==
    ASSUME NEW p
    PROVE  /\ p.kind = "int" => /\ encoded(p) = PutSignedInt(p.tag, p.value)
                                /\ Element(p) = IntElement(p, signedSize(p.value))
           /\ p.kind = "uint" => /\ encoded(p) = PutUnsignedInt(p.tag, p.value)
                                 /\ Element(p) = IntElement(p, unsignedSize(p.value))
           /\ p.kind = "bytes" =>
                  /\ encoded(p) = PutBytes(p.tag, p.value)
                  /\ Element(p) = Leaf(p.tag, TypeByteString + lengthSize(Len(p.value)), p.value)
           /\ p.kind = "string" =>
                  /\ encoded(p) = PutString(p.tag, p.value)
                  /\ Element(p) = Leaf(p.tag, TypeUTF8String + lengthSize(Len(p.value)), p.value)
           /\ p.kind = "bool" =>
                  /\ encoded(p) = PutBoolean(p.tag, p.value)
                  /\ Element(p) = LET bit == IF p.value THEN 1 ELSE 0
                                  IN  Leaf(p.tag, TypeBoolean + bit, <<bit>>)
           /\ p.kind = "null" => /\ encoded(p) = writeControlByte(p.tag.Class, TypeNull)
                                 /\ Element(p) = Leaf(p.tag, TypeNull, <<>>)
<1>1. ASSUME NEW x, NEW a, NEW b, NEW c, NEW d, NEW e, NEW f, NEW y,
             y = CASE x = "int" -> a [] x = "uint" -> b [] x = "bytes" -> c
                   [] x = "string" -> d [] x = "bool" -> e [] x = "null" -> f
      PROVE  /\ x = "int" => y = a
             /\ x = "uint" => y = b
             /\ x = "bytes" => y = c
             /\ x = "string" => y = d
             /\ x = "bool" => y = e
             /\ x = "null" => y = f
  BY <1>1, Zenon
<1> DEFINE a == PutSignedInt(p.tag, p.value)
           b == PutUnsignedInt(p.tag, p.value)
           c == PutBytes(p.tag, p.value)
           d == PutString(p.tag, p.value)
           e == PutBoolean(p.tag, p.value)
           f == writeControlByte(p.tag.Class, TypeNull)
           ea == IntElement(p, signedSize(p.value))
           eb == IntElement(p, unsignedSize(p.value))
           ec == Leaf(p.tag, TypeByteString + lengthSize(Len(p.value)), p.value)
           ed == Leaf(p.tag, TypeUTF8String + lengthSize(Len(p.value)), p.value)
           bit == IF p.value THEN 1 ELSE 0
           ee == Leaf(p.tag, TypeBoolean + bit, <<bit>>)
           ef == Leaf(p.tag, TypeNull, <<>>)
<1>2. encoded(p) = CASE p.kind = "int" -> a [] p.kind = "uint" -> b [] p.kind = "bytes" -> c
                     [] p.kind = "string" -> d [] p.kind = "bool" -> e [] p.kind = "null" -> f
  BY Zenon DEF encoded
<1>3. Element(p) = CASE p.kind = "int" -> ea [] p.kind = "uint" -> eb [] p.kind = "bytes" -> ec
                     [] p.kind = "string" -> ed [] p.kind = "bool" -> ee [] p.kind = "null" -> ef
  BY Zenon DEF Element
<1> HIDE DEF a, b, c, d, e, f, ea, eb, ec, ed, ee, ef
<1>4. /\ p.kind = "int" => encoded(p) = a
      /\ p.kind = "uint" => encoded(p) = b
      /\ p.kind = "bytes" => encoded(p) = c
      /\ p.kind = "string" => encoded(p) = d
      /\ p.kind = "bool" => encoded(p) = e
      /\ p.kind = "null" => encoded(p) = f
  BY <1>1, <1>2, Zenon
<1>5. /\ p.kind = "int" => Element(p) = ea
      /\ p.kind = "uint" => Element(p) = eb
      /\ p.kind = "bytes" => Element(p) = ec
      /\ p.kind = "string" => Element(p) = ed
      /\ p.kind = "bool" => Element(p) = ee
      /\ p.kind = "null" => Element(p) = ef
  BY <1>1, <1>3, Zenon
<1> QED
  BY <1>4, <1>5, Zenon DEF a, b, c, d, e, f, ea, eb, ec, ed, ee, ef

\* The cases of decodeScalar and of FitsIn.
LEMMA DecodeCases ==
    ASSUME NEW e, NEW p, NEW size
    PROVE  /\ decodeScalar(e, [kind |-> "bool", size |-> size]) = decodeBool(e)
           /\ decodeScalar(e, [kind |-> "string", size |-> size]) = decodeString(e)
           /\ decodeScalar(e, [kind |-> "bytes", size |-> size]) = decodeBytes(e)
           /\ decodeScalar(e, [kind |-> "int", size |-> size]) = decodeInt(e, size)
           /\ decodeScalar(e, [kind |-> "uint", size |-> size]) = decodeUint(e, size)
           /\ p.kind = "uint" =>
                  (FitsIn(p, size) <=> p.value = ZeroExtend(Truncate(p.value, size), 8))
           /\ p.kind = "int" =>
                  (FitsIn(p, size) <=> p.value = SignExtend(Truncate(p.value, size), 8))
           /\ p.kind \notin {"int", "uint"} => FitsIn(p, size)
<1>1. ASSUME NEW x, NEW a, NEW b, NEW c, NEW d, NEW f, NEW y,
             y = CASE x = "bool" -> a [] x = "string" -> b [] x = "bytes" -> c
                   [] x = "int" -> d [] x = "uint" -> f
      PROVE  /\ x = "bool" => y = a
             /\ x = "string" => y = b
             /\ x = "bytes" => y = c
             /\ x = "int" => y = d
             /\ x = "uint" => y = f
  BY <1>1, Zenon
<1> DEFINE a == decodeBool(e)
           b == decodeString(e)
           c == decodeBytes(e)
           d == decodeInt(e, size)
           f == decodeUint(e, size)
           S(x) == decodeScalar(e, [kind |-> x, size |-> size])
<1>2. ASSUME NEW x
      PROVE  S(x) = CASE x = "bool" -> a [] x = "string" -> b [] x = "bytes" -> c
                      [] x = "int" -> d [] x = "uint" -> f
  <2> DEFINE T == [kind |-> x, size |-> size]
  <2>1. T.kind = x /\ T.size = size
    BY Zenon
  <2>2. S(x) = CASE T.kind = "bool" -> a [] T.kind = "string" -> b [] T.kind = "bytes" -> c
                 [] T.kind = "int" -> decodeInt(e, T.size) [] T.kind = "uint" -> decodeUint(e, T.size)
    BY Zenon DEF decodeScalar
  <2> HIDE DEF a, b, c, S, T
  <2>3. decodeInt(e, T.size) = d /\ decodeUint(e, T.size) = f
    BY <2>1, Zenon
  <2> HIDE DEF d, f
  <2> QED
    BY <2>1, <2>2, <2>3, Zenon
<1> HIDE DEF a, b, c, d, f, S
<1>3. S("bool") = a /\ S("string") = b /\ S("bytes") = c /\ S("int") = d /\ S("uint") = f
  BY <1>1, <1>2, Zenon
<1> DEFINE Z == p.value = ZeroExtend(Truncate(p.value, size), 8)
           N == p.value = SignExtend(Truncate(p.value, size), 8)
<1>4. FitsIn(p, size) = CASE p.kind = "uint" -> Z [] p.kind = "int" -> N [] OTHER -> TRUE
  BY Zenon DEF FitsIn
<1>5. Z \in BOOLEAN /\ N \in BOOLEAN
  BY Zenon
<1> HIDE DEF Z, N
<1>6. /\ p.kind = "uint" => (FitsIn(p, size) <=> Z)
      /\ p.kind = "int" => (FitsIn(p, size) <=> N)
      /\ p.kind \notin {"int", "uint"} => FitsIn(p, size)
  BY <1>4, <1>5, Zenon
<1> QED
  BY <1>3, <1>6, Zenon DEF a, b, c, d, f, S, Z, N

\* The element e says what was put: its tag, its type, and what it decodes to.
Means(e, p) == e.Tag = p.tag /\ e.Type \in 0 .. 20 /\ e.SubElements = <<>> /\ Exact(e, p)

\* A number means itself, in any number of bytes it fits.
LEMMA IntMeans ==
    ASSUME NEW p, p.value \in Uint(8), NEW k \in 0 .. 3,
           \/ p.kind = "uint" /\ p.value = ZeroExtend(Truncate(p.value, 2 ^ k), 8)
           \/ p.kind = "int" /\ p.value = SignExtend(Truncate(p.value, 2 ^ k), 8)
    PROVE  Means(IntElement(p, k), p)
<1> DEFINE e == IntElement(p, k)
           base == IF p.kind = "int" THEN TypeSignedInt ELSE TypeUnsignedInt
           low == Truncate(p.value, 2 ^ k)
           vb == LittleEndian(low)
<1>1. e = Leaf(p.tag, base + k, vb)
  BY Zenon DEF IntElement
<1>2. LittleEndian(vb) = low
  BY NumberBytes, Zenon
<1> HIDE DEF e, low, vb, base
<1>3. e.Tag = p.tag /\ e.Type = base + k /\ e.Value = vb /\ e.SubElements = <<>>
  BY <1>1, Zenon DEF Leaf
<1>4. base + k \in 0 .. 20
  BY SMT DEF base, TypeSignedInt, TypeUnsignedInt
<1>5. CASE p.kind = "uint"
  <2>1. p.value = ZeroExtend(low, 8)
    BY <1>5, Zenon DEF low
  <2>2. (base + k) \div 4 = TypeUnsignedInt \div 4
    BY <1>5, SMT DEF base, TypeUnsignedInt
  <2>3. parseUnsignedInt(e.Value) = p.value
    BY <1>2, <1>3, <2>1, Zenon DEF parseUnsignedInt
  <2>4. \A size : decodeUint(e, size) = IF FitsIn(p, size) THEN Set(p.value) ELSE Fail
    <3> TAKE size
    <3>1. decodeUint(e, size) = IF p.value # ZeroExtend(Truncate(p.value, size), 8) THEN Fail
                                ELSE Set(p.value)
      BY <1>3, <2>2, <2>3, Zenon DEF decodeUint
    <3>2. FitsIn(p, size) <=> p.value = ZeroExtend(Truncate(p.value, size), 8)
      BY <1>5, DecodeCases, Zenon
    <3> QED
      BY <3>1, <3>2, Zenon
  <2>5. \A size : decodeScalar(e, [kind |-> p.kind, size |-> size]) = decodeUint(e, size)
    BY <1>5, DecodeCases, Zenon
  <2>6. Exact(e, p)
    BY <2>4, <2>5, Zenon DEF Exact
  <2> QED
    BY <1>3, <1>4, <2>6, Zenon DEF Means, e
<1>6. CASE p.kind = "int"
  <2>1. p.value = SignExtend(low, 8)
    BY <1>6, Zenon DEF low
  <2>2. (base + k) \div 4 = TypeSignedInt \div 4
    BY <1>6, SMT DEF base, TypeSignedInt
  <2>3. parseSignedInt(e.Value) = p.value
    BY <1>2, <1>3, <2>1, Zenon DEF parseSignedInt
  <2>4. \A size : decodeInt(e, size) = IF FitsIn(p, size) THEN Set(p.value) ELSE Fail
    <3> TAKE size
    <3>1. decodeInt(e, size) = IF p.value # SignExtend(Truncate(p.value, size), 8) THEN Fail
                               ELSE Set(p.value)
      BY <1>3, <2>2, <2>3, Zenon DEF decodeInt
    <3>2. FitsIn(p, size) <=> p.value = SignExtend(Truncate(p.value, size), 8)
      BY <1>6, DecodeCases, Zenon
    <3> QED
      BY <3>1, <3>2, Zenon
  <2>5. \A size : decodeScalar(e, [kind |-> p.kind, size |-> size]) = decodeInt(e, size)
    BY <1>6, DecodeCases, Zenon
  <2>6. Exact(e, p)
    BY <2>4, <2>5, Zenon DEF Exact
  <2> QED
    BY <1>3, <1>4, <2>6, Zenon DEF Means, e
<1> QED
  BY <1>5, <1>6, Zenon

\* A text or byte string means itself.
LEMMA StringMeans ==
    ASSUME NEW p, NEW sub \in 0 .. 2
    PROVE  /\ p.kind = "string" => Means(Leaf(p.tag, TypeUTF8String + sub, p.value), p)
           /\ p.kind = "bytes" => Means(Leaf(p.tag, TypeByteString + sub, p.value), p)
<1>1. ASSUME p.kind = "string" PROVE Means(Leaf(p.tag, TypeUTF8String + sub, p.value), p)
  <2> DEFINE e == Leaf(p.tag, TypeUTF8String + sub, p.value)
  <2>1. /\ e.Tag = p.tag /\ e.Type = TypeUTF8String + sub /\ e.Value = p.value
        /\ e.SubElements = <<>>
    BY Zenon DEF Leaf
  <2> HIDE DEF e
  <2>2. e.Type \in 0 .. 20 /\ e.Type \div 4 = TypeUTF8String \div 4
    BY <2>1, SMT DEF TypeUTF8String
  <2>3. decodeString(e) = Set(p.value)
    BY <2>1, <2>2, Zenon DEF decodeString
  <2>4. p.kind \notin {"int", "uint"}
    BY <1>1, Zenon
  <2>5. \A size : /\ decodeScalar(e, [kind |-> p.kind, size |-> size]) = decodeString(e)
                  /\ FitsIn(p, size)
    BY <1>1, <2>4, DecodeCases, Zenon
  <2>6. Exact(e, p)
    BY <2>3, <2>5, Zenon DEF Exact
  <2> QED
    BY <2>1, <2>2, <2>6, Zenon DEF Means, e
<1>2. ASSUME p.kind = "bytes" PROVE Means(Leaf(p.tag, TypeByteString + sub, p.value), p)
  <2> DEFINE e == Leaf(p.tag, TypeByteString + sub, p.value)
  <2>1. /\ e.Tag = p.tag /\ e.Type = TypeByteString + sub /\ e.Value = p.value
        /\ e.SubElements = <<>>
    BY Zenon DEF Leaf
  <2> HIDE DEF e
  <2>2. e.Type \in 0 .. 20 /\ e.Type \div 4 = TypeByteString \div 4
    BY <2>1, SMT DEF TypeByteString
  <2>3. decodeBytes(e) = Set(p.value)
    BY <2>1, <2>2, Zenon DEF decodeBytes
  <2>4. p.kind \notin {"int", "uint"}
    BY <1>2, Zenon
  <2>5. \A size : /\ decodeScalar(e, [kind |-> p.kind, size |-> size]) = decodeBytes(e)
                  /\ FitsIn(p, size)
    BY <1>2, <2>4, DecodeCases, Zenon
  <2>6. Exact(e, p)
    BY <2>3, <2>5, Zenon DEF Exact
  <2> QED
    BY <2>1, <2>2, <2>6, Zenon DEF Means, e
<1> QED
  BY <1>1, <1>2, Zenon

\* A boolean means itself.
LEMMA BoolMeans ==
    ASSUME NEW p, p.kind = "bool", p.value \in BOOLEAN
    PROVE  LET bit == IF p.value THEN 1 ELSE 0
           IN  Means(Leaf(p.tag, TypeBoolean + bit, <<bit>>), p)
<1> DEFINE bit == IF p.value THEN 1 ELSE 0
           e == Leaf(p.tag, TypeBoolean + bit, <<bit>>)
<1>1. bit \in {0, 1} /\ (bit = 1) = p.value
  OBVIOUS
<1> HIDE DEF bit
<1>2. e.Tag = p.tag /\ e.Type = TypeBoolean + bit /\ e.Value = <<bit>> /\ e.SubElements = <<>>
  BY Zenon DEF Leaf
<1> HIDE DEF e
<1>3. e.Type \in 0 .. 20 /\ e.Type \in {TypeBoolean, TypeBoolean + 1}
  BY <1>1, <1>2, SMT DEF TypeBoolean
<1>4. <<bit>> # <<>> /\ <<bit>>[1] = bit
  BY Zenon
<1>5. (e.Value # <<>> /\ e.Value[1] = 1) = p.value
  BY <1>1, <1>2, <1>4, Zenon
<1>6. decodeBool(e) = Set(p.value)
  BY <1>3, <1>5, Zenon DEF decodeBool
<1>7. p.kind \notin {"int", "uint"}
  BY Zenon
<1>8. \A size : /\ decodeScalar(e, [kind |-> p.kind, size |-> size]) = decodeBool(e)
                /\ FitsIn(p, size)
  BY <1>7, DecodeCases, Zenon
<1>9. Exact(e, p)
  BY <1>6, <1>8, Zenon DEF Exact
<1> QED
  BY <1>2, <1>3, <1>9, Zenon DEF Means, e, bit

\* A Put method writes an element that means what was put.
LEMMA ValueWritten ==
    ASSUME NEW p \in Puts, ~encoded(p).err
    PROVE  Encodes(encoded(p).bytes, Element(p)) /\ Means(Element(p), p)
<1>0. /\ Plain(p.tag)
      /\ \/ p.kind \in {"int", "uint"} /\ p.value \in Uint(8)
         \/ p.kind \in {"bytes", "string"} /\ p.value \in Seq(Byte) /\ Len(p.value) <= MaxInt32
         \/ p.kind = "bool" /\ p.value \in BOOLEAN
         \/ p.kind = "null" /\ p.tag = Anonymous
  BY StreamAssumption, Zenon
<1>1. CASE p.kind = "int"
  <2> DEFINE k == signedSize(p.value)
  <2>1. p.value \in Uint(8)
    BY <1>0, <1>1, ZenonT(60)
  <2>2. k \in 0 .. 3 /\ p.value = SignExtend(Truncate(p.value, 2 ^ k), 8)
    BY <2>1, ChosenSizes, Zenon
  <2>3. encoded(p) = putInt(p.tag, TypeSignedInt, k, p.value) /\ Element(p) = IntElement(p, k)
    BY <1>1, PutCases, Zenon DEF PutSignedInt
  <2>4. IntElement(p, k) = Leaf(p.tag, TypeSignedInt + k, LittleEndian(Truncate(p.value, 2 ^ k)))
    BY <1>1, Zenon DEF IntElement
  <2> HIDE DEF k
  <2>5. Encodes(encoded(p).bytes, Element(p))
    BY <1>0, <2>1, <2>2, <2>3, <2>4, IntRead, Zenon
  <2>6. Means(Element(p), p)
    BY <1>1, <2>1, <2>2, <2>3, IntMeans, Zenon
  <2> QED
    BY <2>5, <2>6, Zenon
<1>2. CASE p.kind = "uint"
  <2> DEFINE k == unsignedSize(p.value)
  <2>1. p.value \in Uint(8)
    BY <1>0, <1>2, Zenon
  <2>2. k \in 0 .. 3 /\ p.value = ZeroExtend(Truncate(p.value, 2 ^ k), 8)
    BY <2>1, ChosenSizes, Zenon
  <2>3. encoded(p) = putInt(p.tag, TypeUnsignedInt, k, p.value) /\ Element(p) = IntElement(p, k)
    BY <1>2, PutCases, Zenon DEF PutUnsignedInt
  <2>4. IntElement(p, k) = Leaf(p.tag, TypeUnsignedInt + k, LittleEndian(Truncate(p.value, 2 ^ k)))
    <3>1. p.kind # "int"
      BY <1>2, Zenon
    <3> QED
      BY <3>1, Zenon DEF IntElement
  <2> HIDE DEF k
  <2>5. Encodes(encoded(p).bytes, Element(p))
    BY <1>0, <2>1, <2>2, <2>3, <2>4, IntRead, Zenon
  <2>6. Means(Element(p), p)
    BY <1>2, <2>1, <2>2, <2>3, IntMeans, Zenon
  <2> QED
    BY <2>5, <2>6, Zenon
<1>3. CASE p.kind \in {"bytes", "string"}
  <2> DEFINE sub == lengthSize(Len(p.value))
  <2>1. p.value \in Seq(Byte) /\ Len(p.value) <= MaxInt32
    BY <1>0, <1>3, Zenon
  <2>2. sub \in 0 .. 2
    BY <2>1, LengthDigits, LenProperties, Zenon
  <2>3. p.kind = "bytes" =>
            /\ encoded(p) = writeStringOrBytes(p.tag, TypeByteString, p.value)
            /\ Element(p) = Leaf(p.tag, TypeByteString + sub, p.value)
    BY PutCases, Zenon DEF PutBytes
  <2>4. p.kind = "string" =>
            /\ encoded(p) = writeStringOrBytes(p.tag, TypeUTF8String, p.value)
            /\ Element(p) = Leaf(p.tag, TypeUTF8String + sub, p.value)
    BY PutCases, Zenon DEF PutString
  <2>5. Encodes(encoded(p).bytes, Element(p))
    BY <1>0, <1>3, <2>1, <2>3, <2>4, StringRead, Zenon
  <2> HIDE DEF sub
  <2>6. Means(Element(p), p)
    BY <1>3, <2>2, <2>3, <2>4, StringMeans, Zenon
  <2> QED
    BY <2>5, <2>6, Zenon
<1>4. CASE p.kind = "bool"
  <2> DEFINE bit == IF p.value THEN 1 ELSE 0
  <2>1. bit \in {0, 1} /\ p.value \in BOOLEAN
    BY <1>0, <1>4, Zenon
  <2>2. /\ encoded(p) = Put(p.tag, TypeBoolean + bit, <<>>)
        /\ Element(p) = Leaf(p.tag, TypeBoolean + bit, <<bit>>)
    BY <1>4, PutCases, Zenon DEF PutBoolean
  <2>3. Means(Leaf(p.tag, TypeBoolean + bit, <<bit>>), p)
    BY <1>4, <2>1, BoolMeans, Zenon
  <2> HIDE DEF bit
  <2>4. Encodes(Put(p.tag, 8 + bit, <<>>).bytes, Leaf(p.tag, 8 + bit, <<bit>>))
    BY <1>0, <2>1, <2>2, PlainRead, Zenon DEF TypeBoolean
  <2> QED
    BY <2>2, <2>3, <2>4, Zenon DEF TypeBoolean
<1>5. CASE p.kind = "null"
  <2>1. p.tag = Anonymous
    BY <1>0, <1>5, Zenon
  <2>2. /\ encoded(p) = writeControlByte(Anonymous.Class, TypeNull)
        /\ Element(p) = Leaf(Anonymous, TypeNull, <<>>)
    BY <1>5, <2>1, PutCases, Zenon
  <2>3. Encodes(encoded(p).bytes, Element(p))
    BY <2>2, ControlRead, Zenon
  <2>4. Exact(Element(p), p)
    BY <1>5, Zenon DEF Exact
  <2>5. /\ Element(p).Tag = p.tag /\ Element(p).Type = TypeNull
        /\ Element(p).SubElements = <<>>
    <3> DEFINE e == Leaf(Anonymous, TypeNull, <<>>)
    <3>1. e.Tag = Anonymous /\ e.Type = TypeNull /\ e.SubElements = <<>>
      BY Zenon DEF Leaf
    <3> HIDE DEF e
    <3> QED
      BY <2>1, <2>2, <3>1, Zenon DEF e
  <2>6. TypeNull \in 0 .. 20
    BY SMT DEF TypeNull
  <2> QED
    BY <2>3, <2>4, <2>5, <2>6, Zenon DEF Means
<1> QED
  BY <1>0, <1>1, <1>2, <1>3, <1>4, <1>5, Zenon

\* So does another implementation that uses more bytes.
LEMMA WideWritten ==
    ASSUME NEW p \in Puts, NEW k \in 0 .. 3,
           ~Put(p.tag, IntElement(p, k).Type, IntElement(p, k).Value).err,
           \/ p.kind = "uint" /\ p.value = ZeroExtend(Truncate(p.value, 2 ^ k), 8)
           \/ p.kind = "int" /\ p.value = SignExtend(Truncate(p.value, 2 ^ k), 8)
    PROVE  LET e == IntElement(p, k)
           IN  Encodes(Put(p.tag, e.Type, e.Value).bytes, e) /\ Means(e, p)
<1> DEFINE e == IntElement(p, k)
           base == IF p.kind = "int" THEN TypeSignedInt ELSE TypeUnsignedInt
           vb == LittleEndian(Truncate(p.value, 2 ^ k))
<1>1. /\ Plain(p.tag)
      /\ \/ p.kind \in {"int", "uint"} /\ p.value \in Uint(8)
         \/ p.kind \in {"bytes", "string"} /\ p.value \in Seq(Byte) /\ Len(p.value) <= MaxInt32
         \/ p.kind = "bool" /\ p.value \in BOOLEAN
         \/ p.kind = "null" /\ p.tag = Anonymous
  BY StreamAssumption, Zenon
<1>2. p.value \in Uint(8)
  <2>1. p.kind = "uint" \/ p.kind = "int"
    BY Zenon
  <2>2. p.kind \notin {"bytes", "string"} /\ p.kind # "bool" /\ p.kind # "null"
    BY <2>1, Zenon
  <2> QED
    BY <1>1, <2>2, Zenon
<1>3. e = Leaf(p.tag, base + k, vb)
  BY Zenon DEF IntElement
<1>4. base \in {TypeSignedInt, TypeUnsignedInt}
  BY Zenon
<1> HIDE DEF base
<1>5. e.Type = base + k /\ e.Value = vb
  <2> HIDE DEF e, vb
  <2> QED
    BY <1>3, Zenon DEF Leaf
<1>6. putInt(p.tag, base, k, p.value) = Put(p.tag, e.Type, e.Value)
  BY <1>5, Zenon DEF putInt
<1>7. Encodes(putInt(p.tag, base, k, p.value).bytes, Leaf(p.tag, base + k, vb))
  BY <1>1, <1>2, <1>4, <1>6, IntRead, Zenon
<1>8. Means(e, p)
  BY <1>2, IntMeans, Zenon
<1> QED
  BY <1>3, <1>6, <1>7, <1>8, Zenon

-----------------------------------------------------------------------------
(* The stream *)

\* A sequence, of whatever it has.
IsSeq(s) == s \in Seq({s[i] : i \in DOMAIN s})

\* The sequence s is the beginning of t.
Begins(s, t) == Len(s) <= Len(t) /\ \A i \in 1 .. Len(s) : s[i] = t[i]

\* The record of the k-th call in the history h.
Call(h, k) == IF k = 0 THEN [open |-> <<>>, trees |-> <<>>, end |-> 0] ELSE h[k]

\* The call after w: its element stands in the stream b behind those before it,
\* and its trees are what a Reader makes of it.
Link(w, e, b) ==
    /\ w.end < e.end /\ e.end <= Len(b)
    /\ Encodes(Slice(b, w.end, e.end), e.elem)
    /\ e.elem.Tag = e.put.tag /\ Exact(e.elem, e.put)
    /\ e.open = Taken(w.open, w.trees, e.elem).open
    /\ e.trees = Taken(w.open, w.trees, e.elem).trees

\* What holds between an earlier call w and the last one z.
Earlier(w, z) ==
    /\ w.end < z.end
    /\ z.open = <<>> => Len(w.trees) < Len(z.trees)

\* The types in the record of a call.
Proper(w) == w.end \in Nat /\ IsSeq(w.open) /\ IsSeq(w.trees)

\* The history h and the stream b of a Writer.
Chain(h, b) ==
    /\ b \in Seq(Byte) /\ IsSeq(h)
    /\ \A k \in 1 .. Len(h) : Link(Call(h, k - 1), h[k], b)
    /\ \A k \in 0 .. Len(h) : Proper(Call(h, k)) /\ Begins(Call(h, k).trees, Call(h, Len(h)).trees)
    /\ \A k \in 0 .. Len(h) - 1 : Earlier(Call(h, k), Call(h, Len(h)))
    /\ Call(h, Len(h)).end = Len(b)

\* The inductive invariant: the Reader has taken the first elements, and has
\* the trees the Writer had after them.
StreamInv ==
    /\ Chain(written, stream)
    /\ arrived \in Nat /\ at <= arrived /\ arrived <= Len(stream)
    /\ IsSeq(read) /\ Len(read) <= Len(written)
    /\ \A i \in 1 .. Len(read) : read[i] = written[i].elem
    /\ at = Call(written, Len(read)).end
    /\ roots = Call(written, Len(read)).trees
    /\ broken \in BOOLEAN
    /\ ~broken => open = Call(written, Len(read)).open
    /\ broken => Lost

\* Sequences of anything.
LEMMA AnySeq ==
    ASSUME NEW s
    PROVE  /\ IsSeq(s) => /\ Len(s) \in Nat /\ DOMAIN s = 1 .. Len(s)
                          /\ s # <<>> => Len(s) >= 1
           /\ \A S : s \in Seq(S) => IsSeq(s)
<1> DEFINE R == {s[i] : i \in DOMAIN s}
<1>1. ASSUME IsSeq(s)
      PROVE  Len(s) \in Nat /\ DOMAIN s = 1 .. Len(s) /\ (s # <<>> => Len(s) >= 1)
  <2>1. s \in Seq(R)
    BY <1>1, Zenon DEF IsSeq
  <2> HIDE DEF R
  <2>2. Len(s) \in Nat /\ DOMAIN s = 1 .. Len(s)
    BY <2>1, LenProperties, Zenon
  <2> QED
    BY <2>1, <2>2, EmptySeq
<1>2. ASSUME NEW S, s \in Seq(S) PROVE IsSeq(s)
  <2>1. s \in [1 .. Len(s) -> S] /\ Len(s) \in Nat /\ DOMAIN s = 1 .. Len(s)
    BY <1>2, LenProperties, Zenon
  <2>2. s \in [1 .. Len(s) -> R]
    BY <2>1, Zenon
  <2>3. s \in Seq(R)
    <3> HIDE DEF R
    <3> QED
      BY <2>1, <2>2, SeqDef, Zenon
  <2> QED
    BY <2>3, Zenon DEF IsSeq
<1> QED
  BY <1>1, <1>2, Zenon

\* A sequence with one more at its end.
LEMMA Longer ==
    ASSUME NEW s, IsSeq(s), NEW e
    PROVE  LET t == Append(s, e)
           IN  /\ IsSeq(t) /\ Len(s) \in Nat /\ Len(t) = Len(s) + 1 /\ t # <<>>
               /\ \A j \in 1 .. Len(s) : t[j] = s[j]
               /\ t[Len(s) + 1] = e
<1> DEFINE S == {s[i] : i \in DOMAIN s} \cup {e}
           t == Append(s, e)
<1>1. Len(s) \in Nat /\ DOMAIN s = 1 .. Len(s)
  BY AnySeq, Zenon
<1>2. s \in Seq(S) /\ e \in S
  <2>1. s \in Seq({s[i] : i \in DOMAIN s})
    BY Zenon DEF IsSeq
  <2>2. s \in [1 .. Len(s) -> {s[i] : i \in DOMAIN s}]
    BY <2>1, LenProperties, Zenon
  <2>3. s \in [1 .. Len(s) -> S] /\ e \in S
    BY <2>2, Zenon
  <2> HIDE DEF S
  <2> QED
    BY <1>1, <2>3, SeqDef, Zenon
<1> HIDE DEF S
<1>3. /\ t \in Seq(S) /\ Len(t) = Len(s) + 1
      /\ \A j \in 1 .. Len(s) : t[j] = s[j]
      /\ t[Len(s) + 1] = e
  BY <1>2, AppendProperties
<1>4. t # <<>>
  BY <1>1, <1>3
<1>5. IsSeq(t)
  BY <1>3, AnySeq, Zenon
<1> QED
  BY <1>1, <1>3, <1>4, <1>5, Zenon

\* Without its last element.
LEMMA Shorter ==
    ASSUME NEW s, IsSeq(s), s # <<>>
    PROVE  IsSeq(SubSeq(s, 1, Len(s) - 1))
<1> DEFINE S == {s[i] : i \in DOMAIN s}
<1>1. s \in Seq(S)
  BY Zenon DEF IsSeq
<1> HIDE DEF S
<1>2. Len(s) \in Nat /\ Len(s) >= 1
  BY AnySeq, Zenon
<1>3. SubSeq(s, 1, Len(s) - 1) \in Seq(S)
  BY <1>1, <1>2, SubSeqProperties
<1> QED
  BY <1>3, AnySeq, Zenon

\* Completing an element makes one more root, or leaves a container open.
LEMMA CompletedGrows ==
    ASSUME NEW c, NEW trees, NEW elem, IsSeq(c), IsSeq(trees)
    PROVE  LET T == Completed(c, trees, elem)
           IN  /\ IsSeq(T.open) /\ IsSeq(T.trees) /\ Begins(trees, T.trees)
               /\ T.open = <<>> => Len(trees) < Len(T.trees)
<1> DEFINE T == Completed(c, trees, elem)
<1>1. /\ T.open = IF c = <<>> THEN <<>> ELSE AppendElem(c, elem)
      /\ T.trees = IF c = <<>> THEN Append(trees, elem) ELSE trees
  BY Zenon DEF Completed
<1> HIDE DEF T
<1>2. CASE c = <<>>
  <2>1. T.open = <<>> /\ T.trees = Append(trees, elem)
    BY <1>1, <1>2, Zenon
  <2>2. IsSeq(T.open)
    BY <1>2, <2>1, Zenon
  <2>3. /\ IsSeq(T.trees) /\ Len(trees) \in Nat /\ Len(T.trees) = Len(trees) + 1
        /\ \A j \in 1 .. Len(trees) : T.trees[j] = trees[j]
    BY <2>1, Longer
  <2>4. Begins(trees, T.trees) /\ Len(trees) < Len(T.trees)
    BY <2>3 DEF Begins
  <2> QED
    BY <2>1, <2>2, <2>3, <2>4, Zenon DEF T
<1>3. CASE c # <<>>
  <2> DEFINE m == Len(c)
             a == AppendElem(c, elem)
  <2>1. T.open = a /\ T.trees = trees
    BY <1>1, <1>3, Zenon
  <2>2. m \in Nat /\ m >= 1 /\ DOMAIN c = 1 .. m
    BY <1>3, AnySeq, Zenon
  <2>3. DOMAIN a = 1 .. m
    BY <2>2, Zenon DEF AppendElem
  <2>4. a \in [1 .. m -> {a[i] : i \in 1 .. m}]
    <3>1. a = [i \in DOMAIN a |-> a[i]]
      BY ZenonT(60) DEF AppendElem
    <3> HIDE DEF a
    <3> QED
      BY <2>3, <3>1, Zenon
  <2> HIDE DEF a
  <2>5. a \in Seq({a[i] : i \in 1 .. m})
    <3> DEFINE S == {a[i] : i \in 1 .. m}
    <3> HIDE DEF S, m
    <3>1. a \in [1 .. m -> S]
      BY <2>4, Zenon DEF S
    <3>2. a \in Seq(S)
      BY <2>2, <3>1, SeqDef
    <3> QED
      BY <3>2, Zenon DEF S
  <2>6. IsSeq(a)
    BY <2>5, AnySeq, Zenon
  <2>7. a # <<>>
    <3>1. 1 \in DOMAIN a
      BY <2>2, <2>3
    <3> QED
      BY <3>1
  <2>8. Begins(trees, trees)
    BY AnySeq DEF Begins
  <2> QED
    BY <2>1, <2>6, <2>7, <2>8, Zenon DEF T
<1> QED
  BY <1>2, <1>3, Zenon

\* Taking an element, likewise.
LEMMA TakenGrows ==
    ASSUME NEW c, NEW trees, NEW elem, IsSeq(c), IsSeq(trees)
    PROVE  LET T == Taken(c, trees, elem)
           IN  /\ IsSeq(T.open) /\ IsSeq(T.trees) /\ Begins(trees, T.trees)
               /\ T.open = <<>> => Len(trees) < Len(T.trees)
<1> DEFINE T == Taken(c, trees, elem)
<1>1. CASE c # <<>> /\ elem.Type = TypeEndOfContainer
  <2> DEFINE d == SubSeq(c, 1, Len(c) - 1)
  <2>1. T = Completed(d, trees, c[Len(c)])
    BY <1>1, Zenon DEF Taken, Ended
  <2>2. IsSeq(d)
    BY <1>1, Shorter, Zenon
  <2> HIDE DEF d, T
  <2> QED
    BY <2>1, <2>2, CompletedGrows, Zenon DEF T
<1>2. CASE ~(c # <<>> /\ elem.Type = TypeEndOfContainer) /\ IsContainer(elem.Type)
  <2>1. T = [open |-> Append(c, elem), trees |-> trees]
    BY <1>2, Zenon DEF Taken
  <2> HIDE DEF T
  <2>2. T.open = Append(c, elem) /\ T.trees = trees
    BY <2>1, Zenon
  <2>3. IsSeq(T.open) /\ T.open # <<>>
    BY <2>2, Longer
  <2>4. Begins(trees, trees)
    BY AnySeq DEF Begins
  <2> QED
    BY <2>2, <2>3, <2>4, Zenon DEF T
<1>3. CASE ~(c # <<>> /\ elem.Type = TypeEndOfContainer) /\ ~IsContainer(elem.Type)
  <2>1. T = Completed(c, trees, elem)
    BY <1>3, Zenon DEF Taken
  <2> HIDE DEF T
  <2> QED
    BY <2>1, CompletedGrows, Zenon DEF T
<1> QED
  BY <1>1, <1>2, <1>3, Zenon

\* A call of the Writer adds to the history and to the stream.
LEMMA ChainGrows ==
    ASSUME NEW h, NEW b, NEW bytes, NEW e, Chain(h, b), Encodes(bytes, e.elem),
           e.elem.Tag = e.put.tag, Exact(e.elem, e.put), e.end = Len(b \o bytes),
           e.open = Taken(Call(h, Len(h)).open, Call(h, Len(h)).trees, e.elem).open,
           e.trees = Taken(Call(h, Len(h)).open, Call(h, Len(h)).trees, e.elem).trees
    PROVE  Chain(Append(h, e), b \o bytes)
<1> DEFINE m == Len(h)
           w == Call(h, m)
           h2 == Append(h, e)
           b2 == b \o bytes
<1>1. /\ b \in Seq(Byte) /\ IsSeq(h) /\ w.end = Len(b)
      /\ \A k \in 1 .. m : Link(Call(h, k - 1), h[k], b)
      /\ \A k \in 0 .. m : Proper(Call(h, k)) /\ Begins(Call(h, k).trees, w.trees)
      /\ \A k \in 0 .. m - 1 : Earlier(Call(h, k), w)
  BY Zenon DEF Chain
<1>2. /\ IsSeq(h2) /\ m \in Nat /\ Len(h2) = m + 1
      /\ \A j \in 1 .. m : h2[j] = h[j]
      /\ h2[m + 1] = e
  BY <1>1, Longer, ZenonT(60)
<1> HIDE DEF h2, m
<1>3. \A k \in 0 .. m : Call(h2, k) = Call(h, k)
  <2> TAKE k \in 0 .. m
  <2>1. CASE k = 0
    BY <2>1, Zenon DEF Call
  <2>2. CASE k # 0
    <3>1. k \in 1 .. m
      BY <1>2, <2>2
    <3> QED
      BY <1>2, <2>2, <3>1, Zenon DEF Call
  <2> QED
    BY <2>1, <2>2, Zenon
<1>4. Call(h2, m + 1) = e
  <2>1. m + 1 # 0
    BY <1>2
  <2> QED
    BY <1>2, <2>1, Zenon DEF Call
<1>5. bytes \in Seq(Byte) /\ Len(bytes) >= 1
  BY Zenon DEF Encodes
<1>6. /\ b2 \in Seq(Byte) /\ Len(b2) = Len(b) + Len(bytes) /\ Len(b) \in Nat
      /\ Len(bytes) \in Nat /\ Len(b) < Len(b2)
  BY <1>1, <1>5, ConcatProperties, LenProperties
<1>7. Slice(b2, Len(b), Len(b2)) = bytes
  <2>1. Slice(b2, Len(b), Len(b) + Len(bytes)) = bytes
    BY <1>1, <1>5, SliceOfSuffix, Zenon
  <2> QED
    BY <1>6, <2>1, Zenon
<1>8. e.end = Len(b2)
  BY Zenon DEF m, w
<1>9. Link(w, e, b2)
  <2>1. w.end < e.end /\ e.end <= Len(b2)
    BY <1>1, <1>6, <1>8
  <2>2. Encodes(Slice(b2, w.end, e.end), e.elem)
    BY <1>1, <1>7, <1>8, Zenon
  <2> QED
    BY <2>1, <2>2, ZenonT(60) DEF Link, m
<1>10. ASSUME NEW k \in 1 .. m PROVE Link(Call(h, k - 1), h[k], b2)
  <2> DEFINE v == Call(h, k - 1)
             z == Call(h, k)
  <2>1. k - 1 \in 0 .. m /\ k \in 0 .. m /\ k # 0
    BY <1>2
  <2>2. z = h[k]
    BY <2>1, Zenon DEF Call
  <2>3. v.end \in Nat /\ z.end \in Nat
    BY <1>1, <2>1, Zenon DEF Proper
  <2>4. Link(v, z, b)
    BY <1>1, <2>2, Zenon
  <2> HIDE DEF v, z
  <2>5. v.end < z.end /\ z.end <= Len(b) /\ Encodes(Slice(b, v.end, z.end), z.elem)
    BY <2>4, Zenon DEF Link
  <2>6. v.end <= z.end /\ z.end <= Len(b2)
    BY <1>6, <2>3, <2>5
  <2>7. Slice(b2, v.end, z.end) = Slice(b, v.end, z.end)
    BY <1>1, <1>5, <2>3, <2>5, <2>6, SliceOfPrefix, Zenon
  <2>8. Link(v, z, b2)
    BY <2>4, <2>5, <2>6, <2>7, ZenonT(60) DEF Link
  <2> QED
    BY <2>2, <2>8, Zenon DEF v
<1>11. m \in 0 .. m
  BY <1>2
<1>12. Proper(w)
  BY <1>1, <1>11, Zenon
<1>13. /\ IsSeq(e.open) /\ IsSeq(e.trees) /\ Begins(w.trees, e.trees)
       /\ e.open = <<>> => Len(w.trees) < Len(e.trees)
  BY <1>12, TakenGrows, Zenon DEF Proper, m
<1>14. Proper(e)
  <2>1. e.end \in Nat
    BY <1>6, <1>8
  <2> QED
    BY <1>13, <2>1, Zenon DEF Proper
<1>15. ASSUME NEW k \in 0 .. m
       PROVE  Begins(Call(h, k).trees, e.trees) /\ Earlier(Call(h, k), e)
  <2> DEFINE v == Call(h, k)
  <2>1. Proper(v) /\ Begins(v.trees, w.trees)
    BY <1>1, Zenon
  <2>2. k = m \/ Earlier(v, w)
    <3>1. k = m \/ k \in 0 .. m - 1
      BY <1>2, SMTT(60)
    <3> QED
      BY <1>1, <3>1, Zenon
  <2>3. v.end <= w.end
    <3>1. CASE k = m
      <4>1. w.end \in Nat /\ v = w
        BY <1>12, <3>1, Zenon DEF Proper
      <4> QED
        BY <4>1
    <3>2. CASE Earlier(v, w)
      <4>1. v.end < w.end /\ v.end \in Nat /\ w.end \in Nat
        BY <1>12, <2>1, <3>2, Zenon DEF Earlier, Proper
      <4> QED
        BY <4>1
    <3> QED
      BY <2>2, <3>1, <3>2, Zenon
  <2> HIDE DEF v, w
  <2>4. /\ Len(v.trees) \in Nat /\ Len(w.trees) \in Nat /\ Len(e.trees) \in Nat
        /\ v.end \in Nat /\ w.end \in Nat /\ e.end \in Nat
    BY <1>12, <1>13, <1>14, <2>1, AnySeq, ZenonT(60) DEF Proper
  <2>5. v.end < e.end
    BY <1>1, <1>6, <1>8, <2>3, <2>4, SMTT(60)
  <2>6. Begins(v.trees, e.trees)
    BY <1>13, <2>1, <2>4, SMTT(60) DEF Begins
  <2>7. e.open = <<>> => Len(v.trees) < Len(e.trees)
    BY <1>13, <2>1, <2>4, SMTT(60) DEF Begins
  <2> QED
    BY <2>5, <2>6, <2>7, Zenon DEF Earlier, v
<1>16. Begins(e.trees, e.trees)
  BY <1>13, AnySeq DEF Begins
<1> DEFINE z == Call(h2, Len(h2))
<1>17. z = e
  BY <1>2, <1>4, Zenon
<1> HIDE DEF z, w, b2
<1>18. ASSUME NEW k \in 1 .. Len(h2) PROVE Link(Call(h2, k - 1), h2[k], b2)
  <2>1. CASE k = m + 1
    <3>1. k - 1 = m
      BY <1>2, <2>1
    <3>2. Call(h2, k - 1) = w /\ h2[k] = e
      BY <1>2, <1>3, <1>11, <2>1, <3>1, Zenon DEF w
    <3> QED
      BY <1>9, <3>2, Zenon
  <2>2. CASE k # m + 1
    <3>1. k \in 1 .. m /\ k - 1 \in 0 .. m
      BY <1>2, <2>2, SMTT(60)
    <3> QED
      BY <1>2, <1>3, <1>10, <3>1, Zenon
  <2> QED
    BY <2>1, <2>2, Zenon
<1>19. ASSUME NEW k \in 0 .. Len(h2)
       PROVE  Proper(Call(h2, k)) /\ Begins(Call(h2, k).trees, z.trees)
  <2>1. CASE k = m + 1
    BY <1>4, <1>14, <1>16, <1>17, <2>1, Zenon
  <2>2. CASE k # m + 1
    <3>1. k \in 0 .. m
      BY <1>2, <2>2
    <3> QED
      BY <1>1, <1>3, <1>15, <1>17, <3>1, ZenonT(60)
  <2> QED
    BY <2>1, <2>2, Zenon
<1>20. ASSUME NEW k \in 0 .. Len(h2) - 1
       PROVE  Earlier(Call(h2, k), z)
  <2>1. k \in 0 .. m
    BY <1>2, SMTT(60)
  <2> QED
    BY <1>3, <1>15, <1>17, <2>1, ZenonT(60)
<1>21. z.end = Len(b2)
  BY <1>8, <1>17, Zenon
<1>22. Chain(h2, b2)
  BY <1>2, <1>6, <1>18, <1>19, <1>20, <1>21, Zenon DEF Chain, z
<1> QED
  BY <1>22, Zenon DEF h2, b2

\* Nothing is written and nothing read.
LEMMA StreamInitInv == StreamInit => StreamInv
<1> SUFFICES ASSUME StreamInit PROVE StreamInv
  BY Zenon
<1> DEFINE none == [open |-> <<>>, trees |-> <<>>, end |-> 0]
<1>1. /\ stream = <<>> /\ written = <<>> /\ arrived = 0 /\ at = 0 /\ read = <<>> /\ open = <<>>
      /\ roots = <<>> /\ broken = FALSE
  BY Zenon DEF StreamInit
<1>2. <<>> \in Seq(Byte) /\ Len(<<>>) = 0
  BY SMT
<1>3. IsSeq(<<>>)
  BY <1>2, AnySeq, Zenon
<1>4. \A h : Call(h, 0) = none
  BY Zenon DEF Call
<1>5. none.open = <<>> /\ none.trees = <<>> /\ none.end = 0
  BY Zenon
<1> HIDE DEF none
<1>6. Proper(none) /\ Begins(none.trees, none.trees)
  <2>1. 0 \in Nat /\ \A i \in 1 .. 0 : FALSE
    OBVIOUS
  <2>2. 0 <= 0
    OBVIOUS
  <2> QED
    BY <1>2, <1>3, <1>5, <2>1, <2>2, Zenon DEF Proper, Begins
<1>7. Chain(<<>>, <<>>)
  <2>1. (\A k \in 1 .. 0 : FALSE) /\ (\A k \in 0 .. 0 - 1 : FALSE) /\ \A k \in 0 .. 0 : k = 0
    BY SMT
  <2>2. \A k \in 1 .. Len(<<>>) : Link(Call(<<>>, k - 1), <<>>[k], <<>>)
    BY <1>2, <2>1, Zenon
  <2>3. \A k \in 0 .. Len(<<>>) :
            Proper(Call(<<>>, k)) /\ Begins(Call(<<>>, k).trees, Call(<<>>, Len(<<>>)).trees)
    BY <1>2, <1>4, <1>6, <2>1, Zenon
  <2>4. \A k \in 0 .. Len(<<>>) - 1 : Earlier(Call(<<>>, k), Call(<<>>, Len(<<>>)))
    BY <1>2, <2>1, Zenon
  <2>5. Call(<<>>, Len(<<>>)).end = Len(<<>>)
    BY <1>2, <1>4, <1>5, Zenon
  <2> QED
    BY <1>2, <1>3, <2>2, <2>3, <2>4, <2>5, ZenonT(60) DEF Chain
<1>8. arrived \in Nat /\ at <= arrived /\ arrived <= Len(stream) /\ Len(read) <= Len(written)
  BY <1>1, <1>2
<1>9. \A i \in 1 .. Len(read) : read[i] = written[i].elem
  BY <1>1, <1>2
<1>10. /\ at = Call(written, Len(read)).end /\ roots = Call(written, Len(read)).trees
       /\ open = Call(written, Len(read)).open
  BY <1>1, <1>2, <1>4, <1>5, Zenon
<1>11. broken \in BOOLEAN /\ ~broken
  BY <1>1, ZenonT(60)
<1>12. Chain(written, stream) /\ IsSeq(read)
  BY <1>1, <1>3, <1>7, Zenon
<1> QED
  BY <1>8, <1>9, <1>10, <1>11, <1>12, Zenon DEF StreamInv

\* Where the Reader is.
LEMMA InStep ==
    ASSUME StreamInv
    PROVE  /\ Len(read) \in Nat /\ Len(written) \in Nat /\ Len(read) \in 0 .. Len(written)
           /\ Len(stream) \in Nat /\ at \in Nat /\ arrived \in Nat /\ at <= arrived
           /\ arrived <= Len(stream)
<1>1. /\ IsSeq(written) /\ IsSeq(read) /\ Len(read) <= Len(written) /\ stream \in Seq(Byte)
      /\ at = Call(written, Len(read)).end /\ arrived \in Nat /\ at <= arrived
      /\ arrived <= Len(stream)
  BY Zenon DEF StreamInv, Chain
<1>2. Len(read) \in Nat /\ Len(written) \in Nat /\ Len(stream) \in Nat
  BY <1>1, AnySeq, LenProperties, Zenon
<1>3. Len(read) \in 0 .. Len(written)
  BY <1>1, <1>2
<1>4. at \in Nat
  BY <1>1, <1>3, Zenon DEF StreamInv, Chain, Proper
<1> QED
  BY <1>1, <1>2, <1>3, <1>4, Zenon

\* A call of the Writer, when its bytes are the element and the trees are what
\* a Reader makes of it.
LEMMA WriteInv ==
    ASSUME StreamInv, NEW put, NEW p, NEW elem, NEW trees, Write(put, p, elem, trees),
           ~put.err => Encodes(put.bytes, elem) /\ elem.Tag = p.tag /\ Exact(elem, p),
           LET w == After(Len(written))
           IN  /\ trees.open = Taken(w.open, w.trees, elem).open
               /\ trees.trees = Taken(w.open, w.trees, elem).trees
    PROVE  StreamInv'
<1> DEFINE e == [put |-> p, elem |-> elem, end |-> Len(stream'),
                 open |-> trees.open, trees |-> trees.trees]
           m == Len(written)
           w == Call(written, m)
<1>1. /\ ~put.err /\ ~Lost
      /\ stream' = stream \o put.bytes /\ arrived' = Len(stream') /\ written' = Append(written, e)
      /\ at' = at /\ read' = read /\ open' = open /\ roots' = roots /\ broken' = broken
  BY Zenon DEF Write, readerVars
<1>2. e.put = p /\ e.elem = elem /\ e.end = Len(stream') /\ e.open = trees.open /\ e.trees = trees.trees
  BY Zenon
<1>3. w = After(m)
  BY Zenon DEF Call, After
<1>4. Chain(written', stream')
  <2>1. e.end = Len(stream \o put.bytes)
    BY <1>1, <1>2, Zenon
  <2>2. /\ Encodes(put.bytes, e.elem) /\ e.elem.Tag = e.put.tag /\ Exact(e.elem, e.put)
        /\ e.open = Taken(w.open, w.trees, e.elem).open
        /\ e.trees = Taken(w.open, w.trees, e.elem).trees
    BY <1>1, <1>2, <1>3, Zenon
  <2>3. Chain(written, stream)
    BY Zenon DEF StreamInv
  <2> HIDE DEF e
  <2>4. Chain(Append(written, e), stream \o put.bytes)
    BY <2>1, <2>2, <2>3, ChainGrows, Zenon
  <2> QED
    BY <1>1, <2>4, Zenon
<1> HIDE DEF e
<1>5. IsSeq(written) /\ IsSeq(read) /\ Len(read) <= m /\ stream \in Seq(Byte) /\ stream' \in Seq(Byte)
  BY <1>4, Zenon DEF StreamInv, Chain
<1>6. /\ Len(read) \in Nat /\ m \in Nat /\ Len(stream) \in Nat /\ Len(stream') \in Nat
  BY <1>5, AnySeq, LenProperties, Zenon
<1>7. Len(written') = m + 1 /\ \A j \in 1 .. m : written'[j] = written[j]
  BY <1>1, <1>5, Longer, SMTT(60)
<1>8. Call(written', Len(read)) = Call(written, Len(read))
  <2>1. CASE Len(read) = 0
    BY <2>1, Zenon DEF Call
  <2>2. CASE Len(read) # 0
    <3>1. Len(read) \in 1 .. m
      BY <1>5, <1>6, <2>2, SMTT(60)
    <3> QED
      BY <1>7, <2>2, <3>1, ZenonT(60) DEF Call
  <2> QED
    BY <2>1, <2>2, Zenon
<1>9. Len(stream) <= Len(stream')
  <2>1. put.bytes \in Seq(Byte)
    BY <1>1, Zenon DEF Encodes
  <2> QED
    BY <1>1, <1>5, <2>1, ConcatProperties, LenProperties
<1>10. at <= arrived' /\ arrived' \in Nat /\ arrived' <= Len(stream')
  BY <1>1, <1>6, <1>9, InStep
<1>11. \A i \in 1 .. Len(read) : read[i] = written'[i].elem
  <2>1. \A i \in 1 .. Len(read) : i \in 1 .. m
    BY <1>5, <1>6, SMTT(60)
  <2> QED
    BY <1>7, <2>1, ZenonT(60) DEF StreamInv
<1>12. Len(read) <= Len(written')
  BY <1>5, <1>6, <1>7
<1>13. ~broken
  BY <1>1, Zenon DEF StreamInv
<1>14. broken \in BOOLEAN /\ at = Call(written, Len(read)).end
       /\ roots = Call(written, Len(read)).trees /\ open = Call(written, Len(read)).open
  BY <1>13, Zenon DEF StreamInv
<1> QED
  BY <1>1, <1>4, <1>5, <1>8, <1>10, <1>11, <1>12, <1>13, <1>14, Zenon DEF StreamInv

\* A value is complete as it is.
LEMMA TakenValue ==
    ASSUME NEW c, NEW trees, NEW e, e.Type \in 0 .. 20
    PROVE  Taken(c, trees, e) = Completed(c, trees, e)
<1>1. e.Type # TypeEndOfContainer /\ ~IsContainer(e.Type)
  BY SMT DEF TypeEndOfContainer, IsContainer, TypeStructure, TypeArray, TypeList
<1> QED
  BY <1>1, Zenon DEF Taken

\* The Put methods, and a nil.
LEMMA WriteValueInv == StreamInv /\ WriteValue => StreamInv'
<1> SUFFICES ASSUME StreamInv, WriteValue PROVE StreamInv'
  BY Zenon
<1> DEFINE w == After(Len(written))
<1>1. PICK p \in Puts : Write(encoded(p), p, Element(p), Completed(w.open, w.trees, Element(p)))
  BY Zenon DEF WriteValue
<1>2. ~encoded(p).err
  BY <1>1, Zenon DEF Write
<1>3. Encodes(encoded(p).bytes, Element(p)) /\ Means(Element(p), p)
  BY <1>2, ValueWritten, Zenon
<1>4. Element(p).Tag = p.tag /\ Exact(Element(p), p) /\ Element(p).Type \in 0 .. 20
  BY <1>3, Zenon DEF Means
<1>5. Taken(w.open, w.trees, Element(p)) = Completed(w.open, w.trees, Element(p))
  BY <1>4, TakenValue, Zenon
<1> QED
  BY <1>1, <1>3, <1>4, <1>5, WriteInv, Zenon

\* A number in more bytes than it takes.
LEMMA WriteWideInv == StreamInv /\ WriteWide => StreamInv'
<1> SUFFICES ASSUME StreamInv, WriteWide PROVE StreamInv'
  BY Zenon
<1> DEFINE w == After(Len(written))
<1>1. PICK p \in Puts, k \in 0 .. 3 :
          /\ \/ p.kind = "uint" /\ p.value = ZeroExtend(Truncate(p.value, 2 ^ k), 8)
             \/ p.kind = "int" /\ p.value = SignExtend(Truncate(p.value, 2 ^ k), 8)
          /\ Write(Put(p.tag, IntElement(p, k).Type, IntElement(p, k).Value), p, IntElement(p, k),
                   Completed(w.open, w.trees, IntElement(p, k)))
  BY Zenon DEF WriteWide
<1> DEFINE e == IntElement(p, k)
<1>2. ~Put(p.tag, e.Type, e.Value).err
  BY <1>1, Zenon DEF Write
<1>3. Encodes(Put(p.tag, e.Type, e.Value).bytes, e) /\ Means(e, p)
  BY <1>1, <1>2, WideWritten, Zenon
<1>4. e.Tag = p.tag /\ Exact(e, p) /\ e.Type \in 0 .. 20
  BY <1>3, Zenon DEF Means
<1>5. Taken(w.open, w.trees, e) = Completed(w.open, w.trees, e)
  BY <1>4, TakenValue, Zenon
<1> QED
  BY <1>1, <1>3, <1>4, <1>5, WriteInv, Zenon

\* StartContainer.
LEMMA WriteStartInv == StreamInv /\ WriteStart => StreamInv'
<1> SUFFICES ASSUME StreamInv, WriteStart PROVE StreamInv'
  BY Zenon
<1> DEFINE w == After(Len(written))
<1>1. PICK c \in Containers :
          Write(StartContainer(c.tag, c.type), [tag |-> c.tag, kind |-> "start", value |-> c.type],
                Leaf(c.tag, c.type, <<>>),
                [open |-> Append(w.open, Leaf(c.tag, c.type, <<>>)), trees |-> w.trees])
  BY Zenon DEF WriteStart
<1> DEFINE e == Leaf(c.tag, c.type, <<>>)
           p == [tag |-> c.tag, kind |-> "start", value |-> c.type]
           t == [open |-> Append(w.open, e), trees |-> w.trees]
           put == StartContainer(c.tag, c.type)
<1>2. Plain(c.tag) /\ IsContainer(c.type)
  BY StreamAssumption, Zenon
<1>3. c.type \in 20 .. 23 /\ c.type # TypeEndOfContainer
  BY <1>2, SMT DEF IsContainer, TypeStructure, TypeArray, TypeList, TypeEndOfContainer
<1>4. ~put.err => Encodes(put.bytes, e)
  BY <1>2, <1>3, PlainRead, Zenon DEF StartContainer
<1>5. e.Tag = c.tag /\ e.Type = c.type
  BY Zenon DEF Leaf
<1>6. p.tag = c.tag /\ p.kind = "start"
  BY Zenon
<1>7. e.Tag = p.tag /\ Exact(e, p)
  <2> HIDE DEF p, e
  <2>1. p.kind \notin {"int", "uint", "bytes", "string", "bool"}
    BY <1>6, Zenon
  <2> QED
    BY <1>5, <1>6, <2>1, Zenon DEF Exact
<1>8. Taken(w.open, w.trees, e) = t
  BY <1>2, <1>3, <1>5, Zenon DEF Taken
<1> HIDE DEF e, p, t, put
<1>9. Write(put, p, e, t)
  BY <1>1, Zenon DEF e, p, t, put
<1> QED
  BY <1>4, <1>7, <1>8, <1>9, WriteInv, Zenon

\* EndContainer.
LEMMA WriteEndInv == StreamInv /\ WriteEnd => StreamInv'
<1> SUFFICES ASSUME StreamInv, WriteEnd PROVE StreamInv'
  BY Zenon
<1> DEFINE w == After(Len(written))
           e == Leaf(Anonymous, TypeEndOfContainer, <<>>)
           p == [tag |-> Anonymous, kind |-> "end", value |-> <<>>]
<1>1. w.open # <<>> /\ Write(EndContainer, p, e, Ended(w.open, w.trees))
  BY Zenon DEF WriteEnd
<1>2. Encodes(EndContainer.bytes, e)
  BY ControlRead, Zenon
<1>3. e.Tag = Anonymous /\ e.Type = TypeEndOfContainer
  BY Zenon DEF Leaf
<1>4. p.tag = Anonymous /\ p.kind = "end"
  BY Zenon
<1> HIDE DEF e, p
<1>5. e.Tag = p.tag /\ Exact(e, p)
  <2>1. p.kind \notin {"int", "uint", "bytes", "string", "bool"}
    BY <1>4, Zenon
  <2> QED
    BY <1>3, <1>4, <2>1, Zenon DEF Exact
<1>6. Taken(w.open, w.trees, e) = Ended(w.open, w.trees)
  BY <1>1, <1>3, Zenon DEF Taken
<1> QED
  BY <1>1, <1>2, <1>5, <1>6, WriteInv, Zenon

\* Losing the end of the stream changes nothing that was written or read.
LEMMA LoseEndInv == StreamInv /\ LoseEnd => StreamInv'
<1> SUFFICES ASSUME StreamInv, LoseEnd PROVE StreamInv'
  BY Zenon
<1>1. PICK k \in at .. Len(stream) - 1 : arrived' = k
  BY Zenon DEF LoseEnd
<1>2. /\ ~broken /\ stream' = stream /\ written' = written
      /\ at' = at /\ read' = read /\ open' = open /\ roots' = roots /\ broken' = broken
  BY Zenon DEF LoseEnd, readerVars
<1>3. at \in Nat /\ Len(stream) \in Nat
  BY InStep, Zenon
<1>4. arrived' \in Nat /\ at <= arrived' /\ arrived' <= Len(stream)
  BY <1>1, <1>3
<1> QED
  BY <1>2, <1>4, Zenon DEF StreamInv

\* A slice in two parts.
LEMMA SliceParts ==
    ASSUME NEW b \in Seq(Byte), NEW i \in Nat, NEW j \in Nat, NEW k \in Nat, i <= j, j <= k,
           k <= Len(b)
    PROVE  /\ Slice(b, i, j) \in Seq(Byte) /\ Len(Slice(b, i, j)) = j - i
           /\ Slice(b, j, k) \in Seq(Byte) /\ Len(Slice(b, j, k)) = k - j
           /\ Slice(b, i, j) \o Slice(b, j, k) = Slice(b, i, k)
           /\ Slice(Slice(b, i, k), 0, j - i) = Slice(b, i, j)
<1> DEFINE p == j - i
           q == k - j
           x == Slice(b, i, j)
           y == Slice(b, j, k)
<1>1. /\ p \in Nat /\ q \in Nat /\ i + p = j /\ j + q = k /\ i + p + q = k
      /\ i + p <= Len(b) /\ j + q <= Len(b) /\ i + p + q <= Len(b)
  OBVIOUS
<1> HIDE DEF p, q
<1>2. x \in Seq(Byte) /\ Len(x) = p
  <2>1. Slice(b, i, i + p) \in Seq(Byte) /\ Len(Slice(b, i, i + p)) = p
    BY <1>1, SliceProperties, Zenon
  <2> QED
    BY <1>1, <2>1, Zenon
<1>3. y \in Seq(Byte) /\ Len(y) = q
  <2>1. Slice(b, j, j + q) \in Seq(Byte) /\ Len(Slice(b, j, j + q)) = q
    BY <1>1, SliceProperties, ZenonT(60)
  <2> QED
    BY <1>1, <2>1, Zenon
<1>4. x \o y = Slice(b, i, k)
  <2>1. Slice(b, i, i + p) \o Slice(b, i + p, i + p + q) = Slice(b, i, i + p + q)
    <3>1. p \in Nat /\ q \in Nat /\ i + p + q <= Len(b)
      BY <1>1, Zenon
    <3> QED
      BY <3>1, SliceSplit, ZenonT(60)
  <2> QED
    BY <1>1, <2>1, Zenon
<1> HIDE DEF x, y
<1>5. Slice(x \o y, 0, p) = x
  <2>1. 0 \in Nat /\ 0 <= p /\ p <= Len(x)
    BY <1>1, <1>2
  <2>2. Slice(x \o y, 0, p) = Slice(x, 0, p)
    BY <1>1, <1>2, <1>3, <2>1, SliceOfPrefix
  <2>3. Slice(x, 0, Len(x)) = x
    BY <1>2, SliceAll, Zenon
  <2> QED
    BY <1>2, <2>2, <2>3, Zenon
<1> QED
  BY <1>2, <1>3, <1>4, <1>5, Zenon DEF x, y, p, q

\* ReadElement takes the next element whole, or fails because it is cut.
LEMMA TakeInv == StreamInv /\ Read => StreamInv'
<1> SUFFICES ASSUME StreamInv, Read PROVE StreamInv'
  BY Zenon
<1> DEFINE r == Len(read)
           m == Len(written)
           w == Call(written, r)
           z == Call(written, r + 1)
           input == Slice(stream, at, arrived)
           in == ReadElement(input)
           next == Taken(open, roots, in.elem)
<1>1. /\ r \in Nat /\ m \in Nat /\ r \in 0 .. m
      /\ Len(stream) \in Nat /\ at \in Nat /\ arrived \in Nat /\ at <= arrived
      /\ arrived <= Len(stream)
  BY InStep, Zenon
<1>2. /\ Chain(written, stream) /\ IsSeq(read)
      /\ \A i \in 1 .. r : read[i] = written[i].elem
      /\ at = w.end /\ roots = w.trees /\ (~broken => open = w.open)
  BY Zenon DEF StreamInv
<1>3. /\ ~broken /\ (at < arrived \/ Lost) /\ stream' = stream /\ written' = written
      /\ arrived' = arrived
  BY Zenon DEF Read
<1>4. /\ in.err => /\ broken' = TRUE /\ open' = <<>> /\ at' = at /\ read' = read /\ roots' = roots
      /\ ~in.err => /\ at' = arrived - Len(in.rest) /\ read' = Append(read, in.elem)
                    /\ open' = next.open /\ roots' = next.trees /\ broken' = broken
  BY Zenon DEF Read, Slice
<1>5. /\ stream \in Seq(Byte) /\ Call(written, m).end = Len(stream)
      /\ \A k \in 1 .. m : Link(Call(written, k - 1), written[k], stream)
      /\ \A k \in 0 .. m : Proper(Call(written, k))
  BY <1>2, Zenon DEF Chain
<1> HIDE DEF r, m
<1>6. at < Len(stream)
  BY <1>1, <1>3 DEF Lost
<1>7. r # m
  <2> SUFFICES ASSUME r = m PROVE FALSE
    BY Zenon
  <2>1. at = Len(stream)
    BY <1>2, <1>5, Zenon
  <2> QED
    BY <1>1, <1>6, <2>1
<1>8. r + 1 \in 1 .. m /\ r + 1 \in 0 .. m /\ (r + 1) - 1 = r /\ r + 1 # 0 /\ r + 1 <= m
  BY <1>1, <1>7
<1>9. z = written[r + 1] /\ z.end \in Nat
  BY <1>5, <1>8, Zenon DEF Call, Proper
<1>10. Link(w, z, stream)
  BY <1>5, <1>8, <1>9, Zenon
<1> HIDE DEF w, z
<1>11. /\ w.end < z.end /\ z.end <= Len(stream) /\ Encodes(Slice(stream, w.end, z.end), z.elem)
       /\ z.open = Taken(w.open, w.trees, z.elem).open
       /\ z.trees = Taken(w.open, w.trees, z.elem).trees
  BY <1>10, Zenon DEF Link
<1>12. CASE arrived >= z.end
  <2> DEFINE rest == Slice(stream, z.end, arrived)
             bytes == Slice(stream, at, z.end)
  <2>1. at <= z.end /\ z.end <= arrived
    BY <1>1, <1>2, <1>9, <1>11, <1>12, SMTT(60)
  <2>2. rest \in Seq(Byte) /\ Len(rest) = arrived - z.end /\ bytes \o rest = input
    <3>1. /\ stream \in Seq(Byte) /\ at \in Nat /\ z.end \in Nat /\ arrived \in Nat
          /\ at <= z.end /\ z.end <= arrived /\ arrived <= Len(stream)
      BY <1>1, <1>5, <1>9, <2>1, Zenon
    <3>2. Slice(stream, z.end, arrived) \in Seq(Byte)
      BY <3>1, SliceParts, Zenon
    <3>3. Len(Slice(stream, z.end, arrived)) = arrived - z.end
      <4>1. arrived <= arrived
        BY <3>1
      <4> QED
        BY <3>1, <4>1, SliceParts, ZenonT(60)
    <3>4. Slice(stream, at, z.end) \o Slice(stream, z.end, arrived) = Slice(stream, at, arrived)
      BY <3>1, SliceParts, ZenonT(60)
    <3> QED
      BY <3>2, <3>3, <3>4, Zenon
  <2>3. in = [err |-> FALSE, elem |-> z.elem, rest |-> rest]
    <3>1. Encodes(bytes, z.elem)
      BY <1>2, <1>11, Zenon
    <3> QED
      BY <2>2, <3>1, Zenon DEF Encodes
  <2> HIDE DEF in, rest
  <2>4. ~in.err /\ in.elem = z.elem /\ in.rest = rest
    BY <2>3, Zenon
  <2>5. at' = z.end
    <3>1. at' = arrived - Len(rest)
      BY <1>4, <2>4, Zenon
    <3> QED
      BY <1>1, <1>9, <2>2, <3>1, SMTT(60)
  <2>6. open' = z.open /\ roots' = z.trees /\ read' = Append(read, z.elem) /\ ~broken'
    <3>1. open = w.open /\ roots = w.trees
      BY <1>2, <1>3, Zenon
    <3>2. next = Taken(w.open, w.trees, z.elem)
      BY <2>4, <3>1, Zenon
    <3> HIDE DEF next
    <3>3. /\ open' = next.open /\ roots' = next.trees /\ read' = Append(read, in.elem)
          /\ broken' = broken
      BY <1>4, <2>4, Zenon
    <3>4. next.open = z.open /\ next.trees = z.trees
      BY <1>11, <3>2, Zenon
    <3> QED
      BY <1>3, <2>4, <3>3, <3>4, Zenon
  <2>7. /\ IsSeq(read') /\ Len(read') = r + 1 /\ read'[r + 1] = z.elem
        /\ \A j \in 1 .. r : read'[j] = read[j]
    BY <1>2, <2>6, Longer DEF r
  <2>8. \A i \in 1 .. Len(read') : read'[i] = written[i].elem
    <3> TAKE i \in 1 .. Len(read')
    <3>1. CASE i = r + 1
      BY <1>9, <2>7, <3>1, Zenon
    <3>2. CASE i # r + 1
      <4>1. i \in 1 .. r
        BY <1>1, <2>7, <3>2
      <4> QED
        BY <1>2, <2>7, <4>1, ZenonT(60)
    <3> QED
      BY <3>1, <3>2, Zenon
  <2>9. Call(written, Len(read')) = z
    BY <2>7, Zenon DEF z
  <2>10. Len(read') <= Len(written)
    BY <1>8, <2>7, Zenon DEF m
  <2>11. broken' \in BOOLEAN
    BY <1>4, <2>4, Zenon DEF StreamInv
  <2> QED
    BY <1>1, <1>2, <1>3, <2>1, <2>5, <2>6, <2>7, <2>8, <2>9, <2>10, <2>11, ZenonT(60) DEF StreamInv
<1>13. CASE arrived < z.end
  <2> DEFINE bytes == Slice(stream, at, z.end)
             k == arrived - at
  <2>1. at <= arrived /\ arrived <= z.end /\ at <= z.end /\ k \in 0 .. (z.end - at) - 1
    BY <1>1, <1>2, <1>9, <1>11, <1>13, SMTT(60)
  <2>2. Slice(bytes, 0, k) = input
    <3>1. /\ stream \in Seq(Byte) /\ at \in Nat /\ z.end \in Nat /\ arrived \in Nat
          /\ at <= arrived /\ arrived <= z.end /\ z.end <= Len(stream)
      BY <1>1, <1>5, <1>9, <1>11, <2>1, Zenon
    <3> QED
      BY <3>1, SliceParts, ZenonT(60)
  <2>3. Len(bytes) = z.end - at
    <3>1. /\ stream \in Seq(Byte) /\ at \in Nat /\ z.end \in Nat
          /\ at <= z.end /\ z.end <= Len(stream)
      BY <1>1, <1>5, <1>9, <1>11, <2>1, Zenon
    <3>2. z.end <= z.end
      BY <3>1
    <3> QED
      BY <3>1, <3>2, SliceParts, Zenon
  <2> HIDE DEF k
  <2>4. in = Fail
    <3>1. Encodes(bytes, z.elem)
      BY <1>2, <1>11, Zenon
    <3> HIDE DEF bytes, input
    <3> QED
      BY <2>1, <2>2, <2>3, <3>1, Zenon DEF Encodes
  <2>5. in.err
    <3> HIDE DEF in
    <3> QED
      BY <2>4, Zenon DEF Fail
  <2>6. Lost'
    <3>1. arrived < Len(stream)
      BY <1>1, <1>9, <1>11, <1>13
    <3> QED
      BY <1>3, <3>1, ZenonT(60) DEF Lost
  <2>7. broken' = TRUE /\ at' = at /\ read' = read /\ roots' = roots
    BY <1>4, <2>5, Zenon
  <2>8. broken' \in BOOLEAN /\ broken'
    BY <2>7, Zenon
  <2> QED
    BY <1>1, <1>2, <1>3, <2>6, <2>7, <2>8, ZenonT(60) DEF StreamInv, w, r, m
<1> QED
  BY <1>1, <1>9, <1>12, <1>13, SMTT(60)

\* Every step keeps the invariant.
LEMMA StreamInvariance == StreamInv /\ [StreamNext]_streamVars => StreamInv'
<1> SUFFICES ASSUME StreamInv, [StreamNext]_streamVars PROVE StreamInv'
  BY Zenon
<1>1. CASE UNCHANGED streamVars
  <2>1. /\ stream' = stream /\ written' = written /\ arrived' = arrived /\ at' = at
        /\ read' = read /\ open' = open /\ roots' = roots /\ broken' = broken
    BY <1>1, Zenon DEF streamVars, readerVars
  <2>2. Lost' <=> Lost
    BY <2>1, Zenon DEF Lost
  <2> QED
    BY <2>1, <2>2, Zenon DEF StreamInv
<1> QED
  BY <1>1, WriteValueInv, WriteWideInv, WriteStartInv, WriteEndInv, LoseEndInv, TakeInv, Zenon
  DEF StreamNext

\* In every stream.
LEMMA StreamIsInv == StreamSpec => []StreamInv
BY StreamInitInv, StreamInvariance, PTL DEF StreamSpec

\* What was read is what was written.
LEMMA ReadIsWritten ==
    ASSUME StreamInv, NEW i \in DOMAIN read
    PROVE  read[i].Tag = written[i].put.tag /\ Exact(read[i], written[i].put)
<1>1. DOMAIN read = 1 .. Len(read)
  BY AnySeq, Zenon DEF StreamInv
<1>2. i \in 1 .. Len(read) /\ i \in 1 .. Len(written)
  BY <1>1, InStep
<1>3. read[i] = written[i].elem
  BY <1>2, Zenon DEF StreamInv
<1>4. Link(Call(written, i - 1), written[i], stream)
  BY <1>2, Zenon DEF StreamInv, Chain
<1> QED
  BY <1>3, <1>4, Zenon DEF Link

\* The Reader stays in step with the Writer, for streams of any length: the
\* elements ReadElement returns have the tags of those written, in their order,
\* and it fails on none unless bytes are missing.
THEOREM ReaderInStep == StreamSpec => []TagsInOrder
<1>1. StreamInv => TagsInOrder
  <2> SUFFICES ASSUME StreamInv PROVE TagsInOrder
    BY Zenon
  <2>1. (broken => Lost) /\ Len(read) <= Len(written)
    BY Zenon DEF StreamInv
  <2> QED
    BY <2>1, ReadIsWritten, Zenon DEF TagsInOrder
<1> QED
  BY <1>1, StreamIsInv, PTL

\* A number decodes to itself, from any number of bytes it fits, or is refused
\* because the variable is too small; texts, byte strings and booleans decode
\* to themselves.  For all numbers of 64 bits and all lengths up to 2^31 - 1.
THEOREM NumbersArrive == StreamSpec => []NumbersExact
<1>1. StreamInv => NumbersExact
  <2> SUFFICES ASSUME StreamInv PROVE NumbersExact
    BY Zenon
  <2> QED
    BY ReadIsWritten, Zenon DEF NumbersExact
<1> QED
  BY <1>1, StreamIsInv, PTL

\* The trees of the Reader and of the Writer.
LEMMA TreesInStep ==
    ASSUME StreamInv
    PROVE  LET z == After(Len(written))
           IN  /\ Begins(roots, z.trees) /\ DOMAIN roots = 1 .. Len(roots)
               /\ at = Len(stream) => roots = z.trees
               /\ Lost /\ z.open = <<>> => Len(roots) < Len(z.trees)
<1> DEFINE r == Len(read)
           m == Len(written)
           w == Call(written, r)
           z == Call(written, m)
<1>1. /\ r \in Nat /\ m \in Nat /\ r \in 0 .. m
      /\ Len(stream) \in Nat /\ at \in Nat /\ arrived \in Nat /\ at <= arrived
      /\ arrived <= Len(stream)
  BY InStep, Zenon
<1>2. Chain(written, stream) /\ at = w.end /\ roots = w.trees
  BY Zenon DEF StreamInv
<1>3. /\ Proper(w) /\ Begins(w.trees, z.trees) /\ z.end = Len(stream)
      /\ \A k \in 0 .. m - 1 : Earlier(Call(written, k), z)
  BY <1>1, <1>2, Zenon DEF Chain
<1>4. z = After(m)
  BY Zenon DEF Call, After
<1>5. DOMAIN roots = 1 .. Len(roots)
  BY <1>2, <1>3, AnySeq, Zenon DEF Proper
<1>6. r = m \/ Earlier(w, z)
  <2>1. r = m \/ r \in 0 .. m - 1
    BY <1>1
  <2> QED
    BY <1>3, <2>1, Zenon
<1>7. at = Len(stream) => r = m
  <2> SUFFICES ASSUME at = Len(stream), Earlier(w, z) PROVE FALSE
    BY <1>6, Zenon
  <2>1. at < Len(stream)
    BY <1>2, <1>3, Zenon DEF Earlier
  <2> QED
    BY <1>1, <2>1
<1>8. at = Len(stream) => roots = z.trees
  BY <1>2, <1>7, Zenon
<1>9. Lost => Earlier(w, z)
  <2> SUFFICES ASSUME Lost PROVE r # m
    BY <1>6, Zenon
  <2>1. at # Len(stream)
    BY <1>1 DEF Lost
  <2> QED
    BY <1>2, <1>3, <2>1, Zenon
<1>10. Lost /\ z.open = <<>> => Len(roots) < Len(z.trees)
  BY <1>2, <1>9, Zenon DEF Earlier
<1> QED
  BY <1>2, <1>3, <1>4, <1>5, <1>8, <1>10, ZenonT(60)

\* ReadContainerChildren rebuilds the trees, at any depth and in any number:
\* the roots the Reader has completed are the first of those written, with all
\* they contain, and all of them once it has read everything.
THEOREM TreesRebuilt == StreamSpec => []TreesArrive
<1>1. StreamInv => TreesArrive
  <2> SUFFICES ASSUME StreamInv PROVE TreesArrive
    BY Zenon
  <2> DEFINE trees == After(Len(written)).trees
  <2>1. Begins(roots, trees) /\ DOMAIN roots = 1 .. Len(roots) /\ (at = Len(stream) => roots = trees)
    BY TreesInStep, Zenon
  <2> QED
    BY <2>1, Zenon DEF TreesArrive, Begins
<1> QED
  BY <1>1, StreamIsInv, PTL

\* A root that lost its end, wherever it was cut, is not completed.
THEOREM NoCutTree == StreamSpec => []CutTreeRefused
<1>1. StreamInv => CutTreeRefused
  <2> SUFFICES ASSUME StreamInv PROVE CutTreeRefused
    BY Zenon
  <2> QED
    BY TreesInStep, Zenon DEF CutTreeRefused
<1> QED
  BY <1>1, StreamIsInv, PTL
=============================================================================
