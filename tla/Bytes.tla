------------------------------- MODULE Bytes --------------------------------
(***************************************************************************)
(* Machine integers and byte slices, as the two codecs of the stack        *)
(* (packages message and tlv) use them.                                    *)
(*                                                                         *)
(* An unsigned integer of n bytes is the sequence of its n digits to base  *)
(* 256, the most significant digit first, as one writes numbers.  Go's     *)
(* conversions between widths and the byte order of encoding/binary are    *)
(* then exact for all 64 bits, which the integers of TLC are not.          *)
(***************************************************************************)
EXTENDS Integers, Sequences, Functions

Byte == 0 .. 255

\* The integers of n bytes.
Uint(n) == [1 .. n -> Byte]

Fill(n, byte) == [i \in 1 .. n |-> byte]

Zero(n) == Fill(n, 0)

\* binary.LittleEndian, both ways: the least significant byte comes first.
LittleEndian(x) == [i \in 1 .. Len(x) |-> x[Len(x) - i + 1]]

\* Conversion to a narrower type drops the leading digits.
Truncate(x, n) == SubSeq(x, Len(x) - n + 1, Len(x))

\* Conversion of an unsigned integer to a wider type.
ZeroExtend(x, n) == Zero(n - Len(x)) \o x

\* Conversion of a signed integer (two's complement) to a wider type.
SignExtend(x, n) == Fill(n - Len(x), IF x[1] >= 128 THEN 255 ELSE 0) \o x

\* The slice expression b[from:to].
Slice(b, from, to) == SubSeq(b, from + 1, to)

\* a is what is left of b when some of its end is lost.
CutShort(a, b) == \E n \in 0 .. Len(b) - 1 : a = Slice(b, 0, n)
=============================================================================
