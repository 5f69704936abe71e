----------------------------- MODULE DataProofs -----------------------------
(***************************************************************************)
(* Facts about the data that several components share: integers and        *)
(* slices as sequences of bytes, for every width and length, and what      *)
(* check and its closure do to a replay window, for every window size and  *)
(* every set of counters accepted before.                                  *)
(***************************************************************************)
EXTENDS Bytes, ReplayWindow, SequenceTheorems, TLAPS

-----------------------------------------------------------------------------
(* Bytes *)

\* The integers of size bytes are the byte sequences of length size.
LEMMA UintIsSeq ==
    ASSUME NEW size \in Nat, NEW x
    PROVE  x \in Uint(size) <=> x \in Seq(Byte) /\ Len(x) = size
<1>1. ASSUME x \in Uint(size) PROVE x \in Seq(Byte) /\ Len(x) = size
  BY <1>1 DEF Uint
<1>2. ASSUME x \in Seq(Byte), Len(x) = size PROVE x \in Uint(size)
  BY <1>2, LenProperties DEF Uint
<1> QED
  BY <1>1, <1>2

\* Reversal keeps the length, and doing it twice does nothing.
LEMMA LittleEndianTwice ==
    ASSUME NEW size \in Nat, NEW x \in Uint(size)
    PROVE  LittleEndian(x) \in Uint(size) /\ LittleEndian(LittleEndian(x)) = x
<1> DEFINE y == LittleEndian(x)
<1>1. Len(x) = size
  BY UintIsSeq
<1>2. y = [i \in 1 .. size |-> x[(size - i) + 1]]
  BY <1>1 DEF LittleEndian
<1>3. y \in Uint(size)
  BY <1>2 DEF Uint
<1> HIDE DEF y
<1>4. LittleEndian(y) = [i \in 1 .. size |-> y[(size - i) + 1]]
  BY <1>3, UintIsSeq DEF LittleEndian
<1>5. ASSUME NEW i \in 1 .. size PROVE y[(size - i) + 1] = x[i]
  <2>1. (size - i) + 1 \in 1 .. size /\ (size - ((size - i) + 1)) + 1 = i
    OBVIOUS
  <2> QED
    BY <1>2, <2>1
<1>6. LittleEndian(y) = [i \in 1 .. size |-> x[i]]
  BY <1>4, <1>5
<1> QED
  BY <1>3, <1>6 DEF Uint, y

\* A slice within bounds.
LEMMA SliceProperties ==
    ASSUME NEW b \in Seq(Byte), NEW from \in Nat, NEW size \in Nat, from + size <= Len(b)
    PROVE  /\ Slice(b, from, from + size) \in Seq(Byte)
           /\ Len(Slice(b, from, from + size)) = size
           /\ \A i \in 1 .. size : Slice(b, from, from + size)[i] = b[from + i]
<1> DEFINE m == from + 1
           k == from + size
<1>1. \A i \in m .. k : b[i] \in Byte
  BY LenProperties
<1>2. m \in Int /\ k \in Int
  OBVIOUS
<1> HIDE DEF m, k
<1>3. /\ SubSeq(b, m, k) \in Seq(Byte)
      /\ Len(SubSeq(b, m, k)) = IF m <= k THEN k - m + 1 ELSE 0
      /\ \A i \in 1 .. k - m + 1 : SubSeq(b, m, k)[i] = b[m + i - 1]
  BY <1>1, <1>2, SubSeqProperties
<1>4. /\ k - m + 1 = size /\ (~(m <= k) => size = 0)
      /\ \A i \in 1 .. size : m + i - 1 = from + i
  BY DEF m, k
<1>5. \A i \in 1 .. size : SubSeq(b, m, k)[i] = b[from + i]
  BY SMTT(60), <1>3, <1>4
<1>6. Len(SubSeq(b, m, k)) = size
  BY <1>3, <1>4
<1> QED
  BY <1>3, <1>5, <1>6, SMTT(60) DEF Slice, m, k

\* What comes after b does not matter to a slice of b.
LEMMA SliceOfPrefix ==
    ASSUME NEW b \in Seq(Byte), NEW c \in Seq(Byte), NEW from \in Nat, NEW to \in Nat,
           from <= to, to <= Len(b)
    PROVE  Slice(b \o c, from, to) = Slice(b, from, to)
<1> DEFINE size == to - from
<1>0. size \in Nat /\ from + size = to /\ from + size <= Len(b)
  BY LenProperties
<1> HIDE DEF size
<1> DEFINE s == Slice(b \o c, from, from + size)
           t == Slice(b, from, from + size)
<1>1. /\ b \o c \in Seq(Byte) /\ Len(b \o c) = Len(b) + Len(c)
      /\ Len(b) \in Nat /\ Len(c) \in Nat
  BY ConcatProperties, LenProperties
<1>2. \A i \in 1 .. Len(b) : (b \o c)[i] = b[i]
  BY <1>1, ConcatProperties
<1>3. from + size <= Len(b \o c)
  BY <1>0, <1>1
<1>4. s \in Seq(Byte) /\ Len(s) = size /\ \A i \in 1 .. size : s[i] = (b \o c)[from + i]
  <2> DEFINE d == b \o c
  <2> HIDE DEF d
  <2>1. d \in Seq(Byte) /\ from + size <= Len(d)
    BY <1>1, <1>3 DEF d
  <2>2. /\ Slice(d, from, from + size) \in Seq(Byte) /\ Len(Slice(d, from, from + size)) = size
        /\ \A i \in 1 .. size : Slice(d, from, from + size)[i] = d[from + i]
    BY ZenonT(60), <1>0, <2>1, SliceProperties
  <2> QED
    BY Zenon, <2>2 DEF d
<1>5. t \in Seq(Byte) /\ Len(t) = size /\ \A i \in 1 .. size : t[i] = b[from + i]
  BY ZenonT(60), <1>0, SliceProperties
<1>6. \A i \in 1 .. size : from + i \in 1 .. Len(b)
  BY <1>0, <1>1
<1> HIDE DEF s, t
<1>7. \A i \in 1 .. size : s[i] = t[i]
  BY SMTT(60), <1>2, <1>4, <1>5, <1>6
<1>8. s = t
  BY <1>4, <1>5, <1>7, SeqEqual
<1> QED
  BY <1>0, <1>8 DEF s, t

\* The slice from the end of b is what comes after b.
LEMMA SliceOfSuffix ==
    ASSUME NEW b \in Seq(Byte), NEW c \in Seq(Byte)
    PROVE  Slice(b \o c, Len(b), Len(b) + Len(c)) = c
<1> DEFINE s == Slice(b \o c, Len(b), Len(b) + Len(c))
<1>1. /\ b \o c \in Seq(Byte) /\ Len(b \o c) = Len(b) + Len(c)
      /\ Len(b) \in Nat /\ Len(c) \in Nat
  BY ConcatProperties, LenProperties
<1>2. \A i \in 1 .. Len(c) : (b \o c)[Len(b) + i] = c[i]
  BY <1>1, ConcatProperties
<1>3. Len(b) + Len(c) <= Len(b \o c)
  BY <1>1
<1>4. s \in Seq(Byte) /\ Len(s) = Len(c) /\ \A i \in 1 .. Len(c) : s[i] = (b \o c)[Len(b) + i]
  BY ZenonT(60), <1>1, <1>3, SliceProperties
<1> HIDE DEF s
<1>5. s = c
  BY <1>2, <1>4, SeqEqual
<1> QED
  BY <1>5 DEF s

\* Two adjacent slices make one.
LEMMA SliceSplit ==
    ASSUME NEW b \in Seq(Byte), NEW from \in Nat, NEW size \in Nat, NEW k \in Nat,
           from + size + k <= Len(b)
    PROVE  Slice(b, from, from + size) \o Slice(b, from + size, from + size + k)
               = Slice(b, from, from + size + k)
<1> DEFINE s == Slice(b, from, from + size)
           t == Slice(b, from + size, from + size + k)
           u == Slice(b, from, from + size + k)
           mid == from + size
           nk == size + k
<1>1. /\ mid \in Nat /\ mid + k <= Len(b) /\ nk \in Nat /\ from + nk <= Len(b)
      /\ from + size <= Len(b) /\ from + nk = from + size + k
  BY LenProperties
<1>2. s \in Seq(Byte) /\ Len(s) = size /\ \A i \in 1 .. size : s[i] = b[from + i]
  BY ZenonT(60), <1>1, SliceProperties
<1>3. t \in Seq(Byte) /\ Len(t) = k /\ \A i \in 1 .. k : t[i] = b[mid + i]
  <2> HIDE DEF mid
  <2>1. /\ Slice(b, mid, mid + k) \in Seq(Byte) /\ Len(Slice(b, mid, mid + k)) = k
        /\ \A i \in 1 .. k : Slice(b, mid, mid + k)[i] = b[mid + i]
    BY <1>1, SliceProperties
  <2> QED
    BY <2>1 DEF mid
<1>4. u \in Seq(Byte) /\ Len(u) = nk /\ \A i \in 1 .. nk : u[i] = b[from + i]
  <2> HIDE DEF nk
  <2>1. /\ Slice(b, from, from + nk) \in Seq(Byte) /\ Len(Slice(b, from, from + nk)) = nk
        /\ \A i \in 1 .. nk : Slice(b, from, from + nk)[i] = b[from + i]
    BY ZenonT(60), <1>1, SliceProperties
  <2> QED
    BY ZenonT(60), <1>1, <2>1
<1> HIDE DEF s, t, u
<1>5. /\ s \o t \in Seq(Byte)
      /\ Len(s \o t) = nk
      /\ \A i \in 1 .. nk : (s \o t)[i] = IF i <= size THEN s[i] ELSE t[i - size]
  BY ZenonT(60), <1>2, <1>3, ConcatProperties
<1>6. ASSUME NEW i \in 1 .. nk PROVE (s \o t)[i] = u[i]
  <2>1. CASE i <= size
    <3>1. i \in 1 .. size
      BY <2>1
    <3>2. (s \o t)[i] = s[i]
      BY <1>5, <2>1, ZenonT(60)
    <3> QED
      BY <1>2, <1>4, <3>1, <3>2, SMTT(60)
  <2>2. CASE ~(i <= size)
    <3>1. i - size \in 1 .. k /\ mid + (i - size) = from + i
      BY <2>2
    <3>2. (s \o t)[i] = t[i - size]
      BY <1>5, <2>2
    <3>3. t[i - size] = b[mid + (i - size)]
      BY <1>3, <3>1
    <3> QED
      BY <1>4, <3>1, <3>2, <3>3, SMTT(60)
  <2> QED
    BY ZenonT(60), <2>1, <2>2
<1>7. s \o t = u
  BY ZenonT(60), <1>4, <1>5, <1>6, SeqEqual
<1> QED
  BY <1>7 DEF s, t, u

\* All of b, and one byte of it.
LEMMA SliceAll ==
    ASSUME NEW b \in Seq(Byte)
    PROVE  /\ Slice(b, 0, Len(b)) = b
           /\ \A i \in 1 .. Len(b) : Slice(b, i - 1, i) = <<b[i]>>
<1>1. Slice(b, 0, Len(b)) = b
  BY SubSeqFull DEF Slice
<1>2. ASSUME NEW i \in 1 .. Len(b) PROVE Slice(b, i - 1, i) = <<b[i]>>
  <2>1. i \in Int /\ b[i] \in Byte /\ (i - 1) + 1 = i
    BY LenProperties
  <2>2. \A j \in i .. i : b[j] \in Byte
    BY <2>1
  <2>3. /\ SubSeq(b, i, i) \in Seq(Byte)
        /\ Len(SubSeq(b, i, i)) = IF i <= i THEN i - i + 1 ELSE 0
        /\ \A j \in 1 .. i - i + 1 : SubSeq(b, i, i)[j] = b[i + j - 1]
    BY <2>1, <2>2, SubSeqProperties
  <2>4. Len(SubSeq(b, i, i)) = 1 /\ SubSeq(b, i, i)[1] = b[i]
    BY <2>1, <2>3
  <2>5. <<b[i]>> \in Seq(Byte) /\ Len(<<b[i]>>) = 1 /\ <<b[i]>>[1] = b[i]
    BY <2>1
  <2>6. \A j \in 1 .. 1 : SubSeq(b, i, i)[j] = <<b[i]>>[j]
    BY <2>4, <2>5
  <2>7. SubSeq(b, i, i) = <<b[i]>>
    BY ZenonT(60), <2>3, <2>4, <2>5, <2>6, SeqEqual
  <2> QED
    BY <2>1, <2>7 DEF Slice
<1> QED
  BY <1>1, <1>2

\* A narrowed integer has its type.
LEMMA TruncateType ==
    ASSUME NEW m \in Nat, NEW size \in 0 .. m, NEW x \in Uint(m)
    PROVE  Truncate(x, size) \in Uint(size)
<1> DEFINE from == m - size
<1>1. x \in Seq(Byte) /\ Len(x) = m
  BY UintIsSeq
<1>2. from \in Nat /\ from + size = m /\ size \in Nat
  OBVIOUS
<1> HIDE DEF from
<1>3. Truncate(x, size) = Slice(x, from, from + size)
  BY <1>1, <1>2 DEF Truncate, Slice, from
<1>4. Slice(x, from, from + size) \in Seq(Byte) /\ Len(Slice(x, from, from + size)) = size
  BY SMTT(60), <1>1, <1>2, SliceProperties
<1> QED
  BY <1>2, <1>3, <1>4, UintIsSeq

\* A widened integer has its type, and narrowing gives it back.
LEMMA ExtendTruncate ==
    ASSUME NEW m \in Nat, NEW size \in 0 .. m, NEW x \in Uint(size)
    PROVE  ZeroExtend(x, m) \in Uint(m) /\ Truncate(ZeroExtend(x, m), size) = x
<1> DEFINE k == m - size
           z == Zero(k)
<1>1. size \in Nat /\ k \in Nat /\ k + size = m
  OBVIOUS
<1>2. x \in Seq(Byte) /\ Len(x) = size
  BY <1>1, UintIsSeq
<1> HIDE DEF k
<1>3. z \in Uint(k)
  BY DEF Zero, Fill, Uint, Byte
<1>4. z \in Seq(Byte) /\ Len(z) = k
  BY <1>1, <1>3, UintIsSeq
<1>5. ZeroExtend(x, m) = z \o x
  BY <1>2 DEF ZeroExtend, k
<1> HIDE DEF z
<1>6. z \o x \in Seq(Byte) /\ Len(z \o x) = m
  <2>1. z \o x \in Seq(Byte) /\ Len(z \o x) = Len(z) + Len(x)
    BY <1>2, <1>4, ConcatProperties, Zenon
  <2> QED
    BY <1>1, <1>2, <1>4, <2>1
<1>7. Truncate(z \o x, size) = Slice(z \o x, Len(z), Len(z) + Len(x))
  BY <1>1, <1>2, <1>4, <1>6 DEF Truncate, Slice, k
<1>8. Truncate(z \o x, size) = x
  BY SMTT(60), <1>2, <1>4, <1>7, SliceOfSuffix
<1> QED
  BY ZenonT(60), <1>5, <1>6, <1>8, UintIsSeq

\* Concatenation of byte sequences is associative.
LEMMA Associative ==
    ASSUME NEW a \in Seq(Byte), NEW b \in Seq(Byte), NEW c \in Seq(Byte)
    PROVE  (a \o b) \o c = a \o (b \o c)
BY SMTT(60), ConcatAssociative

\* A field between what comes before and what comes after it.
LEMMA SliceOfField ==
    ASSUME NEW a \in Seq(Byte), NEW x \in Seq(Byte), NEW r \in Seq(Byte)
    PROVE  Slice(a \o (x \o r), Len(a), Len(a) + Len(x)) = x
<1>1. /\ a \o x \in Seq(Byte) /\ Len(a \o x) = Len(a) + Len(x)
      /\ Len(a) \in Nat /\ Len(x) \in Nat
  BY ConcatProperties, LenProperties
<1>2. /\ Len(a) + Len(x) \in Nat /\ Len(a) <= Len(a) + Len(x)
      /\ Len(a) + Len(x) <= Len(a \o x)
  BY <1>1
<1>3. a \o (x \o r) = (a \o x) \o r
  BY Zenon, Associative
<1>4. Slice((a \o x) \o r, Len(a), Len(a) + Len(x)) = Slice(a \o x, Len(a), Len(a) + Len(x))
  BY ZenonT(60), <1>1, <1>2, SliceOfPrefix
<1> QED
  BY Zenon, <1>3, <1>4, SliceOfSuffix

\* A field read from the wire: it has its type, it is written as it was read,
\* and widening it loses nothing.
LEMMA FieldRead ==
    ASSUME NEW b \in Seq(Byte), NEW from \in Nat, NEW size \in Nat, NEW to \in Nat,
           to = from + size, to <= Len(b), NEW m \in Nat, size <= m
    PROVE  LET x == LittleEndian(Slice(b, from, to))
           IN  /\ x \in Uint(size)
               /\ LittleEndian(x) = Slice(b, from, to)
               /\ ZeroExtend(x, m) \in Uint(m)
               /\ Truncate(ZeroExtend(x, m), size) = x
<1> DEFINE s == Slice(b, from, to)
           x == LittleEndian(s)
<1>1. s \in Seq(Byte) /\ Len(s) = size
  <2>1. from + size <= Len(b)
    OBVIOUS
  <2>2. Slice(b, from, from + size) \in Seq(Byte) /\ Len(Slice(b, from, from + size)) = size
    BY SMTT(60), <2>1, SliceProperties
  <2> QED
    BY Zenon, <2>2
<1> HIDE DEF s
<1>2. s \in Uint(size)
  BY SMTT(60), <1>1, UintIsSeq
<1>3. x \in Uint(size) /\ LittleEndian(x) = s
  BY <1>2, LittleEndianTwice
<1> HIDE DEF x
<1>4. size \in 0 .. m
  OBVIOUS
<1>5. ZeroExtend(x, m) \in Uint(m) /\ Truncate(ZeroExtend(x, m), size) = x
  BY Zenon, <1>3, <1>4, ExtendTruncate
<1> QED
  BY Zenon, <1>3, <1>5 DEF s, x

\* The part of b before m and the size bytes after it.
LEMMA PrefixAndNext ==
    ASSUME NEW b \in Seq(Byte), NEW m \in Nat, NEW size \in Nat, m + size <= Len(b)
    PROVE  Slice(b, 0, m) \o Slice(b, m, m + size) = Slice(b, 0, m + size)
<1>1. 0 \in Nat /\ 0 + m = m /\ 0 + m + size = m + size /\ 0 + m + size <= Len(b)
  OBVIOUS
<1>2. Slice(b, 0, 0 + m) \o Slice(b, 0 + m, 0 + m + size) = Slice(b, 0, 0 + m + size)
  BY Zenon, <1>1, SliceSplit
<1> QED
  BY Zenon, <1>1, <1>2

\* The part of b before m and the part from m to k.
LEMMA PrefixGrows ==
    ASSUME NEW b \in Seq(Byte), NEW m \in Nat, NEW k \in Nat, m <= k, k <= Len(b)
    PROVE  Slice(b, 0, m) \o Slice(b, m, k) = Slice(b, 0, k)
<1> DEFINE size == k - m
<1>1. size \in Nat /\ m + size = k /\ m + size <= Len(b)
  OBVIOUS
<1> HIDE DEF size
<1> QED
  BY Zenon, <1>1, PrefixAndNext

\* The part of b before size, and the rest.
LEMMA Halves ==
    ASSUME NEW b \in Seq(Byte), NEW size \in Nat, size <= Len(b)
    PROVE  /\ Slice(b, 0, size) \in Seq(Byte) /\ Len(Slice(b, 0, size)) = size
           /\ Slice(b, size, Len(b)) \in Seq(Byte)
           /\ Slice(b, 0, size) \o Slice(b, size, Len(b)) = b
<1> DEFINE k == Len(b) - size
<1>1. Len(b) \in Nat
  BY LenProperties
<1>2. k \in Nat /\ size + k = Len(b) /\ size + k <= Len(b)
  BY <1>1
<1> HIDE DEF k
<1>3. Slice(b, size, size + k) \in Seq(Byte)
  BY Zenon, <1>2, SliceProperties
<1>4. 0 \in Nat /\ 0 + size = size /\ 0 + size <= Len(b)
  OBVIOUS
<1>5. Slice(b, 0, 0 + size) \in Seq(Byte) /\ Len(Slice(b, 0, 0 + size)) = size
  BY Zenon, <1>4, SliceProperties
<1>6. Slice(b, 0, size) \o Slice(b, size, size + k) = Slice(b, 0, size + k)
  BY Zenon, <1>2, PrefixAndNext
<1> QED
  BY Zenon, <1>2, <1>3, <1>4, <1>5, <1>6, SliceAll

-----------------------------------------------------------------------------
(* The replay window *)

\* A commit keeps the window a number and a word of WindowSize bits.
LEMMA CommitType ==
    ASSUME NEW w \in [max : Nat, bitmap : SUBSET Bit],
           NEW c \in Nat \ {0},
           Accepts(w, c)
    PROVE  Commit(w, c) \in [max : Nat, bitmap : SUBSET Bit]
<1> USE WindowSizeAssumption
<1>1. CASE w.max = 0
  BY <1>1 DEF Commit
<1>2. CASE w.max # 0 /\ c > w.max
  <2>1. c - w.max \in Nat \ {0}
    BY <1>2
  <2>2. CASE c - w.max >= WindowSize
    BY <1>2, <2>2 DEF Commit
  <2>3. CASE c - w.max < WindowSize
    <3>1. ShiftLeft(w.bitmap, c - w.max) \in SUBSET Bit
      BY DEF ShiftLeft
    <3>2. c - w.max - 1 \in Bit
      BY <2>1, <2>3 DEF Bit
    <3> QED
      BY <1>2, <2>1, <2>3, <3>1, <3>2 DEF Commit
  <2> QED
    BY <2>1, <2>2, <2>3
<1>3. CASE w.max # 0 /\ ~(c > w.max)
  <2>1. w.max - c - 1 \in Bit
    BY <1>3 DEF Accepts, Bit
  <2> QED
    BY <1>3, <2>1 DEF Commit
<1> QED
  BY <1>1, <1>2, <1>3

\* Committing a counter up to n keeps max there.
LEMMA CommitBounded ==
    ASSUME NEW n \in Nat,
           NEW w \in [max : 0 .. n, bitmap : SUBSET Bit],
           NEW c \in 1 .. n,
           Accepts(w, c)
    PROVE  Commit(w, c) \in [max : 0 .. n, bitmap : SUBSET Bit]
<1>1. w \in [max : Nat, bitmap : SUBSET Bit] /\ c \in Nat \ {0}
  OBVIOUS
<1>2. Commit(w, c) \in [max : Nat, bitmap : SUBSET Bit]
  BY <1>1, CommitType
<1>3. Commit(w, c).max \in {w.max, c}
  BY <1>1 DEF Commit
<1> QED
  BY <1>2, <1>3

\* A window no counter has reached describes the empty set.
LEMMA EmptyDescribes == Describes(EmptyWindow, {})
  BY DEF Describes, EmptyWindow

\* The heart of the matter: committing a counter that check accepts keeps the
\* bitmap sound, and complete up to the last position.
LEMMA CommitDescribes ==
    ASSUME NEW w \in [max : Nat, bitmap : SUBSET Bit],
           NEW acc \in SUBSET (Nat \ {0}),
           NEW c \in Nat \ {0},
           Describes(w, acc),
           Accepts(w, c)
    PROVE  Describes(Commit(w, c), acc \cup {c})
<1> USE WindowSizeAssumption
<1> DEFINE w2   == Commit(w, c)
           acc2 == acc \cup {c}
<1> SUFFICES Describes(w2, acc2)
  OBVIOUS
<1>1. CASE w.max = 0
  <2>1. acc = {} /\ w.bitmap = {}
    BY <1>1 DEF Describes
  <2>2. w2.max = c /\ w2.bitmap = {} /\ acc2 = {c}
    BY <1>1, <2>1 DEF Commit
  <2> QED
    BY <2>2 DEF Describes
<1>2. CASE w.max # 0 /\ c > w.max
  <2> DEFINE shift == c - w.max
  <2>1. shift \in Nat \ {0} /\ w.max \in Nat
    BY <1>2
  <2>2. w2.max = c
    BY <1>2 DEF Commit
  <2>3. w2.bitmap = IF shift >= WindowSize THEN {}
                    ELSE ShiftLeft(w.bitmap, shift) \cup {shift - 1}
    BY <1>2 DEF Commit
  <2>4. w.max \in acc /\ \A a \in acc : a <= w.max
    BY <1>2 DEF Describes
  <2>5. c = w.max + shift
    BY <2>1
  <2> HIDE DEF shift, w2
  <2>6. /\ w2.max # 0
        /\ w2.max \in acc2
        /\ \A a \in acc2 : a <= w2.max
    BY <1>2, <2>2, <2>4
  <2>7. ASSUME NEW i \in w2.bitmap
        PROVE  w2.max - 1 - i \in acc2
    <3>1. i = shift - 1 \/ \E b \in w.bitmap : i = b + shift
      BY <2>3, <2>7 DEF ShiftLeft
    <3>2. CASE i = shift - 1
      BY <2>1, <2>2, <2>4, <2>5, <3>2
    <3>3. ASSUME NEW b \in w.bitmap, i = b + shift
          PROVE  w2.max - 1 - i \in acc2
      <4>1. b \in Nat
        BY DEF Bit
      <4>2. w2.max - 1 - i = w.max - 1 - b
        BY <2>1, <2>2, <2>5, <3>3, <4>1
      <4> QED
        BY <4>2 DEF Describes
    <3> QED
      BY <3>1, <3>2, <3>3
  <2>8. ASSUME NEW a \in acc2, a < c, c - a < WindowSize
        PROVE  c - a - 1 \in w2.bitmap
    <3>1. a \in acc /\ a \in Nat /\ a <= w.max
      BY <2>4, <2>8
    <3>2. shift < WindowSize
      BY <2>1, <2>5, <2>8, <3>1
    <3>3. CASE a = w.max
      BY <2>1, <2>3, <2>5, <3>2, <3>3
    <3>4. CASE a < w.max
      <4>1. w.max - a < WindowSize
        BY <2>1, <2>5, <2>8, <3>1
      <4>2. w.max - a - 1 \in w.bitmap
        BY <3>1, <3>4, <4>1 DEF Describes
      <4>3. c - a - 1 = (w.max - a - 1) + shift
        BY <2>1, <2>5, <3>1
      <4>4. c - a - 1 \in Bit
        BY <2>8, <3>1 DEF Bit
      <4>5. c - a - 1 \in ShiftLeft(w.bitmap, shift)
        BY <4>2, <4>3, <4>4 DEF ShiftLeft
      <4> QED
        BY <2>1, <2>3, <3>2, <4>5
    <3> QED
      BY <2>1, <3>1, <3>3, <3>4
  <2> QED
    BY ZenonT(60), <2>2, <2>6, <2>7, <2>8 DEF Describes
<1>3. CASE w.max # 0 /\ ~(c > w.max)
  <2>1. /\ c < w.max
        /\ w2.max = w.max
        /\ w2.bitmap = w.bitmap \cup {w.max - c - 1}
    BY <1>3 DEF Accepts, Commit
  <2> HIDE DEF w2
  <2>2. /\ w2.max # 0
        /\ w2.max \in acc2
        /\ \A a \in acc2 : a <= w2.max
    BY <1>3, <2>1 DEF Describes
  <2>3. ASSUME NEW i \in w2.bitmap
        PROVE  w2.max - 1 - i \in acc2
    <3>1. CASE i \in w.bitmap
      BY <2>1, <3>1 DEF Describes
    <3>2. CASE i = w.max - c - 1
      BY <2>1, <3>2
    <3> QED
      BY <2>1, <2>3, <3>1, <3>2
  <2>4. ASSUME NEW a \in acc2, a < w2.max, w2.max - a < WindowSize
        PROVE  w2.max - a - 1 \in w2.bitmap
    BY <2>1, <2>4 DEF Describes
  <2> QED
    BY <2>2, <2>3, <2>4 DEF Describes
<1> QED
  BY <1>1, <1>2, <1>3

\* check never rejects a counter that is new and inside the window.
LEMMA FreshIsAccepted ==
    ASSUME NEW w \in [max : Nat, bitmap : SUBSET Bit],
           NEW acc \in SUBSET (Nat \ {0}),
           NEW c \in Nat \ {0},
           Describes(w, acc),
           c \notin acc,
           w.max - c <= WindowSize
    PROVE  Accepts(w, c)
<1> USE WindowSizeAssumption
<1>1. c # w.max \/ w.max = 0
  BY DEF Describes
<1>2. CASE c < w.max
  <2>1. ASSUME w.max - c - 1 \in w.bitmap
        PROVE  FALSE
    <3>1. w.max - 1 - (w.max - c - 1) \in acc
      BY <2>1 DEF Describes
    <3> QED
      BY <3>1
  <2> QED
    BY <1>2, <2>1 DEF Accepts
<1> QED
  BY <1>1, <1>2 DEF Accepts

\* check accepts a counter a second time at most when it is exactly WindowSize
\* behind max.
LEMMA ReplayOnlyAtEdge ==
    ASSUME NEW w \in [max : Nat, bitmap : SUBSET Bit],
           NEW acc \in SUBSET (Nat \ {0}),
           NEW c \in acc,
           Describes(w, acc),
           Accepts(w, c)
    PROVE  w.max - c = WindowSize
<1> USE WindowSizeAssumption
<1>1. w.max # 0 /\ c <= w.max
  BY DEF Describes
<1>2. /\ c < w.max
      /\ w.max - c <= WindowSize
      /\ w.max - c - 1 \notin w.bitmap
  BY <1>1 DEF Accepts
<1>3. ~(w.max - c < WindowSize)
  BY <1>2 DEF Describes
<1> QED
  BY <1>2, <1>3
=============================================================================
