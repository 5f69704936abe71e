---------------------------- MODULE FramesProofs ----------------------------
(***************************************************************************)
(* The way of a frame, for every frame and any number of calls and of      *)
(* datagrams: the codec, whose Encode and Decode are inverse to each other *)
(* on every canonical frame and on all bytes that Decode accepts; Builder, *)
(* whose frames show a receiver what was asked for; and the receive loop,  *)
(* whose handler keeps what was sent.  They meet in Canonical: the frames  *)
(* of a Builder are canonical, and those are the frames Transport sends.   *)
(***************************************************************************)
EXTENDS FrameBuilder, Transport, DataProofs

-----------------------------------------------------------------------------
(* The codec *)

\* Seven byte sequences.
AreBytes(a, b, c, d, e, f, r) ==
    /\ a \in Seq(Byte) /\ b \in Seq(Byte) /\ c \in Seq(Byte) /\ d \in Seq(Byte)
    /\ e \in Seq(Byte) /\ f \in Seq(Byte) /\ r \in Seq(Byte)

\* Six fields, and what comes after them.
LEMMA SixFields ==
    ASSUME NEW a, NEW b, NEW c, NEW d, NEW e, NEW f, NEW r,
           AreBytes(a, b, c, d, e, f, r)
    PROVE  LET na == Len(a)
               nb == na + Len(b)
               nc == nb + Len(c)
               nd == nc + Len(d)
               ne == nd + Len(e)
               nf == ne + Len(f)
               w  == a \o b \o c \o d \o e \o f
           IN  /\ w \in Seq(Byte) /\ Len(w) = nf
               /\ w \o r \in Seq(Byte) /\ Len(w \o r) = nf + Len(r)
               /\ Slice(w \o r, 0, na) = a
               /\ Slice(w \o r, na, nb) = b
               /\ Slice(w \o r, nb, nc) = c
               /\ Slice(w \o r, nc, nd) = d
               /\ Slice(w \o r, nd, ne) = e
               /\ Slice(w \o r, ne, nf) = f
               /\ Slice(w \o r, nf, nf + Len(r)) = r
<1> DEFINE na == Len(a)
           nb == na + Len(b)
           nc == nb + Len(c)
           nd == nc + Len(d)
           ne == nd + Len(e)
           nf == ne + Len(f)
           w2 == a \o b
           w3 == w2 \o c
           w4 == w3 \o d
           w5 == w4 \o e
           w  == w5 \o f
           t5 == f \o r
           t4 == e \o t5
           t3 == d \o t4
           t2 == c \o t3
           t1 == b \o t2
<1> HIDE DEF na, nb, nc, nd, ne, nf, w2, w3, w4, w5, w, t1, t2, t3, t4, t5
<1>a. a \in Seq(Byte)
  BY Zenon DEF AreBytes
<1>b. b \in Seq(Byte)
  BY Zenon DEF AreBytes
<1>c. c \in Seq(Byte)
  BY Zenon DEF AreBytes
<1>d. d \in Seq(Byte)
  BY Zenon DEF AreBytes
<1>e. e \in Seq(Byte)
  BY Zenon DEF AreBytes
<1>f. f \in Seq(Byte)
  BY Zenon DEF AreBytes
<1>r. r \in Seq(Byte)
  BY Zenon DEF AreBytes
<1>1. a \in Seq(Byte) /\ Len(a) = na
  BY <1>a, Zenon DEF na
<1>2. w2 \in Seq(Byte) /\ Len(w2) = nb
  BY ZenonT(60), <1>1, <1>b, ConcatProperties DEF w2, nb
<1>3. w3 \in Seq(Byte) /\ Len(w3) = nc
  BY ZenonT(60), <1>2, <1>c, ConcatProperties DEF w3, nc
<1>4. w4 \in Seq(Byte) /\ Len(w4) = nd
  BY ZenonT(60), <1>3, <1>d, ConcatProperties DEF w4, nd
<1>5. w5 \in Seq(Byte) /\ Len(w5) = ne
  BY ZenonT(60), <1>4, <1>e, ConcatProperties DEF w5, ne
<1>6. w \in Seq(Byte) /\ Len(w) = nf
  BY ZenonT(60), <1>5, <1>f, ConcatProperties DEF w, nf
<1>7. w \o r \in Seq(Byte) /\ Len(w \o r) = nf + Len(r)
  BY ZenonT(60), <1>6, <1>r, ConcatProperties
<1>t5. t5 \in Seq(Byte)
  BY <1>f, <1>r, ConcatProperties, Zenon DEF t5
<1>t4. t4 \in Seq(Byte)
  BY Zenon, <1>e, <1>t5, ConcatProperties DEF t4
<1>t3. t3 \in Seq(Byte)
  BY Zenon, <1>d, <1>t4, ConcatProperties DEF t3
<1>t2. t2 \in Seq(Byte)
  BY Zenon, <1>c, <1>t3, ConcatProperties DEF t2
<1>t1. t1 \in Seq(Byte)
  BY Zenon, <1>b, <1>t2, ConcatProperties DEF t1
<1>9. w \o r = w5 \o t5
  <2>1. (w5 \o f) \o r = w5 \o (f \o r)
    BY Zenon, <1>5, <1>f, <1>r, Associative
  <2> QED
    BY Zenon, <2>1 DEF w, t5
<1>10. w \o r = w4 \o t4
  <2>1. (w4 \o e) \o t5 = w4 \o (e \o t5)
    BY Zenon, <1>4, <1>e, <1>t5, Associative
  <2> QED
    BY Zenon, <1>9, <2>1 DEF w5, t4
<1>11. w \o r = w3 \o t3
  <2>1. (w3 \o d) \o t4 = w3 \o (d \o t4)
    BY Zenon, <1>3, <1>d, <1>t4, Associative
  <2> QED
    BY Zenon, <1>10, <2>1 DEF w4, t3
<1>12. w \o r = w2 \o t2
  <2>1. (w2 \o c) \o t3 = w2 \o (c \o t3)
    BY Zenon, <1>2, <1>c, <1>t3, Associative
  <2> QED
    BY Zenon, <1>11, <2>1 DEF w3, t2
<1>13. w \o r = a \o t1
  <2>1. (a \o b) \o t2 = a \o (b \o t2)
    BY Zenon, <1>1, <1>b, <1>t2, Associative
  <2> QED
    BY Zenon, <1>12, <2>1 DEF w2, t1
<1>14. Slice(w \o r, 0, na) = a
  <2>1. 0 \in Nat /\ Len(a) \in Nat /\ 0 <= Len(a) /\ Len(a) <= Len(a)
    BY <1>a, LenProperties
  <2>2. Slice(a \o t1, 0, Len(a)) = Slice(a, 0, Len(a))
    BY Zenon, <1>a, <1>t1, <2>1, SliceOfPrefix
  <2> QED
    BY Zenon, <1>1, <1>13, <2>2, SliceAll
<1>15. Slice(w \o r, na, nb) = b
  <2>1. Slice(a \o (b \o t2), Len(a), Len(a) + Len(b)) = b
    BY Zenon, <1>1, <1>b, <1>t2, SliceOfField
  <2> QED
    BY Zenon, <1>1, <1>13, <2>1 DEF t1, nb
<1>16. Slice(w \o r, nb, nc) = c
  <2>1. Slice(w2 \o (c \o t3), Len(w2), Len(w2) + Len(c)) = c
    BY Zenon, <1>2, <1>c, <1>t3, SliceOfField
  <2> QED
    BY Zenon, <1>2, <1>12, <2>1 DEF t2, nc
<1>17. Slice(w \o r, nc, nd) = d
  <2>1. Slice(w3 \o (d \o t4), Len(w3), Len(w3) + Len(d)) = d
    BY Zenon, <1>3, <1>d, <1>t4, SliceOfField
  <2> QED
    BY Zenon, <1>3, <1>11, <2>1 DEF t3, nd
<1>18. Slice(w \o r, nd, ne) = e
  <2>1. Slice(w4 \o (e \o t5), Len(w4), Len(w4) + Len(e)) = e
    BY Zenon, <1>4, <1>e, <1>t5, SliceOfField
  <2> QED
    BY Zenon, <1>4, <1>10, <2>1 DEF t4, ne
<1>19. Slice(w \o r, ne, nf) = f
  <2>1. Slice(w5 \o (f \o r), Len(w5), Len(w5) + Len(f)) = f
    BY Zenon, <1>5, <1>f, <1>r, SliceOfField
  <2> QED
    BY Zenon, <1>5, <1>9, <2>1 DEF t5, nf
<1>20. Slice(w \o r, nf, nf + Len(r)) = r
  BY Zenon, <1>6, <1>r, SliceOfSuffix
<1> QED
  BY <1>6, <1>7, <1>14, <1>15, <1>16, <1>17, <1>18, <1>19, <1>20, Zenon
     DEF na, nb, nc, nd, ne, nf, w, w2, w3, w4, w5

\* The sizes of the variable fields.
LEMMA Sizes ==
    ASSUME NEW f \in Byte
    PROVE  /\ SourceSize(f) \in {0, 8} /\ DestSize(f) \in {0, 2, 8}
           /\ VendorSize(f) \in {0, 2} /\ AckSize(f) \in {0, 4}
BY Zenon DEF SourceSize, DestSize, VendorSize, AckSize

-----------------------------------------------------------------------------
\* Header.Unmarshal gives back the header that Header.Marshal wrote, whatever
\* comes after it, and takes exactly its bytes.
LEMMA HeaderRoundTrip ==
    ASSUME NEW h \in Header, CanonicalHeader(h), NEW r \in Seq(Byte)
    PROVE  LET w == HeaderMarshal(h).wire
           IN  /\ HeaderMarshal(h).err = "nil"
               /\ w \in Seq(Byte)
               /\ HeaderUnmarshal(w \o r) = [err |-> "nil", n |-> Len(w), header |-> h]
               /\ Slice(w \o r, Len(w), Len(w \o r)) = r
<1> DEFINE ss == SourceSize(h.Flags)
           ds == DestSize(h.Flags)
           src == Truncate(h.SourceNodeID, ss)
           dst == Truncate(h.DestNodeID, ds)
           a == <<h.Flags>>
           b == LittleEndian(h.SessionID)
           c == <<h.SecurityFlags>>
           d == LittleEndian(h.MessageCounter)
           e == LittleEndian(src)
           f == LittleEndian(dst)
           w == a \o b \o c \o d \o e \o f
           z == w \o r
<1>1. /\ h.Flags \in Byte /\ h.SessionID \in Uint(2) /\ h.SecurityFlags \in Byte
      /\ h.MessageCounter \in Uint(4)
      /\ h.SourceNodeID \in Uint(8) /\ h.DestNodeID \in Uint(8)
  BY Zenon DEF Header
<1>2. ss \in {0, 8} /\ ds \in {0, 2, 8}
  BY <1>1, Sizes, Zenon
<1> HIDE DEF ss, ds
<1>3. HeaderMarshal(h) = [err |-> "nil", wire |-> w]
  BY Zenon DEF CanonicalHeader, HeaderMarshal, ss, ds
<1>4. src \in Uint(ss) /\ dst \in Uint(ds)
  BY SMTT(60), <1>1, <1>2, TruncateType
<1> HIDE DEF src, dst
<1>5. /\ b \in Uint(2) /\ LittleEndian(b) = h.SessionID
      /\ d \in Uint(4) /\ LittleEndian(d) = h.MessageCounter
      /\ e \in Uint(ss) /\ LittleEndian(e) = src
      /\ f \in Uint(ds) /\ LittleEndian(f) = dst
  BY Zenon, <1>1, <1>2, <1>4, LittleEndianTwice
<1>6. a \in Seq(Byte) /\ Len(a) = 1 /\ c \in Seq(Byte) /\ Len(c) = 1
  BY <1>1
<1> HIDE DEF a, b, c, d, e, f
<1>7. /\ b \in Seq(Byte) /\ Len(b) = 2 /\ d \in Seq(Byte) /\ Len(d) = 4
      /\ e \in Seq(Byte) /\ Len(e) = ss /\ f \in Seq(Byte) /\ Len(f) = ds
  BY ZenonT(60), <1>2, <1>5, UintIsSeq
<1>8. AreBytes(a, b, c, d, e, f, r)
  BY <1>6, <1>7, Zenon DEF AreBytes
<1>9. /\ w \in Seq(Byte) /\ Len(w) = 8 + ss + ds
      /\ z \in Seq(Byte) /\ Len(z) = 8 + ss + ds + Len(r)
      /\ Slice(z, 0, 1) = a /\ Slice(z, 1, 3) = b /\ Slice(z, 3, 4) = c
      /\ Slice(z, 4, 8) = d /\ Slice(z, 8, 8 + ss) = e
      /\ Slice(z, 8 + ss, 8 + ss + ds) = f
      /\ Slice(z, 8 + ss + ds, 8 + ss + ds + Len(r)) = r
  <2> DEFINE nb == Len(a) + Len(b)
             nc == nb + Len(c)
             nd == nc + Len(d)
             ne == nd + Len(e)
             nf == ne + Len(f)
  <2>1. /\ w \in Seq(Byte) /\ Len(w) = nf
        /\ z \in Seq(Byte) /\ Len(z) = nf + Len(r)
        /\ Slice(z, 0, Len(a)) = a /\ Slice(z, Len(a), nb) = b /\ Slice(z, nb, nc) = c
        /\ Slice(z, nc, nd) = d /\ Slice(z, nd, ne) = e /\ Slice(z, ne, nf) = f
        /\ Slice(z, nf, nf + Len(r)) = r
    BY SMT, <1>8, SixFields
  <2>2. nb = 3 /\ nc = 4 /\ nd = 8 /\ ne = 8 + ss /\ nf = 8 + ss + ds
    BY <1>2, <1>6, <1>7
  <2> HIDE DEF w, z, nb, nc, nd, ne, nf
  <2> QED
    BY <1>6, <2>1, <2>2, Zenon
<1> HIDE DEF w, z
<1>10. Len(r) \in Nat
  BY LenProperties, Zenon
<1>11. z[1] = h.Flags /\ z[4] = h.SecurityFlags
  <2>1. 1 \in 1 .. Len(z) /\ 4 \in 1 .. Len(z) /\ 1 - 1 = 0 /\ 4 - 1 = 3
    BY <1>2, <1>9, <1>10
  <2>2. Slice(z, 0, 1) = <<z[1]>> /\ Slice(z, 3, 4) = <<z[4]>>
    BY ZenonT(60), <1>9, <2>1, SliceAll
  <2> QED
    BY <1>9, <2>2 DEF a, c
<1>12. HeaderError(z) = "nil"
  BY <1>2, <1>9, <1>10, <1>11, SMTT(60) DEF HeaderError, headerFixedSize, CanonicalHeader, ss, ds
<1>13. /\ ZeroExtend(LittleEndian(Slice(z, 8, 8 + ss)), 8) = h.SourceNodeID
       /\ ZeroExtend(LittleEndian(Slice(z, 8 + ss, 8 + ss + ds)), 8) = h.DestNodeID
  BY <1>5, <1>9, Zenon DEF CanonicalHeader, src, dst, ss, ds
<1>14. HeaderUnmarshal(z) = [err |-> "nil", n |-> Len(w), header |-> h]
  <2>1. h = [Flags |-> z[1], SessionID |-> LittleEndian(Slice(z, 1, 3)),
             SecurityFlags |-> z[4], MessageCounter |-> LittleEndian(Slice(z, 4, 8)),
             SourceNodeID |-> ZeroExtend(LittleEndian(Slice(z, 8, 8 + ss)), 8),
             DestNodeID |-> ZeroExtend(LittleEndian(Slice(z, 8 + ss, 8 + ss + ds)), 8)]
    BY Zenon, <1>5, <1>9, <1>11, <1>13 DEF Header
  <2>2. SourceSize(z[1]) = ss /\ DestSize(z[1]) = ds
    BY <1>11, Zenon DEF ss, ds
  <2> QED
    BY Zenon, <1>9, <1>12, <2>1, <2>2 DEF HeaderUnmarshal, headerFixedSize
<1>15. Slice(z, Len(w), Len(z)) = r
  BY <1>9, Zenon
<1> QED
  BY SMTT(60), <1>3, <1>9, <1>14, <1>15 DEF z

\* Arithmetic of the two optional fields of the payload header.
LEMMA OptionalSizes ==
    ASSUME NEW v \in {0, 2}, NEW k \in {0, 4}, NEW size \in Nat
    PROVE  /\ v \in 0 .. 2 /\ k \in 0 .. 4 /\ 2 \in Nat /\ 4 \in Nat
           /\ 6 + v + k + size \in Nat
           /\ 6 + v + k + size >= 6 /\ 6 + v + k + size >= 6 + v + k
           /\ ~(6 + v + k + size < 6) /\ ~(6 + v + k + size < 6 + v + k)
OBVIOUS

\* One-element sequences are equal only if their elements are.
LEMMA SingletonInjective ==
    ASSUME NEW x, NEW y, <<x>> = <<y>>
    PROVE  x = y
BY Zenon

\* The same for the payload header.
LEMMA PayloadHeaderRoundTrip ==
    ASSUME NEW p \in PayloadHeader, CanonicalPayloadHeader(p), NEW r \in Seq(Byte)
    PROVE  LET w == PayloadHeaderMarshal(p)
           IN  /\ w \in Seq(Byte)
               /\ PayloadHeaderUnmarshal(w \o r)
                      = [err |-> "nil", n |-> Len(w), payloadHeader |-> p]
               /\ Slice(w \o r, Len(w), Len(w \o r)) = r
<1> DEFINE vends == VendorSize(p.ExchangeFlags)
           acks == AckSize(p.ExchangeFlags)
           vendor == Truncate(p.VendorID, vends)
           ack == Truncate(p.AckCounter, acks)
           a == <<p.ExchangeFlags>>
           b == <<p.Opcode>>
           c == LittleEndian(p.ExchangeID)
           d == LittleEndian(p.ProtocolID)
           e == LittleEndian(vendor)
           f == LittleEndian(ack)
           w == a \o b \o c \o d \o e \o f
           z == w \o r
<1>1. /\ p.ExchangeFlags \in Byte /\ p.Opcode \in Byte /\ p.ExchangeID \in Uint(2)
      /\ p.ProtocolID \in Uint(2) /\ p.VendorID \in Uint(2) /\ p.AckCounter \in Uint(4)
  BY Zenon DEF PayloadHeader
<1>2. vends \in {0, 2} /\ acks \in {0, 4}
  BY <1>1, Sizes, Zenon
<1> HIDE DEF vends, acks
<1>3. PayloadHeaderMarshal(p) = w
  <2>1. <<p.ExchangeFlags, p.Opcode>> = a \o b
    OBVIOUS
  <2> QED
    BY Zenon, <2>1 DEF PayloadHeaderMarshal, vends, acks
<1>4. vendor \in Uint(vends) /\ ack \in Uint(acks)
  <2>1. vends \in 0 .. 2 /\ acks \in 0 .. 4 /\ 2 \in Nat /\ 4 \in Nat
    <3>1. 0 \in Nat
      BY Zenon
    <3> QED
      BY Zenon, <1>2, <3>1, OptionalSizes
  <2> QED
    BY Zenon, <1>1, <2>1, TruncateType
<1> HIDE DEF vendor, ack
<1>5. /\ c \in Uint(2) /\ LittleEndian(c) = p.ExchangeID
      /\ d \in Uint(2) /\ LittleEndian(d) = p.ProtocolID
      /\ e \in Uint(vends) /\ LittleEndian(e) = vendor
      /\ f \in Uint(acks) /\ LittleEndian(f) = ack
  BY Zenon, <1>1, <1>2, <1>4, LittleEndianTwice
<1>6. a \in Seq(Byte) /\ Len(a) = 1 /\ b \in Seq(Byte) /\ Len(b) = 1
  BY <1>1
<1> HIDE DEF a, b, c, d, e, f
<1>7. /\ c \in Seq(Byte) /\ Len(c) = 2 /\ d \in Seq(Byte) /\ Len(d) = 2
      /\ e \in Seq(Byte) /\ Len(e) = vends /\ f \in Seq(Byte) /\ Len(f) = acks
  BY ZenonT(60), <1>2, <1>5, UintIsSeq
<1>8. AreBytes(a, b, c, d, e, f, r)
  BY <1>6, <1>7, Zenon DEF AreBytes
<1>9. /\ w \in Seq(Byte) /\ Len(w) = 6 + vends + acks
      /\ z \in Seq(Byte) /\ Len(z) = 6 + vends + acks + Len(r)
      /\ Slice(z, 0, 1) = a /\ Slice(z, 1, 2) = b /\ Slice(z, 2, 4) = c
      /\ Slice(z, 4, 6) = d /\ Slice(z, 6, 6 + vends) = e
      /\ Slice(z, 6 + vends, 6 + vends + acks) = f
      /\ Slice(z, 6 + vends + acks, 6 + vends + acks + Len(r)) = r
  <2> DEFINE nb == Len(a) + Len(b)
             nc == nb + Len(c)
             nd == nc + Len(d)
             ne == nd + Len(e)
             nf == ne + Len(f)
  <2>1. /\ w \in Seq(Byte) /\ Len(w) = nf
        /\ z \in Seq(Byte) /\ Len(z) = nf + Len(r)
        /\ Slice(z, 0, Len(a)) = a /\ Slice(z, Len(a), nb) = b /\ Slice(z, nb, nc) = c
        /\ Slice(z, nc, nd) = d /\ Slice(z, nd, ne) = e /\ Slice(z, ne, nf) = f
        /\ Slice(z, nf, nf + Len(r)) = r
    BY SMT, <1>8, SixFields
  <2>2. nb = 2 /\ nc = 4 /\ nd = 6 /\ ne = 6 + vends /\ nf = 6 + vends + acks
    BY SMTT(60), <1>2, <1>6, <1>7
  <2> HIDE DEF w, z, nb, nc, nd, ne, nf
  <2> QED
    BY <1>6, <2>1, <2>2, Zenon
<1> HIDE DEF w, z
<1>10. /\ Len(r) \in Nat
       /\ Len(z) \in Nat /\ Len(z) >= 6 /\ Len(z) >= 6 + vends + acks
       /\ ~(Len(z) < 6) /\ ~(Len(z) < 6 + vends + acks)
  <2>1. Len(r) \in Nat
    BY LenProperties, Zenon
  <2>2. LET size == 6 + vends + acks + Len(r)
        IN  size \in Nat /\ size >= 6 /\ size >= 6 + vends + acks
            /\ ~(size < 6) /\ ~(size < 6 + vends + acks)
    BY Zenon, <1>2, <2>1, OptionalSizes
  <2>3. Len(z) = 6 + vends + acks + Len(r)
    BY Zenon, <1>9
  <2> QED
    BY Zenon, <2>1, <2>2, <2>3
<1>11. z[1] = p.ExchangeFlags /\ z[2] = p.Opcode
  <2>1. 1 \in 1 .. Len(z) /\ 2 \in 1 .. Len(z) /\ 1 - 1 = 0 /\ 2 - 1 = 1
    BY <1>10
  <2>2. Slice(z, 0, 1) = <<z[1]>> /\ Slice(z, 1, 2) = <<z[2]>>
    BY ZenonT(60), <1>9, <2>1, SliceAll
  <2>3. <<z[1]>> = <<p.ExchangeFlags>> /\ <<z[2]>> = <<p.Opcode>>
    BY Zenon, <1>9, <2>2 DEF a, b
  <2> QED
    BY Zenon, <2>3, SingletonInjective
<1>12. /\ ZeroExtend(LittleEndian(Slice(z, 6, 6 + vends)), 2) = p.VendorID
       /\ ZeroExtend(LittleEndian(Slice(z, 6 + vends, 6 + vends + acks)), 4) = p.AckCounter
  BY <1>5, <1>9, Zenon DEF CanonicalPayloadHeader, vendor, ack, vends, acks
<1>13. PayloadHeaderUnmarshal(z) = [err |-> "nil", n |-> Len(w), payloadHeader |-> p]
  <2>1. p = [ExchangeFlags |-> z[1], Opcode |-> z[2],
             ExchangeID |-> LittleEndian(Slice(z, 2, 4)),
             ProtocolID |-> LittleEndian(Slice(z, 4, 6)),
             VendorID |-> ZeroExtend(LittleEndian(Slice(z, 6, 6 + vends)), 2),
             AckCounter |-> ZeroExtend(LittleEndian(Slice(z, 6 + vends, 6 + vends + acks)), 4)]
    BY Zenon, <1>5, <1>9, <1>11, <1>12 DEF PayloadHeader
  <2>2. VendorSize(z[1]) = vends /\ AckSize(z[1]) = acks
    BY <1>11, Zenon DEF vends, acks
  <2>3. ~(Len(z) < 6) /\ ~(Len(z) < 6 + VendorSize(z[1]) + AckSize(z[1]))
    BY Zenon, <1>10, <2>2
  <2>4. PayloadHeaderUnmarshal(z) = [err |-> "nil", n |-> 6 + vends + acks,
            payloadHeader |->
                [ExchangeFlags |-> z[1], Opcode |-> z[2],
                 ExchangeID |-> LittleEndian(Slice(z, 2, 4)),
                 ProtocolID |-> LittleEndian(Slice(z, 4, 6)),
                 VendorID |-> ZeroExtend(LittleEndian(Slice(z, 6, 6 + vends)), 2),
                 AckCounter |->
                     ZeroExtend(LittleEndian(Slice(z, 6 + vends, 6 + vends + acks)), 4)]]
    BY Zenon, <2>2, <2>3 DEF PayloadHeaderUnmarshal, payloadHeaderFixedSize
  <2> QED
    BY Zenon, <1>9, <2>1, <2>4
<1>14. Slice(z, Len(w), Len(z)) = r
  BY <1>9, Zenon
<1> QED
  BY Zenon, <1>3, <1>9, <1>13, <1>14 DEF z

-----------------------------------------------------------------------------
\* Decode gives back every canonical frame that Encode wrote: no field of a
\* header is moved, cut or lost on the wire, and no byte of the payload.
THEOREM RoundTrip ==
    ASSUME NEW f \in Frame, Canonical(f)
    PROVE  /\ FrameEncode(f).err = "nil"
           /\ FrameDecode(FrameEncode(f).wire) = [err |-> "nil", frame |-> f]
<1> DEFINE hw == HeaderMarshal(f.Header).wire
           pw == PayloadHeaderMarshal(f.PayloadHeader)
           r == f.Payload
           z == hw \o (pw \o r)
<1> HIDE DEF hw, pw, r, z
<1>1. f.Header \in Header /\ f.PayloadHeader \in PayloadHeader /\ r \in Seq(Byte)
  BY Zenon DEF Frame, r
<1>2. CanonicalHeader(f.Header) /\ CanonicalPayloadHeader(f.PayloadHeader)
  BY Zenon DEF Canonical
<1>3. /\ pw \in Seq(Byte)
      /\ PayloadHeaderUnmarshal(pw \o r)
             = [err |-> "nil", n |-> Len(pw), payloadHeader |-> f.PayloadHeader]
  BY Zenon, <1>1, <1>2, PayloadHeaderRoundTrip DEF pw
<1>4. pw \o r \in Seq(Byte)
  BY <1>1, <1>3, ConcatProperties, Zenon
<1>5. /\ HeaderMarshal(f.Header).err = "nil"
      /\ hw \in Seq(Byte)
      /\ HeaderUnmarshal(z) = [err |-> "nil", n |-> Len(hw), header |-> f.Header]
      /\ Slice(z, Len(hw), Len(z)) = pw \o r
  BY Zenon, <1>1, <1>2, <1>4, HeaderRoundTrip DEF hw, z
<1>6. z = (hw \o pw) \o r
  BY Zenon, <1>1, <1>3, <1>5, Associative DEF z
<1>7. hw \o pw \in Seq(Byte) /\ Len(hw \o pw) = Len(hw) + Len(pw)
  BY Zenon, <1>3, <1>5, ConcatProperties
<1>8. Len((hw \o pw) \o r) = Len(hw \o pw) + Len(r)
  BY Zenon, <1>1, <1>7, ConcatProperties
<1>9. Slice(z, Len(hw) + Len(pw), Len(z)) = r
  <2>1. Slice((hw \o pw) \o r, Len(hw \o pw), Len(hw \o pw) + Len(r)) = r
    BY Zenon, <1>1, <1>7, SliceOfSuffix
  <2> QED
    BY Zenon, <1>6, <1>7, <1>8, <2>1
<1>10. FrameEncode(f) = [err |-> "nil", wire |-> z]
  BY <1>5, <1>6, Zenon DEF FrameEncode, hw, pw, r
<1>11. FrameDecode(z)
           = [err |-> "nil", frame |-> [Header |-> f.Header,
                                        PayloadHeader |-> f.PayloadHeader, Payload |-> r]]
  <2> DEFINE hu == HeaderUnmarshal(z)
             pu == PayloadHeaderUnmarshal(Slice(z, hu.n, Len(z)))
  <2>1. hu.err = "nil" /\ hu.n = Len(hw) /\ hu.header = f.Header
    BY <1>5
  <2>2. pu = [err |-> "nil", n |-> Len(pw), payloadHeader |-> f.PayloadHeader]
    BY Zenon, <1>3, <1>5, <2>1
  <2>3. pu.err = "nil" /\ pu.n = Len(pw) /\ pu.payloadHeader = f.PayloadHeader
    BY <2>2
  <2> QED
    BY Zenon, <1>9, <2>1, <2>3 DEF FrameDecode
<1>12. f = [Header |-> f.Header, PayloadHeader |-> f.PayloadHeader, Payload |-> r]
  BY Zenon DEF Frame, r
<1> QED
  BY <1>10, <1>11, <1>12

-----------------------------------------------------------------------------
\* Header.Marshal writes again the bytes that Header.Unmarshal took.
LEMMA HeaderDecoded ==
    ASSUME NEW b \in Seq(Byte), HeaderError(b) = "nil"
    PROVE  LET u == HeaderUnmarshal(b)
           IN  /\ u.err = "nil"
               /\ u.n \in Nat /\ u.n <= Len(b)
               /\ u.header \in Header /\ CanonicalHeader(u.header)
               /\ HeaderMarshal(u.header) = [err |-> "nil", wire |-> Slice(b, 0, u.n)]
<1> DEFINE ss == SourceSize(b[1])
           ds == DestSize(b[1])
           off == 8 + ss
           size == off + ds
           session == LittleEndian(Slice(b, 1, 3))
           counter == LittleEndian(Slice(b, 4, 8))
           src == LittleEndian(Slice(b, 8, off))
           dst == LittleEndian(Slice(b, off, size))
           h == [Flags |-> b[1], SessionID |-> session, SecurityFlags |-> b[4],
                 MessageCounter |-> counter, SourceNodeID |-> ZeroExtend(src, 8),
                 DestNodeID |-> ZeroExtend(dst, 8)]
<1>1. /\ ~(Len(b) < 8) /\ Version(b[1]) = 0 /\ DSIZ(b[1]) # DSIZReserved
      /\ ~(Len(b) < size)
  BY Zenon DEF HeaderError, headerFixedSize
<1>2. HeaderUnmarshal(b) = [err |-> "nil", n |-> size, header |-> h]
  BY Zenon DEF HeaderUnmarshal, headerFixedSize
<1>3. Len(b) \in Nat /\ 8 <= Len(b)
  BY <1>1, LenProperties
<1>4. b[1] \in Byte /\ b[4] \in Byte
  BY SMTT(60), <1>3, LenProperties
<1>5. ss \in {0, 8} /\ ds \in {0, 2, 8}
  BY Zenon, <1>4, Sizes
<1> HIDE DEF ss, ds
<1>6. /\ ss \in Nat /\ ds \in Nat /\ ss <= 8 /\ ds <= 8
      /\ off \in Nat /\ size \in Nat /\ size <= Len(b) /\ off <= Len(b)
  BY SMTT(60), <1>1, <1>3, <1>5
<1>7. off = 8 + ss /\ size = off + ds
  BY Zenon
<1> HIDE DEF off, size
<1>8. /\ session \in Uint(2) /\ LittleEndian(session) = Slice(b, 1, 3)
      /\ counter \in Uint(4) /\ LittleEndian(counter) = Slice(b, 4, 8)
  <2>1. 3 <= Len(b) /\ 8 <= Len(b)
    BY <1>3
  <2> QED
    BY SMT, <2>1, FieldRead
<1>9. /\ LittleEndian(src) = Slice(b, 8, off)
      /\ ZeroExtend(src, 8) \in Uint(8) /\ Truncate(ZeroExtend(src, 8), ss) = src
  BY SMT, <1>6, <1>7, FieldRead
<1>10. /\ LittleEndian(dst) = Slice(b, off, size)
       /\ ZeroExtend(dst, 8) \in Uint(8) /\ Truncate(ZeroExtend(dst, 8), ds) = dst
  BY SMT, <1>6, <1>7, FieldRead
<1>11. Slice(b, 0, 1) = <<b[1]>> /\ Slice(b, 3, 4) = <<b[4]>>
  <2>1. 1 \in 1 .. Len(b) /\ 4 \in 1 .. Len(b) /\ 1 - 1 = 0 /\ 4 - 1 = 3
    BY <1>3
  <2>2. Slice(b, 1 - 1, 1) = <<b[1]>> /\ Slice(b, 4 - 1, 4) = <<b[4]>>
    BY Zenon, <2>1, SliceAll
  <2> QED
    BY Zenon, <2>1, <2>2
<1> HIDE DEF session, counter, src, dst
<1>12. h \in Header
  BY Zenon, <1>4, <1>8, <1>9, <1>10 DEF Header
<1>13. /\ h.Flags = b[1] /\ h.SessionID = session /\ h.SecurityFlags = b[4]
       /\ h.MessageCounter = counter /\ h.SourceNodeID = ZeroExtend(src, 8)
       /\ h.DestNodeID = ZeroExtend(dst, 8)
  BY Zenon
<1> HIDE DEF h
<1>14. CanonicalHeader(h)
  BY Zenon, <1>1, <1>9, <1>10, <1>13 DEF CanonicalHeader, ss, ds
<1>15. <<b[1]>> \o Slice(b, 1, 3) \o <<b[4]>> \o Slice(b, 4, 8) \o Slice(b, 8, off)
           \o Slice(b, off, size) = Slice(b, 0, size)
  <2>1. /\ 1 \in Nat /\ 2 \in Nat /\ 3 \in Nat /\ 4 \in Nat /\ 8 \in Nat
        /\ 1 <= 3 /\ 3 <= Len(b) /\ 3 <= 4 /\ 4 <= Len(b) /\ 4 <= 8 /\ 8 <= Len(b)
        /\ 8 <= off /\ off <= size
    BY SMTT(60), <1>3, <1>6, <1>7
  <2>2. Slice(b, 0, 1) \o Slice(b, 1, 3) = Slice(b, 0, 3)
    BY Zenon, <2>1, PrefixGrows
  <2>3. Slice(b, 0, 3) \o Slice(b, 3, 4) = Slice(b, 0, 4)
    BY Zenon, <2>1, PrefixGrows
  <2>4. Slice(b, 0, 4) \o Slice(b, 4, 8) = Slice(b, 0, 8)
    BY Zenon, <2>1, PrefixGrows
  <2>5. Slice(b, 0, 8) \o Slice(b, 8, off) = Slice(b, 0, off)
    BY Zenon, <1>6, <2>1, PrefixGrows
  <2>6. Slice(b, 0, off) \o Slice(b, off, size) = Slice(b, 0, size)
    BY Zenon, <1>6, <2>1, PrefixGrows
  <2> QED
    BY Zenon, <1>11, <2>2, <2>3, <2>4, <2>5, <2>6
<1>16. HeaderMarshal(h) = [err |-> "nil", wire |-> Slice(b, 0, size)]
  BY Zenon, <1>1, <1>8, <1>9, <1>10, <1>13, <1>15 DEF HeaderMarshal, ss, ds
<1>17. LET u == [err |-> "nil", n |-> size, header |-> h]
       IN  u.err = "nil" /\ u.n = size /\ u.header = h
  BY Zenon
<1> QED
  BY Zenon, <1>2, <1>6, <1>12, <1>14, <1>16, <1>17

\* The same for the payload header.
LEMMA PayloadHeaderDecoded ==
    ASSUME NEW b \in Seq(Byte), PayloadHeaderUnmarshal(b).err = "nil"
    PROVE  LET u == PayloadHeaderUnmarshal(b)
           IN  /\ u.n \in Nat /\ u.n <= Len(b)
               /\ u.payloadHeader \in PayloadHeader
               /\ CanonicalPayloadHeader(u.payloadHeader)
               /\ PayloadHeaderMarshal(u.payloadHeader) = Slice(b, 0, u.n)
<1> DEFINE vends == VendorSize(b[1])
           acks == AckSize(b[1])
           off == 6 + vends
           size == off + acks
           exchange == LittleEndian(Slice(b, 2, 4))
           protocol == LittleEndian(Slice(b, 4, 6))
           vendor == LittleEndian(Slice(b, 6, off))
           ack == LittleEndian(Slice(b, off, size))
           p == [ExchangeFlags |-> b[1], Opcode |-> b[2], ExchangeID |-> exchange,
                 ProtocolID |-> protocol, VendorID |-> ZeroExtend(vendor, 2),
                 AckCounter |-> ZeroExtend(ack, 4)]
<1>1. ~(Len(b) < 6) /\ ~(Len(b) < size)
  <2>1. ASSUME Len(b) < 6 \/ Len(b) < size PROVE FALSE
    <3>1. PayloadHeaderUnmarshal(b) = [err |-> "errPayloadHeaderTooShort"]
      BY Zenon, <2>1 DEF PayloadHeaderUnmarshal, payloadHeaderFixedSize
    <3> QED
      BY <3>1
  <2> QED
    BY Zenon, <2>1
<1>2. PayloadHeaderUnmarshal(b) = [err |-> "nil", n |-> size, payloadHeader |-> p]
  BY Zenon, <1>1 DEF PayloadHeaderUnmarshal, payloadHeaderFixedSize
<1>3. Len(b) \in Nat /\ 6 <= Len(b)
  BY SMTT(60), <1>1, LenProperties
<1>4. b[1] \in Byte /\ b[2] \in Byte
  BY SMTT(60), <1>3, LenProperties
<1>5. vends \in {0, 2} /\ acks \in {0, 4}
  BY Zenon, <1>4, Sizes
<1> HIDE DEF vends, acks
<1>6. /\ vends \in Nat /\ acks \in Nat /\ vends <= 2 /\ acks <= 4
      /\ off \in Nat /\ size \in Nat /\ size <= Len(b) /\ off <= Len(b)
  BY SMTT(60), <1>1, <1>3, <1>5
<1>7. off = 6 + vends /\ size = off + acks
  BY Zenon
<1> HIDE DEF off, size
<1>8. /\ exchange \in Uint(2) /\ LittleEndian(exchange) = Slice(b, 2, 4)
      /\ protocol \in Uint(2) /\ LittleEndian(protocol) = Slice(b, 4, 6)
  <2>1. 4 <= Len(b) /\ 6 <= Len(b)
    BY <1>3
  <2> QED
    BY SMT, <2>1, FieldRead
<1>9. /\ LittleEndian(vendor) = Slice(b, 6, off)
      /\ ZeroExtend(vendor, 2) \in Uint(2)
      /\ Truncate(ZeroExtend(vendor, 2), vends) = vendor
  BY SMT, <1>6, <1>7, FieldRead
<1>10. /\ LittleEndian(ack) = Slice(b, off, size)
       /\ ZeroExtend(ack, 4) \in Uint(4) /\ Truncate(ZeroExtend(ack, 4), acks) = ack
  BY SMT, <1>6, <1>7, FieldRead
<1>11. Slice(b, 0, 1) = <<b[1]>> /\ Slice(b, 1, 2) = <<b[2]>>
  <2>1. 1 \in 1 .. Len(b) /\ 2 \in 1 .. Len(b) /\ 1 - 1 = 0 /\ 2 - 1 = 1
    BY <1>3
  <2>2. Slice(b, 1 - 1, 1) = <<b[1]>> /\ Slice(b, 2 - 1, 2) = <<b[2]>>
    BY Zenon, <2>1, SliceAll
  <2> QED
    BY Zenon, <2>1, <2>2
<1> HIDE DEF exchange, protocol, vendor, ack
<1>12. p \in PayloadHeader
  BY Zenon, <1>4, <1>8, <1>9, <1>10 DEF PayloadHeader
<1>13. /\ p.ExchangeFlags = b[1] /\ p.Opcode = b[2] /\ p.ExchangeID = exchange
       /\ p.ProtocolID = protocol /\ p.VendorID = ZeroExtend(vendor, 2)
       /\ p.AckCounter = ZeroExtend(ack, 4)
  BY Zenon
<1> HIDE DEF p
<1>14. CanonicalPayloadHeader(p)
  BY Zenon, <1>9, <1>10, <1>13 DEF CanonicalPayloadHeader, vends, acks
<1>15. <<b[1], b[2]>> \o Slice(b, 2, 4) \o Slice(b, 4, 6) \o Slice(b, 6, off)
           \o Slice(b, off, size) = Slice(b, 0, size)
  <2>1. /\ 1 \in Nat /\ 2 \in Nat /\ 4 \in Nat /\ 6 \in Nat
        /\ 1 <= 2 /\ 2 <= Len(b) /\ 2 <= 4 /\ 4 <= Len(b) /\ 4 <= 6 /\ 6 <= Len(b)
        /\ 6 <= off /\ off <= size
    BY SMTT(60), <1>3, <1>6, <1>7
  <2>2. Slice(b, 0, 1) \o Slice(b, 1, 2) = Slice(b, 0, 2)
    BY Zenon, <2>1, PrefixGrows
  <2>3. Slice(b, 0, 2) \o Slice(b, 2, 4) = Slice(b, 0, 4)
    BY Zenon, <2>1, PrefixGrows
  <2>4. Slice(b, 0, 4) \o Slice(b, 4, 6) = Slice(b, 0, 6)
    BY Zenon, <2>1, PrefixGrows
  <2>5. Slice(b, 0, 6) \o Slice(b, 6, off) = Slice(b, 0, off)
    BY Zenon, <1>6, <2>1, PrefixGrows
  <2>6. Slice(b, 0, off) \o Slice(b, off, size) = Slice(b, 0, size)
    BY Zenon, <1>6, <2>1, PrefixGrows
  <2>7. <<b[1], b[2]>> = <<b[1]>> \o <<b[2]>>
    OBVIOUS
  <2> QED
    BY Zenon, <1>11, <2>2, <2>3, <2>4, <2>5, <2>6, <2>7
<1>16. PayloadHeaderMarshal(p) = Slice(b, 0, size)
  BY Zenon, <1>8, <1>9, <1>10, <1>13, <1>15 DEF PayloadHeaderMarshal, vends, acks
<1>17. LET u == [err |-> "nil", n |-> size, payloadHeader |-> p]
       IN  u.n = size /\ u.payloadHeader = p
  BY Zenon
<1> QED
  BY Zenon, <1>2, <1>6, <1>12, <1>14, <1>16, <1>17

\* What Decode accepts is a canonical frame, and Encode writes it as it was
\* read: Decode skips no byte, and takes no two datagrams for the same frame.
THEOREM DecodeKeepsAllBytes ==
    ASSUME NEW b \in Seq(Byte), FrameDecode(b).err = "nil"
    PROVE  LET f == FrameDecode(b).frame
           IN  /\ f \in Frame
               /\ Canonical(f)
               /\ FrameEncode(f) = [err |-> "nil", wire |-> b]
<1> DEFINE hu == HeaderUnmarshal(b)
           c == Slice(b, hu.n, Len(b))
           pu == PayloadHeaderUnmarshal(c)
           hw == Slice(b, 0, hu.n)
           pw == Slice(c, 0, pu.n)
           r == Slice(c, pu.n, Len(c))
           f == [Header |-> hu.header, PayloadHeader |-> pu.payloadHeader, Payload |-> r]
<1> HIDE DEF hu, c, pu, hw, pw, r, f
<1>1. HeaderError(b) = "nil"
  <2>1. ASSUME HeaderError(b) # "nil" PROVE FALSE
    <3>1. HeaderUnmarshal(b) = [err |-> HeaderError(b)]
      BY Zenon, <2>1 DEF HeaderUnmarshal
    <3>2. HeaderUnmarshal(b).err # "nil"
      BY SMTT(60), <2>1, <3>1
    <3>3. FrameDecode(b) = HeaderUnmarshal(b)
      BY Zenon, <3>2 DEF FrameDecode
    <3> QED
      BY Zenon, <3>2, <3>3
  <2> QED
    BY Zenon, <2>1
<1>2. /\ hu.err = "nil" /\ hu.n \in Nat /\ hu.n <= Len(b)
      /\ hu.header \in Header /\ CanonicalHeader(hu.header)
      /\ HeaderMarshal(hu.header) = [err |-> "nil", wire |-> hw]
  BY Zenon, <1>1, HeaderDecoded DEF hu, hw
<1>3. hw \in Seq(Byte) /\ Len(hw) = hu.n /\ c \in Seq(Byte) /\ hw \o c = b
  BY Zenon, <1>2, Halves DEF hw, c
<1>4. pu.err = "nil"
  <2>1. ASSUME pu.err # "nil" PROVE FALSE
    <3>1. FrameDecode(b) = pu
      BY Zenon, <1>2, <2>1 DEF FrameDecode, hu, c, pu
    <3> QED
      BY Zenon, <2>1, <3>1
  <2> QED
    BY Zenon, <2>1
<1>5. /\ pu.n \in Nat /\ pu.n <= Len(c)
      /\ pu.payloadHeader \in PayloadHeader /\ CanonicalPayloadHeader(pu.payloadHeader)
      /\ PayloadHeaderMarshal(pu.payloadHeader) = pw
  BY Zenon, <1>3, <1>4, PayloadHeaderDecoded DEF pu, pw
<1>6. pw \in Seq(Byte) /\ Len(pw) = pu.n /\ r \in Seq(Byte) /\ pw \o r = c
  BY Zenon, <1>3, <1>5, Halves DEF pw, r
<1>hw. hw \in Seq(Byte)
  BY Zenon, <1>3
<1>pw. pw \in Seq(Byte)
  BY Zenon, <1>6
<1>r. r \in Seq(Byte)
  BY Zenon, <1>6
<1>7. (hw \o pw) \o r = b
  <2>1. (hw \o pw) \o r = hw \o (pw \o r)
    BY ZenonT(60), <1>hw, <1>pw, <1>r, Associative
  <2> QED
    BY Zenon, <1>3, <1>6, <2>1
<1>8. hw \o pw \in Seq(Byte) /\ Len(hw \o pw) = hu.n + pu.n
  <2>1. hw \o pw \in Seq(Byte) /\ Len(hw \o pw) = Len(hw) + Len(pw)
    BY Zenon, <1>hw, <1>pw, ConcatProperties
  <2> QED
    BY Zenon, <1>3, <1>6, <2>1
<1>9. Len(b) = Len(hw \o pw) + Len(r)
  BY Zenon, <1>r, <1>7, <1>8, ConcatProperties
<1>10. Slice(b, hu.n + pu.n, Len(b)) = r
  BY Zenon, <1>6, <1>7, <1>8, <1>9, SliceOfSuffix
<1>11. FrameDecode(b) = [err |-> "nil", frame |-> f]
  BY Zenon, <1>2, <1>4, <1>10 DEF FrameDecode, hu, c, pu, f
<1>12. FrameDecode(b).frame = f
  BY SMTT(60), <1>11
<1>13. f \in Frame
  BY Zenon, <1>2, <1>5, <1>6 DEF Frame, f
<1>14. f.Header = hu.header /\ f.PayloadHeader = pu.payloadHeader /\ f.Payload = r
  BY Zenon DEF f
<1>15. Canonical(f)
  BY Zenon, <1>2, <1>5, <1>14 DEF Canonical
<1>16. HeaderMarshal(f.Header).err = "nil" /\ HeaderMarshal(f.Header).wire = hw
  BY SMTT(60), <1>2, <1>14
<1>17. FrameEncode(f) = [err |-> "nil", wire |-> b]
  BY Zenon, <1>5, <1>7, <1>14, <1>16 DEF FrameEncode
<1> QED
  BY Zenon, <1>12, <1>13, <1>15, <1>17

-----------------------------------------------------------------------------
\* The wire bytes of a canonical frame are bytes, and a longer payload makes
\* them longer at the end and nowhere else.
LEMMA PayloadComesLast ==
    ASSUME NEW f \in Frame, Canonical(f), NEW r \in Seq(Byte)
    PROVE  LET g == [Header |-> f.Header, PayloadHeader |-> f.PayloadHeader,
                     Payload |-> f.Payload \o r]
           IN  /\ g \in Frame /\ Canonical(g)
               /\ FrameEncode(f).wire \in Seq(Byte)
               /\ FrameEncode(g).wire = FrameEncode(f).wire \o r
<1> DEFINE hw == HeaderMarshal(f.Header).wire
           pw == PayloadHeaderMarshal(f.PayloadHeader)
           p == f.Payload
           g == [Header |-> f.Header, PayloadHeader |-> f.PayloadHeader, Payload |-> p \o r]
<1>1. f.Header \in Header /\ f.PayloadHeader \in PayloadHeader /\ p \in Seq(Byte)
  BY Zenon DEF Frame
<1>2. CanonicalHeader(f.Header) /\ CanonicalPayloadHeader(f.PayloadHeader)
  BY Zenon DEF Canonical
<1>3. HeaderMarshal(f.Header).err = "nil" /\ hw \in Seq(Byte)
  BY Zenon, <1>1, <1>2, HeaderRoundTrip
<1>4. pw \in Seq(Byte)
  BY Zenon, <1>1, <1>2, PayloadHeaderRoundTrip
<1>5. p \o r \in Seq(Byte)
  BY <1>1, ConcatProperties, Zenon
<1>6. g.Header = f.Header /\ g.PayloadHeader = f.PayloadHeader /\ g.Payload = p \o r
  BY Zenon
<1>7. g \in Frame
  BY <1>1, <1>5, Zenon DEF Frame
<1> HIDE DEF g
<1>8. Canonical(g)
  BY <1>2, <1>6, Zenon DEF Canonical
<1>9. FrameEncode(f).wire = hw \o pw \o p
  BY <1>3, ZenonT(60) DEF FrameEncode
<1>10. FrameEncode(g).wire = hw \o pw \o (p \o r)
  BY <1>3, <1>6, ZenonT(60) DEF FrameEncode
<1> HIDE DEF hw, pw, p
<1>11. hw \o pw \in Seq(Byte) /\ (hw \o pw) \o p \in Seq(Byte)
  BY <1>1, <1>3, <1>4, ConcatProperties, Zenon
<1>12. ((hw \o pw) \o p) \o r = (hw \o pw) \o (p \o r)
  BY ZenonT(60), <1>1, <1>11, Associative
<1> QED
  BY Zenon, <1>7, <1>8, <1>9, <1>10, <1>11, <1>12 DEF g, p

\* The beginning of a sequence that goes on.
LEMMA GoesOn ==
    ASSUME NEW s \in Seq(Byte), NEW r \in Seq(Byte), r # <<>>
    PROVE  CutShort(s, s \o r)
<1>1. /\ s \o r \in Seq(Byte) /\ Len(s \o r) = Len(s) + Len(r)
      /\ Len(s) \in Nat /\ Len(r) \in Nat
  BY ConcatProperties, LenProperties, Zenon
<1>2. Len(r) # 0
  BY EmptySeq, Zenon
<1>3. Slice(s \o r, 0, Len(s)) = Slice(s, 0, Len(s))
  BY <1>1, SliceOfPrefix
<1>4. Slice(s, 0, Len(s)) = s
  BY Zenon, SliceAll
<1>5. Len(s) \in 0 .. Len(s \o r) - 1
  BY <1>1, <1>2
<1> QED
  BY <1>3, <1>4, <1>5, Zenon DEF CutShort

\* A datagram that lost its end is never taken for another message: if Decode
\* accepts a beginning of the wire bytes of a canonical frame, it shows the two
\* headers of that frame and a beginning of its payload.  By the theorem above
\* the bytes read are those of the decoded frame; with the rest appended they
\* are those of the same frame with a longer payload, and of the original.
THEOREM CutDecode ==
    ASSUME NEW f \in Frame, Canonical(f),
           NEW size \in Nat, size < Len(FrameEncode(f).wire),
           FrameDecode(Slice(FrameEncode(f).wire, 0, size)).err = "nil"
    PROVE  LET g == FrameDecode(Slice(FrameEncode(f).wire, 0, size)).frame
           IN  /\ g.Header = f.Header
               /\ g.PayloadHeader = f.PayloadHeader
               /\ g.Payload \in Seq(Byte)
               /\ CutShort(g.Payload, f.Payload)
<1> DEFINE w == FrameEncode(f).wire
           b == Slice(w, 0, size)
           r == Slice(w, size, Len(w))
           g == FrameDecode(b).frame
           h == [Header |-> g.Header, PayloadHeader |-> g.PayloadHeader,
                 Payload |-> g.Payload \o r]
<1>0. <<>> \in Seq(Byte)
  OBVIOUS
<1>1. w \in Seq(Byte)
  BY Zenon, <1>0, PayloadComesLast
<1>2. FrameDecode(w) = [err |-> "nil", frame |-> f]
  BY Zenon, RoundTrip
<1>3. size < Len(w) /\ FrameDecode(b).err = "nil"
  BY Zenon
<1> HIDE DEF w
<1>4. Len(w) \in Nat
  BY <1>1, LenProperties, Zenon
<1>5. size <= Len(w)
  BY <1>3, <1>4
<1>6. b \in Seq(Byte) /\ Len(b) = size /\ r \in Seq(Byte) /\ b \o r = w
  BY Zenon, <1>1, <1>5, Halves
<1>7. r # <<>>
  BY <1>3, <1>4, <1>6, ConcatProperties
<1> HIDE DEF b, r
<1>8. g \in Frame /\ Canonical(g) /\ FrameEncode(g) = [err |-> "nil", wire |-> b]
  BY Zenon, <1>3, <1>6, DecodeKeepsAllBytes
<1> HIDE DEF g
<1>9. FrameEncode(g).wire = b
  BY <1>8
<1>10. h \in Frame /\ Canonical(h) /\ FrameEncode(h).wire = b \o r
  BY Zenon, <1>6, <1>8, <1>9, PayloadComesLast
<1>11. g.Payload \in Seq(Byte)
  BY <1>8, Zenon DEF Frame
<1>12. h.Header = g.Header /\ h.PayloadHeader = g.PayloadHeader /\ h.Payload = g.Payload \o r
  BY Zenon
<1> HIDE DEF h
<1>13. FrameDecode(w) = [err |-> "nil", frame |-> h]
  BY Zenon, <1>6, <1>10, RoundTrip
<1>14. f = h
  BY <1>2, <1>13
<1>15. CutShort(g.Payload, g.Payload \o r)
  BY Zenon, <1>6, <1>7, <1>11, GoesOn
<1> QED
  BY <1>11, <1>12, <1>14, <1>15, ZenonT(60) DEF g, b, w

-----------------------------------------------------------------------------
(* Builder *)

\* The flag bytes a Builder can produce.
HeaderFlags == {0, 1, 2, 4, 5, 6}
ExchangeFlags == 0 .. 7 \cup 16 .. 23

\* SourceNodeID sets a bit and the destinations replace two others.
LEMMA HeaderFlagOps ==
    ASSUME NEW f \in HeaderFlags
    PROVE  /\ f \in Byte /\ Version(f) = 0 /\ DSIZ(f) \in {0, 1, 2}
           /\ LET g == SetFlag(f, SourceNodeIDPresent)
              IN  g \in HeaderFlags /\ SourcePresent(g) /\ DSIZ(g) = DSIZ(f)
           /\ \A d \in {1, 2} :
                 LET g == WithDSIZ(f, d)
                 IN  g \in HeaderFlags /\ DSIZ(g) = d /\ (SourcePresent(g) <=> SourcePresent(f))
BY DEF HeaderFlags, Version, DSIZ, SetFlag, SourceNodeIDPresent, SourcePresent, Has,
   WithDSIZ, Byte

\* Setting a bit changes no other.
LEMMA ExchangeFlagOps ==
    ASSUME NEW f \in ExchangeFlags, NEW m \in {1, 2, 4, 16}
    PROVE  /\ f \in Byte
           /\ SetFlag(f, m) \in ExchangeFlags
           /\ \A k \in {1, 2, 4, 16} : Has(SetFlag(f, m), k) <=> k = m \/ Has(f, k)
<1>1. f \in Int /\ f \in Byte
  BY DEF ExchangeFlags, Byte
<1>2. CASE m = 1
  BY <1>1, <1>2 DEF ExchangeFlags, SetFlag, Has
<1>3. CASE m = 2
  BY <1>1, <1>3 DEF ExchangeFlags, SetFlag, Has
<1>4. CASE m = 4
  BY <1>1, <1>4 DEF ExchangeFlags, SetFlag, Has
<1>5. CASE m = 16
  BY <1>1, <1>5 DEF ExchangeFlags, SetFlag, Has
<1> QED
  BY <1>1, <1>2, <1>3, <1>4, <1>5, Zenon

\* A field of full width, and an absent one.
LEMMA FieldWidths ==
    ASSUME NEW m \in Nat, NEW x \in Uint(m)
    PROVE  /\ ZeroExtend(Truncate(x, m), m) = x
           /\ ZeroExtend(Truncate(x, 0), m) = Zero(m)
<1>1. x \in Seq(Byte) /\ Len(x) = m
  BY UintIsSeq, Zenon
<1>2. Truncate(x, m) = x
  <2>1. Len(x) - m + 1 = 1
    BY <1>1
  <2> QED
    BY <1>1, <2>1, SubSeqFull, Zenon DEF Truncate
<1>3. Truncate(x, 0) = <<>>
  <2>1. Truncate(x, 0) \in Uint(0)
    BY TruncateType
  <2>2. 0 \in Nat
    BY Zenon
  <2>3. Truncate(x, 0) \in Seq(Byte) /\ Len(Truncate(x, 0)) = 0
    BY Zenon, <2>1, <2>2, UintIsSeq
  <2> QED
    BY <2>3, EmptySeq, Zenon
<1>4. Zero(0) = <<>>
  BY DEF Zero, Fill
<1>5. ZeroExtend(x, m) = x
  <2>1. m - Len(x) = 0
    BY <1>1
  <2> QED
    BY <1>1, <1>4, <2>1, ConcatEmptySeq, Zenon DEF ZeroExtend
<1>6. ZeroExtend(<<>>, m) = Zero(m)
  <2>1. m - Len(<<>>) = m
    OBVIOUS
  <2>2. Zero(m) \in Uint(m)
    BY DEF Zero, Fill, Uint, Byte
  <2>3. Zero(m) \in Seq(Byte)
    BY Zenon, <2>2, UintIsSeq
  <2> QED
    BY <2>1, <2>3, ConcatEmptySeq, Zenon DEF ZeroExtend
<1> QED
  BY <1>2, <1>3, <1>5, <1>6, Zenon

\* CanonicalHeader and CanonicalPayloadHeader, case by case.
FieldsMatch(h) ==
    /\ ~SourcePresent(h.Flags) => h.SourceNodeID = Zero(8)
    /\ DSIZ(h.Flags) = 0 => h.DestNodeID = Zero(8)
    /\ DSIZ(h.Flags) = 2 => h.DestNodeID = ZeroExtend(Truncate(h.DestNodeID, 2), 8)

PayloadFieldsMatch(p) ==
    /\ ~Has(p.ExchangeFlags, 16) => p.VendorID = Zero(2)
    /\ ~Has(p.ExchangeFlags, 2) => p.AckCounter = Zero(4)

\* FieldsMatch is what the canonical form asks of a header.
LEMMA HeaderCanonical ==
    ASSUME NEW h \in Header, h.Flags \in HeaderFlags
    PROVE  CanonicalHeader(h) <=> FieldsMatch(h)
<1>1. h.SourceNodeID \in Uint(8) /\ h.DestNodeID \in Uint(8)
  BY Zenon DEF Header
<1>2. /\ ZeroExtend(Truncate(h.SourceNodeID, 8), 8) = h.SourceNodeID
      /\ ZeroExtend(Truncate(h.SourceNodeID, 0), 8) = Zero(8)
      /\ ZeroExtend(Truncate(h.DestNodeID, 8), 8) = h.DestNodeID
      /\ ZeroExtend(Truncate(h.DestNodeID, 0), 8) = Zero(8)
  <2>1. 8 \in Nat
    BY Zenon
  <2> QED
    BY Zenon, <1>1, <2>1, FieldWidths
<1>3. Version(h.Flags) = 0 /\ DSIZ(h.Flags) \in {0, 1, 2}
  BY Zenon, HeaderFlagOps
<1>4. DSIZ(h.Flags) # DSIZReserved
  BY <1>3 DEF DSIZReserved
<1>5. h.SourceNodeID = ZeroExtend(Truncate(h.SourceNodeID, SourceSize(h.Flags)), 8)
         <=> (~SourcePresent(h.Flags) => h.SourceNodeID = Zero(8))
  BY <1>2, Zenon DEF SourceSize
<1>6. CASE DSIZ(h.Flags) = 0
  <2>1. DestSize(h.Flags) = 0
    BY <1>6, Zenon DEF DestSize, DSIZUnicast, DSIZGroup
  <2> QED
    BY <1>2, <1>3, <1>4, <1>5, <1>6, <2>1, Zenon DEF CanonicalHeader, FieldsMatch
<1>7. CASE DSIZ(h.Flags) = 1
  <2>1. DestSize(h.Flags) = 8
    BY <1>7, Zenon DEF DestSize, DSIZUnicast, DSIZGroup
  <2> QED
    BY <1>2, <1>3, <1>4, <1>5, <1>7, <2>1, ZenonT(60) DEF CanonicalHeader, FieldsMatch
<1>8. CASE DSIZ(h.Flags) = 2
  <2>1. DestSize(h.Flags) = 2
    BY <1>8, Zenon DEF DestSize, DSIZUnicast, DSIZGroup
  <2> QED
    BY <1>2, <1>3, <1>4, <1>5, <1>8, <2>1, Zenon DEF CanonicalHeader, FieldsMatch
<1> QED
  BY <1>3, <1>6, <1>7, <1>8, Zenon

\* The same for the payload header.
LEMMA PayloadHeaderCanonical ==
    ASSUME NEW p \in PayloadHeader
    PROVE  CanonicalPayloadHeader(p) <=> PayloadFieldsMatch(p)
<1>1. p.VendorID \in Uint(2) /\ p.AckCounter \in Uint(4)
  BY Zenon DEF PayloadHeader
<1>2. 2 \in Nat /\ 4 \in Nat
  BY Zenon
<1>3. /\ ZeroExtend(Truncate(p.VendorID, 2), 2) = p.VendorID
      /\ ZeroExtend(Truncate(p.VendorID, 0), 2) = Zero(2)
      /\ ZeroExtend(Truncate(p.AckCounter, 4), 4) = p.AckCounter
      /\ ZeroExtend(Truncate(p.AckCounter, 0), 4) = Zero(4)
  BY Zenon, <1>1, <1>2, FieldWidths
<1> QED
  BY <1>3, Zenon DEF CanonicalPayloadHeader, PayloadFieldsMatch, VendorSize, AckSize,
              ExchangeFlagVendorPresent, ExchangeFlagAcknowledgement

\* A frame the Builder may hold when a has been asked for.
Faithful(f, a) ==
    /\ f \in Frame
    /\ f.Header.Flags \in HeaderFlags /\ FieldsMatch(f.Header)
    /\ f.PayloadHeader.ExchangeFlags \in ExchangeFlags /\ PayloadFieldsMatch(f.PayloadHeader)
    /\ a = Seen(f, a.failed)

\* The frame of a Builder is canonical.
LEMMA FaithfulCanonical ==
    ASSUME NEW f, NEW a, Faithful(f, a)
    PROVE  f \in Frame /\ Canonical(f)
<1>1. f.Header \in Header /\ f.PayloadHeader \in PayloadHeader
  BY Zenon DEF Faithful, Frame
<1> QED
  BY Zenon, <1>1, HeaderCanonical, PayloadHeaderCanonical DEF Faithful, Canonical

\* A setter replaces one header, the payload or nothing, and what is asked
\* for follows.
WithHeader(f, h) == [f EXCEPT !.Header = h]
HeaderRecord(a, session, counter, source, dest) ==
    [session |-> session, counter |-> counter, source |-> source, dest |-> dest,
     protocol |-> a.protocol, opcode |-> a.opcode, exchange |-> a.exchange,
     flags |-> a.flags, ack |-> a.ack, vendor |-> a.vendor,
     payload |-> a.payload, failed |-> a.failed]
HeaderAsked(a, h) ==
    HeaderRecord(a, h.SessionID, h.MessageCounter, SourceSeen(h), DestSeen(h))

WithPayloadHeader(f, p) == [f EXCEPT !.PayloadHeader = p]
PayloadHeaderRecord(a, protocol, opcode, exchange, flags, ack, vendor) ==
    [session |-> a.session, counter |-> a.counter, source |-> a.source, dest |-> a.dest,
     protocol |-> protocol, opcode |-> opcode, exchange |-> exchange,
     flags |-> flags, ack |-> ack, vendor |-> vendor,
     payload |-> a.payload, failed |-> a.failed]
PayloadHeaderAsked(a, p) ==
    PayloadHeaderRecord(a, p.ProtocolID, p.Opcode, p.ExchangeID,
                        FlagsSeen(p), AckSeen(p), VendorSeen(p))

\* A new header, with what is asked for of it.
LEMMA HeaderSet ==
    ASSUME NEW f, NEW a, Faithful(f, a),
           NEW h \in Header, h.Flags \in HeaderFlags, FieldsMatch(h)
    PROVE  Faithful(WithHeader(f, h), HeaderAsked(a, h)) /\ HeaderAsked(a, h).failed = a.failed
<1> DEFINE g == WithHeader(f, h)
           b == HeaderAsked(a, h)
<1>1. f \in Frame /\ a = Seen(f, a.failed)
  BY Zenon DEF Faithful
<1>2. /\ g \in Frame /\ g.Header = h
      /\ g.PayloadHeader = f.PayloadHeader /\ g.Payload = f.Payload
  BY <1>1, Zenon DEF Frame, WithHeader, WithPayloadHeader
<1> HIDE DEF g, b
<1>3. /\ a = [session |-> a.session, counter |-> a.counter, source |-> a.source, dest |-> a.dest,
              protocol |-> a.protocol, opcode |-> a.opcode, exchange |-> a.exchange,
              flags |-> a.flags, ack |-> a.ack, vendor |-> a.vendor,
              payload |-> a.payload, failed |-> a.failed]
      /\ a.protocol = f.PayloadHeader.ProtocolID /\ a.opcode = f.PayloadHeader.Opcode
      /\ a.exchange = f.PayloadHeader.ExchangeID /\ a.flags = FlagsSeen(f.PayloadHeader)
      /\ a.ack = AckSeen(f.PayloadHeader) /\ a.vendor = VendorSeen(f.PayloadHeader)
      /\ a.payload = f.Payload
  BY <1>1 DEF Seen
<1>4. b.failed = a.failed
  BY Zenon DEF b, HeaderAsked, PayloadHeaderAsked, HeaderRecord, PayloadHeaderRecord
<1>5. b = Seen(g, a.failed)
  BY <1>2, <1>3, Zenon DEF b, Seen, HeaderAsked, PayloadHeaderAsked,
     HeaderRecord, PayloadHeaderRecord
<1> QED
  BY <1>2, <1>4, <1>5, Zenon DEF Faithful, g, b

\* A new payload header, with what is asked for of it.
LEMMA PayloadHeaderSet ==
    ASSUME NEW f, NEW a, Faithful(f, a), NEW p \in PayloadHeader,
           p.ExchangeFlags \in ExchangeFlags, PayloadFieldsMatch(p)
    PROVE  /\ Faithful(WithPayloadHeader(f, p), PayloadHeaderAsked(a, p))
           /\ PayloadHeaderAsked(a, p).failed = a.failed
<1> DEFINE g == WithPayloadHeader(f, p)
           b == PayloadHeaderAsked(a, p)
<1>1. f \in Frame /\ a = Seen(f, a.failed)
  BY Zenon DEF Faithful
<1>2. /\ g \in Frame /\ g.PayloadHeader = p
      /\ g.Header = f.Header /\ g.Payload = f.Payload
  BY <1>1, Zenon DEF Frame, WithHeader, WithPayloadHeader
<1> HIDE DEF g, b
<1>3. /\ a = [session |-> a.session, counter |-> a.counter, source |-> a.source, dest |-> a.dest,
              protocol |-> a.protocol, opcode |-> a.opcode, exchange |-> a.exchange,
              flags |-> a.flags, ack |-> a.ack, vendor |-> a.vendor,
              payload |-> a.payload, failed |-> a.failed]
      /\ a.session = f.Header.SessionID /\ a.counter = f.Header.MessageCounter
      /\ a.source = SourceSeen(f.Header) /\ a.dest = DestSeen(f.Header)
      /\ a.payload = f.Payload
  BY <1>1 DEF Seen
<1>4. b.failed = a.failed
  BY Zenon DEF b, HeaderAsked, PayloadHeaderAsked, HeaderRecord, PayloadHeaderRecord
<1>5. b = Seen(g, a.failed)
  BY <1>2, <1>3, Zenon DEF b, Seen, HeaderAsked, PayloadHeaderAsked,
     HeaderRecord, PayloadHeaderRecord
<1> QED
  BY <1>2, <1>4, <1>5, Zenon DEF Faithful, g, b

\* A new payload.
LEMMA PayloadSet ==
    ASSUME NEW f, NEW a, Faithful(f, a), NEW bytes \in Seq(Byte)
    PROVE  /\ Faithful([f EXCEPT !.Payload = bytes], [a EXCEPT !.payload = bytes])
           /\ [a EXCEPT !.payload = bytes].failed = a.failed
<1> DEFINE g == [f EXCEPT !.Payload = bytes]
           b == [a EXCEPT !.payload = bytes]
<1>1. f \in Frame /\ a = Seen(f, a.failed)
  BY Zenon DEF Faithful
<1>2. /\ g \in Frame /\ g.PayloadHeader = f.PayloadHeader
      /\ g.Header = f.Header /\ g.Payload = bytes
  BY <1>1, Zenon DEF Frame
<1> HIDE DEF g
<1>3. b = Seen(g, a.failed) /\ b.failed = a.failed
  BY <1>1, <1>2 DEF Seen
<1> QED
  BY <1>2, <1>3, Zenon DEF Faithful, g

\* A payload that failed, and no new frame.
LEMMA FailedSet ==
    ASSUME NEW f, NEW a, Faithful(f, a), NEW failed
    PROVE  /\ Faithful(f, [a EXCEPT !.failed = failed])
           /\ [a EXCEPT !.failed = failed].failed = failed
<1> DEFINE b == [a EXCEPT !.failed = failed]
<1>1. a = Seen(f, a.failed)
  BY Zenon DEF Faithful
<1>2. b = Seen(f, failed) /\ b.failed = failed
  BY <1>1 DEF Seen
<1> QED
  BY <1>2, Zenon DEF Faithful

\* The parts of what Faithful says.
LEMMA FaithfulParts ==
    ASSUME NEW f, NEW a, Faithful(f, a)
    PROVE  /\ f \in Frame /\ f.Header \in Header /\ f.PayloadHeader \in PayloadHeader
           /\ f.Header.Flags \in HeaderFlags /\ FieldsMatch(f.Header)
           /\ f.PayloadHeader.ExchangeFlags \in ExchangeFlags
           /\ PayloadFieldsMatch(f.PayloadHeader)
           /\ a = [session |-> f.Header.SessionID, counter |-> f.Header.MessageCounter,
                   source |-> SourceSeen(f.Header), dest |-> DestSeen(f.Header),
                   protocol |-> f.PayloadHeader.ProtocolID, opcode |-> f.PayloadHeader.Opcode,
                   exchange |-> f.PayloadHeader.ExchangeID,
                   flags |-> FlagsSeen(f.PayloadHeader), ack |-> AckSeen(f.PayloadHeader),
                   vendor |-> VendorSeen(f.PayloadHeader),
                   payload |-> f.Payload, failed |-> a.failed]
<1>1. f \in Frame /\ a = Seen(f, a.failed)
  BY Zenon DEF Faithful
<1>2. f.Header \in Header /\ f.PayloadHeader \in PayloadHeader
  BY <1>1, Zenon DEF Frame
<1> QED
  BY <1>1, <1>2, Zenon DEF Faithful, Seen

\* The record EXCEPT of the setters, field by field.
LEMMA HeaderUpdates ==
    ASSUME NEW f, NEW a, Faithful(f, a), NEW v
    PROVE  /\ [a EXCEPT !.session = v] =
                 HeaderRecord(a, v, a.counter, a.source, a.dest)
           /\ [a EXCEPT !.counter = v] =
                 HeaderRecord(a, a.session, v, a.source, a.dest)
           /\ [a EXCEPT !.source = v] =
                 HeaderRecord(a, a.session, a.counter, v, a.dest)
<1>1. a = [session |-> a.session, counter |-> a.counter, source |-> a.source, dest |-> a.dest,
           protocol |-> a.protocol, opcode |-> a.opcode, exchange |-> a.exchange,
           flags |-> a.flags, ack |-> a.ack, vendor |-> a.vendor,
           payload |-> a.payload, failed |-> a.failed]
  BY FaithfulParts
<1>2. [a EXCEPT !.session = v] =
         HeaderRecord(a, v, a.counter, a.source, a.dest)
  BY <1>1 DEF HeaderRecord
<1>3. [a EXCEPT !.counter = v] =
         HeaderRecord(a, a.session, v, a.source, a.dest)
  BY <1>1 DEF HeaderRecord
<1>4. [a EXCEPT !.source = v] =
         HeaderRecord(a, a.session, a.counter, v, a.dest)
  BY <1>1 DEF HeaderRecord
<1> QED
  BY <1>2, <1>3, <1>4, Zenon

\* The same for the fields of the payload header.
LEMMA PayloadHeaderUpdates ==
    ASSUME NEW f, NEW a, Faithful(f, a), NEW v
    PROVE  /\ [a EXCEPT !.protocol = v] =
                 PayloadHeaderRecord(a, v, a.opcode, a.exchange, a.flags, a.ack, a.vendor)
           /\ [a EXCEPT !.opcode = v] =
                 PayloadHeaderRecord(a, a.protocol, v, a.exchange, a.flags, a.ack, a.vendor)
           /\ [a EXCEPT !.exchange = v] =
                 PayloadHeaderRecord(a, a.protocol, a.opcode, v, a.flags, a.ack, a.vendor)
           /\ [a EXCEPT !.flags = v] =
                 PayloadHeaderRecord(a, a.protocol, a.opcode, a.exchange, v, a.ack, a.vendor)
           /\ [a EXCEPT !.ack = v] =
                 PayloadHeaderRecord(a, a.protocol, a.opcode, a.exchange, a.flags, v, a.vendor)
<1>1. a = [session |-> a.session, counter |-> a.counter, source |-> a.source, dest |-> a.dest,
           protocol |-> a.protocol, opcode |-> a.opcode, exchange |-> a.exchange,
           flags |-> a.flags, ack |-> a.ack, vendor |-> a.vendor,
           payload |-> a.payload, failed |-> a.failed]
  BY FaithfulParts
<1>2. [a EXCEPT !.protocol = v] =
         PayloadHeaderRecord(a, v, a.opcode, a.exchange, a.flags, a.ack, a.vendor)
  BY <1>1 DEF PayloadHeaderRecord
<1>3. [a EXCEPT !.opcode = v] =
         PayloadHeaderRecord(a, a.protocol, v, a.exchange, a.flags, a.ack, a.vendor)
  BY <1>1 DEF PayloadHeaderRecord
<1>4. [a EXCEPT !.exchange = v] =
         PayloadHeaderRecord(a, a.protocol, a.opcode, v, a.flags, a.ack, a.vendor)
  BY <1>1 DEF PayloadHeaderRecord
<1>5. [a EXCEPT !.flags = v] =
         PayloadHeaderRecord(a, a.protocol, a.opcode, a.exchange, v, a.ack, a.vendor)
  BY <1>1 DEF PayloadHeaderRecord
<1>6. [a EXCEPT !.ack = v] =
         PayloadHeaderRecord(a, a.protocol, a.opcode, a.exchange, a.flags, v, a.vendor)
  BY <1>1 DEF PayloadHeaderRecord
<1> QED
  BY <1>2, <1>3, <1>4, <1>5, <1>6, Zenon

\* The same for the destination.
LEMMA DestUpdate ==
    ASSUME NEW f, NEW a, Faithful(f, a), NEW v
    PROVE  [a EXCEPT !.dest = v] = HeaderRecord(a, a.session, a.counter, a.source, v)
<1>1. a = [session |-> a.session, counter |-> a.counter, source |-> a.source, dest |-> a.dest,
           protocol |-> a.protocol, opcode |-> a.opcode, exchange |-> a.exchange,
           flags |-> a.flags, ack |-> a.ack, vendor |-> a.vendor,
           payload |-> a.payload, failed |-> a.failed]
  BY FaithfulParts
<1> QED
  BY <1>1 DEF HeaderRecord

\* The same for the vendor.
LEMMA VendorUpdate ==
    ASSUME NEW f, NEW a, Faithful(f, a), NEW v
    PROVE  [a EXCEPT !.vendor = v] =
              PayloadHeaderRecord(a, a.protocol, a.opcode, a.exchange, a.flags, a.ack, v)
<1>1. a = [session |-> a.session, counter |-> a.counter, source |-> a.source, dest |-> a.dest,
           protocol |-> a.protocol, opcode |-> a.opcode, exchange |-> a.exchange,
           flags |-> a.flags, ack |-> a.ack, vendor |-> a.vendor,
           payload |-> a.payload, failed |-> a.failed]
  BY FaithfulParts
<1> QED
  BY <1>1 DEF PayloadHeaderRecord

\* What asked holds of the two headers.
LEMMA AskedFields ==
    ASSUME NEW f, NEW a, Faithful(f, a)
    PROVE  /\ a.session = f.Header.SessionID /\ a.counter = f.Header.MessageCounter
           /\ a.source = SourceSeen(f.Header) /\ a.dest = DestSeen(f.Header)
           /\ a.protocol = f.PayloadHeader.ProtocolID /\ a.opcode = f.PayloadHeader.Opcode
           /\ a.exchange = f.PayloadHeader.ExchangeID /\ a.flags = FlagsSeen(f.PayloadHeader)
           /\ a.ack = AckSeen(f.PayloadHeader) /\ a.vendor = VendorSeen(f.PayloadHeader)
BY FaithfulParts

\* SessionID, and Unsecured, which also changes the session type.
LEMMA SessionIDSets ==
    ASSUME NEW f, NEW a, Faithful(f, a), NEW id \in Uint(2), NEW s \in Byte
    PROVE  LET g == [f EXCEPT !.Header.SessionID = id, !.Header.SecurityFlags = s]
               b == [a EXCEPT !.session = id]
           IN  Faithful(g, b) /\ b.failed = a.failed
<1> DEFINE h == [f.Header EXCEPT !.SessionID = id, !.SecurityFlags = s]
<1>1. /\ f \in Frame /\ f.Header \in Header
      /\ f.Header.Flags \in HeaderFlags /\ FieldsMatch(f.Header)
  BY FaithfulParts, Zenon
<1>3. /\ h \in Header
      /\ h.Flags = f.Header.Flags /\ h.SessionID = id /\ h.SecurityFlags = s
      /\ h.MessageCounter = f.Header.MessageCounter
      /\ h.SourceNodeID = f.Header.SourceNodeID /\ h.DestNodeID = f.Header.DestNodeID
  BY <1>1, ZenonT(60) DEF Header
<1>4. [f EXCEPT !.Header.SessionID = id, !.Header.SecurityFlags = s] = WithHeader(f, h)
  BY <1>1, ZenonT(60) DEF Frame, Header, WithHeader
<1> HIDE DEF h
<1>5. /\ FieldsMatch(h) /\ SourceSeen(h) = SourceSeen(f.Header)
      /\ DestSeen(h) = DestSeen(f.Header)
  BY <1>1, <1>3, Zenon DEF FieldsMatch, SourceSeen, DestSeen
<1>6. [a EXCEPT !.session = id] = HeaderAsked(a, h)
  <2>1. [a EXCEPT !.session = id] = HeaderRecord(a, id, a.counter, a.source, a.dest)
    BY Zenon, HeaderUpdates
  <2>2. /\ a.session = f.Header.SessionID /\ a.counter = f.Header.MessageCounter
        /\ a.source = SourceSeen(f.Header) /\ a.dest = DestSeen(f.Header)
    BY Zenon, AskedFields
  <2> QED
    BY <1>3, <1>5, <2>1, <2>2, Zenon DEF HeaderAsked
<1>7. Faithful(WithHeader(f, h), HeaderAsked(a, h)) /\ HeaderAsked(a, h).failed = a.failed
  BY <1>1, <1>3, <1>5, HeaderSet, Zenon
<1> QED
  BY <1>4, <1>6, <1>7, Zenon

\* MessageCounter.
LEMMA MessageCounterSets ==
    ASSUME NEW f, NEW a, Faithful(f, a), NEW c \in Uint(4)
    PROVE  LET g == [f EXCEPT !.Header.MessageCounter = c]
               b == [a EXCEPT !.counter = c]
           IN  Faithful(g, b) /\ b.failed = a.failed
<1> DEFINE h == [f.Header EXCEPT !.MessageCounter = c]
<1>1. /\ f \in Frame /\ f.Header \in Header
      /\ f.Header.Flags \in HeaderFlags /\ FieldsMatch(f.Header)
  BY FaithfulParts, Zenon
<1>3. /\ h \in Header
      /\ h.Flags = f.Header.Flags /\ h.SessionID = f.Header.SessionID
      /\ h.SecurityFlags = f.Header.SecurityFlags
      /\ h.MessageCounter = c /\ h.SourceNodeID = f.Header.SourceNodeID
      /\ h.DestNodeID = f.Header.DestNodeID
  BY <1>1, ZenonT(60) DEF Header
<1>4. [f EXCEPT !.Header.MessageCounter = c] = WithHeader(f, h)
  BY <1>1, ZenonT(60) DEF Frame, Header, WithHeader
<1> HIDE DEF h
<1>5. /\ FieldsMatch(h) /\ SourceSeen(h) = SourceSeen(f.Header)
      /\ DestSeen(h) = DestSeen(f.Header)
  BY <1>1, <1>3, Zenon DEF FieldsMatch, SourceSeen, DestSeen
<1>6. [a EXCEPT !.counter = c] = HeaderAsked(a, h)
  <2>1. [a EXCEPT !.counter = c] = HeaderRecord(a, a.session, c, a.source, a.dest)
    BY Zenon, HeaderUpdates
  <2>2. /\ a.session = f.Header.SessionID /\ a.counter = f.Header.MessageCounter
        /\ a.source = SourceSeen(f.Header) /\ a.dest = DestSeen(f.Header)
    BY Zenon, AskedFields
  <2> QED
    BY <1>3, <1>5, <2>1, <2>2, Zenon DEF HeaderAsked
<1>7. Faithful(WithHeader(f, h), HeaderAsked(a, h)) /\ HeaderAsked(a, h).failed = a.failed
  BY <1>1, <1>3, <1>5, HeaderSet, Zenon
<1> QED
  BY <1>4, <1>6, <1>7, Zenon

\* SourceNodeID sets its flag.
LEMMA SourceNodeIDSets ==
    ASSUME NEW f, NEW a, Faithful(f, a), NEW id \in Uint(8),
           NEW fl, fl = SetFlag(f.Header.Flags, SourceNodeIDPresent)
    PROVE  LET g == [f EXCEPT !.Header.SourceNodeID = id, !.Header.Flags = fl]
               b == [a EXCEPT !.source = {id}]
           IN  Faithful(g, b) /\ b.failed = a.failed
<1> DEFINE h == [f.Header EXCEPT !.SourceNodeID = id, !.Flags = fl]
<1>1. /\ f \in Frame /\ f.Header \in Header
      /\ f.Header.Flags \in HeaderFlags /\ FieldsMatch(f.Header)
  BY FaithfulParts, Zenon
<1>2. /\ fl \in HeaderFlags /\ fl \in Byte /\ SourcePresent(fl)
      /\ DSIZ(fl) = DSIZ(f.Header.Flags)
  BY <1>1, HeaderFlagOps, Zenon
<1>3. /\ h \in Header
      /\ h.Flags = fl /\ h.SessionID = f.Header.SessionID
      /\ h.SecurityFlags = f.Header.SecurityFlags
      /\ h.MessageCounter = f.Header.MessageCounter /\ h.SourceNodeID = id
      /\ h.DestNodeID = f.Header.DestNodeID
  BY <1>1, <1>2, ZenonT(60) DEF Header
<1>4. [f EXCEPT !.Header.SourceNodeID = id, !.Header.Flags = fl] = WithHeader(f, h)
  BY <1>1, ZenonT(60) DEF Frame, Header, WithHeader
<1> HIDE DEF h
<1>5. /\ h.Flags \in HeaderFlags /\ FieldsMatch(h)
      /\ SourceSeen(h) = {id} /\ DestSeen(h) = DestSeen(f.Header)
  BY <1>1, <1>2, <1>3, Zenon DEF FieldsMatch, SourceSeen, DestSeen
<1>6. [a EXCEPT !.source = {id}] = HeaderAsked(a, h)
  <2>1. [a EXCEPT !.source = {id}] = HeaderRecord(a, a.session, a.counter, {id}, a.dest)
    BY Zenon, HeaderUpdates
  <2>2. /\ a.session = f.Header.SessionID /\ a.counter = f.Header.MessageCounter
        /\ a.source = SourceSeen(f.Header) /\ a.dest = DestSeen(f.Header)
    BY Zenon, AskedFields
  <2> QED
    BY <1>3, <1>5, <2>1, <2>2, Zenon DEF HeaderAsked
<1>7. Faithful(WithHeader(f, h), HeaderAsked(a, h)) /\ HeaderAsked(a, h).failed = a.failed
  BY <1>1, <1>2, <1>3, <1>5, HeaderSet, Zenon
<1> QED
  BY <1>4, <1>6, <1>7, Zenon

\* DestNodeID, whatever destination was asked for before.
LEMMA DestNodeIDSets ==
    ASSUME NEW f, NEW a, Faithful(f, a), NEW id \in Uint(8),
           NEW fl, fl = WithDSIZ(f.Header.Flags, DSIZUnicast)
    PROVE  LET g == [f EXCEPT !.Header.DestNodeID = id, !.Header.Flags = fl]
               b == [a EXCEPT !.dest = {<<"node", id>>}]
           IN  Faithful(g, b) /\ b.failed = a.failed
<1> DEFINE h == [f.Header EXCEPT !.DestNodeID = id, !.Flags = fl]
<1>1. /\ f \in Frame /\ f.Header \in Header
      /\ f.Header.Flags \in HeaderFlags /\ FieldsMatch(f.Header)
  BY FaithfulParts, Zenon
<1>2. /\ fl \in HeaderFlags /\ fl \in Byte /\ DSIZ(fl) = DSIZUnicast
      /\ SourcePresent(fl) <=> SourcePresent(f.Header.Flags)
  <2>1. DSIZUnicast \in {1, 2} /\ DSIZUnicast = 1 /\ DSIZGroup = 2
    BY Zenon DEF DSIZUnicast, DSIZGroup
  <2> QED
    BY <1>1, <2>1, HeaderFlagOps, Zenon
<1>3. /\ h \in Header
      /\ h.Flags = fl /\ h.SessionID = f.Header.SessionID
      /\ h.SecurityFlags = f.Header.SecurityFlags
      /\ h.MessageCounter = f.Header.MessageCounter
      /\ h.SourceNodeID = f.Header.SourceNodeID /\ h.DestNodeID = id
  BY <1>1, <1>2, ZenonT(60) DEF Header
<1>4. [f EXCEPT !.Header.DestNodeID = id, !.Header.Flags = fl] = WithHeader(f, h)
  BY <1>1, ZenonT(60) DEF Frame, Header, WithHeader
<1> HIDE DEF h
<1>5. /\ h.Flags \in HeaderFlags /\ FieldsMatch(h)
      /\ SourceSeen(h) = SourceSeen(f.Header) /\ DestSeen(h) = {<<"node", id>>}
  <2>1. FieldsMatch(h)
    <3>1. DSIZ(h.Flags) = 1 /\ 1 # 0 /\ 1 # 2
      BY <1>2, <1>3 DEF DSIZUnicast
    <3> QED
      BY <1>1, <1>2, <1>3, <3>1, Zenon DEF FieldsMatch
  <2>2. SourceSeen(h) = SourceSeen(f.Header)
    BY <1>2, <1>3, Zenon DEF SourceSeen
  <2>3. DestSeen(h) = {<<"node", id>>}
    BY <1>2, <1>3 DEF DestSeen, DSIZUnicast, DSIZGroup
  <2> QED
    BY <1>2, <1>3, <2>1, <2>2, <2>3, Zenon
<1>6. [a EXCEPT !.dest = {<<"node", id>>}] = HeaderAsked(a, h)
  <2> DEFINE d == {<<"node", id>>}
  <2>1. DestSeen(h) = d
    BY <1>5, Zenon
  <2> HIDE DEF d
  <2>2. [a EXCEPT !.dest = d] = HeaderRecord(a, a.session, a.counter, a.source, d)
    BY Zenon, DestUpdate
  <2>3. [a EXCEPT !.dest = d] = HeaderAsked(a, h)
    <3>1. /\ a.session = h.SessionID /\ a.counter = h.MessageCounter
          /\ a.source = SourceSeen(h)
      BY <1>3, <1>5, AskedFields, ZenonT(60)
    <3> QED
      BY <2>1, <2>2, <3>1, Zenon DEF HeaderAsked
  <2> QED
    BY <2>3, Zenon DEF d
<1>7. Faithful(WithHeader(f, h), HeaderAsked(a, h)) /\ HeaderAsked(a, h).failed = a.failed
  BY <1>1, <1>2, <1>3, <1>5, HeaderSet, Zenon
<1> QED
  BY <1>4, <1>6, <1>7, Zenon

\* DestGroupID, whatever destination was asked for before.
LEMMA DestGroupIDSets ==
    ASSUME NEW f, NEW a, Faithful(f, a), NEW id \in Uint(2),
           NEW fl, fl = WithDSIZ(f.Header.Flags, DSIZGroup)
    PROVE  LET g == [f EXCEPT !.Header.DestNodeID = ZeroExtend(id, 8), !.Header.Flags = fl]
               b == [a EXCEPT !.dest = {<<"group", id>>}]
           IN  Faithful(g, b) /\ b.failed = a.failed
<1> DEFINE h == [f.Header EXCEPT !.DestNodeID = ZeroExtend(id, 8), !.Flags = fl]
<1>1. /\ f \in Frame /\ f.Header \in Header
      /\ f.Header.Flags \in HeaderFlags /\ FieldsMatch(f.Header)
  BY FaithfulParts, Zenon
<1>2. /\ fl \in HeaderFlags /\ fl \in Byte /\ DSIZ(fl) = DSIZGroup
      /\ SourcePresent(fl) <=> SourcePresent(f.Header.Flags)
  <2>1. DSIZGroup \in {1, 2} /\ DSIZUnicast = 1 /\ DSIZGroup = 2
    BY Zenon DEF DSIZUnicast, DSIZGroup
  <2> QED
    BY <1>1, <2>1, HeaderFlagOps, Zenon
<1>22. /\ ZeroExtend(id, 8) \in Uint(8) /\ Truncate(ZeroExtend(id, 8), 2) = id
  <2>1. 8 \in Nat /\ 2 \in 0 .. 8
    OBVIOUS
  <2> QED
    BY Zenon, <2>1, ExtendTruncate
<1>3. /\ h \in Header
      /\ h.Flags = fl /\ h.SessionID = f.Header.SessionID
      /\ h.SecurityFlags = f.Header.SecurityFlags
      /\ h.MessageCounter = f.Header.MessageCounter
      /\ h.SourceNodeID = f.Header.SourceNodeID /\ h.DestNodeID = ZeroExtend(id, 8)
  BY <1>1, <1>2, <1>22, ZenonT(60) DEF Header
<1>4. [f EXCEPT !.Header.DestNodeID = ZeroExtend(id, 8), !.Header.Flags = fl] = WithHeader(f, h)
  BY <1>1, ZenonT(60) DEF Frame, Header, WithHeader
<1> HIDE DEF h
<1>5. /\ h.Flags \in HeaderFlags /\ FieldsMatch(h)
      /\ SourceSeen(h) = SourceSeen(f.Header) /\ DestSeen(h) = {<<"group", id>>}
  <2>1. FieldsMatch(h)
    <3>1. DSIZ(h.Flags) = 2 /\ 2 # 0
      BY <1>2, <1>3 DEF DSIZGroup
    <3> QED
      BY <1>1, <1>2, <1>3, <1>22, <3>1, Zenon DEF FieldsMatch
  <2>2. SourceSeen(h) = SourceSeen(f.Header)
    BY <1>2, <1>3, Zenon DEF SourceSeen
  <2>3. DestSeen(h) = {<<"group", id>>}
    BY <1>2, <1>3, <1>22 DEF DestSeen, DSIZUnicast, DSIZGroup
  <2> QED
    BY <1>2, <1>3, <2>1, <2>2, <2>3, Zenon
<1>6. [a EXCEPT !.dest = {<<"group", id>>}] = HeaderAsked(a, h)
  <2> DEFINE d == {<<"group", id>>}
  <2>1. DestSeen(h) = d
    BY <1>5, Zenon
  <2> HIDE DEF d
  <2>2. [a EXCEPT !.dest = d] = HeaderRecord(a, a.session, a.counter, a.source, d)
    BY Zenon, DestUpdate
  <2>3. [a EXCEPT !.dest = d] = HeaderAsked(a, h)
    <3>1. /\ a.session = h.SessionID /\ a.counter = h.MessageCounter
          /\ a.source = SourceSeen(h)
      BY <1>3, <1>5, AskedFields, Zenon
    <3> QED
      BY <2>1, <2>2, <3>1, ZenonT(60) DEF HeaderAsked
  <2> QED
    BY <2>3, Zenon DEF d
<1>7. Faithful(WithHeader(f, h), HeaderAsked(a, h)) /\ HeaderAsked(a, h).failed = a.failed
  BY <1>1, <1>2, <1>3, <1>5, HeaderSet, Zenon
<1> QED
  BY <1>4, <1>6, <1>7, Zenon

\* Protocol.
LEMMA ProtocolSets ==
    ASSUME NEW f, NEW a, Faithful(f, a), NEW id \in Uint(2)
    PROVE  LET g == [f EXCEPT !.PayloadHeader.ProtocolID = id]
               b == [a EXCEPT !.protocol = id]
           IN  Faithful(g, b) /\ b.failed = a.failed
<1> DEFINE p == [f.PayloadHeader EXCEPT !.ProtocolID = id]
           v == id
<1>1. /\ f \in Frame /\ f.PayloadHeader \in PayloadHeader
      /\ f.PayloadHeader.ExchangeFlags \in ExchangeFlags
      /\ PayloadFieldsMatch(f.PayloadHeader)
  BY FaithfulParts, Zenon
<1>3. /\ p \in PayloadHeader
      /\ p.ExchangeFlags = f.PayloadHeader.ExchangeFlags
      /\ p.Opcode = f.PayloadHeader.Opcode /\ p.ExchangeID = f.PayloadHeader.ExchangeID
      /\ p.ProtocolID = id /\ p.VendorID = f.PayloadHeader.VendorID
      /\ p.AckCounter = f.PayloadHeader.AckCounter
  BY <1>1, ZenonT(60) DEF PayloadHeader
<1>4. [f EXCEPT !.PayloadHeader.ProtocolID = id] = WithPayloadHeader(f, p)
  BY <1>1, ZenonT(60) DEF Frame, PayloadHeader, WithPayloadHeader
<1> HIDE DEF p
<1>5. /\ PayloadFieldsMatch(p) /\ FlagsSeen(p) = FlagsSeen(f.PayloadHeader)
      /\ AckSeen(p) = AckSeen(f.PayloadHeader) /\ VendorSeen(p) = VendorSeen(f.PayloadHeader)
  BY <1>1, <1>3, Zenon DEF PayloadFieldsMatch, FlagsSeen, AckSeen, VendorSeen
<1> HIDE DEF v
<1>6. [a EXCEPT !.protocol = v] = PayloadHeaderAsked(a, p)
  <2>1. [a EXCEPT !.protocol = v] =
           PayloadHeaderRecord(a, v, a.opcode, a.exchange, a.flags, a.ack, a.vendor)
    BY Zenon, PayloadHeaderUpdates
  <2>2. /\ a.protocol = f.PayloadHeader.ProtocolID /\ a.opcode = f.PayloadHeader.Opcode
        /\ a.exchange = f.PayloadHeader.ExchangeID /\ a.flags = FlagsSeen(f.PayloadHeader)
        /\ a.ack = AckSeen(f.PayloadHeader) /\ a.vendor = VendorSeen(f.PayloadHeader)
    BY Zenon, AskedFields
  <2> QED
    BY <1>3, <1>5, <2>1, <2>2, Zenon DEF PayloadHeaderAsked, v
<1>7. /\ Faithful(WithPayloadHeader(f, p), PayloadHeaderAsked(a, p))
      /\ PayloadHeaderAsked(a, p).failed = a.failed
  BY <1>1, <1>3, <1>5, PayloadHeaderSet, Zenon
<1> QED
  BY <1>4, <1>6, <1>7, Zenon DEF v

\* Opcode.
LEMMA OpcodeSets ==
    ASSUME NEW f, NEW a, Faithful(f, a), NEW op \in Byte
    PROVE  LET g == [f EXCEPT !.PayloadHeader.Opcode = op]
               b == [a EXCEPT !.opcode = op]
           IN  Faithful(g, b) /\ b.failed = a.failed
<1> DEFINE p == [f.PayloadHeader EXCEPT !.Opcode = op]
           v == op
<1>1. /\ f \in Frame /\ f.PayloadHeader \in PayloadHeader
      /\ f.PayloadHeader.ExchangeFlags \in ExchangeFlags
      /\ PayloadFieldsMatch(f.PayloadHeader)
  BY FaithfulParts, Zenon
<1>3. /\ p \in PayloadHeader
      /\ p.ExchangeFlags = f.PayloadHeader.ExchangeFlags
      /\ p.Opcode = op /\ p.ExchangeID = f.PayloadHeader.ExchangeID
      /\ p.ProtocolID = f.PayloadHeader.ProtocolID /\ p.VendorID = f.PayloadHeader.VendorID
      /\ p.AckCounter = f.PayloadHeader.AckCounter
  BY <1>1, ZenonT(60) DEF PayloadHeader
<1>4. [f EXCEPT !.PayloadHeader.Opcode = op] = WithPayloadHeader(f, p)
  BY <1>1, ZenonT(60) DEF Frame, PayloadHeader, WithPayloadHeader
<1> HIDE DEF p
<1>5. /\ PayloadFieldsMatch(p) /\ FlagsSeen(p) = FlagsSeen(f.PayloadHeader)
      /\ AckSeen(p) = AckSeen(f.PayloadHeader) /\ VendorSeen(p) = VendorSeen(f.PayloadHeader)
  BY <1>1, <1>3, Zenon DEF PayloadFieldsMatch, FlagsSeen, AckSeen, VendorSeen
<1> HIDE DEF v
<1>6. [a EXCEPT !.opcode = v] = PayloadHeaderAsked(a, p)
  <2>1. [a EXCEPT !.opcode = v] =
           PayloadHeaderRecord(a, a.protocol, v, a.exchange, a.flags, a.ack, a.vendor)
    BY Zenon, PayloadHeaderUpdates
  <2>2. /\ a.protocol = f.PayloadHeader.ProtocolID /\ a.opcode = f.PayloadHeader.Opcode
        /\ a.exchange = f.PayloadHeader.ExchangeID /\ a.flags = FlagsSeen(f.PayloadHeader)
        /\ a.ack = AckSeen(f.PayloadHeader) /\ a.vendor = VendorSeen(f.PayloadHeader)
    BY Zenon, AskedFields
  <2> QED
    BY <1>3, <1>5, <2>1, <2>2, Zenon DEF PayloadHeaderAsked, v
<1>7. /\ Faithful(WithPayloadHeader(f, p), PayloadHeaderAsked(a, p))
      /\ PayloadHeaderAsked(a, p).failed = a.failed
  BY <1>1, <1>3, <1>5, PayloadHeaderSet, Zenon
<1> QED
  BY <1>4, <1>6, <1>7, Zenon DEF v

\* ExchangeID.
LEMMA ExchangeIDSets ==
    ASSUME NEW f, NEW a, Faithful(f, a), NEW id \in Uint(2)
    PROVE  LET g == [f EXCEPT !.PayloadHeader.ExchangeID = id]
               b == [a EXCEPT !.exchange = id]
           IN  Faithful(g, b) /\ b.failed = a.failed
<1> DEFINE p == [f.PayloadHeader EXCEPT !.ExchangeID = id]
           v == id
<1>1. /\ f \in Frame /\ f.PayloadHeader \in PayloadHeader
      /\ f.PayloadHeader.ExchangeFlags \in ExchangeFlags
      /\ PayloadFieldsMatch(f.PayloadHeader)
  BY FaithfulParts, Zenon
<1>3. /\ p \in PayloadHeader
      /\ p.ExchangeFlags = f.PayloadHeader.ExchangeFlags
      /\ p.Opcode = f.PayloadHeader.Opcode /\ p.ExchangeID = id
      /\ p.ProtocolID = f.PayloadHeader.ProtocolID /\ p.VendorID = f.PayloadHeader.VendorID
      /\ p.AckCounter = f.PayloadHeader.AckCounter
  BY <1>1, ZenonT(60) DEF PayloadHeader
<1>4. [f EXCEPT !.PayloadHeader.ExchangeID = id] = WithPayloadHeader(f, p)
  BY <1>1, ZenonT(60) DEF Frame, PayloadHeader, WithPayloadHeader
<1> HIDE DEF p
<1>5. /\ PayloadFieldsMatch(p) /\ FlagsSeen(p) = FlagsSeen(f.PayloadHeader)
      /\ AckSeen(p) = AckSeen(f.PayloadHeader) /\ VendorSeen(p) = VendorSeen(f.PayloadHeader)
  BY <1>1, <1>3, Zenon DEF PayloadFieldsMatch, FlagsSeen, AckSeen, VendorSeen
<1> HIDE DEF v
<1>6. [a EXCEPT !.exchange = v] = PayloadHeaderAsked(a, p)
  <2>1. [a EXCEPT !.exchange = v] =
           PayloadHeaderRecord(a, a.protocol, a.opcode, v, a.flags, a.ack, a.vendor)
    BY Zenon, PayloadHeaderUpdates
  <2>2. /\ a.protocol = f.PayloadHeader.ProtocolID /\ a.opcode = f.PayloadHeader.Opcode
        /\ a.exchange = f.PayloadHeader.ExchangeID /\ a.flags = FlagsSeen(f.PayloadHeader)
        /\ a.ack = AckSeen(f.PayloadHeader) /\ a.vendor = VendorSeen(f.PayloadHeader)
    BY Zenon, AskedFields
  <2> QED
    BY <1>3, <1>5, <2>1, <2>2, Zenon DEF PayloadHeaderAsked, v
<1>7. /\ Faithful(WithPayloadHeader(f, p), PayloadHeaderAsked(a, p))
      /\ PayloadHeaderAsked(a, p).failed = a.failed
  BY <1>1, <1>3, <1>5, PayloadHeaderSet, Zenon
<1> QED
  BY <1>4, <1>6, <1>7, Zenon DEF v

\* Initiator sets its flag and no other.
LEMMA InitiatorSets ==
    ASSUME NEW f, NEW a, Faithful(f, a),
           NEW fl, fl = SetFlag(f.PayloadHeader.ExchangeFlags, ExchangeFlagInitiator)
    PROVE  LET g == [f EXCEPT !.PayloadHeader.ExchangeFlags = fl]
               b == [a EXCEPT !.flags = a.flags \cup {"I"}]
           IN  Faithful(g, b) /\ b.failed = a.failed
<1> DEFINE p == [f.PayloadHeader EXCEPT !.ExchangeFlags = fl]
           v == a.flags \cup {"I"}
<1>1. /\ f \in Frame /\ f.PayloadHeader \in PayloadHeader
      /\ f.PayloadHeader.ExchangeFlags \in ExchangeFlags
      /\ PayloadFieldsMatch(f.PayloadHeader)
  BY FaithfulParts, Zenon
<1>2. /\ fl \in ExchangeFlags /\ fl \in Byte
      /\ \A k \in {1, 2, 4, 16} :
            Has(fl, k) <=> k = ExchangeFlagInitiator \/ Has(f.PayloadHeader.ExchangeFlags, k)
  <2>1. ExchangeFlagInitiator \in {1, 2, 4, 16}
    BY Zenon DEF ExchangeFlagInitiator
  <2>2. /\ SetFlag(f.PayloadHeader.ExchangeFlags, ExchangeFlagInitiator) \in ExchangeFlags
        /\ \A k \in {1, 2, 4, 16} :
              Has(SetFlag(f.PayloadHeader.ExchangeFlags, ExchangeFlagInitiator), k)
                <=> k = ExchangeFlagInitiator \/ Has(f.PayloadHeader.ExchangeFlags, k)
    BY <1>1, <2>1, ExchangeFlagOps, Zenon
  <2>3. fl \in ExchangeFlags
    BY <2>2, Zenon
  <2>4. fl \in Byte
    BY <2>1, <2>3, ExchangeFlagOps, Zenon
  <2> QED
    BY <2>2, <2>3, <2>4, Zenon
<1>3. /\ p \in PayloadHeader
      /\ p.ExchangeFlags = fl
      /\ p.Opcode = f.PayloadHeader.Opcode /\ p.ExchangeID = f.PayloadHeader.ExchangeID
      /\ p.ProtocolID = f.PayloadHeader.ProtocolID /\ p.VendorID = f.PayloadHeader.VendorID
      /\ p.AckCounter = f.PayloadHeader.AckCounter
  BY <1>1, <1>2, ZenonT(60) DEF PayloadHeader
<1>4. [f EXCEPT !.PayloadHeader.ExchangeFlags = fl] = WithPayloadHeader(f, p)
  BY <1>1, ZenonT(60) DEF Frame, PayloadHeader, WithPayloadHeader
<1> HIDE DEF p
<1>5. /\ PayloadFieldsMatch(p) /\ FlagsSeen(p) = v
      /\ AckSeen(p) = AckSeen(f.PayloadHeader) /\ VendorSeen(p) = VendorSeen(f.PayloadHeader)
  <2>1. \A k \in {1, 2, 4, 16} :
           Has(p.ExchangeFlags, k)
             <=> k = ExchangeFlagInitiator \/ Has(f.PayloadHeader.ExchangeFlags, k)
    BY <1>2, <1>3, Zenon
  <2>2. PayloadFieldsMatch(p)
    BY <1>1, <1>3, <2>1, Zenon DEF PayloadFieldsMatch, ExchangeFlagInitiator
  <2>3. a.flags = FlagsSeen(f.PayloadHeader)
    BY Zenon, AskedFields
  <2>4. FlagsSeen(p) = v
    BY <2>1, <2>3, SMTT(60) DEF FlagsSeen, v, ExchangeFlagInitiator, ExchangeFlagAcknowledgement,
       ExchangeFlagReliability, ExchangeFlagVendorPresent
  <2>5. AckSeen(p) = AckSeen(f.PayloadHeader) /\ VendorSeen(p) = VendorSeen(f.PayloadHeader)
    BY <1>3, <2>1 DEF AckSeen, VendorSeen, v, ExchangeFlagInitiator, ExchangeFlagAcknowledgement,
       ExchangeFlagReliability, ExchangeFlagVendorPresent
  <2> QED
    BY <2>2, <2>4, <2>5, Zenon
<1> HIDE DEF v
<1>6. [a EXCEPT !.flags = v] = PayloadHeaderAsked(a, p)
  <2>1. [a EXCEPT !.flags = v] =
           PayloadHeaderRecord(a, a.protocol, a.opcode, a.exchange, v, a.ack, a.vendor)
    BY Zenon, PayloadHeaderUpdates
  <2>2. /\ a.protocol = f.PayloadHeader.ProtocolID /\ a.opcode = f.PayloadHeader.Opcode
        /\ a.exchange = f.PayloadHeader.ExchangeID /\ a.flags = FlagsSeen(f.PayloadHeader)
        /\ a.ack = AckSeen(f.PayloadHeader) /\ a.vendor = VendorSeen(f.PayloadHeader)
    BY Zenon, AskedFields
  <2> QED
    BY <1>3, <1>5, <2>1, <2>2, Zenon DEF PayloadHeaderAsked
<1>7. /\ Faithful(WithPayloadHeader(f, p), PayloadHeaderAsked(a, p))
      /\ PayloadHeaderAsked(a, p).failed = a.failed
  BY <1>1, <1>2, <1>3, <1>5, PayloadHeaderSet, Zenon
<1> QED
  BY <1>4, <1>6, <1>7, Zenon DEF v

\* RequestAck sets its flag and no other.
LEMMA RequestAckSets ==
    ASSUME NEW f, NEW a, Faithful(f, a),
           NEW fl, fl = SetFlag(f.PayloadHeader.ExchangeFlags, ExchangeFlagReliability)
    PROVE  LET g == [f EXCEPT !.PayloadHeader.ExchangeFlags = fl]
               b == [a EXCEPT !.flags = a.flags \cup {"R"}]
           IN  Faithful(g, b) /\ b.failed = a.failed
<1> DEFINE p == [f.PayloadHeader EXCEPT !.ExchangeFlags = fl]
           v == a.flags \cup {"R"}
<1>1. /\ f \in Frame /\ f.PayloadHeader \in PayloadHeader
      /\ f.PayloadHeader.ExchangeFlags \in ExchangeFlags
      /\ PayloadFieldsMatch(f.PayloadHeader)
  BY FaithfulParts, Zenon
<1>2. /\ fl \in ExchangeFlags /\ fl \in Byte
      /\ \A k \in {1, 2, 4, 16} :
            Has(fl, k) <=> k = ExchangeFlagReliability \/ Has(f.PayloadHeader.ExchangeFlags, k)
  <2>1. ExchangeFlagReliability \in {1, 2, 4, 16}
    BY Zenon DEF ExchangeFlagReliability
  <2>2. /\ SetFlag(f.PayloadHeader.ExchangeFlags, ExchangeFlagReliability) \in ExchangeFlags
        /\ \A k \in {1, 2, 4, 16} :
              Has(SetFlag(f.PayloadHeader.ExchangeFlags, ExchangeFlagReliability), k)
                <=> k = ExchangeFlagReliability \/ Has(f.PayloadHeader.ExchangeFlags, k)
    BY <1>1, <2>1, ExchangeFlagOps, Zenon
  <2>3. fl \in ExchangeFlags
    BY <2>2, Zenon
  <2>4. fl \in Byte
    BY <2>1, <2>3, ExchangeFlagOps, Zenon
  <2> QED
    BY <2>2, <2>3, <2>4, Zenon
<1>3. /\ p \in PayloadHeader
      /\ p.ExchangeFlags = fl
      /\ p.Opcode = f.PayloadHeader.Opcode /\ p.ExchangeID = f.PayloadHeader.ExchangeID
      /\ p.ProtocolID = f.PayloadHeader.ProtocolID /\ p.VendorID = f.PayloadHeader.VendorID
      /\ p.AckCounter = f.PayloadHeader.AckCounter
  BY <1>1, <1>2, ZenonT(60) DEF PayloadHeader
<1>4. [f EXCEPT !.PayloadHeader.ExchangeFlags = fl] = WithPayloadHeader(f, p)
  BY <1>1, ZenonT(60) DEF Frame, PayloadHeader, WithPayloadHeader
<1> HIDE DEF p
<1>5. /\ PayloadFieldsMatch(p) /\ FlagsSeen(p) = v
      /\ AckSeen(p) = AckSeen(f.PayloadHeader) /\ VendorSeen(p) = VendorSeen(f.PayloadHeader)
  <2>1. \A k \in {1, 2, 4, 16} :
           Has(p.ExchangeFlags, k)
             <=> k = ExchangeFlagReliability \/ Has(f.PayloadHeader.ExchangeFlags, k)
    BY <1>2, <1>3, ZenonT(60)
  <2>2. PayloadFieldsMatch(p)
    BY <1>1, <1>3, <2>1, Zenon DEF PayloadFieldsMatch, ExchangeFlagReliability
  <2>3. a.flags = FlagsSeen(f.PayloadHeader)
    BY ZenonT(60), AskedFields
  <2>4. FlagsSeen(p) = v
    BY <2>1, <2>3, SMTT(60) DEF FlagsSeen, v, ExchangeFlagInitiator, ExchangeFlagAcknowledgement,
       ExchangeFlagReliability, ExchangeFlagVendorPresent
  <2>5. AckSeen(p) = AckSeen(f.PayloadHeader) /\ VendorSeen(p) = VendorSeen(f.PayloadHeader)
    BY <1>3, <2>1 DEF AckSeen, VendorSeen, v, ExchangeFlagInitiator, ExchangeFlagAcknowledgement,
       ExchangeFlagReliability, ExchangeFlagVendorPresent
  <2> QED
    BY <2>2, <2>4, <2>5, Zenon
<1> HIDE DEF v
<1>6. [a EXCEPT !.flags = v] = PayloadHeaderAsked(a, p)
  <2>1. [a EXCEPT !.flags = v] =
           PayloadHeaderRecord(a, a.protocol, a.opcode, a.exchange, v, a.ack, a.vendor)
    BY Zenon, PayloadHeaderUpdates
  <2>2. /\ a.protocol = f.PayloadHeader.ProtocolID /\ a.opcode = f.PayloadHeader.Opcode
        /\ a.exchange = f.PayloadHeader.ExchangeID /\ a.flags = FlagsSeen(f.PayloadHeader)
        /\ a.ack = AckSeen(f.PayloadHeader) /\ a.vendor = VendorSeen(f.PayloadHeader)
    BY Zenon, AskedFields
  <2> QED
    BY <1>3, <1>5, <2>1, <2>2, Zenon DEF PayloadHeaderAsked
<1>7. /\ Faithful(WithPayloadHeader(f, p), PayloadHeaderAsked(a, p))
      /\ PayloadHeaderAsked(a, p).failed = a.failed
  BY <1>1, <1>2, <1>3, <1>5, PayloadHeaderSet, Zenon
<1> QED
  BY <1>4, <1>6, <1>7, Zenon DEF v

\* AckCounter sets its flag and no other.
LEMMA AckCounterSets ==
    ASSUME NEW f, NEW a, Faithful(f, a), NEW c \in Uint(4),
           NEW fl, fl = SetFlag(f.PayloadHeader.ExchangeFlags, ExchangeFlagAcknowledgement)
    PROVE  LET g == [f EXCEPT !.PayloadHeader.AckCounter = c,
                              !.PayloadHeader.ExchangeFlags = fl]
               b == [a EXCEPT !.ack = {c}]
           IN  Faithful(g, b) /\ b.failed = a.failed
<1> DEFINE p == [f.PayloadHeader EXCEPT !.AckCounter = c,
                                          !.ExchangeFlags = fl]
           v == {c}
<1>1. /\ f \in Frame /\ f.PayloadHeader \in PayloadHeader
      /\ f.PayloadHeader.ExchangeFlags \in ExchangeFlags
      /\ PayloadFieldsMatch(f.PayloadHeader)
  BY FaithfulParts, Zenon
<1>2. /\ fl \in ExchangeFlags /\ fl \in Byte
      /\ \A k \in {1, 2, 4, 16} :
            Has(fl, k) <=> k = ExchangeFlagAcknowledgement \/ Has(f.PayloadHeader.ExchangeFlags, k)
  <2>1. ExchangeFlagAcknowledgement \in {1, 2, 4, 16}
    BY Zenon DEF ExchangeFlagAcknowledgement
  <2>2. /\ SetFlag(f.PayloadHeader.ExchangeFlags, ExchangeFlagAcknowledgement) \in ExchangeFlags
        /\ \A k \in {1, 2, 4, 16} :
              Has(SetFlag(f.PayloadHeader.ExchangeFlags, ExchangeFlagAcknowledgement), k)
                <=> k = ExchangeFlagAcknowledgement \/ Has(f.PayloadHeader.ExchangeFlags, k)
    BY <1>1, <2>1, ExchangeFlagOps, Zenon
  <2>3. fl \in ExchangeFlags
    BY <2>2, Zenon
  <2>4. fl \in Byte
    BY <2>1, <2>3, ExchangeFlagOps, Zenon
  <2> QED
    BY <2>2, <2>3, <2>4, Zenon
<1>3. /\ p \in PayloadHeader
      /\ p.ExchangeFlags = fl
      /\ p.Opcode = f.PayloadHeader.Opcode /\ p.ExchangeID = f.PayloadHeader.ExchangeID
      /\ p.ProtocolID = f.PayloadHeader.ProtocolID /\ p.VendorID = f.PayloadHeader.VendorID
      /\ p.AckCounter = c
  BY <1>1, <1>2, ZenonT(60) DEF PayloadHeader
<1>4. [f EXCEPT !.PayloadHeader.AckCounter = c,
                              !.PayloadHeader.ExchangeFlags = fl] = WithPayloadHeader(f, p)
  BY <1>1, ZenonT(60) DEF Frame, PayloadHeader, WithPayloadHeader
<1> HIDE DEF p
<1>5. /\ PayloadFieldsMatch(p) /\ FlagsSeen(p) = FlagsSeen(f.PayloadHeader)
      /\ AckSeen(p) = v /\ VendorSeen(p) = VendorSeen(f.PayloadHeader)
  <2>1. \A k \in {1, 2, 4, 16} :
           Has(p.ExchangeFlags, k)
             <=> k = ExchangeFlagAcknowledgement \/ Has(f.PayloadHeader.ExchangeFlags, k)
    BY <1>2, <1>3, ZenonT(60)
  <2>2. PayloadFieldsMatch(p)
    BY <1>1, <1>3, <2>1, Zenon DEF PayloadFieldsMatch, ExchangeFlagAcknowledgement
  <2>3. FlagsSeen(p) = FlagsSeen(f.PayloadHeader)
    BY <2>1, SMTT(60) DEF FlagsSeen, v, ExchangeFlagInitiator, ExchangeFlagAcknowledgement,
       ExchangeFlagReliability, ExchangeFlagVendorPresent
  <2>4. AckSeen(p) = v /\ VendorSeen(p) = VendorSeen(f.PayloadHeader)
    BY <1>3, <2>1 DEF AckSeen, VendorSeen, v, ExchangeFlagInitiator, ExchangeFlagAcknowledgement,
       ExchangeFlagReliability, ExchangeFlagVendorPresent
  <2> QED
    BY <2>2, <2>3, <2>4, Zenon
<1> HIDE DEF v
<1>6. [a EXCEPT !.ack = v] = PayloadHeaderAsked(a, p)
  <2>1. [a EXCEPT !.ack = v] =
           PayloadHeaderRecord(a, a.protocol, a.opcode, a.exchange, a.flags, v, a.vendor)
    BY Zenon, PayloadHeaderUpdates
  <2>2. /\ a.protocol = f.PayloadHeader.ProtocolID /\ a.opcode = f.PayloadHeader.Opcode
        /\ a.exchange = f.PayloadHeader.ExchangeID /\ a.flags = FlagsSeen(f.PayloadHeader)
        /\ a.ack = AckSeen(f.PayloadHeader) /\ a.vendor = VendorSeen(f.PayloadHeader)
    BY Zenon, AskedFields
  <2> QED
    BY <1>3, <1>5, <2>1, <2>2, Zenon DEF PayloadHeaderAsked
<1>7. /\ Faithful(WithPayloadHeader(f, p), PayloadHeaderAsked(a, p))
      /\ PayloadHeaderAsked(a, p).failed = a.failed
  BY <1>1, <1>2, <1>3, <1>5, PayloadHeaderSet, Zenon
<1> QED
  BY <1>4, <1>6, <1>7, Zenon DEF v

\* Vendor sets its flag and no other.
LEMMA VendorSets ==
    ASSUME NEW f, NEW a, Faithful(f, a), NEW id \in Uint(2),
           NEW fl, fl = SetFlag(f.PayloadHeader.ExchangeFlags, ExchangeFlagVendorPresent)
    PROVE  LET g == [f EXCEPT !.PayloadHeader.VendorID = id,
                              !.PayloadHeader.ExchangeFlags = fl]
               b == [a EXCEPT !.vendor = {id}]
           IN  Faithful(g, b) /\ b.failed = a.failed
<1> DEFINE p == [f.PayloadHeader EXCEPT !.VendorID = id,
                                          !.ExchangeFlags = fl]
           v == {id}
<1>1. /\ f \in Frame /\ f.PayloadHeader \in PayloadHeader
      /\ f.PayloadHeader.ExchangeFlags \in ExchangeFlags
      /\ PayloadFieldsMatch(f.PayloadHeader)
  BY FaithfulParts, Zenon
<1>2. /\ fl \in ExchangeFlags /\ fl \in Byte
      /\ \A k \in {1, 2, 4, 16} :
            Has(fl, k) <=> k = ExchangeFlagVendorPresent \/ Has(f.PayloadHeader.ExchangeFlags, k)
  <2>1. ExchangeFlagVendorPresent \in {1, 2, 4, 16}
    BY Zenon DEF ExchangeFlagVendorPresent
  <2>2. /\ SetFlag(f.PayloadHeader.ExchangeFlags, ExchangeFlagVendorPresent) \in ExchangeFlags
        /\ \A k \in {1, 2, 4, 16} :
              Has(SetFlag(f.PayloadHeader.ExchangeFlags, ExchangeFlagVendorPresent), k)
                <=> k = ExchangeFlagVendorPresent \/ Has(f.PayloadHeader.ExchangeFlags, k)
    BY <1>1, <2>1, ExchangeFlagOps, Zenon
  <2>3. fl \in ExchangeFlags
    BY <2>2, Zenon
  <2>4. fl \in Byte
    BY <2>1, <2>3, ExchangeFlagOps, Zenon
  <2> QED
    BY <2>2, <2>3, <2>4, Zenon
<1>3. /\ p \in PayloadHeader
      /\ p.ExchangeFlags = fl
      /\ p.Opcode = f.PayloadHeader.Opcode /\ p.ExchangeID = f.PayloadHeader.ExchangeID
      /\ p.ProtocolID = f.PayloadHeader.ProtocolID /\ p.VendorID = id
      /\ p.AckCounter = f.PayloadHeader.AckCounter
  BY <1>1, <1>2, ZenonT(60) DEF PayloadHeader
<1>4. [f EXCEPT !.PayloadHeader.VendorID = id,
                              !.PayloadHeader.ExchangeFlags = fl] = WithPayloadHeader(f, p)
  BY <1>1, ZenonT(60) DEF Frame, PayloadHeader, WithPayloadHeader
<1> HIDE DEF p
<1>5. /\ PayloadFieldsMatch(p) /\ FlagsSeen(p) = FlagsSeen(f.PayloadHeader)
      /\ AckSeen(p) = AckSeen(f.PayloadHeader) /\ VendorSeen(p) = v
  <2>1. \A k \in {1, 2, 4, 16} :
           Has(p.ExchangeFlags, k)
             <=> k = ExchangeFlagVendorPresent \/ Has(f.PayloadHeader.ExchangeFlags, k)
    BY <1>2, <1>3, ZenonT(60)
  <2>2. PayloadFieldsMatch(p)
    BY <1>1, <1>3, <2>1, Zenon DEF PayloadFieldsMatch, ExchangeFlagVendorPresent
  <2>3. FlagsSeen(p) = FlagsSeen(f.PayloadHeader)
    BY <2>1, SMTT(60) DEF FlagsSeen, v, ExchangeFlagInitiator, ExchangeFlagAcknowledgement,
       ExchangeFlagReliability, ExchangeFlagVendorPresent
  <2>4. AckSeen(p) = AckSeen(f.PayloadHeader) /\ VendorSeen(p) = v
    BY <1>3, <2>1 DEF AckSeen, VendorSeen, v, ExchangeFlagInitiator, ExchangeFlagAcknowledgement,
       ExchangeFlagReliability, ExchangeFlagVendorPresent
  <2> QED
    BY <2>2, <2>3, <2>4, Zenon
<1> HIDE DEF v
<1>6. [a EXCEPT !.vendor = v] = PayloadHeaderAsked(a, p)
  <2>1. [a EXCEPT !.vendor = v] =
           PayloadHeaderRecord(a, a.protocol, a.opcode, a.exchange, a.flags, a.ack, v)
    BY Zenon, VendorUpdate
  <2>2. /\ a.protocol = f.PayloadHeader.ProtocolID /\ a.opcode = f.PayloadHeader.Opcode
        /\ a.exchange = f.PayloadHeader.ExchangeID /\ a.flags = FlagsSeen(f.PayloadHeader)
        /\ a.ack = AckSeen(f.PayloadHeader) /\ a.vendor = VendorSeen(f.PayloadHeader)
    BY Zenon, AskedFields
  <2> QED
    BY <1>3, <1>5, <2>1, <2>2, Zenon DEF PayloadHeaderAsked
<1>7. /\ Faithful(WithPayloadHeader(f, p), PayloadHeaderAsked(a, p))
      /\ PayloadHeaderAsked(a, p).failed = a.failed
  BY <1>1, <1>2, <1>3, <1>5, PayloadHeaderSet, ZenonT(60)
<1> QED
  BY <1>4, <1>6, <1>7, Zenon DEF v

-----------------------------------------------------------------------------
\* The inductive invariant of the Builder: the frame inside it agrees with
\* what has been asked for, and so do the frames handed out, which lie
\* elsewhere; err is about the first payload that failed.
ErrorIsFirst(error, failed) ==
    error = IF failed = <<>> THEN <<>> ELSE <<failed[1]>>

Asking == {Seen(x[1], x[2]) : x \in Frame \X Seq(Payloads)}
Result ==
    [err : {"nil", "marshal", "missing"},
     first : Seq(Payloads), at : Nat, asked : Asking]

GoodResult(r, fs) ==
    /\ ErrorIsFirst(r.first, r.asked.failed)
    /\ (r.err = "marshal") <=> (r.asked.failed # <<>>)
    /\ r.err = "nil" => r.at \in 2 .. Len(fs) /\ Faithful(fs[r.at], r.asked)

BuilderInv ==
    /\ frames \in Seq(Frame) /\ Len(frames) >= 1
    /\ asked.failed \in Seq(Payloads)
    /\ Faithful(frames[1], asked)
    /\ ErrorIsFirst(err, asked.failed)
    /\ returned \in Seq(Result)
    /\ \A i \in 1 .. Len(returned) : GoodResult(returned[i], frames)

\* NewBuilder.
LEMMA BuilderInitInv == BuilderInit => BuilderInv
<1> SUFFICES ASSUME BuilderInit PROVE BuilderInv
  BY Zenon
<1>1. /\ frames = <<EmptyFrame>> /\ err = <<>>
      /\ asked = NothingAsked /\ returned = <<>>
  BY Zenon DEF BuilderInit
<1>2. \A k \in Nat : Zero(k) \in Uint(k)
  BY DEF Zero, Fill, Uint, Byte
<1>3. Zero(2) \in Uint(2) /\ Zero(4) \in Uint(4) /\ Zero(8) \in Uint(8) /\ 0 \in Byte
  BY <1>2 DEF Byte
<1>4. EmptyFrame \in Frame
  <2>1. EmptyFrame.Header \in Header
    BY <1>3, Zenon DEF EmptyFrame, Header
  <2>2. EmptyFrame.PayloadHeader \in PayloadHeader
    BY <1>3, Zenon DEF EmptyFrame, PayloadHeader
  <2> DEFINE h == EmptyFrame.Header
             ph == EmptyFrame.PayloadHeader
  <2>3. EmptyFrame = [Header |-> h, PayloadHeader |-> ph, Payload |-> <<>>]
    BY Zenon DEF EmptyFrame
  <2>4. <<>> \in Seq(Byte)
    OBVIOUS
  <2> HIDE DEF h, ph
  <2>5. [Header |-> h, PayloadHeader |-> ph, Payload |-> <<>>] \in Frame
    <3>1. h \in Header /\ ph \in PayloadHeader
      BY ZenonT(60), <2>1, <2>2 DEF h, ph
    <3> QED
      BY <2>4, <3>1, Zenon DEF Frame
  <2> QED
    BY ZenonT(60), <2>3, <2>5
<1>5. /\ EmptyFrame.Header.Flags = 0 /\ EmptyFrame.PayloadHeader.ExchangeFlags = 0
      /\ EmptyFrame.Header.SourceNodeID = Zero(8) /\ EmptyFrame.Header.DestNodeID = Zero(8)
      /\ EmptyFrame.PayloadHeader.VendorID = Zero(2)
      /\ EmptyFrame.PayloadHeader.AckCounter = Zero(4)
      /\ EmptyFrame.Header.SessionID = Zero(2) /\ EmptyFrame.Header.MessageCounter = Zero(4)
      /\ EmptyFrame.PayloadHeader.ProtocolID = Zero(2) /\ EmptyFrame.PayloadHeader.Opcode = 0
      /\ EmptyFrame.PayloadHeader.ExchangeID = Zero(2) /\ EmptyFrame.Payload = <<>>
  BY Zenon DEF EmptyFrame
<1>6. /\ ~SourcePresent(0) /\ DSIZ(0) = 0
      /\ ~Has(0, 1) /\ ~Has(0, 2) /\ ~Has(0, 4) /\ ~Has(0, 16)
  BY DEF SourcePresent, SourceNodeIDPresent, DSIZ, Has
<1>7. 0 \in HeaderFlags /\ 0 \in ExchangeFlags
  BY SMTT(60) DEF HeaderFlags, ExchangeFlags
<1>8. FieldsMatch(EmptyFrame.Header) /\ PayloadFieldsMatch(EmptyFrame.PayloadHeader)
  BY <1>5, <1>6 DEF FieldsMatch, PayloadFieldsMatch
<1>9. Seen(EmptyFrame, <<>>) = NothingAsked
  <2>1. SourceSeen(EmptyFrame.Header) = {} /\ DestSeen(EmptyFrame.Header) = {}
    BY <1>5, <1>6, SMTT(60) DEF SourceSeen, DestSeen, DSIZUnicast, DSIZGroup
  <2>2. /\ FlagsSeen(EmptyFrame.PayloadHeader) = {} /\ AckSeen(EmptyFrame.PayloadHeader) = {}
        /\ VendorSeen(EmptyFrame.PayloadHeader) = {}
    BY <1>5, <1>6, Zenon DEF FlagsSeen, AckSeen, VendorSeen, ExchangeFlagInitiator,
       ExchangeFlagReliability, ExchangeFlagAcknowledgement, ExchangeFlagVendorPresent
  <2> QED
    BY <1>5, <2>1, <2>2, Zenon DEF Seen, NothingAsked
<1>10. NothingAsked.failed = <<>>
  BY Zenon DEF NothingAsked
<1>11. Faithful(EmptyFrame, NothingAsked)
  BY <1>4, <1>5, <1>7, <1>8, <1>9, <1>10, Zenon DEF Faithful
<1>12. frames \in Seq(Frame) /\ Len(frames) = 1 /\ frames[1] = EmptyFrame
  BY <1>1, <1>4
<1>13. /\ asked.failed \in Seq(Payloads) /\ returned \in Seq(Result) /\ Len(returned) = 0
  BY <1>1, <1>10
<1> QED
  BY <1>1, <1>10, <1>11, <1>12, <1>13, SMTT(60) DEF BuilderInv, ErrorIsFirst


\* A setter: the frames handed out are not the Builder's own.
LEMMA SetterInv ==
    ASSUME BuilderInv, NEW f, NEW a, Setter(f, a), Faithful(f, a),
           a.failed \in Seq(Payloads), ErrorIsFirst(err', a.failed)
    PROVE  BuilderInv'
<1>1. /\ frames' = [frames EXCEPT ![1] = f] /\ asked' = a /\ returned' = returned
  BY Zenon DEF Setter
<1>2. f \in Frame /\ 1 \in 1 .. Len(frames) /\ frames \in Seq(Frame) /\ Len(frames) \in Nat
  BY DEF BuilderInv, Faithful
<1>3. /\ frames' \in Seq(Frame) /\ Len(frames') = Len(frames) /\ frames'[1] = f
      /\ \A i \in 2 .. Len(frames) : frames'[i] = frames[i]
  BY <1>1, <1>2, ExceptSeq
<1>4. \A i \in 1 .. Len(returned) : GoodResult(returned'[i], frames')
  <2> SUFFICES ASSUME NEW i \in 1 .. Len(returned) PROVE GoodResult(returned'[i], frames')
    BY Zenon
  <2>1. GoodResult(returned[i], frames)
    BY Zenon DEF BuilderInv
  <2> QED
    BY <1>1, <1>3, <2>1, ZenonT(60) DEF GoodResult
<1>5. frames' \in Seq(Frame) /\ Len(frames') >= 1 /\ Faithful(frames'[1], asked')
  BY <1>1, <1>2, <1>3
<1> QED
  BY <1>1, <1>4, <1>5, Zenon DEF BuilderInv

\* A setter other than Payload, which leaves err alone.
LEMMA FieldSetterInv ==
    ASSUME BuilderInv, NEW f, NEW a, Setter(f, a), Faithful(f, a),
           a.failed = asked.failed, UNCHANGED err
    PROVE  BuilderInv'
BY SetterInv, Zenon DEF BuilderInv

\* Payload, which may fail.
LEMMA PayloadInv ==
    ASSUME BuilderInv, NEW v \in Payloads, Payload(v)
    PROVE  BuilderInv'
<1> DEFINE encoded == payloadBytes(v)
<1>1. encoded.err \in BOOLEAN /\ (~encoded.err => encoded.bytes \in Seq(Byte))
  BY BuilderAssumption, Zenon
<1>2. Faithful(b_frame, asked) /\ asked.failed \in Seq(Payloads) /\ ErrorIsFirst(err, asked.failed)
  BY Zenon DEF BuilderInv, b_frame
<1> HIDE DEF encoded
<1>3. CASE encoded.err
  <2> DEFINE failed == Append(asked.failed, v)
             a == [asked EXCEPT !.failed = failed]
  <2>1. /\ Setter(b_frame, a) /\ err' = IF err = <<>> THEN <<v>> ELSE err
    BY <1>3, Zenon DEF Payload, encoded
  <2>2. /\ failed \in Seq(Payloads) /\ failed # <<>>
        /\ failed[1] = IF asked.failed = <<>> THEN v ELSE asked.failed[1]
    <3>1. asked.failed # <<>> => 1 \in 1 .. Len(asked.failed)
      BY <1>2
    <3>2. asked.failed = <<>> => Len(asked.failed) = 0
      OBVIOUS
    <3> QED
      BY <1>2, <3>1, <3>2, AppendProperties, SMTT(60)
  <2>3. ErrorIsFirst(err', failed)
    BY <1>2, <2>1, <2>2, Zenon DEF ErrorIsFirst
  <2> HIDE DEF failed
  <2>4. Faithful(b_frame, a) /\ a.failed = failed
    BY <1>2, FailedSet, Zenon
  <2> HIDE DEF a
  <2> QED
    BY <2>1, <2>2, <2>3, <2>4, SetterInv, Zenon
<1>4. CASE ~encoded.err
  <2> DEFINE f == [b_frame EXCEPT !.Payload = encoded.bytes]
             a == [asked EXCEPT !.payload = encoded.bytes]
  <2>1. Setter(f, a) /\ UNCHANGED err
    BY <1>4, Zenon DEF Payload, encoded
  <2>2. Faithful(f, a) /\ a.failed = asked.failed
    BY <1>1, <1>2, <1>4, PayloadSet, Zenon
  <2> HIDE DEF f, a
  <2> QED
    BY <2>1, <2>2, FieldSetterInv, Zenon
<1> QED
  BY <1>1, <1>3, <1>4, Zenon

\* What Build records is of its type.
LEMMA ResultType ==
    ASSUME BuilderInv, NEW e \in {"nil", "marshal", "missing"},
           NEW at \in Nat
    PROVE  [err |-> e, first |-> err, at |-> at, asked |-> asked] \in Result
<1>1. /\ asked = Seen(frames[1], asked.failed) /\ frames[1] \in Frame
      /\ asked.failed \in Seq(Payloads)
  BY Zenon DEF BuilderInv, Faithful
<1>2. asked \in Asking
  <2> DEFINE x == <<frames[1], asked.failed>>
  <2>1. x \in Frame \X Seq(Payloads) /\ x[1] = frames[1] /\ x[2] = asked.failed
    BY <1>1, Zenon
  <2> QED
    BY <1>1, <2>1, Zenon DEF Asking
<1>3. err \in Seq(Payloads)
  <2>1. CASE asked.failed = <<>>
    BY <2>1, Zenon DEF BuilderInv, ErrorIsFirst
  <2>2. CASE asked.failed # <<>>
    <3>1. 1 \in 1 .. Len(asked.failed)
      BY <1>1, <2>2
    <3>2. asked.failed[1] \in Payloads
      BY <1>1, <3>1, ElementOfSeq, Zenon
    <3>3. err = <<asked.failed[1]>>
      BY <2>2, Zenon DEF BuilderInv, ErrorIsFirst
    <3> QED
      BY <3>2, <3>3, SMTT(60)
  <2> QED
    BY <2>1, <2>2, Zenon
<1> QED
  BY <1>2, <1>3, Zenon DEF Result

\* Build hands out a copy, or no frame.
LEMMA BuildInv ==
    ASSUME BuilderInv, Build
    PROVE  BuilderInv'
<1> DEFINE at == IF buildError = "nil" THEN Len(frames) + 1 ELSE 0
           r == [err |-> buildError, first |-> err, at |-> at, asked |-> asked]
<1>1. /\ returned' = Append(returned, r) /\ err' = err /\ asked' = asked
      /\ buildError = "nil" => frames' = Append(frames, frames[1])
      /\ buildError # "nil" => frames' = frames
  BY Zenon DEF Build, Return, b_frame
<1>2. /\ frames \in Seq(Frame) /\ Len(frames) \in Nat /\ Len(frames) >= 1
      /\ Faithful(frames[1], asked) /\ frames[1] \in Frame
      /\ returned \in Seq(Result) /\ ErrorIsFirst(err, asked.failed)
  BY DEF BuilderInv, Faithful
<1>3. /\ buildError \in {"nil", "marshal", "missing"}
      /\ buildError = "marshal" <=> err # <<>>
  BY Zenon DEF buildError
<1>4. at \in Nat
  BY <1>2
<1>5. r \in Result
  BY <1>3, <1>4, ResultType, Zenon
<1>6. /\ r.err = buildError /\ r.first = err /\ r.at = at /\ r.asked = asked
  BY Zenon
<1>7. /\ frames' \in Seq(Frame) /\ Len(frames') >= Len(frames)
      /\ \A i \in 1 .. Len(frames) : frames'[i] = frames[i]
      /\ buildError = "nil" => /\ Len(frames') = Len(frames) + 1
                              /\ frames'[Len(frames) + 1] = frames[1]
  <2>1. CASE buildError = "nil"
    <3> DEFINE e == frames[1]
    <3>1. e \in Frame /\ frames' = Append(frames, e)
      BY <1>1, <1>2, <2>1, Zenon
    <3> HIDE DEF e
    <3>2. /\ frames' \in Seq(Frame) /\ Len(frames') = Len(frames) + 1
          /\ \A i \in 1 .. Len(frames) : frames'[i] = frames[i]
          /\ frames'[Len(frames) + 1] = e
      BY <1>2, <3>1, AppendProperties, SMTT(60)
    <3> QED
      BY <1>2, <3>2, SMTT(60) DEF e
  <2>2. CASE buildError # "nil"
    BY <1>1, <1>2, <2>2, SMTT(60)
  <2> QED
    BY <2>1, <2>2, Zenon
<1>8. err # <<>> <=> asked.failed # <<>>
  BY <1>2, Zenon DEF ErrorIsFirst
<1>9. GoodResult(r, frames')
  <2>1. ErrorIsFirst(r.first, r.asked.failed)
    BY <1>2, <1>6, Zenon
  <2>2. r.err = "marshal" <=> r.asked.failed # <<>>
    BY <1>3, <1>6, <1>8, Zenon
  <2>3. buildError = "nil" => at \in 2 .. Len(frames') /\ frames'[at] = frames[1]
    BY <1>2, <1>7
  <2> HIDE DEF r, at
  <2>4. r.err = "nil" => r.at \in 2 .. Len(frames') /\ Faithful(frames'[r.at], r.asked)
    BY <1>2, <1>6, <2>3, ZenonT(60)
  <2> QED
    BY <2>1, <2>2, <2>4, ZenonT(60) DEF GoodResult
<1> HIDE DEF r, at
<1>10. /\ returned' \in Seq(Result) /\ Len(returned') = Len(returned) + 1
       /\ \A i \in 1 .. Len(returned) : returned'[i] = returned[i]
       /\ returned'[Len(returned) + 1] = r /\ Len(returned) \in Nat
  BY <1>1, <1>2, <1>5, AppendProperties, SMTT(60)
<1>11. ASSUME NEW i \in 1 .. Len(returned')
       PROVE  GoodResult(returned'[i], frames')
  <2>1. CASE i \in 1 .. Len(returned)
    <3>1. GoodResult(returned[i], frames) /\ returned'[i] = returned[i]
      BY <1>10, <2>1, Zenon DEF BuilderInv
    <3>2. \A k : k \in 2 .. Len(frames) => k \in 2 .. Len(frames') /\ frames'[k] = frames[k]
      BY <1>2, <1>7
    <3> QED
      BY <3>1, <3>2, Zenon DEF GoodResult
  <2>2. CASE i = Len(returned) + 1
    BY <1>9, <1>10, <2>2, Zenon DEF GoodResult
  <2> QED
    BY <1>10, <2>1, <2>2
<1>12. Len(frames') >= 1 /\ frames'[1] = frames[1] /\ asked'.failed \in Seq(Payloads)
  BY <1>1, <1>2, <1>7 DEF BuilderInv
<1> QED
  BY <1>1, <1>2, <1>7, <1>10, <1>11, <1>12, ZenonT(60) DEF BuilderInv

\* The setters, one by one.
LEMMA SetterActionsInv ==
    ASSUME BuilderInv
    PROVE  /\ \A id \in SessionIDs : SessionID(id) => BuilderInv'
           /\ \A c \in Counters : MessageCounter(c) \/ AckCounter(c) => BuilderInv'
           /\ \A id \in NodeIDs : SourceNodeID(id) \/ DestNodeID(id) => BuilderInv'
           /\ \A id \in GroupIDs : DestGroupID(id) => BuilderInv'
           /\ \A id \in Protocols : Protocol(id) => BuilderInv'
           /\ \A op \in Opcodes : Opcode(op) => BuilderInv'
           /\ \A id \in ExchangeIDs : ExchangeID(id) => BuilderInv'
           /\ \A id \in Vendors : Vendor(id) => BuilderInv'
           /\ Unsecured \/ Initiator \/ RequestAck => BuilderInv'
<1>1. /\ Faithful(b_frame, asked) /\ b_frame \in Frame
      /\ b_frame.Header \in Header /\ b_frame.PayloadHeader \in PayloadHeader
  BY FaithfulParts, Zenon DEF BuilderInv, b_frame
<1>2. b_frame.Header.SecurityFlags \in Byte
  BY <1>1, Zenon DEF Header
<1>3. ASSUME NEW id \in SessionIDs, SessionID(id) PROVE BuilderInv'
  <2> DEFINE s == b_frame.Header.SecurityFlags
             f == [b_frame EXCEPT !.Header.SessionID = id]
             g == [b_frame EXCEPT !.Header.SessionID = id, !.Header.SecurityFlags = s]
             a == [asked EXCEPT !.session = id]
  <2>1. Setter(f, a) /\ UNCHANGED err
    BY <1>3, Zenon DEF SessionID
  <2>2. f = g
    BY <1>1, ZenonT(60) DEF Frame, Header
  <2>3. id \in Uint(2)
    BY BuilderAssumption, Zenon
  <2> HIDE DEF s
  <2>4. Faithful(g, a) /\ a.failed = asked.failed
    BY <1>1, <1>2, <2>3, SessionIDSets, Zenon DEF s
  <2> HIDE DEF f, g, a
  <2> QED
    BY <2>1, <2>2, <2>4, FieldSetterInv, Zenon
<1>4. ASSUME NEW c \in Counters, MessageCounter(c) PROVE BuilderInv'
  <2> DEFINE f == [b_frame EXCEPT !.Header.MessageCounter = c]
             a == [asked EXCEPT !.counter = c]
  <2>1. Setter(f, a) /\ UNCHANGED err
    BY <1>4, Zenon DEF MessageCounter
  <2>2. c \in Uint(4)
    BY BuilderAssumption, Zenon
  <2>4. Faithful(f, a) /\ a.failed = asked.failed
    BY <1>1, <2>2, MessageCounterSets, Zenon
  <2> HIDE DEF f, a
  <2> QED
    BY <2>1, <2>4, FieldSetterInv, Zenon
<1>5. ASSUME NEW c \in Counters, AckCounter(c) PROVE BuilderInv'
  <2> DEFINE fl == SetFlag(b_frame.PayloadHeader.ExchangeFlags, ExchangeFlagAcknowledgement)
             f == [b_frame EXCEPT !.PayloadHeader.AckCounter = c,
                                !.PayloadHeader.ExchangeFlags =
                                  SetFlag(@, ExchangeFlagAcknowledgement)]
             g == [b_frame EXCEPT !.PayloadHeader.AckCounter = c,
                                !.PayloadHeader.ExchangeFlags = fl]
             a == [asked EXCEPT !.ack = {c}]
  <2>1. Setter(f, a) /\ UNCHANGED err
    BY <1>5, Zenon DEF AckCounter
  <2>2. c \in Uint(4)
    BY BuilderAssumption, Zenon
  <2>3. f = g
    BY <1>1, ZenonT(60) DEF Frame, Header, PayloadHeader
  <2> HIDE DEF fl
  <2>4. Faithful(g, a) /\ a.failed = asked.failed
    BY <1>1, <2>2, AckCounterSets, Zenon DEF fl
  <2> HIDE DEF f, g, a
  <2> QED
    BY <2>1, <2>3, <2>4, FieldSetterInv, Zenon
<1>6. ASSUME NEW id \in NodeIDs, SourceNodeID(id) PROVE BuilderInv'
  <2> DEFINE fl == SetFlag(b_frame.Header.Flags, SourceNodeIDPresent)
             f == [b_frame EXCEPT !.Header.SourceNodeID = id,
                                !.Header.Flags = SetFlag(@, SourceNodeIDPresent)]
             g == [b_frame EXCEPT !.Header.SourceNodeID = id,
                                !.Header.Flags = fl]
             a == [asked EXCEPT !.source = {id}]
  <2>1. Setter(f, a) /\ UNCHANGED err
    BY <1>6, Zenon DEF SourceNodeID
  <2>2. id \in Uint(8)
    BY BuilderAssumption, Zenon
  <2>3. f = g
    BY <1>1, ZenonT(60) DEF Frame, Header, PayloadHeader
  <2> HIDE DEF fl
  <2>4. Faithful(g, a) /\ a.failed = asked.failed
    BY <1>1, <2>2, SourceNodeIDSets, Zenon DEF fl
  <2> HIDE DEF f, g, a
  <2> QED
    BY <2>1, <2>3, <2>4, FieldSetterInv, Zenon
<1>7. ASSUME NEW id \in NodeIDs, DestNodeID(id) PROVE BuilderInv'
  <2> DEFINE fl == WithDSIZ(b_frame.Header.Flags, DSIZUnicast)
             f == [b_frame EXCEPT !.Header.DestNodeID = id,
                                !.Header.Flags = WithDSIZ(@, DSIZUnicast)]
             g == [b_frame EXCEPT !.Header.DestNodeID = id,
                                !.Header.Flags = fl]
             a == [asked EXCEPT !.dest = {<<"node", id>>}]
  <2>1. Setter(f, a) /\ UNCHANGED err
    BY <1>7, Zenon DEF DestNodeID
  <2>2. id \in Uint(8)
    BY BuilderAssumption, Zenon
  <2>3. f = g
    BY <1>1, ZenonT(60) DEF Frame, Header, PayloadHeader
  <2> HIDE DEF fl
  <2>4. Faithful(g, a) /\ a.failed = asked.failed
    BY <1>1, <2>2, DestNodeIDSets, Zenon DEF fl
  <2> HIDE DEF f, g, a
  <2> QED
    BY <2>1, <2>3, <2>4, FieldSetterInv, Zenon
<1>8. ASSUME NEW id \in GroupIDs, DestGroupID(id) PROVE BuilderInv'
  <2> DEFINE fl == WithDSIZ(b_frame.Header.Flags, DSIZGroup)
             f == [b_frame EXCEPT !.Header.DestNodeID = ZeroExtend(id, 8),
                                !.Header.Flags = WithDSIZ(@, DSIZGroup)]
             g == [b_frame EXCEPT !.Header.DestNodeID = ZeroExtend(id, 8),
                                !.Header.Flags = fl]
             a == [asked EXCEPT !.dest = {<<"group", id>>}]
  <2>1. Setter(f, a) /\ UNCHANGED err
    BY <1>8, Zenon DEF DestGroupID
  <2>2. id \in Uint(2)
    BY BuilderAssumption, Zenon
  <2>3. f = g
    BY <1>1, ZenonT(60) DEF Frame, Header, PayloadHeader
  <2> HIDE DEF fl
  <2>4. Faithful(g, a) /\ a.failed = asked.failed
    BY <1>1, <2>2, DestGroupIDSets, Zenon DEF fl
  <2> HIDE DEF f, g, a
  <2> QED
    BY <2>1, <2>3, <2>4, FieldSetterInv, Zenon
<1>9. ASSUME NEW id \in Protocols, Protocol(id) PROVE BuilderInv'
  <2> DEFINE f == [b_frame EXCEPT !.PayloadHeader.ProtocolID = id]
             a == [asked EXCEPT !.protocol = id]
  <2>1. Setter(f, a) /\ UNCHANGED err
    BY <1>9, Zenon DEF Protocol
  <2>2. id \in Uint(2)
    BY BuilderAssumption, Zenon
  <2>4. Faithful(f, a) /\ a.failed = asked.failed
    BY <1>1, <2>2, ProtocolSets, Zenon
  <2> HIDE DEF f, a
  <2> QED
    BY <2>1, <2>4, FieldSetterInv, Zenon
<1>10. ASSUME NEW op \in Opcodes, Opcode(op) PROVE BuilderInv'
  <2> DEFINE f == [b_frame EXCEPT !.PayloadHeader.Opcode = op]
             a == [asked EXCEPT !.opcode = op]
  <2>1. Setter(f, a) /\ UNCHANGED err
    BY <1>10, Zenon DEF Opcode
  <2>2. op \in Byte
    BY BuilderAssumption, Zenon
  <2>4. Faithful(f, a) /\ a.failed = asked.failed
    BY <1>1, <2>2, OpcodeSets, Zenon
  <2> HIDE DEF f, a
  <2> QED
    BY <2>1, <2>4, FieldSetterInv, Zenon
<1>11. ASSUME NEW id \in ExchangeIDs, ExchangeID(id) PROVE BuilderInv'
  <2> DEFINE f == [b_frame EXCEPT !.PayloadHeader.ExchangeID = id]
             a == [asked EXCEPT !.exchange = id]
  <2>1. Setter(f, a) /\ UNCHANGED err
    BY <1>11, Zenon DEF ExchangeID
  <2>2. id \in Uint(2)
    BY BuilderAssumption, Zenon
  <2>4. Faithful(f, a) /\ a.failed = asked.failed
    BY <1>1, <2>2, ExchangeIDSets, Zenon
  <2> HIDE DEF f, a
  <2> QED
    BY <2>1, <2>4, FieldSetterInv, Zenon
<1>12. ASSUME NEW id \in Vendors, Vendor(id) PROVE BuilderInv'
  <2> DEFINE fl == SetFlag(b_frame.PayloadHeader.ExchangeFlags, ExchangeFlagVendorPresent)
             f == [b_frame EXCEPT !.PayloadHeader.VendorID = id,
                                !.PayloadHeader.ExchangeFlags =
                                  SetFlag(@, ExchangeFlagVendorPresent)]
             g == [b_frame EXCEPT !.PayloadHeader.VendorID = id,
                                !.PayloadHeader.ExchangeFlags = fl]
             a == [asked EXCEPT !.vendor = {id}]
  <2>1. Setter(f, a) /\ UNCHANGED err
    BY <1>12, Zenon DEF Vendor
  <2>2. id \in Uint(2)
    BY BuilderAssumption, Zenon
  <2>3. f = g
    BY <1>1, ZenonT(60) DEF Frame, Header, PayloadHeader
  <2> HIDE DEF fl
  <2>4. Faithful(g, a) /\ a.failed = asked.failed
    BY <1>1, <2>2, VendorSets, Zenon DEF fl
  <2> HIDE DEF f, g, a
  <2> QED
    BY <2>1, <2>3, <2>4, FieldSetterInv, Zenon
<1>13. ASSUME Unsecured PROVE BuilderInv'
  <2> DEFINE s == b_frame.Header.SecurityFlags - (b_frame.Header.SecurityFlags % 4)
             f == [b_frame EXCEPT !.Header.SessionID = Zero(2),
                                  !.Header.SecurityFlags = @ - (@ % 4)]
             g == [b_frame EXCEPT !.Header.SessionID = Zero(2), !.Header.SecurityFlags = s]
             a == [asked EXCEPT !.session = Zero(2)]
  <2>1. Setter(f, a) /\ UNCHANGED err
    BY <1>13, Zenon DEF Unsecured
  <2>2. f = g
    BY <1>1, ZenonT(60) DEF Frame, Header
  <2>3. s \in Byte
    <3>1. ASSUME NEW x \in 0 .. 255 PROVE x - (x % 4) \in 0 .. 255
      OBVIOUS
    <3> QED
      BY <1>2, <3>1, Zenon DEF Byte
  <2>4. Zero(2) \in Uint(2)
    BY DEF Zero, Fill, Uint, Byte
  <2> HIDE DEF s
  <2>5. Faithful(g, a) /\ a.failed = asked.failed
    BY <1>1, <2>3, <2>4, SessionIDSets, Zenon
  <2> HIDE DEF f, g, a
  <2> QED
    BY <2>1, <2>2, <2>5, FieldSetterInv, Zenon
<1>14. ASSUME Initiator PROVE BuilderInv'
  <2> DEFINE fl == SetFlag(b_frame.PayloadHeader.ExchangeFlags, ExchangeFlagInitiator)
             f == [b_frame EXCEPT !.PayloadHeader.ExchangeFlags =
                                  SetFlag(@, ExchangeFlagInitiator)]
             g == [b_frame EXCEPT !.PayloadHeader.ExchangeFlags = fl]
             a == [asked EXCEPT !.flags = @ \cup {"I"}]
             b == [asked EXCEPT !.flags = asked.flags \cup {"I"}]
  <2>1. Setter(f, a) /\ UNCHANGED err
    BY <1>14, Zenon DEF Initiator
  <2>2. f = g
    BY <1>1, ZenonT(60) DEF Frame, PayloadHeader
  <2>3. a = b
    BY Zenon
  <2> HIDE DEF fl
  <2>4. Faithful(g, b) /\ b.failed = asked.failed
    BY <1>1, InitiatorSets, Zenon DEF fl
  <2> HIDE DEF f, g, a, b
  <2> QED
    BY <2>1, <2>2, <2>3, <2>4, FieldSetterInv, Zenon
<1>15. ASSUME RequestAck PROVE BuilderInv'
  <2> DEFINE fl == SetFlag(b_frame.PayloadHeader.ExchangeFlags, ExchangeFlagReliability)
             f == [b_frame EXCEPT !.PayloadHeader.ExchangeFlags =
                                  SetFlag(@, ExchangeFlagReliability)]
             g == [b_frame EXCEPT !.PayloadHeader.ExchangeFlags = fl]
             a == [asked EXCEPT !.flags = @ \cup {"R"}]
             b == [asked EXCEPT !.flags = asked.flags \cup {"R"}]
  <2>1. Setter(f, a) /\ UNCHANGED err
    BY <1>15, Zenon DEF RequestAck
  <2>2. f = g
    BY <1>1, ZenonT(60) DEF Frame, PayloadHeader
  <2>3. a = b
    BY Zenon
  <2> HIDE DEF fl
  <2>4. Faithful(g, b) /\ b.failed = asked.failed
    BY <1>1, RequestAckSets, Zenon DEF fl
  <2> HIDE DEF f, g, a, b
  <2> QED
    BY <2>1, <2>2, <2>3, <2>4, FieldSetterInv, Zenon
<1> QED
  BY <1>3, <1>4, <1>5, <1>6, <1>7, <1>8, <1>9, <1>10, <1>11, <1>12, <1>13, <1>14, <1>15, ZenonT(60)

\* No call breaks the invariant.
LEMMA BuilderInvariance == BuilderInv /\ [BuilderNext]_builderVars => BuilderInv'
<1> SUFFICES ASSUME BuilderInv, [BuilderNext]_builderVars PROVE BuilderInv'
  BY Zenon
<1>1. CASE UNCHANGED builderVars
  BY <1>1, Zenon DEF builderVars, BuilderInv
<1>2. CASE BuilderNext
  BY <1>2, SetterActionsInv, PayloadInv, BuildInv, Zenon DEF BuilderNext
<1> QED
  BY <1>1, <1>2, Zenon

\* What the invariant says of the frames that Build has returned.
LEMMA BuiltIsFaithful ==
    ASSUME BuilderInv, NEW r \in Built
    PROVE  /\ r.at \in 2 .. Len(frames) /\ Faithful(frames[r.at], r.asked)
           /\ r.asked = Seen(frames[r.at], <<>>)
<1>1. PICK i \in 1 .. Len(returned) : r = returned[i] /\ r.err = "nil"
  BY DEF Built, Range, BuilderInv
<1>2. GoodResult(r, frames)
  BY <1>1, Zenon DEF BuilderInv
<1>3. r.at \in 2 .. Len(frames) /\ Faithful(frames[r.at], r.asked) /\ r.asked.failed = <<>>
  BY <1>1, <1>2, Zenon DEF GoodResult
<1> QED
  BY <1>3, Zenon DEF Faithful

\* What the caller asked for is what the receiver sees, for every sequence of
\* calls of the setters and every argument.
THEOREM AskedArrives == BuilderSpec => []AskedIsSeen
<1>1. BuilderInv => AskedIsSeen
  <2> SUFFICES ASSUME BuilderInv, NEW r \in Built
               PROVE  LET out == FrameEncode(frames[r.at])
                          in  == FrameDecode(out.wire)
                      IN  out.err = "nil" /\ in.err = "nil" /\ Seen(in.frame, <<>>) = r.asked
    BY Zenon DEF AskedIsSeen
  <2> DEFINE f == frames[r.at]
             in == FrameDecode(FrameEncode(f).wire)
  <2>1. f \in Frame /\ Canonical(f) /\ r.asked = Seen(f, <<>>)
    BY Zenon, BuiltIsFaithful, FaithfulCanonical
  <2> HIDE DEF f
  <2>2. FrameEncode(f).err = "nil" /\ in = [err |-> "nil", frame |-> f]
    BY Zenon, <2>1, RoundTrip
  <2> HIDE DEF in
  <2>3. in.err = "nil" /\ in.frame = f
    BY <2>2, Zenon
  <2> QED
    BY <2>1, <2>2, <2>3, Zenon DEF f, in
<1> QED
  BY <1>1, BuilderInitInv, BuilderInvariance, PTL DEF BuilderSpec

\* A frame that lost its end on the way is refused or shows the same two
\* headers and a beginning of the payload, for every frame the Builder makes.
THEOREM CutIsHarmless == BuilderSpec => []CutKeepsHeaders
<1>1. BuilderInv => CutKeepsHeaders
  <2> SUFFICES ASSUME BuilderInv, NEW r \in Built,
                      NEW k \in 0 .. Len(FrameEncode(frames[r.at]).wire) - 1,
                      FrameDecode(SubSeq(FrameEncode(frames[r.at]).wire, 1, k)).err = "nil"
               PROVE  LET f  == frames[r.at]
                          in == FrameDecode(SubSeq(FrameEncode(f).wire, 1, k))
                      IN  /\ in.frame.Header = f.Header
                          /\ in.frame.PayloadHeader = f.PayloadHeader
                          /\ CutShort(in.frame.Payload, f.Payload)
    BY Zenon DEF CutKeepsHeaders
  <2> DEFINE f == frames[r.at]
             w == FrameEncode(f).wire
  <2>1. f \in Frame /\ Canonical(f)
    BY Zenon, BuiltIsFaithful, FaithfulCanonical
  <2> HIDE DEF f
  <2>2. w \in Seq(Byte)
    <3>1. <<>> \in Seq(Byte)
      OBVIOUS
    <3> QED
      BY Zenon, <2>1, <3>1, PayloadComesLast
  <2>3. k \in 0 .. Len(w) - 1
    BY Zenon DEF f
  <2> HIDE DEF w
  <2>4. k \in Nat /\ k < Len(w)
    BY <2>2, <2>3
  <2>5. SubSeq(w, 1, k) = Slice(w, 0, k)
    BY DEF Slice
  <2>6. FrameDecode(Slice(w, 0, k)).err = "nil"
    BY <2>5, Zenon DEF f, w
  <2>7. LET g == FrameDecode(Slice(w, 0, k)).frame
        IN  /\ g.Header = f.Header /\ g.PayloadHeader = f.PayloadHeader
            /\ CutShort(g.Payload, f.Payload)
    BY <2>1, <2>4, <2>6, CutDecode, Zenon DEF w
  <2> QED
    BY <2>5, <2>7, Zenon DEF f, w
<1> QED
  BY <1>1, BuilderInitInv, BuilderInvariance, PTL DEF BuilderSpec

\* Build reports the first payload that could not be encoded, and goes on
\* reporting it, whatever is called afterwards.
THEOREM ErrorStays == BuilderSpec => []FirstErrorStays
<1>1. BuilderInv => FirstErrorStays
  <2> SUFFICES ASSUME BuilderInv, NEW r \in Range(returned)
               PROVE  IF r.asked.failed = <<>> THEN r.err # "marshal"
                      ELSE r.err = "marshal" /\ r.first = <<r.asked.failed[1]>>
    BY Zenon DEF FirstErrorStays
  <2>1. PICK i \in 1 .. Len(returned) : r = returned[i]
    BY DEF Range, BuilderInv
  <2>2. GoodResult(r, frames)
    BY <2>1, Zenon DEF BuilderInv
  <2> QED
    BY <2>2, Zenon DEF GoodResult, ErrorIsFirst
<1> QED
  BY <1>1, BuilderInitInv, BuilderInvariance, PTL DEF BuilderSpec

\* A frame that Build has returned never changes under the caller.
THEOREM BuiltStays == BuilderSpec => BuiltFrameStable
<1>1. BuilderInv /\ [BuilderNext]_builderVars
        => [\A r \in Built : frames'[r.at] = frames[r.at]]_builderVars
  <2> SUFFICES ASSUME BuilderInv, BuilderNext, NEW r \in Built
               PROVE  frames'[r.at] = frames[r.at]
    BY ZenonT(60)
  <2>1. frames \in Seq(Frame) /\ Len(frames) \in Nat /\ r.at \in 2 .. Len(frames)
    BY BuiltIsFaithful DEF BuilderInv
  <2>2. ASSUME NEW f, NEW a, Setter(f, a) PROVE frames'[r.at] = frames[r.at]
    BY <2>1, <2>2 DEF Setter
  <2>3. ASSUME Build PROVE frames'[r.at] = frames[r.at]
    <3>1. frames[1] \in Frame
      BY <2>1
    <3>2. frames' = frames \/ frames' = Append(frames, frames[1])
      BY <2>3, Zenon DEF Build, b_frame
    <3> QED
      BY <2>1, <3>1, <3>2, AppendProperties
  <2>4. Build \/ \E f, a : Setter(f, a)
    BY Zenon DEF BuilderNext, SessionID, MessageCounter, SourceNodeID, DestNodeID, DestGroupID,
       Unsecured, Protocol, Opcode, ExchangeID, Initiator, RequestAck, AckCounter, Vendor, Payload
  <2> QED
    BY <2>2, <2>3, <2>4, Zenon
<1> QED
  BY <1>1, BuilderInitInv, BuilderInvariance, PTL DEF BuilderSpec, BuiltFrameStable

-----------------------------------------------------------------------------
(* The receive loop *)

\* A sequence with one more element.
LEMMA Appended ==
    ASSUME NEW S, NEW s \in Seq(S), NEW e \in S, NEW t, t = Append(s, e)
    PROVE  /\ t \in Seq(S) /\ Len(t) = Len(s) + 1
           /\ \A j \in 1 .. Len(s) : t[j] = s[j]
           /\ t[Len(s) + 1] = e
BY AppendProperties

\* The inductive invariant of the receive loop.  Every datagram is a frame of
\* the sender or noise; while Start decodes, the beginning of buf is what it
\* received of the datagram it is reading; and a frame handed up has its
\* payload in an array of its own, which nothing writes to again.
Origin(s) ==
    \/ \E f \in Frames : s.frames = {f} /\ s.wire = FrameEncode(f).wire
    \/ s.frames = {} /\ s.wire \in Noise

Shows(k, s, data) ==
    \E f \in s.frames :
        /\ k.headers = <<f.Header, f.PayloadHeader>>
        /\ IF Len(s.wire) <= Bufsize THEN data = f.Payload ELSE CutShort(data, f.Payload)

Stands(k, datagrams, arrays) ==
    /\ k.of \in 1 .. Len(datagrams)
    /\ k.payload.array \in 2 .. Len(arrays)
    /\ k.payload.from = 0 /\ k.payload.to = Len(arrays[k.payload.array])
    /\ Shows(k, datagrams[k.of], arrays[k.payload.array])

Datagram == [wire : Seq(Byte), frames : SUBSET Frames]
Kept ==
    [of : Nat, headers : Header \X PayloadHeader, payload : [array : Nat, from : Nat, to : Nat]]

TransportInv ==
    /\ sent \in Seq(Datagram) /\ \A i \in 1 .. Len(sent) : Origin(sent[i])
    /\ net \subseteq 1 .. Len(sent)
    /\ heap \in Seq(Seq(Byte)) /\ Len(heap) >= 1 /\ Len(heap[1]) = Bufsize
    /\ pc = "decode" => /\ reading \in 1 .. Len(sent)
                        /\ Slice(heap[1], 0, n) = Received(sent[reading].wire)
    /\ pc = "handle" => frame \in Kept /\ Stands(frame, sent, heap)
    /\ kept \in Seq(Kept) /\ \A i \in 1 .. Len(kept) : Stands(kept[i], sent, heap)

\* What a read sees of a datagram.
LEMMA ReceivedBytes ==
    ASSUME NEW d \in Seq(Byte)
    PROVE  /\ Received(d) \in Seq(Byte) /\ Len(Received(d)) \in 0 .. Bufsize
           /\ Len(d) <= Bufsize => Received(d) = d
           /\ Len(d) > Bufsize => Received(d) = Slice(d, 0, Bufsize)
<1> DEFINE m == Min({Bufsize, Len(d)})
<1>1. Bufsize \in Nat /\ Len(d) \in Nat
  BY TransportAssumption
<1>2. /\ m \in 0 .. Len(d) /\ m <= Bufsize
      /\ Len(d) <= Bufsize => m = Len(d)
      /\ Len(d) > Bufsize => m = Bufsize
  <2>1. CASE Len(d) <= Bufsize
    <3>1. Len(d) \in {Bufsize, Len(d)} /\ \A y \in {Bufsize, Len(d)} : Len(d) <= y
      BY <1>1, <2>1
    <3>2. \A x \in {Bufsize, Len(d)} : (\A y \in {Bufsize, Len(d)} : x <= y) => x = Len(d)
      BY <1>1, <2>1
    <3>3. m = Len(d)
      BY <3>1, <3>2, Zenon DEF Min
    <3> QED
      BY <1>1, <2>1, <3>3
  <2>2. CASE Len(d) > Bufsize
    <3>1. Bufsize \in {Bufsize, Len(d)} /\ \A y \in {Bufsize, Len(d)} : Bufsize <= y
      BY <1>1, <2>2
    <3>2. \A x \in {Bufsize, Len(d)} : (\A y \in {Bufsize, Len(d)} : x <= y) => x = Bufsize
      BY <1>1, <2>2
    <3>3. m = Bufsize
      BY <3>1, <3>2, Zenon DEF Min
    <3> QED
      BY <1>1, <2>2, <3>3
  <2> QED
    BY <1>1, <2>1, <2>2
<1>3. Received(d) = Slice(d, 0, m)
  BY DEF Received, Slice
<1> HIDE DEF m
<1>4. Slice(d, 0, m) \in Seq(Byte) /\ Len(Slice(d, 0, m)) = m
  BY <1>1, <1>2, SliceProperties
<1>5. Slice(d, 0, Len(d)) = d
  BY Zenon, SliceAll
<1> QED
  BY <1>1, <1>2, <1>3, <1>4, <1>5

\* The wire bytes of a frame of the sender.
LEMMA WireBytes ==
    ASSUME NEW f \in Frames
    PROVE  f \in Frame /\ Canonical(f) /\ FrameEncode(f).wire \in Seq(Byte)
<1>1. f \in Frame /\ Canonical(f) /\ <<>> \in Seq(Byte)
  BY TransportAssumption
<1> QED
  BY Zenon, <1>1, PayloadComesLast

\* What Decode accepts is a frame that was sent.
LEMMA DecodedIsSent ==
    ASSUME NEW s \in Datagram, Origin(s), FrameDecode(Received(s.wire)).err = "nil",
           NEW k, k.headers = <<FrameDecode(Received(s.wire)).frame.Header,
                                FrameDecode(Received(s.wire)).frame.PayloadHeader>>
    PROVE  /\ Shows(k, s, FrameDecode(Received(s.wire)).frame.Payload)
           /\ k.headers \in Header \X PayloadHeader
           /\ FrameDecode(Received(s.wire)).frame.Payload \in Seq(Byte)
<1> DEFINE w == s.wire
           g == FrameDecode(Received(w)).frame
<1>1. PICK f \in Frames : s.frames = {f} /\ w = FrameEncode(f).wire
  <2>1. w \notin Noise
    BY TransportAssumption, Zenon
  <2> QED
    BY <2>1, Zenon DEF Origin
<1>2. f \in Frame /\ Canonical(f) /\ w \in Seq(Byte)
  BY <1>1, WireBytes, Zenon
<1>3. Bufsize \in Nat /\ Len(w) \in Nat
  BY <1>2, TransportAssumption, SMTT(60)
<1>4. f.Header \in Header /\ f.PayloadHeader \in PayloadHeader /\ f.Payload \in Seq(Byte)
  BY <1>2, Zenon DEF Frame
<1>5. FrameDecode(Received(w)).err = "nil" /\ k.headers = <<g.Header, g.PayloadHeader>>
  BY Zenon
<1>6. CASE Len(w) <= Bufsize
  <2>1. Received(w) = w
    BY <1>2, <1>6, ReceivedBytes, Zenon
  <2>2. FrameDecode(w) = [err |-> "nil", frame |-> f]
    BY <1>1, <1>2, RoundTrip, ZenonT(60)
  <2>3. g = f
    BY <2>1, <2>2
  <2> HIDE DEF g, w
  <2> QED
    <3>1. k.headers = <<f.Header, f.PayloadHeader>> /\ g.Payload = f.Payload
      BY <1>5, <2>3, Zenon
    <3>2. k.headers \in Header \X PayloadHeader /\ g.Payload \in Seq(Byte)
      BY <1>4, <3>1
    <3>3. Shows(k, s, g.Payload)
      BY <1>1, <1>6, <3>1, Zenon DEF Shows, w
    <3> QED
      BY <3>2, <3>3, Zenon DEF g, w
<1>7. CASE Len(w) > Bufsize
  <2>1. Received(w) = Slice(w, 0, Bufsize)
    BY <1>2, <1>7, ReceivedBytes, Zenon
  <2>2. Bufsize < Len(w)
    BY <1>3, <1>7, Zenon
  <2>3. /\ g.Header = f.Header /\ g.PayloadHeader = f.PayloadHeader
        /\ g.Payload \in Seq(Byte) /\ CutShort(g.Payload, f.Payload)
    <3> DEFINE e == FrameEncode(f).wire
    <3>1. Bufsize < Len(e) /\ FrameDecode(Slice(e, 0, Bufsize)).err = "nil"
      BY <1>1, <1>5, <2>1, <2>2, Zenon
    <3>2. g = FrameDecode(Slice(e, 0, Bufsize)).frame
      BY <1>1, <2>1, Zenon
    <3>3. LET h == FrameDecode(Slice(e, 0, Bufsize)).frame
          IN  /\ h.Header = f.Header /\ h.PayloadHeader = f.PayloadHeader
              /\ h.Payload \in Seq(Byte) /\ CutShort(h.Payload, f.Payload)
      BY <1>2, <1>3, <3>1, CutDecode, Zenon
    <3> QED
      BY <3>2, <3>3, Zenon
  <2>4. ~(Len(w) <= Bufsize)
    BY <1>3, <1>7, SMTT(60)
  <2> HIDE DEF g, w
  <2>5. k.headers = <<f.Header, f.PayloadHeader>> /\ g.Payload \in Seq(Byte)
    BY <1>5, <2>3, Zenon
  <2>6. k.headers \in Header \X PayloadHeader
    BY <1>4, <2>5
  <2>7. Shows(k, s, g.Payload)
    BY <1>1, <2>3, <2>4, <2>5, Zenon DEF Shows, w
  <2> QED
    BY <2>5, <2>6, <2>7, Zenon DEF g, w
<1>8. Len(w) <= Bufsize \/ Len(w) > Bufsize
  BY <1>3
<1> QED
  BY <1>6, <1>7, <1>8, Zenon

\* A longer history and a longer heap, and a new content of buf, leave the
\* frames that were handed up as they are.
LEMMA StandsOn ==
    ASSUME NEW k, NEW s \in Seq(Datagram), NEW t \in Seq(Datagram),
           NEW a \in Seq(Seq(Byte)), NEW b \in Seq(Seq(Byte)), Stands(k, s, a),
           Len(s) <= Len(t), \A i \in 1 .. Len(s) : t[i] = s[i],
           Len(a) <= Len(b), \A i \in 2 .. Len(a) : b[i] = a[i]
    PROVE  Stands(k, t, b)
<1>1. Len(s) \in Nat /\ Len(t) \in Nat /\ Len(a) \in Nat /\ Len(b) \in Nat
  OBVIOUS
<1>2. k.of \in 1 .. Len(t) /\ t[k.of] = s[k.of]
  <2> DEFINE j == k.of
  <2>1. j \in 1 .. Len(s)
    BY Zenon DEF Stands
  <2> HIDE DEF j
  <2>2. j \in 1 .. Len(t) /\ t[j] = s[j]
    BY <1>1, <2>1, SMTT(60)
  <2> QED
    BY <2>2, Zenon DEF j
<1>3. k.payload.array \in 2 .. Len(b) /\ b[k.payload.array] = a[k.payload.array]
  <2> DEFINE j == k.payload.array
  <2>1. j \in 2 .. Len(a)
    BY Zenon DEF Stands
  <2> HIDE DEF j
  <2>2. j \in 2 .. Len(b) /\ b[j] = a[j]
    BY <1>1, <2>1, SMTT(60)
  <2> QED
    BY <2>2, Zenon DEF j
<1> QED
  BY <1>2, <1>3, Zenon DEF Stands

\* The loop before the first datagram.
LEMMA TransportInitInv == Init => TransportInv
<1> SUFFICES ASSUME Init PROVE TransportInv
  BY Zenon
<1>1. Zero(Bufsize) \in Seq(Byte) /\ Len(Zero(Bufsize)) = Bufsize
  <2>1. Bufsize \in Nat /\ Zero(Bufsize) \in Uint(Bufsize)
    BY TransportAssumption DEF Zero, Fill, Uint, Byte
  <2> QED
    BY <2>1, UintIsSeq, Zenon
<1>2. /\ heap \in Seq(Seq(Byte)) /\ Len(heap) = 1 /\ heap[1] = Zero(Bufsize)
  BY <1>1 DEF Init
<1>3. /\ sent \in Seq(Datagram) /\ Len(sent) = 0 /\ kept \in Seq(Kept) /\ Len(kept) = 0
      /\ net = {} /\ pc = "read"
  BY DEF Init
<1> QED
  BY <1>1, <1>2, <1>3 DEF TransportInv

\* A datagram leaves a node.
LEMMA EmitInv ==
    ASSUME TransportInv, NEW s \in Datagram, Origin(s), Emit(s.wire, s.frames)
    PROVE  TransportInv'
<1>1. /\ sent' = Append(sent, s) /\ net' = net \cup {Len(sent) + 1}
      /\ UNCHANGED <<pc, heap, reading, n, frame, kept>>
  <2>1. s = [wire |-> s.wire, frames |-> s.frames]
    BY Zenon DEF Datagram
  <2> QED
    BY <2>1, Zenon DEF Emit, loop
<1>2. sent \in Seq(Datagram) /\ Len(sent) \in Nat /\ heap \in Seq(Seq(Byte)) /\ Len(heap) \in Nat
  BY SMTT(60) DEF TransportInv
<1>3. /\ sent' \in Seq(Datagram) /\ Len(sent') = Len(sent) + 1
      /\ \A i \in 1 .. Len(sent) : sent'[i] = sent[i]
      /\ sent'[Len(sent) + 1] = s
  BY <1>1, <1>2, AppendProperties
<1>4. \A i \in 1 .. Len(sent') : Origin(sent'[i])
  <2> SUFFICES ASSUME NEW i \in 1 .. Len(sent') PROVE Origin(sent'[i])
    BY Zenon
  <2>1. i \in 1 .. Len(sent) \/ i = Len(sent) + 1
    BY <1>2, <1>3, SMTT(60)
  <2> QED
    BY <1>3, <2>1, Zenon DEF TransportInv
<1>5. net' \subseteq 1 .. Len(sent')
  <2>1. net \subseteq 1 .. Len(sent)
    BY Zenon DEF TransportInv
  <2>2. \A i \in net' : i \in 1 .. Len(sent) \/ i = Len(sent) + 1
    BY <1>1, <2>1, Zenon
  <2> QED
    BY <1>2, <1>3, <2>2, SMTT(60)
<1>6. \A k : Stands(k, sent, heap) => Stands(k, sent', heap)
  <2>1. Len(sent) <= Len(sent') /\ Len(heap) <= Len(heap)
    BY <1>2, <1>3
  <2> QED
    BY <1>2, <1>3, <2>1, StandsOn, ZenonT(60)
<1>7. pc = "decode" => reading \in 1 .. Len(sent') /\ sent'[reading] = sent[reading]
  <2>1. pc = "decode" => reading \in 1 .. Len(sent)
    BY Zenon DEF TransportInv
  <2>2. \A i \in 1 .. Len(sent) : i \in 1 .. Len(sent')
    BY <1>2, <1>3
  <2> QED
    BY <1>3, <2>1, <2>2, Zenon
<1> QED
  BY <1>1, <1>3, <1>4, <1>5, <1>6, <1>7, ZenonT(60) DEF TransportInv

\* Sending, and the noise.
LEMMA SendInv ==
    ASSUME TransportInv, Send \/ Stray
    PROVE  TransportInv'
<1>1. ASSUME Send PROVE TransportInv'
  <2>1. PICK f \in Frames : Emit(FrameEncode(f).wire, {f})
    BY <1>1, Zenon DEF Send
  <2> DEFINE s == [wire |-> FrameEncode(f).wire, frames |-> {f}]
  <2>2. FrameEncode(f).wire \in Seq(Byte)
    BY WireBytes, ZenonT(60)
  <2>3. s \in Datagram /\ s.wire = FrameEncode(f).wire /\ s.frames = {f}
    BY <2>2, Zenon DEF Datagram
  <2> HIDE DEF s
  <2>4. Origin(s)
    BY <2>3, Zenon DEF Origin
  <2>5. Emit(s.wire, s.frames)
    BY <2>1, <2>3, Zenon
  <2> QED
    BY <2>3, <2>4, <2>5, EmitInv, Zenon
<1>2. ASSUME Stray PROVE TransportInv'
  <2>1. PICK d \in Noise : Emit(d, {})
    BY <1>2, Zenon DEF Stray
  <2> DEFINE s == [wire |-> d, frames |-> {}]
  <2>2. d \in Seq(Byte)
    BY TransportAssumption, Zenon
  <2>3. s \in Datagram /\ s.wire = d /\ s.frames = {}
    BY <2>2, Zenon DEF Datagram
  <2> HIDE DEF s
  <2>4. Origin(s)
    BY <2>3, Zenon DEF Origin
  <2>5. Emit(s.wire, s.frames)
    BY <2>1, <2>3, Zenon
  <2> QED
    BY <2>3, <2>4, <2>5, EmitInv, Zenon
<1> QED
  BY <1>1, <1>2, Zenon

\* A read overwrites buf and nothing else.
LEMMA ReadInv ==
    ASSUME TransportInv, ReadFromUDP
    PROVE  TransportInv'
<1>1. PICK i \in net :
         LET d == Received(sent[i].wire)
         IN  /\ net' \subseteq net
             /\ heap' = [heap EXCEPT ![1] = d \o SubSeq(heap[1], Len(d) + 1, Bufsize)]
             /\ reading' = i /\ n' = Len(d)
  BY Zenon DEF ReadFromUDP
<1>2. UNCHANGED <<sent, frame, kept>> /\ pc' = "decode"
  BY Zenon DEF ReadFromUDP
<1> DEFINE d == Received(sent[i].wire)
           rest == Slice(heap[1], Len(d), Bufsize)
<1>3. /\ sent \in Seq(Datagram) /\ heap \in Seq(Seq(Byte)) /\ Len(heap) \in Nat /\ Len(heap) >= 1
      /\ heap[1] \in Seq(Byte) /\ Len(heap[1]) = Bufsize /\ Bufsize \in Nat
  BY TransportAssumption, SMTT(60) DEF TransportInv
<1>4. i \in 1 .. Len(sent) /\ sent[i].wire \in Seq(Byte)
  <2>1. i \in 1 .. Len(sent)
    BY Zenon DEF TransportInv
  <2>2. sent[i] \in Datagram
    BY <1>3, <2>1
  <2> QED
    BY <2>1, <2>2, Zenon DEF Datagram
<1>5. d \in Seq(Byte) /\ Len(d) \in 0 .. Bufsize
  BY <1>4, ReceivedBytes, Zenon
<1>6. heap' = [heap EXCEPT ![1] = d \o rest] /\ reading' = i /\ n' = Len(d)
  BY <1>1, Zenon DEF Slice
<1> HIDE DEF d
<1>7. rest \in Seq(Byte) /\ Len(rest) = Bufsize - Len(d)
  <2> DEFINE b == heap[1]
             c == Bufsize - Len(d)
  <2>1. /\ b \in Seq(Byte) /\ Len(d) \in Nat /\ c \in Nat
        /\ Len(d) + c = Bufsize /\ Len(d) + c <= Len(b)
    BY <1>3, <1>5
  <2> HIDE DEF b, c
  <2>2. Slice(b, Len(d), Len(d) + c) \in Seq(Byte) /\ Len(Slice(b, Len(d), Len(d) + c)) = c
    BY <2>1, SliceProperties, ZenonT(60)
  <2> QED
    BY <2>1, <2>2, Zenon DEF b, c
<1> HIDE DEF rest
<1>8. d \o rest \in Seq(Byte) /\ Len(d \o rest) = Bufsize
  BY <1>3, <1>5, <1>7, ConcatProperties
<1>9. Slice(d \o rest, 0, Len(d)) = d
  <2>1. Slice(d \o rest, 0, Len(d)) = Slice(d, 0, Len(d))
    BY <1>5, <1>7, SliceOfPrefix, SMTT(60)
  <2> QED
    BY <1>5, <2>1, SliceAll, Zenon
<1> DEFINE e == d \o rest
<1> HIDE DEF e
<1>10. /\ heap' \in Seq(Seq(Byte)) /\ Len(heap') = Len(heap) /\ heap'[1] = e
       /\ \A j \in 2 .. Len(heap) : heap'[j] = heap[j]
  <2>1. e \in Seq(Byte) /\ heap' = [heap EXCEPT ![1] = e]
    BY <1>6, <1>8, Zenon DEF e
  <2> QED
    BY <1>3, <2>1, ExceptSeq
<1>11. Slice(heap'[1], 0, n') = Received(sent'[reading'].wire) /\ Len(heap'[1]) = Bufsize
  BY <1>2, <1>6, <1>8, <1>9, <1>10, Zenon DEF e, d
<1>12. \A k : Stands(k, sent, heap) => Stands(k, sent, heap')
  <2>1. Len(sent) <= Len(sent) /\ Len(heap) <= Len(heap')
    BY <1>3, <1>10
  <2> QED
    BY <1>3, <1>10, <2>1, StandsOn, ZenonT(60)
<1>13. net' \subseteq 1 .. Len(sent') /\ reading' \in 1 .. Len(sent') /\ Len(heap') >= 1
  <2>1. net' \subseteq 1 .. Len(sent)
    BY <1>1, Zenon DEF TransportInv
  <2> QED
    BY <1>2, <1>3, <1>4, <1>6, <1>10, <2>1, Zenon
<1> QED
  BY <1>2, <1>10, <1>11, <1>12, <1>13, Zenon DEF TransportInv

\* Decode hands up a frame that was sent, in memory of its own.
LEMMA DecodeInv ==
    ASSUME TransportInv, Decode
    PROVE  TransportInv'
<1> DEFINE s == sent[reading]
           in == FrameDecode(Slice(heap[1], 0, n))
<1>1. /\ pc = "decode" /\ UNCHANGED <<sent, net, reading, n, kept>>
      /\ in.err # "nil" => pc' = "read" /\ UNCHANGED <<heap, frame>>
      /\ in.err = "nil" =>
           /\ frame' = [of |-> reading,
                        headers |-> <<in.frame.Header, in.frame.PayloadHeader>>,
                        payload |-> [array |-> Len(heap) + 1, from |-> 0,
                                     to |-> Len(in.frame.Payload)]]
           /\ heap' = Append(heap, in.frame.Payload)
           /\ pc' = "handle"
  BY ZenonT(60) DEF Decode, MalformedDropped, PayloadCopied
<1>2. /\ sent \in Seq(Datagram) /\ heap \in Seq(Seq(Byte)) /\ Len(heap) \in Nat /\ Len(heap) >= 1
      /\ reading \in 1 .. Len(sent) /\ Slice(heap[1], 0, n) = Received(s.wire)
  <2>1. /\ sent \in Seq(Datagram) /\ heap \in Seq(Seq(Byte)) /\ Len(heap) >= 1
        /\ reading \in 1 .. Len(sent) /\ Slice(heap[1], 0, n) = Received(s.wire)
    BY <1>1, Zenon DEF TransportInv
  <2> QED
    BY <2>1
<1>3. s \in Datagram /\ Origin(s) /\ reading \in Nat
  <2>1. Origin(s)
    BY <1>2, Zenon DEF TransportInv
  <2> QED
    BY <1>2, <2>1
<1>4. in = FrameDecode(Received(s.wire))
  BY <1>2, Zenon
<1> HIDE DEF in
<1>5. CASE in.err # "nil"
  BY <1>1, <1>5, Zenon DEF TransportInv
<1>6. CASE in.err = "nil"
  <2> DEFINE data == in.frame.Payload
             k == [of |-> reading, headers |-> <<in.frame.Header, in.frame.PayloadHeader>>,
                   payload |-> [array |-> Len(heap) + 1, from |-> 0, to |-> Len(data)]]
  <2>1. /\ k.of = reading /\ k.headers = <<in.frame.Header, in.frame.PayloadHeader>>
        /\ k.payload.array = Len(heap) + 1 /\ k.payload.from = 0 /\ k.payload.to = Len(data)
    BY Zenon
  <2>2. frame' = k /\ heap' = Append(heap, data) /\ pc' = "handle"
    BY <1>1, <1>6, Zenon
  <2> HIDE DEF k
  <2>3. Shows(k, s, data) /\ k.headers \in Header \X PayloadHeader /\ data \in Seq(Byte)
    BY <1>3, <1>4, <1>6, <2>1, DecodedIsSent, ZenonT(60)
  <2>4. k \in Kept
    <3>1. Len(data) \in Nat /\ Len(heap) + 1 \in Nat
      BY <1>2, <2>3, SMTT(60)
    <3>2. k.headers = <<in.frame.Header, in.frame.PayloadHeader>>
      BY <2>1, Zenon
    <3> HIDE DEF data
    <3> QED
      BY <1>3, <2>3, <3>1, <3>2, ZenonT(60) DEF k, Kept
  <2> HIDE DEF data
  <2>5. /\ heap' \in Seq(Seq(Byte)) /\ Len(heap') = Len(heap) + 1
        /\ \A j \in 1 .. Len(heap) : heap'[j] = heap[j]
        /\ heap'[Len(heap) + 1] = data
    <3>1. heap \in Seq(Seq(Byte)) /\ data \in Seq(Byte) /\ heap' = Append(heap, data)
      BY <1>2, <2>2, <2>3, ZenonT(60)
    <3> QED
      BY <3>1, Appended
  <2>6. Len(heap) + 1 \in 2 .. Len(heap') /\ Len(heap') >= 1 /\ heap'[1] = heap[1]
    BY <1>2, <2>5
  <2>7. Stands(k, sent, heap')
    BY <1>2, <2>1, <2>3, <2>5, <2>6, Zenon DEF Stands
  <2>8. \A l : Stands(l, sent, heap) => Stands(l, sent, heap')
    <3>1. /\ Len(sent) <= Len(sent) /\ Len(heap) <= Len(heap')
          /\ \A j \in 2 .. Len(heap) : heap'[j] = heap[j]
      BY <1>2, <2>5, SMTT(60)
    <3> QED
      BY <1>2, <2>5, <3>1, StandsOn, ZenonT(60)
  <2> QED
    BY <1>1, <2>2, <2>4, <2>5, <2>6, <2>7, <2>8, ZenonT(60) DEF TransportInv
<1> QED
  BY <1>5, <1>6, Zenon

\* No step of the sender, the network or the loop breaks the invariant.
LEMMA TransportInvariance == TransportInv /\ [Next]_vars => TransportInv'
<1> SUFFICES ASSUME TransportInv, [Next]_vars PROVE TransportInv'
  BY Zenon
<1>1. CASE UNCHANGED vars
  BY <1>1, Zenon DEF vars, TransportInv
<1>2. CASE Lose
  <2>1. net' \subseteq net /\ UNCHANGED <<sent, pc, heap, reading, n, frame, kept>>
    BY <1>2, Zenon DEF Lose, loop
  <2>2. net' \subseteq 1 .. Len(sent)
    BY <2>1, Zenon DEF TransportInv
  <2> QED
    BY <2>1, <2>2, ZenonT(60) DEF TransportInv
<1>3. CASE ReadError
  BY <1>3, Zenon DEF ReadError, TransportInv
<1>4. CASE Close
  BY <1>4, Zenon DEF Close, loop, TransportInv
<1>5. CASE Handle
  <2>1. /\ kept' = Append(kept, frame) /\ pc = "handle" /\ pc' = "read"
        /\ UNCHANGED <<sent, net, heap, reading, n>>
    BY <1>5, Zenon DEF Handle
  <2>2. kept \in Seq(Kept) /\ frame \in Kept /\ Stands(frame, sent, heap) /\ Len(kept) \in Nat
    BY <2>1, SMTT(60) DEF TransportInv
  <2>3. /\ kept' \in Seq(Kept) /\ Len(kept') = Len(kept) + 1
        /\ \A i \in 1 .. Len(kept) : kept'[i] = kept[i]
        /\ kept'[Len(kept) + 1] = frame
    <3>1. kept \in Seq(Kept) /\ frame \in Kept /\ kept' = Append(kept, frame)
      BY Zenon, <2>1, <2>2
    <3> QED
      BY <3>1, Appended
  <2>4. \A i \in 1 .. Len(kept') : Stands(kept'[i], sent, heap)
    <3> SUFFICES ASSUME NEW i \in 1 .. Len(kept') PROVE Stands(kept'[i], sent, heap)
      BY Zenon
    <3>1. i \in 1 .. Len(kept) \/ i = Len(kept) + 1
      BY <2>2, <2>3
    <3> QED
      BY <2>2, <2>3, <3>1, Zenon DEF TransportInv
  <2> QED
    BY <2>1, <2>3, <2>4, ZenonT(60) DEF TransportInv
<1> QED
  BY <1>1, <1>2, <1>3, <1>4, <1>5, SendInv, ReadInv, DecodeInv, Zenon DEF Next, Start

\* A frame the handler keeps stays the frame that was sent, for any number of
\* datagrams, lost, duplicated or longer than buf.
THEOREM FramesStay == Spec => []KeptIsSent
<1>1. TransportInv => KeptIsSent
  <2> SUFFICES ASSUME TransportInv, NEW i \in DOMAIN kept
               PROVE  \E f \in sent[kept[i].of].frames :
                        /\ kept[i].headers = <<f.Header, f.PayloadHeader>>
                        /\ IF Len(sent[kept[i].of].wire) <= Bufsize
                           THEN BytesOf(kept[i].payload) = f.Payload
                           ELSE CutShort(BytesOf(kept[i].payload), f.Payload)
    BY Zenon DEF KeptIsSent
  <2> DEFINE k == kept[i]
             data == heap[k.payload.array]
  <2>1. i \in 1 .. Len(kept)
    BY SMTT(60) DEF TransportInv
  <2>2. Stands(k, sent, heap) /\ heap \in Seq(Seq(Byte)) /\ Len(heap) \in Nat
    BY <2>1, SMTT(60) DEF TransportInv
  <2> HIDE DEF k
  <2>3. /\ k.payload.array \in 2 .. Len(heap) /\ k.payload.from = 0
        /\ k.payload.to = Len(data) /\ Shows(k, sent[k.of], data)
    BY <2>2, Zenon DEF Stands
  <2>4. data \in Seq(Byte)
    BY <2>2, <2>3
  <2>5. BytesOf(k.payload) = data
    BY <2>3, <2>4, SliceAll, Zenon DEF BytesOf
  <2> HIDE DEF data
  <2> QED
    BY <2>3, <2>5, Zenon DEF Shows, k
<1>2. Spec => Init /\ [][Next]_vars
  BY Zenon DEF Spec
<1> QED
  BY <1>1, <1>2, TransportInitInv, TransportInvariance, PTL

=============================================================================
