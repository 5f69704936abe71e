---------------------------- MODULE MessageCodec ----------------------------
(***************************************************************************)
(* The wire format of Matter messages: Header, PayloadHeader and Frame     *)
(* with their Marshal, Unmarshal, Encode and Decode (package message).     *)
(*                                                                         *)
(* The three flag types are bytes.  A function that returns (value, error) *)
(* returns a record whose field err names the error, "nil" for none.  A    *)
(* nil payload is the empty sequence, as both encode to nothing.           *)
(***************************************************************************)
EXTENDS Bytes

-----------------------------------------------------------------------------
(* message/flags.go *)

SourceNodeIDPresent == 4
DSIZAbsent == 0
DSIZUnicast == 1
DSIZGroup == 2
DSIZReserved == 3
ExchangeFlagInitiator == 1
ExchangeFlagAcknowledgement == 2
ExchangeFlagReliability == 4
ExchangeFlagVendorPresent == 16

\* f & mask # 0 for a mask of one bit, and the bitwise or with such a mask.
Has(f, mask) == (f \div mask) % 2 = 1
SetFlag(f, mask) == IF Has(f, mask) THEN f ELSE f + mask

SourcePresent(f) == Has(f, SourceNodeIDPresent)
DSIZ(f) == f % 4
WithDSIZ(f, dsiz) == (f - (f % 4)) + dsiz
Version(f) == f \div 16

\* The bytes of the two variable fields of the header.
SourceSize(f) == IF SourcePresent(f) THEN 8 ELSE 0
DestSize(f) ==
    CASE DSIZ(f) = DSIZUnicast -> 8
      [] DSIZ(f) = DSIZGroup   -> 2
      [] OTHER                 -> 0

-----------------------------------------------------------------------------
(* message/header.go *)

Header ==
    [Flags : Byte, SessionID : Uint(2), SecurityFlags : Byte,
     MessageCounter : Uint(4), SourceNodeID : Uint(8), DestNodeID : Uint(8)]

headerFixedSize == 8

\* Header.Marshal.  A group destination keeps its low 16 bits only.
HeaderMarshal(h) ==
    IF DSIZ(h.Flags) = DSIZReserved
    THEN [err |-> "errHeaderReservedDSIZ", wire |-> <<>>]
    ELSE [err  |-> "nil",
          wire |-> <<h.Flags>> \o LittleEndian(h.SessionID)
                     \o <<h.SecurityFlags>> \o LittleEndian(h.MessageCounter)
                     \o LittleEndian(Truncate(h.SourceNodeID, SourceSize(h.Flags)))
                     \o LittleEndian(Truncate(h.DestNodeID, DestSize(h.Flags)))]

\* Why Header.Unmarshal refuses b, in the order of its tests.
HeaderError(b) ==
    IF Len(b) < headerFixedSize THEN "errHeaderTooShort"
    ELSE IF Version(b[1]) # 0 THEN "errHeaderUnknownVersion"
    ELSE IF Len(b) < headerFixedSize + SourceSize(b[1]) THEN "errHeaderTooShort"
    ELSE IF DSIZ(b[1]) = DSIZReserved THEN "errHeaderReservedDSIZ"
    ELSE IF Len(b) < headerFixedSize + SourceSize(b[1]) + DestSize(b[1])
         THEN "errHeaderTooShort"
    ELSE "nil"

\* Header.Unmarshal: the header and n, the number of bytes it took.  An absent
\* field is zero.
HeaderUnmarshal(b) ==
    IF HeaderError(b) # "nil" THEN [err |-> HeaderError(b)]
    ELSE LET off == headerFixedSize + SourceSize(b[1])
             n   == off + DestSize(b[1])
         IN  [err    |-> "nil",
              n      |-> n,
              header |->
                  [Flags          |-> b[1],
                   SessionID      |-> LittleEndian(Slice(b, 1, 3)),
                   SecurityFlags  |-> b[4],
                   MessageCounter |-> LittleEndian(Slice(b, 4, 8)),
                   SourceNodeID   |->
                       ZeroExtend(LittleEndian(Slice(b, headerFixedSize, off)), 8),
                   DestNodeID     |-> ZeroExtend(LittleEndian(Slice(b, off, n)), 8)]]

-----------------------------------------------------------------------------
(* message/payload_header.go *)

PayloadHeader ==
    [ExchangeFlags : Byte, Opcode : Byte, ExchangeID : Uint(2),
     ProtocolID : Uint(2), VendorID : Uint(2), AckCounter : Uint(4)]

payloadHeaderFixedSize == 6

\* The bytes of the two variable fields of the payload header.
VendorSize(f) == IF Has(f, ExchangeFlagVendorPresent) THEN 2 ELSE 0
AckSize(f) == IF Has(f, ExchangeFlagAcknowledgement) THEN 4 ELSE 0

\* PayloadHeader.Marshal, which never fails.
PayloadHeaderMarshal(p) ==
    <<p.ExchangeFlags, p.Opcode>>
      \o LittleEndian(p.ExchangeID) \o LittleEndian(p.ProtocolID)
      \o LittleEndian(Truncate(p.VendorID, VendorSize(p.ExchangeFlags)))
      \o LittleEndian(Truncate(p.AckCounter, AckSize(p.ExchangeFlags)))

\* Mutant: the acknowledgement is read where the vendor would be.
UnmarshalAckFirst(b) ==
    IF Len(b) < payloadHeaderFixedSize
    THEN [err |-> "errPayloadHeaderTooShort"]
    ELSE LET off == payloadHeaderFixedSize + AckSize(b[1])
             n   == off + VendorSize(b[1])
         IN  IF Len(b) < n THEN [err |-> "errPayloadHeaderTooShort"]
             ELSE [err |-> "nil",
                   n   |-> n,
                   payloadHeader |->
                       [ExchangeFlags |-> b[1],
                        Opcode        |-> b[2],
                        ExchangeID    |-> LittleEndian(Slice(b, 2, 4)),
                        ProtocolID    |-> LittleEndian(Slice(b, 4, 6)),
                        VendorID      |-> ZeroExtend(LittleEndian(Slice(b, off, n)), 2),
                        AckCounter    |->
                            ZeroExtend(LittleEndian(Slice(b, payloadHeaderFixedSize, off)), 4)]]

\* PayloadHeader.Unmarshal.
PayloadHeaderUnmarshal(b) ==
    IF \/ Len(b) < payloadHeaderFixedSize
       \/ Len(b) < payloadHeaderFixedSize + VendorSize(b[1]) + AckSize(b[1])
    THEN [err |-> "errPayloadHeaderTooShort"]
    ELSE LET off == payloadHeaderFixedSize + VendorSize(b[1])
             n   == off + AckSize(b[1])
         IN  [err |-> "nil",
              n   |-> n,
              payloadHeader |->
                  [ExchangeFlags |-> b[1],
                   Opcode        |-> b[2],
                   ExchangeID    |-> LittleEndian(Slice(b, 2, 4)),
                   ProtocolID    |-> LittleEndian(Slice(b, 4, 6)),
                   VendorID      |->
                       ZeroExtend(LittleEndian(Slice(b, payloadHeaderFixedSize, off)), 2),
                   AckCounter    |-> ZeroExtend(LittleEndian(Slice(b, off, n)), 4)]]

-----------------------------------------------------------------------------
(* message/frame.go *)

Frame == [Header : Header, PayloadHeader : PayloadHeader, Payload : Seq(Byte)]

\* Frame.Encode.
FrameEncode(f) ==
    LET hdr == HeaderMarshal(f.Header)
    IN  IF hdr.err # "nil" THEN hdr
        ELSE [err  |-> "nil",
              wire |-> hdr.wire \o PayloadHeaderMarshal(f.PayloadHeader) \o f.Payload]

\* Decode.  It reads the payload header in the clear, whatever the session.
FrameDecode(b) ==
    LET h == HeaderUnmarshal(b)
    IN  IF h.err # "nil" THEN h
        ELSE LET p == PayloadHeaderUnmarshal(Slice(b, h.n, Len(b)))
             IN  IF p.err # "nil" THEN p
                 ELSE [err   |-> "nil",
                       frame |-> [Header        |-> h.header,
                                  PayloadHeader |-> p.payloadHeader,
                                  Payload       |-> Slice(b, h.n + p.n, Len(b))]]

-----------------------------------------------------------------------------
\* The headers whose fields are zero where the flags leave them out: "callers
\* should set Flags before calling Marshal so the encoded layout matches the
\* populated fields" (header.go:22).  A frame with such headers is canonical.
CanonicalHeader(h) ==
    /\ Version(h.Flags) = 0
    /\ DSIZ(h.Flags) # DSIZReserved
    /\ h.SourceNodeID = ZeroExtend(Truncate(h.SourceNodeID, SourceSize(h.Flags)), 8)
    /\ h.DestNodeID = ZeroExtend(Truncate(h.DestNodeID, DestSize(h.Flags)), 8)

CanonicalPayloadHeader(p) ==
    /\ p.VendorID = ZeroExtend(Truncate(p.VendorID, VendorSize(p.ExchangeFlags)), 2)
    /\ p.AckCounter = ZeroExtend(Truncate(p.AckCounter, AckSize(p.ExchangeFlags)), 4)

Canonical(f) == CanonicalHeader(f.Header) /\ CanonicalPayloadHeader(f.PayloadHeader)
=============================================================================
