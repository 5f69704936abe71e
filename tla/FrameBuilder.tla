---------------------------- MODULE FrameBuilder ----------------------------
(***************************************************************************)
(* message.Builder: setters in any order and any number, Build at any      *)
(* time and more than once, and the frames it has handed out.              *)
(*                                                                         *)
(* frames[1] is the frame inside the Builder (b.frame); Build allocates a  *)
(* copy and returns its address.  hasPayload, which nothing reads, is left *)
(* out.  A payload argument has the form "nil", "bytes" (a []byte) or      *)
(* "value" (anything else, with the type by which tlv.Marshal sees it).    *)
(***************************************************************************)
EXTENDS MessageCodec

CONSTANTS
    SessionIDs, Counters, NodeIDs, GroupIDs, Protocols, Opcodes, ExchangeIDs,
    Vendors,        \* the arguments of the setters
    Payloads,       \* the arguments of Payload
    tlvMarshal(_, _),   \* tlv.Marshal of a value of a type, module Tlv
    MaxBuilds,      \* bound: calls of Build
    MaxCalls        \* bound: calls of setters

VARIABLES
    frames,           \* the frames; frames[1] is b.frame
    err,            \* b.err: <<>> or the payload that could not be encoded
    asked,          \* history: what the caller has asked for
    returned,       \* history: the results of Build, with asked at that time
    calls           \* number of setters called

builderVars == <<frames, err, asked, returned, calls>>

EmptyFrame ==
    [Header        |-> [Flags |-> 0, SessionID |-> Zero(2), SecurityFlags |-> 0,
                        MessageCounter |-> Zero(4), SourceNodeID |-> Zero(8),
                        DestNodeID |-> Zero(8)],
     PayloadHeader |-> [ExchangeFlags |-> 0, Opcode |-> 0, ExchangeID |-> Zero(2),
                        ProtocolID |-> Zero(2), VendorID |-> Zero(2),
                        AckCounter |-> Zero(4)],
     Payload       |-> <<>>]

\* Nothing asked yet.  Sets stand for what may be absent.
NothingAsked ==
    [session |-> Zero(2), counter |-> Zero(4), source |-> {}, dest |-> {},
     protocol |-> Zero(2), opcode |-> 0, exchange |-> Zero(2), flags |-> {},
     ack |-> {}, vendor |-> {}, payload |-> <<>>, failed |-> <<>>]

\* NewBuilder.
BuilderInit ==
    /\ frames = <<EmptyFrame>>
    /\ err = <<>>
    /\ asked = NothingAsked
    /\ returned = <<>>
    /\ calls = 0

-----------------------------------------------------------------------------
(* The setters: frame is b.frame afterwards, a what has been asked *)

Setter(frame, a) ==
    /\ frames' = [frames EXCEPT ![1] = frame]
    /\ asked' = a
    /\ calls < MaxCalls
    /\ calls' = calls + 1
    /\ UNCHANGED returned

b_frame == frames[1]

SessionID(id) ==
    /\ Setter([b_frame EXCEPT !.Header.SessionID = id], [asked EXCEPT !.session = id])
    /\ UNCHANGED err

MessageCounter(c) ==
    /\ Setter([b_frame EXCEPT !.Header.MessageCounter = c], [asked EXCEPT !.counter = c])
    /\ UNCHANGED err

SourceNodeID(id) ==
    /\ Setter([b_frame EXCEPT !.Header.SourceNodeID = id,
                              !.Header.Flags = SetFlag(@, SourceNodeIDPresent)],
              [asked EXCEPT !.source = {id}])
    /\ UNCHANGED err

DestNodeID(id) ==
    /\ Setter([b_frame EXCEPT !.Header.DestNodeID = id,
                              !.Header.Flags = WithDSIZ(@, DSIZUnicast)],
              [asked EXCEPT !.dest = {<<"node", id>>}])
    /\ UNCHANGED err

\* Mutant: the size bits are or-ed in, not replaced.
OrGroupSize(id) ==
    /\ Setter([b_frame EXCEPT !.Header.DestNodeID = ZeroExtend(id, 8),
                              !.Header.Flags = SetFlag(@, DSIZGroup)],
              [asked EXCEPT !.dest = {<<"group", id>>}])
    /\ UNCHANGED err

DestGroupID(id) ==
    /\ Setter([b_frame EXCEPT !.Header.DestNodeID = ZeroExtend(id, 8),
                              !.Header.Flags = WithDSIZ(@, DSIZGroup)],
              [asked EXCEPT !.dest = {<<"group", id>>}])
    /\ UNCHANGED err

\* Session 0, and session type unicast (0) in the low two bits.
Unsecured ==
    /\ Setter([b_frame EXCEPT !.Header.SessionID = Zero(2),
                              !.Header.SecurityFlags = @ - (@ % 4)],
              [asked EXCEPT !.session = Zero(2)])
    /\ UNCHANGED err

Protocol(id) ==
    /\ Setter([b_frame EXCEPT !.PayloadHeader.ProtocolID = id],
              [asked EXCEPT !.protocol = id])
    /\ UNCHANGED err

Opcode(op) ==
    /\ Setter([b_frame EXCEPT !.PayloadHeader.Opcode = op], [asked EXCEPT !.opcode = op])
    /\ UNCHANGED err

ExchangeID(id) ==
    /\ Setter([b_frame EXCEPT !.PayloadHeader.ExchangeID = id],
              [asked EXCEPT !.exchange = id])
    /\ UNCHANGED err

Initiator ==
    /\ Setter([b_frame EXCEPT !.PayloadHeader.ExchangeFlags =
                                  SetFlag(@, ExchangeFlagInitiator)],
              [asked EXCEPT !.flags = @ \cup {"I"}])
    /\ UNCHANGED err

RequestAck ==
    /\ Setter([b_frame EXCEPT !.PayloadHeader.ExchangeFlags =
                                  SetFlag(@, ExchangeFlagReliability)],
              [asked EXCEPT !.flags = @ \cup {"R"}])
    /\ UNCHANGED err

AckCounter(c) ==
    /\ Setter([b_frame EXCEPT !.PayloadHeader.AckCounter = c,
                              !.PayloadHeader.ExchangeFlags =
                                  SetFlag(@, ExchangeFlagAcknowledgement)],
              [asked EXCEPT !.ack = {c}])
    /\ UNCHANGED err

Vendor(id) ==
    /\ Setter([b_frame EXCEPT !.PayloadHeader.VendorID = id,
                              !.PayloadHeader.ExchangeFlags =
                                  SetFlag(@, ExchangeFlagVendorPresent)],
              [asked EXCEPT !.vendor = {id}])
    /\ UNCHANGED err

\* The bytes of a payload argument, or an error.
payloadBytes(v) ==
    CASE v.form = "nil"   -> [err |-> FALSE, bytes |-> <<>>]
      [] v.form = "bytes" -> [err |-> FALSE, bytes |-> v.raw]
      [] OTHER            -> tlvMarshal(v.type, v.value)

\* The types of the setters' arguments; what Payload encodes is bytes.
ASSUME BuilderAssumption ==
    /\ SessionIDs \cup GroupIDs \cup Protocols \cup ExchangeIDs \cup Vendors \subseteq Uint(2)
    /\ Counters \subseteq Uint(4) /\ NodeIDs \subseteq Uint(8) /\ Opcodes \subseteq Byte
    /\ \A v \in Payloads : /\ payloadBytes(v).err \in BOOLEAN
                           /\ ~payloadBytes(v).err => payloadBytes(v).bytes \in Seq(Byte)

\* Mutant: a payload that can be encoded clears the error of an earlier one.
PayloadClearsError(v) ==
    LET encoded == payloadBytes(v)
    IN  IF encoded.err
        THEN /\ Setter(b_frame, [asked EXCEPT !.failed = Append(@, v)])
             /\ err' = <<v>>
        ELSE /\ Setter([b_frame EXCEPT !.Payload = encoded.bytes],
                       [asked EXCEPT !.payload = encoded.bytes])
             /\ err' = <<>>

\* The first error is kept; the payload stays as it was.
Payload(v) ==
    LET encoded == payloadBytes(v)
    IN  IF encoded.err
        THEN /\ Setter(b_frame, [asked EXCEPT !.failed = Append(@, v)])
             /\ err' = IF err = <<>> THEN <<v>> ELSE err
        ELSE /\ Setter([b_frame EXCEPT !.Payload = encoded.bytes],
                       [asked EXCEPT !.payload = encoded.bytes])
             /\ UNCHANGED err

-----------------------------------------------------------------------------
(* Build *)

Return(error, at) ==
    returned' = Append(returned, [err |-> error, first |-> err, at |-> at, asked |-> asked])

buildError ==
    CASE err # <<>> -> "marshal"
      [] err = <<>> /\ b_frame.PayloadHeader.ProtocolID = Zero(2)
                    /\ b_frame.PayloadHeader.Opcode = 0 -> "missing"
      [] OTHER -> "nil"

\* Mutant: the address of b.frame itself is returned.
BuildReturnsOwn ==
    /\ Len(returned) < MaxBuilds
    /\ Return(buildError, IF buildError = "nil" THEN 1 ELSE 0)
    /\ UNCHANGED <<frames, err, asked, calls>>

Build ==
    /\ Len(returned) < MaxBuilds
    /\ IF buildError = "nil"
       THEN /\ frames' = Append(frames, b_frame)
            /\ Return("nil", Len(frames) + 1)
       ELSE Return(buildError, 0) /\ UNCHANGED frames
    /\ UNCHANGED <<err, asked, calls>>

BuilderNext ==
    \/ \E id \in SessionIDs : SessionID(id)
    \/ \E c \in Counters : MessageCounter(c) \/ AckCounter(c)
    \/ \E id \in NodeIDs : SourceNodeID(id) \/ DestNodeID(id)
    \/ \E id \in GroupIDs : DestGroupID(id)
    \/ \E id \in Protocols : Protocol(id)
    \/ \E op \in Opcodes : Opcode(op)
    \/ \E id \in ExchangeIDs : ExchangeID(id)
    \/ \E id \in Vendors : Vendor(id)
    \/ \E v \in Payloads : Payload(v)
    \/ Unsecured \/ Initiator \/ RequestAck \/ Build

BuilderSpec == BuilderInit /\ [][BuilderNext]_builderVars

-----------------------------------------------------------------------------
(* Properties *)

\* What a receiver of frame f learns, in the terms of asked.
SourceSeen(h) == IF SourcePresent(h.Flags) THEN {h.SourceNodeID} ELSE {}
DestSeen(h) ==
    CASE DSIZ(h.Flags) = DSIZUnicast -> {<<"node", h.DestNodeID>>}
      [] DSIZ(h.Flags) = DSIZGroup   -> {<<"group", Truncate(h.DestNodeID, 2)>>}
      [] OTHER                       -> {}
FlagsSeen(p) ==
    (IF Has(p.ExchangeFlags, ExchangeFlagInitiator) THEN {"I"} ELSE {})
      \cup (IF Has(p.ExchangeFlags, ExchangeFlagReliability) THEN {"R"} ELSE {})
AckSeen(p) == IF Has(p.ExchangeFlags, ExchangeFlagAcknowledgement) THEN {p.AckCounter} ELSE {}
VendorSeen(p) == IF Has(p.ExchangeFlags, ExchangeFlagVendorPresent) THEN {p.VendorID} ELSE {}

Seen(f, failed) ==
    LET h == f.Header
        p == f.PayloadHeader
    IN  [session |-> h.SessionID, counter |-> h.MessageCounter,
         source |-> SourceSeen(h), dest |-> DestSeen(h),
         protocol |-> p.ProtocolID, opcode |-> p.Opcode, exchange |-> p.ExchangeID,
         flags |-> FlagsSeen(p), ack |-> AckSeen(p), vendor |-> VendorSeen(p),
         payload |-> f.Payload, failed |-> failed]

\* The frames Build has returned without an error.
Built == {r \in Range(returned) : r.err = "nil"}

\* What the caller asked for is what the receiver sees: every frame Build
\* returns can be encoded, and Decode of the wire bytes shows the values last
\* given to each setter, no other optional field, and the payload.  Setters
\* that share a flag byte, above all the two destinations, do not disturb
\* each other, whatever their order.
AskedIsSeen ==
    \A r \in Built :
        LET out == FrameEncode(frames[r.at])
            in  == FrameDecode(out.wire)
        IN  /\ out.err = "nil"
            /\ in.err = "nil"
            /\ Seen(in.frame, <<>>) = r.asked

\* A datagram that lost its end is never taken for another message: Decode of
\* a beginning of the wire bytes is an error or shows the same two headers
\* and a beginning of the payload.
CutKeepsHeaders ==
    \A r \in Built :
        LET f    == frames[r.at]
            wire == FrameEncode(f).wire
        IN  \A n \in 0 .. Len(wire) - 1 :
                LET in == FrameDecode(SubSeq(wire, 1, n))
                IN  \/ in.err # "nil"
                    \/ /\ in.frame.Header = f.Header
                       /\ in.frame.PayloadHeader = f.PayloadHeader
                       /\ CutShort(in.frame.Payload, f.Payload)

\* "Errors are accumulated; the first error is returned from Build()"
\* (builder.go:24): once a payload could not be encoded no later call makes
\* Build return a frame, and the error is about the first such payload.
FirstErrorStays ==
    \A r \in Range(returned) :
        IF r.asked.failed = <<>> THEN r.err # "marshal"
        ELSE r.err = "marshal" /\ r.first = <<r.asked.failed[1]>>

\* A frame that Build has returned never changes under the caller, although
\* the Builder may be used again for the next message.
BuiltFrameStable ==
    [][\A r \in Built : frames'[r.at] = frames[r.at]]_builderVars
=============================================================================
