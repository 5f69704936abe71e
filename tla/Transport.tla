----------------------------- MODULE Transport ------------------------------
(***************************************************************************)
(* transport.TransportManager: Send on one node, the UDP network, and the  *)
(* receive loop Start on another with its handler, while Close may be      *)
(* called from another goroutine at any time.                              *)
(*                                                                         *)
(* heap[1] is buf, the receive buffer that Start reuses for every          *)
(* datagram; message.Decode allocates the payload of the frame it returns. *)
(* A slice is an array of the heap and how much of it is visible, so that  *)
(* a frame the handler keeps shows what its payload holds now, not what it *)
(* held when it arrived.                                                   *)
(***************************************************************************)
EXTENDS MessageCodec, FiniteSetsExt

CONSTANTS
    Frames,         \* the frames the sender has to send
    Noise,          \* datagrams of other programs, none of them a frame
    Bufsize,        \* the size of buf (2048)
    MaxDatagrams,   \* bound: datagrams put on the network
    MaxDuplicates   \* bound: datagrams the network delivers again

\* What a read into buf sees of a datagram: what does not fit is dropped.
Received(d) == SubSeq(d, 1, Min({Bufsize, Len(d)}))

\* The Builder's frames are canonical; no read takes noise for a frame.
ASSUME TransportAssumption ==
    /\ Bufsize \in Nat \ {0}
    /\ \A f \in Frames : f \in Frame /\ Canonical(f)
    /\ \A d \in Noise : d \in Seq(Byte) /\ FrameDecode(Received(d)).err # "nil"

VARIABLES
    sent,           \* history: the datagrams sent, with the frame of each
    net,            \* the datagrams under way, as indices of sent
    duplicates,     \* number of datagrams duplicated
    closed,         \* Close has been called on the receiver
    pc,             \* where Start is: "read", "decode", "handle" or "returned"
    heap,           \* the byte arrays; heap[1] is buf
    reading,        \* the datagram in buf, n its length there
    n,
    frame,          \* the frame between Decode and the handler
    kept            \* the frames the handler was given

vars == <<sent, net, duplicates, closed, pc, heap, reading, n, frame, kept>>
loop == <<pc, heap, reading, n, frame, kept>>

NoFrame == <<>>

Init ==
    /\ sent = <<>>
    /\ net = {}
    /\ duplicates = 0
    /\ closed = FALSE
    /\ pc = "read"
    /\ heap = <<Zero(Bufsize)>>
    /\ reading = 0
    /\ n = 0
    /\ frame = NoFrame
    /\ kept = <<>>

-----------------------------------------------------------------------------
(* The sender and the network *)

\* A datagram leaves a node.
Emit(wire, frames) ==
    /\ Len(sent) < MaxDatagrams
    /\ sent' = Append(sent, [wire |-> wire, frames |-> frames])
    /\ net' = net \cup {Len(sent) + 1}
    /\ UNCHANGED <<duplicates, closed, loop>>

\* Send: a frame that cannot be encoded is not sent.
Send ==
    \E f \in Frames :
        LET out == FrameEncode(f)
        IN  out.err = "nil" /\ Emit(out.wire, {f})

\* Another program sends something to the port.
Stray == \E d \in Noise : Emit(d, {})

Lose ==
    /\ \E i \in net : net' = net \ {i}
    /\ UNCHANGED <<sent, duplicates, closed, loop>>

-----------------------------------------------------------------------------
(* The receiver *)

\* ReadFromUDP(buf): the datagram, or what fits of it, overwrites the beginning
\* of buf.  The datagram may come again.
ReadFromUDP ==
    /\ pc = "read"
    /\ ~closed
    /\ \E i \in net, again \in BOOLEAN :
         LET d == Received(sent[i].wire)
         IN  /\ again => duplicates < MaxDuplicates
             /\ net' = IF again THEN net ELSE net \ {i}
             /\ duplicates' = IF again THEN duplicates + 1 ELSE duplicates
             /\ heap' = [heap EXCEPT ![1] = d \o SubSeq(@, Len(d) + 1, Bufsize)]
             /\ reading' = i
             /\ n' = Len(d)
    /\ pc' = "decode"
    /\ UNCHANGED <<sent, closed, frame, kept>>

\* Mutant: the loop goes on when the read fails.
ReadErrorContinues ==
    /\ pc = "read"
    /\ closed
    /\ UNCHANGED <<pc, sent, net, duplicates, closed, heap, reading, n, frame, kept>>

\* ReadFromUDP on a closed connection fails and Start returns.
ReadError ==
    /\ pc = "read"
    /\ closed
    /\ pc' = "returned"
    /\ UNCHANGED <<sent, net, duplicates, closed, heap, reading, n, frame, kept>>

\* Mutant: the payload of the frame is a slice of buf.
PayloadInPlace(data) == [array |-> 1, from |-> n - Len(data), to |-> n]

\* message.Decode copies the payload into an array of its own.
PayloadCopied(data) == [array |-> Len(heap) + 1, from |-> 0, to |-> Len(data)]

\* Mutant: Start returns when a datagram cannot be decoded.
MalformedReturns == "returned"

\* A malformed datagram is dropped; the loop continues.
MalformedDropped == "read"

\* message.Decode(buf[:n]).
Decode ==
    /\ pc = "decode"
    /\ LET in == FrameDecode(Slice(heap[1], 0, n))
       IN  IF in.err # "nil"
           THEN pc' = MalformedDropped /\ UNCHANGED <<heap, frame>>
           ELSE /\ frame' = [of      |-> reading,
                             headers |-> <<in.frame.Header, in.frame.PayloadHeader>>,
                             payload |-> PayloadCopied(in.frame.Payload)]
                /\ heap' = Append(heap, in.frame.Payload)
                /\ pc' = "handle"
    /\ UNCHANGED <<sent, net, duplicates, closed, reading, n, kept>>

\* handler(frame, addr): the PASE roles keep the payload as it is.
Handle ==
    /\ pc = "handle"
    /\ kept' = Append(kept, frame)
    /\ frame' = NoFrame
    /\ pc' = "read"
    /\ UNCHANGED <<sent, net, duplicates, closed, heap, reading, n>>

Start == ReadFromUDP \/ ReadError \/ Decode \/ Handle

Close ==
    /\ ~closed
    /\ closed' = TRUE
    /\ UNCHANGED <<sent, net, duplicates, loop>>

Next == Send \/ Stray \/ Lose \/ Start \/ Close

\* The goroutine of Start runs, and the handlers return.  The last conjunct is
\* WF_vars(Decode) with ENABLED Decode written out.
Fairness ==
    /\ WF_vars(ReadFromUDP)
    /\ WF_vars(ReadError)
    /\ WF_vars(Handle)
    /\ []<>(pc # "decode") \/ []<><<Decode>>_vars

Spec == Init /\ [][Next]_vars /\ Fairness

-----------------------------------------------------------------------------
(* Properties *)

\* The bytes a slice shows now.
BytesOf(s) == Slice(heap[s.array], s.from, s.to)

\* A frame the handler keeps stays the frame that was sent, although buf has
\* been overwritten since: the PASE roles keep the payloads of the first two
\* messages for the transcript.  Only a datagram longer than buf shows a
\* beginning of its payload, under the headers that were sent; noise is never
\* handed up.
KeptIsSent ==
    \A i \in DOMAIN kept :
        LET k == kept[i]
        IN  \E f \in sent[k.of].frames :
              /\ k.headers = <<f.Header, f.PayloadHeader>>
              /\ IF Len(sent[k.of].wire) <= Bufsize
                 THEN BytesOf(k.payload) = f.Payload
                 ELSE CutShort(BytesOf(k.payload), f.Payload)

\* "Malformed datagrams are logged and dropped" (transport.go:61): whatever
\* arrives, the loop comes back for the next datagram.  Every datagram is
\* read, lost, or left behind by Close.
EveryDatagramServed ==
    \A i \in 1 .. MaxDatagrams : i \in net ~> (i \notin net \/ closed)

\* Close ends Start: the loop returns after at most the frame in hand.
CloseEndsStart == closed ~> (pc = "returned")
=============================================================================
