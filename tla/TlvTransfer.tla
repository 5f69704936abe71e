---------------------------- MODULE TlvTransfer -----------------------------
(***************************************************************************)
(* One Go value on its way to a peer: Marshal, the bytes in a datagram     *)
(* that may lose its end (the receive buffer of transport.Start is         *)
(* bounded) or carry more bytes behind the element, and decodePayload into *)
(* the type the receiver knows, which need not be the sender's: fields may *)
(* have been added, removed, reordered or made optional in between.        *)
(***************************************************************************)
EXTENDS PaseMessages

CONSTANTS
    Jobs,       \* records: the sender's type and value, the receiver's type
    Trailing    \* byte sequences that may follow the element

VARIABLES
    job,        \* the value being transferred
    phase,      \* "value", "refused", "wire", "cut", "trailed" or "done"
    wire,       \* the bytes
    whole,      \* whether the whole element is on the wire
    result      \* what decodePayload returned

transferVars == <<job, phase, wire, whole, result>>

TransferInit ==
    /\ job \in Jobs
    /\ phase = "value"
    /\ wire = <<>>
    /\ whole = TRUE
    /\ result = Fail

\* Marshal of the sender.
Send ==
    /\ phase = "value"
    /\ LET m == Marshal(job.sent, job.value)
       IN  IF m.err THEN phase' = "refused" /\ wire' = wire
           ELSE phase' = "wire" /\ wire' = m.bytes
    /\ UNCHANGED <<job, whole, result>>

\* The datagram loses its end.
Cut ==
    /\ phase = "wire"
    /\ \E n \in 0 .. Len(wire) - 1 : wire' = SubSeq(wire, 1, n)
    /\ phase' = "cut"
    /\ whole' = FALSE
    /\ UNCHANGED <<job, result>>

\* The payload of the datagram is longer than the element.
Trail ==
    /\ phase = "wire"
    /\ \E t \in Trailing : wire' = wire \o t
    /\ phase' = "trailed"
    /\ UNCHANGED <<job, whole, result>>

\* decodePayload of the receiver.
Receive ==
    /\ phase \in {"wire", "cut", "trailed"}
    /\ result' = decodePayload(wire, job.target)
    /\ phase' = "done"
    /\ UNCHANGED <<job, wire, whole>>

TransferNext == Send \/ Cut \/ Trail \/ Receive

TransferSpec == TransferInit /\ [][TransferNext]_transferVars

-----------------------------------------------------------------------------
\* What a variable of type T should hold after it was decoded from the value
\* v of type S: fields meet by their number, and pointers do not show.
RECURSIVE Expected(_, _, _)
Expected(S, v, T) ==
    CASE S.kind = "ptr" /\ v = {} -> ZeroValue(T)
      [] S.kind = "ptr" /\ v # {} -> Expected(S.elem, CHOOSE x \in v : TRUE, T)
      [] S.kind # "ptr" /\ T.kind = "ptr" -> {Expected(S, v, T.elem)}
      [] S.kind = "slice" -> [i \in DOMAIN v |-> Expected(S.elem, v[i], T.elem)]
      [] S.kind = "struct" ->
             [i \in DOMAIN T.fields |->
                 LET f    == T.fields[i]
                     from == {j \in DOMAIN S.fields :
                                 /\ S.fields[j].tlv = "id"
                                 /\ S.fields[j].id = f.id
                                 /\ S.fields[j].omitempty =>
                                        ~isEmptyValue(S.fields[j].type, v[j])}
                 IN  IF f.tlv # "id" \/ from = {} THEN ZeroValue(f.type)
                     ELSE Expected(S.fields[Min(from)].type, v[Min(from)], f.type)]
      [] OTHER -> v

\* The types the codec supports: field numbers of one byte, no other kinds.
RECURSIVE Supported(_)
Supported(T) ==
    CASE T.kind \in {"ptr", "slice"} -> Supported(T.elem)
      [] T.kind = "struct" ->
             \A i \in DOMAIN T.fields : T.fields[i].id <= 255 /\ Supported(T.fields[i].type)
      [] OTHER -> T.kind \in {"bool", "string", "bytes", "int", "uint"}

\* A variable of type T can hold v: its integers are wide enough.
RECURSIVE Fits(_, _)
Fits(T, v) ==
    CASE T.kind = "uint" -> v = ZeroExtend(Truncate(v, T.size), 8)
      [] T.kind = "int" -> v = SignExtend(Truncate(v, T.size), 8)
      [] T.kind = "ptr" -> \A x \in v : Fits(T.elem, x)
      [] T.kind = "slice" -> \A i \in DOMAIN v : Fits(T.elem, v[i])
      [] T.kind = "struct" -> \A i \in DOMAIN v : Fits(T.fields[i].type, v[i])
      [] OTHER -> TRUE

-----------------------------------------------------------------------------
(* Properties *)

\* Marshal accepts every value of the supported types, and decodePayload of
\* the whole encoding, whatever follows it, gives each field of the receiver's
\* type the value the sender put under that number, or leaves it zero; it
\* fails only when a number does not fit the receiver's type.  So TLV is
\* injective on the PASE messages, byte strings of any content and length
\* included, and sender and receiver may disagree on optional fields, on
\* their order and on fields only one of them knows.  The jobs have no nil
\* pointer without omitempty, which encodeValue writes without its tag.
FieldsArrive ==
    /\ phase = "refused" => ~Supported(job.sent)
    /\ (phase = "done" /\ whole) =>
         LET v == Expected(job.sent, job.value, job.target)
         IN  result = IF Fits(job.target, v) THEN Set(v) ELSE Fail

\* decodePayload never takes the beginning of a message for a message: a
\* datagram that lost its end is refused as a whole, not decoded with the
\* missing fields zero.
CutIsRefused ==
    (phase = "done" /\ ~whole) => result = Fail
=============================================================================
