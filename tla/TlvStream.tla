----------------------------- MODULE TlvStream ------------------------------
(***************************************************************************)
(* A stream of TLV elements, nested to any depth: a Writer appends         *)
(* elements with any kind of tag, starts and ends containers, and a Reader *)
(* takes the elements from the other end.  The end of the stream may get   *)
(* lost.  The elements may also come from another implementation, which    *)
(* may use more bytes for a number than it takes.                          *)
(*                                                                         *)
(* The Reader is decodePayload up to Decode, called again for each root:   *)
(* ReadElement and, for a container, ReadContainerChildren, whose calls of *)
(* itself are the sequence open: one container for each call under way,    *)
(* with the children (elements) it has so far.                             *)
(***************************************************************************)
EXTENDS TlvElement

CONSTANTS
    Puts,           \* the values written: records of tag, kind and value
    Containers,     \* the containers started: records of tag and type
    MaxElements     \* bound: elements written, apart from ends of containers

\* The tags the Reader reads as they were written: their number fits their
\* form, and they are not fully qualified.
Tag == [Class : {0, 32, 64, 96, 128, 160}, ID : Uint(8), Profile : {Zero(4)}]
idSize(class) == <<0, 1, 2, 4, 2, 4>>[class \div 32 + 1]
Plain(tag) ==
    /\ tag \in Tag
    /\ tag.Class # TagControlContextSpecific =>
           tag.ID = ZeroExtend(Truncate(tag.ID, idSize(tag.Class)), 8)

ASSUME StreamAssumption ==
    /\ \A p \in Puts :
          /\ Plain(p.tag)
          /\ p = [tag |-> p.tag, kind |-> p.kind, value |-> p.value]
          /\ \/ p.kind \in {"int", "uint"} /\ p.value \in Uint(8)
             \/ /\ p.kind \in {"bytes", "string"}
                /\ p.value \in Seq(Byte) /\ Len(p.value) <= MaxInt32
             \/ p.kind = "bool" /\ p.value \in BOOLEAN
             \/ p.kind = "null" /\ p.tag = Anonymous
    /\ \A c \in Containers : Plain(c.tag) /\ IsContainer(c.type)

VARIABLES
    stream,         \* the bytes written
    written,        \* history: the calls of the Writer
    arrived,        \* how many bytes of the stream the Reader can get
    at,             \* how many it has taken
    read,           \* history: the elements ReadElement returned
    open,           \* the containers the Reader is in
    roots,          \* the elements it has completed
    broken          \* it has returned an error

readerVars == <<at, read, open, roots, broken>>
streamVars == <<stream, written, arrived, readerVars>>

StreamInit ==
    /\ stream = <<>> /\ written = <<>> /\ arrived = 0
    /\ at = 0 /\ read = <<>> /\ open = <<>> /\ roots = <<>> /\ broken = FALSE

\* The end of the stream is lost.
Lost == arrived < Len(stream)

-----------------------------------------------------------------------------
(* Trees: containers under way, and completed roots *)

Leaf(tag, type, value) ==
    [Tag |-> tag, Type |-> type, Value |-> value, SubElements |-> <<>>]

\* elements = append(elements, elem), of the innermost container.
AppendElem(containers, elem) ==
    [containers EXCEPT ![Len(containers)].SubElements = Append(@, elem)]

\* elem is complete: the next child of the innermost container, or a root.
Completed(containers, trees, elem) ==
    [open  |-> IF containers = <<>> THEN <<>> ELSE AppendElem(containers, elem),
     trees |-> IF containers = <<>> THEN Append(trees, elem) ELSE trees]

\* The innermost container is complete.
Ended(containers, trees) ==
    LET m == Len(containers)
    IN  Completed(SubSeq(containers, 1, m - 1), trees, containers[m])

\* Mutant: a container is appended before its children are read.
ChildrenDropped(containers, trees, elem) ==
    LET m == Len(containers)
    IN  IF containers # <<>> /\ elem.Type = TypeEndOfContainer
        THEN Completed(SubSeq(containers, 1, m - 1), trees,
                       [containers[m] EXCEPT !.SubElements = <<>>])
        ELSE IF IsContainer(elem.Type)
        THEN [open |-> Append(containers, elem), trees |-> trees]
        ELSE Completed(containers, trees, elem)

\* What the Reader has, after it took elem.
Taken(containers, trees, elem) ==
    IF containers # <<>> /\ elem.Type = TypeEndOfContainer THEN Ended(containers, trees)
    ELSE IF IsContainer(elem.Type) THEN [open |-> Append(containers, elem), trees |-> trees]
    ELSE Completed(containers, trees, elem)

-----------------------------------------------------------------------------
(* The Writer *)

\* The trees after k calls.
After(k) == IF k = 0 THEN [open |-> <<>>, trees |-> <<>>, end |-> 0] ELSE written[k]

\* A successful call.  The history gets what the Reader should make of it.
Write(put, p, elem, trees) ==
    /\ ~put.err /\ ~Lost
    /\ stream' = stream \o put.bytes
    /\ arrived' = Len(stream')
    /\ written' = Append(written, [put |-> p, elem |-> elem, end |-> Len(stream'),
                                   open |-> trees.open, trees |-> trees.trees])
    /\ UNCHANGED readerVars

\* A nil pointer in an array, or alone, is a control byte.
encoded(p) ==
    CASE p.kind = "int" -> PutSignedInt(p.tag, p.value)
      [] p.kind = "uint" -> PutUnsignedInt(p.tag, p.value)
      [] p.kind = "bytes" -> PutBytes(p.tag, p.value)
      [] p.kind = "string" -> PutString(p.tag, p.value)
      [] p.kind = "bool" -> PutBoolean(p.tag, p.value)
      [] p.kind = "null" -> writeControlByte(p.tag.Class, TypeNull)

IntElement(p, sub) ==
    Leaf(p.tag, (IF p.kind = "int" THEN TypeSignedInt ELSE TypeUnsignedInt) + sub,
         LittleEndian(Truncate(p.value, 2 ^ sub)))

\* The Element for p.
Element(p) ==
    CASE p.kind = "int" -> IntElement(p, signedSize(p.value))
      [] p.kind = "uint" -> IntElement(p, unsignedSize(p.value))
      [] p.kind = "bytes" -> Leaf(p.tag, TypeByteString + lengthSize(Len(p.value)), p.value)
      [] p.kind = "string" -> Leaf(p.tag, TypeUTF8String + lengthSize(Len(p.value)), p.value)
      [] p.kind = "bool" -> LET bit == IF p.value THEN 1 ELSE 0
                            IN  Leaf(p.tag, TypeBoolean + bit, <<bit>>)
      [] p.kind = "null" -> Leaf(p.tag, TypeNull, <<>>)

\* One of the Put methods.
WriteValue ==
    \E p \in Puts :
        LET w == After(Len(written))
        IN  /\ Len(written) < MaxElements
            /\ Write(encoded(p), p, Element(p), Completed(w.open, w.trees, Element(p)))

\* Another implementation writes a number in any number of bytes it fits.
WriteWide ==
    \E p \in Puts, k \in 0 .. 3 :
        LET w == After(Len(written))
            e == IntElement(p, k)
        IN  /\ Len(written) < MaxElements
            /\ \/ p.kind = "uint" /\ p.value = ZeroExtend(Truncate(p.value, 2 ^ k), 8)
               \/ p.kind = "int" /\ p.value = SignExtend(Truncate(p.value, 2 ^ k), 8)
            /\ Write(Put(p.tag, e.Type, e.Value), p, e, Completed(w.open, w.trees, e))

WriteStart ==
    \E c \in Containers :
        LET w == After(Len(written))
            e == Leaf(c.tag, c.type, <<>>)
        IN  /\ Len(written) < MaxElements
            /\ Write(StartContainer(c.tag, c.type),
                     [tag |-> c.tag, kind |-> "start", value |-> c.type], e,
                     [open |-> Append(w.open, e), trees |-> w.trees])

\* encodeContainer and encodeStruct end what they have started.
WriteEnd ==
    LET w == After(Len(written))
    IN  /\ w.open # <<>>
        /\ Write(EndContainer, [tag |-> Anonymous, kind |-> "end", value |-> <<>>],
                 Leaf(Anonymous, TypeEndOfContainer, <<>>), Ended(w.open, w.trees))

-----------------------------------------------------------------------------
(* The network and the Reader *)

\* The stream loses its end, which the Reader has not come to.
LoseEnd ==
    /\ ~Lost /\ ~broken
    /\ \E k \in at .. Len(stream) - 1 : arrived' = k
    /\ UNCHANGED <<stream, written, readerVars>>

\* Mutant: an error of ReadElement ends the containers.
ErrorEnds ==
    /\ ~broken /\ (at < arrived \/ Lost)
    /\ LET in   == ReadElement(SubSeq(stream, at + 1, arrived))
           next == IF in.err THEN Ended(open, roots) ELSE Taken(open, roots, in.elem)
       IN  IF in.err /\ open = <<>>
           THEN broken' = TRUE /\ UNCHANGED <<at, read, open, roots>>
           ELSE /\ at' = IF in.err THEN at ELSE arrived - Len(in.rest)
                /\ read' = IF in.err THEN read ELSE Append(read, in.elem)
                /\ open' = next.open /\ roots' = next.trees
                /\ UNCHANGED broken
    /\ UNCHANGED <<stream, written, arrived>>

\* ReadElement and what follows it, up to the next call of ReadElement.  A
\* Reader waits for bytes unless it gets no more.
Read ==
    /\ ~broken /\ (at < arrived \/ Lost)
    /\ LET in   == ReadElement(SubSeq(stream, at + 1, arrived))
           next == Taken(open, roots, in.elem)
       IN  IF in.err
           THEN broken' = TRUE /\ open' = <<>> /\ UNCHANGED <<at, read, roots>>
           ELSE /\ at' = arrived - Len(in.rest)
                /\ read' = Append(read, in.elem)
                /\ open' = next.open /\ roots' = next.trees
                /\ UNCHANGED broken
    /\ UNCHANGED <<stream, written, arrived>>

StreamNext == WriteValue \/ WriteWide \/ WriteStart \/ WriteEnd \/ LoseEnd \/ Read

StreamSpec == StreamInit /\ [][StreamNext]_streamVars

-----------------------------------------------------------------------------
(* Properties *)

\* The Reader stays in step with the Writer: the n-th element ReadElement
\* returns has the tag of the n-th element written, and it fails on none unless
\* bytes are missing.  An element read too short or too long would shift all
\* that follow it.  The streams have every tag form but the fully qualified
\* ones, whose short form readTag takes for longer than it is.
TagsInOrder ==
    /\ broken => Lost
    /\ Len(read) <= Len(written)
    /\ \A i \in DOMAIN read : read[i].Tag = written[i].put.tag

\* A variable of size bytes can hold p.
FitsIn(p, size) ==
    CASE p.kind = "uint" -> p.value = ZeroExtend(Truncate(p.value, size), 8)
      [] p.kind = "int" -> p.value = SignExtend(Truncate(p.value, size), 8)
      [] OTHER -> TRUE

\* Decoding elem into a variable of the kind of p and any size gives p or fails.
Exact(elem, p) ==
    p.kind \in {"int", "uint", "bytes", "string", "bool"} =>
        \A size \in {1, 2, 4, 8} :
            decodeScalar(elem, [kind |-> p.kind, size |-> size])
                = IF FitsIn(p, size) THEN Set(p.value) ELSE Fail

\* A number arrives as it was written or is refused because the variable is
\* too small for it, never cut or with another sign: OverflowInt and
\* OverflowUint of decodeInt and decodeUint catch every number that does not
\* fit, in whatever number of bytes it came.  Texts, byte strings and booleans
\* always arrive.
NumbersExact == \A i \in DOMAIN read : Exact(read[i], written[i].put)

\* ReadContainerChildren puts every element where it was written: the roots
\* the Reader has completed are the first of those written, with all they
\* contain, and when it has read everything they are all of them.
TreesArrive ==
    LET trees == After(Len(written)).trees
    IN  /\ Len(roots) <= Len(trees)
        /\ \A i \in DOMAIN roots : roots[i] = trees[i]
        /\ at = Len(stream) => roots = trees

\* The Reader never takes the beginning of an element for the element: a root
\* that lost its end, be it in the middle of a number or after the last child
\* of a container, is not completed.
CutTreeRefused ==
    LET w == After(Len(written))
    IN  (Lost /\ w.open = <<>>) => Len(roots) < Len(w.trees)
=============================================================================
