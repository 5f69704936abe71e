-------------------------------- MODULE Tlv ---------------------------------
(***************************************************************************)
(* Matter TLV for Go values of any type: the Reader of containers          *)
(* (tlv/tlv.go), the encoder (tlv/encoder.go), the decoder                 *)
(* (tlv/decoder.go) and decodePayload (commissioning/commissioning.go), as *)
(* operators.                                                              *)
(*                                                                         *)
(* Reflection, in addition to TlvElement: the value of a pointer is the    *)
(* set of what it points to, of a slice or struct the sequence of its      *)
(* elements or fields.  The tlv key of a field is "id" with a number, "-"  *)
(* or "" (none).  Tagged fields are exported.  Interfaces, which encode    *)
(* like pointers and decode to nothing, and a target of type Element are   *)
(* left out.                                                               *)
(***************************************************************************)
EXTENDS TlvElement, SequencesExt

-----------------------------------------------------------------------------
(* Containers, tlv.go 217-241 *)

\* Mutant: the end of the input also ends the container.
RECURSIVE EndOfInputCloses(_, _)
EndOfInputCloses(r, elements) ==
    LET in == ReadElement(r)
    IN  IF r = <<>> THEN [err |-> FALSE, elements |-> elements, rest |-> r]
        ELSE IF in.err THEN Fail
        ELSE IF in.elem.Type = TypeEndOfContainer
        THEN [err |-> FALSE, elements |-> elements, rest |-> in.rest]
        ELSE IF IsContainer(in.elem.Type)
        THEN LET sub == EndOfInputCloses(in.rest, <<>>)
             IN  IF sub.err THEN Fail
                 ELSE EndOfInputCloses(sub.rest,
                          Append(elements, [in.elem EXCEPT !.SubElements = sub.elements]))
        ELSE EndOfInputCloses(in.rest, Append(elements, in.elem))

\* ReadContainerChildren, with the elements it has read so far.
RECURSIVE ReadContainerChildren(_, _)
ReadContainerChildren(r, elements) ==
    LET in == ReadElement(r)
    IN  IF in.err THEN Fail
        ELSE IF in.elem.Type = TypeEndOfContainer
        THEN [err |-> FALSE, elements |-> elements, rest |-> in.rest]
        ELSE IF IsContainer(in.elem.Type)
        THEN LET sub == ReadContainerChildren(in.rest, <<>>)
             IN  IF sub.err THEN Fail
                 ELSE ReadContainerChildren(sub.rest,
                          Append(elements, [in.elem EXCEPT !.SubElements = sub.elements]))
        ELSE ReadContainerChildren(in.rest, Append(elements, in.elem))

-----------------------------------------------------------------------------
(* Encoder, encoder.go *)

\* isEmptyValue.
isEmptyValue(T, v) ==
    CASE T.kind \in {"string", "bytes", "slice"} -> v = <<>>
      [] T.kind = "bool" -> ~v
      [] T.kind \in {"int", "uint"} -> v = Zero(8)
      [] T.kind = "ptr" -> v = {}
      [] OTHER -> FALSE

\* The parts of a container between its start and its end.
inContainer(tag, type, parts) ==
    Then(StartContainer(tag, type), Then(FoldLeft(Then, Done(<<>>), parts), EndContainer))

RECURSIVE encodeValue(_, _, _)

\* encodeContainer of a slice with elements of type T.
encodeContainer(T, v, tag) ==
    inContainer(tag, TypeArray, [i \in DOMAIN v |-> encodeValue(T, v[i], Anonymous)])

\* encodeStruct.  A field number of more than one byte is an error.
encodeStruct(fields, v, tag) ==
    inContainer(tag, TypeStructure,
        [i \in DOMAIN v |->
            LET f == fields[i]
            IN  CASE f.tlv \in {"", "-"} -> Done(<<>>)
                  [] f.tlv = "id" ->
                         IF f.omitempty /\ isEmptyValue(f.type, v[i]) THEN Done(<<>>)
                         ELSE IF f.id > 255 THEN Fail
                         ELSE encodeValue(f.type, v[i], ContextTag(Zero(7) \o <<f.id>>))])

\* encodeValue of the value v of type T.  A nil pointer is a control byte
\* without its tag.
encodeValue(T, v, tag) ==
    CASE T.kind = "ptr" ->
             IF v = {} THEN writeControlByte(tag.Class, TypeNull)
             ELSE encodeValue(T.elem, CHOOSE x \in v : TRUE, tag)
      [] T.kind = "int" -> PutSignedInt(tag, v)
      [] T.kind = "uint" -> PutUnsignedInt(tag, v)
      [] T.kind = "bool" -> PutBoolean(tag, v)
      [] T.kind = "string" -> PutString(tag, v)
      [] T.kind = "bytes" -> PutBytes(tag, v)
      [] T.kind = "slice" -> encodeContainer(T.elem, v, tag)
      [] T.kind = "struct" -> encodeStruct(T.fields, v, tag)
      [] OTHER -> Fail

\* Marshal: the root element is anonymous.
Marshal(T, v) == encodeValue(T, v, Anonymous)

-----------------------------------------------------------------------------
(* Decoder, decoder.go *)

\* reflect.Zero.
RECURSIVE ZeroValue(_)
ZeroValue(T) ==
    CASE T.kind \in {"int", "uint"} -> Zero(8)
      [] T.kind = "bool" -> FALSE
      [] T.kind = "ptr" -> {}
      [] T.kind = "struct" -> [i \in DOMAIN T.fields |-> ZeroValue(T.fields[i].type)]
      [] OTHER -> <<>>

\* decodeStruct takes the first child with the ID of the field, of any class.
childWithID(children, id) ==
    LET at == {i \in DOMAIN children : children[i].Tag.ID = Zero(4) \o Digits(id)}
    IN  IF at = {} THEN <<>> ELSE <<children[Min(at)]>>

RECURSIVE Decode(_, _, _)

\* decodeSlice appends the children, of type T, to the slice out.
decodeSlice(tlv, T, out) ==
    LET AppendChild(slice, child) ==
            LET newElem == IF slice.err THEN Fail ELSE Decode(child, T, ZeroValue(T))
            IN  IF newElem.err THEN Fail ELSE Set(Append(slice.value, newElem.value))
    IN  IF tlv.Type \notin {TypeArray, TypeList} THEN Fail
        ELSE FoldLeft(AppendChild, Set(out), tlv.SubElements)

\* decodeStruct leaves a field without child as it is.
decodeStruct(tlv, fields, out) ==
    LET SetField(struct, f, i) ==
            LET item == childWithID(tlv.SubElements, f.id)
                in   == IF item = <<>> THEN Set(struct.value[i])
                        ELSE Decode(item[1], f.type, struct.value[i])
            IN  IF in.err THEN Fail ELSE Set([struct.value EXCEPT ![i] = in.value])
        Step(struct, i) ==
            CASE struct.err \/ fields[i].tlv = "" -> struct
              [] ~struct.err /\ fields[i].tlv = "-" -> Fail    \* not an integer
              [] ~struct.err /\ fields[i].tlv = "id" -> SetField(struct, fields[i], i)
    IN  IF tlv.Type # TypeStructure THEN Fail
        ELSE FoldLeft(Step, Set(out), [i \in DOMAIN fields |-> i])

\* Decode of the element tlv into a variable of type T that holds out.
Decode(tlv, T, out) ==
    CASE T.kind = "ptr" ->
             IF tlv.Type = TypeNull THEN Set({})
             ELSE LET in == Decode(tlv, T.elem, IF out = {} THEN ZeroValue(T.elem)
                                                ELSE CHOOSE x \in out : TRUE)
                  IN  IF in.err THEN Fail ELSE Set({in.value})
      [] T.kind \in {"bool", "string", "bytes", "int", "uint"} -> decodeScalar(tlv, T)
      [] T.kind = "slice" -> decodeSlice(tlv, T.elem, out)
      [] T.kind = "struct" -> decodeStruct(tlv, T.fields, out)
      [] OTHER -> Set(out)

-----------------------------------------------------------------------------
(* decodePayload, commissioning.go.  What follows the root is not looked at. *)

decodePayload(payload, T) ==
    LET root     == ReadElement(payload)
        children == CASE root.err -> Fail
                      [] IsContainer(root.elem.Type) ->
                             ReadContainerChildren(root.rest, <<>>)
                      [] OTHER -> [err |-> FALSE, elements |-> <<>>]
    IN  IF children.err THEN Fail
        ELSE Decode([root.elem EXCEPT !.SubElements = children.elements], T, ZeroValue(T))
=============================================================================
