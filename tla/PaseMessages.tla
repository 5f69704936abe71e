---------------------------- MODULE PaseMessages ----------------------------
(***************************************************************************)
(* The Go types of the five PASE messages (commissioning/messages.go) as   *)
(* types of module Tlv.                                                    *)
(***************************************************************************)
EXTENDS Tlv

bool == [kind |-> "bool"]
bytes == [kind |-> "bytes"]
uint(bits) == [kind |-> "uint", size |-> bits \div 8]
Pointer(T) == [kind |-> "ptr", elem |-> T]
Struct(fields) == [kind |-> "struct", fields |-> fields]

\* A field with the struct tag `tlv:"id"`, and with `tlv:"id,omitempty"`.
Field(id, T) == [tlv |-> "id", id |-> id, omitempty |-> FALSE, type |-> T]
Optional(id, T) == [Field(id, T) EXCEPT !.omitempty = TRUE]

PBKDFParamRequest ==
    Struct(<<Field(1, bytes), Field(2, uint(16)), Field(3, uint(16)),
             Field(4, bool), Optional(5, uint(64))>>)

PBKDFParamSet == Struct(<<Field(1, uint(32)), Field(2, bytes)>>)

PBKDFParamResponse ==
    Struct(<<Field(1, bytes), Field(2, bytes), Field(3, uint(16)),
             Optional(4, Pointer(PBKDFParamSet))>>)

Pake1 == Struct(<<Field(1, bytes)>>)

Pake2 == Struct(<<Field(1, bytes), Field(2, bytes)>>)

Pake3 == Struct(<<Field(1, bytes)>>)
=============================================================================
