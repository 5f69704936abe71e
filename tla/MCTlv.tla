------------------------------- MODULE MCTlv --------------------------------
(***************************************************************************)
(* The codec in both of its uses: Marshal and decodePayload of a Go value, *)
(* or a Writer and a Reader on a stream of elements.  The values are the   *)
(* five PASE messages with numbers and byte strings at the boundaries of   *)
(* their encodings, the same messages between programs of different        *)
(* versions, and structs that use the rest of the codec.                   *)
(***************************************************************************)
EXTENDS TlvTransfer, TlvStream

\* No Go value is transferred.
TransferIdle ==
    job = <<>> /\ phase = "idle" /\ wire = <<>> /\ whole = TRUE /\ result = Fail

Init == StreamInit /\ (TransferInit \/ TransferIdle)

Next ==
    \/ TransferNext /\ UNCHANGED streamVars
    \/ phase = "idle" /\ StreamNext /\ UNCHANGED transferVars

Spec == Init /\ [][Next]_<<transferVars, streamVars>>

-----------------------------------------------------------------------------
string == [kind |-> "string"]
int(bits) == [kind |-> "int", size |-> bits \div 8]
SliceOf(T) == [kind |-> "slice", elem |-> T]
Untagged(T) == [Field(0, T) EXCEPT !.tlv = ""]

\* 0, the largest number of one byte, and numbers that take two, four, eight.
U(n) == Zero(8 - Len(n)) \o n
Numbers16 == {U(<<>>), U(<<255>>), U(<<1, 0>>), U(<<255, 255>>)}
Numbers32 == {U(<<128, 0>>), U(<<1, 0, 0>>), U(Fill(4, 255))}
Numbers64 == {U(<<>>), U(<<1, 0, 0, 0, 0>>), Fill(8, 255)}
\* -1, -128, -129, 127, 128, the least and the greatest int64.
Signed == {Fill(8, 255), Fill(7, 255) \o <<128>>, Fill(7, 255) \o <<127>>,
           U(<<127>>), U(<<128>>), <<128>> \o Zero(7), <<127>> \o Fill(7, 255)}

\* Empty, an end of container, a structure, and the two lengths between which
\* the length field grows.
Short == {<<>>, <<TypeEndOfContainer>>, <<TypeStructure, 36, 1>>}
ByteStrings == Short \cup {Fill(255, 24), Fill(256, 24)}

Requests == {<<r, s, p, h, n>> : r \in Short, s \in Numbers16, p \in {U(<<>>), U(<<1>>)},
                                 h \in BOOLEAN, n \in Numbers64}
Params == {{}} \cup {{<<i, s>>} : i \in Numbers32, s \in Short}
Responses == {<<<<7>>, r, s, p>> : r \in Short, s \in Numbers16, p \in Params}

\* The request of another version of the program: a text in front, the fields
\* in another order, the session identifier wider, the node identifier always
\* sent and not looked at.
OtherRequest ==
    Struct(<<Field(6, string), Untagged(bool), Field(5, uint(64)),
             Field(2, uint(32)), Field(1, bytes), Optional(4, Pointer(bool))>>)
OtherRequests == {<<t, TRUE, n, s, <<9>>, h>> :
                     t \in Short, n \in Numbers64, s \in Numbers16 \cup Numbers32,
                     h \in {{}, {TRUE}, {FALSE}}}

\* The response of another version, whose parameters are always there.
OtherResponse == Struct(<<Field(4, PBKDFParamSet), Field(3, uint(8)), Field(2, bytes)>>)

\* Arrays of integers, of structs, of arrays and of pointers.
Arrays == Struct(<<Field(1, SliceOf(int(64))), Field(2, SliceOf(Pake1)),
                   Optional(3, SliceOf(SliceOf(bool))), Field(4, SliceOf(Pointer(bool)))>>)
ArrayValues == {<<a, b, c, d>> : a \in {<<>>} \cup {<<x, U(<<5>>)>> : x \in Signed},
                                 b \in {<<>>, <<<<<<24>>>>, <<<<>>>>>>},
                                 c \in {<<>>, <<<<>>, <<TRUE, FALSE>>>>},
                                 d \in {<<>>, <<{}, {TRUE}>>}}
Narrow(bits) == Struct(<<Field(1, SliceOf(int(bits)))>>)

\* Types Marshal refuses: a kind it does not know, a number above one byte.
Refused == {Struct(<<Field(1, [kind |-> "float64"])>>), Struct(<<Field(256, bool)>>)}

Job(sent, values, target) ==
    {[sent |-> sent, value |-> v, target |-> target] : v \in values}

MCJobs ==
    UNION {Job(PBKDFParamRequest, Requests, PBKDFParamRequest),
           Job(PBKDFParamResponse, Responses, PBKDFParamResponse),
           Job(Pointer(Pake1), {{<<b>>} : b \in ByteStrings}, Pake1),
           Job(Pake2, {<<b, c>> : b \in ByteStrings, c \in Short}, Pake2),
           Job(Pake3, {<<b>> : b \in ByteStrings}, Pake3),
           Job(PBKDFParamRequest, Requests, OtherRequest),
           Job(OtherRequest, OtherRequests, PBKDFParamRequest),
           Job(PBKDFParamResponse, Responses, OtherResponse),
           Job(Arrays, ArrayValues, Arrays),
           Job(Arrays, ArrayValues, Narrow(8)),
           Job(Arrays, ArrayValues, Narrow(32)),
           UNION {Job(T, {<<TRUE>>}, Pake1) : T \in Refused}}

MCTrailing == {<<TypeEndOfContainer>>, <<36, 1, 5>>}

-----------------------------------------------------------------------------
MCTag(class, id) == [Class |-> class, ID |-> Zero(8 - Len(id)) \o id, Profile |-> Zero(4)]

\* Every form of tag the Writer and the Reader agree on, with numbers that need
\* all their bytes, and a context tag the Writer refuses.
MCTags == <<Anonymous, ContextTag(Zero(7) \o <<255>>), MCTag(64, <<24, 1>>),
            MCTag(96, <<1, 2, 3, 4>>), MCTag(128, <<1, 24>>), MCTag(160, <<4, 3, 2, 1>>),
            MCTag(32, <<1, 0>>)>>

MCPut(kind, tags, values) == [tag : {MCTags[i] : i \in tags}, kind : {kind}, value : values]

\* The numbers are 128, -1 (or 2^64 - 1), -32769.
MCPuts ==
    UNION {MCPut("int", {1}, {Zero(7) \o <<128>>, Fill(8, 255)}),
           MCPut("int", {3}, {Fill(6, 255) \o <<127, 255>>}),
           MCPut("uint", {2}, {Zero(7) \o <<128>>}),
           MCPut("uint", {4, 7}, {Fill(8, 255)}),
           MCPut("bytes", {1}, {<<>>}), MCPut("string", {5}, {<<24, 21>>}),
           MCPut("bool", {6}, {TRUE}), MCPut("null", {1}, {<<>>})}

MCContainers ==
    {[tag |-> MCTags[1], type |-> TypeArray], [tag |-> MCTags[2], type |-> TypeStructure],
     [tag |-> MCTags[6], type |-> TypeList]}
=============================================================================
