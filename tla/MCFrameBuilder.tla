--------------------------- MODULE MCFrameBuilder ---------------------------
(***************************************************************************)
(* One non-zero argument for each setter (zero is what it replaces), all   *)
(* bytes different so that no two can be confused, and one payload of      *)
(* every form, two of which cannot be encoded.                             *)
(***************************************************************************)
EXTENDS FrameBuilder, Tlv

MCSessionIDs == {<<17, 18>>}
MCCounters == {<<33, 34, 35, 36>>}
MCNodeIDs == {<<49, 50, 51, 52, 53, 54, 55, 56>>}
MCGroupIDs == {<<65, 66>>}
MCProtocols == {<<0, 1>>}
MCOpcodes == {32}
MCExchangeIDs == {<<81, 82>>}
MCVendors == {<<255, 241>>}
MCPayloads ==
    {[form |-> "nil"], [form |-> "bytes", raw |-> <<97, 98>>],
     [form |-> "value", type |-> [kind |-> "bool"], value |-> TRUE],
     [form |-> "value", type |-> [kind |-> "float64"], value |-> 1],
     [form |-> "value", type |-> [kind |-> "map"], value |-> 2]}
=============================================================================
