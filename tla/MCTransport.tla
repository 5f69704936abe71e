---------------------------- MODULE MCTransport -----------------------------
(***************************************************************************)
(* A buffer that holds the two smallest frames and cuts the third, whose   *)
(* headers are all there; noise of another version, and noise that         *)
(* announces more header than follows.                                     *)
(***************************************************************************)
EXTENDS Transport

MCFrame(flags, exchangeFlags, data) ==
    [Header        |-> [Flags |-> flags, SessionID |-> Zero(2), SecurityFlags |-> 0,
                        MessageCounter |-> <<0, 0, 0, 9>>, SourceNodeID |-> Zero(8),
                        DestNodeID |-> IF flags = 2 THEN Zero(6) \o <<7, 8>> ELSE Zero(8)],
     PayloadHeader |-> [ExchangeFlags |-> exchangeFlags, Opcode |-> 32,
                        ExchangeID |-> <<0, 1>>, ProtocolID |-> Zero(2),
                        VendorID |-> Zero(2), AckCounter |-> Zero(4)],
     Payload       |-> data]

MCFrames == {MCFrame(0, 1, <<>>), MCFrame(0, 0, <<1, 2, 3>>), MCFrame(2, 7, <<4, 5, 6, 7>>)}
MCNoise == {<<16>> \o Zero(15), <<4>> \o Zero(10)}
=============================================================================
