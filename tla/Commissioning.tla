--------------------------- MODULE Commissioning ----------------------------
(***************************************************************************)
(* What the two sides of PASE share: the handshake messages                *)
(* (commissioning/messages.go), the transcript, the message counter and    *)
(* the session install (commissioning/commissioning.go), the randomness    *)
(* they draw, and the UDP network between them.                            *)
(*                                                                         *)
(* A payload is a record: TLV encoding and decoding are injective on these *)
(* messages (FieldsArrive in TlvTransfer checks it on the encoder and the  *)
(* decoder), and a payload that does not decode is dropped by the handler  *)
(* before it changes anything, as if the network had lost it.  Likewise a  *)
(* failing SendMessage comes after the last state change of its handler.   *)
(* ExchangeID and AckCounter are written into frames and read by nobody;   *)
(* they are left out.                                                      *)
(***************************************************************************)
EXTENDS SessionManager, Spake2Plus

CONSTANTS
    Commissioners,   \* the controllers
    Device,          \* the commissionee
    Passcode,        \* passcodes a user may type
    DevicePasscode,  \* the one the device was built with
    Params,          \* its salt and iteration count
    CounterSeeds,    \* what 32 random bits may be
    FaultKinds,      \* which of "loss", "restart" (of the device) and "controller
                     \* restart" may happen, and the opcodes of the frames that
                     \* may be duplicated
    MaxFaults,       \* bound on how often
    MaxCalls         \* bound on the calls of StartPASE and StartCASE

ASSUME PartyAssumption ==
    /\ Device \notin Commissioners
    /\ Manager = Commissioners \cup {Device}

ASSUME PasscodeAssumption == DevicePasscode \in Passcode

ASSUME SeedsAssumption == CounterSeeds \subseteq 0 .. CounterMax

VARIABLES
    net,       \* the frames in flight
    draws,     \* how often each party has read crypto/rand
    faults,    \* how many faults have happened
    calls      \* how often StartPASE and StartCASE were called

\* The identifiers both sides hard-code; session 0 is the unsecured session.
InitiatorID == 12345
ResponderID == 23456

ASSUME IDAssumption == {InitiatorID, ResponderID} \subseteq SessionID

CommissioningState ==
    {"Idle", "PBKDFParamResponse", "Pake1", "Pake2", "Pake3", "CASE", "Complete"}

SharedInit ==
    /\ SessionsInit
    /\ net = {}
    /\ draws = [p \in Manager |-> 0]
    /\ faults = 0
    /\ calls = 0

-----------------------------------------------------------------------------
\* 32 random bytes, or a random scalar: never drawn before.
Fresh(p) == <<p, draws[p]>>

Draw(p) == draws' = [draws EXCEPT ![p] = @ + 1]

\* bumpCounter, with uint32 wraparound: the values *ctr may have afterwards.
bumpCounter(ctr) ==
    IF ctr = 0 THEN CounterSeeds ELSE {(ctr + 1) % (CounterMax + 1)}

\* paseContext: both payloads of the parameter exchange, Nil when not yet set.
paseContext(req, resp) == <<req, resp>>

\* installPASESession.
installPASESession(m, id, ke, role) ==
    InstallSecureSession(m, id, DeriveSessionKeysFromKe(ke), role)

\* buildFrame: the parts of the header and payload header a receiver uses.
Frame(opcode, from, to, counter, payload) ==
    [Opcode |-> opcode, from |-> from, to |-> to,
     MessageCounter |-> counter, Payload |-> payload]

-----------------------------------------------------------------------------
\* One of the faults the run allows happens.
Fault(kind) ==
    /\ kind \in FaultKinds
    /\ faults < MaxFaults
    /\ faults' = faults + 1

\* TransportManager.Start hands f to its party, whose handler sends the frames
\* out.  The network may hold a second copy of f back.
Handle(f, out) ==
    \/ net' = (net \ {f}) \cup out /\ UNCHANGED faults
    \/ net' = net \cup out /\ Fault(f.Opcode)

\* UDP loses f; a handler that returns an error before it changes anything has
\* the same effect.
Lose(f) ==
    /\ Fault("loss")
    /\ net' = net \ {f}
    /\ UNCHANGED <<sessions, draws, calls>>
=============================================================================
