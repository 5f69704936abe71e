-------------------------------- MODULE PASE --------------------------------
(***************************************************************************)
(* The PASE handshake between controllers and one device over UDP.         *)
(***************************************************************************)
EXTENDS Commissioner, Commissionee

VARIABLES
    computed,  \* history: the secrets the device has computed in handlePake1
    confirmed  \* history: which commissioner verified which secret in handlePake2

paseVars == <<sessions, net, draws, faults, calls,
              commissioner, commissionee, computed, confirmed>>

PASEInit ==
    /\ SharedInit
    /\ CommissionerInit
    /\ CommissioneeInit
    /\ computed = {}
    /\ confirmed = {}

CommissionerReceives(c, f) ==
    /\ CommissionerHandleMessage(c, f)
    /\ confirmed' = IF commissioner'[c].Ke = commissioner[c].Ke THEN confirmed
                    ELSE confirmed \cup {<<c, commissioner'[c].Ke>>}
    /\ UNCHANGED <<commissionee, computed>>

DeviceReceives(f) ==
    /\ CommissioneeHandleMessage(f)
    /\ computed' = IF commissionee'.verifier = commissionee.verifier THEN computed
                   ELSE computed \cup {commissionee'.verifier.keys.ke}
    /\ UNCHANGED <<commissioner, confirmed>>

CommissionerStarts(c, passcode) ==
    StartPASE(c, passcode) /\ UNCHANGED <<commissionee, computed, confirmed>>

CommissionerStartsCASE(c) ==
    StartCASE(c) /\ UNCHANGED <<commissionee, computed, confirmed>>

DeviceRestarts ==
    Restart /\ UNCHANGED <<commissioner, computed, confirmed>>

CommissionerRestarts(c) ==
    CommissionerRestart(c) /\ UNCHANGED <<commissionee, computed, confirmed>>

NetworkLoses(f) ==
    Lose(f) /\ UNCHANGED <<commissioner, commissionee, computed, confirmed>>

Receives == \E f \in net :
    \/ \E c \in Commissioners : CommissionerReceives(c, f)
    \/ DeviceReceives(f)

PASENext ==
    \/ \E c \in Commissioners, passcode \in Passcode : CommissionerStarts(c, passcode)
    \/ \E c \in Commissioners : CommissionerStartsCASE(c)
    \/ Receives
    \/ \E f \in net : NetworkLoses(f)
    \/ DeviceRestarts
    \/ \E c \in Commissioners : CommissionerRestarts(c)

PASESpec == PASEInit /\ [][PASENext]_paseVars

-----------------------------------------------------------------------------
Random == Manager \X Nat

W0Type == {"w0"} \X Passcode \X {Params}
W1Type == {"w1"} \X Passcode \X {Params}

Request ==
    [InitiatorRandom : Random, InitiatorSessionID : {InitiatorID},
     HasPBKDFParameters : {FALSE}]

Response ==
    [InitiatorRandom : Random, ResponderRandom : Random,
     ResponderSessionID : {ResponderID}, Params : {Params}]

\* The device can meet a Pake1 before any request, after a restart; a
\* commissioner sends Pake1 in answer to a response only.
DeviceContext == (Request \cup {Nil}) \X (Response \cup {Nil})
CommissionerContext == Request \X Response

Point(generator) == [generator : {generator}, scalar : Random, w0 : W0Type]

Factor ==
    Random \cup W1Type
        \cup ({"offset"} \X (Point("M") \cup Point("N")) \X W0Type)

Transcript(Context) ==
    [context : Context, pA : Point("M"), pB : Point("N"),
     z : SUBSET Factor, v : SUBSET Factor, w0 : W0Type]

Secret(Context) == {"Ke"} \X Transcript(Context)

Keys(Context) ==
    [ke : Secret(Context), cA : {"cA"} \X Transcript(Context),
     cB : {"cB"} \X Transcript(Context)]

Prover ==
    [w0 : W0Type, w1 : W1Type, context : CommissionerContext, x : Random,
     pA : Point("M"), keys : Keys(CommissionerContext) \cup {Nil}]

Verifier ==
    [w0 : W0Type, L : W1Type, context : DeviceContext, y : Random,
     pA : Point("M"), pB : Point("N"), keys : Keys(DeviceContext)]

FrameOf(opcode, from, to, payload) ==
    [Opcode : {opcode}, from : from, to : to,
     MessageCounter : 0 .. CounterMax, Payload : payload]

FrameType ==
    FrameOf("PBKDFParamRequest", Commissioners, {Device}, Request)
      \cup FrameOf("PBKDFParamResponse", {Device}, Commissioners, Response)
      \cup FrameOf("Pake1", Commissioners, {Device}, [pA : Point("M")])
      \cup FrameOf("Pake2", {Device}, Commissioners,
                   [pB : Point("N"), cB : {"cB"} \X Transcript(DeviceContext)])
      \cup FrameOf("Pake3", Commissioners, {Device},
                   [cA : {"cA"} \X Transcript(CommissionerContext)])

SessionType ==
    [EncryptKey           : {"I2R", "R2I"} \X Secret(CommissionerContext),
     DecryptKey           : {"I2R", "R2I"} \X Secret(CommissionerContext),
     AttestationChallenge : {"AttestationChallenge"} \X Secret(CommissionerContext),
     OutCounter           : 0 .. CounterMax,
     replay               : [max : 0 .. CounterMax, bitmap : SUBSET Bit]]

CommissionerType ==
    [State : CommissioningState, Passcode : Passcode \cup {Nil},
     Random : Random \cup {Nil}, SessionID : {0, InitiatorID},
     MessageCounter : 0 .. CounterMax,
     RequestPayload : Request \cup {Nil}, ResponsePayload : Response \cup {Nil},
     Ke : Secret(CommissionerContext) \cup {Nil}, prover : Prover \cup {Nil}]

CommissioneeType ==
    [State : CommissioningState, SessionID : {0, ResponderID},
     MessageCounter : 0 .. CounterMax,
     RequestPayload : Request \cup {Nil}, ResponsePayload : Response \cup {Nil},
     Ke : Secret(CommissionerContext) \cup {Nil}, verifier : Verifier \cup {Nil}]

\* The nil pointers of the code are no values of the types.
ASSUME NilAssumption ==
    /\ Params # Nil
    /\ Nil \notin Passcode \cup Random \cup Request \cup Response
    /\ Nil \notin Secret(CommissionerContext) \cup Keys(CommissionerContext)
    /\ Nil \notin Prover \cup Verifier
    /\ NoSession \notin SessionType

\* Types of the state.  Each opcode travels in one direction and with one kind
\* of payload, so HandleMessage never meets its default case; the secrets the
\* parties install come from a complete parameter exchange, also on a device
\* that met Pake1 first; and a session is never installed under identifier 0.
PASETypeOK ==
    /\ sessions \in [Manager -> [SessionID -> SessionType \cup {NoSession}]]
    /\ net \in SUBSET FrameType
    /\ draws \in [Manager -> Nat]
    /\ faults \in Nat
    /\ calls \in Nat
    /\ commissioner \in [Commissioners -> CommissionerType]
    /\ commissionee \in CommissioneeType
    /\ computed \in SUBSET Secret(DeviceContext)
    /\ confirmed \in SUBSET (Commissioners \X Secret(CommissionerContext))

-----------------------------------------------------------------------------
\* The keys of manager m's session id are those a PASE exchange with secret ke
\* gives to role.
HoldsKeys(m, id, ke, role) ==
    /\ id \in SessionID
    /\ sessions[m][id] # NoSession
    /\ LET s == sessions[m][id]
           n == NewSession(DeriveSessionKeysFromKe(ke), role)
       IN  /\ s.EncryptKey = n.EncryptKey
           /\ s.DecryptKey = n.DecryptKey
           /\ s.AttestationChallenge = n.AttestationChallenge

\* "An observer who sees StateComplete can rely on the session being present
\* in the manager" (docs/superpowers/specs, decision D4), and it is the session
\* of the Ke the observer reads, whatever attempt, duplicate or restart led to
\* it.
CompleteHasSession ==
    /\ \A c \in Commissioners : commissioner[c].State = "Complete" =>
           HoldsKeys(c, commissioner[c].SessionID, commissioner[c].Ke, "Initiator")
    /\ commissionee.State = "Complete" =>
           HoldsKeys(Device, commissionee.SessionID, commissionee.Ke, "Responder")

\* A controller and the device that are both Complete, the device with this
\* controller's pA, have the same Ke: no interleaving of attempts, replays of
\* old messages, or other controllers makes them disagree.
KeAgreement ==
    \A c \in Commissioners :
        /\ commissioner[c].State = "Complete"
        /\ commissionee.State = "Complete"
        /\ commissionee.verifier.pA = commissioner[c].prover.pA
        => commissioner[c].Ke = commissionee.Ke

\* Whatever a controller verifies in handlePake2 the device has computed, with
\* the device's own passcode: no wrong passcode, stale transcript or transcript
\* of another controller gives a controller a session.
CommissionerKeFromDevice ==
    /\ \A k \in confirmed : k[2] \in computed
    /\ \A c \in Commissioners : commissioner[c].Ke # Nil =>
           <<c, commissioner[c].Ke>> \in confirmed

\* Whatever secret the device installs in handlePake3, exactly one controller
\* has verified before.
DeviceKeConfirmed ==
    /\ commissionee.Ke # Nil =>
           \E c \in Commissioners : <<c, commissionee.Ke>> \in confirmed
    /\ \A j, k \in confirmed : j[2] = k[2] => j[1] = k[1]

\* The inductive invariant behind these properties.  A commissioner draws a new
\* scalar for every prover, a prover is finalized once, and what the device
\* holds after Complete belongs to its current verifier.
CommissionerInv(c) ==
    LET cm == commissioner[c]
    IN  /\ cm.Random # Nil \/ cm.prover # Nil => cm.SessionID = InitiatorID
        /\ cm.Random # Nil => cm.Passcode # Nil /\ cm.RequestPayload # Nil
        /\ cm.prover # Nil =>
               cm.prover.pA.scalar[1] = c /\ cm.prover.pA.scalar[2] < draws[c]
        /\ cm.State = "Complete" =>
               /\ cm.Ke # Nil
               /\ cm.prover # Nil /\ cm.prover.keys # Nil /\ cm.Ke = cm.prover.keys.ke
        /\ cm.Ke # Nil =>
               /\ <<c, cm.Ke>> \in confirmed
               /\ cm.SessionID = InitiatorID
               /\ HoldsKeys(c, InitiatorID, cm.Ke, "Initiator")
        /\ \A k \in confirmed : k[1] = c =>
               /\ k[2][2].pA.scalar[1] = c /\ k[2][2].pA.scalar[2] < draws[c]
               /\ cm.prover # Nil /\ k[2][2].pA = cm.prover.pA =>
                      cm.prover.keys # Nil /\ k[2] = cm.prover.keys.ke

CommissioneeInv ==
    LET v == commissionee.verifier
    IN  /\ commissionee.RequestPayload # Nil => commissionee.SessionID = ResponderID
        /\ v # Nil =>
               /\ v.keys.ke \in computed
               /\ v.keys.ke[2] = v.keys.cA[2] /\ v.keys.ke[2].pA = v.pA
               /\ v.keys.cA[2].context[1] # Nil => commissionee.SessionID = ResponderID
        /\ commissionee.State = "Complete" =>
               commissionee.Ke # Nil /\ v # Nil /\ commissionee.Ke = v.keys.ke
        /\ commissionee.Ke # Nil =>
               /\ \E c \in Commissioners : <<c, commissionee.Ke>> \in confirmed
               /\ commissionee.SessionID = ResponderID
               /\ HoldsKeys(Device, ResponderID, commissionee.Ke, "Responder")

NetInv ==
    \A f \in net :
        /\ f.Opcode = "Pake2" => <<"Ke", f.Payload.cB[2]>> \in computed
        /\ f.Opcode = "Pake3" => <<f.from, <<"Ke", f.Payload.cA[2]>>>> \in confirmed

\* All of it together: what both histories, the frames in flight, the provers
\* and verifiers and the session tables have to do with one another.
PASEInv ==
    /\ PASETypeOK
    /\ \A c \in Commissioners : CommissionerInv(c)
    /\ CommissioneeInv
    /\ NetInv
    /\ \A k \in confirmed : k[2] \in computed

Exchange == INSTANCE KeyExchange WITH
    offered <- computed,
    taken <- confirmed,
    held <- [p \in Commissioners \cup {Device} |->
                IF p = Device THEN commissionee.Ke ELSE commissioner[p].Ke]

\* PASE implements the abstract key exchange: handlePake2 takes a secret the
\* device has computed and no handlePake2 ever took, handlePake3 takes one that
\* some handlePake2 took, and nothing else but a restart changes a Ke.
KeepsExchange == Exchange!Spec

\* A controller whose passcode is not the device's is not Complete: "states
\* should not reach Complete on bad passcode" (commissioning_test.go:173).
\* StartPASE leaves the prover of the attempt before in place, and a late
\* Pake2 of that attempt completes the new one.
WrongPasscodeNotComplete ==
    \A c \in Commissioners :
        commissioner[c].State = "Complete" => commissioner[c].Passcode = DevicePasscode
=============================================================================
