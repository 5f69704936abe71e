---------------------------- MODULE Commissionee ----------------------------
(***************************************************************************)
(* The device side of PASE, commissioning/commissionee.go: one action per  *)
(* message handler, and the restart of the device's process                *)
(* (samples/commissioning/device/main.go), which keeps nothing.            *)
(* HandleMessage dispatches on the opcode alone; State is written and      *)
(* never read.                                                             *)
(*                                                                         *)
(* InitiatorRandom and InitiatorSessionID are read off RequestPayload and  *)
(* Random off ResponsePayload, with which they are assigned.  A reply goes *)
(* to the sender of the frame being handled (deviceMessenger.peer).        *)
(***************************************************************************)
EXTENDS Commissioning

VARIABLE commissionee

\* W0 and L, computed by NewCommissionee with ComputeSPAKE2PVerifierData.
W0 == Spake2pW0(DevicePasscode, Params)
L == Spake2pW1(DevicePasscode, Params)

NewCommissionee ==
    [State |-> "Idle", SessionID |-> 0, MessageCounter |-> 0,
     RequestPayload |-> Nil, ResponsePayload |-> Nil, Ke |-> Nil, verifier |-> Nil]

CommissioneeInit == commissionee = NewCommissionee

\* Mutant: the device announces its identifier but does not keep it.
RequestDropsID(f) ==
    LET resp == [InitiatorRandom |-> f.Payload.InitiatorRandom,
                 ResponderRandom |-> Fresh(Device),
                 ResponderSessionID |-> ResponderID, Params |-> Params]
    IN  /\ f.Opcode = "PBKDFParamRequest"
        /\ Draw(Device)
        /\ \E ctr \in bumpCounter(commissionee.MessageCounter) :
            /\ commissionee' = [commissionee EXCEPT
                   !.MessageCounter = ctr, !.RequestPayload = f.Payload,
                   !.ResponsePayload = resp, !.State = "Pake1"]
            /\ Handle(f, {Frame("PBKDFParamResponse", Device, f.from, ctr, resp)})
        /\ UNCHANGED <<sessions, calls>>

\* handlePBKDFParamRequest.  A verifier of an earlier exchange stays in place.
handlePBKDFParamRequest(f) ==
    LET req  == f.Payload
        sid  == IF commissionee.SessionID = 0 THEN ResponderID ELSE commissionee.SessionID
        resp == [InitiatorRandom |-> req.InitiatorRandom, ResponderRandom |-> Fresh(Device),
                 ResponderSessionID |-> sid,
                 Params |-> IF req.HasPBKDFParameters THEN Nil ELSE Params]
    IN  /\ f.Opcode = "PBKDFParamRequest"
        /\ Draw(Device)
        /\ \E ctr \in bumpCounter(commissionee.MessageCounter) :
            /\ commissionee' = [commissionee EXCEPT
                   !.SessionID = sid, !.MessageCounter = ctr, !.RequestPayload = req,
                   !.ResponsePayload = resp, !.State = "Pake1"]
            /\ Handle(f, {Frame("PBKDFParamResponse", Device, f.from, ctr, resp)})
        /\ UNCHANGED <<sessions, calls>>

\* handlePake1: a new verifier over the latest request and response, whoever
\* they were exchanged with.
handlePake1(f) ==
    LET context  == paseContext(commissionee.RequestPayload, commissionee.ResponsePayload)
        verifier == NewSPAKE2PVerifier(W0, L, context, f.Payload.pA, Fresh(Device))
    IN  /\ f.Opcode = "Pake1"
        /\ Draw(Device)
        /\ \E ctr \in bumpCounter(commissionee.MessageCounter) :
            /\ commissionee' = [commissionee EXCEPT
                   !.verifier = verifier, !.MessageCounter = ctr, !.State = "Pake3"]
            /\ Handle(f, {Frame("Pake2", Device, f.from, ctr,
                                [pB |-> verifier.pB, cB |-> verifier.keys.cB])})
        /\ UNCHANGED <<sessions, calls>>

\* handlePake3.  The verifier stays in place after it has served.
handlePake3(f) ==
    LET verifier == commissionee.verifier
        verified == VerifyConfirmationA(verifier, f.Payload.cA)
    IN  /\ f.Opcode = "Pake3"
        /\ \/ /\ ~verified
              /\ UNCHANGED <<sessions, commissionee>>
           \/ /\ verified
              /\ installPASESession(Device, commissionee.SessionID,
                                    verifier.keys.ke, "Responder")
              /\ commissionee' = [commissionee EXCEPT
                     !.Ke = verifier.keys.ke, !.State = "Complete"]
        /\ Handle(f, {})
        /\ UNCHANGED <<draws, calls>>

\* Mutant: the device takes a request in StateIdle only.
HandleMessageByState(f) ==
    /\ f.to = Device
    /\ \/ commissionee.State = "Idle" /\ handlePBKDFParamRequest(f)
       \/ /\ commissionee.State # "Idle"
          /\ f.Opcode = "PBKDFParamRequest"
          /\ Handle(f, {})
          /\ UNCHANGED <<sessions, commissionee, draws, calls>>
       \/ handlePake1(f)
       \/ handlePake3(f)

CommissioneeHandleMessage(f) ==
    /\ f.to = Device
    /\ \/ handlePBKDFParamRequest(f)
       \/ handlePake1(f)
       \/ handlePake3(f)

\* The device's process dies and starts again, with an empty SessionManager.
Restart ==
    /\ Fault("restart")
    /\ commissionee' = NewCommissionee
    /\ sessions' = [sessions EXCEPT ![Device] = [id \in SessionID |-> NoSession]]
    /\ UNCHANGED <<net, draws, calls>>
=============================================================================
