---------------------------- MODULE Commissioner ----------------------------
(***************************************************************************)
(* The controller side of PASE, commissioning/commissioner.go: one action  *)
(* per exported operation and per message handler.  HandleMessage          *)
(* dispatches on the opcode alone; State is written and never read.        *)
(*                                                                         *)
(* ResponderRandom, ResponderSessionID, Salt and Iterations are read off   *)
(* ResponsePayload, with which they are always assigned.                   *)
(***************************************************************************)
EXTENDS Commissioning

VARIABLE commissioner

NewCommissioner ==
    [State |-> "Idle", Passcode |-> Nil, Random |-> Nil, SessionID |-> 0,
     MessageCounter |-> 0, RequestPayload |-> Nil, ResponsePayload |-> Nil,
     Ke |-> Nil, prover |-> Nil]

CommissionerInit == commissioner = [c \in Commissioners |-> NewCommissioner]

\* StartPASE: neither the prover nor the keys of an earlier attempt are reset.
StartPASE(c, passcode) ==
    LET cm  == commissioner[c]
        sid == IF cm.SessionID = 0 THEN InitiatorID ELSE cm.SessionID
        req == [InitiatorRandom |-> Fresh(c), InitiatorSessionID |-> sid,
                HasPBKDFParameters |-> FALSE]
    IN  /\ calls < MaxCalls
        /\ calls' = calls + 1
        /\ Draw(c)
        /\ \E ctr \in bumpCounter(cm.MessageCounter) :
            /\ commissioner' = [commissioner EXCEPT ![c] =
                   [@ EXCEPT !.Passcode = passcode, !.Random = Fresh(c),
                             !.SessionID = sid, !.MessageCounter = ctr,
                             !.RequestPayload = req,
                             !.State = "PBKDFParamResponse"]]
            /\ net' = net \cup {Frame("PBKDFParamRequest", c, Device, ctr, req)}
        /\ UNCHANGED <<sessions, faults>>

\* handlePBKDFParamResponse and the sendPake1 it ends with.
handlePBKDFParamResponse(c, f) ==
    LET cm     == commissioner[c]
        resp   == f.Payload
        prover == NewSPAKE2PProver(Spake2pW0(cm.Passcode, resp.Params),
                                   Spake2pW1(cm.Passcode, resp.Params),
                                   paseContext(cm.RequestPayload, resp), Fresh(c))
    IN  /\ f.Opcode = "PBKDFParamResponse"
        /\ \/ /\ resp.InitiatorRandom = cm.Random
              /\ resp.Params # Nil
              /\ Draw(c)
              /\ \E ctr \in bumpCounter(cm.MessageCounter) :
                  /\ commissioner' = [commissioner EXCEPT ![c] =
                         [@ EXCEPT !.ResponsePayload = resp, !.prover = prover,
                                   !.MessageCounter = ctr, !.State = "Pake2"]]
                  /\ Handle(f, {Frame("Pake1", c, Device, ctr, [pA |-> prover.pA])})
           \/ /\ ~(resp.InitiatorRandom = cm.Random /\ resp.Params # Nil)
              /\ Handle(f, {})
              /\ UNCHANGED <<commissioner, draws>>
        /\ UNCHANGED <<sessions, calls>>

\* handlePake2.  Finalize marks the prover as used before the confirmation is
\* verified, so a Pake2 that fails verification uses the prover up.
handlePake2(c, f) ==
    LET cm     == commissioner[c]
        usable == Finalizable(cm.prover)
        prover == ProverFinalize(cm.prover, f.Payload.pB)
    IN  /\ f.Opcode = "Pake2"
        /\ \/ /\ ~usable
              /\ Handle(f, {})
              /\ UNCHANGED <<sessions, commissioner>>
           \/ /\ usable
              /\ ~VerifyConfirmationB(prover, f.Payload.cB)
              /\ commissioner' = [commissioner EXCEPT ![c].prover = prover]
              /\ Handle(f, {})
              /\ UNCHANGED sessions
           \/ /\ usable
              /\ VerifyConfirmationB(prover, f.Payload.cB)
              /\ installPASESession(c, cm.SessionID, prover.keys.ke, "Initiator")
              /\ \E ctr \in bumpCounter(cm.MessageCounter) :
                  /\ commissioner' = [commissioner EXCEPT ![c] =
                         [@ EXCEPT !.prover = prover, !.Ke = prover.keys.ke,
                                   !.MessageCounter = ctr, !.State = "Complete"]]
                  /\ Handle(f, {Frame("Pake3", c, Device, ctr, [cA |-> prover.keys.cA])})
        /\ UNCHANGED <<draws, calls>>

\* StartCASE, a stub.
StartCASE(c) ==
    /\ calls < MaxCalls
    /\ calls' = calls + 1
    /\ commissioner' = [commissioner EXCEPT ![c].State = "CASE"]
    /\ UNCHANGED <<sessions, net, draws, faults>>

CommissionerHandleMessage(c, f) ==
    /\ f.to = c
    /\ \/ handlePBKDFParamResponse(c, f)
       \/ handlePake2(c, f)

\* The controller's process (samples/commissioning/controller/main.go) dies and
\* starts again on the same port, with an empty SessionManager.
CommissionerRestart(c) ==
    /\ Fault("controller restart")
    /\ commissioner' = [commissioner EXCEPT ![c] = NewCommissioner]
    /\ sessions' = [sessions EXCEPT ![c] = [id \in SessionID |-> NoSession]]
    /\ UNCHANGED <<net, draws, calls>>
=============================================================================
