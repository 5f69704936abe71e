----------------------------- MODULE PASEProofs -----------------------------
(***************************************************************************)
(* PASEInv is an inductive invariant of the handshake, for any number of   *)
(* controllers, passcodes, attempts, duplicates, losses and restarts, and  *)
(* with it the handshake implements the abstract key exchange.             *)
(***************************************************************************)
EXTENDS PASE, TLAPS

\* Unblinding any point gives a scalar or an offset.
LEMMA UnblindFactor ==
    ASSUME NEW g \in {"M", "N"}, NEW point \in Point(g), NEW w0 \in W0Type
    PROVE  Unblind(point, g, w0) \in Factor
<1>1. CASE point.generator = g /\ point.w0 = w0
  BY <1>1, Zenon DEF Unblind, Factor, Point
<1>2. CASE ~(point.generator = g /\ point.w0 = w0)
  <2>1. point \in Point("M") \cup Point("N")
    BY Zenon
  <2>2. <<"offset", point, w0>> \in Factor
    BY <2>1, Zenon DEF Factor
  <2> QED
    BY <1>2, <2>2, Zenon DEF Unblind
<1> QED
  BY <1>1, <1>2, Zenon

\* The keys k all come from one transcript with this context and pA.
KeysFrom(k, Context, context, pA) ==
    /\ k \in Keys(Context)
    /\ k.ke = <<"Ke", k.cA[2]>> /\ k.cA[2] = k.cB[2]
    /\ k.ke[2].pA = pA /\ k.ke[2].context = context

\* spakeFinalize (crypto/spake2plus.go): the three values come from one
\* transcript, which holds the context and pA.
LEMMA FinalizeKeys ==
    ASSUME NEW Context, NEW context \in Context, NEW pA \in Point("M"),
           NEW pB \in Point("N"), NEW z \in SUBSET Factor, NEW v \in SUBSET Factor,
           NEW w0 \in W0Type
    PROVE  KeysFrom(spakeFinalize(context, pA, pB, z, v, w0), Context, context, pA)
<1> DEFINE tt == [context |-> context, pA |-> pA, pB |-> pB, z |-> z, v |-> v, w0 |-> w0]
<1>1. tt \in Transcript(Context)
  BY Zenon DEF Transcript
<1> DEFINE k == spakeFinalize(context, pA, pB, z, v, w0)
<1>2. k = [ke |-> <<"Ke", tt>>, cA |-> <<"cA", tt>>, cB |-> <<"cB", tt>>]
  BY Zenon DEF spakeFinalize
<1>3. tt.pA = pA /\ tt.context = context
  BY Zenon
<1> HIDE DEF tt, k
<1>4. KeysFrom(k, Context, context, pA)
  BY <1>1, <1>2, <1>3, Zenon DEF Keys, Secret, KeysFrom
<1> QED
  BY <1>4, Zenon DEF k

\* A prover not finalized yet, pA made of x.
ProverOf(p, x) ==
    p \in Prover /\ p.keys = Nil /\ p.pA.scalar = x /\ p.pA \in Point("M")

\* NewSPAKE2PProver and ComputePA make such a prover.
LEMMA NewProver ==
    ASSUME NEW w0 \in W0Type, NEW w1 \in W1Type, NEW context \in CommissionerContext,
           NEW x \in Random
    PROVE  ProverOf(NewSPAKE2PProver(w0, w1, context, x), x)
<1>1. Blind("M", x, w0) \in Point("M") /\ Blind("M", x, w0).scalar = x
  BY Zenon DEF Blind, Point
<1> QED
  BY <1>1, Zenon DEF NewSPAKE2PProver, Prover, ProverOf

\* The prover p with keys, all of which come from one transcript.
FinalOf(q, p) ==
    /\ q \in Prover /\ q.pA = p.pA
    /\ q.keys \in Keys(CommissionerContext)
    /\ q.keys.ke = <<"Ke", q.keys.cA[2]>> /\ q.keys.cA[2] = q.keys.cB[2]
    /\ q.keys.ke[2].pA = q.pA

\* SPAKE2PProver.Finalize makes such a prover.
LEMMA FinalizedProver ==
    ASSUME NEW p \in Prover, NEW pB \in Point("N")
    PROVE  FinalOf(ProverFinalize(p, pB), p)
<1> DEFINE yG == Unblind(pB, "N", p.w0)
           k == spakeFinalize(p.context, p.pA, pB, Times(p.x, yG), Times(p.w1, yG), p.w0)
<1>1. /\ p.w0 \in W0Type /\ p.w1 \in W1Type /\ p.context \in CommissionerContext
      /\ p.x \in Random /\ p.pA \in Point("M")
  BY Zenon DEF Prover
<1>2. yG \in Factor
  BY <1>1, UnblindFactor, Zenon
<1>3. p.x \in Factor /\ p.w1 \in Factor
  BY <1>1, Zenon DEF Factor
<1>4. Times(p.x, yG) \in SUBSET Factor /\ Times(p.w1, yG) \in SUBSET Factor
  BY <1>2, <1>3, Zenon DEF Times
<1>5. ProverFinalize(p, pB) = [p EXCEPT !.keys = k]
  BY Zenon DEF ProverFinalize
<1> HIDE DEF yG
<1>6. KeysFrom(k, CommissionerContext, p.context, p.pA)
  BY <1>1, <1>4, FinalizeKeys, Zenon
<1> HIDE DEF k
<1> QED
  BY <1>5, <1>6, Zenon DEF Prover, KeysFrom, FinalOf

\* A verifier of pA, all of whose keys come from one transcript.
VerifierOf(v, context, pA) ==
    /\ v \in Verifier /\ v.pA = pA /\ v.pB \in Point("N")
    /\ v.keys \in Keys(DeviceContext)
    /\ v.keys.ke = <<"Ke", v.keys.cA[2]>> /\ v.keys.cA[2] = v.keys.cB[2]
    /\ v.keys.ke[2].pA = pA /\ v.keys.ke[2].context = context

\* NewSPAKE2PVerifier, ComputePB and Finalize make such a verifier.
LEMMA NewVerifier ==
    ASSUME NEW w0 \in W0Type, NEW l \in W1Type, NEW context \in DeviceContext,
           NEW pA \in Point("M"), NEW y \in Random
    PROVE  VerifierOf(NewSPAKE2PVerifier(w0, l, context, pA, y), context, pA)
<1> DEFINE v == NewSPAKE2PVerifier(w0, l, context, pA, y)
           xG == Unblind(pA, "M", w0)
           pB == Blind("N", y, w0)
           k == spakeFinalize(context, pA, pB, Times(y, xG), Times(y, l), w0)
<1>1. xG \in Factor
  BY UnblindFactor, Zenon
<1>2. y \in Factor /\ l \in Factor
  BY Zenon DEF Factor
<1>3. Times(y, xG) \in SUBSET Factor /\ Times(y, l) \in SUBSET Factor
  BY <1>1, <1>2, Zenon DEF Times
<1>4. pB \in Point("N")
  BY Zenon DEF Blind, Point
<1>5. v = [w0 |-> w0, L |-> l, context |-> context, y |-> y, pA |-> pA, pB |-> pB,
           keys |-> k]
  BY Zenon DEF NewSPAKE2PVerifier
<1> HIDE DEF xG, pB
<1>6. KeysFrom(k, DeviceContext, context, pA)
  BY <1>3, <1>4, FinalizeKeys, Zenon
<1> HIDE DEF k, v
<1>7. VerifierOf(v, context, pA)
  BY <1>4, <1>5, <1>6, Zenon DEF Verifier, KeysFrom, VerifierOf
<1> QED
  BY <1>7, Zenon DEF v

\* InstallSecureSession puts a session with the keys of ke under id, and
\* touches no other manager.
LEMMA Installed ==
    ASSUME PASETypeOK, NEW m \in Manager, NEW id \in SessionID,
           NEW ke \in Secret(CommissionerContext), NEW role \in {"Initiator", "Responder"},
           installPASESession(m, id, ke, role)
    PROVE  /\ sessions' \in [Manager -> [SessionID -> SessionType \cup {NoSession}]]
           /\ \A n \in Manager \ {m} : sessions'[n] = sessions[n]
           /\ HoldsKeys(m, id, ke, role)'
<1> DEFINE s == NewSession(DeriveSessionKeysFromKe(ke), role)
<1>1. EmptyWindow \in [max : 0 .. CounterMax, bitmap : SUBSET Bit] /\ 0 \in 0 .. CounterMax
  BY CounterMaxAssumption DEF EmptyWindow
<1>2. s \in SessionType
  BY <1>1, Zenon DEF NewSession, DeriveSessionKeysFromKe, SessionType
<1>3. s # NoSession
  BY <1>2, NilAssumption, Zenon
<1>4. sessions' = [sessions EXCEPT ![m][id] = s]
  BY Zenon DEF installPASESession, InstallSecureSession
<1>5. HoldsKeys(m, id, ke, role)' <=>
          /\ id \in SessionID
          /\ sessions'[m][id] # NoSession
          /\ sessions'[m][id].EncryptKey = s.EncryptKey
          /\ sessions'[m][id].DecryptKey = s.DecryptKey
          /\ sessions'[m][id].AttestationChallenge = s.AttestationChallenge
  BY Zenon DEF HoldsKeys
<1> HIDE DEF s
<1>6. sessions \in [Manager -> [SessionID -> SessionType \cup {NoSession}]]
  BY Zenon DEF PASETypeOK
<1> QED
  BY <1>2, <1>3, <1>4, <1>5, <1>6, Zenon

-----------------------------------------------------------------------------
\* The payload and the parties of a frame follow from its opcode.
LEMMA FrameFacts ==
    ASSUME NEW f \in FrameType
    PROVE  /\ f.MessageCounter \in 0 .. CounterMax
           /\ f.Opcode = "PBKDFParamRequest" => f.from \in Commissioners /\ f.Payload \in Request
           /\ f.Opcode = "PBKDFParamResponse" => f.Payload \in Response
           /\ f.Opcode = "Pake1" => f.from \in Commissioners /\ f.Payload.pA \in Point("M")
           /\ f.Opcode = "Pake2" =>
                  /\ f.Payload.pB \in Point("N")
                  /\ f.Payload.cB \in {"cB"} \X Transcript(DeviceContext)
           /\ f.Opcode = "Pake3" =>
                  f.Payload.cA \in {"cA"} \X Transcript(CommissionerContext)
BY Zenon DEF FrameType, FrameOf

\* buildFrame with each opcode gives a frame of the type.
LEMMA FrameTypes ==
    ASSUME NEW c \in Commissioners, NEW n \in 0 .. CounterMax
    PROVE  /\ \A req \in Request : Frame("PBKDFParamRequest", c, Device, n, req) \in FrameType
           /\ \A resp \in Response : Frame("PBKDFParamResponse", Device, c, n, resp) \in FrameType
           /\ \A pA \in Point("M") : Frame("Pake1", c, Device, n, [pA |-> pA]) \in FrameType
           /\ \A pB \in Point("N"), cB \in {"cB"} \X Transcript(DeviceContext) :
                  Frame("Pake2", Device, c, n, [pB |-> pB, cB |-> cB]) \in FrameType
           /\ \A cA \in {"cA"} \X Transcript(CommissionerContext) :
                  Frame("Pake3", c, Device, n, [cA |-> cA]) \in FrameType
BY Zenon DEF FrameType, FrameOf, Frame

\* bumpCounter stays within 32 bits.
LEMMA BumpType ==
    ASSUME NEW n \in 0 .. CounterMax, NEW ctr \in bumpCounter(n)
    PROVE  ctr \in 0 .. CounterMax
BY SeedsAssumption, CounterMaxAssumption DEF bumpCounter

\* The scalars behind pA are pairs of a party and a number.
LEMMA ScalarType ==
    ASSUME PASETypeOK
    PROVE  /\ \A k \in confirmed : k[1] \in Commissioners /\ k[2][2].pA.scalar[2] \in Nat
           /\ \A c \in Commissioners : commissioner[c].prover # Nil =>
                  commissioner[c].prover.pA.scalar[2] \in Nat
<1>1. \A pt \in Point("M") : pt.scalar[2] \in Nat
  BY Zenon DEF Point, Random
<1>2. \A k \in confirmed : k[1] \in Commissioners /\ k[2][2].pA \in Point("M")
  BY Zenon DEF PASETypeOK, Secret, Transcript
<1>3. \A c \in Commissioners : commissioner[c].prover # Nil =>
          commissioner[c].prover.pA \in Point("M")
  BY ZenonT(60) DEF PASETypeOK, CommissionerType, Prover
<1> QED
  BY <1>1, <1>2, <1>3, Zenon

\* A step that leaves controller d, its sessions and its confirmations alone
\* keeps what is known of it.
LEMMA CommissionerFrame ==
    ASSUME PASETypeOK, NEW d \in Commissioners, CommissionerInv(d),
           draws'[d] \in Nat, draws'[d] >= draws[d], sessions'[d] = sessions[d],
           commissioner'[d] = commissioner[d], confirmed \subseteq confirmed',
           \A k \in confirmed' : k[1] = d => k \in confirmed
    PROVE  CommissionerInv(d)'
<1>1. draws[d] \in Nat
  BY ZenonT(60), PartyAssumption DEF PASETypeOK
<1>2. HoldsKeys(d, InitiatorID, commissioner[d].Ke, "Initiator") =>
          HoldsKeys(d, InitiatorID, commissioner[d].Ke, "Initiator")'
  BY ZenonT(60) DEF HoldsKeys, NewSession, DeriveSessionKeysFromKe
<1> QED
  <2>1. \A x \in Nat : x < draws[d] => x < draws'[d]
    BY <1>1
  <2> QED
    BY <1>2, <2>1, ScalarType, ZenonT(60) DEF CommissionerInv

\* The same for the device.
LEMMA CommissioneeFrame ==
    ASSUME CommissioneeInv, sessions'[Device] = sessions[Device],
           commissionee' = commissionee, computed' = computed,
           confirmed \subseteq confirmed'
    PROVE  CommissioneeInv'
<1>1. HoldsKeys(Device, ResponderID, commissionee.Ke, "Responder") =>
          HoldsKeys(Device, ResponderID, commissionee.Ke, "Responder")'
  BY Zenon DEF HoldsKeys, NewSession, DeriveSessionKeysFromKe
<1> QED
  BY ZenonT(60), <1>1 DEF CommissioneeInv

\* A step of controller c leaves what is known of everybody else alone.
LEMMA OthersKept ==
    ASSUME PASEInv, NEW c \in Commissioners,
           draws' \in [Manager -> Nat], \A d \in Manager : draws'[d] >= draws[d],
           \A d \in Manager \ {c} : sessions'[d] = sessions[d],
           \A d \in Commissioners \ {c} : commissioner'[d] = commissioner[d],
           UNCHANGED <<commissionee, computed>>, confirmed \subseteq confirmed',
           \A k \in confirmed' : k \in confirmed \/ k[1] = c
    PROVE  /\ \A d \in Commissioners \ {c} : CommissionerInv(d)'
           /\ CommissioneeInv'
<1>1. ASSUME NEW d \in Commissioners \ {c} PROVE CommissionerInv(d)'
  <2>1. d \in Manager /\ sessions'[d] = sessions[d] /\ commissioner'[d] = commissioner[d]
    BY PartyAssumption, Zenon
  <2>2. draws'[d] \in Nat /\ draws'[d] >= draws[d]
    BY <2>1, Zenon
  <2>3. \A k \in confirmed' : k[1] = d => k \in confirmed
    BY Zenon
  <2>4. PASETypeOK /\ CommissionerInv(d)
    BY Zenon DEF PASEInv
  <2> QED
    BY <2>1, <2>2, <2>3, <2>4, CommissionerFrame, Zenon
<1>2. sessions'[Device] = sessions[Device]
  BY PartyAssumption, Zenon
<1> QED
  BY <1>1, <1>2, CommissioneeFrame, Zenon DEF PASEInv

\* A step of the device or the network leaves what is known of the controllers
\* alone.
LEMMA CommissionersKept ==
    ASSUME PASEInv, draws' \in [Manager -> Nat], \A d \in Manager : draws'[d] >= draws[d],
           \A d \in Manager \ {Device} : sessions'[d] = sessions[d],
           UNCHANGED <<commissioner, confirmed>>
    PROVE  \A d \in Commissioners : CommissionerInv(d)'
<1> TAKE d \in Commissioners
<1>1. d \in Manager \ {Device}
  BY PartyAssumption, Zenon
<1>2. PASETypeOK /\ CommissionerInv(d)
  BY Zenon DEF PASEInv
<1> QED
  BY <1>1, <1>2, CommissionerFrame, Zenon

\* Handling a frame leaves frames that were there or that the handler sent.
LEMMA HandleNet ==
    ASSUME faults \in Nat, NEW f \in net, NEW out, Handle(f, out)
    PROVE  net' \subseteq net \cup out /\ faults' \in Nat
BY DEF Handle, Fault

\* What is known of the frames in flight survives when the histories grow and
\* the new frame g keeps to it.
LEMMA NetFrame ==
    ASSUME NetInv, NEW g, net' \subseteq net \cup {g},
           computed \subseteq computed', confirmed \subseteq confirmed',
           g.Opcode = "Pake2" => <<"Ke", g.Payload.cB[2]>> \in computed',
           g.Opcode = "Pake3" => <<g.from, <<"Ke", g.Payload.cA[2]>>>> \in confirmed'
    PROVE  NetInv'
BY ZenonT(60) DEF NetInv

-----------------------------------------------------------------------------
\* Nothing has happened yet.
LEMMA InitPASEInv == PASEInit => PASEInv
<1> SUFFICES ASSUME PASEInit PROVE PASEInv
  BY Zenon
<1> USE DEF PASEInit, SharedInit, SessionsInit, CommissionerInit, CommissioneeInit
<1>1. NewCommissioner \in CommissionerType
  BY CounterMaxAssumption DEF NewCommissioner, CommissionerType, CommissioningState
<1>2. NewCommissionee \in CommissioneeType
  BY CounterMaxAssumption DEF NewCommissionee, CommissioneeType, CommissioningState
<1>3. PASETypeOK
  BY <1>1, <1>2, Zenon DEF PASETypeOK
<1>4. ASSUME NEW c \in Commissioners PROVE CommissionerInv(c)
  BY Zenon DEF CommissionerInv, NewCommissioner
<1>5. CommissioneeInv
  BY Zenon DEF CommissioneeInv, NewCommissionee
<1> QED
  BY <1>3, <1>4, <1>5, Zenon DEF PASEInv, NetInv

\* StartPASE keeps the invariant: the new random and the new request replace
\* the old ones together, and prover, Ke and session stay what they were.
LEMMA StartPASEInv ==
    ASSUME PASEInv, NEW c \in Commissioners, NEW passcode \in Passcode,
           CommissionerStarts(c, passcode)
    PROVE  PASEInv'
<1> DEFINE cm == commissioner[c]
           sid == IF cm.SessionID = 0 THEN InitiatorID ELSE cm.SessionID
           req == [InitiatorRandom |-> Fresh(c), InitiatorSessionID |-> sid,
                   HasPBKDFParameters |-> FALSE]
<1>1. PICK ctr \in bumpCounter(cm.MessageCounter) :
        /\ commissioner' = [commissioner EXCEPT ![c] =
               [@ EXCEPT !.Passcode = passcode, !.Random = Fresh(c),
                         !.SessionID = sid, !.MessageCounter = ctr,
                         !.RequestPayload = req, !.State = "PBKDFParamResponse"]]
        /\ net' = net \cup {Frame("PBKDFParamRequest", c, Device, ctr, req)}
  BY ZenonT(60) DEF CommissionerStarts, StartPASE
<1>2. /\ calls' = calls + 1
      /\ draws' = [draws EXCEPT ![c] = @ + 1]
      /\ UNCHANGED <<sessions, faults, commissionee, computed, confirmed>>
  BY Zenon DEF CommissionerStarts, StartPASE, Draw
<1>3. /\ PASETypeOK /\ CommissionerInv(c) /\ cm \in CommissionerType
      /\ c \in Manager /\ draws[c] \in Nat
  BY PartyAssumption, Zenon DEF PASEInv, PASETypeOK
<1>4. Fresh(c) \in Random
  BY <1>3, Zenon DEF Fresh, Random
<1>5. sid = InitiatorID
  BY <1>3, Zenon DEF CommissionerType
<1>6. req \in Request
  BY <1>4, <1>5, Zenon DEF Request
<1>7. cm.MessageCounter \in 0 .. CounterMax
  BY <1>3, Zenon DEF CommissionerType
<1>8. ctr \in 0 .. CounterMax
  BY <1>7, BumpType, Zenon
<1> HIDE DEF sid, req
<1>9. /\ commissioner' \in [Commissioners -> CommissionerType]
      /\ commissioner'[c] = [cm EXCEPT !.Passcode = passcode, !.Random = Fresh(c),
                         !.SessionID = sid, !.MessageCounter = ctr,
                         !.RequestPayload = req, !.State = "PBKDFParamResponse"]
      /\ \A d \in Commissioners \ {c} : commissioner'[d] = commissioner[d]
  BY ZenonT(60), <1>1, <1>3, <1>4, <1>5, <1>6, <1>8
     DEF PASETypeOK, CommissionerType, CommissioningState
<1>10. PASETypeOK'
  <2>1. Frame("PBKDFParamRequest", c, Device, ctr, req) \in FrameType
    BY <1>6, <1>8, FrameTypes, Zenon
  <2>2. net' \in SUBSET FrameType
    BY <1>1, <1>3, <2>1, Zenon DEF PASETypeOK
  <2> QED
    BY <1>2, <1>3, <1>9, <2>2 DEF PASETypeOK
<1>11. CommissionerInv(c)'
  <2>1. /\ commissioner'[c].prover = cm.prover /\ commissioner'[c].Ke = cm.Ke
        /\ commissioner'[c].SessionID = InitiatorID
        /\ commissioner'[c].State = "PBKDFParamResponse"
        /\ commissioner'[c].Passcode = passcode /\ commissioner'[c].RequestPayload = req
    BY ZenonT(60), <1>3, <1>5, <1>9 DEF CommissionerType
  <2>2. HoldsKeys(c, InitiatorID, cm.Ke, "Initiator") =>
            HoldsKeys(c, InitiatorID, cm.Ke, "Initiator")'
    BY <1>2, <2>1, Zenon DEF HoldsKeys, NewSession, DeriveSessionKeysFromKe
  <2>3. \A n \in Nat : n < draws[c] => n < draws'[c]
    BY <1>2, <1>3 DEF PASETypeOK
  <2>4. passcode # Nil /\ req # Nil
    BY <1>6, NilAssumption, Zenon
  <2> QED
    BY <1>2, <1>3, <2>1, <2>2, <2>3, <2>4, ScalarType, Zenon DEF CommissionerInv
<1>12. (\A d \in Commissioners \ {c} : CommissionerInv(d)') /\ CommissioneeInv'
  <2>1. draws' \in [Manager -> Nat] /\ \A d \in Manager : draws'[d] >= draws[d]
    BY <1>2, <1>3 DEF PASETypeOK
  <2> QED
    BY <1>2, <1>9, <2>1, OthersKept, Zenon
<1>13. NetInv'
  <2>1. Frame("PBKDFParamRequest", c, Device, ctr, req).Opcode = "PBKDFParamRequest"
    BY Zenon DEF Frame
  <2> QED
    BY ZenonT(60), <1>1, <1>2, <2>1, NetFrame DEF PASEInv
<1> QED
  BY ZenonT(60), <1>2, <1>10, <1>11, <1>12, <1>13 DEF PASEInv

\* handlePBKDFParamResponse keeps the invariant: it answers only its own
\* request, and the prover it makes has a scalar never drawn before, so that
\* nothing confirmed earlier belongs to it.
LEMMA ResponseInv ==
    ASSUME PASEInv, NEW c \in Commissioners, NEW f \in net,
           CommissionerReceives(c, f), handlePBKDFParamResponse(c, f)
    PROVE  PASEInv'
<1> DEFINE cm == commissioner[c]
           resp == f.Payload
           prover == NewSPAKE2PProver(Spake2pW0(cm.Passcode, resp.Params),
                                      Spake2pW1(cm.Passcode, resp.Params),
                                      paseContext(cm.RequestPayload, resp), Fresh(c))
<1>1. UNCHANGED <<sessions, calls, commissionee, computed>>
  BY ZenonT(60) DEF CommissionerReceives, handlePBKDFParamResponse
<1>2. /\ PASETypeOK /\ CommissionerInv(c) /\ cm \in CommissionerType
      /\ c \in Manager /\ draws[c] \in Nat /\ f \in FrameType /\ faults \in Nat
  BY PartyAssumption, Zenon DEF PASEInv, PASETypeOK
<1>3. CASE ~(resp.InitiatorRandom = cm.Random /\ resp.Params # Nil)
  <2>1. Handle(f, {}) /\ UNCHANGED <<commissioner, draws>>
    BY ZenonT(60), <1>3 DEF handlePBKDFParamResponse
  <2>2. confirmed' = confirmed
    BY <2>1, Zenon DEF CommissionerReceives
  <2>3. net' \subseteq net /\ faults' \in Nat
    BY <1>2, <2>1, HandleNet
  <2>4. PASETypeOK'
    BY <1>1, <1>2, <2>1, <2>2, <2>3, Zenon DEF PASETypeOK
  <2>5. draws' \in [Manager -> Nat] /\ \A d \in Manager : draws'[d] >= draws[d]
    BY <1>2, <2>1 DEF PASETypeOK
  <2>6. \A d \in Commissioners : CommissionerInv(d)'
    BY <1>1, <2>1, <2>2, <2>5, CommissionersKept, Zenon
  <2>7. CommissioneeInv'
    BY <1>1, <2>2, CommissioneeFrame, Zenon DEF PASEInv
  <2> QED
    BY ZenonT(60), <1>1, <2>2, <2>3, <2>4, <2>6, <2>7 DEF PASEInv, NetInv
<1>4. CASE resp.InitiatorRandom = cm.Random /\ resp.Params # Nil
  <2>1. PICK ctr \in bumpCounter(cm.MessageCounter) :
          /\ commissioner' = [commissioner EXCEPT ![c] =
                 [@ EXCEPT !.ResponsePayload = resp, !.prover = prover,
                           !.MessageCounter = ctr, !.State = "Pake2"]]
          /\ Handle(f, {Frame("Pake1", c, Device, ctr, [pA |-> prover.pA])})
    BY ZenonT(60), <1>4 DEF handlePBKDFParamResponse
  <2>2. draws' = [draws EXCEPT ![c] = @ + 1]
    BY ZenonT(60), <1>4 DEF handlePBKDFParamResponse, Draw
  <2>3. f.Opcode = "PBKDFParamResponse" /\ resp \in Response
    BY ZenonT(60), <1>2, FrameFacts DEF handlePBKDFParamResponse
  <2>4. resp.InitiatorRandom \in Random /\ resp.Params = Params
    BY ZenonT(60), <2>3 DEF Response
  <2>5. /\ cm.SessionID = InitiatorID /\ cm.Passcode \in Passcode
        /\ cm.RequestPayload \in Request
    BY ZenonT(60), <1>2, <1>4, <2>4, NilAssumption DEF CommissionerInv, CommissionerType
  <2>6. /\ prover \in Prover /\ prover.keys = Nil /\ prover.pA.scalar = <<c, draws[c]>>
        /\ prover.pA \in Point("M")
    <3>1. /\ Spake2pW0(cm.Passcode, resp.Params) \in W0Type
          /\ Spake2pW1(cm.Passcode, resp.Params) \in W1Type
      BY ZenonT(60), <2>4, <2>5 DEF Spake2pW0, Spake2pW1, W0Type, W1Type
    <3>2. paseContext(cm.RequestPayload, resp) \in CommissionerContext
      BY <2>3, <2>5, Zenon DEF paseContext, CommissionerContext
    <3>3. Fresh(c) \in Random /\ Fresh(c) = <<c, draws[c]>>
      BY <1>2, Zenon DEF Fresh, Random
    <3> QED
      <4>1. ProverOf(prover, Fresh(c))
        BY <3>1, <3>2, <3>3, NewProver, Zenon
      <4> QED
        BY <3>3, <4>1, Zenon DEF ProverOf
  <2> HIDE DEF prover
  <2>7. ctr \in 0 .. CounterMax
    BY <1>2, BumpType, Zenon DEF CommissionerType
  <2>8. /\ commissioner' \in [Commissioners -> CommissionerType]
        /\ commissioner'[c] = [cm EXCEPT !.ResponsePayload = resp, !.prover = prover,
                                         !.MessageCounter = ctr, !.State = "Pake2"]
        /\ \A d \in Commissioners \ {c} : commissioner'[d] = commissioner[d]
    <3> DEFINE new == [cm EXCEPT !.ResponsePayload = resp, !.prover = prover,
                                 !.MessageCounter = ctr, !.State = "Pake2"]
    <3>1. new \in CommissionerType
      BY ZenonT(60), <1>2, <2>3, <2>6, <2>7 DEF CommissionerType, CommissioningState
    <3>2. commissioner' = [commissioner EXCEPT ![c] = new]
      BY <2>1, Zenon
    <3> HIDE DEF new
    <3>3. commissioner \in [Commissioners -> CommissionerType]
      BY <1>2, Zenon DEF PASETypeOK
    <3>4. /\ commissioner' \in [Commissioners -> CommissionerType]
          /\ commissioner'[c] = new
          /\ \A d \in Commissioners \ {c} : commissioner'[d] = commissioner[d]
      BY <3>1, <3>2, <3>3, Zenon
    <3> QED
      BY <3>4, Zenon DEF new
  <2>9. /\ commissioner'[c].prover = prover /\ commissioner'[c].Ke = cm.Ke
        /\ commissioner'[c].SessionID = InitiatorID /\ commissioner'[c].State = "Pake2"
        /\ commissioner'[c].Passcode = cm.Passcode /\ commissioner'[c].Random = cm.Random
        /\ commissioner'[c].RequestPayload = cm.RequestPayload
    BY <1>2, <2>5, <2>8, Zenon DEF CommissionerType
  <2>10. confirmed' = confirmed
    BY <2>9, Zenon DEF CommissionerReceives
  <2> DEFINE g == Frame("Pake1", c, Device, ctr, [pA |-> prover.pA])
  <2>11. net' \subseteq net \cup {g} /\ faults' \in Nat
    BY <1>2, <2>1, HandleNet, Zenon
  <2>12. g \in FrameType
    BY <2>6, <2>7, FrameTypes, Zenon
  <2>13. draws' \in [Manager -> Nat] /\ \A d \in Manager : draws'[d] >= draws[d]
    BY <1>2, <2>2 DEF PASETypeOK
  <2>14. PASETypeOK'
    <3> HIDE DEF g
    <3>1. net' \in SUBSET FrameType
      BY <1>2, <2>11, <2>12, Zenon DEF PASETypeOK
    <3> QED
      BY <1>1, <1>2, <2>8, <2>10, <2>11, <2>13, <3>1, Zenon DEF PASETypeOK
  <2>15. CommissionerInv(c)'
    <3>1. HoldsKeys(c, InitiatorID, cm.Ke, "Initiator") =>
              HoldsKeys(c, InitiatorID, cm.Ke, "Initiator")'
      BY ZenonT(60), <1>1, <2>9 DEF HoldsKeys, NewSession, DeriveSessionKeysFromKe
    <3>2. draws'[c] = draws[c] + 1
      BY <1>2, <2>2, Zenon DEF PASETypeOK
    <3>3. \A n \in Nat : n < draws[c] => n < draws'[c] /\ n # draws[c]
      BY <1>2, <3>2
    <3>4. prover.pA.scalar[1] = c /\ prover.pA.scalar[2] = draws[c] /\ draws[c] < draws'[c]
      BY SMTT(60), <1>2, <2>6, <3>2
    <3>5. \A k \in confirmed : k[1] = c =>
              /\ k[2][2].pA.scalar[1] = c /\ k[2][2].pA.scalar[2] < draws'[c]
              /\ k[2][2].pA # prover.pA
      BY <1>2, <3>3, <3>4, ScalarType, Zenon DEF CommissionerInv
    <3> QED
      BY <1>2, <2>9, <2>10, <3>1, <3>4, <3>5, Zenon DEF CommissionerInv
  <2>16. (\A d \in Commissioners \ {c} : CommissionerInv(d)') /\ CommissioneeInv'
    BY ZenonT(60), <1>1, <2>8, <2>10, <2>13, OthersKept
  <2>17. NetInv'
    <3>1. g.Opcode = "Pake1"
      BY Zenon DEF Frame
    <3> HIDE DEF g
    <3> QED
      BY ZenonT(60), <1>1, <2>10, <2>11, <3>1, NetFrame DEF PASEInv
  <2> QED
    BY ZenonT(60), <1>1, <2>10, <2>14, <2>15, <2>16, <2>17 DEF PASEInv
<1> QED
  BY <1>3, <1>4, Zenon

\* handlePake2 keeps the invariant.  Whatever cB it gets, the prover is used up;
\* when cB fits, the device has computed the same transcript, and nothing
\* confirmed earlier belongs to this prover, which had no keys before.
LEMMA Pake2Inv ==
    ASSUME PASEInv, NEW c \in Commissioners, NEW f \in net,
           CommissionerReceives(c, f), handlePake2(c, f)
    PROVE  PASEInv'
<1> DEFINE cm == commissioner[c]
           usable == cm.prover # Nil /\ cm.prover.keys = Nil
           prover == ProverFinalize(cm.prover, f.Payload.pB)
<1>1. UNCHANGED <<draws, calls, commissionee, computed>>
  BY ZenonT(60) DEF CommissionerReceives, handlePake2
<1>2. /\ PASETypeOK /\ CommissionerInv(c) /\ cm \in CommissionerType
      /\ c \in Manager /\ draws[c] \in Nat /\ f \in FrameType /\ faults \in Nat
  BY PartyAssumption, Zenon DEF PASEInv, PASETypeOK
<1>3. draws' \in [Manager -> Nat] /\ \A d \in Manager : draws'[d] >= draws[d]
  BY SMTT(60), <1>1, <1>2 DEF PASETypeOK
<1>4. /\ f.Opcode = "Pake2" /\ f.Payload.pB \in Point("N")
      /\ f.Payload.cB \in {"cB"} \X Transcript(DeviceContext)
  BY ZenonT(60), <1>2, FrameFacts DEF handlePake2
<1>5. usable =>
        /\ prover \in Prover /\ prover.pA = cm.prover.pA
        /\ prover.keys \in Keys(CommissionerContext)
        /\ prover.keys.ke = <<"Ke", prover.keys.cA[2]>>
        /\ prover.keys.cA[2] = prover.keys.cB[2]
        /\ prover.keys.ke[2].pA = prover.pA
  <2>1. cm.prover # Nil => cm.prover \in Prover
    BY ZenonT(60), <1>2 DEF CommissionerType
  <2>2. f.Payload.pB \in Point("N") /\ prover = ProverFinalize(cm.prover, f.Payload.pB)
    BY <1>4, Zenon
  <2>3. usable => cm.prover \in Prover
    BY <2>1, Zenon
  <2> HIDE DEF prover, usable, cm
  <2>4. usable => FinalOf(prover, cm.prover)
    BY <2>2, <2>3, FinalizedProver, Zenon
  <2> QED
    BY <2>4, Zenon DEF FinalOf
<1>6. CASE ~usable
  <2>1. Handle(f, {}) /\ UNCHANGED <<sessions, commissioner>>
    BY ZenonT(60), <1>6 DEF handlePake2, Finalizable
  <2>2. confirmed' = confirmed
    BY <2>1, Zenon DEF CommissionerReceives
  <2>3. net' \subseteq net /\ faults' \in Nat
    BY <1>2, <2>1, HandleNet
  <2>4. PASETypeOK'
    BY ZenonT(60), <1>1, <1>2, <2>1, <2>2, <2>3 DEF PASETypeOK
  <2>5. \A d \in Commissioners : CommissionerInv(d)'
    BY <1>3, <2>1, <2>2, CommissionersKept, Zenon
  <2>6. CommissioneeInv'
    BY ZenonT(60), <1>1, <2>1, <2>2, CommissioneeFrame DEF PASEInv
  <2> QED
    BY <1>1, <2>2, <2>3, <2>4, <2>5, <2>6, Zenon DEF PASEInv, NetInv
<1>7. CASE usable /\ f.Payload.cB # prover.keys.cB
  <2> HIDE DEF prover
  <2>1. /\ commissioner' = [commissioner EXCEPT ![c].prover = prover]
        /\ Handle(f, {}) /\ sessions' = sessions
    BY ZenonT(60), <1>7 DEF handlePake2, Finalizable, VerifyConfirmationB, prover
  <2>2. /\ commissioner' \in [Commissioners -> CommissionerType]
        /\ commissioner'[c] = [cm EXCEPT !.prover = prover]
        /\ \A d \in Commissioners \ {c} : commissioner'[d] = commissioner[d]
    <3> DEFINE new == [cm EXCEPT !.prover = prover]
    <3>1. new \in CommissionerType
      BY <1>2, <1>5, <1>7, ZenonT(60) DEF CommissionerType
    <3>2. commissioner' = [commissioner EXCEPT ![c] = new]
      BY <2>1, Zenon
    <3> HIDE DEF new
    <3>3. commissioner \in [Commissioners -> CommissionerType]
      BY <1>2, Zenon DEF PASETypeOK
    <3>4. /\ commissioner' \in [Commissioners -> CommissionerType]
          /\ commissioner'[c] = new
          /\ \A d \in Commissioners \ {c} : commissioner'[d] = commissioner[d]
      BY <3>1, <3>2, <3>3, Zenon
    <3> QED
      BY <3>4, Zenon DEF new
  <2>3. /\ commissioner'[c].prover = prover /\ commissioner'[c].Ke = cm.Ke
        /\ commissioner'[c].SessionID = cm.SessionID /\ commissioner'[c].State = cm.State
        /\ commissioner'[c].Passcode = cm.Passcode /\ commissioner'[c].Random = cm.Random
        /\ commissioner'[c].RequestPayload = cm.RequestPayload
    BY ZenonT(60), <1>2, <2>2 DEF CommissionerType
  <2>4. confirmed' = confirmed
    BY <2>3, Zenon DEF CommissionerReceives
  <2>5. net' \subseteq net /\ faults' \in Nat
    BY <1>2, <2>1, HandleNet
  <2>6. PASETypeOK'
    BY ZenonT(60), <1>1, <1>2, <2>1, <2>2, <2>4, <2>5 DEF PASETypeOK
  <2>7. CommissionerInv(c)'
    <3>1. HoldsKeys(c, InitiatorID, cm.Ke, "Initiator") =>
              HoldsKeys(c, InitiatorID, cm.Ke, "Initiator")'
      BY ZenonT(60), <2>1, <2>3 DEF HoldsKeys, NewSession, DeriveSessionKeysFromKe
    <3>2. cm.State # "Complete" /\ \A k \in confirmed : k[1] = c => k[2][2].pA # prover.pA
      BY <1>2, <1>5, <1>7, Zenon DEF CommissionerInv
    <3> QED
      BY <1>1, <1>2, <1>5, <1>7, <2>3, <2>4, <3>1, <3>2, Zenon DEF CommissionerInv
  <2>8. (\A d \in Commissioners \ {c} : CommissionerInv(d)') /\ CommissioneeInv'
    BY <1>1, <1>3, <2>1, <2>2, <2>4, OthersKept, Zenon
  <2> QED
    BY ZenonT(60), <1>1, <2>4, <2>5, <2>6, <2>7, <2>8 DEF PASEInv, NetInv
<1>8. CASE usable /\ f.Payload.cB = prover.keys.cB
  <2> DEFINE ke == prover.keys.ke
  <2>1. PICK ctr \in bumpCounter(cm.MessageCounter) :
          /\ commissioner' = [commissioner EXCEPT ![c] =
                 [@ EXCEPT !.prover = prover, !.Ke = prover.keys.ke,
                           !.MessageCounter = ctr, !.State = "Complete"]]
          /\ Handle(f, {Frame("Pake3", c, Device, ctr, [cA |-> prover.keys.cA])})
    BY ZenonT(60), <1>8 DEF handlePake2, Finalizable, VerifyConfirmationB
  <2>2. installPASESession(c, cm.SessionID, ke, "Initiator")
    BY ZenonT(60), <1>8 DEF handlePake2, Finalizable, VerifyConfirmationB
  <2> HIDE DEF prover
  <2>3. ke \in Secret(CommissionerContext) /\ prover.keys # Nil /\ ke # Nil
    BY ZenonT(60), <1>5, <1>8, NilAssumption DEF Keys
  <2>4. cm.SessionID = InitiatorID /\ InitiatorID \in SessionID
    BY <1>2, <1>8, IDAssumption, Zenon DEF CommissionerInv
  <2>5. ctr \in 0 .. CounterMax
    BY <1>2, BumpType, Zenon DEF CommissionerType
  <2>6. /\ commissioner' \in [Commissioners -> CommissionerType]
        /\ commissioner'[c] = [cm EXCEPT !.prover = prover, !.Ke = ke,
                                         !.MessageCounter = ctr, !.State = "Complete"]
        /\ \A d \in Commissioners \ {c} : commissioner'[d] = commissioner[d]
    <3> DEFINE new == [cm EXCEPT !.prover = prover, !.Ke = ke,
                                 !.MessageCounter = ctr, !.State = "Complete"]
    <3>0. prover \in Prover
      BY <1>5, <1>8, Zenon
    <3>1. new \in CommissionerType
      <4> HIDE DEF ke, cm
      <4>1. cm \in CommissionerType /\ ke \in Secret(CommissionerContext)
        BY <1>2, <2>3, Zenon
      <4> QED
        BY ZenonT(60), <2>5, <3>0, <4>1 DEF CommissionerType, CommissioningState
    <3>2. commissioner' = [commissioner EXCEPT ![c] = new]
      BY <2>1, Zenon
    <3> HIDE DEF new
    <3>3. commissioner \in [Commissioners -> CommissionerType]
      BY <1>2, Zenon DEF PASETypeOK
    <3>4. /\ commissioner' \in [Commissioners -> CommissionerType]
          /\ commissioner'[c] = new
          /\ \A d \in Commissioners \ {c} : commissioner'[d] = commissioner[d]
      BY <3>1, <3>2, <3>3, Zenon
    <3> QED
      BY <3>4, Zenon DEF new
  <2>7. /\ commissioner'[c].prover = prover /\ commissioner'[c].Ke = ke
        /\ commissioner'[c].SessionID = InitiatorID /\ commissioner'[c].State = "Complete"
        /\ commissioner'[c].Passcode = cm.Passcode /\ commissioner'[c].Random = cm.Random
        /\ commissioner'[c].RequestPayload = cm.RequestPayload
    BY <1>2, <2>4, <2>6, Zenon DEF CommissionerType
  <2>8. confirmed' = confirmed \cup {<<c, ke>>}
    <3>1. CASE cm.Ke = ke
      <4>1. <<c, ke>> \in confirmed
        BY ZenonT(60), <1>2, <2>3, <3>1 DEF CommissionerInv
      <4> QED
        BY ZenonT(60), <2>7, <3>1, <4>1 DEF CommissionerReceives
    <3>2. CASE cm.Ke # ke
      BY <2>7, <3>2, Zenon DEF CommissionerReceives
    <3> QED
      BY <3>1, <3>2, Zenon
  <2>9. ke = <<"Ke", prover.keys.cA[2]>> /\ ke \in computed
    <3>1. <<"Ke", f.Payload.cB[2]>> \in computed
      BY ZenonT(60), <1>4 DEF PASEInv, NetInv
    <3> QED
      BY <1>5, <1>8, <3>1, Zenon
  <2>10. /\ sessions' \in [Manager -> [SessionID -> SessionType \cup {NoSession}]]
         /\ \A n \in Manager \ {c} : sessions'[n] = sessions[n]
    BY ZenonT(60), <1>2, <2>2, <2>3, <2>4, Installed
  <2>11. HoldsKeys(c, InitiatorID, commissioner[c].Ke, "Initiator")'
    <3> HIDE DEF ke
    <3>1. ASSUME NEW k \in Secret(CommissionerContext),
                 installPASESession(c, InitiatorID, k, "Initiator")
          PROVE  HoldsKeys(c, InitiatorID, k, "Initiator")'
      BY <1>2, <2>4, <3>1, Installed, Zenon
    <3>2. \A k : k = ke /\ HoldsKeys(c, InitiatorID, k, "Initiator")'
                    => HoldsKeys(c, InitiatorID, commissioner[c].Ke, "Initiator")'
      BY <2>7, Zenon
    <3> QED
      BY ZenonT(60), <2>2, <2>3, <2>4, <3>1, <3>2
  <2> DEFINE g == Frame("Pake3", c, Device, ctr, [cA |-> prover.keys.cA])
  <2>12. net' \subseteq net \cup {g} /\ faults' \in Nat
    BY ZenonT(60), <1>2, <2>1, HandleNet
  <2>13. g \in FrameType
    BY <1>5, <1>8, <2>5, FrameTypes, Zenon DEF Keys
  <2>14. g.Opcode = "Pake3" /\ g.from = c /\ g.Payload.cA = prover.keys.cA
    BY Zenon DEF Frame
  <2> HIDE DEF ke, g
  <2>15. PASETypeOK'
    <3>1. net' \in SUBSET FrameType
      BY <1>2, <2>12, <2>13, Zenon DEF PASETypeOK
    <3>2. confirmed' \in SUBSET (Commissioners \X Secret(CommissionerContext))
      BY SMTT(60), <1>2, <2>3, <2>8 DEF PASETypeOK
    <3> QED
      BY <1>1, <1>2, <2>6, <2>10, <2>12, <3>1, <3>2, Zenon DEF PASETypeOK
  <2>16. CommissionerInv(c)'
    <3>1. \A k \in confirmed : k[1] = c => k[2][2].pA # prover.pA
      BY ZenonT(60), <1>2, <1>5, <1>8 DEF CommissionerInv
    <3>2. ke[2].pA = prover.pA /\ prover.pA = cm.prover.pA /\ ke = prover.keys.ke
      BY ZenonT(60), <1>5, <1>8 DEF ke
    <3>3. prover.pA.scalar[1] = c /\ prover.pA.scalar[2] < draws[c]
      BY ZenonT(60), <1>2, <1>8, <3>2 DEF CommissionerInv
    <3>4. \A k \in confirmed' : k[1] = c =>
              /\ k[2][2].pA.scalar[1] = c /\ k[2][2].pA.scalar[2] < draws[c]
              /\ k[2][2].pA = prover.pA => k[2] = ke
      <4>1. ASSUME NEW k \in confirmed, k[1] = c
            PROVE  /\ k[2][2].pA.scalar[1] = c /\ k[2][2].pA.scalar[2] < draws[c]
                   /\ k[2][2].pA # prover.pA
        BY <1>2, <3>1, <4>1, Zenon DEF CommissionerInv
      <4>2. <<c, ke>>[2] = ke
        OBVIOUS
      <4> QED
        BY <2>8, <3>2, <3>3, <4>1, <4>2, Zenon
    <3>5. prover # Nil
      BY ZenonT(60), <1>5, <1>8, NilAssumption
    <3>6. <<c, ke>> \in confirmed'
      BY <2>8, Zenon
    <3>7. cm.Random # Nil => cm.Passcode # Nil /\ cm.RequestPayload # Nil
      BY <1>2, Zenon DEF CommissionerInv
    <3>8. /\ prover.pA.scalar[2] < draws'[c]
          /\ \A k \in confirmed' : k[1] = c =>
                 /\ k[2][2].pA.scalar[1] = c /\ k[2][2].pA.scalar[2] < draws'[c]
                 /\ k[2][2].pA = prover.pA => k[2] = ke
      BY <1>1, <3>3, <3>4, Zenon
    <3> QED
      BY ZenonT(60), <2>3, <2>7, <2>11, <3>2, <3>3, <3>5, <3>6, <3>7, <3>8 DEF CommissionerInv
  <2>17. (\A d \in Commissioners \ {c} : CommissionerInv(d)') /\ CommissioneeInv'
    <3>1. confirmed \subseteq confirmed' /\ \A k \in confirmed' : k \in confirmed \/ k[1] = c
      BY SMTT(60), <2>8
    <3> QED
      BY <1>1, <1>3, <2>6, <2>10, <3>1, OthersKept, Zenon
  <2>18. NetInv'
    <3>1. <<g.from, <<"Ke", g.Payload.cA[2]>>>> \in confirmed'
      BY <2>8, <2>9, <2>14, Zenon
    <3>2. confirmed \subseteq confirmed'
      BY <2>8, Zenon
    <3> QED
      BY ZenonT(60), <1>1, <2>12, <2>14, <3>1, <3>2, NetFrame DEF PASEInv
  <2>19. \A k \in confirmed' : k[2] \in computed'
    BY <1>1, <2>8, <2>9 DEF PASEInv
  <2> QED
    BY ZenonT(60), <2>15, <2>16, <2>17, <2>18, <2>19 DEF PASEInv
<1> QED
  BY <1>6, <1>7, <1>8, Zenon

\* handlePBKDFParamRequest keeps the invariant: the device has its identifier
\* from now on, and verifier, Ke and session stay what they were.
LEMMA RequestInv ==
    ASSUME PASEInv, NEW f \in net, DeviceReceives(f), handlePBKDFParamRequest(f)
    PROVE  PASEInv'
<1> DEFINE req == f.Payload
           sid == IF commissionee.SessionID = 0 THEN ResponderID ELSE commissionee.SessionID
           resp == [InitiatorRandom |-> req.InitiatorRandom, ResponderRandom |-> Fresh(Device),
                    ResponderSessionID |-> sid,
                    Params |-> IF req.HasPBKDFParameters THEN Nil ELSE Params]
<1>1. PICK ctr \in bumpCounter(commissionee.MessageCounter) :
        /\ commissionee' = [commissionee EXCEPT
               !.SessionID = sid, !.MessageCounter = ctr, !.RequestPayload = req,
               !.ResponsePayload = resp, !.State = "Pake1"]
        /\ Handle(f, {Frame("PBKDFParamResponse", Device, f.from, ctr, resp)})
  BY ZenonT(60) DEF handlePBKDFParamRequest
<1>2. /\ draws' = [draws EXCEPT ![Device] = @ + 1]
      /\ UNCHANGED <<sessions, calls, commissioner, confirmed>>
  BY Zenon DEF DeviceReceives, handlePBKDFParamRequest, Draw
<1>3. /\ PASETypeOK /\ CommissioneeInv /\ commissionee \in CommissioneeType
      /\ Device \in Manager /\ draws[Device] \in Nat /\ f \in FrameType /\ faults \in Nat
  BY PartyAssumption, Zenon DEF PASEInv, PASETypeOK
<1>4. f.from \in Commissioners /\ req \in Request
  BY <1>3, FrameFacts, Zenon DEF handlePBKDFParamRequest
<1>5. sid = ResponderID
  BY <1>3, Zenon DEF CommissioneeType
<1>6. resp \in Response
  <2>1. Fresh(Device) \in Random
    BY <1>3, Zenon DEF Fresh, Random
  <2>2. req.InitiatorRandom \in Random /\ req.HasPBKDFParameters = FALSE
    BY ZenonT(60), <1>4 DEF Request
  <2> HIDE DEF sid, req
  <2> QED
    BY <1>5, <2>1, <2>2, Zenon DEF Response
<1>7. ctr \in 0 .. CounterMax
  BY <1>3, BumpType, Zenon DEF CommissioneeType
<1> HIDE DEF sid, resp, req
<1>8. commissionee' \in CommissioneeType
  BY ZenonT(60), <1>1, <1>3, <1>4, <1>5, <1>6, <1>7 DEF CommissioneeType, CommissioningState
<1>9. /\ commissionee'.verifier = commissionee.verifier /\ commissionee'.Ke = commissionee.Ke
      /\ commissionee'.SessionID = ResponderID /\ commissionee'.State = "Pake1"
  BY <1>1, <1>3, <1>5, Zenon DEF CommissioneeType
<1>10. computed' = computed
  BY <1>9, Zenon DEF DeviceReceives
<1> DEFINE g == Frame("PBKDFParamResponse", Device, f.from, ctr, resp)
<1>11. net' \subseteq net \cup {g} /\ faults' \in Nat
  BY ZenonT(60), <1>1, <1>3, HandleNet
<1>12. g \in FrameType
  BY <1>4, <1>6, <1>7, FrameTypes, Zenon
<1>13. g.Opcode = "PBKDFParamResponse"
  BY Zenon DEF Frame
<1> HIDE DEF g
<1>14. draws' \in [Manager -> Nat] /\ \A d \in Manager : draws'[d] >= draws[d]
  BY <1>2, <1>3 DEF PASETypeOK
<1>15. PASETypeOK'
  <2>1. net' \in SUBSET FrameType
    BY ZenonT(60), <1>3, <1>11, <1>12 DEF PASETypeOK
  <2> QED
    BY <1>2, <1>3, <1>8, <1>10, <1>11, <1>14, <2>1, Zenon DEF PASETypeOK
<1>16. \A d \in Commissioners : CommissionerInv(d)'
  BY ZenonT(60), <1>2, <1>14, CommissionersKept
<1>17. CommissioneeInv'
  <2>1. HoldsKeys(Device, ResponderID, commissionee.Ke, "Responder") =>
            HoldsKeys(Device, ResponderID, commissionee.Ke, "Responder")'
    BY ZenonT(60), <1>2, <1>9 DEF HoldsKeys, NewSession, DeriveSessionKeysFromKe
  <2> QED
    BY ZenonT(60), <1>2, <1>3, <1>9, <1>10, <2>1 DEF CommissioneeInv
<1>18. NetInv'
  BY ZenonT(60), <1>2, <1>10, <1>11, <1>13, NetFrame DEF PASEInv
<1> QED
  BY <1>2, <1>10, <1>15, <1>16, <1>17, <1>18, Zenon DEF PASEInv

\* handlePake1 keeps the invariant: the new verifier belongs to no Complete
\* state, and a verifier made before any request has a transcript without one.
LEMMA Pake1Inv ==
    ASSUME PASEInv, NEW f \in net, DeviceReceives(f), handlePake1(f)
    PROVE  PASEInv'
<1> DEFINE context == paseContext(commissionee.RequestPayload, commissionee.ResponsePayload)
           v == NewSPAKE2PVerifier(W0, L, context, f.Payload.pA, Fresh(Device))
<1>1. PICK ctr \in bumpCounter(commissionee.MessageCounter) :
        /\ commissionee' = [commissionee EXCEPT
               !.verifier = v, !.MessageCounter = ctr, !.State = "Pake3"]
        /\ Handle(f, {Frame("Pake2", Device, f.from, ctr, [pB |-> v.pB, cB |-> v.keys.cB])})
  BY ZenonT(60) DEF handlePake1
<1>2. /\ draws' = [draws EXCEPT ![Device] = @ + 1]
      /\ UNCHANGED <<sessions, calls, commissioner, confirmed>>
  BY Zenon DEF DeviceReceives, handlePake1, Draw
<1>3. /\ PASETypeOK /\ CommissioneeInv /\ commissionee \in CommissioneeType
      /\ Device \in Manager /\ draws[Device] \in Nat /\ f \in FrameType /\ faults \in Nat
  BY PartyAssumption, Zenon DEF PASEInv, PASETypeOK
<1>4. f.from \in Commissioners /\ f.Payload.pA \in Point("M")
  BY ZenonT(60), <1>3, FrameFacts DEF handlePake1
<1>5. /\ v \in Verifier /\ v.pA = f.Payload.pA /\ v.pB \in Point("N")
      /\ v.keys \in Keys(DeviceContext)
      /\ v.keys.ke = <<"Ke", v.keys.cA[2]>> /\ v.keys.cA[2] = v.keys.cB[2]
      /\ v.keys.ke[2].pA = v.pA /\ v.keys.ke[2].context = context
  <2>1. W0 \in W0Type /\ L \in W1Type
    BY PasscodeAssumption, Zenon DEF W0, L, Spake2pW0, Spake2pW1, W0Type, W1Type
  <2>2. context \in DeviceContext
    BY <1>3, Zenon DEF paseContext, DeviceContext, CommissioneeType
  <2>3. Fresh(Device) \in Random
    BY <1>3, Zenon DEF Fresh, Random
  <2> HIDE DEF context
  <2> QED
    <3>1. VerifierOf(v, context, f.Payload.pA)
      BY <1>4, <2>1, <2>2, <2>3, NewVerifier, Zenon
    <3> HIDE DEF v
    <3> QED
      BY <3>1, Zenon DEF VerifierOf
<1>6. context[1] = commissionee.RequestPayload
  BY Zenon DEF paseContext
<1>7. ctr \in 0 .. CounterMax
  BY <1>3, BumpType, Zenon DEF CommissioneeType
<1> HIDE DEF v, context
<1>8. commissionee' \in CommissioneeType
  BY ZenonT(60), <1>1, <1>3, <1>5, <1>7 DEF CommissioneeType, CommissioningState
<1>9. /\ commissionee'.verifier = v /\ commissionee'.Ke = commissionee.Ke
      /\ commissionee'.SessionID = commissionee.SessionID /\ commissionee'.State = "Pake3"
      /\ commissionee'.RequestPayload = commissionee.RequestPayload
  BY <1>1, <1>3, Zenon DEF CommissioneeType
<1>10. computed' = computed \cup {v.keys.ke}
  <2>1. CASE v = commissionee.verifier
    <3>1. v.keys.ke \in computed
      BY <1>3, <1>5, <2>1, NilAssumption, Zenon DEF CommissioneeInv
    <3> QED
      BY Zenon, <1>9, <2>1, <3>1 DEF DeviceReceives
  <2>2. CASE v # commissionee.verifier
    BY <1>9, <2>2, Zenon DEF DeviceReceives
  <2> QED
    BY <2>1, <2>2, Zenon
<1> DEFINE g == Frame("Pake2", Device, f.from, ctr, [pB |-> v.pB, cB |-> v.keys.cB])
<1>11. net' \subseteq net \cup {g} /\ faults' \in Nat
  BY ZenonT(60), <1>1, <1>3, HandleNet
<1>12. g \in FrameType
  <2>1. v.keys.cB \in {"cB"} \X Transcript(DeviceContext)
    BY <1>5, Zenon DEF Keys
  <2> QED
    BY Zenon, <1>4, <1>5, <1>7, <2>1, FrameTypes
<1>13. g.Opcode = "Pake2" /\ g.Payload.cB = v.keys.cB
  BY Zenon DEF Frame
<1> HIDE DEF g
<1>14. draws' \in [Manager -> Nat] /\ \A d \in Manager : draws'[d] >= draws[d]
  BY <1>2, <1>3 DEF PASETypeOK
<1>15. PASETypeOK'
  <2>1. net' \in SUBSET FrameType
    BY <1>3, <1>11, <1>12, Zenon DEF PASETypeOK
  <2>2. v.keys.ke \in Secret(DeviceContext)
    BY <1>5, Zenon DEF Keys
  <2>3. computed' \in SUBSET Secret(DeviceContext)
    BY ZenonT(60), <1>3, <1>10, <2>2 DEF PASETypeOK
  <2> QED
    BY ZenonT(60), <1>2, <1>3, <1>8, <1>11, <1>14, <2>1, <2>3 DEF PASETypeOK
<1>16. \A d \in Commissioners : CommissionerInv(d)'
  BY <1>2, <1>14, CommissionersKept, Zenon
<1>17. CommissioneeInv'
  <2>1. HoldsKeys(Device, ResponderID, commissionee.Ke, "Responder") =>
            HoldsKeys(Device, ResponderID, commissionee.Ke, "Responder")'
    BY ZenonT(60), <1>2, <1>9 DEF HoldsKeys, NewSession, DeriveSessionKeysFromKe
  <2>2. v.keys.cA[2].context[1] # Nil => commissionee.SessionID = ResponderID
    BY SMTT(60), <1>3, <1>5, <1>6 DEF CommissioneeInv
  <2> QED
    <3>1. v.keys.ke \in computed' /\ v.keys.ke[2] = v.keys.cA[2] /\ v.keys.ke[2].pA = v.pA
      BY SMTT(60), <1>5, <1>10
    <3> QED
      BY ZenonT(60), <1>2, <1>3, <1>9, <2>1, <2>2, <3>1 DEF CommissioneeInv
<1>18. NetInv'
  <2>1. v.keys.ke = <<"Ke", g.Payload.cB[2]>>
    BY <1>5, <1>13, Zenon
  <2>2. <<"Ke", g.Payload.cB[2]>> \in computed' /\ computed \subseteq computed'
    BY <1>10, <2>1, Zenon
  <2> QED
    BY ZenonT(60), <1>2, <1>11, <1>13, <2>2, NetFrame DEF PASEInv
<1> QED
  BY ZenonT(60), <1>2, <1>10, <1>15, <1>16, <1>17, <1>18 DEF PASEInv

\* handlePake3 keeps the invariant.  A cA that fits carries a transcript with a
\* request in it, so the verifier was made after one, and the device has its
\* identifier: the session is never installed under identifier 0.
LEMMA Pake3Inv ==
    ASSUME PASEInv, NEW f \in net, DeviceReceives(f), handlePake3(f)
    PROVE  PASEInv'
<1> DEFINE v == commissionee.verifier
           verified == v # Nil /\ v.keys.cA = f.Payload.cA
<1>1. Handle(f, {}) /\ UNCHANGED <<draws, calls, commissioner, confirmed>>
  BY Zenon DEF DeviceReceives, handlePake3
<1>2. /\ PASETypeOK /\ CommissioneeInv /\ commissionee \in CommissioneeType
      /\ Device \in Manager /\ f \in FrameType /\ faults \in Nat
  BY PartyAssumption, Zenon DEF PASEInv, PASETypeOK
<1>3. net' \subseteq net /\ faults' \in Nat
  BY <1>1, <1>2, HandleNet
<1>4. draws' \in [Manager -> Nat] /\ \A d \in Manager : draws'[d] >= draws[d]
  BY <1>1, <1>2 DEF PASETypeOK
<1>5. f.Opcode = "Pake3" /\ f.Payload.cA \in {"cA"} \X Transcript(CommissionerContext)
  BY ZenonT(60), <1>2, FrameFacts DEF handlePake3
<1>6. CASE ~verified
  <2>1. UNCHANGED <<sessions, commissionee>>
    BY <1>6, Zenon DEF handlePake3, VerifyConfirmationA
  <2>2. computed' = computed
    BY <2>1, Zenon DEF DeviceReceives
  <2>3. PASETypeOK'
    BY <1>1, <1>2, <1>3, <2>1, <2>2, Zenon DEF PASETypeOK
  <2>4. \A d \in Commissioners : CommissionerInv(d)'
    BY <1>1, <1>4, <2>1, CommissionersKept, Zenon
  <2>5. CommissioneeInv'
    BY <1>1, <2>1, <2>2, CommissioneeFrame, Zenon DEF PASEInv
  <2> QED
    BY <1>1, <1>3, <2>2, <2>3, <2>4, <2>5, Zenon DEF PASEInv, NetInv
<1>7. CASE verified
  <2> DEFINE ke == v.keys.ke
  <2>1. /\ installPASESession(Device, commissionee.SessionID, ke, "Responder")
        /\ commissionee' = [commissionee EXCEPT !.Ke = ke, !.State = "Complete"]
    BY ZenonT(60), <1>7 DEF handlePake3, VerifyConfirmationA
  <2>2. v.keys.ke \in Secret(DeviceContext)
    BY ZenonT(60), <1>2, <1>7 DEF CommissioneeType, Verifier, Keys
  <2>3. ke = <<"Ke", f.Payload.cA[2]>>
    <3>1. ke = <<"Ke", ke[2]>>
      BY <2>2, SMTT(60) DEF Secret
    <3>2. ke[2] = v.keys.cA[2]
      BY <1>2, <1>7, Zenon DEF CommissioneeInv
    <3>3. v.keys.cA = f.Payload.cA
      BY <1>7, Zenon
    <3> HIDE DEF ke
    <3> QED
      BY <3>1, <3>2, <3>3, Zenon
  <2>4. ke \in Secret(CommissionerContext) /\ ke # Nil
    BY <1>5, <2>3, NilAssumption DEF Secret
  <2>5. <<f.from, ke>> \in confirmed
    BY ZenonT(60), <1>5, <2>3 DEF PASEInv, NetInv
  <2>6. f.from \in Commissioners
    BY ZenonT(60), <1>2, <2>5 DEF PASETypeOK
  <2>7. commissionee.SessionID = ResponderID /\ ResponderID \in SessionID
    <3>1. f.Payload.cA[2].context[1] \in Request
      BY <1>5, Zenon DEF Transcript, CommissionerContext
    <3> QED
      BY <1>2, <1>7, <3>1, NilAssumption, IDAssumption, Zenon DEF CommissioneeInv
  <2> HIDE DEF ke
  <2>8. commissionee' \in CommissioneeType
    BY ZenonT(60), <1>2, <2>1, <2>4 DEF CommissioneeType, CommissioningState
  <2>9. /\ commissionee'.verifier = v /\ commissionee'.Ke = ke
        /\ commissionee'.SessionID = ResponderID /\ commissionee'.State = "Complete"
        /\ commissionee'.RequestPayload = commissionee.RequestPayload
    BY <1>2, <2>1, <2>7, Zenon DEF CommissioneeType
  <2>10. computed' = computed
    BY <2>9, Zenon DEF DeviceReceives
  <2>11. /\ sessions' \in [Manager -> [SessionID -> SessionType \cup {NoSession}]]
         /\ \A n \in Manager \ {Device} : sessions'[n] = sessions[n]
    BY <1>2, <2>1, <2>4, <2>7, Installed, Zenon
  <2>12. HoldsKeys(Device, ResponderID, commissionee.Ke, "Responder")'
    <3>1. ASSUME NEW k \in Secret(CommissionerContext),
                 installPASESession(Device, ResponderID, k, "Responder")
          PROVE  HoldsKeys(Device, ResponderID, k, "Responder")'
      BY <1>2, <2>7, <3>1, Installed, Zenon
    <3>2. \A k : k = ke /\ HoldsKeys(Device, ResponderID, k, "Responder")'
                    => HoldsKeys(Device, ResponderID, commissionee.Ke, "Responder")'
      BY <2>9, Zenon
    <3> QED
      BY ZenonT(60), <2>1, <2>4, <2>7, <3>1, <3>2
  <2>13. PASETypeOK'
    BY ZenonT(60), <1>1, <1>2, <1>3, <2>8, <2>10, <2>11 DEF PASETypeOK
  <2>14. \A d \in Commissioners : CommissionerInv(d)'
    BY ZenonT(60), <1>1, <1>4, <2>11, CommissionersKept
  <2>15. CommissioneeInv'
    <3>1. ke = v.keys.ke
      BY ZenonT(60) DEF ke
    <3> QED
      BY ZenonT(60), <1>1, <1>2, <1>7, <2>4, <2>5, <2>6, <2>9, <2>10, <2>12, <3>1
         DEF CommissioneeInv
  <2> QED
    BY <1>1, <1>3, <2>10, <2>13, <2>14, <2>15, Zenon DEF PASEInv, NetInv
<1> QED
  BY <1>6, <1>7, Zenon

\* A restart keeps the invariant: session table and handshake state vanish
\* together, and what the device computed earlier is still confirmed.
LEMMA RestartInv ==
    ASSUME PASEInv, DeviceRestarts
    PROVE  PASEInv'
<1>1. /\ commissionee' = NewCommissionee
      /\ sessions' = [sessions EXCEPT ![Device] = [id \in SessionID |-> NoSession]]
      /\ faults' = faults + 1
      /\ UNCHANGED <<net, draws, calls, commissioner, computed, confirmed>>
  BY Zenon DEF DeviceRestarts, Restart, Fault
<1>2. PASETypeOK /\ Device \in Manager
  BY PartyAssumption, Zenon DEF PASEInv
<1>3. NewCommissionee \in CommissioneeType
  BY CounterMaxAssumption DEF NewCommissionee, CommissioneeType, CommissioningState
<1>4. /\ sessions' \in [Manager -> [SessionID -> SessionType \cup {NoSession}]]
      /\ \A d \in Manager \ {Device} : sessions'[d] = sessions[d]
  BY <1>1, <1>2, Zenon DEF PASETypeOK
<1>5. PASETypeOK'
  BY <1>1, <1>2, <1>3, <1>4 DEF PASETypeOK
<1>6. draws' \in [Manager -> Nat] /\ \A d \in Manager : draws'[d] >= draws[d]
  BY <1>1, <1>2 DEF PASETypeOK
<1>7. \A d \in Commissioners : CommissionerInv(d)'
  BY ZenonT(60), <1>1, <1>4, <1>6, CommissionersKept
<1>8. CommissioneeInv'
  BY ZenonT(60), <1>1 DEF CommissioneeInv, NewCommissionee
<1> QED
  BY <1>1, <1>5, <1>7, <1>8, Zenon DEF PASEInv, NetInv

\* A restart of a controller keeps the invariant: what it confirmed earlier has
\* a scalar drawn earlier, and it has no prover any more.
LEMMA ControllerRestartInv ==
    ASSUME PASEInv, NEW c \in Commissioners, CommissionerRestarts(c)
    PROVE  PASEInv'
<1>1. /\ commissioner' = [commissioner EXCEPT ![c] = NewCommissioner]
      /\ sessions' = [sessions EXCEPT ![c] = [id \in SessionID |-> NoSession]]
      /\ faults' = faults + 1
      /\ UNCHANGED <<net, draws, calls, commissionee, computed, confirmed>>
  BY DEF CommissionerRestarts, CommissionerRestart, Fault
<1>2. PASETypeOK /\ CommissionerInv(c) /\ c \in Manager
  BY PartyAssumption, Zenon DEF PASEInv
<1>3. NewCommissioner \in CommissionerType
  BY CounterMaxAssumption DEF NewCommissioner, CommissionerType, CommissioningState
<1>4. /\ sessions' \in [Manager -> [SessionID -> SessionType \cup {NoSession}]]
      /\ \A d \in Manager \ {c} : sessions'[d] = sessions[d]
  BY <1>1, <1>2, Zenon DEF PASETypeOK
<1>5. /\ commissioner' \in [Commissioners -> CommissionerType]
      /\ commissioner'[c] = NewCommissioner
      /\ \A d \in Commissioners \ {c} : commissioner'[d] = commissioner[d]
  BY <1>1, <1>2, <1>3, Zenon DEF PASETypeOK
<1>6. PASETypeOK'
  BY <1>1, <1>2, <1>4, <1>5 DEF PASETypeOK
<1>7. draws' \in [Manager -> Nat] /\ \A d \in Manager : draws'[d] >= draws[d]
  BY <1>1, <1>2 DEF PASETypeOK
<1>8. (\A d \in Commissioners \ {c} : CommissionerInv(d)') /\ CommissioneeInv'
  BY <1>1, <1>4, <1>5, <1>7, OthersKept, Zenon
<1>9. CommissionerInv(c)'
  BY ZenonT(60), <1>1, <1>2, <1>5 DEF CommissionerInv, NewCommissioner
<1> QED
  BY <1>1, <1>6, <1>8, <1>9, Zenon DEF PASEInv, NetInv

\* Losing a frame keeps the invariant.
LEMMA LoseInv ==
    ASSUME PASEInv, NEW f \in net, NetworkLoses(f)
    PROVE  PASEInv'
<1>1. /\ net' \subseteq net /\ faults' = faults + 1
      /\ UNCHANGED <<sessions, draws, calls, commissioner, commissionee, computed, confirmed>>
  BY Zenon DEF NetworkLoses, Lose, Fault
<1>2. PASETypeOK
  BY Zenon DEF PASEInv
<1>3. PASETypeOK'
  BY <1>1, <1>2 DEF PASETypeOK
<1>4. draws' \in [Manager -> Nat] /\ \A d \in Manager : draws'[d] >= draws[d]
  BY <1>1, <1>2 DEF PASETypeOK
<1>5. \A d \in Commissioners : CommissionerInv(d)'
  BY <1>1, <1>4, CommissionersKept, Zenon
<1>6. CommissioneeInv'
  BY <1>1, CommissioneeFrame, Zenon DEF PASEInv
<1> QED
  BY <1>1, <1>3, <1>5, <1>6, Zenon DEF PASEInv, NetInv

\* StartCASE keeps the invariant: it changes State alone.
LEMMA StartCASEInv ==
    ASSUME PASEInv, NEW c \in Commissioners, CommissionerStartsCASE(c)
    PROVE  PASEInv'
<1> DEFINE cm == commissioner[c]
<1>1. /\ calls' = calls + 1
      /\ commissioner' = [commissioner EXCEPT ![c].State = "CASE"]
      /\ UNCHANGED <<sessions, net, draws, faults, commissionee, computed, confirmed>>
  BY Zenon DEF CommissionerStartsCASE, StartCASE
<1>2. PASETypeOK /\ CommissionerInv(c) /\ cm \in CommissionerType
  BY Zenon DEF PASEInv, PASETypeOK
<1>3. /\ commissioner' \in [Commissioners -> CommissionerType]
      /\ \A d \in Commissioners \ {c} : commissioner'[d] = commissioner[d]
  BY Zenon, <1>1, <1>2 DEF PASETypeOK, CommissionerType, CommissioningState
<1>4. PASETypeOK'
  BY <1>1, <1>2, <1>3 DEF PASETypeOK
<1>5. /\ commissioner'[c].prover = cm.prover /\ commissioner'[c].Ke = cm.Ke
      /\ commissioner'[c].SessionID = cm.SessionID /\ commissioner'[c].State = "CASE"
      /\ commissioner'[c].Passcode = cm.Passcode /\ commissioner'[c].Random = cm.Random
      /\ commissioner'[c].RequestPayload = cm.RequestPayload
  BY <1>1, <1>2, Zenon DEF PASETypeOK, CommissionerType
<1>6. CommissionerInv(c)'
  <2>1. HoldsKeys(c, InitiatorID, cm.Ke, "Initiator") =>
            HoldsKeys(c, InitiatorID, cm.Ke, "Initiator")'
    BY <1>1, <1>5, Zenon DEF HoldsKeys, NewSession, DeriveSessionKeysFromKe
  <2>2. draws' = draws /\ confirmed' = confirmed /\ "CASE" # "Complete"
    BY <1>1
  <2> QED
    BY <1>2, <1>5, <2>1, <2>2, ZenonT(60) DEF CommissionerInv
<1>7. draws' \in [Manager -> Nat] /\ \A d \in Manager : draws'[d] >= draws[d]
  BY <1>1, <1>2 DEF PASETypeOK
<1>8. (\A d \in Commissioners \ {c} : CommissionerInv(d)') /\ CommissioneeInv'
  BY <1>1, <1>3, <1>7, OthersKept, Zenon
<1> QED
  BY <1>1, <1>4, <1>6, <1>8, Zenon DEF PASEInv, NetInv

-----------------------------------------------------------------------------
\* Every step of the handshake keeps the invariant.
LEMMA PASEStep ==
    ASSUME PASEInv, [PASENext]_paseVars
    PROVE  PASEInv'
<1>1. CASE \E c \in Commissioners, passcode \in Passcode : CommissionerStarts(c, passcode)
  BY <1>1, StartPASEInv, Zenon
<1>2. CASE \E c \in Commissioners : CommissionerStartsCASE(c)
  BY <1>2, StartCASEInv, Zenon
<1>3. CASE Receives
  <2>1. ASSUME NEW f \in net, NEW c \in Commissioners, CommissionerReceives(c, f)
        PROVE  PASEInv'
    <3>1. handlePBKDFParamResponse(c, f) \/ handlePake2(c, f)
      BY <2>1, Zenon DEF CommissionerReceives, CommissionerHandleMessage
    <3> QED
      BY <2>1, <3>1, ResponseInv, Pake2Inv, Zenon
  <2>2. ASSUME NEW f \in net, DeviceReceives(f) PROVE PASEInv'
    <3>1. handlePBKDFParamRequest(f) \/ handlePake1(f) \/ handlePake3(f)
      BY <2>2, Zenon DEF DeviceReceives, CommissioneeHandleMessage
    <3> QED
      BY ZenonT(60), <2>2, <3>1, RequestInv, Pake1Inv, Pake3Inv
  <2> QED
    BY <1>3, <2>1, <2>2, Zenon DEF Receives
<1>4. CASE \E f \in net : NetworkLoses(f)
  BY <1>4, LoseInv, Zenon
<1>5. CASE DeviceRestarts
  BY <1>5, RestartInv, Zenon
<1>6. CASE \E c \in Commissioners : CommissionerRestarts(c)
  BY <1>6, ControllerRestartInv, Zenon
<1>7. CASE UNCHANGED paseVars
  <2>1. UNCHANGED <<sessions, net, draws, faults, calls, commissioner, commissionee,
                    computed, confirmed>>
    BY <1>7, Zenon DEF paseVars
  <2>2. PASETypeOK
    BY Zenon DEF PASEInv
  <2>3. PASETypeOK'
    BY <2>1, <2>2, Zenon DEF PASETypeOK
  <2>4. draws' \in [Manager -> Nat] /\ \A d \in Manager : draws'[d] >= draws[d]
    BY <2>1, <2>2 DEF PASETypeOK
  <2>5. \A d \in Commissioners : CommissionerInv(d)'
    BY <2>1, <2>4, CommissionersKept, Zenon
  <2>6. CommissioneeInv'
    BY <2>1, CommissioneeFrame, Zenon DEF PASEInv
  <2> QED
    BY <2>1, <2>3, <2>5, <2>6, Zenon DEF PASEInv, NetInv
<1> QED
  BY <1>1, <1>2, <1>3, <1>4, <1>5, <1>6, <1>7, Zenon DEF PASENext

\* PASEInv holds in every reachable state of the handshake, for any number of
\* controllers, passcodes, calls, duplicates, losses and restarts.
THEOREM PASEInvariance == PASESpec => []PASEInv
<1>1. PASEInit => PASEInv
  BY InitPASEInv, Zenon
<1>2. PASEInv /\ [PASENext]_paseVars => PASEInv'
  BY PASEStep, Zenon
<1> QED
  BY <1>1, <1>2, PTL DEF PASESpec

\* Whoever sees StateComplete finds the session of that Ke in the manager
\* (decision D4 of the design of the session handoff).
THEOREM CompleteImpliesSession == PASESpec => []CompleteHasSession
<1>1. PASEInv => CompleteHasSession
  <2> SUFFICES ASSUME PASEInv PROVE CompleteHasSession
    BY Zenon
  <2>1. ASSUME NEW c \in Commissioners, commissioner[c].State = "Complete"
        PROVE  HoldsKeys(c, commissioner[c].SessionID, commissioner[c].Ke, "Initiator")
    BY ZenonT(60), <2>1 DEF PASEInv, CommissionerInv
  <2>2. ASSUME commissionee.State = "Complete"
        PROVE  HoldsKeys(Device, commissionee.SessionID, commissionee.Ke, "Responder")
    BY ZenonT(60), <2>2 DEF PASEInv, CommissioneeInv
  <2> QED
    BY <2>1, <2>2, Zenon DEF CompleteHasSession
<1> QED
  BY <1>1, PASEInvariance, PTL

\* A controller never gets a secret in handlePake2 that the device did not
\* compute.
THEOREM CommissionerKeOrigin == PASESpec => []CommissionerKeFromDevice
<1>1. PASEInv => CommissionerKeFromDevice
  BY Zenon DEF PASEInv, CommissionerInv, CommissionerKeFromDevice
<1> QED
  BY <1>1, PASEInvariance, PTL

\* The device never installs a secret in handlePake3 that not exactly one
\* controller has verified.
THEOREM DeviceKeOrigin == PASESpec => []DeviceKeConfirmed
<1>1. PASEInv => DeviceKeConfirmed
  <2> SUFFICES ASSUME PASEInv PROVE DeviceKeConfirmed
    BY Zenon
  <2>1. \A k \in confirmed : k[1] \in Commissioners
    BY Zenon DEF PASEInv, PASETypeOK
  <2>2. \A k \in confirmed : k[2][2].pA.scalar[1] = k[1]
    BY ZenonT(60), <2>1 DEF PASEInv, CommissionerInv
  <2>3. \A j, k \in confirmed : j[2] = k[2] => j[1] = k[1]
    BY <2>2
  <2> QED
    BY ZenonT(60), <2>3 DEF PASEInv, CommissioneeInv, DeviceKeConfirmed
<1> QED
  BY <1>1, PASEInvariance, PTL

\* A controller and the device that are both Complete over the same pA hold
\* the same Ke.  The device's Ke was confirmed by the controller whose scalar is
\* in pA, for that prover, and a prover confirms one secret only.
THEOREM KeyAgreement == PASESpec => []KeAgreement
<1>1. PASEInv => KeAgreement
  <2> SUFFICES ASSUME PASEInv, NEW c \in Commissioners,
                      commissioner[c].State = "Complete",
                      commissionee.State = "Complete",
                      commissionee.verifier.pA = commissioner[c].prover.pA
               PROVE  commissioner[c].Ke = commissionee.Ke
    BY Zenon DEF KeAgreement
  <2>0. CommissioneeInv /\ CommissionerInv(c)
    BY ZenonT(60) DEF PASEInv
  <2>1. /\ commissionee.Ke # Nil /\ commissionee.verifier # Nil
        /\ commissionee.Ke = commissionee.verifier.keys.ke
        /\ commissionee.Ke[2].pA = commissioner[c].prover.pA
    BY ZenonT(60), <2>0 DEF CommissioneeInv
  <2>2. PICK d \in Commissioners : <<d, commissionee.Ke>> \in confirmed
    BY ZenonT(60), <2>0, <2>1 DEF CommissioneeInv
  <2> DEFINE k == <<d, commissionee.Ke>>
  <2>3. k \in confirmed /\ k[1] = d /\ k[2] = commissionee.Ke
    BY ZenonT(60), <2>2
  <2> HIDE DEF k
  <2>4. /\ commissioner[c].prover # Nil /\ commissioner[c].Ke = commissioner[c].prover.keys.ke
        /\ commissioner[c].prover.pA.scalar[1] = c
    BY ZenonT(60), <2>0 DEF CommissionerInv
  <2>5. k[2][2].pA.scalar[1] = d
    BY ZenonT(60), <2>3 DEF PASEInv, CommissionerInv
  <2>6. d = c
    BY <2>1, <2>3, <2>4, <2>5, Zenon
  <2>7. k[2] = commissioner[c].prover.keys.ke
    BY ZenonT(60), <2>0, <2>1, <2>3, <2>4, <2>6 DEF CommissionerInv
  <2> QED
    BY <2>3, <2>4, <2>7, Zenon
<1> QED
  BY <1>1, PASEInvariance, PTL

-----------------------------------------------------------------------------
(* PASE implements the abstract key exchange.                              *)

heldKe == [p \in Commissioners \cup {Device} |->
              IF p = Device THEN commissionee.Ke ELSE commissioner[p].Ke]

\* A step that leaves every Ke and the confirmations alone offers secrets, or
\* does nothing at all.
LEMMA KeUnchanged ==
    ASSUME \A c \in Commissioners : commissioner'[c].Ke = commissioner[c].Ke,
           commissionee'.Ke = commissionee.Ke, confirmed' = confirmed,
           computed \subseteq computed'
    PROVE  Exchange!Offer
<1>1. heldKe' = heldKe
  BY Zenon DEF heldKe
<1> QED
  BY <1>1, Zenon DEF Exchange!Offer, heldKe

\* A record keeps its Ke when other fields of it are assigned.
LEMMA KeOfStarts ==
    ASSUME PASETypeOK, NEW c \in Commissioners,
           \/ \E passcode \in Passcode : CommissionerStarts(c, passcode)
           \/ CommissionerStartsCASE(c)
    PROVE  \A d \in Commissioners : commissioner'[d].Ke = commissioner[d].Ke
<1>1. commissioner[c] \in CommissionerType
  BY Zenon DEF PASETypeOK
<1>2. ASSUME NEW passcode \in Passcode, CommissionerStarts(c, passcode)
      PROVE  \A d \in Commissioners : commissioner'[d].Ke = commissioner[d].Ke
  <2> DEFINE cm == commissioner[c]
             sid == IF cm.SessionID = 0 THEN InitiatorID ELSE cm.SessionID
             req == [InitiatorRandom |-> Fresh(c), InitiatorSessionID |-> sid,
                     HasPBKDFParameters |-> FALSE]
  <2>1. PICK ctr \in bumpCounter(cm.MessageCounter) :
          commissioner' = [commissioner EXCEPT ![c] =
               [@ EXCEPT !.Passcode = passcode, !.Random = Fresh(c),
                         !.SessionID = sid, !.MessageCounter = ctr,
                         !.RequestPayload = req, !.State = "PBKDFParamResponse"]]
    BY ZenonT(60), <1>2 DEF CommissionerStarts, StartPASE
  <2> HIDE DEF sid, req
  <2> QED
    BY <1>1, <2>1, Zenon DEF PASETypeOK, CommissionerType
<1>3. ASSUME CommissionerStartsCASE(c)
      PROVE  \A d \in Commissioners : commissioner'[d].Ke = commissioner[d].Ke
  BY <1>1, <1>3, Zenon DEF CommissionerStartsCASE, StartCASE, PASETypeOK, CommissionerType
<1> QED
  BY <1>2, <1>3, Zenon

\* handlePBKDFParamResponse assigns no Ke.
LEMMA KeOfResponse ==
    ASSUME PASETypeOK, NEW c \in Commissioners, NEW f \in net,
           handlePBKDFParamResponse(c, f)
    PROVE  \A d \in Commissioners : commissioner'[d].Ke = commissioner[d].Ke
<1> DEFINE cm == commissioner[c]
           resp == f.Payload
           prover == NewSPAKE2PProver(Spake2pW0(cm.Passcode, resp.Params),
                                      Spake2pW1(cm.Passcode, resp.Params),
                                      paseContext(cm.RequestPayload, resp), Fresh(c))
<1>1. \/ \E ctr : commissioner' = [commissioner EXCEPT ![c] =
             [@ EXCEPT !.ResponsePayload = resp, !.prover = prover,
                       !.MessageCounter = ctr, !.State = "Pake2"]]
      \/ UNCHANGED commissioner
  BY ZenonT(60) DEF handlePBKDFParamResponse
<1> HIDE DEF resp, prover
<1>2. ASSUME NEW ctr,
             commissioner' = [commissioner EXCEPT ![c] =
                 [@ EXCEPT !.ResponsePayload = resp, !.prover = prover,
                           !.MessageCounter = ctr, !.State = "Pake2"]]
      PROVE  \A d \in Commissioners : commissioner'[d].Ke = commissioner[d].Ke
  BY <1>2, Zenon DEF PASETypeOK, CommissionerType
<1> QED
  BY <1>1, <1>2, ZenonT(60)

\* handlePake2 refuses and assigns no Ke, or takes the secret of a prover that
\* it has just finalized.
LEMMA KeOfPake2 ==
    ASSUME PASETypeOK, NEW c \in Commissioners, NEW f \in net, handlePake2(c, f)
    PROVE  \/ \A d \in Commissioners : commissioner'[d].Ke = commissioner[d].Ke
           \/ /\ commissioner[c].prover # Nil /\ commissioner[c].prover.keys = Nil
              /\ commissioner'[c].Ke =
                     ProverFinalize(commissioner[c].prover, f.Payload.pB).keys.ke
              /\ \A d \in Commissioners \ {c} : commissioner'[d].Ke = commissioner[d].Ke
<1> DEFINE cm == commissioner[c]
           prover == ProverFinalize(cm.prover, f.Payload.pB)
<1>1. \/ UNCHANGED commissioner
      \/ commissioner' = [commissioner EXCEPT ![c].prover = prover]
      \/ /\ Finalizable(cm.prover)
         /\ \E ctr : commissioner' = [commissioner EXCEPT ![c] =
                [@ EXCEPT !.prover = prover, !.Ke = prover.keys.ke,
                          !.MessageCounter = ctr, !.State = "Complete"]]
  BY ZenonT(60) DEF handlePake2
<1> HIDE DEF prover
<1>2. CASE UNCHANGED commissioner
  BY <1>2, Zenon
<1>3. CASE commissioner' = [commissioner EXCEPT ![c].prover = prover]
  BY <1>3, Zenon DEF PASETypeOK, CommissionerType
<1>4. ASSUME Finalizable(cm.prover), NEW ctr,
             commissioner' = [commissioner EXCEPT ![c] =
                [@ EXCEPT !.prover = prover, !.Ke = prover.keys.ke,
                          !.MessageCounter = ctr, !.State = "Complete"]]
      PROVE  /\ cm.prover # Nil /\ cm.prover.keys = Nil
             /\ commissioner'[c].Ke = prover.keys.ke
             /\ \A d \in Commissioners \ {c} : commissioner'[d].Ke = commissioner[d].Ke
  BY <1>4, ZenonT(60) DEF PASETypeOK, CommissionerType, Finalizable
<1> QED
  BY <1>1, <1>2, <1>3, <1>4, ZenonT(60) DEF prover

-----------------------------------------------------------------------------
\* The secret of a prover that was not finalized before is one that nobody has
\* confirmed: its pA has the scalar of that prover.
LEMMA Pake2Fresh ==
    ASSUME PASEInv, NEW c \in Commissioners, NEW pB, NEW k,
           commissioner[c].prover # Nil, commissioner[c].prover.keys = Nil,
           k = ProverFinalize(commissioner[c].prover, pB).keys.ke
    PROVE  \A t \in confirmed : t[2] # k
<1> DEFINE p == commissioner[c].prover
<1>1. k[2].pA = p.pA
  <2>1. p \in Prover
    BY ZenonT(60) DEF PASEInv, PASETypeOK, CommissionerType
  <2> QED
    BY <2>1, ZenonT(60) DEF ProverFinalize, spakeFinalize, Prover
<1> SUFFICES ASSUME NEW t \in confirmed, t[2] = k PROVE FALSE
  BY Zenon
<1>2. t[1] \in Commissioners /\ CommissionerInv(t[1]) /\ CommissionerInv(c)
  BY Zenon DEF PASEInv, PASETypeOK
<1>3. t[2][2].pA = p.pA
  BY <1>1, Zenon
<1>4. t[1] = c
  BY ZenonT(60), <1>2, <1>3 DEF CommissionerInv
<1> QED
  BY ZenonT(60), <1>2, <1>3, <1>4 DEF CommissionerInv

\* A secret that handlePake2 takes was computed by the device and taken by
\* nobody before.
LEMMA Pake2Takes ==
    ASSUME PASEInv, PASEInv', NEW c \in Commissioners, NEW f \in net,
           CommissionerReceives(c, f), handlePake2(c, f),
           commissioner'[c].Ke # commissioner[c].Ke
    PROVE  Exchange!ControllerTakes(c)
<1> DEFINE p == commissioner[c].prover
           k == commissioner'[c].Ke
<1>1. /\ p # Nil /\ p.keys = Nil
      /\ k = ProverFinalize(p, f.Payload.pB).keys.ke
      /\ \A d \in Commissioners \ {c} : commissioner'[d].Ke = commissioner[d].Ke
  BY KeOfPake2 DEF PASEInv
<1>2. confirmed' = confirmed \cup {<<c, k>>} /\ UNCHANGED <<commissionee, computed>>
  BY Zenon DEF CommissionerReceives
<1>3. k \in computed
  <2>1. <<c, k>> \in confirmed' /\ computed' = computed
    BY <1>2, Zenon
  <2>2. \A t \in confirmed' : t[2] \in computed'
    BY ZenonT(60) DEF PASEInv
  <2> HIDE DEF k
  <2> QED
    BY <2>1, <2>2, Zenon
<1>4. \A t \in confirmed : t[2] # k
  BY <1>1, Pake2Fresh, ZenonT(60)
<1> HIDE DEF p, k
<1>5. heldKe' = [heldKe EXCEPT ![c] = k]
  BY <1>1, <1>2, PartyAssumption, ZenonT(60) DEF heldKe, k
<1> QED
  BY <1>2, <1>3, <1>4, <1>5, ZenonT(60) DEF Exchange!ControllerTakes, heldKe

\* The device changes its Ke in handlePake3 alone, and then to a secret that a
\* controller has taken.
LEMMA DeviceStepOfExchange ==
    ASSUME PASEInv, PASEInv', NEW f \in net, DeviceReceives(f)
    PROVE  Exchange!Offer \/ Exchange!DeviceTakes
<1>1. UNCHANGED <<commissioner, confirmed>> /\ computed \subseteq computed'
  BY Zenon DEF DeviceReceives
<1>2. CASE commissionee'.Ke = commissionee.Ke
  BY <1>1, <1>2, KeUnchanged, Zenon
<1>3. CASE commissionee'.Ke # commissionee.Ke
  <2>0. commissionee \in CommissioneeType
    BY Zenon DEF PASEInv, PASETypeOK
  <2>1. handlePBKDFParamRequest(f) \/ handlePake1(f) \/ handlePake3(f)
    BY Zenon DEF DeviceReceives, CommissioneeHandleMessage
  <2>2. ~handlePBKDFParamRequest(f)
    <3> SUFFICES ASSUME handlePBKDFParamRequest(f) PROVE FALSE
      BY Zenon
    <3> DEFINE req == f.Payload
               sid == IF commissionee.SessionID = 0 THEN ResponderID
                      ELSE commissionee.SessionID
               resp == [InitiatorRandom |-> req.InitiatorRandom,
                        ResponderRandom |-> Fresh(Device),
                        ResponderSessionID |-> sid,
                        Params |-> IF req.HasPBKDFParameters THEN Nil ELSE Params]
    <3>1. PICK ctr : commissionee' = [commissionee EXCEPT
              !.SessionID = sid, !.MessageCounter = ctr, !.RequestPayload = req,
              !.ResponsePayload = resp, !.State = "Pake1"]
      BY ZenonT(60) DEF handlePBKDFParamRequest
    <3> HIDE DEF sid, req, resp
    <3> QED
      BY <1>3, <2>0, <3>1, Zenon DEF CommissioneeType
  <2>3. ~handlePake1(f)
    <3> SUFFICES ASSUME handlePake1(f) PROVE FALSE
      BY Zenon
    <3>1. PICK v, ctr : commissionee' = [commissionee EXCEPT
              !.verifier = v, !.MessageCounter = ctr, !.State = "Pake3"]
      BY ZenonT(60) DEF handlePake1
    <3> QED
      BY <1>3, <2>0, <3>1, Zenon DEF CommissioneeType
  <2>4. commissionee'.Ke # Nil /\ computed' = computed
    <3>1. handlePake3(f)
      BY <2>1, <2>2, <2>3, Zenon
    <3>2. /\ commissionee.verifier # Nil
          /\ commissionee' = [commissionee EXCEPT
                 !.Ke = commissionee.verifier.keys.ke, !.State = "Complete"]
      BY <1>3, <3>1, Zenon DEF handlePake3, VerifyConfirmationA
    <3>3. commissionee.verifier \in Verifier
      BY ZenonT(60), <2>0, <3>2 DEF CommissioneeType
    <3>4. commissionee.verifier.keys.ke \in Secret(DeviceContext)
      BY ZenonT(60), <3>3 DEF Verifier, Keys
    <3>5. /\ commissionee'.verifier = commissionee.verifier
          /\ commissionee'.Ke = commissionee.verifier.keys.ke
          /\ commissionee'.State = "Complete"
      BY <2>0, <3>2, Zenon DEF CommissioneeType
    <3>6. commissionee'.Ke # Nil
      BY ZenonT(60), <3>5 DEF PASEInv, CommissioneeInv
    <3> QED
      BY <3>5, <3>6, Zenon DEF DeviceReceives
  <2>5. PICK d \in Commissioners : <<d, commissionee'.Ke>> \in confirmed
    BY ZenonT(60), <1>1, <2>4 DEF PASEInv, CommissioneeInv
  <2>6. heldKe' = [heldKe EXCEPT ![Device] = commissionee'.Ke]
    BY <1>1, PartyAssumption, ZenonT(60) DEF heldKe
  <2> QED
    BY <1>1, <2>4, <2>5, <2>6, ZenonT(60) DEF Exchange!DeviceTakes, heldKe
<1> QED
  BY <1>2, <1>3, Zenon

\* Every behaviour of the handshake is one of the abstract key exchange.
THEOREM PASEImplementsExchange == PASESpec => KeepsExchange
<1>1. PASEInit => Exchange!Init
  BY DEF PASEInit, CommissionerInit, CommissioneeInit, NewCommissioner, NewCommissionee,
         Exchange!Init, Exchange!Party
<1>2. PASEInv /\ PASEInv' /\ [PASENext]_paseVars => [Exchange!Next]_(Exchange!vars)
  <2> SUFFICES ASSUME PASEInv, PASEInv', [PASENext]_paseVars
               PROVE  Exchange!Next \/ Exchange!Offer
    BY Zenon DEF Exchange!Next
  <2>0. PASETypeOK
    BY Zenon DEF PASEInv
  <2>1. CASE \E c \in Commissioners, passcode \in Passcode : CommissionerStarts(c, passcode)
    <3>1. UNCHANGED <<commissionee, computed, confirmed>>
      BY <2>1, Zenon DEF CommissionerStarts
    <3> QED
      BY <2>0, <2>1, <3>1, KeOfStarts, KeUnchanged, Zenon
  <2>2. CASE \E c \in Commissioners : CommissionerStartsCASE(c)
    <3>1. UNCHANGED <<commissionee, computed, confirmed>>
      BY <2>2, Zenon DEF CommissionerStartsCASE
    <3> QED
      BY <2>0, <2>2, <3>1, KeOfStarts, KeUnchanged, Zenon
  <2>3. ASSUME NEW f \in net, NEW c \in Commissioners, CommissionerReceives(c, f)
        PROVE  Exchange!Next
    <3>1. UNCHANGED <<commissionee, computed>>
      BY <2>3, Zenon DEF CommissionerReceives
    <3>2. CASE \A d \in Commissioners : commissioner'[d].Ke = commissioner[d].Ke
      <4>1. confirmed' = confirmed
        BY <2>3, <3>2, Zenon DEF CommissionerReceives
      <4> QED
        BY <3>1, <3>2, <4>1, KeUnchanged, Zenon DEF Exchange!Next
    <3>3. CASE ~\A d \in Commissioners : commissioner'[d].Ke = commissioner[d].Ke
      <4>1. handlePake2(c, f)
        BY <2>0, <2>3, <3>3, KeOfResponse, Zenon DEF CommissionerReceives, CommissionerHandleMessage
      <4>2. commissioner'[c].Ke # commissioner[c].Ke
        BY <2>0, <3>3, <4>1, KeOfPake2, Zenon
      <4> QED
        BY <2>3, <4>1, <4>2, Pake2Takes, Zenon DEF Exchange!Next
    <3> QED
      BY <3>2, <3>3, Zenon
  <2>4. ASSUME NEW f \in net, DeviceReceives(f)
        PROVE  Exchange!Next
    BY <2>4, DeviceStepOfExchange, Zenon DEF Exchange!Next
  <2>5. CASE \E f \in net : NetworkLoses(f)
    BY <2>5, KeUnchanged, Zenon DEF NetworkLoses
  <2>6. CASE DeviceRestarts
    <3>1. commissionee'.Ke = Nil /\ UNCHANGED <<commissioner, computed, confirmed>>
      BY <2>6, Zenon DEF DeviceRestarts, Restart, NewCommissionee
    <3>2. heldKe' = [heldKe EXCEPT ![Device] = Nil]
      BY <3>1, PartyAssumption, ZenonT(60) DEF heldKe
    <3>3. Exchange!Forget(Device)
      BY <3>1, <3>2, Zenon DEF Exchange!Forget, heldKe
    <3> QED
      BY <3>3, Zenon DEF Exchange!Next, Exchange!Party
  <2>7. ASSUME NEW c \in Commissioners, CommissionerRestarts(c)
        PROVE  Exchange!Next
    <3>1. /\ commissioner'[c].Ke = Nil /\ UNCHANGED <<commissionee, computed, confirmed>>
          /\ \A d \in Commissioners \ {c} : commissioner'[d] = commissioner[d]
      BY <2>0, <2>7 DEF CommissionerRestarts, CommissionerRestart, NewCommissioner, PASETypeOK
    <3>2. heldKe' = [heldKe EXCEPT ![c] = Nil]
      BY <3>1, PartyAssumption, ZenonT(60) DEF heldKe
    <3>3. Exchange!Forget(c)
      BY <3>1, <3>2, Zenon DEF Exchange!Forget, heldKe
    <3> QED
      BY <3>3, Zenon DEF Exchange!Next, Exchange!Party
  <2>8. CASE UNCHANGED paseVars
    BY <2>8, KeUnchanged, Zenon DEF paseVars
  <2> QED
    BY <2>1, <2>2, <2>3, <2>4, <2>5, <2>6, <2>7, <2>8, Zenon DEF PASENext, Receives
<1> QED
  BY <1>1, <1>2, PASEInvariance, PTL DEF PASESpec, Exchange!Spec, KeepsExchange
=============================================================================
