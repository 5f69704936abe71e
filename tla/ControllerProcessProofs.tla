---------------------- MODULE ControllerProcessProofs -----------------------
(***************************************************************************)
(* StartPASE, statement by statement, is as good as one step, for any      *)
(* number of controllers, attempts, faults and restarts.                   *)
(***************************************************************************)
EXTENDS ControllerProcess, TLAPS

-----------------------------------------------------------------------------
(* The inductive invariant *)

\* r has the fields of a Commissioner and no others.
Fields == {"State", "Passcode", "Random", "SessionID", "MessageCounter",
           "RequestPayload", "ResponsePayload", "Ke", "prover"}
Shape(r) == r = [x \in Fields |-> r[x]]

\* The session identifier StartPASE announces.
Announced(id) == IF id = 0 THEN InitiatorID ELSE id

\* fr is a request with this counter, random value and session identifier.
Asks(fr, ctr, fresh, sid) ==
    fr = Frame("PBKDFParamRequest", fr.from, Device, ctr,
               [InitiatorRandom |-> fresh, InitiatorSessionID |-> sid,
                HasPBKDFParameters |-> FALSE])

\* The Commissioner cm is b with the assignments of StartPASE before statement
\* i, of which fr is the frame and fresh the random value.
UnderWay(cm, b, i, fr, fresh) ==
    /\ IF i > 1 THEN cm.Passcode \in Passcode ELSE cm.Passcode = b.Passcode
    /\ cm.Random = IF i > 2 THEN fresh ELSE b.Random
    /\ cm.SessionID = IF i > 3 THEN Announced(b.SessionID) ELSE b.SessionID
    /\ IF i > 4
       THEN /\ cm.MessageCounter \in bumpCounter(b.MessageCounter)
            /\ Asks(fr, cm.MessageCounter, fresh, Announced(b.SessionID))
       ELSE cm.MessageCounter = b.MessageCounter
    /\ cm.RequestPayload = IF i > 5 THEN fr.Payload ELSE b.RequestPayload
    /\ cm.State = IF i > 6 THEN "PBKDFParamResponse" ELSE b.State
    /\ cm.ResponsePayload = b.ResponsePayload
    /\ cm.Ke = b.Ke
    /\ cm.prover = b.prover

\* No frame of c is in flight.
Quiet(c) == \A f \in net : f.from # c /\ f.to # c

\* The random value of every request and response in flight is used up.
NetUsed ==
    \A f \in net : f.Opcode \in {"PBKDFParamRequest", "PBKDFParamResponse"} =>
        LET random == f.Payload.InitiatorRandom
        IN  random \in Random /\ random[2] < draws[random[1]]

\* What StartPASE relies on: until its request has left, a Commissioner is the
\* one it found with the assignments so far, and a frame that reaches it either
\* does not exist or meets a program that has just started.
ProcessInv ==
    /\ at \in [Commissioners -> 1 .. 8]
    /\ draws \in [Manager -> Nat]
    /\ commissioner = [c \in Commissioners |-> commissioner[c]]
    /\ before = [c \in Commissioners |-> before[c]]
    /\ frame = [c \in Commissioners |-> frame[c]]
    /\ NetUsed
    /\ \A c \in Commissioners :
           /\ Shape(commissioner[c]) /\ Shape(before[c])
           /\ at[c] <= 7 =>
                  /\ UnderWay(commissioner[c], before[c], at[c], frame[c], Fresh(c))
                  /\ at[c] > 4 => frame[c].from = c
                  /\ before[c] = NewCommissioner \/ Quiet(c)

-----------------------------------------------------------------------------
(* Operators *)

\* The statements of StartPASE and where the request leaves.
LEMMA Positions ==
    /\ DOMAIN Statements = 1 .. 7
    /\ Statements[1] = "Passcode" /\ Statements[2] = "Random"
    /\ Statements[3] = "SessionID" /\ Statements[4] = "buildFrame"
    /\ Statements[5] = "RequestPayload" /\ Statements[6] = "State"
    /\ Statements[7] = "send"
    /\ Sending = 7
<1>1. /\ DOMAIN Statements = 1 .. 7
      /\ Statements[1] = "Passcode" /\ Statements[2] = "Random"
      /\ Statements[3] = "SessionID" /\ Statements[4] = "buildFrame"
      /\ Statements[5] = "RequestPayload" /\ Statements[6] = "State"
      /\ Statements[7] = "send"
  BY DEF Statements
<1>2. \A i \in DOMAIN Statements : Statements[i] = "send" <=> i = 7
  BY <1>1
<1>3. Sending = 7
  BY <1>1, <1>2 DEF Sending
<1> QED
  BY <1>1, <1>3, Zenon

\* A goroutine that reaches a statement is at its place, and goes on.
LEMMA ReachesAt ==
    ASSUME NEW c \in Commissioners, NEW i \in 1 .. 7, Reaches(c, Statements[i])
    PROVE  at[c] = i /\ at' = [at EXCEPT ![c] = at[c] + 1]
<1>1. at[c] \in 1 .. 7 /\ Statements[at[c]] = Statements[i]
  BY Positions, Zenon DEF Reaches
<1>2. \A k \in 1 .. 7 : Statements[k] = Statements[i] => k = i
  BY Positions
<1>3. at' = [at EXCEPT ![c] = at[c] + 1]
  BY Zenon DEF Reaches
<1> QED
  BY <1>1, <1>2, <1>3, Zenon

\* The operators of PASE that do not read the Commissioner are the same in the
\* abstract specification.
LEMMA SameOperators ==
    /\ \A p : Atomic!Fresh(p) = Fresh(p) /\ (Atomic!Draw(p) <=> Draw(p))
    /\ \A ctr : Atomic!bumpCounter(ctr) = bumpCounter(ctr)
    /\ Atomic!InitiatorID = InitiatorID
    /\ \A o, f, t, n, p : Atomic!Frame(o, f, t, n, p) = Frame(o, f, t, n, p)
    /\ \A k : Atomic!Fault(k) <=> Fault(k)
    /\ \A f, out : Atomic!Handle(f, out) <=> Handle(f, out)
    /\ Atomic!NewCommissioner = NewCommissioner
<1>1. \A p : Atomic!Fresh(p) = Fresh(p)
  BY Zenon DEF Atomic!Fresh, Fresh
<1>2. \A p : Atomic!Draw(p) <=> Draw(p)
  BY Zenon DEF Atomic!Draw, Draw
<1>3. \A ctr : Atomic!bumpCounter(ctr) = bumpCounter(ctr)
  BY Zenon DEF Atomic!bumpCounter, bumpCounter
<1>4. Atomic!InitiatorID = InitiatorID
  BY DEF Atomic!InitiatorID, InitiatorID
<1>5. \A o, f, t, n, p : Atomic!Frame(o, f, t, n, p) = Frame(o, f, t, n, p)
  BY Zenon DEF Atomic!Frame, Frame
<1>6. \A k : Atomic!Fault(k) <=> Fault(k)
  BY Zenon DEF Atomic!Fault, Fault
<1>7. \A f, out : Atomic!Handle(f, out) <=> Handle(f, out)
  BY <1>6, Zenon DEF Atomic!Handle, Handle
<1>8. Atomic!NewCommissioner = NewCommissioner
  BY Zenon DEF Atomic!NewCommissioner, NewCommissioner
<1> QED
  BY <1>1, <1>2, <1>3, <1>4, <1>5, <1>6, <1>7, <1>8, Zenon

\* So are those of SPAKE2+ and of the session manager.
LEMMA SameCrypto ==
    /\ \A p, q : Atomic!Spake2pW0(p, q) = Spake2pW0(p, q)
    /\ \A p, q : Atomic!Spake2pW1(p, q) = Spake2pW1(p, q)
    /\ \A p, q : Atomic!paseContext(p, q) = paseContext(p, q)
    /\ \A a, b, k, r : Atomic!NewSPAKE2PProver(a, b, k, r) = NewSPAKE2PProver(a, b, k, r)
    /\ \A p : Atomic!Finalizable(p) <=> Finalizable(p)
    /\ \A p, q : Atomic!ProverFinalize(p, q) = ProverFinalize(p, q)
    /\ \A p, q : Atomic!VerifyConfirmationB(p, q) <=> VerifyConfirmationB(p, q)
    /\ \A m, i, k, r : Atomic!installPASESession(m, i, k, r) <=> installPASESession(m, i, k, r)
<1>1. /\ \A p, q : Atomic!Spake2pW0(p, q) = Spake2pW0(p, q)
      /\ \A p, q : Atomic!Spake2pW1(p, q) = Spake2pW1(p, q)
      /\ \A p, q : Atomic!paseContext(p, q) = paseContext(p, q)
  BY Zenon DEF Atomic!Spake2pW0, Spake2pW0, Atomic!Spake2pW1, Spake2pW1,
     Atomic!paseContext, paseContext
<1>2. \A a, b, k, r : Atomic!NewSPAKE2PProver(a, b, k, r) = NewSPAKE2PProver(a, b, k, r)
  BY Zenon DEF Atomic!NewSPAKE2PProver, NewSPAKE2PProver, Atomic!Blind, Blind
<1>3. \A p : Atomic!Finalizable(p) <=> Finalizable(p)
  BY Zenon DEF Atomic!Finalizable, Finalizable
<1>4. \A p, q : Atomic!ProverFinalize(p, q) = ProverFinalize(p, q)
  BY ZenonT(60) DEF Atomic!Unblind, Unblind, Atomic!Times, Times,
     Atomic!spakeFinalize, spakeFinalize, Atomic!ProverFinalize, ProverFinalize
<1>5. \A p, q : Atomic!VerifyConfirmationB(p, q) <=> VerifyConfirmationB(p, q)
  BY Zenon DEF Atomic!VerifyConfirmationB, VerifyConfirmationB
<1>6. \A m, i, k, r : Atomic!installPASESession(m, i, k, r) <=> installPASESession(m, i, k, r)
  BY ZenonT(60) DEF Atomic!installPASESession, installPASESession,
     Atomic!InstallSecureSession, InstallSecureSession,
     Atomic!DeriveSessionKeysFromKe, DeriveSessionKeysFromKe,
     Atomic!NewSession, NewSession, Atomic!EmptyWindow, EmptyWindow
<1> QED
  BY <1>1, <1>2, <1>3, <1>4, <1>5, <1>6, Zenon

\* And the device.
LEMMA SameDevice ==
    ASSUME NEW f
    PROVE  Atomic!CommissioneeHandleMessage(f) <=> CommissioneeHandleMessage(f)
<1>1. Atomic!handlePBKDFParamRequest(f) <=> handlePBKDFParamRequest(f)
  <2> DEFINE sid == IF commissionee.SessionID = 0 THEN ResponderID ELSE commissionee.SessionID
             resp == [InitiatorRandom |-> f.Payload.InitiatorRandom,
                      ResponderRandom |-> Fresh(Device), ResponderSessionID |-> sid,
                      Params |-> IF f.Payload.HasPBKDFParameters THEN Nil ELSE Params]
  <2>1. handlePBKDFParamRequest(f) <=>
            /\ f.Opcode = "PBKDFParamRequest"
            /\ Draw(Device)
            /\ \E ctr \in bumpCounter(commissionee.MessageCounter) :
                  /\ commissionee' = [commissionee EXCEPT
                         !.SessionID = sid, !.MessageCounter = ctr,
                         !.RequestPayload = f.Payload, !.ResponsePayload = resp,
                         !.State = "Pake1"]
                  /\ Handle(f, {Frame("PBKDFParamResponse", Device, f.from, ctr, resp)})
            /\ UNCHANGED <<sessions, calls>>
    BY Zenon DEF handlePBKDFParamRequest
  <2>2. /\ Atomic!ResponderID = ResponderID
        /\ Atomic!Fresh(Device) = Fresh(Device)
    BY DEF Atomic!ResponderID, ResponderID, Atomic!Fresh, Fresh
  <2>3. Atomic!handlePBKDFParamRequest(f) <=>
            /\ f.Opcode = "PBKDFParamRequest"
            /\ Atomic!Draw(Device)
            /\ \E ctr \in Atomic!bumpCounter(commissionee.MessageCounter) :
                  /\ commissionee' = [commissionee EXCEPT
                         !.SessionID = sid, !.MessageCounter = ctr,
                         !.RequestPayload = f.Payload, !.ResponsePayload = resp,
                         !.State = "Pake1"]
                  /\ Atomic!Handle(f, {Atomic!Frame("PBKDFParamResponse", Device,
                                                    f.from, ctr, resp)})
            /\ UNCHANGED <<sessions, calls>>
    BY <2>2, Zenon DEF Atomic!handlePBKDFParamRequest
  <2> HIDE DEF resp, sid
  <2> QED
    BY <2>1, <2>3, Zenon DEF Atomic!Draw, Draw, Atomic!bumpCounter, bumpCounter,
       Atomic!Frame, Frame, Atomic!Fault, Fault, Atomic!Handle, Handle
<1>2. Atomic!handlePake1(f) <=> handlePake1(f)
  <2>1. \A w, l, k, a, y :
           Atomic!NewSPAKE2PVerifier(w, l, k, a, y) = NewSPAKE2PVerifier(w, l, k, a, y)
    BY DEF Atomic!NewSPAKE2PVerifier, NewSPAKE2PVerifier,
       Atomic!Blind, Blind, Atomic!Unblind, Unblind, Atomic!Times, Times,
       Atomic!spakeFinalize, spakeFinalize
  <2>2. Atomic!W0 = W0 /\ Atomic!L = L
    BY Zenon DEF Atomic!W0, W0, Atomic!L, L, Atomic!Spake2pW0, Spake2pW0,
       Atomic!Spake2pW1, Spake2pW1
  <2> DEFINE v == NewSPAKE2PVerifier(W0, L,
                      paseContext(commissionee.RequestPayload, commissionee.ResponsePayload),
                      f.Payload.pA, Fresh(Device))
  <2>3. Atomic!NewSPAKE2PVerifier(Atomic!W0, Atomic!L,
            Atomic!paseContext(commissionee.RequestPayload, commissionee.ResponsePayload),
            f.Payload.pA, Atomic!Fresh(Device)) = v
    BY <2>1, <2>2, SameOperators, SameCrypto, Zenon
  <2>4. handlePake1(f) <=>
            /\ f.Opcode = "Pake1"
            /\ Draw(Device)
            /\ \E ctr \in bumpCounter(commissionee.MessageCounter) :
                  /\ commissionee' = [commissionee EXCEPT
                         !.verifier = v, !.MessageCounter = ctr, !.State = "Pake3"]
                  /\ Handle(f, {Frame("Pake2", Device, f.from, ctr,
                                      [pB |-> v.pB, cB |-> v.keys.cB])})
            /\ UNCHANGED <<sessions, calls>>
    BY Zenon DEF handlePake1
  <2>5. Atomic!handlePake1(f) <=>
            /\ f.Opcode = "Pake1"
            /\ Atomic!Draw(Device)
            /\ \E ctr \in Atomic!bumpCounter(commissionee.MessageCounter) :
                  /\ commissionee' = [commissionee EXCEPT
                         !.verifier = v, !.MessageCounter = ctr, !.State = "Pake3"]
                  /\ Atomic!Handle(f, {Atomic!Frame("Pake2", Device, f.from, ctr,
                                      [pB |-> v.pB, cB |-> v.keys.cB])})
            /\ UNCHANGED <<sessions, calls>>
    BY <2>3, Zenon DEF Atomic!handlePake1
  <2> HIDE DEF v
  <2> QED
    BY <2>4, <2>5, Zenon DEF Atomic!Draw, Draw, Atomic!bumpCounter, bumpCounter,
       Atomic!Frame, Frame, Atomic!Fault, Fault, Atomic!Handle, Handle
<1>3. Atomic!handlePake3(f) <=> handlePake3(f)
  BY SameCrypto, Zenon DEF Atomic!handlePake3, handlePake3,
     Atomic!VerifyConfirmationA, VerifyConfirmationA, Atomic!Fault, Fault,
     Atomic!Handle, Handle
<1> QED
  BY <1>1, <1>2, <1>3, Zenon DEF Atomic!CommissioneeHandleMessage, CommissioneeHandleMessage

-----------------------------------------------------------------------------
(* Handlers *)

\* The Commissioner the abstract specification sees.
LEMMA WholeIs ==
    ASSUME NEW c \in Commissioners
    PROVE  /\ whole[c] = IF at[c] <= 7 THEN before[c] ELSE commissioner[c]
           /\ whole'[c] = IF at'[c] <= 7 THEN before'[c] ELSE commissioner'[c]
BY Positions, Zenon DEF whole

\* It changes where the Commissioner of a running program does.
LEMMA WholeFollows ==
    ASSUME ProcessInv, UNCHANGED <<at, before>>, NEW c \in Commissioners, at[c] > 7,
           NEW r, commissioner' = [commissioner EXCEPT ![c] = r]
    PROVE  whole' = [whole EXCEPT ![c] = r]
<1>1. \A d \in Commissioners : commissioner'[d] = IF d = c THEN r ELSE commissioner[d]
  BY Zenon DEF ProcessInv
<1>2. \A d \in Commissioners : whole'[d] = IF d = c THEN r ELSE whole[d]
  <2> SUFFICES ASSUME NEW d \in Commissioners
               PROVE  whole'[d] = IF d = c THEN r ELSE whole[d]
    BY Zenon
  <2>1. at[d] \in Int /\ at'[d] = at[d] /\ before'[d] = before[d]
    BY DEF ProcessInv
  <2> QED
    BY <1>1, <2>1, WholeIs
<1>3. whole = [d \in Commissioners |-> whole[d]] /\ whole' = [d \in Commissioners |-> whole'[d]]
  BY DEF whole
<1> QED
  BY <1>2, <1>3, Zenon

\* A step that leaves the Commissioners alone leaves it alone.
LEMMA WholeStays ==
    ASSUME UNCHANGED <<at, before, commissioner>>
    PROVE  whole' = whole
BY Zenon DEF whole

\* While StartPASE is under way a frame that reaches its Commissioner comes from
\* an earlier life of the program, and every handler refuses it: nothing can
\* tell the assignments made so far from none.
LEMMA Refused ==
    ASSUME ProcessInv, NEW c \in Commissioners, at[c] <= 7,
           NEW f \in net, f.to = c
    PROVE  /\ f.Opcode = "PBKDFParamResponse" =>
                  /\ f.Payload.InitiatorRandom # commissioner[c].Random
                  /\ f.Payload.InitiatorRandom # before[c].Random
           /\ commissioner[c].prover = Nil /\ before[c].prover = Nil
<1>1. /\ UnderWay(commissioner[c], before[c], at[c], frame[c], Fresh(c))
      /\ before[c] = NewCommissioner
  BY Zenon DEF ProcessInv, Quiet
<1>2. before[c].prover = Nil /\ before[c].Random = Nil
  BY <1>1 DEF NewCommissioner
<1>3. commissioner[c].prover = Nil /\ commissioner[c].Random \in {Nil, Fresh(c)}
  BY <1>1, <1>2, Zenon DEF UnderWay
<1>4. ASSUME f.Opcode = "PBKDFParamResponse"
      PROVE  f.Payload.InitiatorRandom \notin {Nil, Fresh(c)}
  <2> DEFINE random == f.Payload.InitiatorRandom
  <2>1. random \in Random /\ random[2] < draws[random[1]]
    BY <1>4, Zenon DEF ProcessInv, NetUsed
  <2>2. random # Nil
    BY <2>1, NilAssumption, Zenon
  <2>3. draws[c] \in Nat
    BY PartyAssumption, Zenon DEF ProcessInv
  <2>4. random # <<c, draws[c]>>
    BY <2>1, <2>3
  <2> QED
    BY <2>2, <2>4, Zenon DEF Fresh
<1> QED
  BY <1>2, <1>3, <1>4, Zenon

\* What a handler does to a Commissioner that is under way: nothing.
LEMMA RefusedStep ==
    ASSUME ProcessInv, NEW c \in Commissioners, at[c] <= 7,
           NEW f \in net, CommissionerReceives(c, f)
    PROVE  /\ f.Opcode \in {"PBKDFParamResponse", "Pake2"} /\ f.to = c /\ Handle(f, {})
           /\ UNCHANGED <<commissioner, draws, sessions, calls, confirmed,
                          commissionee, computed>>
<1>1. f.to = c /\ (handlePBKDFParamResponse(c, f) \/ handlePake2(c, f))
  BY Zenon DEF CommissionerReceives, CommissionerHandleMessage
<1>2. /\ f.Opcode = "PBKDFParamResponse" =>
             f.Payload.InitiatorRandom # commissioner[c].Random
      /\ ~Finalizable(commissioner[c].prover)
  BY <1>1, Refused, Zenon DEF Finalizable
<1>3. /\ f.Opcode \in {"PBKDFParamResponse", "Pake2"} /\ Handle(f, {})
      /\ UNCHANGED <<commissioner, draws, sessions, calls>>
  <2>1. CASE handlePBKDFParamResponse(c, f)
    BY <1>2, <2>1, Zenon DEF handlePBKDFParamResponse
  <2>2. CASE handlePake2(c, f)
    BY <1>2, <2>2, Zenon DEF handlePake2
  <2> QED
    BY <1>1, <2>1, <2>2, Zenon
<1>4. confirmed' = confirmed /\ UNCHANGED <<commissionee, computed>>
  BY <1>3, Zenon DEF CommissionerReceives
<1> QED
  BY <1>1, <1>3, <1>4, Zenon

\* To the abstract specification it is a refusal too.
LEMMA RefusedMaps ==
    ASSUME ProcessInv, NEW c \in Commissioners, at[c] <= 7,
           NEW f \in net, CommissionerReceives(c, f), UNCHANGED <<at, frame, before>>
    PROVE  Atomic!CommissionerReceives(c, f)
<1>1. /\ f.Opcode \in {"PBKDFParamResponse", "Pake2"} /\ f.to = c /\ Handle(f, {})
      /\ UNCHANGED <<commissioner, draws, sessions, calls, confirmed, commissionee, computed>>
  BY RefusedStep, Zenon
<1>2. whole' = whole /\ whole[c] = before[c]
  BY <1>1, WholeStays, WholeIs, Zenon
<1>3. /\ f.Opcode = "PBKDFParamResponse" =>
             f.Payload.InitiatorRandom # whole[c].Random
      /\ ~Atomic!Finalizable(whole[c].prover)
  BY <1>1, <1>2, Refused, SameCrypto, Zenon DEF Finalizable
<1>4. Atomic!Handle(f, {})
  BY <1>1, SameOperators, Zenon
<1>5. CASE f.Opcode = "PBKDFParamResponse"
  <2>1. Atomic!handlePBKDFParamResponse(c, f)
    BY <1>1, <1>2, <1>3, <1>4, <1>5, Zenon DEF Atomic!handlePBKDFParamResponse
  <2> QED
    BY <1>1, <1>2, <2>1, Zenon
       DEF Atomic!CommissionerReceives, Atomic!CommissionerHandleMessage
<1>6. CASE f.Opcode = "Pake2"
  <2>1. Atomic!handlePake2(c, f)
    BY <1>1, <1>2, <1>3, <1>4, <1>6, Zenon DEF Atomic!handlePake2
  <2> QED
    BY <1>1, <1>2, <2>1, Zenon
       DEF Atomic!CommissionerReceives, Atomic!CommissionerHandleMessage
<1> QED
  BY <1>1, <1>5, <1>6, Zenon

\* A handler of a program past StartPASE is the same step of the abstract one.
LEMMA HandledMaps ==
    ASSUME ProcessInv, NEW c \in Commissioners, at[c] > 7,
           NEW f \in net, CommissionerReceives(c, f), UNCHANGED <<at, frame, before>>
    PROVE  Atomic!CommissionerReceives(c, f)
<1> DEFINE cm == commissioner[c]
<1>1. /\ f.to = c /\ (handlePBKDFParamResponse(c, f) \/ handlePake2(c, f))
      /\ confirmed' = IF commissioner'[c].Ke = commissioner[c].Ke THEN confirmed
                      ELSE confirmed \cup {<<c, commissioner'[c].Ke>>}
      /\ UNCHANGED <<commissionee, computed>>
  BY Zenon DEF CommissionerReceives, CommissionerHandleMessage
<1>2. whole[c] = cm /\ whole'[c] = commissioner'[c]
  <2>1. at[c] \in Int /\ at'[c] = at[c]
    BY DEF ProcessInv
  <2> QED
    BY <2>1, WholeIs
<1>3. \A r : commissioner' = [commissioner EXCEPT ![c] = r] => whole' = [whole EXCEPT ![c] = r]
  BY WholeFollows, Zenon
<1>4. commissioner' = commissioner => whole' = whole
  BY WholeStays, Zenon
<1>5. CASE handlePBKDFParamResponse(c, f)
  <2> DEFINE resp == f.Payload
             prover == NewSPAKE2PProver(Spake2pW0(cm.Passcode, resp.Params),
                                        Spake2pW1(cm.Passcode, resp.Params),
                                        paseContext(cm.RequestPayload, resp), Fresh(c))
  <2>1. Atomic!NewSPAKE2PProver(Atomic!Spake2pW0(whole[c].Passcode, resp.Params),
                                Atomic!Spake2pW1(whole[c].Passcode, resp.Params),
                                Atomic!paseContext(whole[c].RequestPayload, resp),
                                Atomic!Fresh(c)) = prover
    BY <1>2, SameOperators, SameCrypto, Zenon
  <2>2. /\ f.Opcode = "PBKDFParamResponse"
        /\ \/ /\ resp.InitiatorRandom = cm.Random
              /\ resp.Params # Nil
              /\ Draw(c)
              /\ \E ctr \in bumpCounter(cm.MessageCounter) :
                  /\ commissioner' = [commissioner EXCEPT ![c] =
                         [cm EXCEPT !.ResponsePayload = resp, !.prover = prover,
                                    !.MessageCounter = ctr, !.State = "Pake2"]]
                  /\ Handle(f, {Frame("Pake1", c, Device, ctr, [pA |-> prover.pA])})
           \/ /\ ~(resp.InitiatorRandom = cm.Random /\ resp.Params # Nil)
              /\ Handle(f, {})
              /\ UNCHANGED <<commissioner, draws>>
        /\ UNCHANGED <<sessions, calls>>
    BY <1>5, Zenon DEF handlePBKDFParamResponse
  <2>3. Atomic!handlePBKDFParamResponse(c, f) <=>
        /\ f.Opcode = "PBKDFParamResponse"
        /\ \/ /\ resp.InitiatorRandom = cm.Random
              /\ resp.Params # Nil
              /\ Atomic!Draw(c)
              /\ \E ctr \in Atomic!bumpCounter(cm.MessageCounter) :
                  /\ whole' = [whole EXCEPT ![c] =
                         [cm EXCEPT !.ResponsePayload = resp, !.prover = prover,
                                    !.MessageCounter = ctr, !.State = "Pake2"]]
                  /\ Atomic!Handle(f, {Atomic!Frame("Pake1", c, Device, ctr,
                                                    [pA |-> prover.pA])})
           \/ /\ ~(resp.InitiatorRandom = cm.Random /\ resp.Params # Nil)
              /\ Atomic!Handle(f, {})
              /\ UNCHANGED <<whole, draws>>
        /\ UNCHANGED <<sessions, calls>>
    BY <1>2, <2>1, Zenon DEF Atomic!handlePBKDFParamResponse
  <2> HIDE DEF prover
  <2>4. Atomic!handlePBKDFParamResponse(c, f)
    BY <1>3, <1>4, <2>2, <2>3, SameOperators, Zenon
  <2> QED
    BY <1>1, <1>2, <2>4, Zenon
       DEF Atomic!CommissionerReceives, Atomic!CommissionerHandleMessage
<1>6. CASE handlePake2(c, f)
  <2> DEFINE prover == ProverFinalize(cm.prover, f.Payload.pB)
  <2>1. Atomic!ProverFinalize(whole[c].prover, f.Payload.pB) = prover
    BY <1>2, SameCrypto, Zenon
  <2>2. /\ f.Opcode = "Pake2"
        /\ \/ /\ ~Finalizable(cm.prover)
              /\ Handle(f, {})
              /\ UNCHANGED <<sessions, commissioner>>
           \/ /\ Finalizable(cm.prover)
              /\ ~VerifyConfirmationB(prover, f.Payload.cB)
              /\ commissioner' = [commissioner EXCEPT ![c] = [cm EXCEPT !.prover = prover]]
              /\ Handle(f, {})
              /\ UNCHANGED sessions
           \/ /\ Finalizable(cm.prover)
              /\ VerifyConfirmationB(prover, f.Payload.cB)
              /\ installPASESession(c, cm.SessionID, prover.keys.ke, "Initiator")
              /\ \E ctr \in bumpCounter(cm.MessageCounter) :
                  /\ commissioner' = [commissioner EXCEPT ![c] =
                         [cm EXCEPT !.prover = prover, !.Ke = prover.keys.ke,
                                    !.MessageCounter = ctr, !.State = "Complete"]]
                  /\ Handle(f, {Frame("Pake3", c, Device, ctr,
                                             [cA |-> prover.keys.cA])})
        /\ UNCHANGED <<draws, calls>>
    BY <1>6, Zenon DEF handlePake2
  <2>3. Atomic!handlePake2(c, f) <=>
        /\ f.Opcode = "Pake2"
        /\ \/ /\ ~Atomic!Finalizable(cm.prover)
              /\ Atomic!Handle(f, {})
              /\ UNCHANGED <<sessions, whole>>
           \/ /\ Atomic!Finalizable(cm.prover)
              /\ ~Atomic!VerifyConfirmationB(prover, f.Payload.cB)
              /\ whole' = [whole EXCEPT ![c] = [cm EXCEPT !.prover = prover]]
              /\ Atomic!Handle(f, {})
              /\ UNCHANGED sessions
           \/ /\ Atomic!Finalizable(cm.prover)
              /\ Atomic!VerifyConfirmationB(prover, f.Payload.cB)
              /\ Atomic!installPASESession(c, cm.SessionID, prover.keys.ke, "Initiator")
              /\ \E ctr \in Atomic!bumpCounter(cm.MessageCounter) :
                  /\ whole' = [whole EXCEPT ![c] =
                         [cm EXCEPT !.prover = prover, !.Ke = prover.keys.ke,
                                    !.MessageCounter = ctr, !.State = "Complete"]]
                  /\ Atomic!Handle(f, {Atomic!Frame("Pake3", c, Device, ctr,
                                             [cA |-> prover.keys.cA])})
        /\ UNCHANGED <<draws, calls>>
    BY <1>2, <2>1, Zenon DEF Atomic!handlePake2
  <2> HIDE DEF prover
  <2>4. Atomic!handlePake2(c, f)
    BY <1>3, <1>4, <2>2, <2>3, SameOperators, SameCrypto, Zenon
  <2> QED
    BY <1>1, <1>2, <2>4, Zenon
       DEF Atomic!CommissionerReceives, Atomic!CommissionerHandleMessage
<1> QED
  BY <1>1, <1>5, <1>6, Zenon

-----------------------------------------------------------------------------
(* The invariant *)

\* Assigning fields of a Commissioner keeps its shape.
LEMMA ShapeKept ==
    ASSUME NEW r, Shape(r), NEW a, NEW b, NEW d, NEW e
    PROVE  /\ Shape([r EXCEPT !.ResponsePayload = a, !.prover = b,
                              !.MessageCounter = d, !.State = e])
           /\ Shape([r EXCEPT !.prover = a])
           /\ Shape([r EXCEPT !.prover = a, !.Ke = b, !.MessageCounter = d, !.State = e])
<1>1. Shape([r EXCEPT !.ResponsePayload = a, !.prover = b, !.MessageCounter = d, !.State = e])
  BY Zenon DEF Shape, Fields
<1>2. Shape([r EXCEPT !.prover = a])
  BY Zenon DEF Shape, Fields
<1>3. Shape([r EXCEPT !.prover = a, !.Ke = b, !.MessageCounter = d, !.State = e])
  BY Zenon DEF Shape, Fields
<1> QED
  BY <1>1, <1>2, <1>3, Zenon

\* The same for the assignments of StartPASE.
LEMMA ShapeAssigned ==
    ASSUME NEW r, Shape(r), NEW a
    PROVE  /\ Shape([r EXCEPT !.Passcode = a]) /\ Shape([r EXCEPT !.Random = a])
           /\ Shape([r EXCEPT !.SessionID = a]) /\ Shape([r EXCEPT !.MessageCounter = a])
           /\ Shape([r EXCEPT !.RequestPayload = a]) /\ Shape([r EXCEPT !.State = a])
<1>1. Shape([r EXCEPT !.Passcode = a]) /\ Shape([r EXCEPT !.Random = a])
  BY Zenon DEF Shape, Fields
<1>2. Shape([r EXCEPT !.SessionID = a]) /\ Shape([r EXCEPT !.MessageCounter = a])
  BY Zenon DEF Shape, Fields
<1>3. Shape([r EXCEPT !.RequestPayload = a]) /\ Shape([r EXCEPT !.State = a])
  BY Zenon DEF Shape, Fields
<1> QED
  BY <1>1, <1>2, <1>3, Zenon

\* A step of the network, the device or a receive goroutine: it may send frames
\* out of parties past StartPASE or with frames in flight, and it changes no
\* Commissioner that is under way.
LEMMA InvFrame ==
    ASSUME ProcessInv, UNCHANGED <<at, frame, before>>,
           NEW out, net' \subseteq net \cup out,
           draws' \in [Manager -> Nat], \A m \in Manager : draws[m] <= draws'[m],
           commissioner' = [c \in Commissioners |-> commissioner'[c]],
           \A c \in Commissioners : Shape(commissioner'[c]),
           \A c \in Commissioners : at[c] <= 7 =>
               commissioner'[c] = commissioner[c] /\ draws'[c] = draws[c],
           \A f \in out : f.Opcode \in {"PBKDFParamRequest", "PBKDFParamResponse"} =>
               LET random == f.Payload.InitiatorRandom
               IN  random \in Random /\ random[2] < draws'[random[1]],
           \A f \in out, c \in Commissioners :
               f.from = c \/ f.to = c => at[c] > 7 \/ ~Quiet(c)
    PROVE  ProcessInv'
<1>1. NetUsed'
  <2> SUFFICES ASSUME NEW f \in net',
                      f.Opcode \in {"PBKDFParamRequest", "PBKDFParamResponse"}
               PROVE  /\ f.Payload.InitiatorRandom \in Random
                      /\ f.Payload.InitiatorRandom[2] < draws'[f.Payload.InitiatorRandom[1]]
    BY Zenon DEF NetUsed
  <2> DEFINE random == f.Payload.InitiatorRandom
  <2>1. CASE f \in net
    <3>1. random \in Random /\ random[2] < draws[random[1]]
      BY <2>1, Zenon DEF ProcessInv, NetUsed
    <3> HIDE DEF random
    <3>2. random[1] \in Manager /\ random[2] \in Nat
      BY <3>1, Zenon DEF Random
    <3>3. /\ draws[random[1]] \in Nat /\ draws'[random[1]] \in Nat
          /\ draws[random[1]] <= draws'[random[1]]
      BY <3>2, Zenon DEF ProcessInv
    <3>4. random[2] < draws'[random[1]]
      BY <3>1, <3>2, <3>3
    <3> QED
      BY <3>1, <3>4, Zenon DEF random
  <2>2. CASE f \in out
    BY <2>2, Zenon
  <2> QED
    BY <2>1, <2>2, Zenon
<1>2. ASSUME NEW c \in Commissioners, at[c] <= 7
      PROVE  /\ UnderWay(commissioner'[c], before[c], at[c], frame[c], Fresh(c)')
             /\ at[c] > 4 => frame[c].from = c
             /\ before[c] = NewCommissioner \/ Quiet(c)'
  <2>1. /\ UnderWay(commissioner[c], before[c], at[c], frame[c], Fresh(c))
        /\ at[c] > 4 => frame[c].from = c
        /\ before[c] = NewCommissioner \/ Quiet(c)
    BY <1>2, Zenon DEF ProcessInv
  <2>2. commissioner'[c] = commissioner[c] /\ Fresh(c)' = Fresh(c)
    BY <1>2, Zenon DEF Fresh
  <2>3. Quiet(c) => Quiet(c)'
    <3> SUFFICES ASSUME Quiet(c), NEW f \in net'
                 PROVE  f.from # c /\ f.to # c
      BY Zenon DEF Quiet
    <3>1. at[c] \in Int
      BY DEF ProcessInv
    <3>2. CASE f \in net
      BY <3>2, Zenon DEF Quiet
    <3>3. CASE f \in out
      BY <1>2, <3>1, <3>3
    <3> QED
      BY <3>2, <3>3, Zenon
  <2> QED
    BY <2>1, <2>2, <2>3, Zenon
<1> QED
  BY <1>1, <1>2, Zenon DEF ProcessInv

\* Every handler of the receive goroutine keeps the invariant.
LEMMA HandlerInv ==
    ASSUME ProcessInv, NEW c \in Commissioners, NEW f \in net,
           CommissionerReceives(c, f), UNCHANGED <<at, frame, before>>
    PROVE  ProcessInv'
<1>1. f.to = c /\ (handlePBKDFParamResponse(c, f) \/ handlePake2(c, f))
  BY Zenon DEF CommissionerReceives, CommissionerHandleMessage
<1>2. c \in Manager /\ draws \in [Manager -> Nat]
  BY PartyAssumption, Zenon DEF ProcessInv
<1>3. CASE at[c] <= 7
  <2>1. Handle(f, {}) /\ UNCHANGED <<commissioner, draws>>
    BY <1>3, RefusedStep, Zenon
  <2>2. net' \subseteq net \cup {}
    BY <2>1, Zenon DEF Handle
  <2>3. \A m \in Manager : draws[m] <= draws'[m]
    BY <1>2, <2>1
  <2>4. commissioner' = [d \in Commissioners |-> commissioner'[d]]
    BY <2>1, Zenon DEF ProcessInv
  <2>5. \A d \in Commissioners : Shape(commissioner'[d])
    BY <2>1, Zenon DEF ProcessInv
  <2> QED
    BY <1>2, <2>1, <2>2, <2>3, <2>4, <2>5, InvFrame
<1>4. CASE at[c] > 7
  <2> DEFINE out == net' \ net
  <2>1. /\ net' \subseteq net \cup out
        /\ \A g \in out : g.Opcode \in {"Pake1", "Pake3"} /\ g.from = c /\ g.to = Device
    <3>1. \A o : Handle(f, o) => \A g \in out : g \in o
      BY Zenon DEF Handle
    <3>2. \/ Handle(f, {})
          \/ \E ctr, p : Handle(f, {Frame("Pake1", c, Device, ctr, p)})
          \/ \E ctr, p : Handle(f, {Frame("Pake3", c, Device, ctr, p)})
      BY <1>1, ZenonT(60) DEF handlePBKDFParamResponse, handlePake2
    <3>3. ASSUME NEW g \in out
          PROVE  g.Opcode \in {"Pake1", "Pake3"} /\ g.from = c /\ g.to = Device
      <4> HIDE DEF out
      <4>1. \/ \E ctr, p : g = Frame("Pake1", c, Device, ctr, p)
            \/ \E ctr, p : g = Frame("Pake3", c, Device, ctr, p)
        <5>1. ASSUME NEW o, Handle(f, {o}) PROVE g = o
          <6>1. g \in {o}
            BY <3>1, <5>1, Zenon
          <6> QED
            BY <6>1, Zenon
        <5>2. ASSUME Handle(f, {}) PROVE FALSE
          <6>1. g \in {}
            BY <3>1, <5>2, Zenon
          <6> QED
            BY <6>1, Zenon
        <5> QED
          BY <3>2, <5>1, <5>2, Zenon
      <4> QED
        BY <4>1 DEF Frame
    <3> QED
      BY <3>3, Zenon
  <2>2. draws' = draws \/ draws' = [draws EXCEPT ![c] = @ + 1]
    BY <1>1, Zenon DEF handlePBKDFParamResponse, handlePake2, Draw
  <2>3. /\ draws' \in [Manager -> Nat]
        /\ \A m \in Manager : draws[m] <= draws'[m] /\ (m # c => draws'[m] = draws[m])
    BY <1>2, <2>2
  <2>4. \/ commissioner' = commissioner
        \/ \E r : Shape(r) /\ commissioner' = [commissioner EXCEPT ![c] = r]
    <3>1. Shape(commissioner[c])
      BY Zenon DEF ProcessInv
    <3>2. CASE handlePBKDFParamResponse(c, f)
      <4> DEFINE cm == commissioner[c]
                 prover == NewSPAKE2PProver(Spake2pW0(cm.Passcode, f.Payload.Params),
                                            Spake2pW1(cm.Passcode, f.Payload.Params),
                                            paseContext(cm.RequestPayload, f.Payload), Fresh(c))
                 after(ctr) == [cm EXCEPT !.ResponsePayload = f.Payload, !.prover = prover,
                                          !.MessageCounter = ctr, !.State = "Pake2"]
      <4>1. \/ commissioner' = commissioner
            \/ \E ctr : commissioner' = [commissioner EXCEPT ![c] = after(ctr)]
        BY <3>2, Zenon DEF handlePBKDFParamResponse
      <4>2. \A ctr : Shape(after(ctr))
        <5> HIDE DEF prover
        <5> QED
          BY <3>1, ShapeKept, Zenon
      <4> HIDE DEF after
      <4> QED
        BY <4>1, <4>2, Zenon
    <3>3. CASE handlePake2(c, f)
      BY <3>1, <3>3, ShapeKept, Zenon DEF handlePake2
    <3> QED
      BY <1>1, <3>2, <3>3, Zenon
  <2>5. /\ commissioner' = [d \in Commissioners |-> commissioner'[d]]
        /\ \A d \in Commissioners : /\ Shape(commissioner'[d])
                                    /\ d # c => commissioner'[d] = commissioner[d]
    <3>1. /\ commissioner = [d \in Commissioners |-> commissioner[d]]
          /\ \A d \in Commissioners : Shape(commissioner[d])
      BY Zenon DEF ProcessInv
    <3> QED
      BY <2>4, <3>1, Zenon
  <2>6. \A d \in Commissioners : at[d] <= 7 =>
            commissioner'[d] = commissioner[d] /\ draws'[d] = draws[d]
    <3>1. \A d \in Commissioners : d \in Manager /\ at[d] \in Int
      BY PartyAssumption DEF ProcessInv
    <3> QED
      BY <1>4, <2>3, <2>5, <3>1
  <2>7. \A g \in out, d \in Commissioners : g.from = d \/ g.to = d => at[d] > 7 \/ ~Quiet(d)
    BY <1>4, <2>1, PartyAssumption, Zenon
  <2>8. \A g \in out : g.Opcode \notin {"PBKDFParamRequest", "PBKDFParamResponse"}
    BY <2>1, Zenon
  <2> HIDE DEF out
  <2> QED
    BY <2>1, <2>3, <2>5, <2>6, <2>7, <2>8, InvFrame, Zenon
<1> QED
  <2>1. at[c] \in Int
    BY DEF ProcessInv
  <2> QED
    BY <1>3, <1>4, <2>1

\* What the device sends: an answer to the sender of f, and with a response the
\* random value of the request.
LEMMA DeviceSends ==
    ASSUME NEW f \in net, CommissioneeHandleMessage(f), NEW g \in net' \ net
    PROVE  /\ g.from = Device /\ g.to = f.from
           /\ g.Opcode \in {"PBKDFParamRequest", "PBKDFParamResponse"} =>
                  /\ f.Opcode = "PBKDFParamRequest"
                  /\ g.Payload.InitiatorRandom = f.Payload.InitiatorRandom
<1>1. ASSUME NEW o, Handle(f, {o}) PROVE g = o
  BY <1>1 DEF Handle
<1>2. ~Handle(f, {})
  BY Zenon DEF Handle
<1>3. CASE handlePBKDFParamRequest(f)
  <2>1. /\ f.Opcode = "PBKDFParamRequest"
        /\ \E ctr, p : /\ p.InitiatorRandom = f.Payload.InitiatorRandom
                       /\ Handle(f, {Frame("PBKDFParamResponse", Device, f.from, ctr, p)})
    <3> DEFINE sid == IF commissionee.SessionID = 0 THEN ResponderID ELSE commissionee.SessionID
               resp == [InitiatorRandom |-> f.Payload.InitiatorRandom,
                        ResponderRandom |-> Fresh(Device), ResponderSessionID |-> sid,
                        Params |-> IF f.Payload.HasPBKDFParameters THEN Nil ELSE Params]
    <3>1. /\ f.Opcode = "PBKDFParamRequest"
          /\ \E ctr : Handle(f, {Frame("PBKDFParamResponse", Device, f.from, ctr, resp)})
      BY <1>3, Zenon DEF handlePBKDFParamRequest
    <3>2. resp.InitiatorRandom = f.Payload.InitiatorRandom
      BY Zenon
    <3> HIDE DEF resp
    <3> QED
      BY <3>1, <3>2, Zenon
  <2>2. PICK ctr, p : /\ p.InitiatorRandom = f.Payload.InitiatorRandom
                      /\ Handle(f, {Frame("PBKDFParamResponse", Device, f.from, ctr, p)})
    BY <2>1, Zenon
  <2>3. g = Frame("PBKDFParamResponse", Device, f.from, ctr, p)
    BY <1>1, <2>2, Zenon
  <2> QED
    BY <2>1, <2>2, <2>3, Zenon DEF Frame
<1>4. CASE handlePake1(f)
  <2>1. \E ctr, p : Handle(f, {Frame("Pake2", Device, f.from, ctr, p)})
    BY <1>4, Zenon DEF handlePake1
  <2>2. PICK ctr, p : Handle(f, {Frame("Pake2", Device, f.from, ctr, p)})
    BY <2>1, Zenon
  <2>3. g = Frame("Pake2", Device, f.from, ctr, p)
    BY <1>1, <2>2, Zenon
  <2> QED
    BY <2>3, Zenon DEF Frame
<1>5. CASE handlePake3(f)
  BY <1>2, <1>5, Zenon DEF handlePake3
<1> QED
  BY <1>3, <1>4, <1>5, Zenon DEF CommissioneeHandleMessage

\* Every handler of the device keeps the invariant.
LEMMA DeviceInv ==
    ASSUME ProcessInv, NEW f \in net, DeviceReceives(f), UNCHANGED <<at, frame, before>>
    PROVE  ProcessInv'
<1> DEFINE out == net' \ net
<1>1. CommissioneeHandleMessage(f) /\ UNCHANGED commissioner
  BY Zenon DEF DeviceReceives
<1>2. /\ Device \in Manager /\ draws \in [Manager -> Nat]
      /\ \A c \in Commissioners : c # Device /\ c \in Manager
  BY PartyAssumption, Zenon DEF ProcessInv
<1>3. draws' = draws \/ draws' = [draws EXCEPT ![Device] = @ + 1]
  BY <1>1, Zenon DEF CommissioneeHandleMessage, handlePBKDFParamRequest, handlePake1,
     handlePake3, Draw
<1>4. /\ draws' \in [Manager -> Nat] /\ \A m \in Manager : draws[m] <= draws'[m]
      /\ \A c \in Commissioners : draws'[c] = draws[c]
  BY <1>2, <1>3
<1>5. /\ commissioner' = [c \in Commissioners |-> commissioner'[c]]
      /\ \A c \in Commissioners : Shape(commissioner'[c]) /\ commissioner'[c] = commissioner[c]
  BY <1>1, Zenon DEF ProcessInv
<1>6. net' \subseteq net \cup out
  BY Zenon
<1>7. ASSUME NEW g \in out, g.Opcode \in {"PBKDFParamRequest", "PBKDFParamResponse"}
      PROVE  /\ g.Payload.InitiatorRandom \in Random
             /\ g.Payload.InitiatorRandom[2] < draws'[g.Payload.InitiatorRandom[1]]
  <2> DEFINE random == f.Payload.InitiatorRandom
  <2>1. g.Payload.InitiatorRandom = random /\ f.Opcode = "PBKDFParamRequest"
    BY <1>1, <1>7, DeviceSends, Zenon
  <2>2. random \in Random /\ random[2] < draws[random[1]]
    BY <2>1, Zenon DEF ProcessInv, NetUsed
  <2> HIDE DEF random
  <2>3. random[1] \in Manager /\ random[2] \in Nat
    BY <2>2, Zenon DEF Random
  <2>4. /\ draws[random[1]] \in Nat /\ draws'[random[1]] \in Nat
        /\ draws[random[1]] <= draws'[random[1]]
    BY <1>2, <1>4, <2>3, Zenon
  <2>5. random[2] < draws'[random[1]]
    BY <2>2, <2>3, <2>4
  <2> QED
    BY <2>1, <2>2, <2>5, Zenon
<1>8. \A g \in out, c \in Commissioners : g.from = c \/ g.to = c => at[c] > 7 \/ ~Quiet(c)
  <2> SUFFICES ASSUME NEW g \in out, NEW c \in Commissioners, g.from = c \/ g.to = c
               PROVE  ~Quiet(c)
    BY Zenon
  <2>1. g.from = Device /\ g.to = f.from
    BY <1>1, DeviceSends, Zenon
  <2> QED
    BY <1>2, <2>1, Zenon DEF Quiet
<1> HIDE DEF out
<1> QED
  BY <1>4, <1>5, <1>6, <1>7, <1>8, InvFrame, Zenon

\* So do a loss and a restart of the device.
LEMMA FaultInv ==
    ASSUME ProcessInv, (\E f \in net : NetworkLoses(f)) \/ DeviceRestarts,
           UNCHANGED <<at, frame, before>>
    PROVE  ProcessInv'
<1> DEFINE out == {}
<1>1. net' \subseteq net \cup out /\ UNCHANGED <<draws, commissioner>>
  BY Zenon DEF NetworkLoses, Lose, DeviceRestarts, Restart
<1>2. draws' \in [Manager -> Nat] /\ \A m \in Manager : draws[m] <= draws'[m]
  <2>1. draws \in [Manager -> Nat]
    BY Zenon DEF ProcessInv
  <2> QED
    BY <1>1, <2>1
<1>3. /\ commissioner' = [c \in Commissioners |-> commissioner'[c]]
      /\ \A c \in Commissioners : Shape(commissioner'[c])
  BY <1>1, Zenon DEF ProcessInv
<1>4. \A c \in Commissioners : commissioner'[c] = commissioner[c] /\ draws'[c] = draws[c]
  BY <1>1, Zenon
<1>5. /\ \A f \in out : f.Opcode \notin {"PBKDFParamRequest", "PBKDFParamResponse"}
      /\ \A f \in out, c \in Commissioners : ~(f.from = c \/ f.to = c)
  BY Zenon
<1> HIDE DEF out
<1> QED
  BY <1>1, <1>2, <1>3, <1>4, <1>5, InvFrame, Zenon

-----------------------------------------------------------------------------
(* StartPASE *)

\* The Commissioner of a new program.
LEMMA ShapeNew == Shape(NewCommissioner)
BY Zenon DEF Shape, Fields, NewCommissioner

\* Replacing one entry of a function.
LEMMA Replaced ==
    ASSUME NEW f, f = [d \in Commissioners |-> f[d]], NEW c \in Commissioners, NEW v,
           NEW g, g = [f EXCEPT ![c] = v]
    PROVE  /\ g = [d \in Commissioners |-> g[d]]
           /\ g[c] = v
           /\ \A d \in Commissioners \ {c} : g[d] = f[d]
BY Zenon

\* An assignment of StartPASE shows in nothing but the Commissioner under way,
\* and the abstract specification does not see it.
LEMMA AssignInv ==
    ASSUME ProcessInv, NEW c \in Commissioners, at[c] <= 6,
           at' = [at EXCEPT ![c] = at[c] + 1], UNCHANGED before,
           NEW r, Shape(r), Assign(c, r),
           NEW fr, frame' = [frame EXCEPT ![c] = fr],
           UnderWay(r, before[c], at[c] + 1, fr, Fresh(c)),
           at[c] >= 4 => fr.from = c
    PROVE  ProcessInv' /\ whole' = whole
<1>1. /\ commissioner' = [commissioner EXCEPT ![c] = r]
      /\ UNCHANGED <<sessions, net, draws, faults, calls, commissionee, computed, confirmed>>
  BY Zenon DEF Assign
<1>2. /\ at \in [Commissioners -> 1 .. 8] /\ at[c] \in 1 .. 6
      /\ commissioner = [d \in Commissioners |-> commissioner[d]]
      /\ frame = [d \in Commissioners |-> frame[d]]
  BY DEF ProcessInv
<1>3. /\ at' \in [Commissioners -> 1 .. 8]
      /\ commissioner' = [d \in Commissioners |-> commissioner'[d]]
      /\ frame' = [d \in Commissioners |-> frame'[d]]
      /\ at'[c] = at[c] + 1 /\ commissioner'[c] = r /\ frame'[c] = fr
      /\ \A d \in Commissioners \ {c} :
             at'[d] = at[d] /\ commissioner'[d] = commissioner[d] /\ frame'[d] = frame[d]
  <2>1. /\ at' \in [Commissioners -> 1 .. 8] /\ at'[c] = at[c] + 1
        /\ \A d \in Commissioners \ {c} : at'[d] = at[d]
    BY <1>2
  <2>2. /\ commissioner' = [d \in Commissioners |-> commissioner'[d]] /\ commissioner'[c] = r
        /\ \A d \in Commissioners \ {c} : commissioner'[d] = commissioner[d]
    BY <1>1, <1>2, Replaced, Zenon
  <2>3. /\ frame' = [d \in Commissioners |-> frame'[d]] /\ frame'[c] = fr
        /\ \A d \in Commissioners \ {c} : frame'[d] = frame[d]
    BY <1>2, Replaced, Zenon
  <2> QED
    BY <2>1, <2>2, <2>3, Zenon
<1>4. NetUsed' /\ (\A d : Fresh(d)' = Fresh(d) /\ (Quiet(d)' <=> Quiet(d)))
  BY <1>1, Zenon DEF ProcessInv, NetUsed, Fresh, Quiet
<1>5. ASSUME NEW d \in Commissioners
      PROVE  /\ Shape(commissioner'[d]) /\ Shape(before'[d])
             /\ at'[d] <= 7 =>
                    /\ UnderWay(commissioner'[d], before'[d], at'[d], frame'[d], Fresh(d)')
                    /\ at'[d] > 4 => frame'[d].from = d
                    /\ before'[d] = NewCommissioner \/ Quiet(d)'
  <2>1. CASE d = c
    <3>1. /\ Shape(before[c])
          /\ before[c] = NewCommissioner \/ Quiet(c)
      BY <1>2 DEF ProcessInv
    <3>2. at'[c] > 4 => at[c] >= 4
      BY <1>2, <1>3
    <3>3. UnderWay(commissioner'[c], before'[c], at'[c], frame'[c], Fresh(c)')
      BY <1>3, <1>4, Zenon
    <3>4. at'[c] > 4 => frame'[c].from = c
      BY <1>3, <3>2, Zenon
    <3>5. /\ Shape(commissioner'[c]) /\ Shape(before'[c])
          /\ before'[c] = NewCommissioner \/ Quiet(c)'
      <4>1. Shape(commissioner'[c])
        BY <1>3, Zenon
      <4>2. before'[c] = before[c] /\ (Quiet(c)' <=> Quiet(c))
        BY <1>4, Zenon
      <4> QED
        BY <3>1, <4>1, <4>2, Zenon
    <3> QED
      BY <2>1, <3>3, <3>4, <3>5, Zenon
  <2>2. CASE d # c
    BY <1>3, <1>4, <2>2, Zenon DEF ProcessInv
  <2> QED
    BY <2>1, <2>2, Zenon
<1>6. ProcessInv'
  BY <1>1, <1>3, <1>4, <1>5, Zenon DEF ProcessInv
<1>7. \A d \in Commissioners : whole'[d] = whole[d]
  <2> SUFFICES ASSUME NEW d \in Commissioners PROVE whole'[d] = whole[d]
    BY Zenon
  <2>1. CASE d = c
    BY <1>2, <1>3, <2>1, WholeIs
  <2>2. CASE d # c
    BY <1>3, <2>2, WholeIs, ZenonT(60)
  <2> QED
    BY <2>1, <2>2, Zenon
<1>8. whole' = whole
  <2>1. whole = [d \in Commissioners |-> whole[d]] /\ whole' = [d \in Commissioners |-> whole'[d]]
    BY Zenon DEF whole
  <2> QED
    BY <1>7, <2>1, Zenon
<1> QED
  BY <1>6, <1>8, Zenon

\* The six assignments.
LEMMA StatementInv ==
    ASSUME ProcessInv, NEW c \in Commissioners, UNCHANGED before,
           \/ Passcodes(c) \/ Randoms(c) \/ SessionIDs(c)
           \/ BuildsFrame(c) \/ RequestPayloads(c) \/ States(c)
    PROVE  ProcessInv' /\ whole' = whole
           /\ UNCHANGED <<sessions, net, draws, faults, calls, commissionee, computed, confirmed>>
<1> DEFINE cm == commissioner[c]
           b == before[c]
<1>1. /\ Shape(cm) /\ frame = [d \in Commissioners |-> frame[d]]
      /\ at[c] <= 7 => UnderWay(cm, b, at[c], frame[c], Fresh(c))
      /\ at[c] \in 5 .. 7 => frame[c].from = c
  BY DEF ProcessInv
<1>2. UNCHANGED frame => frame' = [frame EXCEPT ![c] = frame[c]]
  BY <1>1, Zenon
<1> DEFINE Assigned(r, fr) ==
               /\ Shape(r) /\ Assign(c, r) /\ frame' = [frame EXCEPT ![c] = fr]
               /\ UnderWay(r, b, at[c] + 1, fr, Fresh(c))
               /\ at[c] >= 4 => fr.from = c
           Goes == at[c] <= 6 /\ at' = [at EXCEPT ![c] = at[c] + 1] /\ \E r, fr : Assigned(r, fr)
<1>3. ASSUME Passcodes(c) PROVE Goes
  <2>1. at[c] = 1 /\ at' = [at EXCEPT ![c] = at[c] + 1] /\ frame' = frame
    BY <1>3, Positions, ReachesAt DEF Passcodes
  <2>2. PICK p \in Passcode : Assign(c, [cm EXCEPT !.Passcode = p])
    BY <1>3, Zenon DEF Passcodes
  <2> DEFINE r == [cm EXCEPT !.Passcode = p]
  <2>3. /\ Shape(r) /\ r.Passcode = p /\ r.Random = cm.Random /\ r.SessionID = cm.SessionID
        /\ r.MessageCounter = cm.MessageCounter /\ r.RequestPayload = cm.RequestPayload
        /\ r.ResponsePayload = cm.ResponsePayload /\ r.State = cm.State /\ r.Ke = cm.Ke
        /\ r.prover = cm.prover
    BY <1>1, ShapeAssigned, Zenon DEF Shape, Fields
  <2> HIDE DEF r
  <2>4. UnderWay(r, b, at[c] + 1, frame[c], Fresh(c))
    <3>1. UnderWay(cm, b, 1, frame[c], Fresh(c))
      BY <1>1, <2>1, SMTT(60)
    <3> HIDE DEF cm, b
    <3>2. UnderWay(r, b, 2, frame[c], Fresh(c))
      BY <2>3, <3>1 DEF UnderWay
    <3> QED
      BY <2>1, <3>2
  <2>5. at[c] <= 6 /\ ~(at[c] >= 4)
    BY <2>1
  <2>6. Assign(c, r)
    BY <2>2, Zenon DEF r
  <2>7. Assigned(r, frame[c])
    BY <1>2, <2>1, <2>3, <2>4, <2>5, <2>6, Zenon
  <2> HIDE DEF Assigned
  <2> QED
    BY <2>1, <2>5, <2>7, Zenon
<1>4. ASSUME Randoms(c) PROVE Goes
  <2>1. at[c] = 2 /\ at' = [at EXCEPT ![c] = at[c] + 1] /\ frame' = frame
    BY <1>4, Positions, ReachesAt DEF Randoms
  <2>2. Assign(c, [cm EXCEPT !.Random = Fresh(c)])
    BY <1>4, Zenon DEF Randoms
  <2> DEFINE r == [cm EXCEPT !.Random = Fresh(c)]
  <2>3. /\ Shape(r) /\ r.Random = Fresh(c) /\ r.Passcode = cm.Passcode
        /\ r.SessionID = cm.SessionID /\ r.MessageCounter = cm.MessageCounter
        /\ r.RequestPayload = cm.RequestPayload /\ r.ResponsePayload = cm.ResponsePayload
        /\ r.State = cm.State /\ r.Ke = cm.Ke /\ r.prover = cm.prover
    BY <1>1, ShapeAssigned, Zenon DEF Shape, Fields
  <2> HIDE DEF r
  <2>4. UnderWay(r, b, at[c] + 1, frame[c], Fresh(c))
    <3>1. UnderWay(cm, b, 2, frame[c], Fresh(c))
      BY <1>1, <2>1, SMTT(60)
    <3> HIDE DEF cm, b
    <3>2. UnderWay(r, b, 3, frame[c], Fresh(c))
      BY <2>3, <3>1 DEF UnderWay
    <3> QED
      BY <2>1, <3>2
  <2>5. at[c] <= 6 /\ ~(at[c] >= 4)
    BY <2>1
  <2>6. Assign(c, r)
    BY <2>2, Zenon DEF r
  <2>7. Assigned(r, frame[c])
    BY <1>2, <2>1, <2>3, <2>4, <2>5, <2>6, Zenon
  <2> HIDE DEF Assigned
  <2> QED
    BY <2>1, <2>5, <2>7, Zenon
<1>5. ASSUME SessionIDs(c) PROVE Goes
  <2>1. at[c] = 3 /\ at' = [at EXCEPT ![c] = at[c] + 1] /\ frame' = frame
    BY <1>5, Positions, ReachesAt DEF SessionIDs
  <2> DEFINE sid == Announced(cm.SessionID)
  <2>2. Assign(c, [cm EXCEPT !.SessionID = sid])
    BY <1>5, Zenon DEF SessionIDs, Announced
  <2> DEFINE r == [cm EXCEPT !.SessionID = sid]
  <2>3. /\ Shape(r) /\ r.SessionID = sid /\ r.Passcode = cm.Passcode /\ r.Random = cm.Random
        /\ r.MessageCounter = cm.MessageCounter /\ r.RequestPayload = cm.RequestPayload
        /\ r.ResponsePayload = cm.ResponsePayload /\ r.State = cm.State /\ r.Ke = cm.Ke
        /\ r.prover = cm.prover
    BY <1>1, ShapeAssigned, Zenon DEF Shape, Fields
  <2> HIDE DEF r
  <2>4. UnderWay(r, b, at[c] + 1, frame[c], Fresh(c))
    <3>1. UnderWay(cm, b, 3, frame[c], Fresh(c))
      BY <1>1, <2>1, SMTT(60)
    <3> HIDE DEF cm, b
    <3>2. UnderWay(r, b, 4, frame[c], Fresh(c))
      BY <2>3, <3>1 DEF UnderWay
    <3> QED
      BY <2>1, <3>2
  <2>5. at[c] <= 6 /\ ~(at[c] >= 4)
    BY <2>1
  <2>6. Assign(c, r)
    BY <2>2, Zenon DEF r
  <2>7. Assigned(r, frame[c])
    BY <1>2, <2>1, <2>3, <2>4, <2>5, <2>6, Zenon
  <2> HIDE DEF Assigned
  <2> QED
    BY <2>1, <2>5, <2>7, Zenon
<1>6. ASSUME BuildsFrame(c) PROVE Goes
  <2>1. at[c] = 4 /\ at' = [at EXCEPT ![c] = at[c] + 1]
    BY <1>6, Positions, ReachesAt DEF BuildsFrame
  <2> DEFINE req == [InitiatorRandom |-> cm.Random, InitiatorSessionID |-> cm.SessionID,
                     HasPBKDFParameters |-> FALSE]
  <2>2. PICK ctr \in bumpCounter(cm.MessageCounter) :
            /\ Assign(c, [cm EXCEPT !.MessageCounter = ctr])
            /\ frame' = [frame EXCEPT ![c] = Frame("PBKDFParamRequest", c, Device, ctr, req)]
    BY <1>6, Zenon DEF BuildsFrame
  <2> DEFINE fr == Frame("PBKDFParamRequest", c, Device, ctr, req)
  <2> DEFINE r == [cm EXCEPT !.MessageCounter = ctr]
  <2>3. /\ Shape(r) /\ r.MessageCounter = ctr /\ r.Passcode = cm.Passcode
        /\ r.Random = cm.Random /\ r.SessionID = cm.SessionID
        /\ r.RequestPayload = cm.RequestPayload /\ r.ResponsePayload = cm.ResponsePayload
        /\ r.State = cm.State /\ r.Ke = cm.Ke /\ r.prover = cm.prover
    BY <1>1, ShapeAssigned, Zenon DEF Shape, Fields
  <2> HIDE DEF r
  <2>4. UnderWay(r, b, at[c] + 1, fr, Fresh(c)) /\ fr.from = c
    <3> DEFINE sid == Announced(b.SessionID)
    <3>1. UnderWay(cm, b, 4, frame[c], Fresh(c))
      BY <1>1, <2>1, SMTT(60)
    <3>2. /\ cm.Passcode \in Passcode /\ cm.Random = Fresh(c) /\ cm.SessionID = sid
          /\ cm.MessageCounter = b.MessageCounter
          /\ cm.RequestPayload = b.RequestPayload /\ cm.State = b.State
          /\ cm.ResponsePayload = b.ResponsePayload /\ cm.Ke = b.Ke /\ cm.prover = b.prover
      <4> HIDE DEF cm, b
      <4> QED
        BY <3>1, SMTT(60) DEF UnderWay
    <3>3. fr.from = c
      BY Zenon DEF Frame
    <3>4. Asks(fr, r.MessageCounter, Fresh(c), sid)
      BY <2>3, <3>2, <3>3, Zenon DEF Asks
    <3>5. r.MessageCounter \in bumpCounter(b.MessageCounter)
      BY <2>2, <2>3, <3>2, Zenon
    <3> HIDE DEF fr
    <3> HIDE DEF cm, b
    <3>6. /\ r.Passcode \in Passcode /\ r.Random = Fresh(c) /\ r.SessionID = sid
          /\ r.RequestPayload = b.RequestPayload /\ r.State = b.State
          /\ r.ResponsePayload = b.ResponsePayload /\ r.Ke = b.Ke /\ r.prover = b.prover
      BY <2>3, <3>2, ZenonT(60)
    <3>7. UnderWay(r, b, 5, fr, Fresh(c))
      BY <3>4, <3>5, <3>6 DEF UnderWay
    <3> QED
      BY <2>1, <3>3, <3>7, SMTT(60)
  <2>5. at[c] <= 6
    BY <2>1
  <2>6. Assign(c, r)
    BY <2>2, Zenon DEF r
  <2>7. frame' = [frame EXCEPT ![c] = fr]
    BY <2>2, Zenon
  <2> HIDE DEF fr
  <2>8. Assigned(r, fr)
    BY <2>3, <2>4, <2>6, <2>7, Zenon
  <2> HIDE DEF Assigned
  <2> QED
    BY <2>1, <2>5, <2>8, Zenon
<1>7. ASSUME RequestPayloads(c) PROVE Goes
  <2>1. at[c] = 5 /\ at' = [at EXCEPT ![c] = at[c] + 1] /\ frame' = frame
    BY <1>7, Positions, ReachesAt DEF RequestPayloads
  <2>2. Assign(c, [cm EXCEPT !.RequestPayload = frame[c].Payload])
    BY <1>7, Zenon DEF RequestPayloads
  <2> DEFINE r == [cm EXCEPT !.RequestPayload = frame[c].Payload]
  <2>3. /\ Shape(r) /\ r.RequestPayload = frame[c].Payload /\ r.Passcode = cm.Passcode
        /\ r.Random = cm.Random /\ r.SessionID = cm.SessionID
        /\ r.MessageCounter = cm.MessageCounter /\ r.ResponsePayload = cm.ResponsePayload
        /\ r.State = cm.State /\ r.Ke = cm.Ke /\ r.prover = cm.prover
    BY <1>1, ShapeAssigned, Zenon DEF Shape, Fields
  <2> HIDE DEF r
  <2>4. UnderWay(r, b, at[c] + 1, frame[c], Fresh(c))
    <3>1. UnderWay(cm, b, 5, frame[c], Fresh(c))
      BY <1>1, <2>1, SMTT(60)
    <3> HIDE DEF cm, b
    <3>2. UnderWay(r, b, 6, frame[c], Fresh(c))
      BY <2>3, <3>1 DEF UnderWay
    <3> QED
      BY <2>1, <3>2
  <2>5. at[c] <= 6 /\ frame[c].from = c
    BY <1>1, <2>1
  <2>6. Assign(c, r)
    BY <2>2, Zenon DEF r
  <2>7. Assigned(r, frame[c])
    BY <1>2, <2>1, <2>3, <2>4, <2>5, <2>6, Zenon
  <2> HIDE DEF Assigned
  <2> QED
    BY <2>1, <2>5, <2>7, Zenon
<1>8. ASSUME States(c) PROVE Goes
  <2>1. at[c] = 6 /\ at' = [at EXCEPT ![c] = at[c] + 1] /\ frame' = frame
    BY <1>8, Positions, ReachesAt DEF States
  <2>2. Assign(c, [cm EXCEPT !.State = "PBKDFParamResponse"])
    BY <1>8, Zenon DEF States
  <2> DEFINE r == [cm EXCEPT !.State = "PBKDFParamResponse"]
  <2>3. /\ Shape(r) /\ r.State = "PBKDFParamResponse" /\ r.Passcode = cm.Passcode
        /\ r.Random = cm.Random /\ r.SessionID = cm.SessionID
        /\ r.MessageCounter = cm.MessageCounter /\ r.RequestPayload = cm.RequestPayload
        /\ r.ResponsePayload = cm.ResponsePayload /\ r.Ke = cm.Ke /\ r.prover = cm.prover
    BY <1>1, ShapeAssigned, Zenon DEF Shape, Fields
  <2> HIDE DEF r
  <2>4. UnderWay(r, b, at[c] + 1, frame[c], Fresh(c))
    <3>1. UnderWay(cm, b, 6, frame[c], Fresh(c))
      BY <1>1, <2>1, SMTT(60)
    <3> HIDE DEF cm, b
    <3>2. UnderWay(r, b, 7, frame[c], Fresh(c))
      BY <2>3, <3>1 DEF UnderWay
    <3> QED
      BY <2>1, <3>2
  <2>5. at[c] <= 6 /\ frame[c].from = c
    BY <1>1, <2>1
  <2>6. Assign(c, r)
    BY <2>2, Zenon DEF r
  <2>7. Assigned(r, frame[c])
    BY <1>2, <2>1, <2>3, <2>4, <2>5, <2>6, ZenonT(60)
  <2> HIDE DEF Assigned
  <2> QED
    BY <2>1, <2>5, <2>7, Zenon
<1>9. Goes
  BY <1>3, <1>4, <1>5, <1>6, <1>7, <1>8, Zenon
<1>10. PICK r, fr : Assigned(r, fr)
  BY <1>9, Zenon
<1>11. ProcessInv' /\ whole' = whole
  BY <1>9, <1>10, AssignInv, Zenon
<1> QED
  BY <1>10, <1>11, Zenon DEF Assign

\* Sending the request is StartPASE as module Commissioner has it.
LEMMA SendsStep ==
    ASSUME ProcessInv, NEW c \in Commissioners, Sends(c), UNCHANGED before
    PROVE  /\ commissioner[c].Passcode \in Passcode
           /\ Atomic!CommissionerStarts(c, commissioner[c].Passcode)
<1> DEFINE cm == commissioner[c]
           b == before[c]
           sid == Announced(b.SessionID)
           req == [InitiatorRandom |-> Fresh(c), InitiatorSessionID |-> sid,
                   HasPBKDFParameters |-> FALSE]
<1>1. at[c] = 7 /\ at' = [at EXCEPT ![c] = at[c] + 1]
  BY Positions, ReachesAt DEF Sends
<1>2. /\ calls < MaxCalls /\ calls' = calls + 1 /\ Draw(c) /\ net' = net \cup {frame[c]}
      /\ UNCHANGED <<sessions, faults, commissioner, commissionee, computed, confirmed, frame>>
  BY Zenon DEF Sends
<1>3. /\ Shape(cm) /\ Shape(b) /\ at \in [Commissioners -> 1 .. 8]
      /\ UnderWay(cm, b, 7, frame[c], Fresh(c)) /\ frame[c].from = c
  BY <1>1 DEF ProcessInv
<1>4. /\ cm.Passcode \in Passcode /\ cm.MessageCounter \in bumpCounter(b.MessageCounter)
      /\ frame[c] = Frame("PBKDFParamRequest", c, Device, cm.MessageCounter, req)
  <2>1. /\ cm.Passcode \in Passcode /\ cm.MessageCounter \in bumpCounter(b.MessageCounter)
        /\ Asks(frame[c], cm.MessageCounter, Fresh(c), sid)
    <3> HIDE DEF cm, b
    <3> QED
      BY <1>3, SMTT(60) DEF UnderWay
  <2> QED
    BY <1>3, <2>1, ZenonT(60) DEF Asks
<1>5. frame[c].Payload = req
  BY <1>4 DEF Frame
<1>6. whole[c] = b /\ whole' = [whole EXCEPT ![c] = cm]
  <2>1. whole[c] = b /\ whole'[c] = cm
    BY <1>1, <1>2, <1>3, WholeIs, SMTT(60)
  <2>2. \A d \in Commissioners \ {c} : whole'[d] = whole[d]
    BY <1>1, <1>2, <1>3, WholeIs, Zenon
  <2>3. whole = [d \in Commissioners |-> whole[d]] /\ whole' = [d \in Commissioners |-> whole'[d]]
    BY Zenon DEF whole
  <2> QED
    BY <2>1, <2>2, <2>3, Zenon
<1>7. cm = [b EXCEPT !.Passcode = cm.Passcode, !.Random = Fresh(c), !.SessionID = sid,
                     !.MessageCounter = cm.MessageCounter, !.RequestPayload = req,
                     !.State = "PBKDFParamResponse"]
  <2> DEFINE fresh == Fresh(c)
             r == [b EXCEPT !.Passcode = cm.Passcode, !.Random = fresh, !.SessionID = sid,
                            !.MessageCounter = cm.MessageCounter, !.RequestPayload = req,
                            !.State = "PBKDFParamResponse"]
  <2>1. /\ cm.Random = fresh /\ cm.SessionID = sid /\ cm.RequestPayload = req
        /\ cm.State = "PBKDFParamResponse" /\ cm.ResponsePayload = b.ResponsePayload
        /\ cm.Ke = b.Ke /\ cm.prover = b.prover
    <3> HIDE DEF cm, b, req
    <3> QED
      BY <1>3, <1>5 DEF UnderWay
  <2> HIDE DEF cm, b, sid, req, fresh
  <2>2. /\ r.Passcode = cm.Passcode /\ r.Random = fresh /\ r.SessionID = sid
        /\ r.MessageCounter = cm.MessageCounter /\ r.RequestPayload = req
        /\ r.State = "PBKDFParamResponse" /\ r.ResponsePayload = b.ResponsePayload
        /\ r.Ke = b.Ke /\ r.prover = b.prover
    BY <1>3, Zenon DEF Shape, Fields
  <2>3. Shape(r)
    BY <1>3, ZenonT(60) DEF Shape, Fields
  <2> HIDE DEF r
  <2>4. \A x \in Fields : cm[x] = r[x]
    BY <2>1, <2>2, Zenon DEF Fields
  <2>5. cm = r
    BY <1>3, <2>3, <2>4, Zenon DEF Shape
  <2> QED
    BY <2>5, ZenonT(60) DEF r, fresh
<1>8. whole' = [whole EXCEPT ![c] =
                   [whole[c] EXCEPT !.Passcode = cm.Passcode, !.Random = Fresh(c),
                                    !.SessionID = sid, !.MessageCounter = cm.MessageCounter,
                                    !.RequestPayload = req, !.State = "PBKDFParamResponse"]]
  BY <1>6, <1>7, Zenon
<1>9. Atomic!StartPASE(c, cm.Passcode) <=>
          /\ calls < MaxCalls
          /\ calls' = calls + 1
          /\ Draw(c)
          /\ \E ctr \in bumpCounter(b.MessageCounter) :
              /\ whole' = [whole EXCEPT ![c] =
                     [whole[c] EXCEPT !.Passcode = cm.Passcode, !.Random = Fresh(c),
                                      !.SessionID = sid, !.MessageCounter = ctr,
                                      !.RequestPayload = req,
                                      !.State = "PBKDFParamResponse"]]
              /\ net' = net \cup {Frame("PBKDFParamRequest", c, Device, ctr, req)}
          /\ UNCHANGED <<sessions, faults>>
  <2> DEFINE asid == IF whole[c].SessionID = 0 THEN Atomic!InitiatorID ELSE whole[c].SessionID
             areq == [InitiatorRandom |-> Atomic!Fresh(c), InitiatorSessionID |-> asid,
                      HasPBKDFParameters |-> FALSE]
  <2>1. asid = sid /\ areq = req /\ Atomic!Fresh(c) = Fresh(c)
    BY <1>6, SameOperators, Zenon DEF Announced
  <2>2. Atomic!StartPASE(c, cm.Passcode) <=>
          /\ calls < MaxCalls
          /\ calls' = calls + 1
          /\ Atomic!Draw(c)
          /\ \E ctr \in Atomic!bumpCounter(whole[c].MessageCounter) :
              /\ whole' = [whole EXCEPT ![c] =
                     [whole[c] EXCEPT !.Passcode = cm.Passcode, !.Random = Atomic!Fresh(c),
                                      !.SessionID = asid, !.MessageCounter = ctr,
                                      !.RequestPayload = areq,
                                      !.State = "PBKDFParamResponse"]]
              /\ net' = net \cup {Atomic!Frame("PBKDFParamRequest", c, Device, ctr, areq)}
          /\ UNCHANGED <<sessions, faults>>
    BY Zenon DEF Atomic!StartPASE
  <2>3. /\ Atomic!bumpCounter(whole[c].MessageCounter) = bumpCounter(b.MessageCounter)
        /\ Atomic!Draw(c) <=> Draw(c)
        /\ \A ctr : Atomic!Frame("PBKDFParamRequest", c, Device, ctr, req) =
                     Frame("PBKDFParamRequest", c, Device, ctr, req)
    BY <1>6, SameOperators, Zenon
  <2> HIDE DEF asid, areq, sid, req
  <2> QED
    BY <2>1, <2>2, <2>3, Zenon
<1>10. Atomic!StartPASE(c, cm.Passcode)
  <2> HIDE DEF cm, b, sid, req
  <2> QED
    BY <1>2, <1>4, <1>8, <1>9, Zenon
<1> QED
  BY <1>2, <1>4, <1>10, Zenon DEF Atomic!CommissionerStarts

\* The random value of the request is used up from now on.
LEMMA SendsInv ==
    ASSUME ProcessInv, NEW c \in Commissioners, Sends(c), UNCHANGED before
    PROVE  ProcessInv'
<1>1. at[c] = 7 /\ at' = [at EXCEPT ![c] = at[c] + 1]
  BY Positions, ReachesAt DEF Sends
<1>2. /\ Draw(c) /\ net' = net \cup {frame[c]}
      /\ UNCHANGED <<commissioner, frame>>
  BY Zenon DEF Sends
<1>3. /\ at \in [Commissioners -> 1 .. 8] /\ draws \in [Manager -> Nat] /\ NetUsed
      /\ c \in Manager /\ Device \notin Commissioners
      /\ \A d \in Commissioners : d \in Manager
  BY PartyAssumption, Zenon DEF ProcessInv
<1>4. /\ at' \in [Commissioners -> 1 .. 8] /\ at'[c] = 8
      /\ \A d \in Commissioners \ {c} : at'[d] = at[d]
  BY <1>1, <1>3
<1>5. /\ draws' \in [Manager -> Nat] /\ draws'[c] = draws[c] + 1
      /\ \A m \in Manager : draws[m] <= draws'[m]
      /\ \A d \in Manager \ {c} : draws'[d] = draws[d]
  BY <1>2, <1>3, SMTT(60) DEF Draw
<1>6. /\ frame[c].from = c /\ frame[c].to = Device
      /\ frame[c].Payload.InitiatorRandom = <<c, draws[c]>>
  <2>1. UnderWay(commissioner[c], before[c], 7, frame[c], Fresh(c)) /\ frame[c].from = c
    BY <1>1, SMTT(60) DEF ProcessInv
  <2>2. Asks(frame[c], commissioner[c].MessageCounter, Fresh(c), Announced(before[c].SessionID))
    BY <2>1, SMTT(60) DEF UnderWay
  <2> QED
    BY <2>1, <2>2, SMTT(60) DEF Asks, Frame, Fresh
<1>7. NetUsed'
  <2> SUFFICES ASSUME NEW f \in net', f.Opcode \in {"PBKDFParamRequest", "PBKDFParamResponse"},
                      NEW random, random = f.Payload.InitiatorRandom
               PROVE  random \in Random /\ random[2] < draws'[random[1]]
    BY Zenon DEF NetUsed
  <2>1. CASE f \in net
    <3>1. random \in Random /\ random[2] < draws[random[1]]
      BY <1>3, <2>1, Zenon DEF NetUsed
    <3>2. random[1] \in Manager /\ random[2] \in Nat
      BY <3>1, Zenon DEF Random
    <3> QED
      BY <1>3, <1>5, <3>1, <3>2, SMTT(60)
  <2>2. CASE f = frame[c]
    <3>1. random = <<c, draws[c]>> /\ draws[c] \in Nat
      BY <1>3, <1>6, <2>2, Zenon
    <3> QED
      BY <1>3, <1>5, <3>1, SMTT(60) DEF Random
  <2> QED
    BY <1>2, <2>1, <2>2, Zenon
<1>8. ASSUME NEW d \in Commissioners \ {c}
      PROVE  Fresh(d)' = Fresh(d) /\ (Quiet(d) => Quiet(d)')
  <2>1. Fresh(d)' = Fresh(d)
    BY <1>3, <1>5, Zenon DEF Fresh
  <2>2. Quiet(d) => Quiet(d)'
    BY <1>2, <1>3, <1>6, Zenon DEF Quiet
  <2> QED
    BY <2>1, <2>2, Zenon
<1>9. ASSUME NEW d \in Commissioners
      PROVE  /\ Shape(commissioner'[d]) /\ Shape(before'[d])
             /\ at'[d] <= 7 =>
                    /\ UnderWay(commissioner'[d], before'[d], at'[d], frame'[d], Fresh(d)')
                    /\ at'[d] > 4 => frame'[d].from = d
                    /\ before'[d] = NewCommissioner \/ Quiet(d)'
  <2>1. Shape(commissioner'[d]) /\ Shape(before'[d])
    BY <1>2, ZenonT(60) DEF ProcessInv
  <2>2. CASE d = c
    BY <1>4, <2>1, <2>2
  <2>3. CASE d # c
    <3>1. /\ at'[d] = at[d] /\ commissioner'[d] = commissioner[d] /\ before'[d] = before[d]
          /\ frame'[d] = frame[d] /\ Fresh(d)' = Fresh(d) /\ (Quiet(d) => Quiet(d)')
      BY <1>2, <1>4, <1>8, <2>3, Zenon
    <3>2. at[d] <= 7 =>
              /\ UnderWay(commissioner[d], before[d], at[d], frame[d], Fresh(d))
              /\ at[d] > 4 => frame[d].from = d
              /\ before[d] = NewCommissioner \/ Quiet(d)
      BY Zenon DEF ProcessInv
    <3> QED
      BY <2>1, <3>1, <3>2, Zenon
  <2> QED
    BY <2>2, <2>3, Zenon
<1> QED
  BY <1>2, <1>4, <1>5, <1>7, <1>9, ZenonT(60) DEF ProcessInv

\* Starting over in the same program: nothing of the dead attempt is in flight.
LEMMA RetryStep ==
    ASSUME ProcessInv, NEW c \in Commissioners, Retry(c)
    PROVE  ProcessInv' /\ whole' = whole
<1>1. /\ at[c] > 7 /\ net = {} /\ at' = [at EXCEPT ![c] = 1]
      /\ before' = [before EXCEPT ![c] = commissioner[c]]
      /\ UNCHANGED <<draws, net, commissioner, frame>>
  BY Positions, Zenon DEF Retry, paseVars
<1>2. /\ at \in [Commissioners -> 1 .. 8]
      /\ before = [d \in Commissioners |-> before[d]]
  BY Zenon DEF ProcessInv
<1>3. /\ at' \in [Commissioners -> 1 .. 8] /\ at'[c] = 1
      /\ \A d \in Commissioners \ {c} : at'[d] = at[d]
  BY <1>1, <1>2
<1>4. /\ before' = [d \in Commissioners |-> before'[d]] /\ before'[c] = commissioner[c]
      /\ \A d \in Commissioners \ {c} : before'[d] = before[d]
  BY <1>1, <1>2, Replaced, Zenon
<1>5. NetUsed' /\ (\A d : Fresh(d)' = Fresh(d) /\ Quiet(d)')
  BY <1>1, Zenon DEF NetUsed, Fresh, Quiet
<1>6. ASSUME NEW d \in Commissioners
      PROVE  /\ Shape(commissioner'[d]) /\ Shape(before'[d])
             /\ at'[d] <= 7 =>
                    /\ UnderWay(commissioner'[d], before'[d], at'[d], frame'[d], Fresh(d)')
                    /\ at'[d] > 4 => frame'[d].from = d
                    /\ before'[d] = NewCommissioner \/ Quiet(d)'
  <2>1. Shape(commissioner'[d]) /\ Shape(before'[d])
    BY <1>1, <1>4, ZenonT(60) DEF ProcessInv
  <2>2. CASE d = c
    <3>1. UnderWay(commissioner'[d], before'[d], at'[d], frame'[d], Fresh(d)')
      BY <1>1, <1>3, <1>4, <2>2 DEF UnderWay
    <3> QED
      BY <1>3, <1>5, <2>1, <2>2, <3>1, SMTT(60)
  <2>3. CASE d # c
    BY <1>1, <1>3, <1>4, <1>5, <2>1, <2>3, Zenon DEF ProcessInv
  <2> QED
    BY <2>2, <2>3, Zenon
<1>7. ProcessInv'
  BY <1>1, <1>3, <1>4, <1>5, <1>6, ZenonT(60) DEF ProcessInv
<1>8. \A d \in Commissioners : whole'[d] = whole[d]
  BY <1>1, <1>2, <1>3, <1>4, WholeIs, SMTT(60)
<1>9. whole = [d \in Commissioners |-> whole[d]] /\ whole' = [d \in Commissioners |-> whole'[d]]
  BY Zenon DEF whole
<1> QED
  BY <1>7, <1>8, <1>9, Zenon

\* A restart of the program is one of the abstract specification.
LEMMA RestartStep ==
    ASSUME ProcessInv, NEW c \in Commissioners, ProcessRestarts(c)
    PROVE  ProcessInv' /\ Atomic!CommissionerRestarts(c)
<1>1. /\ at' = [at EXCEPT ![c] = 1] /\ frame' = [frame EXCEPT ![c] = Nil]
      /\ before' = [before EXCEPT ![c] = NewCommissioner]
      /\ commissioner' = [commissioner EXCEPT ![c] = NewCommissioner]
      /\ Fault("controller restart")
      /\ sessions' = [sessions EXCEPT ![c] = [id \in SessionID |-> NoSession]]
      /\ UNCHANGED <<net, draws, calls, commissionee, computed, confirmed>>
  BY Zenon DEF ProcessRestarts, CommissionerRestarts, CommissionerRestart
<1>2. /\ at \in [Commissioners -> 1 .. 8]
      /\ commissioner = [d \in Commissioners |-> commissioner[d]]
      /\ before = [d \in Commissioners |-> before[d]]
      /\ frame = [d \in Commissioners |-> frame[d]]
  BY Zenon DEF ProcessInv
<1>3. /\ at' \in [Commissioners -> 1 .. 8] /\ at'[c] = 1
      /\ \A d \in Commissioners \ {c} : at'[d] = at[d]
  <2>1. at' = [at EXCEPT ![c] = 1]
    BY <1>1, Zenon
  <2>2. at \in [Commissioners -> 1 .. 8]
    BY <1>2, Zenon
  <2> QED
    BY <2>1, <2>2
<1>4. /\ before' = [d \in Commissioners |-> before'[d]] /\ before'[c] = NewCommissioner
      /\ \A d \in Commissioners \ {c} : before'[d] = before[d]
  BY <1>1, <1>2, Replaced, Zenon
<1>5. /\ commissioner' = [d \in Commissioners |-> commissioner'[d]]
      /\ commissioner'[c] = NewCommissioner
      /\ \A d \in Commissioners \ {c} : commissioner'[d] = commissioner[d]
  BY <1>1, <1>2, Replaced, Zenon
<1>6. /\ frame' = [d \in Commissioners |-> frame'[d]]
      /\ \A d \in Commissioners \ {c} : frame'[d] = frame[d]
  BY <1>1, <1>2, Replaced, Zenon
<1>7. NetUsed' /\ (\A d : Fresh(d)' = Fresh(d) /\ (Quiet(d)' <=> Quiet(d)))
  BY <1>1, ZenonT(60) DEF ProcessInv, NetUsed, Fresh, Quiet
<1>8. ASSUME NEW d \in Commissioners
      PROVE  /\ Shape(commissioner'[d]) /\ Shape(before'[d])
             /\ at'[d] <= 7 =>
                    /\ UnderWay(commissioner'[d], before'[d], at'[d], frame'[d], Fresh(d)')
                    /\ at'[d] > 4 => frame'[d].from = d
                    /\ before'[d] = NewCommissioner \/ Quiet(d)'
  <2>1. CASE d = c
    <3>1. UnderWay(commissioner'[d], before'[d], at'[d], frame'[d], Fresh(d)')
      BY <1>3, <1>4, <1>5, <2>1 DEF UnderWay
    <3> QED
      BY <1>3, <1>4, <1>5, <2>1, <3>1, ShapeNew, SMTT(60)
  <2>2. CASE d # c
    <3>1. /\ at'[d] = at[d] /\ commissioner'[d] = commissioner[d] /\ before'[d] = before[d]
          /\ frame'[d] = frame[d] /\ Fresh(d)' = Fresh(d) /\ (Quiet(d) => Quiet(d)')
      BY <1>3, <1>4, <1>5, <1>6, <1>7, <2>2, Zenon
    <3>2. /\ Shape(commissioner[d]) /\ Shape(before[d])
          /\ at[d] <= 7 =>
              /\ UnderWay(commissioner[d], before[d], at[d], frame[d], Fresh(d))
              /\ at[d] > 4 => frame[d].from = d
              /\ before[d] = NewCommissioner \/ Quiet(d)
      BY Zenon DEF ProcessInv
    <3> QED
      BY <3>1, <3>2, Zenon
  <2> QED
    BY <2>1, <2>2, Zenon
<1>9. ProcessInv'
  BY <1>1, <1>3, <1>4, <1>5, <1>6, <1>7, <1>8, Zenon DEF ProcessInv
<1>10. whole' = [whole EXCEPT ![c] = NewCommissioner]
  <2>1. \A d \in Commissioners : whole'[d] = IF d = c THEN NewCommissioner ELSE whole[d]
    BY <1>3, <1>4, <1>5, WholeIs, Zenon
  <2>2. whole = [d \in Commissioners |-> whole[d]] /\ whole' = [d \in Commissioners |-> whole'[d]]
    BY Zenon DEF whole
  <2> QED
    BY <2>1, <2>2, Zenon
<1>11. Atomic!CommissionerRestarts(c)
  <2>1. Atomic!Fault("controller restart") /\ Atomic!NewCommissioner = NewCommissioner
    BY <1>1, SameOperators, Zenon
  <2> QED
    BY <1>1, <1>10, <2>1, Zenon
       DEF Atomic!CommissionerRestarts, Atomic!CommissionerRestart
<1> QED
  BY <1>9, <1>11, Zenon

-----------------------------------------------------------------------------
(* The theorem *)

\* What the device, the network and the receive goroutines do maps to itself.
LEMMA OthersStep ==
    ASSUME ProcessInv, Others
    PROVE  ProcessInv' /\ Atomic!PASENext
<1>1. UNCHANGED <<at, frame, before>>
  BY Zenon DEF Others
<1>2. ASSUME NEW f \in net, NEW c \in Commissioners, CommissionerReceives(c, f)
      PROVE  ProcessInv' /\ Atomic!PASENext
  <2>1. at[c] <= 7 \/ at[c] > 7
    BY DEF ProcessInv
  <2>2. Atomic!CommissionerReceives(c, f)
    BY <1>1, <1>2, <2>1, RefusedMaps, HandledMaps, Zenon
  <2>3. ProcessInv'
    BY <1>1, <1>2, HandlerInv, Zenon
  <2> QED
    BY <2>2, <2>3, Zenon DEF Atomic!PASENext, Atomic!Receives
<1>3. ASSUME NEW f \in net, DeviceReceives(f)
      PROVE  ProcessInv' /\ Atomic!PASENext
  <2>1. whole' = whole
    BY <1>1, <1>3, WholeStays, Zenon DEF DeviceReceives
  <2>2. Atomic!DeviceReceives(f)
    BY <1>3, <2>1, SameDevice, Zenon DEF Atomic!DeviceReceives, DeviceReceives
  <2>3. ProcessInv'
    BY <1>1, <1>3, DeviceInv, Zenon
  <2> QED
    BY <2>2, <2>3, Zenon DEF Atomic!PASENext, Atomic!Receives
<1>4. ASSUME NEW f \in net, NetworkLoses(f)
      PROVE  ProcessInv' /\ Atomic!PASENext
  <2>1. whole' = whole
    BY <1>1, <1>4, WholeStays, Zenon DEF NetworkLoses
  <2>2. Atomic!NetworkLoses(f)
    BY <1>4, <2>1, SameOperators, Zenon DEF Atomic!NetworkLoses, NetworkLoses, Atomic!Lose, Lose
  <2>3. ProcessInv'
    BY <1>1, <1>4, FaultInv, Zenon
  <2> QED
    BY <2>2, <2>3, Zenon DEF Atomic!PASENext
<1>5. ASSUME DeviceRestarts
      PROVE  ProcessInv' /\ Atomic!PASENext
  <2>1. whole' = whole
    BY <1>1, <1>5, WholeStays, Zenon DEF DeviceRestarts
  <2>2. Atomic!NewCommissionee = NewCommissionee
    BY Zenon DEF Atomic!NewCommissionee, NewCommissionee
  <2>3. Atomic!DeviceRestarts
    BY <1>5, <2>1, <2>2, SameOperators, Zenon
       DEF Atomic!DeviceRestarts, DeviceRestarts, Atomic!Restart, Restart
  <2>4. ProcessInv'
    BY <1>1, <1>5, FaultInv, Zenon
  <2> QED
    BY <2>3, <2>4, Zenon DEF Atomic!PASENext
<1> QED
  BY <1>2, <1>3, <1>4, <1>5, Zenon DEF Others, Receives

\* Every step of the program is a step of PASE or invisible to it.
LEMMA ProcessStep ==
    ASSUME ProcessInv, [ProcessNext]_processVars
    PROVE  ProcessInv' /\ [Atomic!PASENext]_(Atomic!paseVars)
<1>1. ASSUME NEW c \in Commissioners, UNCHANGED before,
             \/ Passcodes(c) \/ Randoms(c) \/ SessionIDs(c)
             \/ BuildsFrame(c) \/ RequestPayloads(c) \/ States(c)
      PROVE  ProcessInv' /\ UNCHANGED Atomic!paseVars
  BY <1>1, StatementInv, Zenon DEF Atomic!paseVars
<1>2. ASSUME NEW c \in Commissioners, UNCHANGED before, Sends(c)
      PROVE  ProcessInv' /\ Atomic!PASENext
  <2>1. /\ commissioner[c].Passcode \in Passcode
        /\ Atomic!CommissionerStarts(c, commissioner[c].Passcode)
    BY <1>2, SendsStep, Zenon
  <2>2. ProcessInv'
    BY <1>2, SendsInv, Zenon
  <2> QED
    BY <2>1, <2>2, Zenon DEF Atomic!PASENext
<1>3. ASSUME NEW c \in Commissioners, Retry(c)
      PROVE  ProcessInv' /\ UNCHANGED Atomic!paseVars
  BY <1>3, RetryStep, Zenon DEF Retry, paseVars, Atomic!paseVars
<1>4. ASSUME NEW c \in Commissioners, ProcessRestarts(c)
      PROVE  ProcessInv' /\ Atomic!PASENext
  BY <1>4, RestartStep, Zenon DEF Atomic!PASENext
<1>5. CASE Others
  BY <1>5, OthersStep, Zenon
<1>6. CASE UNCHANGED processVars
  <2>1. UNCHANGED <<sessions, net, draws, faults, calls, commissioner, commissionee,
                    computed, confirmed, at, frame, before>>
    BY <1>6, Zenon DEF processVars, paseVars
  <2>2. ProcessInv'
    BY <2>1, Zenon DEF ProcessInv, NetUsed, Fresh, Quiet
  <2>3. UNCHANGED Atomic!paseVars
    BY <2>1, WholeStays, Zenon DEF Atomic!paseVars
  <2> QED
    BY <2>2, <2>3, Zenon
<1> QED
  BY <1>1, <1>2, <1>3, <1>4, <1>5, <1>6, ZenonT(60) DEF ProcessNext, MainGoroutine

\* A program that has just started.
LEMMA ProcessStarts ==
    ASSUME ProcessInit
    PROVE  ProcessInv /\ Atomic!PASEInit
<1>1. /\ SharedInit /\ commissioner = [c \in Commissioners |-> NewCommissioner]
      /\ CommissioneeInit /\ computed = {} /\ confirmed = {}
      /\ at = [c \in Commissioners |-> 1] /\ frame = [c \in Commissioners |-> Nil]
      /\ before = commissioner
  BY Zenon DEF ProcessInit, PASEInit, CommissionerInit
<1>2. net = {} /\ draws \in [Manager -> Nat]
  BY <1>1, Zenon DEF SharedInit
<1>3. NetUsed
  BY <1>2, Zenon DEF NetUsed
<1>4. ASSUME NEW c \in Commissioners
      PROVE  /\ at[c] = 1 /\ commissioner[c] = NewCommissioner /\ before[c] = NewCommissioner
             /\ UnderWay(commissioner[c], before[c], at[c], frame[c], Fresh(c))
  BY <1>1 DEF UnderWay
<1>5. /\ at \in [Commissioners -> 1 .. 8]
      /\ commissioner = [c \in Commissioners |-> commissioner[c]]
      /\ before = [c \in Commissioners |-> before[c]]
      /\ frame = [c \in Commissioners |-> frame[c]]
  BY <1>1
<1>6. ASSUME NEW c \in Commissioners
      PROVE  /\ Shape(commissioner[c]) /\ Shape(before[c])
             /\ at[c] <= 7 =>
                    /\ UnderWay(commissioner[c], before[c], at[c], frame[c], Fresh(c))
                    /\ at[c] > 4 => frame[c].from = c
                    /\ before[c] = NewCommissioner \/ Quiet(c)
  <2>1. ~(at[c] > 4)
    BY <1>4
  <2> QED
    BY <1>4, <2>1, ShapeNew, Zenon
<1>7. ProcessInv
  BY <1>2, <1>3, <1>5, <1>6, Zenon DEF ProcessInv
<1>8. whole = commissioner
  BY <1>1, Positions, Zenon DEF whole
<1>9. Atomic!SharedInit /\ Atomic!CommissionerInit /\ Atomic!CommissioneeInit
  BY <1>1, <1>8, SameOperators, Zenon
     DEF Atomic!SharedInit, SharedInit, Atomic!SessionsInit, SessionsInit,
     Atomic!CommissionerInit, Atomic!CommissioneeInit, CommissioneeInit,
     Atomic!NewCommissionee, NewCommissionee
<1> QED
  BY <1>1, <1>7, <1>9, Zenon DEF Atomic!PASEInit

\* StartPASE, whose statements interleave with the receive goroutine, with the
\* device, the network and restarts of either side, implements the handshake in
\* which StartPASE is one step.
THEOREM StartAtomic == ProcessSpec => StartIsAtomic
<1>1. ProcessInit => ProcessInv /\ Atomic!PASEInit
  BY ProcessStarts, Zenon
<1>2. ProcessInv /\ [ProcessNext]_processVars =>
          ProcessInv' /\ [Atomic!PASENext]_(Atomic!paseVars)
  BY ProcessStep, Zenon
<1>3. ProcessSpec => ProcessInit /\ [][ProcessNext]_processVars
  BY PTL DEF ProcessSpec
<1> QED
  BY <1>1, <1>2, <1>3, PTL DEF StartIsAtomic, Atomic!PASESpec
=============================================================================
