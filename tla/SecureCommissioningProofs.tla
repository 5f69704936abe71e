--------------------- MODULE SecureCommissioningProofs ----------------------
(***************************************************************************)
(* No frame crosses from one exchange to another, for any number of        *)
(* controllers, attempts, faults and frames.                               *)
(***************************************************************************)
EXTENDS SecureCommissioning, PASEProofs, DataProofs

SessionTable == [Manager -> [SessionID -> SessionType \cup {NoSession}]]

\* What was verified stays verified.
LEMMA ConfirmedGrows ==
    ASSUME confirmed \subseteq confirmed', NEW m, NEW key
    PROVE  /\ SealsWith(confirmed, m, key) => SealsWith(confirmed', m, key)
           /\ OpensWith(confirmed, m, key) => OpensWith(confirmed', m, key)
BY Zenon DEF SealsWith, OpensWith

\* A step that leaves every session alone, removes it, or gives it keys of a
\* verified secret.
LEMMA SessionsFrame ==
    ASSUME SessionsConfirmed, confirmed \subseteq confirmed',
           \A m \in Manager, id \in SessionID :
               \/ sessions'[m][id] = sessions[m][id]
               \/ sessions'[m][id] = NoSession
               \/ /\ SealsWith(confirmed', m, sessions'[m][id].EncryptKey)
                  /\ OpensWith(confirmed', m, sessions'[m][id].DecryptKey)
    PROVE  SessionsConfirmed'
<1> SUFFICES ASSUME NEW m \in Manager, NEW id \in SessionID, sessions'[m][id] # NoSession
             PROVE  /\ SealsWith(confirmed', m, sessions'[m][id].EncryptKey)
                    /\ OpensWith(confirmed', m, sessions'[m][id].DecryptKey)
  BY Zenon DEF SessionsConfirmed
<1>1. CASE sessions'[m][id] = sessions[m][id]
  <2>1. /\ SealsWith(confirmed, m, sessions[m][id].EncryptKey)
        /\ OpensWith(confirmed, m, sessions[m][id].DecryptKey)
    BY <1>1, Zenon DEF SessionsConfirmed
  <2> QED
    BY <1>1, <2>1, ConfirmedGrows, Zenon
<1> QED
  BY <1>1, Zenon

\* installPASESession gives the session keys of a verified secret.
LEMMA InstalledConfirmed ==
    ASSUME PASETypeOK, NEW m \in Manager, NEW id, NEW ke, NEW role, NEW k \in confirmed',
           sessions' = [sessions EXCEPT ![m][id] =
                           NewSession(DeriveSessionKeysFromKe(ke), role)],
           k[2] = ke,
           \/ m = Device /\ role = "Responder"
           \/ m # Device /\ k[1] = m /\ role = "Initiator"
    PROVE  \A n \in Manager, i \in SessionID :
               \/ sessions'[n][i] = sessions[n][i]
               \/ /\ SealsWith(confirmed', n, sessions'[n][i].EncryptKey)
                  /\ OpensWith(confirmed', n, sessions'[n][i].DecryptKey)
<1> DEFINE s == NewSession(DeriveSessionKeysFromKe(ke), role)
<1>1. /\ role = "Responder" => s.EncryptKey = <<"R2I", ke>> /\ s.DecryptKey = <<"I2R", ke>>
      /\ role = "Initiator" => s.EncryptKey = <<"I2R", ke>> /\ s.DecryptKey = <<"R2I", ke>>
  BY Zenon DEF NewSession, DeriveSessionKeysFromKe
<1> HIDE DEF s
<1>2. \A n \in Manager, i \in SessionID :
          sessions'[n][i] = IF n = m /\ i = id THEN s ELSE sessions[n][i]
  BY Zenon DEF PASETypeOK, s
<1>3. SealsWith(confirmed', m, s.EncryptKey) /\ OpensWith(confirmed', m, s.DecryptKey)
  <2>1. CASE m = Device
    BY <1>1, <2>1, ZenonT(60) DEF SealsWith, OpensWith
  <2>2. CASE m # Device
    BY <1>1, <2>2, ZenonT(60) DEF SealsWith, OpensWith
  <2> QED
    BY <2>1, <2>2, Zenon
<1> QED
  <2> TAKE n \in Manager, i \in SessionID
  <2>1. CASE n = m /\ i = id
    <3>1. sessions'[n][i] = s
      BY <1>2, <2>1, Zenon
    <3> QED
      BY <1>3, <2>1, <3>1, Zenon
  <2>2. CASE ~(n = m /\ i = id)
    BY <1>2, <2>2, Zenon
  <2> QED
    BY <2>1, <2>2, Zenon

-----------------------------------------------------------------------------
\* What a step of the handshake does to the session tables and to the Pake3
\* frames in flight: nothing but forget some, ...
NothingInstalled ==
    /\ \A g \in net' : g.Opcode = "Pake3" => g \in net
    /\ \A m \in Manager, id \in SessionID :
           sessions'[m][id] = sessions[m][id] \/ sessions'[m][id] = NoSession

\* ... install a secret at controller c that nobody had, and send the Pake3 that
\* carries its confirmation, ...
ControllerInstalls(c, new) ==
    LET ke == <<"Ke", new.Payload.cA[2]>>
    IN  /\ <<c, ke>> \in confirmed'
        /\ \A k \in confirmed : k[2] # ke
        /\ sessions' = [sessions EXCEPT ![c][InitiatorID] =
                            NewSession(DeriveSessionKeysFromKe(ke), "Initiator")]
        /\ \A g \in net' : g.Opcode = "Pake3" => g \in net \/ g = new

\* ... or use a Pake3 up to install its secret at the device.
DeviceInstalls(f) ==
    LET ke == <<"Ke", f.Payload.cA[2]>>
    IN  /\ f.Opcode = "Pake3"
        /\ sessions' = [sessions EXCEPT ![Device][ResponderID] =
                            NewSession(DeriveSessionKeysFromKe(ke), "Responder")]
        /\ net' \subseteq net
        /\ "Pake3" \notin FaultKinds => f \notin net'

\* handlePake2 installs what it has verified, under a prover it finalizes once.
LEMMA Pake2Installs ==
    ASSUME PASEInv, PASEInv', NEW c \in Commissioners, NEW f \in net,
           CommissionerReceives(c, f), handlePake2(c, f)
    PROVE  NothingInstalled \/ \E new : ControllerInstalls(c, new)
<1> DEFINE cm     == commissioner[c]
           prover == ProverFinalize(cm.prover, f.Payload.pB)
           ke     == prover.keys.ke
<1>0. /\ PASETypeOK /\ CommissionerInv(c) /\ cm \in CommissionerType /\ faults \in Nat
      /\ f \in FrameType
  BY Zenon DEF PASEInv, PASETypeOK
<1>1. \/ UNCHANGED sessions /\ Handle(f, {})
      \/ /\ cm.prover # Nil /\ cm.prover.keys = Nil
         /\ installPASESession(c, cm.SessionID, ke, "Initiator")
         /\ \E ctr :
              /\ commissioner' = [commissioner EXCEPT ![c] =
                     [@ EXCEPT !.prover = prover, !.Ke = ke,
                               !.MessageCounter = ctr, !.State = "Complete"]]
              /\ Handle(f, {Frame("Pake3", c, Device, ctr, [cA |-> prover.keys.cA])})
  BY ZenonT(60) DEF handlePake2, Finalizable
<1>2. CASE UNCHANGED sessions /\ Handle(f, {})
  BY <1>0, <1>2, HandleNet DEF NothingInstalled
<1>3. ASSUME cm.prover # Nil, cm.prover.keys = Nil,
             installPASESession(c, cm.SessionID, ke, "Initiator"),
             NEW ctr,
             commissioner' = [commissioner EXCEPT ![c] =
                 [@ EXCEPT !.prover = prover, !.Ke = ke,
                           !.MessageCounter = ctr, !.State = "Complete"]],
             Handle(f, {Frame("Pake3", c, Device, ctr, [cA |-> prover.keys.cA])})
      PROVE  \E new : ControllerInstalls(c, new)
  <2> DEFINE new == Frame("Pake3", c, Device, ctr, [cA |-> prover.keys.cA])
  <2>1. ke = <<"Ke", prover.keys.cA[2]>>
    <3>1. cm.prover \in Prover /\ f.Payload.pB \in Point("N")
      BY ZenonT(60), <1>0, <1>3, FrameFacts DEF CommissionerType, handlePake2
    <3> QED
      BY <3>1, FinalizedProver, Zenon DEF FinalOf
  <2>2. \A k \in confirmed : k[2] # ke
    BY <1>3, Pake2Fresh, Zenon
  <2>3. cm.SessionID = InitiatorID
    BY ZenonT(60), <1>0, <1>3 DEF CommissionerInv
  <2> HIDE DEF ke, prover
  <2>4. commissioner'[c].Ke = ke /\ commissioner'[c].State = "Complete"
    BY <1>0, <1>3, Zenon DEF PASETypeOK, CommissionerType
  <2>5. <<c, ke>> \in confirmed'
    BY ZenonT(60), <2>4 DEF PASEInv, CommissionerInv
  <2>6. net' \subseteq net \cup {new}
    BY <1>0, <1>3, HandleNet, Zenon
  <2>7. ke = <<"Ke", new.Payload.cA[2]>>
    BY <2>1, Zenon DEF Frame
  <2>8. sessions' = [sessions EXCEPT ![c][InitiatorID] =
                        NewSession(DeriveSessionKeysFromKe(ke), "Initiator")]
    BY ZenonT(60), <1>3, <2>3 DEF installPASESession, InstallSecureSession
  <2> HIDE DEF new
  <2>9. ControllerInstalls(c, new)
    BY ZenonT(60), <2>2, <2>5, <2>6, <2>7, <2>8 DEF ControllerInstalls
  <2> QED
    BY <2>9, Zenon
<1> HIDE DEF prover, ke, cm
<1> QED
  BY ZenonT(60), <1>1, <1>2, <1>3

\* handlePake3 installs the secret of the Pake3 it handles, which is gone unless
\* the network holds a second copy.
LEMMA Pake3Installs ==
    ASSUME PASEInv, PASEInv', NEW f \in net, DeviceReceives(f), handlePake3(f)
    PROVE  NothingInstalled \/ DeviceInstalls(f)
<1> DEFINE v  == commissionee.verifier
           ke == v.keys.ke
<1>0. /\ CommissioneeInv /\ commissionee \in CommissioneeType /\ faults \in Nat
      /\ f.Opcode = "Pake3" /\ Handle(f, {})
  BY Zenon DEF PASEInv, PASETypeOK, handlePake3
<1>1. net' \subseteq net /\ ("Pake3" \notin FaultKinds => f \notin net')
  BY <1>0, Zenon DEF Handle, Fault
<1>2. CASE UNCHANGED sessions
  BY <1>1, <1>2, Zenon DEF NothingInstalled
<1>3. CASE /\ v # Nil /\ v.keys.cA = f.Payload.cA
           /\ installPASESession(Device, commissionee.SessionID, ke, "Responder")
           /\ commissionee' = [commissionee EXCEPT !.Ke = ke, !.State = "Complete"]
  <2>1. ke \in Secret(DeviceContext)
    BY ZenonT(60), <1>0, <1>3 DEF CommissioneeType, Verifier, Keys
  <2>2. ke = <<"Ke", f.Payload.cA[2]>>
    BY SMTT(60), <1>0, <1>3, <2>1 DEF CommissioneeInv, Secret
  <2> HIDE DEF ke
  <2>3. /\ commissionee'.Ke = ke /\ commissionee'.State = "Complete"
        /\ commissionee'.SessionID = commissionee.SessionID
    BY <1>0, <1>3, Zenon DEF CommissioneeType
  <2>4. commissionee.SessionID = ResponderID
    BY ZenonT(60), <2>3 DEF PASEInv, CommissioneeInv
  <2>5. sessions' = [sessions EXCEPT ![Device][ResponderID] =
                        NewSession(DeriveSessionKeysFromKe(ke), "Responder")]
    BY ZenonT(60), <1>3, <2>4 DEF installPASESession, InstallSecureSession
  <2> QED
    BY ZenonT(60), <1>0, <1>1, <2>2, <2>5 DEF DeviceInstalls
<1> QED
  BY ZenonT(60), <1>2, <1>3 DEF handlePake3, VerifyConfirmationA

\* Nothing but handlePake2 and handlePake3 installs.
LEMMA HandshakeInstalls ==
    ASSUME PASEInv, PASEInv', [PASENext]_paseVars
    PROVE  /\ confirmed \subseteq confirmed'
           /\ \/ NothingInstalled
              \/ \E c \in Commissioners : \E new : ControllerInstalls(c, new)
              \/ \E f \in net : DeviceInstalls(f)
<1> DEFINE Goal == /\ confirmed \subseteq confirmed'
                   /\ \/ NothingInstalled
                      \/ \E c \in Commissioners : \E new : ControllerInstalls(c, new)
                      \/ \E f \in net : DeviceInstalls(f)
<1>0. PASETypeOK /\ faults \in Nat /\ Commissioners \subseteq Manager /\ Device \in Manager
  BY PartyAssumption, Zenon DEF PASEInv, PASETypeOK
<1>1. ASSUME UNCHANGED sessions, confirmed \subseteq confirmed',
             NEW g, g.Opcode # "Pake3", net' \subseteq net \cup {g}
      PROVE  Goal
  BY <1>1, Zenon DEF NothingInstalled
<1>2. ASSUME UNCHANGED sessions, confirmed \subseteq confirmed', net' \subseteq net
      PROVE  Goal
  BY <1>2, Zenon DEF NothingInstalled
<1>3. ASSUME NEW m \in Manager, confirmed' = confirmed, net' = net,
             sessions' = [sessions EXCEPT ![m] = [id \in SessionID |-> NoSession]]
      PROVE  Goal
  BY <1>0, <1>3, Zenon DEF PASETypeOK, NothingInstalled
<1>4. \A opcode, from, to, ctr, payload : Frame(opcode, from, to, ctr, payload).Opcode = opcode
  BY Zenon DEF Frame
<1> SUFFICES Goal
  BY Zenon
<1> HIDE DEF Goal
<1>5. ASSUME NEW f \in net, NEW c \in Commissioners, CommissionerReceives(c, f) PROVE Goal
  <2>1. confirmed \subseteq confirmed'
    BY <1>5, Zenon DEF CommissionerReceives
  <2>2. CASE handlePBKDFParamResponse(c, f)
    <3>1. /\ UNCHANGED sessions
          /\ \/ \E ctr, payload : Handle(f, {Frame("Pake1", c, Device, ctr, payload)})
             \/ Handle(f, {})
      BY ZenonT(60), <2>2 DEF handlePBKDFParamResponse
    <3>2. CASE Handle(f, {})
      BY <1>0, <1>2, <2>1, <3>1, <3>2, HandleNet, SMTT(60)
    <3>3. ASSUME NEW g, g.Opcode = "Pake1", Handle(f, {g}) PROVE Goal
      BY <1>0, <1>1, <2>1, <3>1, <3>3, HandleNet, Zenon
    <3>4. ASSUME NEW ctr, NEW payload, Handle(f, {Frame("Pake1", c, Device, ctr, payload)})
          PROVE  Goal
      BY <1>4, <3>3, <3>4
    <3> QED
      BY ZenonT(60), <3>1, <3>2, <3>4
  <2>3. CASE handlePake2(c, f)
    BY <1>5, <2>1, <2>3, Pake2Installs, Zenon DEF Goal
  <2> QED
    BY <1>5, <2>2, <2>3, Zenon DEF CommissionerReceives, CommissionerHandleMessage
<1>6. ASSUME NEW f \in net, DeviceReceives(f) PROVE Goal
  <2>1. confirmed' = confirmed
    BY <1>6, Zenon DEF DeviceReceives
  <2>2. CASE handlePBKDFParamRequest(f)
    <3>1. UNCHANGED sessions /\ \E ctr, payload :
              Handle(f, {Frame("PBKDFParamResponse", Device, f.from, ctr, payload)})
      BY ZenonT(60), <2>2 DEF handlePBKDFParamRequest
    <3>2. ASSUME NEW g, g.Opcode = "PBKDFParamResponse", Handle(f, {g}) PROVE Goal
      BY <1>0, <1>1, <2>1, <3>1, <3>2, HandleNet, Zenon
    <3> QED
      BY <1>4, <3>1, <3>2
  <2>3. CASE handlePake1(f)
    <3>1. UNCHANGED sessions /\ \E ctr, payload :
              Handle(f, {Frame("Pake2", Device, f.from, ctr, payload)})
      BY ZenonT(60), <2>3 DEF handlePake1
    <3>2. ASSUME NEW g, g.Opcode = "Pake2", Handle(f, {g}) PROVE Goal
      BY <1>0, <1>1, <2>1, <3>1, <3>2, HandleNet, Zenon
    <3> QED
      BY <1>4, <3>1, <3>2
  <2>4. CASE handlePake3(f)
    BY <1>6, <2>1, <2>4, Pake3Installs, Zenon DEF Goal
  <2> QED
    BY <1>6, <2>2, <2>3, <2>4, Zenon DEF DeviceReceives, CommissioneeHandleMessage
<1>7. ASSUME NEW c \in Commissioners, NEW passcode, CommissionerStarts(c, passcode) PROVE Goal
  <2>1. /\ UNCHANGED sessions /\ confirmed' = confirmed
        /\ \E ctr, payload :
              net' = net \cup {Frame("PBKDFParamRequest", c, Device, ctr, payload)}
    BY ZenonT(60), <1>7 DEF CommissionerStarts, StartPASE
  <2> QED
    BY <1>1, <1>4, <2>1
<1>8. CASE \E c \in Commissioners : CommissionerStartsCASE(c)
  BY <1>2, <1>8, Zenon DEF CommissionerStartsCASE, StartCASE
<1>9. CASE \E f \in net : NetworkLoses(f)
  BY <1>2, <1>9, Zenon DEF NetworkLoses, Lose
<1>10. CASE DeviceRestarts
  BY <1>0, <1>3, <1>10, ZenonT(60) DEF DeviceRestarts, Restart
<1>11. CASE \E c \in Commissioners : CommissionerRestarts(c)
  BY <1>0, <1>3, <1>11 DEF CommissionerRestarts, CommissionerRestart
<1>12. CASE UNCHANGED paseVars
  BY <1>2, <1>12, Zenon DEF paseVars
<1> QED
  BY <1>5, <1>6, <1>7, <1>8, <1>9, <1>10, <1>11, <1>12, Zenon DEF PASENext, Receives

\* So sessions only get keys of verified secrets.
LEMMA HandshakeSessions ==
    ASSUME PASEInv, PASEInv', SessionsConfirmed, [PASENext]_paseVars
    PROVE  confirmed \subseteq confirmed' /\ SessionsConfirmed'
<1>0. PASETypeOK /\ Device \in Manager
  BY PartyAssumption, Zenon DEF PASEInv
<1>1. confirmed \subseteq confirmed'
  BY HandshakeInstalls, Zenon
<1>2. CASE NothingInstalled
  BY <1>1, <1>2, SessionsFrame, Zenon DEF NothingInstalled
<1>3. ASSUME NEW c \in Commissioners, NEW new, ControllerInstalls(c, new)
      PROVE  SessionsConfirmed'
  <2> DEFINE ke == <<"Ke", new.Payload.cA[2]>>
  <2>1. /\ <<c, ke>> \in confirmed'
        /\ sessions' = [sessions EXCEPT ![c][InitiatorID] =
                            NewSession(DeriveSessionKeysFromKe(ke), "Initiator")]
    BY <1>3, Zenon DEF ControllerInstalls
  <2>0. c \in Manager /\ c # Device
    BY PartyAssumption, Zenon
  <2> HIDE DEF ke
  <2>2. \A n \in Manager, i \in SessionID :
            \/ sessions'[n][i] = sessions[n][i]
            \/ /\ SealsWith(confirmed', n, sessions'[n][i].EncryptKey)
               /\ OpensWith(confirmed', n, sessions'[n][i].DecryptKey)
    BY <1>0, <2>0, <2>1, InstalledConfirmed, ZenonT(60)
  <2> QED
    BY <1>1, <2>2, SessionsFrame, Zenon
<1>4. ASSUME NEW f \in net, DeviceInstalls(f)
      PROVE  SessionsConfirmed'
  <2> DEFINE ke == <<"Ke", f.Payload.cA[2]>>
  <2>1. sessions' = [sessions EXCEPT ![Device][ResponderID] =
                        NewSession(DeriveSessionKeysFromKe(ke), "Responder")]
    BY <1>4, Zenon DEF DeviceInstalls
  <2>2. <<f.from, ke>> \in confirmed'
    BY ZenonT(60), <1>1, <1>4 DEF PASEInv, NetInv, DeviceInstalls
  <2> HIDE DEF ke
  <2>3. \A n \in Manager, i \in SessionID :
            \/ sessions'[n][i] = sessions[n][i]
            \/ /\ SealsWith(confirmed', n, sessions'[n][i].EncryptKey)
               /\ OpensWith(confirmed', n, sessions'[n][i].DecryptKey)
    BY <1>0, <2>1, <2>2, InstalledConfirmed, ZenonT(60)
  <2> QED
    BY <1>1, <2>3, SessionsFrame, Zenon
<1> QED
  BY <1>1, <1>2, <1>3, <1>4, HandshakeInstalls, Zenon

\* Who has a prover or an identifier has met its peer's parameters: they are
\* assigned together, and forgotten together in a restart.
LEMMA HandshakePeers ==
    ASSUME PASEInv, PeersKnown, [PASENext]_paseVars
    PROVE  PeersKnown'
<1>0. /\ PASETypeOK /\ net \subseteq FrameType
      /\ commissioner \in [Commissioners -> CommissionerType]
      /\ commissionee \in CommissioneeType
  BY Zenon DEF PASEInv, PASETypeOK
<1> DEFINE Met(cm) == cm.prover # Nil => cm.ResponsePayload # Nil
           Known   == commissionee.SessionID # 0 => commissionee.RequestPayload # Nil
<1>1. ASSUME NEW c \in Commissioners, NEW cm, Met(cm),
             commissioner' = [commissioner EXCEPT ![c] = cm], UNCHANGED commissionee
      PROVE  PeersKnown'
  BY <1>0, <1>1, Zenon DEF PeersKnown
<1>2. ASSUME Known', UNCHANGED commissioner PROVE PeersKnown'
  BY <1>2, Zenon DEF PeersKnown
<1>3. ASSUME UNCHANGED <<commissioner, commissionee>> PROVE PeersKnown'
  BY <1>3, Zenon DEF PeersKnown
<1>4. ASSUME NEW f \in net, NEW c \in Commissioners, CommissionerReceives(c, f)
      PROVE  PeersKnown'
  <2>0. UNCHANGED commissionee /\ commissioner[c] \in CommissionerType /\ Met(commissioner[c])
    BY <1>0, <1>4, Zenon DEF CommissionerReceives, PeersKnown
  <2>1. CASE handlePBKDFParamResponse(c, f)
    <3>1. f.Payload \in Response
      BY <1>0, <2>1, FrameFacts, ZenonT(60) DEF handlePBKDFParamResponse
    <3>2. f.Payload # Nil
      BY <3>1, NilAssumption, Zenon
    <3>3. \/ UNCHANGED commissioner
          \/ \E prover, ctr : commissioner' = [commissioner EXCEPT ![c] =
                 [@ EXCEPT !.ResponsePayload = f.Payload, !.prover = prover,
                           !.MessageCounter = ctr, !.State = "Pake2"]]
      BY ZenonT(60), <2>1 DEF handlePBKDFParamResponse
    <3>4. ASSUME NEW prover, NEW ctr, commissioner' = [commissioner EXCEPT ![c] =
                 [@ EXCEPT !.ResponsePayload = f.Payload, !.prover = prover,
                           !.MessageCounter = ctr, !.State = "Pake2"]]
          PROVE  PeersKnown'
      <4> DEFINE cm == [commissioner[c] EXCEPT !.ResponsePayload = f.Payload,
                            !.prover = prover, !.MessageCounter = ctr, !.State = "Pake2"]
      <4>1. Met(cm)
        BY <2>0, <3>2, Zenon DEF CommissionerType
      <4>2. commissioner' = [commissioner EXCEPT ![c] = cm]
        BY <1>0, <3>4, Zenon
      <4> HIDE DEF cm, Met
      <4> QED
        BY <1>1, <2>0, <4>1, <4>2, ZenonT(60)
    <3> QED
      BY <1>3, <2>0, <3>3, <3>4, ZenonT(60)
  <2>2. CASE handlePake2(c, f)
    <3>1. \/ UNCHANGED commissioner
          \/ /\ Finalizable(commissioner[c].prover)
             /\ \E prover : commissioner' = [commissioner EXCEPT ![c].prover = prover]
          \/ /\ Finalizable(commissioner[c].prover)
             /\ \E prover, ke, ctr : commissioner' = [commissioner EXCEPT ![c] =
                    [@ EXCEPT !.prover = prover, !.Ke = ke,
                              !.MessageCounter = ctr, !.State = "Complete"]]
      BY ZenonT(60), <2>2 DEF handlePake2
    <3>2. Finalizable(commissioner[c].prover) => commissioner[c].ResponsePayload # Nil
      BY <2>0, Zenon DEF Finalizable
    <3>3. ASSUME Finalizable(commissioner[c].prover), NEW prover,
                 commissioner' = [commissioner EXCEPT ![c].prover = prover]
          PROVE  PeersKnown'
      <4> DEFINE cm == [commissioner[c] EXCEPT !.prover = prover]
      <4>1. Met(cm)
        BY <2>0, <3>2, <3>3, Zenon DEF CommissionerType
      <4>2. commissioner' = [commissioner EXCEPT ![c] = cm]
        BY <1>0, <3>3, Zenon
      <4> HIDE DEF cm, Met
      <4> QED
        BY <1>1, <2>0, <4>1, <4>2, ZenonT(60)
    <3>4. ASSUME Finalizable(commissioner[c].prover), NEW prover, NEW ke, NEW ctr,
                 commissioner' = [commissioner EXCEPT ![c] =
                    [@ EXCEPT !.prover = prover, !.Ke = ke,
                              !.MessageCounter = ctr, !.State = "Complete"]]
          PROVE  PeersKnown'
      <4> DEFINE cm == [commissioner[c] EXCEPT !.prover = prover, !.Ke = ke,
                            !.MessageCounter = ctr, !.State = "Complete"]
      <4>1. Met(cm)
        BY <2>0, <3>2, <3>4, Zenon DEF CommissionerType
      <4>2. commissioner' = [commissioner EXCEPT ![c] = cm]
        BY <1>0, <3>4, Zenon
      <4> HIDE DEF cm, Met
      <4> QED
        BY <1>1, <2>0, <4>1, <4>2, ZenonT(60)
    <3> QED
      BY <1>3, <2>0, <3>1, <3>3, <3>4, ZenonT(60)
  <2> QED
    BY <1>4, <2>1, <2>2, Zenon DEF CommissionerReceives, CommissionerHandleMessage
<1>5. ASSUME NEW f \in net, DeviceReceives(f) PROVE PeersKnown'
  <2>0. UNCHANGED commissioner /\ Known
    BY <1>5, Zenon DEF DeviceReceives, PeersKnown
  <2>1. CASE handlePBKDFParamRequest(f)
    <3>1. f.Payload # Nil
      BY <1>0, <2>1, FrameFacts, NilAssumption DEF handlePBKDFParamRequest
    <3>2. commissionee'.RequestPayload = f.Payload
      BY <1>0, <2>1, ZenonT(60) DEF handlePBKDFParamRequest, CommissioneeType
    <3> QED
      BY <1>2, <2>0, <3>1, <3>2, Zenon
  <2>2. CASE handlePake1(f)
    <3>1. /\ commissionee'.RequestPayload = commissionee.RequestPayload
          /\ commissionee'.SessionID = commissionee.SessionID
      BY <1>0, <2>2, Zenon DEF handlePake1, CommissioneeType
    <3> QED
      BY <1>2, <2>0, <3>1, Zenon
  <2>3. CASE handlePake3(f)
    <3>1. /\ commissionee'.RequestPayload = commissionee.RequestPayload
          /\ commissionee'.SessionID = commissionee.SessionID
      BY <1>0, <2>3, ZenonT(60) DEF handlePake3, CommissioneeType
    <3> QED
      BY <1>2, <2>0, <3>1, Zenon
  <2> QED
    BY <1>5, <2>1, <2>2, <2>3, Zenon DEF DeviceReceives, CommissioneeHandleMessage
<1>6. CASE DeviceRestarts
  BY <1>2, <1>6, Zenon DEF DeviceRestarts, Restart, NewCommissionee
<1>7. ASSUME NEW c \in Commissioners, CommissionerRestarts(c) PROVE PeersKnown'
  <2>1. Met(NewCommissioner)
    BY Zenon DEF NewCommissioner
  <2> QED
    BY <1>1, <1>7, <2>1 DEF CommissionerRestarts, CommissionerRestart
<1>8. ASSUME NEW c \in Commissioners, NEW passcode, CommissionerStarts(c, passcode)
      PROVE  PeersKnown'
  <2>1. PICK sid, ctr, req : commissioner' = [commissioner EXCEPT ![c] =
               [@ EXCEPT !.Passcode = passcode, !.Random = Fresh(c),
                         !.SessionID = sid, !.MessageCounter = ctr,
                         !.RequestPayload = req, !.State = "PBKDFParamResponse"]]
    BY ZenonT(120), <1>8 DEF CommissionerStarts, StartPASE
  <2> DEFINE cm == [commissioner[c] EXCEPT !.Passcode = passcode, !.Random = Fresh(c),
                         !.SessionID = sid, !.MessageCounter = ctr,
                         !.RequestPayload = req, !.State = "PBKDFParamResponse"]
  <2>2. commissioner[c] \in CommissionerType /\ Met(commissioner[c])
    BY <1>0, Zenon DEF PeersKnown
  <2>3. Met(cm)
    BY <2>2, Zenon DEF CommissionerType
  <2>4. commissioner' = [commissioner EXCEPT ![c] = cm] /\ UNCHANGED commissionee
    BY <1>0, <1>8, <2>1, Zenon DEF CommissionerStarts
  <2> HIDE DEF cm, Met
  <2> QED
    BY <1>1, <2>3, <2>4, ZenonT(60)
<1>9. ASSUME NEW c \in Commissioners, CommissionerStartsCASE(c) PROVE PeersKnown'
  <2> DEFINE cm == [commissioner[c] EXCEPT !.State = "CASE"]
  <2>1. commissioner[c] \in CommissionerType /\ Met(commissioner[c])
    BY <1>0, Zenon DEF PeersKnown
  <2>2. Met(cm)
    BY <2>1, Zenon DEF CommissionerType
  <2>3. commissioner' = [commissioner EXCEPT ![c] = cm] /\ UNCHANGED commissionee
    BY <1>0, <1>9, Zenon DEF CommissionerStartsCASE, StartCASE
  <2> HIDE DEF cm, Met
  <2> QED
    BY <1>1, <2>2, <2>3, ZenonT(60)
<1>10. CASE \E f \in net : NetworkLoses(f)
  BY <1>3, <1>10, Zenon DEF NetworkLoses
<1>11. CASE UNCHANGED paseVars
  BY <1>3, <1>11, Zenon DEF paseVars
<1> QED
  BY <1>4, <1>5, <1>6, <1>7, <1>8, <1>9, <1>10, <1>11, Zenon DEF PASENext, Receives

-----------------------------------------------------------------------------
\* The traffic counts and moves windows, but no session gets other keys,
\* appears or disappears.
KeysKept ==
    /\ sessions' \in SessionTable
    /\ \A m \in Manager, id \in SessionID :
           IF sessions[m][id] = NoSession THEN sessions'[m][id] = NoSession
           ELSE /\ sessions'[m][id] # NoSession
                /\ sessions'[m][id].EncryptKey = sessions[m][id].EncryptKey
                /\ sessions'[m][id].DecryptKey = sessions[m][id].DecryptKey
                /\ sessions'[m][id].AttestationChallenge
                       = sessions[m][id].AttestationChallenge

\* A session of its type with the keys of the one it replaces.
LEMMA SessionUpdated ==
    ASSUME PASETypeOK, NEW m \in Manager, NEW id \in SessionID,
           sessions[m][id] # NoSession,
           NEW t \in SessionType,
           t.EncryptKey = sessions[m][id].EncryptKey,
           t.DecryptKey = sessions[m][id].DecryptKey,
           t.AttestationChallenge = sessions[m][id].AttestationChallenge,
           sessions' = [sessions EXCEPT ![m][id] = t]
    PROVE  KeysKept
<1>1. sessions \in SessionTable /\ t # NoSession
  BY NilAssumption, Zenon DEF PASETypeOK, SessionTable
<1>2. sessions' \in SessionTable
  BY <1>1, Zenon DEF SessionTable
<1>3. \A n \in Manager, i \in SessionID :
          sessions'[n][i] = IF n = m /\ i = id THEN t ELSE sessions[n][i]
  BY <1>1, Zenon DEF SessionTable
<1> QED
  BY <1>1, <1>2, <1>3, SMTT(60) DEF KeysKept

\* NextOutboundCounter counts within 32 bits and keeps the keys.
LEMMA CounterKeysKept ==
    ASSUME PASETypeOK, NEW m \in Manager, NEW id \in SessionID,
           sessions[m][id] # NoSession, NextOutboundCounter(m, id)
    PROVE  KeysKept /\ sessions[m][id].OutCounter + 1 \in 1 .. CounterMax
<1> DEFINE s == sessions[m][id]
           t == [s EXCEPT !.OutCounter = s.OutCounter + 1]
<1>1. s \in SessionType
  BY Zenon DEF PASETypeOK
<1>2. s.OutCounter \in 0 .. CounterMax /\ s.OutCounter # CounterMax
  BY <1>1, Zenon DEF SessionType, NextOutboundCounter
<1>3. s.OutCounter + 1 \in 1 .. CounterMax
  BY <1>2, CounterMaxAssumption
<1>4. /\ t \in SessionType
      /\ t.EncryptKey = s.EncryptKey /\ t.DecryptKey = s.DecryptKey
      /\ t.AttestationChallenge = s.AttestationChallenge
  BY <1>1, <1>3, CounterMaxAssumption DEF SessionType
<1>5. sessions' = [sessions EXCEPT ![m][id] = t]
  BY Zenon DEF NextOutboundCounter, PASETypeOK
<1> HIDE DEF t
<1>6. KeysKept
  BY <1>4, <1>5, SessionUpdated, ZenonT(60)
<1> QED
  BY <1>3, <1>6, Zenon

\* What DecryptPayload does to a session that takes the counter c.
CommitsTo(m, id, c) == sessions' = [sessions EXCEPT ![m][id].replay = Commit(@, c)]

\* A commit of the replay window keeps the keys.
LEMMA CommitKeysKept ==
    ASSUME PASETypeOK, NEW m \in Manager, NEW id \in SessionID,
           sessions[m][id] # NoSession, NEW c \in 1 .. CounterMax,
           Accepts(sessions[m][id].replay, c), CommitsTo(m, id, c)
    PROVE  KeysKept
<1> DEFINE s == sessions[m][id]
           w == Commit(s.replay, c)
           t == [s EXCEPT !.replay = w]
<1>1. s \in SessionType
  BY Zenon DEF PASETypeOK
<1>2. s.replay \in [max : 0 .. CounterMax, bitmap : SUBSET Bit]
  BY <1>1, Zenon DEF SessionType
<1>3. w \in [max : 0 .. CounterMax, bitmap : SUBSET Bit]
  BY <1>2, CommitBounded, CounterMaxAssumption, Zenon
<1>4. sessions' = [sessions EXCEPT ![m][id] = t]
  BY Zenon DEF CommitsTo, PASETypeOK
<1> HIDE DEF w
<1>5. /\ t \in SessionType
      /\ t.EncryptKey = s.EncryptKey /\ t.DecryptKey = s.DecryptKey
      /\ t.AttestationChallenge = s.AttestationChallenge
  BY <1>1, <1>3, Zenon DEF SessionType
<1> HIDE DEF t
<1> QED
  BY <1>4, <1>5, SessionUpdated, ZenonT(120)

\* The handshake does not notice the traffic.
LEMMA TrafficKeepsHandshake ==
    ASSUME PASEInv, PeersKnown, SessionsConfirmed, HandshakeUnchanged, KeysKept
    PROVE  PASEInv' /\ PeersKnown' /\ SessionsConfirmed'
<1>0. /\ commissioner' = commissioner /\ commissionee' = commissionee /\ net' = net
      /\ draws' = draws /\ faults' = faults /\ calls' = calls
      /\ computed' = computed /\ confirmed' = confirmed
  BY Zenon DEF HandshakeUnchanged
<1>1. ASSUME NEW m \in Manager, NEW id, NEW ke, NEW role, HoldsKeys(m, id, ke, role)
      PROVE  HoldsKeys(m, id, ke, role)'
  <2> DEFINE n == NewSession(DeriveSessionKeysFromKe(ke), role)
  <2>1. /\ id \in SessionID /\ sessions[m][id] # NoSession
        /\ sessions[m][id].EncryptKey = n.EncryptKey
        /\ sessions[m][id].DecryptKey = n.DecryptKey
        /\ sessions[m][id].AttestationChallenge = n.AttestationChallenge
    BY <1>1, Zenon DEF HoldsKeys
  <2>2. HoldsKeys(m, id, ke, role)' <=>
            /\ id \in SessionID /\ sessions'[m][id] # NoSession
            /\ sessions'[m][id].EncryptKey = n.EncryptKey
            /\ sessions'[m][id].DecryptKey = n.DecryptKey
            /\ sessions'[m][id].AttestationChallenge = n.AttestationChallenge
    BY Zenon DEF HoldsKeys
  <2> HIDE DEF n
  <2> QED
    BY <2>1, <2>2, Zenon DEF KeysKept
<1>2. PASETypeOK'
  BY <1>0, Zenon DEF PASEInv, PASETypeOK, KeysKept, SessionTable
<1>3. ASSUME NEW c \in Commissioners PROVE CommissionerInv(c)'
  <2>1. CommissionerInv(c) /\ c \in Manager
    BY PartyAssumption, Zenon DEF PASEInv
  <2>2. HoldsKeys(c, InitiatorID, commissioner[c].Ke, "Initiator") =>
            HoldsKeys(c, InitiatorID, commissioner[c].Ke, "Initiator")'
    <3> DEFINE ke == commissioner[c].Ke
    <3>1. ke' = ke
      BY <1>0, Zenon
    <3> QED
      BY ZenonT(60), <1>0, <1>1, <2>1, <3>1
  <2> QED
    BY ZenonT(60), <1>0, <2>1, <2>2 DEF CommissionerInv
<1>4. CommissioneeInv'
  <2>1. CommissioneeInv /\ Device \in Manager
    BY PartyAssumption, Zenon DEF PASEInv
  <2>2. HoldsKeys(Device, ResponderID, commissionee.Ke, "Responder") =>
            HoldsKeys(Device, ResponderID, commissionee.Ke, "Responder")'
    BY ZenonT(60), <1>0, <1>1, <2>1
  <2> QED
    BY ZenonT(60), <1>0, <2>1, <2>2 DEF CommissioneeInv
<1>5. NetInv' /\ \A k \in confirmed' : k[2] \in computed'
  BY <1>0, Zenon DEF PASEInv, NetInv
<1>6. PeersKnown'
  BY <1>0, Zenon DEF PeersKnown
<1>7. SessionsConfirmed'
  BY <1>0, Zenon DEF SessionsConfirmed, KeysKept
<1> QED
  BY <1>2, <1>3, <1>4, <1>5, <1>6, <1>7, Zenon DEF PASEInv

-----------------------------------------------------------------------------
\* A caller of NextOutboundCounter and EncryptPayload.
LEMMA SendTraffic ==
    ASSUME TrafficInv, NEW m \in Manager, NEW id \in SessionID, NEW peerID \in SessionID,
           SendSecured(m, id, peerID), HandshakeUnchanged
    PROVE  TrafficInv'
<1> DEFINE own    == sessions[m][id]
           header == Header(peerID, own.OutCounter + 1)
           ct     == EncryptPayload(m, id, sent, header)
<1>1. /\ own # NoSession /\ NextOutboundCounter(m, id)
      /\ sealed' = sealed \cup {[from |-> m, ciphertext |-> ct]}
      /\ delivered' = delivered
  BY Zenon DEF SendSecured
<1>2. KeysKept /\ own.OutCounter + 1 \in 1 .. CounterMax
  BY <1>1, CounterKeysKept, Zenon DEF TrafficInv, PASEInv
<1>3. PASEInv' /\ PeersKnown' /\ SessionsConfirmed' /\ confirmed' = confirmed
  BY <1>2, TrafficKeepsHandshake, Zenon DEF TrafficInv, HandshakeUnchanged
<1>4. /\ ct.key = own.EncryptKey
      /\ ct.aad \in [SessionID : SessionID, SecurityFlags : {"SessionTypeUnicast"},
                     MessageCounter : 1 .. CounterMax, SourceNodeID : {0}]
  BY <1>2, Zenon DEF EncryptPayload, Encrypt, Header
<1>5. SealsWith(confirmed, m, ct.key)
  BY <1>1, <1>4, ZenonT(60) DEF TrafficInv, SessionsConfirmed
<1> HIDE DEF ct
<1>6. SealedConfirmed'
  <2> SUFFICES ASSUME NEW s \in sealed'
               PROVE  /\ s.from \in Manager
                      /\ SealsWith(confirmed, s.from, s.ciphertext.key)
                      /\ s.ciphertext.aad \in
                             [SessionID : SessionID, SecurityFlags : {"SessionTypeUnicast"},
                              MessageCounter : 1 .. CounterMax, SourceNodeID : {0}]
    BY <1>3, Zenon DEF SealedConfirmed
  <2>1. CASE s \in sealed
    BY <2>1, Zenon DEF TrafficInv, SealedConfirmed
  <2>2. CASE s = [from |-> m, ciphertext |-> ct]
    <3>1. s.from = m /\ s.ciphertext = ct
      BY <2>2, Zenon
    <3> QED
      BY <1>4, <1>5, <3>1, Zenon
  <2> QED
    BY <1>1, <2>1, <2>2, Zenon
<1>7. DeliveredConfirmed'
  BY <1>1, <1>3, Zenon DEF TrafficInv, DeliveredConfirmed
<1> QED
  BY <1>3, <1>6, <1>7, Zenon DEF TrafficInv

\* A caller of DecryptPayload: what opens, opens under a key of the session.
LEMMA DeliveryTraffic ==
    ASSUME TrafficInv, NEW m \in Manager, NEW s \in sealed, Delivery(m, s)
    PROVE  TrafficInv'
<1> DEFINE ct     == s.ciphertext
           c      == ct.aad.MessageCounter
           header == [ct.aad EXCEPT !.MessageCounter = c]
           id     == ct.aad.SessionID
           own    == sessions[m][id]
<1>1. ct.aad \in [SessionID : SessionID, SecurityFlags : {"SessionTypeUnicast"},
                 MessageCounter : 1 .. CounterMax, SourceNodeID : {0}]
  BY Zenon DEF TrafficInv, SealedConfirmed
<1>2. /\ id \in SessionID /\ c \in 1 .. CounterMax
      /\ header.SessionID = id /\ header.MessageCounter = c
  BY <1>1, Zenon
<1>3. /\ DecryptPayload(m, id, ct, header)
      /\ delivered' = IF DecryptResult(m, id, ct, header) = "plaintext"
                      THEN delivered \cup {[to |-> m, ciphertext |-> ct]}
                      ELSE delivered
      /\ sealed' = sealed /\ HandshakeUnchanged /\ confirmed' = confirmed
  BY <1>2, Zenon DEF Delivery, ReceiveSecured, HandshakeUnchanged
<1> HIDE DEF header
<1>4. CASE DecryptResult(m, id, ct, header) # "plaintext"
  <2>1. sessions' = sessions /\ delivered' = delivered
    BY <1>3, <1>4, Zenon DEF DecryptPayload
  <2>2. KeysKept
    BY <2>1, Zenon DEF TrafficInv, PASEInv, PASETypeOK, KeysKept, SessionTable
  <2>3. PASEInv' /\ PeersKnown' /\ SessionsConfirmed'
    BY <1>3, <2>2, TrafficKeepsHandshake, Zenon DEF TrafficInv
  <2> QED
    BY <1>3, <2>1, <2>3, Zenon DEF TrafficInv, SealedConfirmed, DeliveredConfirmed
<1>5. CASE DecryptResult(m, id, ct, header) = "plaintext"
  <2>1. own # NoSession /\ Accepts(own.replay, c) /\ ct.key = own.DecryptKey
    BY <1>2, <1>5, Zenon DEF DecryptResult, Opens
  <2>2. CommitsTo(m, id, c)
    BY <1>2, <1>3, <1>5, Zenon DEF DecryptPayload, CommitsTo
  <2>3. KeysKept
    BY <1>2, <2>1, <2>2, CommitKeysKept, ZenonT(60) DEF TrafficInv, PASEInv
  <2>4. PASEInv' /\ PeersKnown' /\ SessionsConfirmed'
    BY <1>3, <2>3, TrafficKeepsHandshake, Zenon DEF TrafficInv
  <2>5. OpensWith(confirmed, m, ct.key)
    BY <1>2, <2>1, Zenon DEF TrafficInv, SessionsConfirmed
  <2>6. SealedConfirmed'
    BY <1>3, Zenon DEF TrafficInv, SealedConfirmed
  <2>7. delivered' = delivered \cup {[to |-> m, ciphertext |-> ct]}
    BY <1>3, <1>5, Zenon
  <2>8. DeliveredConfirmed'
    BY <1>3, <2>5, <2>7 DEF TrafficInv, DeliveredConfirmed
  <2> QED
    BY <2>4, <2>6, <2>8, Zenon DEF TrafficInv
<1> QED
  BY <1>4, <1>5, Zenon

\* The handshake touches no frame of the traffic.
LEMMA HandshakeTraffic ==
    ASSUME TrafficInv, [PASENext]_paseVars, UNCHANGED channelVars
    PROVE  TrafficInv'
<1>1. PASEInv' /\ PeersKnown'
  BY PASEStep, HandshakePeers, Zenon DEF TrafficInv
<1>2. confirmed \subseteq confirmed' /\ SessionsConfirmed'
  BY <1>1, HandshakeSessions, Zenon DEF TrafficInv
<1>3. sealed' = sealed /\ delivered' = delivered
  BY Zenon DEF channelVars
<1>4. SealedConfirmed'
  BY <1>2, <1>3, ConfirmedGrows, Zenon DEF TrafficInv, SealedConfirmed
<1>5. DeliveredConfirmed'
  BY <1>2, <1>3, ConfirmedGrows, Zenon DEF TrafficInv, DeliveredConfirmed
<1> QED
  BY <1>1, <1>2, <1>4, <1>5, Zenon DEF TrafficInv

\* A step is one of the handshake, a send from one of the two hard-coded
\* identifiers to the other, or a delivery.
LEMMA StepKinds ==
    ASSUME TrafficInv, [Next]_vars
    PROVE  \/ [PASENext]_paseVars /\ UNCHANGED channelVars
           \/ \E m \in Manager, id \in SessionID, peerID \in SessionID :
                  SendSecured(m, id, peerID) /\ HandshakeUnchanged
           \/ \E m \in Manager, s \in sealed : Delivery(m, s)
<1>1. CASE Handshake
  BY <1>1, Zenon DEF Handshake
<1>2. ASSUME NEW c \in Commissioners, CommissionerSends(c)
      PROVE  \E m \in Manager, id \in SessionID, peerID \in SessionID :
                 SendSecured(m, id, peerID) /\ HandshakeUnchanged
  <2>1. CommissionerInv(c) /\ commissioner[c].State = "Complete"
    BY <1>2, Zenon DEF TrafficInv, PASEInv, CommissionerSends
  <2>2. commissioner[c].SessionID = InitiatorID /\ commissioner[c].prover # Nil
    BY ZenonT(60), <2>1 DEF CommissionerInv
  <2>3. commissioner[c].ResponsePayload \in Response
    <3>1. commissioner[c].ResponsePayload # Nil
      BY <2>2, Zenon DEF TrafficInv, PeersKnown
    <3>2. commissioner[c] \in CommissionerType
      BY Zenon DEF TrafficInv, PASEInv, PASETypeOK
    <3> QED
      BY ZenonT(60), <3>1, <3>2 DEF CommissionerType
  <2>4. commissioner[c].ResponsePayload.ResponderSessionID = ResponderID
    BY <2>3, Zenon DEF Response
  <2>5. SendSecured(c, InitiatorID, ResponderID) /\ HandshakeUnchanged
    BY <1>2, <2>2, <2>4, Zenon DEF CommissionerSends
  <2>6. c \in Manager /\ InitiatorID \in SessionID /\ ResponderID \in SessionID
    BY PartyAssumption, IDAssumption, Zenon
  <2> QED
    BY <2>5, <2>6, Zenon
<1>3. CASE DeviceSends
  <2>1. CommissioneeInv /\ commissionee.State = "Complete"
    BY <1>3, Zenon DEF TrafficInv, PASEInv, DeviceSends
  <2>2. commissionee.SessionID = ResponderID
    BY ZenonT(60), <2>1 DEF CommissioneeInv
  <2>3. commissionee.RequestPayload \in Request
    <3>1. commissionee.RequestPayload # Nil
      BY <2>2 DEF TrafficInv, PeersKnown, ResponderID
    <3>2. commissionee \in CommissioneeType
      BY Zenon DEF TrafficInv, PASEInv, PASETypeOK
    <3> QED
      BY ZenonT(60), <3>1, <3>2 DEF CommissioneeType
  <2>4. commissionee.RequestPayload.InitiatorSessionID = InitiatorID
    BY <2>3, ZenonT(60) DEF Request
  <2>5. SendSecured(Device, ResponderID, InitiatorID) /\ HandshakeUnchanged
    BY <1>3, <2>2, <2>4, Zenon DEF DeviceSends
  <2>6. Device \in Manager /\ InitiatorID \in SessionID /\ ResponderID \in SessionID
    BY PartyAssumption, IDAssumption, Zenon
  <2> QED
    BY <2>5, <2>6, Zenon
<1>4. CASE UNCHANGED vars
  BY <1>4, Zenon DEF vars
<1> QED
  BY <1>1, <1>2, <1>3, <1>4, Zenon DEF Next

\* Every step keeps TrafficInv.
LEMMA TrafficStep == TrafficInv /\ [Next]_vars => TrafficInv'
  BY StepKinds, HandshakeTraffic, SendTraffic, DeliveryTraffic, Zenon

\* Commissioning and the traffic on its sessions keep TrafficInv together.
THEOREM TrafficInvariance == Spec => []TrafficInv
<1>1. Init => TrafficInv
  <2> SUFFICES ASSUME Init PROVE TrafficInv
    BY Zenon
  <2>1. PASEInv
    BY InitPASEInv, Zenon DEF Init
  <2>2. PeersKnown
    BY Zenon DEF Init, PASEInit, CommissionerInit, CommissioneeInit, NewCommissioner,
           NewCommissionee, PeersKnown
  <2>3. SessionsConfirmed
    BY Zenon DEF Init, PASEInit, SharedInit, SessionsInit, SessionsConfirmed
  <2>4. SealedConfirmed /\ DeliveredConfirmed
    BY Zenon DEF Init, ChannelInit, SealedConfirmed, DeliveredConfirmed
  <2> QED
    BY <2>1, <2>2, <2>3, <2>4, Zenon DEF TrafficInv
<1> QED
  BY <1>1, TrafficStep, PTL DEF Spec

\* EndToEnd for any number of controllers, attempts, frames, duplicates and
\* restarts: the two keys of a secret are different, so what opens at the device
\* under a verified secret was sealed by the controller that verified it, and
\* what opens at a controller was sealed by the device.
THEOREM EndToEndAuthenticity == Spec => []EndToEnd
<1>1. TrafficInv => EndToEnd
  <2> SUFFICES ASSUME TrafficInv, NEW d \in delivered
               PROVE  \E s \in sealed :
                        /\ s.ciphertext = d.ciphertext
                        /\ IF d.to = Device
                           THEN <<s.from, d.ciphertext.key[2]>> \in confirmed
                           ELSE /\ s.from = Device
                                /\ <<d.to, d.ciphertext.key[2]>> \in confirmed
    BY Zenon DEF EndToEnd
  <2>1. PICK s \in sealed : s.ciphertext = d.ciphertext
    BY Zenon DEF TrafficInv, DeliveredConfirmed
  <2> DEFINE key == d.ciphertext.key
  <2>2. OpensWith(confirmed, d.to, key) /\ SealsWith(confirmed, s.from, key)
    BY <2>1, Zenon DEF TrafficInv, DeliveredConfirmed, SealedConfirmed
  <2> HIDE DEF key
  <2>3. \A k \in confirmed : k = <<k[1], k[2]>>
    BY DEF TrafficInv, PASEInv, PASETypeOK
  <2>4. PICK i \in confirmed : IF d.to = Device THEN key = <<"I2R", i[2]>>
                               ELSE i[1] = d.to /\ key = <<"R2I", i[2]>>
    BY <2>2, Zenon DEF OpensWith
  <2>5. PICK j \in confirmed : IF s.from = Device THEN key = <<"R2I", j[2]>>
                               ELSE j[1] = s.from /\ key = <<"I2R", j[2]>>
    BY <2>2, Zenon DEF SealsWith
  <2>6. CASE d.to = Device
    <3>1. key = <<"I2R", i[2]>>
      BY <2>4, <2>6, Zenon
    <3>2. j[1] = s.from /\ key[2] = j[2]
      BY <2>5, <3>1, Zenon
    <3>3. <<s.from, key[2]>> \in confirmed
      BY <2>3, <3>2, Zenon
    <3> QED
      BY <2>1, <2>6, <3>3, Zenon DEF key
  <2>7. CASE d.to # Device
    <3>1. key = <<"R2I", i[2]>> /\ i[1] = d.to
      BY <2>4, <2>7, Zenon
    <3>2. s.from = Device /\ key[2] = i[2]
      BY <2>5, <3>1, Zenon
    <3>3. <<d.to, key[2]>> \in confirmed
      BY <2>3, <3>1, <3>2, Zenon
    <3> QED
      BY <2>1, <2>7, <3>2, <3>3, Zenon DEF key
  <2> QED
    BY <2>6, <2>7, ZenonT(60)
<1> QED
  BY <1>1, TrafficInvariance, PTL

-----------------------------------------------------------------------------
\* Nothing was done under a secret that nobody has verified.
LEMMA UnverifiedUnused ==
    ASSUME TrafficInv, NEW ke, \A k \in confirmed : k[2] # ke, NEW direction
    PROVE  /\ \A m \in Manager, id \in SessionID : sessions[m][id] # NoSession =>
                  /\ sessions[m][id].EncryptKey # <<direction, ke>>
                  /\ sessions[m][id].DecryptKey # <<direction, ke>>
           /\ \A s \in sealed : s.ciphertext.key # <<direction, ke>>
           /\ \A d \in delivered : d.ciphertext.key # <<direction, ke>>
<1>1. \A m, key : SealsWith(confirmed, m, key) \/ OpensWith(confirmed, m, key)
                    => key # <<direction, ke>>
  BY DEF SealsWith, OpensWith
<1> QED
  BY <1>1, ZenonT(60) DEF TrafficInv, SessionsConfirmed, SealedConfirmed, DeliveredConfirmed

\* No two sessions seal with the same key.
LEMMA OneSession ==
    ASSUME TrafficInv, SessionsPlaced,
           NEW m \in Manager, NEW id \in SessionID, sessions[m][id] # NoSession,
           NEW n \in Manager, NEW j \in SessionID, sessions[n][j] # NoSession,
           sessions[m][id].EncryptKey = sessions[n][j].EncryptKey
    PROVE  m = n /\ id = j
<1> DEFINE key == sessions[m][id].EncryptKey
<1>1. SealsWith(confirmed, m, key) /\ SealsWith(confirmed, n, key)
  BY Zenon DEF TrafficInv, SessionsConfirmed
<1> HIDE DEF key
<1>2. \A k \in confirmed : k[1] \in Commissioners
  BY Zenon DEF TrafficInv, PASEInv, PASETypeOK
<1>3. \A k \in confirmed : k[2][2].pA.scalar[1] = k[1]
  BY ZenonT(60), <1>2 DEF TrafficInv, PASEInv, CommissionerInv
<1>4. \A k, l \in confirmed : k[2] = l[2] => k[1] = l[1]
  BY <1>3, Zenon
<1>5. m = n
  BY <1>1, <1>4, SMTT(60) DEF SealsWith
<1> QED
  BY <1>5, Zenon DEF SessionsPlaced

\* Sessions that keep key and counter, or have a key nothing was sealed with.
LEMMA CountersKept ==
    ASSUME SealedCounted, sealed' = sealed,
           \A m \in Manager, id \in SessionID : sessions'[m][id] # NoSession =>
               \/ \A s \in sealed : s.ciphertext.key # sessions'[m][id].EncryptKey
               \/ /\ sessions[m][id] # NoSession
                  /\ sessions'[m][id].EncryptKey = sessions[m][id].EncryptKey
                  /\ sessions'[m][id].OutCounter = sessions[m][id].OutCounter
    PROVE  SealedCounted'
<1> SUFFICES ASSUME NEW s \in sealed
             PROVE  /\ s.ciphertext.nonce = BuildNonce(s.ciphertext.aad)
                    /\ \A m \in Manager, id \in SessionID :
                           /\ sessions'[m][id] # NoSession
                           /\ sessions'[m][id].EncryptKey = s.ciphertext.key
                           => s.ciphertext.nonce.MessageCounter <= sessions'[m][id].OutCounter
  BY Zenon DEF SealedCounted
<1>1. s.ciphertext.nonce = BuildNonce(s.ciphertext.aad)
  BY Zenon DEF SealedCounted
<1>2. ASSUME NEW m \in Manager, NEW id \in SessionID, sessions'[m][id] # NoSession,
             sessions'[m][id].EncryptKey = s.ciphertext.key
      PROVE  s.ciphertext.nonce.MessageCounter <= sessions'[m][id].OutCounter
  <2>1. /\ sessions[m][id] # NoSession
        /\ sessions[m][id].EncryptKey = s.ciphertext.key
        /\ sessions'[m][id].OutCounter = sessions[m][id].OutCounter
    BY <1>2, Zenon
  <2>2. s.ciphertext.nonce.MessageCounter <= sessions[m][id].OutCounter
    BY <2>1, Zenon DEF SealedCounted
  <2> QED
    BY <2>1, <2>2, Zenon
<1> QED
  BY <1>1, <1>2, Zenon

\* A session with new keys, a zero counter and an empty window fits in.
LEMMA InstallChannel ==
    ASSUME ChannelInv, UNCHANGED channelVars, NEW m \in Manager, NEW id, NEW new,
           id = IF m = Device THEN ResponderID ELSE InitiatorID,
           sessions' = [sessions EXCEPT ![m][id] = new],
           new.replay = EmptyWindow,
           \A s \in sealed : s.ciphertext.key # new.EncryptKey,
           \A d \in delivered : d.to = m => d.ciphertext.key # new.DecryptKey
    PROVE  SessionsPlaced' /\ SealedCounted' /\ WindowsDescribe' /\ NonceUnique'
<1>1. \A n \in Manager, j \in SessionID :
          sessions'[n][j] = IF n = m /\ j = id THEN new ELSE sessions[n][j]
  BY Zenon DEF ChannelInv, TrafficInv, PASEInv, PASETypeOK
<1>2. sealed' = sealed /\ delivered' = delivered
  BY Zenon DEF channelVars
<1>3. SessionsPlaced'
  BY <1>1, SMTT(60) DEF ChannelInv, SessionsPlaced
<1>4. SealedCounted'
  BY <1>1, <1>2, CountersKept, SMTT(60) DEF ChannelInv
<1>5. WindowsDescribe'
  <2> SUFFICES ASSUME NEW n \in Manager, NEW j \in SessionID, sessions'[n][j] # NoSession
               PROVE  Describes(sessions'[n][j].replay,
                                CountersOpened(delivered, n, sessions'[n][j].DecryptKey))
    BY <1>2, Zenon DEF WindowsDescribe
  <2>1. CASE n = m /\ j = id
    <3>1. CountersOpened(delivered, m, new.DecryptKey) = {}
      BY Zenon DEF CountersOpened
    <3> QED
      BY ZenonT(60), <1>1, <2>1, <3>1, EmptyDescribes
  <2>2. CASE ~(n = m /\ j = id)
    <3>1. sessions'[n][j] = sessions[n][j]
      BY <1>1, <2>2, Zenon
    <3> QED
      BY <3>1, Zenon DEF ChannelInv, WindowsDescribe
  <2> QED
    BY <2>1, <2>2, Zenon
<1>6. NonceUnique'
  BY <1>2, Zenon DEF ChannelInv, NonceUnique
<1> QED
  BY <1>3, <1>4, <1>5, <1>6, Zenon

\* The keys of the session that installPASESession builds.
LEMMA PASEKeys ==
    ASSUME NEW ke
    PROVE  LET i == NewSession(DeriveSessionKeysFromKe(ke), "Initiator")
               r == NewSession(DeriveSessionKeysFromKe(ke), "Responder")
           IN  /\ i.EncryptKey = <<"I2R", ke>> /\ i.DecryptKey = <<"R2I", ke>>
               /\ r.EncryptKey = <<"R2I", ke>> /\ r.DecryptKey = <<"I2R", ke>>
               /\ i.replay = EmptyWindow /\ r.replay = EmptyWindow
BY Zenon DEF NewSession, DeriveSessionKeysFromKe

\* The handshake keeps the channels in order: the secret handlePake2 installs is
\* new, and the one handlePake3 installs is new to the device, since its Pake3
\* is the only one.
LEMMA HandshakeChannel ==
    ASSUME ChannelInv, "Pake3" \notin FaultKinds, [PASENext]_paseVars, UNCHANGED channelVars
    PROVE  ChannelInv'
<1>0. /\ sealed' = sealed /\ delivered' = delivered
      /\ TrafficInv /\ PASEInv /\ NetInv /\ Pake3Unused
      /\ sessions \in [Manager -> [SessionID -> SessionType \cup {NoSession}]]
  BY Zenon DEF channelVars, ChannelInv, TrafficInv, PASEInv, PASETypeOK
<1>1. TrafficInv' /\ PASEInv'
  BY <1>0, HandshakeTraffic, Zenon DEF TrafficInv
<1>2. CASE NothingInstalled
  <2>1. SessionsPlaced'
    BY <1>2, Zenon DEF NothingInstalled, ChannelInv, SessionsPlaced
  <2>2. SealedCounted'
    BY <1>0, <1>2, CountersKept, Zenon DEF NothingInstalled, ChannelInv
  <2>3. WindowsDescribe'
    BY <1>0, <1>2, Zenon DEF NothingInstalled, ChannelInv, WindowsDescribe
  <2>4. ASSUME NEW ke, Unused(ke) PROVE Unused(ke)'
    BY <1>0, <1>2, <2>4, PartyAssumption, Zenon DEF NothingInstalled, Unused
  <2>5. Pake3Unused'
    BY <1>0, <1>2, <2>4, Zenon DEF NothingInstalled, Pake3Unused
  <2>6. NonceUnique'
    BY <1>0, Zenon DEF ChannelInv, NonceUnique
  <2> QED
    BY <1>1, <2>1, <2>2, <2>3, <2>5, <2>6, Zenon DEF ChannelInv
<1>3. ASSUME NEW c \in Commissioners, NEW new, ControllerInstalls(c, new) PROVE ChannelInv'
  <2> DEFINE ke == <<"Ke", new.Payload.cA[2]>>
             session == NewSession(DeriveSessionKeysFromKe(ke), "Initiator")
  <2>1. /\ \A k \in confirmed : k[2] # ke
        /\ sessions' = [sessions EXCEPT ![c][InitiatorID] = session]
        /\ \A g \in net' : g.Opcode = "Pake3" => g \in net \/ g = new
    BY <1>3, Zenon DEF ControllerInstalls
  <2>2. /\ session.EncryptKey = <<"I2R", ke>> /\ session.DecryptKey = <<"R2I", ke>>
        /\ session.replay = EmptyWindow
    BY PASEKeys, Zenon
  <2>3. c \in Manager /\ c # Device /\ Device \in Manager
    BY PartyAssumption, Zenon
  <2> HIDE DEF session
  <2>4. SessionsPlaced' /\ SealedCounted' /\ WindowsDescribe' /\ NonceUnique'
    <3>1. /\ \A s \in sealed : s.ciphertext.key # session.EncryptKey
          /\ \A d \in delivered : d.ciphertext.key # session.DecryptKey
      BY <1>0, <2>1, <2>2, UnverifiedUnused, ZenonT(60)
    <3> QED
      BY <2>1, <2>2, <2>3, <3>1, InstallChannel, ZenonT(60)
  <2>5. ASSUME NEW k, Unused(k) PROVE Unused(k)'
    <3>1. sessions'[Device] = sessions[Device]
      BY <1>0, <2>1, <2>3, Zenon
    <3> QED
      BY <1>0, <2>5, <3>1, Zenon DEF Unused
  <2>6. Unused(ke)
    BY <1>0, <2>1, <2>3, UnverifiedUnused, ZenonT(60) DEF Unused
  <2>7. \A h \in net : h.Opcode = "Pake3" => <<"Ke", h.Payload.cA[2]>> # ke
    <3>1. \A k, l : <<k, l>>[2] = l
      BY Zenon
    <3> QED
      BY ZenonT(60), <1>0, <2>1, <3>1 DEF NetInv
  <2>8. Pake3Unused'
    <3> SUFFICES ASSUME NEW f \in net', f.Opcode = "Pake3"
                 PROVE  /\ Unused(<<"Ke", f.Payload.cA[2]>>)'
                        /\ \A g \in net' :
                              g.Opcode = "Pake3" /\ g.Payload.cA[2] = f.Payload.cA[2] => g = f
      BY Zenon DEF Pake3Unused
    <3>1. Unused(<<"Ke", f.Payload.cA[2]>>)'
      BY <1>0, <2>1, <2>5, <2>6, Zenon DEF Pake3Unused
    <3>2. ASSUME NEW g \in net', g.Opcode = "Pake3", g.Payload.cA[2] = f.Payload.cA[2]
          PROVE  g = f
      BY ZenonT(60), <1>0, <2>1, <2>7, <3>2 DEF Pake3Unused
    <3> QED
      BY <3>1, <3>2, Zenon
  <2> QED
    BY <1>1, <2>4, <2>8, Zenon DEF ChannelInv
<1>4. ASSUME NEW f \in net, DeviceInstalls(f) PROVE ChannelInv'
  <2> DEFINE ke == <<"Ke", f.Payload.cA[2]>>
             session == NewSession(DeriveSessionKeysFromKe(ke), "Responder")
  <2>1. /\ f.Opcode = "Pake3"
        /\ sessions' = [sessions EXCEPT ![Device][ResponderID] = session]
        /\ net' \subseteq net /\ f \notin net'
    BY <1>4, Zenon DEF DeviceInstalls
  <2>2. /\ session.EncryptKey = <<"R2I", ke>> /\ session.DecryptKey = <<"I2R", ke>>
        /\ session.replay = EmptyWindow
    BY PASEKeys, Zenon
  <2>3. Device \in Manager
    BY PartyAssumption, Zenon
  <2>4. Unused(ke)
    BY <1>0, <2>1, Zenon DEF Pake3Unused
  <2> HIDE DEF session
  <2>5. SessionsPlaced' /\ SealedCounted' /\ WindowsDescribe' /\ NonceUnique'
    <3>1. /\ \A s \in sealed : s.ciphertext.key # session.EncryptKey
          /\ \A d \in delivered : d.to = Device => d.ciphertext.key # session.DecryptKey
      BY <2>2, <2>4, Zenon DEF Unused
    <3> QED
      BY <2>1, <2>2, <2>3, <3>1, InstallChannel, ZenonT(60)
  <2>6. \A j \in SessionID :
            sessions'[Device][j] = IF j = ResponderID THEN session ELSE sessions[Device][j]
    BY <1>0, <2>1, <2>3, Zenon
  <2>7. ASSUME NEW k, Unused(k), k # ke PROVE Unused(k)'
    BY <1>0, <2>2, <2>6, <2>7, SMTT(60) DEF Unused
  <2>8. Pake3Unused'
    <3> SUFFICES ASSUME NEW h \in net', h.Opcode = "Pake3"
                 PROVE  /\ Unused(<<"Ke", h.Payload.cA[2]>>)'
                        /\ \A g \in net' :
                              g.Opcode = "Pake3" /\ g.Payload.cA[2] = h.Payload.cA[2] => g = h
      BY Zenon DEF Pake3Unused
    <3>1. h \in net /\ h # f
      BY <2>1, Zenon
    <3>2. /\ Unused(<<"Ke", h.Payload.cA[2]>>) /\ h.Payload.cA[2] # f.Payload.cA[2]
          /\ \A g \in net :
                g.Opcode = "Pake3" /\ g.Payload.cA[2] = h.Payload.cA[2] => g = h
      BY ZenonT(60), <1>0, <2>1, <3>1 DEF Pake3Unused
    <3>3. Unused(<<"Ke", h.Payload.cA[2]>>)'
      BY <2>7, <3>2, Zenon
    <3> QED
      BY <2>1, <3>2, <3>3, Zenon
  <2> QED
    BY <1>1, <2>5, <2>8, Zenon DEF ChannelInv
<1> QED
  BY <1>0, <1>1, <1>2, <1>3, <1>4, HandshakeInstalls, Zenon

\* Sealed frames carry the counter of their header, at least 1, in the nonce.
LEMMA SealedCounter ==
    ASSUME ChannelInv, NEW s \in sealed
    PROVE  /\ s.ciphertext.nonce = BuildNonce(s.ciphertext.aad)
           /\ s.ciphertext.nonce.MessageCounter = s.ciphertext.aad.MessageCounter
           /\ s.ciphertext.nonce.MessageCounter \in 1 .. CounterMax
<1>1. s.ciphertext.nonce = BuildNonce(s.ciphertext.aad)
  BY Zenon DEF ChannelInv, SealedCounted
<1>2. s.ciphertext.aad.MessageCounter \in 1 .. CounterMax
  BY Zenon DEF ChannelInv, TrafficInv, SealedConfirmed
<1> QED
  BY <1>1, <1>2 DEF BuildNonce

\* A send takes a counter above all those sealed with its key; no other session
\* has that key, and no Pake3 in flight brings it.
LEMMA SendChannel ==
    ASSUME ChannelInv, NEW m \in Manager, NEW id \in SessionID, NEW peerID \in SessionID,
           SendSecured(m, id, peerID), HandshakeUnchanged
    PROVE  ChannelInv'
<1> USE CounterMaxAssumption
<1> DEFINE own    == sessions[m][id]
           new    == [own EXCEPT !.OutCounter = own.OutCounter + 1]
           header == Header(peerID, own.OutCounter + 1)
           ct     == EncryptPayload(m, id, sent, header)
           frame  == [from |-> m, ciphertext |-> ct]
<1>0. /\ TrafficInv /\ SessionsPlaced /\ Pake3Unused
      /\ sessions \in [Manager -> [SessionID -> SessionType \cup {NoSession}]]
  BY Zenon DEF ChannelInv, TrafficInv, PASEInv, PASETypeOK
<1>1. /\ own # NoSession
      /\ sessions' = [sessions EXCEPT ![m][id].OutCounter = @ + 1]
      /\ sealed' = sealed \cup {frame}
      /\ delivered' = delivered /\ net' = net
  BY Zenon DEF SendSecured, NextOutboundCounter, HandshakeUnchanged
<1>2. own \in SessionType /\ own.OutCounter \in 0 .. CounterMax
  BY <1>0, <1>1 DEF SessionType
<1>3. /\ new.OutCounter = own.OutCounter + 1
      /\ new.EncryptKey = own.EncryptKey /\ new.DecryptKey = own.DecryptKey
      /\ new.replay = own.replay
  BY <1>2, Zenon DEF SessionType
<1>4. /\ ct.key = own.EncryptKey /\ ct.nonce = BuildNonce(ct.aad)
      /\ ct.nonce.MessageCounter = own.OutCounter + 1
  BY ZenonT(60) DEF EncryptPayload, Encrypt, BuildNonce, Header
<1>5. sessions' = [sessions EXCEPT ![m][id] = new]
  BY <1>0, <1>1, Zenon
<1> HIDE DEF new, ct
<1>6. \A n \in Manager, j \in SessionID :
          sessions'[n][j] = IF n = m /\ j = id THEN new ELSE sessions[n][j]
  BY <1>0, <1>5, Zenon
<1>7. TrafficInv'
  BY <1>0, SendTraffic, Zenon
<1>8. SessionsPlaced'
  BY <1>0, <1>1, <1>6, SMTT(60) DEF SessionsPlaced
<1>9. SealedCounted'
  <2> SUFFICES ASSUME NEW s \in sealed'
               PROVE  /\ s.ciphertext.nonce = BuildNonce(s.ciphertext.aad)
                      /\ \A n \in Manager, j \in SessionID :
                             /\ sessions'[n][j] # NoSession
                             /\ sessions'[n][j].EncryptKey = s.ciphertext.key
                             => s.ciphertext.nonce.MessageCounter <= sessions'[n][j].OutCounter
    BY Zenon DEF SealedCounted
  <2>1. ASSUME NEW n \in Manager, NEW j \in SessionID, s \in sealed,
               sessions'[n][j] # NoSession, sessions'[n][j].EncryptKey = s.ciphertext.key
        PROVE  s.ciphertext.nonce.MessageCounter <= sessions'[n][j].OutCounter
    <3>1. s.ciphertext.nonce.MessageCounter \in Nat
      BY <2>1, SealedCounter, SMTT(60)
    <3>2. CASE n = m /\ j = id
      <4>1. sessions'[n][j] = new
        BY <1>6, <3>2, Zenon
      <4>2. s.ciphertext.nonce.MessageCounter <= own.OutCounter
        BY ZenonT(60), <1>1, <1>3, <2>1, <4>1 DEF ChannelInv, SealedCounted
      <4> QED
        <5> DEFINE x == s.ciphertext.nonce.MessageCounter
                   y == own.OutCounter
        <5> HIDE DEF own
        <5>1. y \in Nat /\ sessions'[n][j].OutCounter = y + 1
          BY <1>2, <1>3, <4>1, SMTT(60)
        <5> HIDE DEF x, y
        <5>2. x <= y + 1
          BY <3>1, <4>2, <5>1, SMTT(60) DEF x, y
        <5> QED
          BY <5>1, <5>2, Zenon DEF x
    <3>3. CASE ~(n = m /\ j = id)
      <4>1. sessions'[n][j] = sessions[n][j]
        BY <1>6, <3>3, Zenon
      <4> QED
        BY ZenonT(60), <2>1, <4>1 DEF ChannelInv, SealedCounted
    <3> QED
      BY <3>2, <3>3, Zenon
  <2>2. ASSUME NEW n \in Manager, NEW j \in SessionID,
               sessions'[n][j] # NoSession, sessions'[n][j].EncryptKey = ct.key
        PROVE  ct.nonce.MessageCounter <= sessions'[n][j].OutCounter
    <3>1. CASE n = m /\ j = id
      BY <1>2, <1>3, <1>4, <1>6, <3>1, SMTT(60)
    <3>2. CASE ~(n = m /\ j = id)
      <4>1. sessions'[n][j] = sessions[n][j]
        BY <1>6, <3>2, Zenon
      <4>2. m = n /\ id = j
        BY <1>0, <1>1, <1>4, <2>2, <4>1, OneSession, SMTT(60)
      <4> QED
        BY <3>2, <4>2, Zenon
    <3> QED
      BY <3>1, <3>2, Zenon
  <2>3. CASE s \in sealed
    BY <2>1, <2>3, SealedCounter, Zenon
  <2>4. CASE s = frame
    BY <1>4, <2>2, <2>4, Zenon
  <2> QED
    BY <1>1, <2>3, <2>4, Zenon
<1>10. Pake3Unused'
  <2>1. ASSUME NEW t, Unused(<<"Ke", t>>) PROVE Unused(<<"Ke", t>>)'
    <3> DEFINE ke == <<"Ke", t>>
    <3>1. SealsWith(confirmed, m, own.EncryptKey)
      BY <1>0, <1>1, Zenon DEF TrafficInv, SessionsConfirmed
    <3>2. ct.key # <<"R2I", ke>>
      <4>1. CASE m = Device
        BY <1>1, <1>4, <2>1, <4>1, Zenon DEF Unused
      <4>2. CASE m # Device
        <5>1. PICK k \in confirmed : own.EncryptKey = <<"I2R", k[2]>>
          BY <3>1, <4>2, Zenon DEF SealsWith
        <5>2. <<"I2R", k[2]>> # <<"R2I", ke>>
          BY Zenon
        <5> QED
          BY <1>4, <5>1, <5>2, Zenon
      <4> QED
        BY <4>1, <4>2, Zenon
    <3>3. \A s \in sealed' : s.ciphertext.key # <<"R2I", ke>>
      BY <1>1, <2>1, <3>2, SMTT(60) DEF Unused
    <3>4. \A j \in SessionID : sessions'[Device][j] # NoSession =>
              /\ sessions'[Device][j].EncryptKey # <<"R2I", ke>>
              /\ sessions'[Device][j].DecryptKey # <<"I2R", ke>>
      <4>1. Device \in Manager
        BY PartyAssumption, Zenon
      <4>2. \A n \in Manager, j \in SessionID : sessions'[n][j] # NoSession =>
                /\ sessions[n][j] # NoSession
                /\ sessions'[n][j].EncryptKey = sessions[n][j].EncryptKey
                /\ sessions'[n][j].DecryptKey = sessions[n][j].DecryptKey
        BY <1>1, <1>3, <1>6, SMTT(60)
      <4> QED
        BY <2>1, <4>1, <4>2, Zenon DEF Unused
    <3> QED
      BY <1>1, <2>1, <3>3, <3>4, Zenon DEF Unused
  <2> QED
    BY <1>0, <1>1, <2>1, Zenon DEF Pake3Unused
<1>11. WindowsDescribe'
  BY <1>1, <1>3, <1>6 DEF ChannelInv, WindowsDescribe
<1>12. NonceUnique'
  <2>1. ASSUME NEW s \in sealed, s.ciphertext.key = ct.key, s.ciphertext.nonce = ct.nonce
        PROVE  FALSE
    <3>1. s.ciphertext.nonce.MessageCounter <= own.OutCounter
      BY ZenonT(60), <1>1, <1>4, <2>1 DEF ChannelInv, SealedCounted
    <3> HIDE DEF own
    <3>2. s.ciphertext.nonce.MessageCounter = own.OutCounter + 1
      BY <1>4, <2>1, Zenon
    <3>3. own.OutCounter \in Nat
      BY <1>2
    <3> QED
      BY <3>1, <3>2, <3>3
  <2> QED
    BY <1>1, <2>1, SMTT(60) DEF ChannelInv, NonceUnique
<1> QED
  BY <1>7, <1>8, <1>9, <1>10, <1>11, <1>12, Zenon DEF ChannelInv

\* One more frame handed up adds its counter under its key.
LEMMA OpenedHere ==
    ASSUME NEW history, NEW m, NEW ct
    PROVE  CountersOpened(history \cup {[to |-> m, ciphertext |-> ct]}, m, ct.key)
               = CountersOpened(history, m, ct.key) \cup {ct.nonce.MessageCounter}
<1> DEFINE d  == [to |-> m, ciphertext |-> ct]
           S  == {e \in history : e.to = m /\ e.ciphertext.key = ct.key}
           S2 == {e \in history \cup {d} : e.to = m /\ e.ciphertext.key = ct.key}
           Counters(T) == {e.ciphertext.nonce.MessageCounter : e \in T}
<1>1. S2 = S \cup {d}
  OBVIOUS
<1>2. d.ciphertext = ct
  BY Zenon
<1> HIDE DEF S, S2, d
<1>3. Counters(S \cup {d}) = Counters(S) \cup {ct.nonce.MessageCounter}
  BY <1>2, Zenon
<1>4. Counters(S2) = Counters(S) \cup {ct.nonce.MessageCounter}
  BY <1>1, <1>3, Zenon
<1> QED
  BY ZenonT(60), <1>4 DEF CountersOpened, S, S2, d

\* The window of a session and the counters its key opened.
LEMMA WindowOfSession ==
    ASSUME ChannelInv, NEW m \in Manager, NEW id \in SessionID, sessions[m][id] # NoSession
    PROVE  LET s == sessions[m][id]
               a == CountersOpened(delivered, m, s.DecryptKey)
           IN  /\ s.replay \in [max : Nat, bitmap : SUBSET Bit]
               /\ a \in SUBSET (Nat \ {0})
               /\ Describes(s.replay, a)
<1> USE CounterMaxAssumption
<1>1. sessions[m][id] \in SessionType
  BY Zenon DEF ChannelInv, TrafficInv, PASEInv, PASETypeOK
<1>2. sessions[m][id].replay \in [max : Nat, bitmap : SUBSET Bit]
  BY <1>1, SMTT(60) DEF SessionType
<1>3. \A d \in delivered : d.ciphertext.nonce.MessageCounter \in Nat \ {0}
  BY SealedCounter, SMTT(60) DEF ChannelInv, TrafficInv, DeliveredConfirmed
<1>4. CountersOpened(delivered, m, sessions[m][id].DecryptKey) \in SUBSET (Nat \ {0})
  BY <1>3, Zenon DEF CountersOpened
<1> QED
  BY <1>2, <1>4, Zenon DEF ChannelInv, WindowsDescribe

\* A delivery commits exactly the counter that it hands up.
LEMMA DeliveryChannel ==
    ASSUME ChannelInv, NEW m \in Manager, NEW s \in sealed, Delivery(m, s)
    PROVE  ChannelInv'
<1> DEFINE ct     == s.ciphertext
           c      == ct.aad.MessageCounter
           header == [ct.aad EXCEPT !.MessageCounter = c]
           id     == ct.aad.SessionID
           own    == sessions[m][id]
           d      == [to |-> m, ciphertext |-> ct]
<1>0. /\ TrafficInv /\ SessionsPlaced /\ Pake3Unused
      /\ sessions \in [Manager -> [SessionID -> SessionType \cup {NoSession}]]
  BY Zenon DEF ChannelInv, TrafficInv, PASEInv, PASETypeOK
<1>1. TrafficInv'
  BY <1>0, DeliveryTraffic, Zenon
<1>2. ct.aad \in [SessionID : SessionID, SecurityFlags : {"SessionTypeUnicast"},
                  MessageCounter : 1 .. CounterMax, SourceNodeID : {0}]
  BY <1>0, Zenon DEF TrafficInv, SealedConfirmed
<1>3. /\ id \in SessionID /\ c \in Nat \ {0} /\ ct.nonce.MessageCounter = c
      /\ header.SessionID = id /\ header.MessageCounter = c
  BY <1>2, SealedCounter
<1>4. /\ DecryptPayload(m, id, ct, header)
      /\ delivered' = IF DecryptResult(m, id, ct, header) = "plaintext"
                      THEN delivered \cup {d} ELSE delivered
      /\ sealed' = sealed /\ net' = net
  BY <1>3, Zenon DEF Delivery, ReceiveSecured, HandshakeUnchanged
<1> HIDE DEF header
<1>5. CASE DecryptResult(m, id, ct, header) # "plaintext"
  <2>1. sessions' = sessions /\ delivered' = delivered
    BY <1>4, <1>5, Zenon DEF DecryptPayload
  <2> QED
    BY ZenonT(60), <1>1, <1>4, <2>1
       DEF ChannelInv, SessionsPlaced, SealedCounted, Pake3Unused, Unused,
           WindowsDescribe, NonceUnique
<1>6. CASE DecryptResult(m, id, ct, header) = "plaintext"
  <2> DEFINE new == [own EXCEPT !.replay = Commit(own.replay, c)]
  <2>1. own # NoSession /\ Accepts(own.replay, c) /\ ct.key = own.DecryptKey
    BY <1>3, <1>6, Zenon DEF DecryptResult, Opens
  <2>2. /\ delivered' = delivered \cup {d}
        /\ sessions' = [sessions EXCEPT ![m][id].replay = Commit(@, c)]
    BY <1>3, <1>4, <1>6, Zenon DEF DecryptPayload
  <2>3. own \in SessionType
    <3>1. id \in SessionID
      BY <1>3, Zenon
    <3> HIDE DEF id
    <3> QED
      BY <1>0, <2>1, <3>1, Zenon
  <2>4. /\ new.replay = Commit(own.replay, c) /\ new.OutCounter = own.OutCounter
        /\ new.EncryptKey = own.EncryptKey /\ new.DecryptKey = own.DecryptKey
    BY <2>3, Zenon DEF SessionType
  <2>5. sessions' = [sessions EXCEPT ![m][id] = new]
    BY <1>0, <1>3, <2>2, Zenon
  <2> HIDE DEF new
  <2>6. \A n \in Manager, j \in SessionID :
            sessions'[n][j] = IF n = m /\ j = id THEN new ELSE sessions[n][j]
    BY <1>0, <1>3, <2>5, Zenon
  <2>7. \A n \in Manager, j \in SessionID : sessions'[n][j] # NoSession =>
            /\ sessions[n][j] # NoSession
            /\ sessions'[n][j].EncryptKey = sessions[n][j].EncryptKey
            /\ sessions'[n][j].DecryptKey = sessions[n][j].DecryptKey
            /\ sessions'[n][j].OutCounter = sessions[n][j].OutCounter
    BY <2>1, <2>4, <2>6, ZenonT(60)
  <2>8. SessionsPlaced'
    BY <1>0, <2>7, Zenon DEF SessionsPlaced
  <2>9. SealedCounted'
    BY <1>4, <2>7, CountersKept, ZenonT(60) DEF ChannelInv
  <2>10. Pake3Unused'
    <3>1. ASSUME NEW t, Unused(<<"Ke", t>>) PROVE Unused(<<"Ke", t>>)'
      <4> DEFINE ke == <<"Ke", t>>
      <4>1. m = Device => ct.key # <<"I2R", ke>>
        BY <1>3, <2>1, <3>1, ZenonT(60) DEF Unused
      <4>2. \A e \in delivered' : e.to = Device => e.ciphertext.key # <<"I2R", ke>>
        <5> SUFFICES ASSUME NEW e \in delivered', e.to = Device
                     PROVE  e.ciphertext.key # <<"I2R", ke>>
          BY Zenon
        <5>1. CASE e \in delivered
          BY <3>1, <5>1, Zenon DEF Unused
        <5>2. CASE e = d
          <6>1. e.to = m /\ e.ciphertext = ct
            BY <5>2, Zenon
          <6> QED
            BY <4>1, <6>1, Zenon
        <5> QED
          BY <2>2, <5>1, <5>2, Zenon
      <4>3. Device \in Manager
        BY PartyAssumption, Zenon
      <4> QED
        BY <1>4, <2>7, <3>1, <4>2, <4>3, ZenonT(60) DEF Unused
    <3> QED
      BY <1>0, <1>4, <3>1, Zenon DEF Pake3Unused
  <2>11. WindowsDescribe'
    <3> SUFFICES ASSUME NEW n \in Manager, NEW j \in SessionID, sessions'[n][j] # NoSession
                 PROVE  Describes(sessions'[n][j].replay,
                                  CountersOpened(delivered', n, sessions'[n][j].DecryptKey))
      BY Zenon DEF WindowsDescribe
    <3>1. CASE n = m /\ j = id
      <4> DEFINE old == CountersOpened(delivered, m, own.DecryptKey)
      <4>1. CountersOpened(delivered', m, own.DecryptKey) = old \cup {c}
        <5>1. CountersOpened(delivered \cup {d}, m, ct.key)
                  = CountersOpened(delivered, m, ct.key) \cup {ct.nonce.MessageCounter}
          BY OpenedHere, Zenon
        <5>2. ct.key = own.DecryptKey /\ ct.nonce.MessageCounter = c
          BY <1>3, <2>1, ZenonT(60)
        <5> HIDE DEF d, ct, c
        <5> QED
          BY <2>2, <5>1, <5>2, Zenon
      <4>2. /\ own.replay \in [max : Nat, bitmap : SUBSET Bit]
            /\ old \in SUBSET (Nat \ {0}) /\ Describes(own.replay, old)
        BY <1>3, <2>1, WindowOfSession, ZenonT(60)
      <4> HIDE DEF old
      <4>3. Describes(Commit(own.replay, c), old \cup {c})
        BY <1>3, <2>1, <4>2, CommitDescribes, ZenonT(60)
      <4>4. sessions'[n][j] = new
        BY <2>6, <3>1, Zenon
      <4> QED
        BY <2>4, <3>1, <4>1, <4>3, <4>4, ZenonT(60)
    <3>2. CASE n # m
      <4>1. sessions'[n][j] = sessions[n][j]
        BY <2>6, <3>2, Zenon
      <4>2. CountersOpened(delivered', n, sessions[n][j].DecryptKey)
                = CountersOpened(delivered, n, sessions[n][j].DecryptKey)
        <5> DEFINE key  == sessions[n][j].DecryptKey
                   S(T) == {e \in T : e.to = n /\ e.ciphertext.key = key}
        <5>1. d.to = m
          BY Zenon
        <5> HIDE DEF d, key
        <5>2. S(delivered \cup {d}) = S(delivered)
          BY <3>2, <5>1, Zenon
        <5> HIDE DEF S
        <5>3. CountersOpened(delivered', n, key) = CountersOpened(delivered, n, key)
          BY <2>2, <5>2, ZenonT(60) DEF CountersOpened, S
        <5> QED
          BY <5>3, Zenon DEF key
      <4> QED
        BY <4>1, <4>2, ZenonT(60) DEF ChannelInv, WindowsDescribe
    <3>3. CASE n = m /\ j # id
      <4>1. sessions[m][j] # NoSession
        BY <2>7, <3>3, Zenon
      <4>2. j = id
        <5>1. sessions[m][id] # NoSession /\ id \in SessionID
          BY <1>3, <2>1, ZenonT(60)
        <5> HIDE DEF id
        <5> QED
          BY <1>0, <4>1, <5>1, ZenonT(60) DEF SessionsPlaced
      <4> QED
        BY <3>3, <4>2, Zenon
    <3> QED
      BY <3>1, <3>2, <3>3, Zenon
  <2>12. NonceUnique'
    BY <1>4, Zenon DEF ChannelInv, NonceUnique
  <2> QED
    BY <1>1, <2>8, <2>9, <2>10, <2>11, <2>12, Zenon DEF ChannelInv
<1> QED
  BY <1>5, <1>6, Zenon

\* ChannelInv for any number of controllers, attempts, frames, losses, restarts
\* and duplicates of the other four messages.
THEOREM ChannelInvariance ==
    ASSUME "Pake3" \notin FaultKinds
    PROVE  Spec => []ChannelInv
<1>1. TrafficInv /\ Init => ChannelInv
  <2> SUFFICES ASSUME TrafficInv, Init PROVE ChannelInv
    BY Zenon
  <2>1. /\ sessions = [m \in Manager |-> [id \in SessionID |-> NoSession]]
        /\ net = {} /\ sealed = {} /\ delivered = {}
    BY Zenon DEF Init, PASEInit, SharedInit, SessionsInit, ChannelInit
  <2> QED
    BY <2>1, Zenon DEF ChannelInv, SessionsPlaced, SealedCounted, Pake3Unused, WindowsDescribe,
                NonceUnique
<1>2. ChannelInv /\ [Next]_vars => ChannelInv'
  <2> SUFFICES ASSUME ChannelInv, [Next]_vars PROVE ChannelInv'
    BY Zenon
  <2>1. TrafficInv
    BY Zenon DEF ChannelInv
  <2> QED
    BY <2>1, StepKinds, HandshakeChannel, SendChannel, DeliveryChannel, Zenon
<1> QED
  BY <1>1, <1>2, TrafficInvariance, PTL DEF Spec

\* PASE provides what NonceUniqueness of the link asks for: without a duplicated
\* Pake3, EncryptPayload never repeats a nonce on the sessions it installs.
THEOREM NonceUniqueAfterPASE ==
    ASSUME "Pake3" \notin FaultKinds
    PROVE  Spec => []NonceUnique
<1>1. ChannelInv => NonceUnique
  BY Zenon DEF ChannelInv
<1> QED
  BY <1>1, ChannelInvariance, PTL

\* Nor does DecryptPayload hand a frame up twice on such a session, except one
\* that is exactly WindowSize behind.
THEOREM NoRedeliveryAfterPASE ==
    ASSUME "Pake3" \notin FaultKinds
    PROVE  Spec => []NoRedelivery
<1>1. ChannelInv => NoRedelivery
  BY ZenonT(60), WindowOfSession, ReplayOnlyAtEdge DEF NoRedelivery
<1> QED
  BY <1>1, ChannelInvariance, PTL
=============================================================================
