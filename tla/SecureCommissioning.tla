------------------------ MODULE SecureCommissioning -------------------------
(***************************************************************************)
(* Commissioning and what it is for: PASE and the traffic on the sessions  *)
(* it installs run side by side, on the same SessionManagers.              *)
(***************************************************************************)
EXTENDS PASE, SecureChannel

vars == <<paseVars, channelVars>>

Init == PASEInit /\ ChannelInit

Handshake == PASENext /\ UNCHANGED channelVars

HandshakeUnchanged ==
    UNCHANGED <<net, draws, faults, calls, commissioner, commissionee,
                computed, confirmed>>

\* A controller that sees StateComplete uses the session, addressed to the
\* identifier the device announced.
CommissionerSends(c) ==
    /\ commissioner[c].State = "Complete"
    /\ SendSecured(c, commissioner[c].SessionID,
                   commissioner[c].ResponsePayload.ResponderSessionID)
    /\ HandshakeUnchanged

DeviceSends ==
    /\ commissionee.State = "Complete"
    /\ SendSecured(Device, commissionee.SessionID,
                   commissionee.RequestPayload.InitiatorSessionID)
    /\ HandshakeUnchanged

\* A frame may reach any node: all controllers use the same identifier, and
\* the device answers whoever wrote last (deviceMessenger.peer).
Delivery(m, s) ==
    /\ ReceiveSecured(m, s, s.ciphertext.aad.MessageCounter)
    /\ HandshakeUnchanged

Next ==
    \/ Handshake
    \/ \E c \in Commissioners : CommissionerSends(c)
    \/ DeviceSends
    \/ \E m \in Manager, s \in sealed : Delivery(m, s)

Spec == Init /\ [][Next]_vars

-----------------------------------------------------------------------------
\* A payload handed up to the device was sealed by a controller that verified
\* the secret of its session with the device, and a payload handed up to a
\* controller was sealed by the device under the secret that this controller
\* verified: sessions that earlier attempts, other controllers or a device
\* before its restart left behind never meet.
EndToEnd ==
    \A d \in delivered : \E s \in sealed :
        /\ s.ciphertext = d.ciphertext
        /\ LET ke == d.ciphertext.key[2]
           IN  IF d.to = Device
               THEN <<s.from, ke>> \in confirmed
               ELSE s.from = Device /\ <<d.to, ke>> \in confirmed

\* The key of a direction belongs to one of the verified secrets: a controller
\* seals and opens under those it has verified itself, the device under those
\* that some controller has.
SealsWith(verified, m, key) ==
    \E k \in verified : IF m = Device THEN key = <<"R2I", k[2]>>
                        ELSE k[1] = m /\ key = <<"I2R", k[2]>>

OpensWith(verified, m, key) ==
    \E k \in verified : IF m = Device THEN key = <<"I2R", k[2]>>
                        ELSE k[1] = m /\ key = <<"R2I", k[2]>>

\* Whoever has a session knows the identifier its peer uses.
PeersKnown ==
    /\ \A c \in Commissioners :
           commissioner[c].prover # Nil => commissioner[c].ResponsePayload # Nil
    /\ commissionee.SessionID # 0 => commissionee.RequestPayload # Nil

SessionsConfirmed ==
    \A m \in Manager, id \in SessionID : sessions[m][id] # NoSession =>
        /\ SealsWith(confirmed, m, sessions[m][id].EncryptKey)
        /\ OpensWith(confirmed, m, sessions[m][id].DecryptKey)

SealedConfirmed ==
    \A s \in sealed :
        /\ s.from \in Manager
        /\ SealsWith(confirmed, s.from, s.ciphertext.key)
        /\ s.ciphertext.aad \in
               [SessionID : SessionID, SecurityFlags : {"SessionTypeUnicast"},
                MessageCounter : 1 .. CounterMax, SourceNodeID : {0}]

DeliveredConfirmed ==
    \A d \in delivered :
        /\ OpensWith(confirmed, d.to, d.ciphertext.key)
        /\ \E s \in sealed : s.ciphertext = d.ciphertext

\* The inductive invariant behind EndToEnd.  The handshake keeps its own
\* invariant whatever the traffic does to counters and windows; every session,
\* also one that outlived the attempt that installed it, has keys of a secret
\* that installPASESession got after a verification; and so have the frames
\* sealed and opened with them.
TrafficInv ==
    PASEInv /\ PeersKnown /\ SessionsConfirmed /\ SealedConfirmed /\ DeliveredConfirmed

\* A session sits under the identifier its side hard-codes.
SessionsPlaced ==
    \A m \in Manager, id \in SessionID : sessions[m][id] # NoSession =>
        id = IF m = Device THEN ResponderID ELSE InitiatorID

\* No outbound counter is behind a frame sealed with the key of its session.
SealedCounted ==
    \A s \in sealed :
        /\ s.ciphertext.nonce = BuildNonce(s.ciphertext.aad)
        /\ \A m \in Manager, id \in SessionID :
               /\ sessions[m][id] # NoSession
               /\ sessions[m][id].EncryptKey = s.ciphertext.key
               => s.ciphertext.nonce.MessageCounter <= sessions[m][id].OutCounter

\* The device's side has done nothing with the secret ke.
Unused(ke) ==
    /\ \A id \in SessionID : sessions[Device][id] # NoSession =>
           /\ sessions[Device][id].EncryptKey # <<"R2I", ke>>
           /\ sessions[Device][id].DecryptKey # <<"I2R", ke>>
    /\ \A s \in sealed : s.ciphertext.key # <<"R2I", ke>>
    /\ \A d \in delivered : d.to = Device => d.ciphertext.key # <<"I2R", ke>>

\* A Pake3 in flight is the only one of its exchange and comes first.
Pake3Unused ==
    \A f \in net : f.Opcode = "Pake3" =>
        /\ Unused(<<"Ke", f.Payload.cA[2]>>)
        /\ \A g \in net :
               g.Opcode = "Pake3" /\ g.Payload.cA[2] = f.Payload.cA[2] => g = f

\* The inductive invariant behind NonceUnique and NoRedelivery, as long as the
\* network does not duplicate a Pake3.  Then neither side ever installs a secret
\* twice, whatever else is duplicated, lost or retried and whoever restarts: the
\* zero counter and the empty window of a new session are right, since nothing
\* was sealed or opened under its keys yet.
ChannelInv ==
    /\ TrafficInv
    /\ SessionsPlaced
    /\ SealedCounted
    /\ Pake3Unused
    /\ WindowsDescribe
    /\ NonceUnique
=============================================================================
