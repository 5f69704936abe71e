--------------------------- MODULE SecureChannel ----------------------------
(***************************************************************************)
(* Nodes that hold secure sessions exchange sealed frames over UDP.  Every *)
(* frame ever sent may arrive at any node, at any time, any number of      *)
(* times or never, and its header may be damaged on the way.               *)
(*                                                                         *)
(* No caller of EncryptPayload and DecryptPayload is part of the library   *)
(* yet; the order of calls modelled here (NextOutboundCounter, header,     *)
(* EncryptPayload; DecryptPayload with the header as received) is the one  *)
(* of TestPASE_CrossEncryptRoundtrip, commissioning/commissioning_test.go. *)
(***************************************************************************)
EXTENDS SessionManager

CONSTANT MaxSent  \* bound on the number of frames sent

ASSUME MaxSentAssumption == MaxSent \in Nat

VARIABLES
    sent,       \* number of frames sent; also the payload of the next one
    sealed,     \* history: who sealed which ciphertext; also the network
    delivered   \* history: who was handed the plaintext of which ciphertext

channelVars == <<sent, sealed, delivered>>

ChannelInit ==
    /\ sent = 0
    /\ sealed = {}
    /\ delivered = {}

\* The header of a unicast frame on a PASE session: no source node on the wire.
Header(peerID, counter) ==
    [SessionID      |-> peerID,
     SecurityFlags  |-> "SessionTypeUnicast",
     MessageCounter |-> counter,
     SourceNodeID   |-> 0]

\* A node sends on its session id to the peer that calls the session peerID.
SendSecured(m, id, peerID) ==
    /\ sent < MaxSent
    /\ sessions[m][id] # NoSession
    /\ NextOutboundCounter(m, id)
    /\ LET header == Header(peerID, sessions[m][id].OutCounter + 1)
       IN  sealed' = sealed \cup
               {[from |-> m, ciphertext |-> EncryptPayload(m, id, sent, header)]}
    /\ sent' = sent + 1
    /\ UNCHANGED delivered

\* Node m receives the frame s, with counter c in its cleartext header: the one
\* it was sent with, unless the header was damaged on the way.
ReceiveSecured(m, s, c) ==
    LET ct     == s.ciphertext
        header == [ct.aad EXCEPT !.MessageCounter = c]
    IN  /\ DecryptPayload(m, header.SessionID, ct, header)
        /\ delivered' = IF DecryptResult(m, header.SessionID, ct, header) = "plaintext"
                        THEN delivered \cup {[to |-> m, ciphertext |-> ct]}
                        ELSE delivered
        /\ UNCHANGED <<sent, sealed>>

-----------------------------------------------------------------------------
\* The counters of those frames of the history that key opened at m.
CountersOpened(history, m, key) ==
    {d.ciphertext.nonce.MessageCounter :
        d \in {e \in history : e.to = m /\ e.ciphertext.key = key}}

\* Every replay window is what the frames handed up under its key left behind.
WindowsDescribe ==
    \A m \in Manager, id \in SessionID : sessions[m][id] # NoSession =>
        Describes(sessions[m][id].replay,
                  CountersOpened(delivered, m, sessions[m][id].DecryptKey))

\* No two frames are ever sealed under the same key and nonce, what the
\* comment on NonceGenerator (crypto/crypto.go) calls fatal for AES-CCM.  It
\* takes the two directions to have different keys, NextOutboundCounter to
\* refuse instead of wrapping, and an install never to reuse a key.
NonceUnique ==
    \A s, t \in sealed :
        /\ s.ciphertext.key = t.ciphertext.key
        /\ s.ciphertext.nonce = t.ciphertext.nonce
        => s = t

\* A payload handed up was sealed by another node: a frame that comes back to
\* its sender does not open, since DecryptKey is the other direction's key.
DeliveredFromPeer ==
    \A d \in delivered : \E s \in sealed :
        s.from # d.to /\ s.ciphertext = d.ciphertext

\* The replay window of every session describes the frames handed up under its
\* DecryptKey and nothing else: neither a damaged frame, nor a frame of a
\* replaced session or of the other direction, nor a replay moves it.
WindowOnlyDelivered ==
    \A m \in Manager, id \in SessionID : sessions[m][id] # NoSession =>
        LET s == sessions[m][id]
            w == s.replay
        IN  {w.max - 1 - i : i \in w.bitmap}
                \cup (IF w.max = 0 THEN {} ELSE {w.max})
                    \subseteq CountersOpened(delivered, m, s.DecryptKey)

\* A frame already handed up is not handed up again while its session lives,
\* except possibly when it is exactly WindowSize behind the newest one.
NoRedelivery ==
    \A m \in Manager, id \in SessionID : sessions[m][id] # NoSession =>
        LET s == sessions[m][id]
        IN  \A c \in CountersOpened(delivered, m, s.DecryptKey) :
                Accepts(s.replay, c) => s.replay.max - c = WindowSize

\* An intact frame under the DecryptKey of a session that was not handed up yet
\* is handed up when it arrives, if it is at most WindowSize behind the newest.
FreshDeliverable ==
    \A m \in Manager, id \in SessionID, s \in sealed :
        LET ct == s.ciphertext
        IN  /\ sessions[m][id] # NoSession
            /\ ct.key = sessions[m][id].DecryptKey
            /\ ct.aad.MessageCounter \notin CountersOpened(delivered, m, ct.key)
            /\ sessions[m][id].replay.max - ct.aad.MessageCounter <= WindowSize
            => DecryptResult(m, id, ct, ct.aad) = "plaintext"
=============================================================================
