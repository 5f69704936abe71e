--------------------------- MODULE SessionManager ---------------------------
(***************************************************************************)
(* The secure sessions of the nodes: SessionManager and Session            *)
(* (session/session.go), the keys of a session (crypto/session_keys.go),   *)
(* the nonce and the AEAD they use (crypto/crypto.go).                     *)
(*                                                                         *)
(* Cryptography is symbolic: a key is a term over the secret Ke it is      *)
(* derived from, and a ciphertext remembers the key, the nonce and the     *)
(* additional data it opens under and nothing else opens it.               *)
(*                                                                         *)
(* sessions[m][id] is entry id of the map of manager m, or NoSession.  The *)
(* fields ID (the map's key), LocalNodeID and PeerNodeID (always           *)
(* UnspecifiedNodeID after PASE, and never read) are left out.  Payloads   *)
(* of session 0 pass through both directions unchanged and touch no        *)
(* session; only secure sessions are modelled.                             *)
(***************************************************************************)
EXTENDS ReplayWindow

CONSTANTS
    Manager,     \* the SessionManagers, one per process
    SessionID,   \* identifiers of secure sessions
    CounterMax,  \* ^uint32(0), the last message counter
    NoSession    \* "not in the map"

ASSUME CounterMaxAssumption == CounterMax \in Nat \ {0}

VARIABLE sessions

-----------------------------------------------------------------------------
\* DeriveSessionKeysFromKe: HKDF cuts the three keys out of one output block.
DeriveSessionKeysFromKe(ke) ==
    [I2RKey               |-> <<"I2R", ke>>,
     R2IKey               |-> <<"R2I", ke>>,
     AttestationChallenge |-> <<"AttestationChallenge", ke>>]

\* Mutant: both directions get the same key.
OneKeySession(keys, role) ==
    [EncryptKey           |-> keys.I2RKey,
     DecryptKey           |-> keys.I2RKey,
     AttestationChallenge |-> keys.AttestationChallenge,
     OutCounter           |-> 0,
     replay               |-> EmptyWindow]

\* The Session InstallSecureSession builds: role picks the keys, the outbound
\* counter and the replay window are the zero values.
NewSession(keys, role) ==
    [EncryptKey           |-> IF role = "Initiator" THEN keys.I2RKey ELSE keys.R2IKey,
     DecryptKey           |-> IF role = "Initiator" THEN keys.R2IKey ELSE keys.I2RKey,
     AttestationChallenge |-> keys.AttestationChallenge,
     OutCounter           |-> 0,
     replay               |-> EmptyWindow]

\* NewSessionManager: an empty map.
SessionsInit == sessions = [m \in Manager |-> [id \in SessionID |-> NoSession]]

\* Mutant: a session already in the map is kept.
InstallOnce(m, id, keys, role) ==
    sessions' = IF sessions[m][id] # NoSession THEN sessions
                ELSE [sessions EXCEPT ![m][id] = NewSession(keys, role)]

\* InstallSecureSession overwrites whatever the map holds under id.
InstallSecureSession(m, id, keys, role) ==
    sessions' = [sessions EXCEPT ![m][id] = NewSession(keys, role)]

\* Mutant: the counter of a copy of the Session is counted up.
CounterOfCopy(m, id) ==
    /\ sessions[m][id].OutCounter # CounterMax
    /\ UNCHANGED sessions

\* Session.NextOutboundCounter: refuses (ErrCounterExhausted) at CounterMax,
\* otherwise counts up; the caller stamps the new value into the header.
NextOutboundCounter(m, id) ==
    /\ sessions[m][id].OutCounter # CounterMax
    /\ sessions' = [sessions EXCEPT ![m][id].OutCounter = @ + 1]

\* BuildNonce: security flags, message counter and source node of the header.
BuildNonce(header) ==
    [SecurityFlags  |-> header.SecurityFlags,
     MessageCounter |-> header.MessageCounter,
     SourceNodeID   |-> header.SourceNodeID]

\* AES-CCM, sealing: the ciphertext is bound to all four inputs.
Encrypt(key, nonce, plaintext, aad) ==
    [key |-> key, nonce |-> nonce, plaintext |-> plaintext, aad |-> aad]

\* Mutant: whatever session the frame is routed to opens it.
OpensAnyKey(key, nonce, ciphertext, aad) ==
    /\ ciphertext.nonce = nonce
    /\ ciphertext.aad = aad

\* AES-CCM, opening: fails unless key, nonce and additional data are those
\* the ciphertext was sealed with.
Opens(key, nonce, ciphertext, aad) ==
    /\ ciphertext.key = key
    /\ ciphertext.nonce = nonce
    /\ ciphertext.aad = aad

\* EncryptPayload, for a session that exists: the header is the additional
\* data.  It does not touch the session; stamping the counter is the caller's.
EncryptPayload(m, id, payload, header) ==
    Encrypt(sessions[m][id].EncryptKey, BuildNonce(header), payload, header)

\* What DecryptPayload returns.  The three error paths come in this order.
DecryptResult(m, id, ciphertext, header) ==
    IF sessions[m][id] = NoSession THEN "ErrUnknownSession"
    ELSE IF ~Accepts(sessions[m][id].replay, header.MessageCounter)
         THEN "ErrReplayedMessageCounter"
    ELSE IF ~Opens(sessions[m][id].DecryptKey, BuildNonce(header), ciphertext, header)
         THEN "auth failure"
    ELSE "plaintext"

\* Mutant: the window commits before the AEAD has opened.
EarlyCommit(m, id, ciphertext, header) ==
    sessions' =
        IF DecryptResult(m, id, ciphertext, header) \in {"plaintext", "auth failure"}
        THEN [sessions EXCEPT ![m][id].replay = Commit(@, header.MessageCounter)]
        ELSE sessions

\* What DecryptPayload does to the map: the window commits only after the AEAD
\* has opened.
DecryptPayload(m, id, ciphertext, header) ==
    sessions' =
        IF DecryptResult(m, id, ciphertext, header) = "plaintext"
        THEN [sessions EXCEPT ![m][id].replay = Commit(@, header.MessageCounter)]
        ELSE sessions
=============================================================================
