----------------------------- MODULE SecureLink -----------------------------
(***************************************************************************)
(* Two nodes whose sessions are keyed from outside, each side at its own   *)
(* time, with secrets that are never used twice on the same side.  This is *)
(* the environment session/session.go asks for: "the keys must then be     *)
(* retired" (session.go:73).                                               *)
(***************************************************************************)
EXTENDS SecureChannel

CONSTANTS
    Ke,        \* shared secrets
    Role,      \* the Role of each manager: "Initiator" or "Responder"
    LocalID    \* the identifier each manager gave its session

ASSUME RoleAssumption ==
    /\ Role \in [Manager -> {"Initiator", "Responder"}]
    /\ \A m, n \in Manager : Role[m] = Role[n] => m = n

ASSUME LocalIDAssumption == LocalID \in [Manager -> SessionID]

VARIABLE installed  \* history: the secrets each manager has installed

vars == <<sessions, sent, sealed, delivered, installed>>

Init ==
    /\ SessionsInit
    /\ ChannelInit
    /\ installed = [m \in Manager |-> {}]

Install(m, ke) ==
    /\ ke \notin installed[m]
    /\ InstallSecureSession(m, LocalID[m], DeriveSessionKeysFromKe(ke), Role[m])
    /\ installed' = [installed EXCEPT ![m] = @ \cup {ke}]
    /\ UNCHANGED channelVars

Send(m, peer) ==
    /\ m # peer
    /\ SendSecured(m, LocalID[m], LocalID[peer])
    /\ UNCHANGED installed

Receive(m, s, c) ==
    /\ s.ciphertext.aad.SessionID = LocalID[m]
    /\ ReceiveSecured(m, s, c)
    /\ UNCHANGED installed

Next ==
    \E m \in Manager :
        \/ \E ke \in Ke : Install(m, ke)
        \/ \E peer \in Manager : Send(m, peer)
        \/ \E s \in sealed, c \in 1 .. CounterMax : Receive(m, s, c)

Spec == Init /\ [][Next]_vars

-----------------------------------------------------------------------------
Key == {"I2R", "R2I"} \X Ke

HeaderType ==
    [SessionID      : SessionID,
     SecurityFlags  : {"SessionTypeUnicast"},
     MessageCounter : 1 .. CounterMax,
     SourceNodeID   : {0}]

Ciphertext ==
    [key       : Key,
     nonce     : [SecurityFlags  : {"SessionTypeUnicast"},
                  MessageCounter : 1 .. CounterMax,
                  SourceNodeID   : {0}],
     plaintext : Nat,
     aad       : HeaderType]

Session ==
    [EncryptKey           : Key,
     DecryptKey           : Key,
     AttestationChallenge : {"AttestationChallenge"} \X Ke,
     OutCounter           : 0 .. CounterMax,
     replay               : [max : 0 .. CounterMax, bitmap : SUBSET Bit]]

\* Types of the state; OutCounter in particular never passes CounterMax.
TypeOK ==
    /\ sessions \in [Manager -> [SessionID -> Session \cup {NoSession}]]
    /\ sent \in Nat
    /\ sealed \in SUBSET [from : Manager, ciphertext : Ciphertext]
    /\ delivered \in SUBSET [to : Manager, ciphertext : Ciphertext]
    /\ installed \in [Manager -> SUBSET Ke]

-----------------------------------------------------------------------------
\* The keys a manager seals with, and the keys it opens with.
SealingDirection(m) == IF Role[m] = "Initiator" THEN "I2R" ELSE "R2I"
OpeningDirection(m) == IF Role[m] = "Initiator" THEN "R2I" ELSE "I2R"

\* A session has the keys of a secret that its manager installed.
SessionsKeyed ==
    \A m \in Manager, id \in SessionID : sessions[m][id] # NoSession =>
        /\ id = LocalID[m]
        /\ \E ke \in installed[m] :
               /\ sessions[m][id].EncryptKey = <<SealingDirection(m), ke>>
               /\ sessions[m][id].DecryptKey = <<OpeningDirection(m), ke>>

\* So has every frame sealed or handed up, and the outbound counter of a
\* session is not below that of any frame sealed with its key.
FramesKeyed ==
    /\ \A s \in sealed :
           /\ \E ke \in installed[s.from] :
                  s.ciphertext.key = <<SealingDirection(s.from), ke>>
           /\ s.ciphertext.nonce = BuildNonce(s.ciphertext.aad)
           /\ LET own == sessions[s.from][LocalID[s.from]]
              IN  own # NoSession /\ own.EncryptKey = s.ciphertext.key
                      => s.ciphertext.nonce.MessageCounter <= own.OutCounter
    /\ \A d \in delivered :
           \E ke \in installed[d.to] :
               d.ciphertext.key = <<OpeningDirection(d.to), ke>>

\* The inductive invariant of the link: install, send and receive keep keys,
\* counters and windows in step with what was sealed and handed up.
LinkInv ==
    /\ TypeOK
    /\ SessionsKeyed
    /\ FramesKeyed
    /\ NonceUnique
    /\ DeliveredFromPeer
    /\ WindowsDescribe
=============================================================================
