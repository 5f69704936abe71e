--------------------------- MODULE SessionProofs ----------------------------
(***************************************************************************)
(* Secure sessions, for every window size, counter range, set of secrets   *)
(* and number of calls and frames.  The receiving side: no counter is      *)
(* handed up twice but the one NoReplayInsideWindow excepts, and calls     *)
(* of DecryptPayload, serialised, are atomic.  The link of two nodes:      *)
(* nonces, peers and windows stay right while sessions are replaced.       *)
(***************************************************************************)
EXTENDS DecryptCalls, SecureLink, DataProofs

-----------------------------------------------------------------------------
(* The receiving side of a session *)

\* After every call of DecryptPayload the window is what the delivered counters
\* leave behind, for every window size.
THEOREM WindowInvariance == ReceiverSpec => []IInv
<1> USE MaxCounterAssumption
<1>1. ReceiverInit => IInv
  <2> SUFFICES ASSUME ReceiverInit PROVE IInv
    BY Zenon
  <2>1. ReceiverTypeOK
    BY Zenon DEF ReceiverInit, ReceiverTypeOK, EmptyWindow, Verdict
  <2> QED
    BY <2>1, EmptyDescribes, Zenon DEF ReceiverInit, IInv
<1>2. IInv /\ [ReceiverNext]_receiverVars => IInv'
  <2> SUFFICES ASSUME IInv, [ReceiverNext]_receiverVars
               PROVE  IInv'
    BY Zenon
  <2>1. /\ window \in [max : Nat, bitmap : SUBSET Bit]
        /\ accepted \in SUBSET Counter
        /\ Counter \subseteq Nat \ {0}
        /\ Describes(window, accepted)
    BY DEF IInv, ReceiverTypeOK, Counter
  <2>2. ASSUME NEW c \in Counter, DecryptFresh(c)
        PROVE  IInv'
    <3>1. /\ Accepts(window, c)
          /\ window' = Commit(window, c)
          /\ accepted' = accepted \cup {c}
          /\ last' = [counter |-> c, verdict |-> "plaintext"]
      BY <2>2, Zenon DEF DecryptFresh
    <3>2. window' \in [max : Nat, bitmap : SUBSET Bit]
      BY <2>1, <3>1, CommitType, Zenon
    <3>3. Describes(window', accepted')
      BY <2>1, <3>1, CommitDescribes, Zenon
    <3>4. last' \in [counter : Nat, verdict : Verdict]
      BY <2>1, <3>1, Zenon DEF Verdict
    <3> QED
      BY <2>1, <3>1, <3>2, <3>3, <3>4, Zenon DEF IInv, ReceiverTypeOK
  <2>3. ASSUME NEW c \in Counter, RejectReplay(c) \/ RejectForged(c)
        PROVE  IInv'
    <3>1. window' = window /\ accepted' = accepted
      BY <2>3, Zenon DEF RejectReplay, RejectForged
    <3>2. \E v \in Verdict : last' = [counter |-> c, verdict |-> v]
      BY <2>3, Zenon DEF RejectReplay, RejectForged, Verdict
    <3>3. last' \in [counter : Nat, verdict : Verdict]
      BY <2>1, <3>2
    <3> QED
      BY <2>1, <3>1, <3>3, Zenon DEF IInv, ReceiverTypeOK
  <2>4. CASE UNCHANGED receiverVars
    BY <2>4, Zenon DEF IInv, ReceiverTypeOK, receiverVars
  <2> QED
    BY <2>2, <2>3, <2>4, Zenon DEF ReceiverNext
<1> QED
  BY <1>1, <1>2, PTL DEF ReceiverSpec

\* DecryptPayload keeps the window a number and a word of WindowSize bits.
THEOREM WindowTypeCorrect == ReceiverSpec => []ReceiverTypeOK
<1>1. IInv => ReceiverTypeOK
  BY Zenon DEF IInv
<1> QED
  BY <1>1, WindowInvariance, PTL

\* What the invariant says in the terms of the lemmas on windows.
LEMMA InvariantFacts ==
    ASSUME IInv
    PROVE  /\ window \in [max : Nat, bitmap : SUBSET Bit]
           /\ accepted \in SUBSET (Nat \ {0})
           /\ Counter \subseteq Nat \ {0}
           /\ Describes(window, accepted)
  BY MaxCounterAssumption DEF IInv, ReceiverTypeOK, Counter

\* DecryptPayload never refuses a counter that is new and inside the window.
THEOREM NoFalseReject == ReceiverSpec => []FreshAccepted
<1>1. IInv => FreshAccepted
  BY InvariantFacts, FreshIsAccepted, Zenon DEF FreshAccepted
<1> QED
  BY <1>1, WindowInvariance, PTL

\* DecryptPayload hands no payload up twice, unless its counter is exactly
\* WindowSize behind the greatest one.
THEOREM NoReplay == ReceiverSpec => []NoReplayInsideWindow
<1>1. IInv => NoReplayInsideWindow
  BY InvariantFacts, ReplayOnlyAtEdge, Zenon DEF NoReplayInsideWindow
<1> QED
  BY <1>1, WindowInvariance, PTL

\* What check says of a counter, in the terms of module AntiReplay: it accepts
\* no counter that is too old, and none handed up before but at the edge; it
\* rejects only counters that are too old or were handed up before.
LEMMA VerdictsJustified ==
    ASSUME IInv, NEW c \in Counter
    PROVE  /\ Accepts(window, c) =>
                  /\ ~Promise!Behind(c, WindowSize)
                  /\ c \in accepted => Promise!ExactlyBehind(c, WindowSize)
           /\ ~Accepts(window, c) =>
                  Promise!Behind(c, WindowSize) \/ c \in accepted
<1> USE WindowSizeAssumption
<1>1. /\ window.max \in Nat
      /\ accepted \subseteq Nat
      /\ c \in Nat
      /\ window.max = 0 => accepted = {}
      /\ window.max # 0 => window.max \in accepted
      /\ \A d \in accepted : d <= window.max
  BY InvariantFacts, Zenon DEF Describes
<1>2. ASSUME Accepts(window, c)
      PROVE  ~Promise!Behind(c, WindowSize)
  BY <1>1, <1>2 DEF Accepts, Promise!Behind
<1>3. ASSUME Accepts(window, c), c \in accepted
      PROVE  Promise!ExactlyBehind(c, WindowSize)
  <2>1. window.max - c = WindowSize
    BY <1>3, InvariantFacts, ReplayOnlyAtEdge, Zenon
  <2>2. window.max \in accepted
    BY <1>1, <1>3, Zenon
  <2> QED
    BY <1>2, <1>3, <2>1, <2>2, Zenon DEF Promise!ExactlyBehind
<1>4. ASSUME ~Accepts(window, c), c \notin accepted
      PROVE  Promise!Behind(c, WindowSize)
  <2>1. window.max \in accepted
    BY <1>1, <1>4, Zenon DEF Accepts
  <2>2. window.max - c > WindowSize
    BY <1>1, <1>4, InvariantFacts, FreshIsAccepted
  <2> QED
    BY <2>1, <2>2, Zenon DEF Promise!Behind
<1> QED
  BY <1>2, <1>3, <1>4, Zenon

\* The receiving side implements AntiReplay: each call of DecryptPayload is a
\* step the promise allows, for every window size.
THEOREM ReceiverRefinement == ReceiverSpec => KeepsPromise
<1>1. ReceiverInit => Promise!Init
  BY Zenon DEF ReceiverInit, Promise!Init
<1>2. IInv /\ [ReceiverNext]_receiverVars => [Promise!Next]_(Promise!vars)
  <2> SUFFICES ASSUME IInv, [ReceiverNext]_receiverVars
               PROVE  [Promise!Next]_(Promise!vars)
    BY Zenon
  <2>1. ASSUME NEW c \in Counter, DecryptFresh(c)
        PROVE  Promise!HandUp(c)
    BY <2>1, VerdictsJustified, Zenon DEF DecryptFresh, Promise!HandUp
  <2>2. ASSUME NEW c \in Counter, RejectReplay(c)
        PROVE  Promise!Refuse(c)
    BY <2>2, VerdictsJustified, Zenon DEF RejectReplay, Promise!Refuse
  <2>3. ASSUME NEW c \in Counter, RejectForged(c)
        PROVE  Promise!Discard(c)
    BY <2>3 DEF RejectForged, Promise!Discard
  <2>4. CASE UNCHANGED receiverVars
    BY <2>4, Zenon DEF receiverVars, Promise!vars
  <2>5. Counter = Promise!Counter
    BY Zenon DEF Counter, Promise!Counter
  <2> QED
    BY <2>1, <2>2, <2>3, <2>4, <2>5, Zenon DEF ReceiverNext, Promise!Next
<1> QED
  BY <1>1, <1>2, WindowInvariance, PTL DEF ReceiverSpec, Promise!Spec, KeepsPromise

-----------------------------------------------------------------------------
(* Calls that interleave.                                                  *)

Closure == [case : {"first", "advance", "late"}, c : Nat, n : Nat]

\* The closure check makes, run on the window it was made for, is the atomic
\* commit.
LEMMA RunIsCommit ==
    ASSUME NEW w \in [max : Nat, bitmap : SUBSET Bit],
           NEW c \in Nat \ {0},
           Accepts(w, c)
    PROVE  /\ closure(w, c) \in Closure
           /\ Run(closure(w, c), w) = Commit(w, c)
<1>1. CASE w.max = 0
  BY <1>1, Zenon DEF closure, Run, Commit, Closure
<1>2. CASE w.max # 0 /\ c > w.max
  <2>1. closure(w, c) = [case |-> "advance", c |-> c, n |-> c - w.max]
    BY <1>2, Zenon DEF closure
  <2> QED
    BY <1>2, <2>1 DEF Run, Commit, Closure
<1>3. CASE w.max # 0 /\ ~(c > w.max)
  <2>1. closure(w, c) = [case |-> "late", c |-> c, n |-> w.max - c - 1]
    BY <1>3, Zenon DEF closure
  <2>2. w.max - c - 1 \in Nat
    BY <1>3 DEF Accepts
  <2> QED
    BY <1>3, <2>1, <2>2 DEF Run, Commit, Closure
<1> QED
  BY <1>1, <1>2, <1>3, Zenon

-----------------------------------------------------------------------------
\* At most one goroutine is inside a call of DecryptPayload, and the closure it
\* holds is the one check would return now.
THEOREM CallsInvariance == CallsSpec => []CallsInv
<1> USE GoroutineAssumption, MaxCounterAssumption
<1>1. CallsInit => CallsInv
  BY WindowSizeAssumption DEF CallsInit, ReceiverInit, CallsInv, EmptyWindow, Bit, Location, Idle
<1>2. CallsInv /\ [CallsNext]_callsVars => CallsInv'
  <2> SUFFICES ASSUME CallsInv, [CallsNext]_callsVars
               PROVE  CallsInv'
    BY Zenon
  <2> USE DEF Location
  <2>1. ASSUME NEW g \in Goroutine, NEW c \in Counter, Enter(g, c)
        PROVE  CallsInv'
    BY <2>1 DEF CallsInv, Enter, Counter
  <2>2. ASSUME NEW g \in Goroutine, NEW verdict, Return(g, verdict),
               pc[g] # "outside",
               window' \in [max : Nat, bitmap : SUBSET Bit]
        PROVE  CallsInv'
    BY <2>2, Zenon DEF CallsInv, Return, Idle
  <2>3. ASSUME NEW g \in Goroutine, Check(g)
        PROVE  CallsInv'
    <3>1. CASE ~Accepts(window, call[g].c)
      BY <2>2, <2>3, <3>1, Zenon DEF Check, CallsInv
    <3>2. CASE Accepts(window, call[g].c)
      <4>1. closure(window, call[g].c) \in Closure
        BY <2>3, <3>2, RunIsCommit DEF Check, CallsInv, Counter
      <4> QED
        BY <2>3, <3>2, <4>1, SMTT(60) DEF Check, CallsInv, Closure
    <3> QED
      BY <3>1, <3>2, Zenon
  <2>4. ASSUME NEW g \in Goroutine, Open(g)
        PROVE  CallsInv'
    <3>1. CASE Return(g, "auth failure")
      BY <2>2, <2>4, <3>1 DEF Open, CallsInv
    <3>2. CASE pc' = [pc EXCEPT ![g] = "commit"] /\ UNCHANGED <<last, call, inside>>
      BY <2>4, <3>2, Zenon DEF Open, CallsInv
    <3> QED
      BY <2>4, <3>1, <3>2 DEF Open
  <2>5. ASSUME NEW g \in Goroutine, CommitAndReturn(g)
        PROVE  CallsInv'
    <3>1. window' \in [max : Nat, bitmap : SUBSET Bit]
      BY <2>5, RunIsCommit, CommitType DEF CommitAndReturn, CallsInv, Counter
    <3> QED
      BY <2>2, <2>5, <3>1, Zenon DEF CommitAndReturn
  <2>6. CASE UNCHANGED callsVars
    BY <2>6, Zenon DEF callsVars, CallsInv
  <2> QED
    BY <2>1, <2>3, <2>4, <2>5, <2>6, Zenon DEF CallsNext
<1> QED
  BY <1>1, <1>2, PTL DEF CallsSpec

\* Every behaviour of serialised calls is a behaviour of ReplayReceiver, where
\* DecryptPayload is one step: entering, an accepting check and a successful
\* open change nothing there, and the commit does all at once.
THEOREM CallsAreAtomic == CallsSpec => AtomicCalls
<1> USE MaxCounterAssumption
<1>1. CallsInit => ReceiverInit
  BY Zenon DEF CallsInit
<1>2. CallsInv /\ [CallsNext]_callsVars => [ReceiverNext]_receiverVars
  <2> SUFFICES ASSUME CallsInv, [CallsNext]_callsVars
               PROVE  [ReceiverNext]_receiverVars
    BY Zenon
  <2> USE DEF receiverVars
  <2>1. ASSUME NEW g \in Goroutine, NEW c \in Counter, Enter(g, c)
        PROVE  UNCHANGED receiverVars
    BY <2>1, Zenon DEF Enter
  <2>2. ASSUME NEW g \in Goroutine, Check(g)
        PROVE  [ReceiverNext]_receiverVars
    <3>1. call[g].c \in Counter
      BY <2>2, Zenon DEF Check, CallsInv
    <3>2. CASE Accepts(window, call[g].c)
      BY <2>2, <3>2, Zenon DEF Check
    <3>3. CASE ~Accepts(window, call[g].c)
      <4>1. RejectReplay(call[g].c)
        BY <2>2, <3>1, <3>3, Zenon DEF Check, Return, RejectReplay
      <4> QED
        BY <3>1, <4>1, Zenon DEF ReceiverNext
    <3> QED
      BY <3>2, <3>3, Zenon
  <2>3. ASSUME NEW g \in Goroutine, Open(g)
        PROVE  [ReceiverNext]_receiverVars
    <3>1. call[g].c \in Counter /\ Accepts(window, call[g].c)
      BY <2>3 DEF Open, CallsInv
    <3>2. CASE Return(g, "auth failure")
      <4>1. RejectForged(call[g].c)
        BY <2>3, <3>1, <3>2 DEF Open, Return, RejectForged
      <4> QED
        BY <3>1, <4>1, Zenon DEF ReceiverNext
    <3>3. CASE UNCHANGED <<last, call, inside>>
      BY <2>3, <3>3 DEF Open
    <3> QED
      BY <2>3, <3>2, <3>3 DEF Open
  <2>4. ASSUME NEW g \in Goroutine, CommitAndReturn(g)
        PROVE  ReceiverNext
    <3>1. /\ call[g].c \in Counter
          /\ Accepts(window, call[g].c)
          /\ call[g].closure = closure(window, call[g].c)
          /\ window \in [max : Nat, bitmap : SUBSET Bit]
      BY <2>4, Zenon DEF CommitAndReturn, CallsInv
    <3>2. window' = Commit(window, call[g].c)
      BY <2>4, <3>1, RunIsCommit DEF CommitAndReturn, Counter
    <3>3. DecryptFresh(call[g].c)
      BY <2>4, <3>1, <3>2, Zenon DEF CommitAndReturn, Return, DecryptFresh
    <3> QED
      BY <3>1, <3>3, Zenon DEF ReceiverNext
  <2>5. CASE UNCHANGED callsVars
    BY <2>5, Zenon DEF callsVars
  <2> QED
    BY <2>1, <2>2, <2>3, <2>4, <2>5, Zenon DEF CallsNext
<1> QED
  BY <1>1, <1>2, CallsInvariance, PTL DEF CallsSpec, ReceiverSpec, AtomicCalls

\* Serialised calls keep the promise of AntiReplay, for every window size and
\* any number of goroutines: none is refused a fresh counter, and no counter
\* is handed up twice but the one exactly WindowSize behind max.
THEOREM CallsKeepPromise == CallsSpec => KeepsPromise
  BY CallsAreAtomic, ReceiverRefinement, PTL DEF AtomicCalls

-----------------------------------------------------------------------------
(* The link of two nodes *)

\* The two directions of a node differ, and two nodes that seal in the same
\* direction, or one that seals where the other opens, are told apart.
LEMMA Directions ==
    ASSUME NEW m \in Manager, NEW n \in Manager
    PROVE  /\ SealingDirection(m) \in {"I2R", "R2I"}
           /\ OpeningDirection(m) \in {"I2R", "R2I"}
           /\ SealingDirection(m) # OpeningDirection(m)
           /\ SealingDirection(m) = SealingDirection(n) => m = n
<1>1. /\ Role[m] \in {"Initiator", "Responder"}
      /\ Role[n] \in {"Initiator", "Responder"}
      /\ Role[m] = Role[n] => m = n
  BY RoleAssumption, Zenon
<1> QED
  BY <1>1, Zenon DEF SealingDirection, OpeningDirection

\* Replacing one session leaves all the others alone.
LEMMA ReplaceSession ==
    ASSUME NEW Value,
           NEW table \in [Manager -> [SessionID -> Value]],
           NEW m \in Manager, NEW id \in SessionID, NEW new \in Value
    PROVE  LET table2 == [table EXCEPT ![m][id] = new]
           IN  /\ table2 \in [Manager -> [SessionID -> Value]]
               /\ \A n \in Manager, j \in SessionID :
                      table2[n][j] = IF n = m /\ j = id THEN new ELSE table[n][j]
  BY Zenon

\* The session NewSession builds for a node.
LEMMA NewSessionKeys ==
    ASSUME NEW m \in Manager, NEW ke \in Ke
    PROVE  LET s == NewSession(DeriveSessionKeysFromKe(ke), Role[m])
           IN  /\ s \in Session
               /\ s.EncryptKey = <<SealingDirection(m), ke>>
               /\ s.DecryptKey = <<OpeningDirection(m), ke>>
               /\ s.replay = EmptyWindow
<1> USE CounterMaxAssumption
<1>1. EmptyWindow \in [max : 0 .. CounterMax, bitmap : SUBSET Bit]
  BY DEF EmptyWindow
<1>2. CASE Role[m] = "Initiator"
  BY <1>1, <1>2 DEF NewSession, DeriveSessionKeysFromKe, SealingDirection,
                    OpeningDirection, Session, Key
<1>3. CASE Role[m] # "Initiator"
  BY <1>1, <1>3 DEF NewSession, DeriveSessionKeysFromKe, SealingDirection,
                    OpeningDirection, Session, Key
<1> QED
  BY <1>2, <1>3, Zenon

\* Nothing is installed, sealed or handed up at first.
LEMMA InitLinkInv == Init => LinkInv
<1> SUFFICES ASSUME Init
             PROVE  LinkInv
  BY Zenon
<1>1. /\ sessions = [m \in Manager |-> [id \in SessionID |-> NoSession]]
      /\ sent = 0 /\ sealed = {} /\ delivered = {}
      /\ installed = [m \in Manager |-> {}]
  BY Zenon DEF Init, SessionsInit, ChannelInit
<1>2. TypeOK
  BY <1>1, Zenon DEF TypeOK
<1>3. SessionsKeyed /\ FramesKeyed /\ NonceUnique /\ DeliveredFromPeer /\ WindowsDescribe
  BY <1>1, Zenon DEF SessionsKeyed, FramesKeyed, NonceUnique, DeliveredFromPeer, WindowsDescribe
<1> QED
  BY <1>2, <1>3, Zenon DEF LinkInv

\* InstallSecureSession with a new secret: no frame has its keys yet, so the
\* fresh counter and the empty window are right.
LEMMA InstallLinkInv ==
    ASSUME LinkInv, NEW m \in Manager, NEW ke \in Ke, Install(m, ke)
    PROVE  LinkInv'
<1> DEFINE new == NewSession(DeriveSessionKeysFromKe(ke), Role[m])
<1>1. /\ ke \notin installed[m]
      /\ sessions' = [sessions EXCEPT ![m][LocalID[m]] = new]
      /\ installed' = [installed EXCEPT ![m] = @ \cup {ke}]
      /\ sent' = sent /\ sealed' = sealed /\ delivered' = delivered
  BY Zenon DEF Install, InstallSecureSession, channelVars
<1>2. LocalID[m] \in SessionID
  BY LocalIDAssumption, Zenon
<1>3. /\ new \in Session
      /\ new.EncryptKey = <<SealingDirection(m), ke>>
      /\ new.DecryptKey = <<OpeningDirection(m), ke>>
      /\ new.replay = EmptyWindow
  BY NewSessionKeys, Zenon
<1> HIDE DEF new
<1>4. /\ sessions' \in [Manager -> [SessionID -> Session \cup {NoSession}]]
      /\ \A n \in Manager, j \in SessionID :
             sessions'[n][j] = IF n = m /\ j = LocalID[m] THEN new ELSE sessions[n][j]
  BY <1>1, <1>2, <1>3, ReplaceSession DEF LinkInv, TypeOK
<1>5. /\ installed \in [Manager -> SUBSET Ke]
      /\ installed' \in [Manager -> SUBSET Ke]
      /\ \A n \in Manager : installed[n] \subseteq installed'[n]
      /\ ke \in installed'[m]
  BY <1>1, Zenon DEF LinkInv, TypeOK
<1>6. TypeOK'
  BY <1>1, <1>4, <1>5, Zenon DEF LinkInv, TypeOK
<1>7. SessionsKeyed'
  BY <1>3, <1>4, <1>5 DEF LinkInv, SessionsKeyed
<1>8. \A s \in sealed : s.from = m => s.ciphertext.key # new.EncryptKey
  BY <1>1, <1>3 DEF LinkInv, FramesKeyed
<1>9. FramesKeyed'
  <2>1. ASSUME NEW s \in sealed
        PROVE  /\ \E k \in installed'[s.from] :
                      s.ciphertext.key = <<SealingDirection(s.from), k>>
               /\ s.ciphertext.nonce = BuildNonce(s.ciphertext.aad)
               /\ LET own == sessions'[s.from][LocalID[s.from]]
                  IN  own # NoSession /\ own.EncryptKey = s.ciphertext.key
                        => s.ciphertext.nonce.MessageCounter <= own.OutCounter
    <3>1. s.from \in Manager /\ LocalID[s.from] \in SessionID
      BY LocalIDAssumption, Zenon DEF LinkInv, TypeOK
    <3> QED
      BY ZenonT(60), <1>4, <1>5, <1>8, <3>1 DEF LinkInv, FramesKeyed
  <2>2. ASSUME NEW d \in delivered
        PROVE  \E k \in installed'[d.to] :
                   d.ciphertext.key = <<OpeningDirection(d.to), k>>
    <3>1. d.to \in Manager
      BY Zenon DEF LinkInv, TypeOK
    <3> QED
      BY <1>5, <3>1, Zenon DEF LinkInv, FramesKeyed
  <2> QED
    BY <1>1, <2>1, <2>2, Zenon DEF FramesKeyed
<1>10. NonceUnique' /\ DeliveredFromPeer'
  BY <1>1, Zenon DEF LinkInv, NonceUnique, DeliveredFromPeer
<1>11. WindowsDescribe'
  <2> SUFFICES ASSUME NEW n \in Manager, NEW j \in SessionID,
                      sessions'[n][j] # NoSession
               PROVE  Describes(sessions'[n][j].replay,
                                CountersOpened(delivered, n, sessions'[n][j].DecryptKey))
    BY <1>1, Zenon DEF WindowsDescribe
  <2>1. CASE n = m /\ j = LocalID[m]
    <3>1. sessions'[n][j] = new
      BY <1>4, <2>1, Zenon
    <3>2. \A d \in delivered : d.to = m => d.ciphertext.key # new.DecryptKey
      BY <1>1, <1>3 DEF LinkInv, FramesKeyed
    <3>3. CountersOpened(delivered, m, new.DecryptKey) = {}
      BY <3>2, Zenon DEF CountersOpened
    <3> QED
      BY ZenonT(60), <1>3, <2>1, <3>1, <3>3, EmptyDescribes
  <2>2. CASE ~(n = m /\ j = LocalID[m])
    <3>1. sessions'[n][j] = sessions[n][j]
      BY <1>4, <2>2, Zenon
    <3> QED
      BY <3>1, Zenon DEF LinkInv, WindowsDescribe
  <2> QED
    BY <2>1, <2>2, Zenon
<1> QED
  BY <1>6, <1>7, <1>9, <1>10, <1>11, Zenon DEF LinkInv

\* NextOutboundCounter and EncryptPayload: the new frame is one above every
\* frame sealed with its key.
LEMMA SendLinkInv ==
    ASSUME LinkInv, NEW m \in Manager, NEW peer \in Manager, Send(m, peer)
    PROVE  LinkInv'
<1> USE CounterMaxAssumption
<1> DEFINE id     == LocalID[m]
           own    == sessions[m][id]
           new    == [own EXCEPT !.OutCounter = @ + 1]
           header == Header(LocalID[peer], own.OutCounter + 1)
           ct     == EncryptPayload(m, id, sent, header)
           frame  == [from |-> m, ciphertext |-> ct]
<1>1. /\ own # NoSession
      /\ own.OutCounter # CounterMax
      /\ sessions' = [sessions EXCEPT ![m][id].OutCounter = @ + 1]
      /\ sealed' = sealed \cup {frame}
      /\ sent' = sent + 1
      /\ delivered' = delivered /\ installed' = installed
  BY Zenon DEF Send, SendSecured, NextOutboundCounter
<1>2. id \in SessionID /\ LocalID[peer] \in SessionID
  BY LocalIDAssumption, Zenon
<1>3. own \in Session /\ own.OutCounter \in 0 .. CounterMax
  BY <1>1, <1>2, SMTT(60) DEF LinkInv, TypeOK, Session
<1>4. /\ new \in Session
      /\ new.OutCounter = own.OutCounter + 1
      /\ new.EncryptKey = own.EncryptKey
      /\ new.DecryptKey = own.DecryptKey
      /\ new.replay = own.replay
  <2>1. own.OutCounter + 1 \in 0 .. CounterMax
    BY <1>1, <1>3
  <2> QED
    BY <1>3, <2>1, Zenon DEF Session
<1>a. \E k \in installed[m] : own.EncryptKey = <<SealingDirection(m), k>>
  BY <1>1, <1>2, ZenonT(60) DEF LinkInv, SessionsKeyed
<1>5. /\ ct \in Ciphertext
      /\ ct.key = own.EncryptKey
      /\ ct.nonce = BuildNonce(ct.aad)
      /\ ct.nonce.MessageCounter = own.OutCounter + 1
  <2>1. own.OutCounter + 1 \in 1 .. CounterMax
    BY <1>1, <1>3
  <2>2. sent \in Nat /\ own.EncryptKey \in Key
    BY <1>3, Zenon DEF LinkInv, TypeOK, Session
  <2> QED
    BY <1>2, <2>1, <2>2, Zenon
       DEF EncryptPayload, Encrypt, BuildNonce, Header, Ciphertext, HeaderType
<1>6. sessions' = [sessions EXCEPT ![m][id] = new]
  BY <1>1, <1>2, Zenon DEF LinkInv, TypeOK
<1> HIDE DEF new, ct
<1>7. /\ sessions' \in [Manager -> [SessionID -> Session \cup {NoSession}]]
      /\ \A n \in Manager, j \in SessionID :
             sessions'[n][j] = IF n = m /\ j = id THEN new ELSE sessions[n][j]
  BY <1>2, <1>4, <1>6, ReplaceSession DEF LinkInv, TypeOK
<1>8. TypeOK'
  <2>1. sent \in Nat /\ sent' \in Nat
    BY <1>1 DEF LinkInv, TypeOK
  <2>2. frame \in [from : Manager, ciphertext : Ciphertext]
    BY <1>5, Zenon
  <2> HIDE DEF frame
  <2> QED
    BY <1>1, <1>7, <2>1, <2>2, Zenon DEF LinkInv, TypeOK
<1>9. SessionsKeyed'
  <2> SUFFICES ASSUME NEW n \in Manager, NEW j \in SessionID, sessions'[n][j] # NoSession
               PROVE  /\ j = LocalID[n]
                      /\ \E ke \in installed[n] :
                             /\ sessions'[n][j].EncryptKey = <<SealingDirection(n), ke>>
                             /\ sessions'[n][j].DecryptKey = <<OpeningDirection(n), ke>>
    BY <1>1, ZenonT(60) DEF SessionsKeyed, SealingDirection, OpeningDirection
  <2>1. /\ sessions[n][j] # NoSession
        /\ sessions'[n][j].EncryptKey = sessions[n][j].EncryptKey
        /\ sessions'[n][j].DecryptKey = sessions[n][j].DecryptKey
    BY <1>1, <1>4, <1>7, Zenon
  <2> QED
    BY SMTT(60), <2>1 DEF LinkInv, SessionsKeyed
<1>10. \A s \in sealed : s.from \in Manager /\ LocalID[s.from] \in SessionID
                         /\ s.ciphertext.nonce.MessageCounter \in Nat
  BY SMTT(60), LocalIDAssumption DEF LinkInv, TypeOK, Ciphertext
<1>11. FramesKeyed'
  <2>1. ASSUME NEW s \in sealed'
        PROVE  /\ \E k \in installed[s.from] :
                      s.ciphertext.key = <<SealingDirection(s.from), k>>
               /\ s.ciphertext.nonce = BuildNonce(s.ciphertext.aad)
               /\ LET o == sessions'[s.from][LocalID[s.from]]
                  IN  o # NoSession /\ o.EncryptKey = s.ciphertext.key
                        => s.ciphertext.nonce.MessageCounter <= o.OutCounter
    <3>1. CASE s \in sealed
      <4> DEFINE n == s.from
                 j == LocalID[s.from]
                 o == sessions[n][j]
                 x == s.ciphertext.nonce.MessageCounter
      <4>1. /\ \E k \in installed[s.from] :
                   s.ciphertext.key = <<SealingDirection(s.from), k>>
            /\ s.ciphertext.nonce = BuildNonce(s.ciphertext.aad)
            /\ o # NoSession /\ o.EncryptKey = s.ciphertext.key => x <= o.OutCounter
        BY <3>1, Zenon DEF LinkInv, FramesKeyed
      <4>2. n \in Manager /\ j \in SessionID /\ x \in Nat
        BY <1>10, <3>1, Zenon
      <4>3. sessions'[n][j] = IF n = m /\ j = id THEN new ELSE o
        BY <1>7, <4>2, Zenon
      <4>4. n = m /\ j = id => o = own
        BY Zenon
      <4>5. /\ own # NoSession /\ own.OutCounter \in Nat
            /\ new.OutCounter = own.OutCounter + 1 /\ new.EncryptKey = own.EncryptKey
        BY <1>1, <1>3, <1>4
      <4> HIDE DEF n, j, o, x, own, id
      <4>6. sessions'[n][j] # NoSession /\ sessions'[n][j].EncryptKey = s.ciphertext.key
                => x <= sessions'[n][j].OutCounter
        <5>1. CASE n = m /\ j = id
          <6>1. o = own /\ sessions'[n][j] = new
            BY <4>3, <4>4, <5>1, Zenon
          <6>2. own.EncryptKey = s.ciphertext.key => x <= own.OutCounter
            BY <4>1, <4>5, <6>1, Zenon
          <6>3. x <= own.OutCounter => x <= own.OutCounter + 1
            BY <4>2, <4>5
          <6> QED
            BY <4>5, <6>1, <6>2, <6>3, Zenon
        <5>2. CASE ~(n = m /\ j = id)
          BY <4>1, <4>3, <5>2, Zenon
        <5> QED
          BY <5>1, <5>2, Zenon
      <4> QED
        BY <4>1, <4>6, Zenon DEF n, j, x
    <3>2. CASE s = frame
      <4>1. \E k \in installed[m] : ct.key = <<SealingDirection(m), k>>
        BY <1>5, <1>a, Zenon
      <4>2. sessions'[m][id] = new
        BY <1>2, <1>7, Zenon
      <4>3. s.from = m /\ s.ciphertext = ct
        BY <3>2, Zenon
      <4>4. ct.nonce.MessageCounter <= new.OutCounter
        BY <1>3, <1>4, <1>5
      <4> QED
        BY <1>5, <4>1, <4>2, <4>3, <4>4, Zenon
    <3> QED
      BY ZenonT(60), <1>1, <2>1, <3>1, <3>2
  <2> QED
    BY ZenonT(60), <1>1, <2>1 DEF LinkInv, FramesKeyed
<1>12. NonceUnique'
  <2>1. ASSUME NEW s \in sealed, s.ciphertext.key = ct.key,
               s.ciphertext.nonce = ct.nonce
        PROVE  FALSE
    <3>1. SealingDirection(s.from) = SealingDirection(m)
      <4>1. PICK k : s.ciphertext.key = <<SealingDirection(s.from), k>>
        BY <2>1, Zenon DEF LinkInv, FramesKeyed
      <4>2. PICK l : ct.key = <<SealingDirection(m), l>>
        BY <1>5, <1>a, Zenon
      <4>3. <<SealingDirection(s.from), k>> = <<SealingDirection(m), l>>
        BY <2>1, <4>1, <4>2, Zenon
      <4> QED
        BY <4>3
    <3>2. s.from = m
      BY <1>10, <3>1, Directions, Zenon
    <3>3. s.ciphertext.nonce.MessageCounter <= own.OutCounter
      BY <1>1, <1>5, <2>1, <3>2, Zenon DEF LinkInv, FramesKeyed
    <3> QED
      BY <1>3, <1>5, <1>10, <2>1, <3>3, SMTT(60)
  <2> QED
    BY <1>1, <2>1 DEF LinkInv, NonceUnique
<1>13. DeliveredFromPeer'
  BY <1>1, Zenon DEF LinkInv, DeliveredFromPeer
<1>14. WindowsDescribe'
  <2> SUFFICES ASSUME NEW n \in Manager, NEW j \in SessionID, sessions'[n][j] # NoSession
               PROVE  Describes(sessions'[n][j].replay,
                                CountersOpened(delivered', n, sessions'[n][j].DecryptKey))
    BY Zenon DEF WindowsDescribe
  <2>1. /\ sessions[n][j] # NoSession
        /\ sessions'[n][j].replay = sessions[n][j].replay
        /\ sessions'[n][j].DecryptKey = sessions[n][j].DecryptKey
    BY <1>1, <1>4, <1>7, Zenon
  <2> QED
    BY <1>1, <2>1, Zenon DEF LinkInv, WindowsDescribe
<1> QED
  BY <1>8, <1>9, <1>11, <1>12, <1>13, <1>14, Zenon DEF LinkInv

\* Handing up one more frame adds its counter.
LEMMA OpenedAlso ==
    ASSUME NEW history, NEW m, NEW ct
    PROVE  CountersOpened(history \cup {[to |-> m, ciphertext |-> ct]}, m, ct.key)
               = CountersOpened(history, m, ct.key) \cup {ct.nonce.MessageCounter}
<1> DEFINE d  == [to |-> m, ciphertext |-> ct]
           S  == {e \in history : e.to = m /\ e.ciphertext.key = ct.key}
           S2 == {e \in history \cup {d} : e.to = m /\ e.ciphertext.key = ct.key}
<1>1. S2 = S \cup {d}
  OBVIOUS
<1>2. d.ciphertext.nonce.MessageCounter = ct.nonce.MessageCounter
  BY Zenon
<1> HIDE DEF S, d
<1>3. {e.ciphertext.nonce.MessageCounter : e \in S \cup {d}}
          = {e.ciphertext.nonce.MessageCounter : e \in S}
                \cup {d.ciphertext.nonce.MessageCounter}
  BY Zenon
<1> QED
  BY ZenonT(60), <1>1, <1>2, <1>3 DEF CountersOpened, S, d

\* DecryptPayload: the window commits exactly the counters it hands up, and
\* what opens under DecryptKey was sealed at the other end.
LEMMA ReceiveLinkInv ==
    ASSUME LinkInv, NEW m \in Manager, NEW s \in sealed,
           NEW c \in 1 .. CounterMax, Receive(m, s, c)
    PROVE  LinkInv'
<1> USE CounterMaxAssumption
<1> DEFINE ct     == s.ciphertext
           id     == LocalID[m]
           own    == sessions[m][id]
           header == [ct.aad EXCEPT !.MessageCounter = c]
<1>1. /\ s.from \in Manager /\ ct \in Ciphertext /\ ct.aad \in HeaderType
      /\ id \in SessionID
  BY LocalIDAssumption, Zenon DEF LinkInv, TypeOK, Ciphertext
<1>2. header.SessionID = id /\ header.MessageCounter = c
  BY <1>1, Zenon DEF Receive, HeaderType
<1>3. /\ DecryptPayload(m, id, ct, header)
      /\ delivered' = IF DecryptResult(m, id, ct, header) = "plaintext"
                      THEN delivered \cup {[to |-> m, ciphertext |-> ct]}
                      ELSE delivered
      /\ sent' = sent /\ sealed' = sealed /\ installed' = installed
  BY <1>2, Zenon DEF Receive, ReceiveSecured
<1>4. CASE DecryptResult(m, id, ct, header) # "plaintext"
  <2>1. sessions' = sessions /\ delivered' = delivered
    BY <1>3, <1>4, Zenon DEF DecryptPayload
  <2> QED
    BY ZenonT(60), <1>3, <2>1 DEF LinkInv, TypeOK, SessionsKeyed, FramesKeyed, NonceUnique,
                      DeliveredFromPeer, WindowsDescribe
<1>5. CASE DecryptResult(m, id, ct, header) = "plaintext"
  <2> DEFINE new == [own EXCEPT !.replay = Commit(own.replay, c)]
             d   == [to |-> m, ciphertext |-> ct]
  <2>1. /\ own # NoSession
        /\ Accepts(own.replay, c)
        /\ ct.key = own.DecryptKey
        /\ ct.nonce = BuildNonce(header)
    BY <1>2, <1>5, Zenon DEF DecryptResult, Opens
  <2>2. /\ delivered' = delivered \cup {d}
        /\ sessions' = [sessions EXCEPT ![m][id].replay = Commit(@, c)]
    BY <1>2, <1>3, <1>5, Zenon DEF DecryptPayload
  <2>3. own \in Session
    BY <1>1, <2>1 DEF LinkInv, TypeOK
  <2>4. own.replay \in [max : 0 .. CounterMax, bitmap : SUBSET Bit]
    BY <2>3, Zenon DEF Session
  <2>5. Commit(own.replay, c) \in [max : 0 .. CounterMax, bitmap : SUBSET Bit]
    BY <2>1, <2>4, CommitBounded, Zenon
  <2>6. /\ new \in Session
        /\ new.replay = Commit(own.replay, c)
        /\ new.EncryptKey = own.EncryptKey
        /\ new.DecryptKey = own.DecryptKey
        /\ new.OutCounter = own.OutCounter
    BY <2>3, <2>5, Zenon DEF Session
  <2>7. sessions' = [sessions EXCEPT ![m][id] = new]
    BY <1>1, <2>2, Zenon DEF LinkInv, TypeOK
  <2>8. ct.nonce.MessageCounter = c
    BY <1>2, <2>1 DEF BuildNonce
  <2> HIDE DEF new
  <2>9. /\ sessions' \in [Manager -> [SessionID -> Session \cup {NoSession}]]
        /\ \A n \in Manager, j \in SessionID :
               sessions'[n][j] = IF n = m /\ j = id THEN new ELSE sessions[n][j]
    BY <1>1, <2>6, <2>7, ReplaceSession DEF LinkInv, TypeOK
  <2>10. TypeOK'
    <3>1. d \in [to : Manager, ciphertext : Ciphertext]
      BY <1>1, Zenon
    <3> HIDE DEF d
    <3> QED
      BY <1>3, <2>2, <2>9, <3>1, ZenonT(60) DEF LinkInv, TypeOK
  <2>11. SessionsKeyed'
    BY <1>3, <2>1, <2>6, <2>9 DEF LinkInv, SessionsKeyed
  <2>12. PICK ke \in installed[m] : own.DecryptKey = <<OpeningDirection(m), ke>>
    BY <1>1, <2>1, Zenon DEF LinkInv, SessionsKeyed
  <2>13. FramesKeyed'
    <3>1. ASSUME NEW t \in sealed
          PROVE  LET o == sessions'[t.from][LocalID[t.from]]
                 IN  o # NoSession /\ o.EncryptKey = t.ciphertext.key
                        => t.ciphertext.nonce.MessageCounter <= o.OutCounter
      <4>1. t.from \in Manager /\ LocalID[t.from] \in SessionID
        BY LocalIDAssumption, Zenon DEF LinkInv, TypeOK
      <4> QED
        <5> DEFINE n == t.from
                   j == LocalID[t.from]
                   o == sessions[n][j]
                   x == t.ciphertext.nonce.MessageCounter
        <5>1. o # NoSession /\ o.EncryptKey = t.ciphertext.key => x <= o.OutCounter
          BY Zenon DEF LinkInv, FramesKeyed
        <5>2. sessions'[n][j] = IF n = m /\ j = id THEN new ELSE o
          BY <2>9, <4>1, Zenon
        <5>3. n = m /\ j = id => o = own
          BY Zenon
        <5> HIDE DEF n, j, o, x, own, id
        <5>4. sessions'[n][j] # NoSession /\ sessions'[n][j].EncryptKey = t.ciphertext.key
                  => x <= sessions'[n][j].OutCounter
          BY <2>1, <2>6, <5>1, <5>2, <5>3, Zenon
        <5> QED
          BY <5>4, Zenon DEF n, j, x
    <3>2. ASSUME NEW e \in delivered'
          PROVE  \E k \in installed[e.to] :
                     e.ciphertext.key = <<OpeningDirection(e.to), k>>
      <4>1. CASE e \in delivered
        BY <4>1, Zenon DEF LinkInv, FramesKeyed
      <4>2. CASE e = d
        <5>1. e.to = m /\ e.ciphertext = ct
          BY <4>2, Zenon
        <5> QED
          BY <2>1, <2>12, <5>1, Zenon
      <4> QED
        BY <2>2, <4>1, <4>2, Zenon
    <3> QED
      BY ZenonT(60), <1>3, <3>1, <3>2 DEF LinkInv, FramesKeyed
  <2>14. NonceUnique'
    BY <1>3, Zenon DEF LinkInv, NonceUnique
  <2>15. DeliveredFromPeer'
    <3>1. SealingDirection(s.from) = OpeningDirection(m)
      <4>1. PICK k : ct.key = <<SealingDirection(s.from), k>>
        BY Zenon DEF LinkInv, FramesKeyed
      <4>2. ct.key = <<OpeningDirection(m), ke>>
        BY <2>1, <2>12, Zenon
      <4> QED
        BY <4>1, <4>2
    <3>2. s.from # m
      BY <1>1, <3>1, Directions, Zenon
    <3> QED
      BY <1>3, <2>2, <3>2 DEF LinkInv, DeliveredFromPeer
  <2>16. WindowsDescribe'
    <3> SUFFICES ASSUME NEW n \in Manager, NEW j \in SessionID,
                        sessions'[n][j] # NoSession
                 PROVE  Describes(sessions'[n][j].replay,
                                  CountersOpened(delivered', n, sessions'[n][j].DecryptKey))
      BY Zenon DEF WindowsDescribe
    <3>1. CASE n = m /\ j = id
      <4> DEFINE old == CountersOpened(delivered, m, own.DecryptKey)
      <4>1. CountersOpened(delivered', m, own.DecryptKey) = old \cup {c}
        <5>1. CountersOpened(delivered \cup {d}, m, ct.key)
                  = CountersOpened(delivered, m, ct.key) \cup {ct.nonce.MessageCounter}
          BY OpenedAlso, Zenon
        <5> HIDE DEF d, ct
        <5> QED
          BY ZenonT(60), <2>1, <2>2, <2>8, <5>1
      <4>2. old \in SUBSET (Nat \ {0})
        BY DEF LinkInv, TypeOK, Ciphertext, CountersOpened
      <4>3. Describes(own.replay, old)
        BY <1>1, <2>1, Zenon DEF LinkInv, WindowsDescribe
      <4>4. own.replay \in [max : Nat, bitmap : SUBSET Bit] /\ c \in Nat \ {0}
        BY <2>4
      <4> HIDE DEF old
      <4>5. Describes(Commit(own.replay, c), old \cup {c})
        BY <2>1, <4>2, <4>3, <4>4, CommitDescribes, Zenon
      <4>6. sessions'[n][j] = new
        BY <2>9, <3>1, Zenon
      <4> QED
        BY <2>6, <3>1, <4>1, <4>5, <4>6, Zenon
    <3>2. CASE n # m
      <4>1. sessions'[n][j] = sessions[n][j]
        BY <2>9, <3>2, Zenon
      <4>2. CountersOpened(delivered', n, sessions[n][j].DecryptKey)
                = CountersOpened(delivered, n, sessions[n][j].DecryptKey)
        BY <2>2, <3>2, SMTT(60) DEF CountersOpened
      <4> QED
        BY <4>1, <4>2, Zenon DEF LinkInv, WindowsDescribe
    <3>3. CASE n = m /\ j # id
      BY <2>9, <3>3, ZenonT(60) DEF LinkInv, SessionsKeyed
    <3> QED
      BY <3>1, <3>2, <3>3, Zenon
  <2> QED
    BY <2>10, <2>11, <2>13, <2>14, <2>15, <2>16, Zenon DEF LinkInv
<1> QED
  BY <1>4, <1>5, Zenon

\* Keys, counters and windows stay in step with what was sealed and handed up
\* in every behaviour of the link.
THEOREM LinkInvariance == Spec => []LinkInv
<1>1. LinkInv /\ [Next]_vars => LinkInv'
  <2> SUFFICES ASSUME LinkInv, [Next]_vars
               PROVE  LinkInv'
    BY Zenon
  <2>1. ASSUME NEW m \in Manager, NEW ke \in Ke, Install(m, ke)
        PROVE  LinkInv'
    BY <2>1, InstallLinkInv, Zenon
  <2>2. ASSUME NEW m \in Manager, NEW peer \in Manager, Send(m, peer)
        PROVE  LinkInv'
    BY <2>2, SendLinkInv, Zenon
  <2>3. ASSUME NEW m \in Manager, NEW s \in sealed, NEW c \in 1 .. CounterMax,
               Receive(m, s, c)
        PROVE  LinkInv'
    BY ZenonT(60), <2>3, ReceiveLinkInv
  <2>4. CASE UNCHANGED vars
    BY <2>4, ZenonT(60) DEF LinkInv, TypeOK, SessionsKeyed, FramesKeyed, NonceUnique,
                DeliveredFromPeer, WindowsDescribe, vars
  <2> QED
    BY <2>1, <2>2, <2>3, <2>4, Zenon DEF Next
<1> QED
  BY <1>1, InitLinkInv, PTL DEF Spec

\* As long as no secret is installed twice on the same side, EncryptPayload
\* never uses a nonce twice under the same key.
THEOREM NonceUniqueness == Spec => []NonceUnique
<1>1. LinkInv => NonceUnique
  BY Zenon DEF LinkInv
<1> QED
  BY <1>1, LinkInvariance, PTL

\* What DecryptPayload hands up was sealed at the other end.
THEOREM PeerAuthenticity == Spec => []DeliveredFromPeer
<1>1. LinkInv => DeliveredFromPeer
  BY Zenon DEF LinkInv
<1> QED
  BY <1>1, LinkInvariance, PTL

\* The window of a session and the counters its key opened, in the terms of the
\* lemmas on windows.
LEMMA WindowFacts ==
    ASSUME LinkInv, NEW m \in Manager, NEW id \in SessionID,
           sessions[m][id] # NoSession
    PROVE  LET s == sessions[m][id]
               a == CountersOpened(delivered, m, s.DecryptKey)
           IN  /\ s.replay \in [max : Nat, bitmap : SUBSET Bit]
               /\ a \in SUBSET (Nat \ {0})
               /\ Describes(s.replay, a)
<1> USE CounterMaxAssumption
<1>1. sessions[m][id] \in Session
  BY Zenon DEF LinkInv, TypeOK
<1>2. sessions[m][id].replay \in [max : Nat, bitmap : SUBSET Bit]
  BY <1>1 DEF Session
<1>3. CountersOpened(delivered, m, sessions[m][id].DecryptKey) \in SUBSET (Nat \ {0})
  BY DEF LinkInv, TypeOK, Ciphertext, CountersOpened
<1> QED
  BY <1>2, <1>3, Zenon DEF LinkInv, WindowsDescribe

\* DecryptPayload hands a frame up again at most when it is exactly WindowSize
\* behind the newest one of its session.
THEOREM NoRedeliveryInSession == Spec => []NoRedelivery
<1>1. LinkInv => NoRedelivery
  BY ZenonT(60), WindowFacts, ReplayOnlyAtEdge DEF NoRedelivery
<1> QED
  BY <1>1, LinkInvariance, PTL

\* Only frames handed up under the key of a session move its window: damaged
\* frames, replays and frames of other keys leave no trace.
THEOREM WindowMovesOnDelivery == Spec => []WindowOnlyDelivered
<1>1. LinkInv => WindowOnlyDelivered
  <2> SUFFICES ASSUME LinkInv, NEW m \in Manager, NEW id \in SessionID,
                      sessions[m][id] # NoSession
               PROVE  LET w == sessions[m][id].replay
                          a == CountersOpened(delivered, m, sessions[m][id].DecryptKey)
                      IN  {w.max - 1 - i : i \in w.bitmap}
                              \cup (IF w.max = 0 THEN {} ELSE {w.max}) \subseteq a
    BY Zenon DEF WindowOnlyDelivered
  <2> DEFINE w == sessions[m][id].replay
             a == CountersOpened(delivered, m, sessions[m][id].DecryptKey)
  <2>1. Describes(w, a)
    BY WindowFacts, Zenon
  <2>2. {w.max - 1 - i : i \in w.bitmap} \cup (IF w.max = 0 THEN {} ELSE {w.max}) \subseteq a
    <3> HIDE DEF w, a
    <3> QED
      BY <2>1 DEF Describes
  <2> QED
    BY <2>2, Zenon
<1> QED
  BY <1>1, LinkInvariance, PTL

\* DecryptPayload never refuses an intact frame that is new and not more than
\* WindowSize behind, whatever arrived before it.
THEOREM FreshFramesDelivered == Spec => []FreshDeliverable
<1>1. LinkInv => FreshDeliverable
  <2> SUFFICES ASSUME LinkInv, NEW m \in Manager, NEW id \in SessionID,
                      NEW s \in sealed,
                      sessions[m][id] # NoSession,
                      s.ciphertext.key = sessions[m][id].DecryptKey,
                      s.ciphertext.aad.MessageCounter
                          \notin CountersOpened(delivered, m, s.ciphertext.key),
                      sessions[m][id].replay.max - s.ciphertext.aad.MessageCounter
                          <= WindowSize
               PROVE  DecryptResult(m, id, s.ciphertext, s.ciphertext.aad) = "plaintext"
    BY Zenon DEF FreshDeliverable
  <2>1. s.ciphertext.aad.MessageCounter \in Nat \ {0}
    BY CounterMaxAssumption, SMTT(60) DEF LinkInv, TypeOK, Ciphertext, HeaderType
  <2>2. Accepts(sessions[m][id].replay, s.ciphertext.aad.MessageCounter)
    BY <2>1, WindowFacts, FreshIsAccepted, Zenon
  <2>3. s.ciphertext.nonce = BuildNonce(s.ciphertext.aad)
    BY Zenon DEF LinkInv, FramesKeyed
  <2> QED
    BY <2>2, <2>3, Zenon DEF DecryptResult, Opens
<1> QED
  BY <1>1, LinkInvariance, PTL
=============================================================================
