--------------------------- MODULE ReplayReceiver ---------------------------
(***************************************************************************)
(* One secure session seen from its receiving side: SessionManager.        *)
(* DecryptPayload (session/session.go) called with arbitrary inbound       *)
(* counters, in any order and any number of times, with ciphertexts that   *)
(* may or may not authenticate.                                            *)
(***************************************************************************)
EXTENDS ReplayWindow

CONSTANT MaxCounter  \* bound on the inbound counters, 2^32 - 1 in the code

ASSUME MaxCounterAssumption == MaxCounter \in Nat

VARIABLES
    window,    \* Session.replay
    accepted,  \* history: the counters whose payload was handed up
    last       \* what the last call of DecryptPayload returned

receiverVars == <<window, accepted, last>>

\* Session.NextOutboundCounter hands out 1 first, so an authentic counter is
\* never 0.
Counter == 1 .. MaxCounter

Verdict == {"none", "plaintext", "ErrReplayedMessageCounter", "auth failure"}

ReceiverInit ==
    /\ window = EmptyWindow
    /\ accepted = {}
    /\ last = [counter |-> 0, verdict |-> "none"]

\* check accepts, the AEAD opens, commit runs, the plaintext is returned.
DecryptFresh(c) ==
    /\ Accepts(window, c)
    /\ window' = Commit(window, c)
    /\ accepted' = accepted \cup {c}
    /\ last' = [counter |-> c, verdict |-> "plaintext"]

\* check rejects: the AEAD is not even tried.
RejectReplay(c) ==
    /\ ~Accepts(window, c)
    /\ last' = [counter |-> c, verdict |-> "ErrReplayedMessageCounter"]
    /\ UNCHANGED <<window, accepted>>

\* check accepts but the AEAD does not open: the closure is dropped.
RejectForged(c) ==
    /\ Accepts(window, c)
    /\ last' = [counter |-> c, verdict |-> "auth failure"]
    /\ UNCHANGED <<window, accepted>>

ReceiverNext ==
    \E c \in Counter :
        \/ DecryptFresh(c)
        \/ RejectReplay(c)
        \/ RejectForged(c)

ReceiverSpec == ReceiverInit /\ [][ReceiverNext]_receiverVars

-----------------------------------------------------------------------------
\* The window is a number and a word of WindowSize bits, and the history only
\* holds counters that can be received.
ReceiverTypeOK ==
    /\ window \in [max : Nat, bitmap : SUBSET Bit]
    /\ accepted \in SUBSET Counter
    /\ last \in [counter : Nat, verdict : Verdict]

\* The inductive invariant behind the two properties below: after every call of
\* DecryptPayload the window is what the delivered counters leave behind, and
\* a rejected or forged frame leaves no trace in it.
IInv == ReceiverTypeOK /\ Describes(window, accepted)

\* Whatever was lost, reordered, duplicated or forged before, DecryptPayload
\* never refuses a counter that was not delivered and is at most WindowSize
\* behind the greatest delivered one.  A forged frame that moved the window
\* (a commit before the AEAD check) or a bit shifted too far would break this.
FreshAccepted ==
    \A c \in Counter \ accepted :
        window.max - c <= WindowSize => Accepts(window, c)

\* A counter already delivered is refused for ever, except possibly when it is
\* exactly WindowSize behind max (see AtMostOnce): inside the window and beyond
\* it no payload is handed up twice.
NoReplayInsideWindow ==
    \A c \in accepted :
        Accepts(window, c) => window.max - c = WindowSize

\* No counter is accepted twice, which is what ErrReplayedMessageCounter is
\* for and what session_test.go says of a jump: only one "> 32" may clear the
\* bitmap.  The code clears it on a jump of exactly 32 too and forgets the
\* previous max, which is still inside the window.
AtMostOnce ==
    \A c \in accepted : ~Accepts(window, c)

Promise == INSTANCE AntiReplay

\* The receiving side keeps the promise of module AntiReplay, which knows the
\* counters handed up and no window: the 32 bits of the bitmap forget nothing
\* that matters but the counter exactly WindowSize behind max.
KeepsPromise == Promise!Spec
=============================================================================
