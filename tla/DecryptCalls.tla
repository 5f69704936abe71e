---------------------------- MODULE DecryptCalls ----------------------------
(***************************************************************************)
(* SessionManager.DecryptPayload step by step, called by several           *)
(* goroutines: check returns a closure over what it saw of the window, the *)
(* AEAD takes its time, and then the closure changes the window.           *)
(*                                                                         *)
(* "SessionManager is not safe for concurrent use; the exchange manager    *)
(* will serialise access per session" (session.go:82).  So a call begins   *)
(* only when no other call on the session is under way.  With that, the    *)
(* calls are as good as atomic, the way module ReplayReceiver has them.    *)
(***************************************************************************)
EXTENDS ReplayReceiver

CONSTANTS
    Goroutine,   \* the goroutines that call DecryptPayload
    Nobody       \* no goroutine

ASSUME GoroutineAssumption == Nobody \notin Goroutine

VARIABLES
    pc,        \* where each goroutine is in DecryptPayload
    call,      \* its counter and the closure that check gave it
    inside     \* the goroutine in a call, or Nobody

callsVars == <<window, accepted, last, pc, call, inside>>

Location == {"outside", "check", "open", "commit"}

-----------------------------------------------------------------------------
\* The closure check returns for an acceptable c, with the values it captures:
\* shift, or the position of the bit, as they are at that time.
closure(w, c) ==
    CASE w.max = 0                -> [case |-> "first", c |-> c, n |-> 0]
      [] w.max # 0 /\ c > w.max   -> [case |-> "advance", c |-> c, n |-> c - w.max]
      [] w.max # 0 /\ ~(c > w.max) -> [case |-> "late", c |-> c, n |-> w.max - c - 1]

\* Mutant: the bit of the old max is set one position too far.
ShiftedRun(f, w) ==
    CASE f.case = "first"   -> [w EXCEPT !.max = f.c]
      [] f.case = "advance" ->
             [max    |-> f.c,
              bitmap |-> IF f.n >= WindowSize THEN {}
                         ELSE ShiftLeft(w.bitmap \cup {0}, f.n)]
      [] f.case = "late"    -> [w EXCEPT !.bitmap = @ \cup {f.n}]

\* Mutant: the old max leaves no bit behind.
ForgetfulRun(f, w) ==
    CASE f.case = "first"   -> [w EXCEPT !.max = f.c]
      [] f.case = "advance" ->
             [max    |-> f.c,
              bitmap |-> IF f.n >= WindowSize THEN {} ELSE ShiftLeft(w.bitmap, f.n)]
      [] f.case = "late"    -> [w EXCEPT !.bitmap = @ \cup {f.n}]

\* The window after the closure f has run on it.
Run(f, w) ==
    CASE f.case = "first"   -> [w EXCEPT !.max = f.c]
      [] f.case = "advance" ->
             [max    |-> f.c,
              bitmap |-> IF f.n >= WindowSize THEN {}
                         ELSE ShiftLeft(w.bitmap, f.n) \cup {f.n - 1}]
      [] f.case = "late"    -> [w EXCEPT !.bitmap = @ \cup {f.n}]

Idle == [c |-> 0, closure |-> [case |-> "first", c |-> 0, n |-> 0]]

CallsInit ==
    /\ ReceiverInit
    /\ pc = [g \in Goroutine |-> "outside"]
    /\ call = [g \in Goroutine |-> Idle]
    /\ inside = Nobody

\* Mutant: calls are not serialised.
EnterFreely(g, c) ==
    /\ pc[g] = "outside"
    /\ pc' = [pc EXCEPT ![g] = "check"]
    /\ call' = [call EXCEPT ![g].c = c]
    /\ inside' = g
    /\ UNCHANGED <<window, accepted, last>>

\* A goroutine calls DecryptPayload for a frame with counter c.
Enter(g, c) ==
    /\ pc[g] = "outside"
    /\ inside = Nobody
    /\ pc' = [pc EXCEPT ![g] = "check"]
    /\ call' = [call EXCEPT ![g].c = c]
    /\ inside' = g
    /\ UNCHANGED <<window, accepted, last>>

\* The call of g returns.
Return(g, verdict) ==
    /\ last' = [counter |-> call[g].c, verdict |-> verdict]
    /\ pc' = [pc EXCEPT ![g] = "outside"]
    /\ call' = [call EXCEPT ![g] = Idle]
    /\ inside' = Nobody

\* commit, err := s.replay.check(h.MessageCounter)
Check(g) ==
    /\ pc[g] = "check"
    /\ \/ /\ Accepts(window, call[g].c)
          /\ call' = [call EXCEPT ![g].closure = closure(window, call[g].c)]
          /\ pc' = [pc EXCEPT ![g] = "open"]
          /\ UNCHANGED <<last, inside>>
       \/ /\ ~Accepts(window, call[g].c)
          /\ Return(g, "ErrReplayedMessageCounter")
    /\ UNCHANGED <<window, accepted>>

\* Mutant: the closure runs whether or not the frame authenticates.
OpenCommits(g) ==
    /\ pc[g] = "open"
    /\ \/ /\ pc' = [pc EXCEPT ![g] = "commit"]
          /\ UNCHANGED <<window, last, call, inside>>
       \/ /\ window' = Run(call[g].closure, window)
          /\ Return(g, "auth failure")
    /\ UNCHANGED accepted

\* sm.provider.Decrypt: the frame authenticates, or it does not.
Open(g) ==
    /\ pc[g] = "open"
    /\ \/ /\ pc' = [pc EXCEPT ![g] = "commit"]
          /\ UNCHANGED <<last, call, inside>>
       \/ Return(g, "auth failure")
    /\ UNCHANGED <<window, accepted>>

\* commit(), and the plaintext is returned.
CommitAndReturn(g) ==
    /\ pc[g] = "commit"
    /\ window' = Run(call[g].closure, window)
    /\ accepted' = accepted \cup {call[g].c}
    /\ Return(g, "plaintext")

CallsNext ==
    \E g \in Goroutine :
        \/ \E c \in Counter : Enter(g, c)
        \/ Check(g) \/ Open(g) \/ CommitAndReturn(g)

CallsSpec == CallsInit /\ [][CallsNext]_callsVars

-----------------------------------------------------------------------------
(* Properties *)

\* Types, and who is where: at most one goroutine is inside a call, and the
\* closure it holds is the one check would return for the window as it is now.
CallsInv ==
    /\ window \in [max : Nat, bitmap : SUBSET Bit]
    /\ pc \in [Goroutine -> Location]
    /\ call \in [Goroutine -> [c : Nat, closure : [case : {"first", "advance", "late"},
                                                   c : Nat, n : Nat]]]
    /\ inside \in Goroutine \cup {Nobody}
    /\ \A g \in Goroutine :
           /\ pc[g] # "outside" => inside = g /\ call[g].c \in Counter
           /\ pc[g] \in {"open", "commit"} =>
                  /\ Accepts(window, call[g].c)
                  /\ call[g].closure = closure(window, call[g].c)

\* Calls that take their time have the effect of calls that take none: every
\* behaviour of the window, of what is handed up and of what the calls return
\* is one of ReplayReceiver, where DecryptPayload is one step.  A closure that
\* ran on a window other than the one it was made for would move max back, or
\* set the bit of another counter.
AtomicCalls == ReceiverSpec
=============================================================================
