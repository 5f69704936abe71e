----------------------------- MODULE AntiReplay -----------------------------
(***************************************************************************)
(* What the receiving side of a session promises its user, in terms of the *)
(* counters handed up and without a window: a fresh frame is handed up,    *)
(* an old or repeated one is refused, and a frame that does not            *)
(* authenticate changes nothing.                                           *)
(*                                                                         *)
(* The promise has one gap, exactly WindowSize behind the newest counter,  *)
(* where a counter handed up before may be handed up again.                *)
(***************************************************************************)
EXTENDS Integers

CONSTANTS WindowSize, MaxCounter

VARIABLES
    accepted,  \* the counters handed up
    last       \* the last call and its outcome

vars == <<accepted, last>>

Counter == 1 .. MaxCounter

\* c is more than, or exactly, distance behind a counter handed up.
Behind(c, distance) == \E d \in accepted : d - c > distance
ExactlyBehind(c, distance) ==
    ~Behind(c, distance) /\ \E d \in accepted : d - c = distance

Init ==
    /\ accepted = {}
    /\ last = [counter |-> 0, verdict |-> "none"]

\* A counter is handed up when it is new and not too old.
HandUp(c) ==
    /\ ~Behind(c, WindowSize)
    /\ c \in accepted => ExactlyBehind(c, WindowSize)
    /\ accepted' = accepted \cup {c}
    /\ last' = [counter |-> c, verdict |-> "plaintext"]

\* It is refused only when it is too old or was handed up before.
Refuse(c) ==
    /\ Behind(c, WindowSize) \/ c \in accepted
    /\ accepted' = accepted
    /\ last' = [counter |-> c, verdict |-> "ErrReplayedMessageCounter"]

\* A frame that does not authenticate, if it is looked at at all.
Discard(c) ==
    /\ accepted' = accepted
    /\ last' = [counter |-> c, verdict |-> "auth failure"]

Next == \E c \in Counter : HandUp(c) \/ Refuse(c) \/ Discard(c)

Spec == Init /\ [][Next]_vars
=============================================================================
