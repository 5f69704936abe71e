---------------------------- MODULE KeyExchange -----------------------------
(***************************************************************************)
(* What PASE promises, without messages, transcripts and sessions: the     *)
(* device makes up secrets, a controller takes one of them that nobody     *)
(* took before, and the device takes a secret only after its controller.   *)
(***************************************************************************)
CONSTANTS
    Commissioners,  \* the controllers
    Device,         \* the device
    Nil             \* no secret

VARIABLES
    offered,  \* the secrets the device has made up
    taken,    \* which controller took which secret
    held      \* the secret each party holds, or Nil

vars == <<offered, taken, held>>

Party == Commissioners \cup {Device}

Init ==
    /\ offered = {}
    /\ taken = {}
    /\ held = [p \in Party |-> Nil]

\* The device makes up secrets.
Offer ==
    /\ offered \subseteq offered'
    /\ UNCHANGED <<taken, held>>

\* Controller c takes an offered secret that no controller, itself included,
\* has ever taken.
ControllerTakes(c) ==
    \E k \in offered :
        /\ \A t \in taken : t[2] # k
        /\ taken' = taken \cup {<<c, k>>}
        /\ held' = [held EXCEPT ![c] = k]
        /\ UNCHANGED offered

\* The device takes a secret that a controller took.
DeviceTakes ==
    \E t \in taken :
        /\ held' = [held EXCEPT ![Device] = t[2]]
        /\ UNCHANGED <<offered, taken>>

\* Party p starts over.
Forget(p) ==
    /\ held' = [held EXCEPT ![p] = Nil]
    /\ UNCHANGED <<offered, taken>>

Next ==
    \/ Offer
    \/ \E c \in Commissioners : ControllerTakes(c)
    \/ DeviceTakes
    \/ \E p \in Party : Forget(p)

Spec == Init /\ [][Next]_vars
=============================================================================
