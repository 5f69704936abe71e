-------------------------- MODULE Spake2PlusCurve ---------------------------
(***************************************************************************)
(* SPAKE2PProver and SPAKE2PVerifier (crypto/spake2plus.go) with the group *)
(* arithmetic they do, on the curve y^2 = x^3 + A*x + B over the integers  *)
(* modulo P.  Spake2Plus is the symbolic view of the same code.            *)
(*                                                                         *)
(* One prover and one verifier object; their methods are called in any     *)
(* order and any number of times, with values the other side returned at   *)
(* some time, or with a value that does not decode.  A call that returns   *)
(* an error changes nothing and is a stuttering step.  The hashes and the  *)
(* MAC are injective: a derived value is the tuple of its inputs.          *)
(*                                                                         *)
(* elliptic.Marshal panics on the point at infinity.  Its probability on   *)
(* P-256 is negligible, on a small curve it is not: a side that panics is  *)
(* Down and takes no further calls.                                        *)
(***************************************************************************)
EXTENDS Integers

CONSTANTS
    P, A, B,        \* the curve; P-256 in the code
    G, M, N,        \* the base point and the two generators of RFC 9383
    Order,          \* the number of points, a prime
    PBKDF2,         \* passcode -> the two halves of its PBKDF2 output
    Contexts,       \* transcript contexts (paseContext)
    Scalars,        \* what spakeRandomScalar may return, not reduced
    MaxDraws,       \* bound on the calls of spakeRandomScalar by each side
    Nil,            \* no object, or a field not set yet
    Down,           \* an object whose process has panicked
    Malformed       \* bytes that are no point of the curve

-----------------------------------------------------------------------------
(* crypto/elliptic *)

Field == 0 .. P - 1
Infinity == <<"infinity">>
Curve == {q \in Field \X Field : (q[2]^2 - q[1]^3 - A * q[1] - B) % P = 0}
Points == Curve \cup {Infinity}

InverseModP(a) == CHOOSE b \in Field : (a * b) % P = 1

Slope(q, r) ==
    IF q = r THEN ((3 * q[1]^2 + A) * InverseModP((2 * q[2]) % P)) % P
    ELSE ((r[2] - q[2]) * InverseModP((r[1] - q[1]) % P)) % P

Add(q, r) ==
    IF q = Infinity THEN r
    ELSE IF r = Infinity THEN q
    ELSE IF q[1] = r[1] /\ (q[2] + r[2]) % P = 0 THEN Infinity
    ELSE LET s == Slope(q, r)
             x == (s^2 - q[1] - r[1]) % P
         IN  <<x, (s * (q[1] - x) - q[2]) % P>>

Multiples(q) ==
    LET times[k \in Nat] == IF k = 0 THEN Infinity ELSE Add(times[k - 1], q)
    IN  times

ScalarMult(q, k) == Multiples(q)[k]

\* M and N are on the curve, or init panics.
ASSUME CurveAssumption ==
    /\ {G, M, N} \subseteq Curve
    /\ Malformed \notin Points

-----------------------------------------------------------------------------
(* crypto/pbkdf.go *)

\* Spake2pW0W1FromPasscode: both halves are reduced by the order of the group.
\* The encoding of 0 is the empty string.
Spake2pW0W1FromPasscode(passcode) ==
    [w0 |-> PBKDF2[passcode][1] % Order, w1 |-> PBKDF2[passcode][2] % Order]

\* ComputeSPAKE2PVerifierData: the point L, which Marshal refuses at infinity.
ComputeL(passcode) == ScalarMult(G, Spake2pW0W1FromPasscode(passcode).w1)

-----------------------------------------------------------------------------
(* crypto/spake2plus.go *)

\* (x, -y mod P); the curve holds (0, 0) for the point at infinity.
spakeNegateY(q) == IF q = Infinity THEN q ELSE <<q[1], (-q[2]) % P>>

\* What crypto/elliptic promises of P-256: the chord and tangent rule makes the
\* points a commutative group, in which spakeNegateY is the inverse, and Order
\* is prime: no multiple of a point below it is the point at infinity.
ASSUME GroupAssumption ==
    /\ \A q, r \in Points : Add(q, r) \in Points /\ Add(q, r) = Add(r, q)
    /\ \A q, r, s \in Points : Add(Add(q, r), s) = Add(q, Add(r, s))
    /\ \A q \in Points : spakeNegateY(q) \in Points /\ Add(q, spakeNegateY(q)) = Infinity
    /\ Order \in Nat \ {0}
    /\ \A q \in Curve : /\ ScalarMult(q, Order) = Infinity
                        /\ \A k \in 1 .. Order - 1 : ScalarMult(q, k) # Infinity

Blind(scalar, generator, w0) == Add(ScalarMult(G, scalar), ScalarMult(generator, w0))

\* Mutant: w0*generator is added once more, not taken off.
UnblindAdds(point, generator, w0) == Add(point, ScalarMult(generator, w0))

Unblind(point, generator, w0) == Add(point, spakeNegateY(ScalarMult(generator, w0)))

\* spakeBuildTT and spakeFinalize: one hash gives Ka and Ke, Ka gives the two
\* confirmation keys, and each of these a MAC over the other side's point.
spakeFinalize(context, pA, pB, z, v, w0) ==
    LET tt == [context |-> context, pA |-> pA, pB |-> pB, z |-> z, v |-> v, w0 |-> w0]
    IN  [tt |-> tt, ke |-> <<"Ke", tt>>, cA |-> <<"KcA", tt, pB>>, cB |-> <<"KcB", tt, pA>>]

-----------------------------------------------------------------------------
VARIABLES
    prover,     \* the SPAKE2PProver, Nil or Down
    verifier,   \* the SPAKE2PVerifier, Nil or Down
    sent,       \* what the methods returned so far: pA, pB, cA and cB values
    draws,      \* number of scalars each side has drawn
    accepted    \* the sides whose VerifyConfirmation returned nil

vars == <<prover, verifier, sent, draws, accepted>>

\* The objects of the two types; a field not set yet is Nil.
Transcript == [context : Contexts, pA : Points, pB : Points, z : Points, v : Points, w0 : Nat]
Keys == [tt : Transcript, ke : {"Ke"} \X Transcript,
         cA : {"KcA"} \X Transcript \X Points, cB : {"KcB"} \X Transcript \X Points]
SPAKE2PProver == [w0 : Nat, w1 : Nat, context : Contexts, x : Scalars \cup {Nil},
                  pA : Points \cup {Nil}, keys : Keys \cup {Nil}]
SPAKE2PVerifier == [w0 : Nat, L : Points, context : Contexts,
                    pA : Points \cup {Nil}, pB : Points \cup {Nil},
                    zV : Points \cup {Nil}, vV : Points \cup {Nil}, keys : Keys \cup {Nil}]

ASSUME ObjectAssumption ==
    /\ Scalars \subseteq Nat
    /\ \A passcode \in DOMAIN PBKDF2 : PBKDF2[passcode] \in Nat \X Nat
    /\ Nil \notin SPAKE2PProver /\ Nil \notin SPAKE2PVerifier /\ Nil # Down

Up(object) == object \notin {Nil, Down}

Init ==
    /\ prover = Nil /\ verifier = Nil
    /\ sent = [pA |-> {}, pB |-> {}, cA |-> {}, cB |-> {}]
    /\ draws = [prover |-> 0, verifier |-> 0]
    /\ accepted = {}

\* NewSPAKE2PProver refuses an empty w0 or w1.
NewSPAKE2PProver(passcode, context) ==
    LET w == Spake2pW0W1FromPasscode(passcode)
    IN  /\ prover = Nil
        /\ w.w0 # 0 /\ w.w1 # 0
        /\ prover' = [w0 |-> w.w0, w1 |-> w.w1, context |-> context, x |-> Nil,
                      pA |-> Nil, keys |-> Nil]
        /\ UNCHANGED <<verifier, sent, draws, accepted>>

\* ComputePA draws x anew on every call, also after Finalize.
ComputePA(x) ==
    LET pA == Blind(x, M, prover.w0)
    IN  /\ Up(prover)
        /\ draws.prover < MaxDraws
        /\ draws' = [draws EXCEPT !.prover = @ + 1]
        /\ IF pA = Infinity
           THEN prover' = Down /\ UNCHANGED sent
           ELSE /\ prover' = [prover EXCEPT !.x = x, !.pA = pA]
                /\ sent' = [sent EXCEPT !.pA = @ \cup {pA}]
        /\ UNCHANGED <<verifier, accepted>>

\* SPAKE2PProver.Finalize: once only, after ComputePA, and for a point.
ProverFinalize(pB) ==
    LET yG == Unblind(pB, N, prover.w0)
        z  == ScalarMult(yG, prover.x)
        v  == ScalarMult(yG, prover.w1)
    IN  /\ Up(prover) /\ prover.keys = Nil /\ prover.x # Nil
        /\ pB \in Curve
        /\ prover' = IF Infinity \in {z, v} THEN Down
                     ELSE [prover EXCEPT !.keys =
                              spakeFinalize(prover.context, prover.pA, pB, z, v, prover.w0)]
        /\ UNCHANGED <<verifier, sent, draws, accepted>>

ConfirmationA ==
    /\ Up(prover) /\ prover.keys # Nil
    /\ sent' = [sent EXCEPT !.cA = @ \cup {prover.keys.cA}]
    /\ UNCHANGED <<prover, verifier, draws, accepted>>

VerifyConfirmationB(cB) ==
    /\ Up(prover) /\ prover.keys # Nil
    /\ cB = prover.keys.cB
    /\ accepted' = accepted \cup {"prover"}
    /\ UNCHANGED <<prover, verifier, sent, draws>>

\* NewSPAKE2PVerifier with the w0 and L of ComputeSPAKE2PVerifierData.
NewSPAKE2PVerifier(passcode, context) ==
    LET w0 == Spake2pW0W1FromPasscode(passcode).w0
        L  == ComputeL(passcode)
    IN  /\ verifier = Nil
        /\ w0 # 0 /\ L \in Curve
        /\ verifier' = [w0 |-> w0, L |-> L, context |-> context,
                        pA |-> Nil, pB |-> Nil, zV |-> Nil, vV |-> Nil, keys |-> Nil]
        /\ UNCHANGED <<prover, sent, draws, accepted>>

\* ComputePB draws y anew on every call, and replaces pA, pB, Z and V.
ComputePB(pA, y) ==
    LET pB == Blind(y, N, verifier.w0)
        zV == ScalarMult(Unblind(pA, M, verifier.w0), y)
        vV == ScalarMult(verifier.L, y)
    IN  /\ Up(verifier)
        /\ pA \in Curve
        /\ draws.verifier < MaxDraws
        /\ draws' = [draws EXCEPT !.verifier = @ + 1]
        /\ IF Infinity \in {pB, zV, vV}
           THEN verifier' = Down /\ UNCHANGED sent
           ELSE /\ verifier' = [verifier EXCEPT !.pA = pA, !.pB = pB, !.zV = zV, !.vV = vV]
                /\ sent' = [sent EXCEPT !.pB = @ \cup {pB}]
        /\ UNCHANGED <<prover, accepted>>

\* Mutant: the flag finalized is not looked at.
VerifierFinalizesAgain ==
    /\ Up(verifier) /\ verifier.zV # Nil /\ verifier.vV # Nil
    /\ verifier' = [verifier EXCEPT !.keys =
                        spakeFinalize(verifier.context, verifier.pA, verifier.pB,
                                      verifier.zV, verifier.vV, verifier.w0)]
    /\ UNCHANGED <<prover, sent, draws, accepted>>

\* SPAKE2PVerifier.Finalize: once only, after ComputePB.
VerifierFinalize ==
    /\ Up(verifier) /\ verifier.keys = Nil
    /\ verifier.zV # Nil /\ verifier.vV # Nil
    /\ verifier' = [verifier EXCEPT !.keys =
                        spakeFinalize(verifier.context, verifier.pA, verifier.pB,
                                      verifier.zV, verifier.vV, verifier.w0)]
    /\ UNCHANGED <<prover, sent, draws, accepted>>

ConfirmationB ==
    /\ Up(verifier) /\ verifier.keys # Nil
    /\ sent' = [sent EXCEPT !.cB = @ \cup {verifier.keys.cB}]
    /\ UNCHANGED <<prover, verifier, draws, accepted>>

VerifyConfirmationA(cA) ==
    /\ Up(verifier) /\ verifier.keys # Nil
    /\ cA = verifier.keys.cA
    /\ accepted' = accepted \cup {"verifier"}
    /\ UNCHANGED <<prover, verifier, sent, draws>>

Next ==
    \/ \E passcode \in DOMAIN PBKDF2, context \in Contexts :
          \/ NewSPAKE2PProver(passcode, context)
          \/ NewSPAKE2PVerifier(passcode, context)
    \/ \E x \in Scalars : ComputePA(x)
    \/ \E pB \in sent.pB \cup {Malformed} : ProverFinalize(pB)
    \/ ConfirmationA
    \/ \E cB \in sent.cB : VerifyConfirmationB(cB)
    \/ \E pA \in sent.pA \cup {Malformed}, y \in Scalars : ComputePB(pA, y)
    \/ VerifierFinalize
    \/ ConfirmationB
    \/ \E cA \in sent.cA : VerifyConfirmationA(cA)

Spec == Init /\ [][Next]_vars

-----------------------------------------------------------------------------
Finalized == Up(prover) /\ Up(verifier) /\ prover.keys # Nil /\ verifier.keys # Nil

\* Both sides derive the same Ke exactly if they saw the same two points and
\* the same context and the verifier's w0 and L belong to the prover's w0 and
\* w1: x*(pB - w0*N) and y*(pA - w0*M) are the same point, and w1*(pB - w0*N)
\* and y*L are for the right L only.  "Identical to the Prover's Ke when both
\* sides used the same passcode" (spake2plus.go:416).
SameKeExactly ==
    Finalized =>
        (prover.keys.ke = verifier.keys.ke <=>
            /\ prover.keys.tt.pA = verifier.keys.tt.pA
            /\ prover.keys.tt.pB = verifier.keys.tt.pB
            /\ prover.context = verifier.context
            /\ prover.w0 = verifier.w0
            /\ verifier.L = ScalarMult(G, prover.w1))

\* A side that has verified the other's confirmation holds the Ke of the other
\* and keeps it, whatever calls of ComputePA, ComputePB and Finalize come
\* after: "Re-running Finalize would silently overwrite the negotiated keys"
\* (spake2plus.go:57).
VerifiedKeStays ==
    accepted # {} /\ Up(prover) /\ Up(verifier) =>
        /\ Finalized
        /\ prover.keys.ke = verifier.keys.ke
=============================================================================
