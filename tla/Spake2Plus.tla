----------------------------- MODULE Spake2Plus -----------------------------
(***************************************************************************)
(* SPAKE2+ as the PASE handshake uses it: SPAKE2PProver and                *)
(* SPAKE2PVerifier (crypto/spake2plus.go) and the passcode derivation      *)
(* (crypto/pbkdf.go), over symbolic scalars and points.                    *)
(*                                                                         *)
(* A point is written by its discrete logarithm: x for x*G.  A blinded     *)
(* point x*G + w0*M is a record of x and w0; taking w0*M off gives back x  *)
(* for the right w0 and an unrelated value for any other.  The product of  *)
(* two logarithms commutes, so it is the set of its factors.  The hashes   *)
(* and MACs are injective, so a derived value is the tuple of its inputs.  *)
(*                                                                         *)
(* keys is Nil until Finalize has run: it stands for the flag finalized    *)
(* together with the ke, cA and cB computed then.                          *)
(***************************************************************************)
CONSTANT Nil

\* Spake2pW0W1FromPasscode: two scalars out of one PBKDF2 output.
Spake2pW0(passcode, params) == <<"w0", passcode, params>>
Spake2pW1(passcode, params) == <<"w1", passcode, params>>

Blind(generator, scalar, w0) ==
    [generator |-> generator, scalar |-> scalar, w0 |-> w0]

Unblind(point, generator, w0) ==
    IF point.generator = generator /\ point.w0 = w0
    THEN point.scalar
    ELSE <<"offset", point, w0>>

Times(s, t) == {s, t}

\* spakeBuildTT and spakeFinalize: everything both sides must agree on goes
\* into TT, and Ke and the two confirmations are derived from TT.
spakeFinalize(context, pA, pB, z, v, w0) ==
    LET tt == [context |-> context, pA |-> pA, pB |-> pB, z |-> z, v |-> v, w0 |-> w0]
    IN  [ke |-> <<"Ke", tt>>, cA |-> <<"cA", tt>>, cB |-> <<"cB", tt>>]

-----------------------------------------------------------------------------
\* NewSPAKE2PProver and ComputePA with the scalar x it draws.
NewSPAKE2PProver(w0, w1, context, x) ==
    [w0 |-> w0, w1 |-> w1, context |-> context, x |-> x,
     pA |-> Blind("M", x, w0), keys |-> Nil]

\* Mutant: Finalize runs as often as it is called.
FinalizeAgain(p) == p # Nil

\* SPAKE2PProver.Finalize refuses (errAlreadyFinalized) to run twice; handlePake2
\* refuses before when there is no prover.
Finalizable(p) == p # Nil /\ p.keys = Nil

\* SPAKE2PProver.Finalize.
ProverFinalize(p, pB) ==
    LET yG == Unblind(pB, "N", p.w0)
    IN  [p EXCEPT !.keys = spakeFinalize(p.context, p.pA, pB,
                                         Times(p.x, yG), Times(p.w1, yG), p.w0)]

\* Mutant: the result of the comparison is dropped.
AnyConfirmation(p, cB) == TRUE

\* VerifyConfirmationB, of a finalized prover.
VerifyConfirmationB(p, cB) == cB = p.keys.cB

\* Mutant: the result of the comparison is dropped.
AnyVerifier(v, cA) == v # Nil

\* VerifyConfirmationA; handlePake3 refuses before when there is no verifier.
VerifyConfirmationA(v, cA) == v # Nil /\ v.keys.cA = cA

\* Mutant: the verifier mixes z and v up.
VerifierSwapsZV(w0, L, context, pA, y) ==
    LET xG == Unblind(pA, "M", w0)
        pB == Blind("N", y, w0)
    IN  [w0 |-> w0, L |-> L, context |-> context, y |-> y, pA |-> pA, pB |-> pB,
         keys |-> spakeFinalize(context, pA, pB, Times(y, L), Times(y, xG), w0)]

\* NewSPAKE2PVerifier, ComputePB with the scalar y it draws, and Finalize.
\* L = w1*G is written w1.
NewSPAKE2PVerifier(w0, L, context, pA, y) ==
    LET xG == Unblind(pA, "M", w0)
        pB == Blind("N", y, w0)
    IN  [w0 |-> w0, L |-> L, context |-> context, y |-> y, pA |-> pA, pB |-> pB,
         keys |-> spakeFinalize(context, pA, pB, Times(y, xG), Times(y, L), w0)]
=============================================================================
