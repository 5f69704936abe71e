------------------------- MODULE MCSpake2PlusCurve --------------------------
(***************************************************************************)
(* Spake2PlusCurve on y^2 = x^3 + 2x + 1 modulo 5, a curve of 7 points.    *)
(***************************************************************************)
EXTENDS Spake2PlusCurve, TLC

CONSTANTS right, sameW0, other, zero, c1, c2

baseG == <<0, 1>>
generatorM == <<1, 3>>
generatorN == <<3, 2>>

\* Passcodes: one has the w0 of right with another w1, one a w0 of zero.  The
\* halves are not reduced yet.
halves == right :> <<9, 10>> @@ sameW0 :> <<2, 5>> @@ other :> <<4, 3>> @@ zero :> <<7, 1>>
=============================================================================
