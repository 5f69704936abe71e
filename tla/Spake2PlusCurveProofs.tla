----------------------- MODULE Spake2PlusCurveProofs ------------------------
(***************************************************************************)
(* SPAKE2+ on any curve whose points form a group of prime order: the two  *)
(* sides derive the same Ke exactly if they should, and keep it.           *)
(*                                                                         *)
(* Multiples of a point are defined by recursion, and what they satisfy is *)
(* shown by induction.  Induction is brought in as a fact about sets of    *)
(* naturals (Induction), recursion as one about functions (Recursion).     *)
(***************************************************************************)
EXTENDS Spake2PlusCurve, FiniteSetTheorems, TLAPS

\* A set of naturals has a least element: the intervals 0..k of its elements
\* are finite sets, and strict inclusion is well founded on those.
LEMMA Least ==
    ASSUME NEW S \in SUBSET Nat, S # {}
    PROVE  \E least \in S : \A k \in S : least <= k
<1> DEFINE Below == {0..k : k \in S}
<1> DEFINE R == StrictSubsetOrdering(Nat)
<1>1. Below \subseteq FiniteSubsetsOf(Nat)
  <2> SUFFICES ASSUME NEW k \in S PROVE 0..k \in FiniteSubsetsOf(Nat)
    BY Zenon
  <2>1. IsFiniteSet(0..k)
    BY FS_Interval
  <2> QED
    BY <2>1 DEF FiniteSubsetsOf
<1>2. IsWellFoundedOn(R, FiniteSubsetsOf(Nat))
  BY FS_StrictSubsetOrderingWellFounded, Zenon
<1>3. Below # {}
  BY ZenonT(60)
<1>4. PICK b \in Below : \A c \in Below : ~(<<c, b>> \in R)
  <2> HIDE DEF Below, R
  <2> QED
    BY <1>1, <1>2, <1>3, WFMin, Zenon
<1>5. PICK least \in S : b = 0..least
  BY Zenon
<1>6. ASSUME NEW k \in S, k < least PROVE FALSE
  <2>1. 0..k \in Below
    BY Zenon
  <2>2. 0..k \in SUBSET Nat /\ 0..least \in SUBSET Nat
    OBVIOUS
  <2>3. 0..k \subseteq 0..least
    BY <1>6
  <2>4. 0..k # 0..least
    BY <1>6
  <2>5. <<0..k, 0..least>> \in R
    BY <2>2, <2>3, <2>4, Zenon DEF StrictSubsetOrdering
  <2> QED
    BY <2>1, <2>5, <1>4, <1>5, ZenonT(60)
<1> QED
  BY <1>6

\* Induction over the naturals, for a set in the place of a predicate.
LEMMA Induction ==
    ASSUME NEW S, 0 \in S, \A k \in Nat : k \in S => k + 1 \in S
    PROVE  \A k \in Nat : k \in S
<1> SUFFICES ASSUME Nat \ S # {} PROVE FALSE
  BY Zenon
<1>1. PICK least \in Nat \ S : \A k \in Nat \ S : least <= k
  BY Least, ZenonT(60)
<1>2. least # 0 /\ least - 1 \in Nat
  BY <1>1
<1>3. least - 1 \in S
  BY <1>1, <1>2
<1> QED
  BY <1>1, <1>2, <1>3

\* f is the sequence of values that starts with first and goes on by step.
Iterates(f, S, first, step) ==
    /\ f \in [Nat -> S]
    /\ f[0] = first
    /\ \A k \in Nat : f[k + 1] = step[f[k]]

\* A step function and a first value define a sequence of values.
LEMMA Recursion ==
    ASSUME NEW S, NEW first \in S, NEW step \in [S -> S]
    PROVE  \E f : Iterates(f, S, first, step)
<1> DEFINE Upto(n) == {h \in [0..n -> S] :
                          h[0] = first /\ \A k \in 0..n-1 : h[k + 1] = step[h[k]]}
<1>1. \A n \in Nat : Upto(n) # {}
  <2> DEFINE Some == {n \in Nat : Upto(n) # {}}
  <2>1. 0 \in Some
    <3>1. [k \in 0..0 |-> first] \in Upto(0)
      OBVIOUS
    <3> QED
      BY <3>1, Zenon
  <2>2. ASSUME NEW n \in Nat, n \in Some PROVE n + 1 \in Some
    <3>1. PICK h : h \in Upto(n)
      BY <2>2, Zenon
    <3> DEFINE g == [k \in 0..n+1 |-> IF k = n + 1 THEN step[h[n]] ELSE h[k]]
    <3>2. g \in [0..n+1 -> S]
      BY <3>1
    <3>3. g[0] = first
      BY <3>1
    <3>4. ASSUME NEW k \in 0..n PROVE g[k + 1] = step[g[k]]
      BY <3>1
    <3>5. g \in Upto(n + 1)
      <4> HIDE DEF g
      <4>1. (n + 1) - 1 = n
        OBVIOUS
      <4>2. \A k \in 0..(n + 1) - 1 : g[k + 1] = step[g[k]]
        BY <3>4, <4>1, Zenon
      <4>3. n + 1 \in Nat
        OBVIOUS
      <4> QED
        BY <3>2, <3>3, <4>2, <4>3, Zenon
    <3>6. n + 1 \in Nat
      OBVIOUS
    <3> HIDE DEF Upto, g
    <3> QED
      BY <3>5, <3>6, Zenon
  <2> HIDE DEF Some
  <2>3. \A n \in Nat : n \in Some
    BY <2>1, <2>2, Induction, Zenon
  <2> QED
    BY <2>3, Zenon DEF Some
<1>2. ASSUME NEW n \in Nat, NEW h \in Upto(n), NEW m \in Nat, NEW g \in Upto(m), n <= m
      PROVE  h[n] = g[n]
  <2> DEFINE Agree == {k \in Nat : k <= n => h[k] = g[k]}
  <2>1. 0 \in Agree
    BY Zenon
  <2>2. ASSUME NEW k \in Nat, k \in Agree PROVE k + 1 \in Agree
    <3> SUFFICES ASSUME k + 1 <= n PROVE h[k + 1] = g[k + 1]
      OBVIOUS
    <3>1. h[k] = g[k]
      BY <2>2
    <3>2. h[k + 1] = step[h[k]] /\ g[k + 1] = step[g[k]]
      BY <1>2
    <3> QED
      BY <3>1, <3>2, Zenon
  <2> HIDE DEF Agree
  <2>3. n \in Agree
    BY <2>1, <2>2, Induction, Zenon
  <2> QED
    BY <2>3 DEF Agree
<1> DEFINE pick(n) == CHOOSE h : h \in Upto(n)
<1> DEFINE f == [n \in Nat |-> pick(n)[n]]
<1>3. \A n \in Nat : pick(n) \in Upto(n)
  <2> HIDE DEF Upto
  <2> QED
    BY <1>1, Zenon
<1> HIDE DEF pick
<1>4. f \in [Nat -> S]
  BY <1>3
<1>5. f[0] = first
  BY <1>3, Zenon
<1>6. ASSUME NEW k \in Nat PROVE f[k + 1] = step[f[k]]
  <2>1. pick(k + 1)[k + 1] = step[pick(k + 1)[k]]
    BY <1>3
  <2>2. pick(k) \in Upto(k) /\ pick(k + 1) \in Upto(k + 1) /\ k <= k + 1 /\ k + 1 \in Nat
    BY <1>3
  <2>3. pick(k)[k] = pick(k + 1)[k]
    <3> HIDE DEF Upto
    <3> QED
      BY <2>2, <1>2, Zenon
  <2> QED
    BY <2>1, <2>3
<1> HIDE DEF f
<1> QED
  BY <1>4, <1>5, <1>6, Zenon DEF Iterates

-----------------------------------------------------------------------------
\* The group laws of GroupAssumption, each as a fact to cite.
LEMMA Closed ==
    ASSUME NEW q \in Points, NEW r \in Points
    PROVE  Add(q, r) \in Points
BY GroupAssumption, Zenon

\* The sum of three points does not depend on the order of the additions.
LEMMA Associates ==
    ASSUME NEW q \in Points, NEW r \in Points, NEW s \in Points
    PROVE  Add(Add(q, r), s) = Add(q, Add(r, s))
<1>1. \A t, u, w \in Points : Add(Add(t, u), w) = Add(t, Add(u, w))
  BY GroupAssumption, Zenon
<1> QED
  BY <1>1, Zenon

\* Nor does the sum of two on their order.
LEMMA Commutes ==
    ASSUME NEW q \in Points, NEW r \in Points
    PROVE  Add(q, r) = Add(r, q)
BY GroupAssumption, Zenon

\* crypto/elliptic: the point at infinity is the neutral element.
LEMMA Neutral ==
    /\ Infinity \in Points
    /\ \A q \in Points : Add(Infinity, q) = q /\ Add(q, Infinity) = q
<1>1. Infinity \in Points
  BY Zenon DEF Points
<1>2. ASSUME NEW q \in Points PROVE Add(Infinity, q) = q
  BY <1>1, Zenon DEF Add
<1> QED
  BY <1>1, <1>2, GroupAssumption, Zenon

\* What the definition of ScalarMult by recursion means.
LEMMA Multiplication ==
    ASSUME NEW q \in Points
    PROVE  /\ \A k \in Nat : ScalarMult(q, k) \in Points
           /\ ScalarMult(q, 0) = Infinity
           /\ \A k \in Nat : ScalarMult(q, k + 1) = Add(ScalarMult(q, k), q)
<1> DEFINE step == [r \in Points |-> Add(r, q)]
<1>1. step \in [Points -> Points]
  BY GroupAssumption, Zenon
<1>2. PICK f : Iterates(f, Points, Infinity, step)
  <2> HIDE DEF step
  <2>1. Infinity \in Points
    BY Neutral, Zenon
  <2> QED
    BY <1>1, <2>1, Recursion, Zenon
<1> DEFINE Recurs(t) == t = [k \in Nat |-> IF k = 0 THEN Infinity ELSE Add(t[k - 1], q)]
<1>3. Recurs(f)
  <2>1. ASSUME NEW k \in Nat, k # 0 PROVE f[k] = Add(f[k - 1], q)
    <3>1. k - 1 \in Nat /\ (k - 1) + 1 = k
      BY <2>1
    <3>2. f[(k - 1) + 1] = step[f[k - 1]]
      BY <3>1, <1>2, Zenon DEF Iterates
    <3>3. f[k - 1] \in Points
      BY <3>1, <1>2, Zenon DEF Iterates
    <3> QED
      BY <3>1, <3>2, <3>3, Zenon
  <2> QED
    BY <1>2, <2>1, Zenon DEF Iterates
<1>4. Multiples(q) = CHOOSE t : Recurs(t)
  BY Zenon DEF Multiples
<1>5. Recurs(Multiples(q))
  <2> HIDE DEF Recurs
  <2> QED
    BY <1>3, <1>4, Zenon
<1> DEFINE m == Multiples(q)
<1> HIDE DEF m
<1>6. m[0] = Infinity
  BY <1>5, Zenon DEF m
<1>7. ASSUME NEW k \in Nat PROVE m[k + 1] = Add(m[k], q)
  <2>1. k + 1 \in Nat /\ k + 1 # 0 /\ (k + 1) - 1 = k
    OBVIOUS
  <2>2. m[k + 1] = Add(m[(k + 1) - 1], q)
    BY <1>5, <2>1, Zenon DEF m
  <2> QED
    BY <2>1, <2>2, Zenon
<1>8. \A k \in Nat : m[k] \in Points
  <2> DEFINE S == {k \in Nat : m[k] \in Points}
  <2>1. 0 \in S
    BY <1>6, Neutral, Zenon
  <2>2. ASSUME NEW k \in Nat, k \in S PROVE k + 1 \in S
    <3>1. m[k] \in Points
      BY <2>2, Zenon
    <3>2. Add(m[k], q) \in Points
      BY <3>1, Closed, Zenon
    <3> QED
      BY <3>2, <1>7
  <2> HIDE DEF S
  <2>3. \A k \in Nat : k \in S
    BY <2>1, <2>2, Induction, Zenon
  <2> QED
    BY <2>3, Zenon DEF S
<1> QED
  BY <1>6, <1>7, <1>8, Zenon DEF ScalarMult, m

\* Multiples of the point at infinity.
LEMMA MultipleOfInfinity ==
    ASSUME NEW k \in Nat
    PROVE  ScalarMult(Infinity, k) = Infinity
<1> DEFINE S == {j \in Nat : ScalarMult(Infinity, j) = Infinity}
<1>1. 0 \in S
  BY Neutral, Multiplication, Zenon
<1>2. ASSUME NEW j \in Nat, j \in S PROVE j + 1 \in S
  <2>1. ScalarMult(Infinity, j + 1) = Add(ScalarMult(Infinity, j), Infinity)
    BY Neutral, Multiplication, Zenon
  <2>2. ScalarMult(Infinity, j) = Infinity
    BY <1>2, Zenon
  <2> QED
    BY <2>1, <2>2, Neutral
<1> HIDE DEF S
<1>3. k \in S
  BY <1>1, <1>2, Induction, Zenon
<1> QED
  BY <1>3, Zenon DEF S

\* Reordering a sum of four points.
LEMMA FourPoints ==
    ASSUME NEW a \in Points, NEW b \in Points, NEW c \in Points, NEW d \in Points
    PROVE  Add(Add(a, b), Add(c, d)) = Add(Add(a, c), Add(b, d))
<1>1. Add(a, b) \in Points /\ Add(c, d) \in Points /\ Add(b, d) \in Points
      /\ Add(b, c) \in Points /\ Add(a, c) \in Points
  BY Closed, Zenon
<1>2. Add(Add(a, b), Add(c, d)) = Add(a, Add(b, Add(c, d)))
  BY <1>1, Associates
<1>3. Add(b, Add(c, d)) = Add(Add(b, c), d)
  BY Associates
<1>4. Add(b, c) = Add(c, b)
  BY Commutes, Zenon
<1>5. Add(Add(c, b), d) = Add(c, Add(b, d))
  BY Associates, Zenon
<1>6. Add(a, Add(c, Add(b, d))) = Add(Add(a, c), Add(b, d))
  BY <1>1, Associates
<1> QED
  BY <1>2, <1>3, <1>4, <1>5, <1>6, Zenon

\* k*(q + r) = k*q + k*r
LEMMA Distribute ==
    ASSUME NEW q \in Points, NEW r \in Points, NEW k \in Nat
    PROVE  ScalarMult(Add(q, r), k) = Add(ScalarMult(q, k), ScalarMult(r, k))
<1> DEFINE S == {j \in Nat : ScalarMult(Add(q, r), j) = Add(ScalarMult(q, j), ScalarMult(r, j))}
<1>0. Add(q, r) \in Points
  BY Closed, Zenon
<1>1. 0 \in S
  <2>1. ScalarMult(Add(q, r), 0) = Infinity /\ ScalarMult(q, 0) = Infinity
        /\ ScalarMult(r, 0) = Infinity
    BY <1>0, Multiplication, Zenon
  <2> QED
    BY <2>1, Neutral, Zenon
<1>2. ASSUME NEW j \in Nat, j \in S PROVE j + 1 \in S
  <2>1. /\ ScalarMult(Add(q, r), j + 1) = Add(ScalarMult(Add(q, r), j), Add(q, r))
        /\ ScalarMult(q, j + 1) = Add(ScalarMult(q, j), q)
        /\ ScalarMult(r, j + 1) = Add(ScalarMult(r, j), r)
    BY <1>0, Multiplication, Zenon
  <2>2. ScalarMult(q, j) \in Points /\ ScalarMult(r, j) \in Points
    BY Multiplication, Zenon
  <2>3. ScalarMult(Add(q, r), j) = Add(ScalarMult(q, j), ScalarMult(r, j))
    BY <1>2, Zenon
  <2>4. Add(Add(ScalarMult(q, j), ScalarMult(r, j)), Add(q, r))
          = Add(Add(ScalarMult(q, j), q), Add(ScalarMult(r, j), r))
    BY <2>2, FourPoints
  <2> QED
    BY <2>1, <2>3, <2>4
<1> HIDE DEF S
<1>3. k \in S
  BY <1>1, <1>2, Induction, Zenon
<1> QED
  BY <1>3, Zenon DEF S

\* j*(k*q) = k*(j*q): the two sides of a Diffie-Hellman exchange.
LEMMA Exchange ==
    ASSUME NEW q \in Points, NEW j \in Nat, NEW k \in Nat
    PROVE  ScalarMult(ScalarMult(q, k), j) = ScalarMult(ScalarMult(q, j), k)
<1> DEFINE S == {i \in Nat : ScalarMult(ScalarMult(q, k), i) = ScalarMult(ScalarMult(q, i), k)}
<1>0. ScalarMult(q, k) \in Points
  BY Multiplication, Zenon
<1>1. 0 \in S
  <2>1. ScalarMult(ScalarMult(q, k), 0) = Infinity /\ ScalarMult(q, 0) = Infinity
    BY <1>0, Multiplication, Zenon
  <2> QED
    BY <2>1, MultipleOfInfinity, Zenon
<1>2. ASSUME NEW i \in Nat, i \in S PROVE i + 1 \in S
  <2>1. /\ ScalarMult(ScalarMult(q, k), i + 1)
               = Add(ScalarMult(ScalarMult(q, k), i), ScalarMult(q, k))
        /\ ScalarMult(q, i + 1) = Add(ScalarMult(q, i), q)
        /\ ScalarMult(q, i) \in Points
    BY <1>0, Multiplication, Zenon
  <2>2. ScalarMult(ScalarMult(q, k), i) = ScalarMult(ScalarMult(q, i), k)
    BY <1>2, Zenon
  <2>3. ScalarMult(Add(ScalarMult(q, i), q), k)
          = Add(ScalarMult(ScalarMult(q, i), k), ScalarMult(q, k))
    BY <2>1, Distribute, Zenon
  <2> QED
    BY <2>1, <2>2, <2>3
<1> HIDE DEF S
<1>3. j \in S
  BY <1>1, <1>2, Induction, Zenon
<1> QED
  BY <1>3, Zenon DEF S

\* (j + k)*q = j*q + k*q
LEMMA AddScalars ==
    ASSUME NEW q \in Points, NEW j \in Nat, NEW k \in Nat
    PROVE  ScalarMult(q, j + k) = Add(ScalarMult(q, j), ScalarMult(q, k))
<1> DEFINE S == {i \in Nat : ScalarMult(q, j + i) = Add(ScalarMult(q, j), ScalarMult(q, i))}
<1>1. 0 \in S
  <2>1. ScalarMult(q, 0) = Infinity /\ ScalarMult(q, j) \in Points /\ j + 0 = j
    BY Multiplication
  <2> QED
    BY <2>1, Neutral, Zenon
<1>2. ASSUME NEW i \in Nat, i \in S PROVE i + 1 \in S
  <2>1. j + i \in Nat /\ j + (i + 1) = (j + i) + 1
    OBVIOUS
  <2>2. /\ ScalarMult(q, (j + i) + 1) = Add(ScalarMult(q, j + i), q)
        /\ ScalarMult(q, i + 1) = Add(ScalarMult(q, i), q)
        /\ ScalarMult(q, i) \in Points
        /\ ScalarMult(q, j) \in Points
    BY <2>1, Multiplication, Zenon
  <2>3. ScalarMult(q, j + i) = Add(ScalarMult(q, j), ScalarMult(q, i))
    BY <1>2, Zenon
  <2>4. Add(Add(ScalarMult(q, j), ScalarMult(q, i)), q)
          = Add(ScalarMult(q, j), Add(ScalarMult(q, i), q))
    BY <2>2, Associates, Zenon
  <2> QED
    BY <2>1, <2>2, <2>3, <2>4
<1> HIDE DEF S
<1>3. k \in S
  BY <1>1, <1>2, Induction, Zenon
<1> QED
  BY <1>3, Zenon DEF S

\* In a group of prime order a multiple is at infinity for all points of the
\* curve or for none.
LEMMA AllOrNone ==
    ASSUME NEW q \in Curve, NEW r \in Curve, NEW k \in Nat, ScalarMult(q, k) = Infinity
    PROVE  ScalarMult(r, k) = Infinity
<1> DEFINE Differ == {j \in Nat : ScalarMult(q, j) = Infinity /\ ScalarMult(r, j) # Infinity}
<1> SUFFICES ASSUME Differ # {} PROVE FALSE
  BY Zenon
<1>1. PICK j \in Differ : \A i \in Differ : j <= i
  <2>1. Differ \in SUBSET Nat
    BY Zenon
  <2> HIDE DEF Differ
  <2> QED
    BY <2>1, Least, Zenon
<1>2. q \in Points /\ r \in Points
  BY Zenon DEF Points
<1>3. Order \in Nat \ {0} /\ ScalarMult(q, Order) = Infinity /\ ScalarMult(r, Order) = Infinity
  BY GroupAssumption, Zenon
<1>4. CASE j = 0
  BY <1>2, <1>4, Multiplication, Zenon
<1>5. CASE j \in 1 .. Order - 1
  <2>1. ScalarMult(q, j) # Infinity
    BY <1>5, GroupAssumption, Zenon
  <2> QED
    BY <2>1, Zenon
<1>6. CASE j >= Order
  <2> DEFINE i == j - Order
  <2>1. i \in Nat /\ i < j /\ j = i + Order
    BY <1>3, <1>6
  <2> HIDE DEF i
  <2>2. ScalarMult(q, i) \in Points /\ ScalarMult(r, i) \in Points
    BY <1>2, <2>1, Multiplication, Zenon
  <2>3. ScalarMult(q, j) = Add(ScalarMult(q, i), Infinity)
    BY <1>2, <1>3, <2>1, AddScalars
  <2>4. ScalarMult(r, j) = Add(ScalarMult(r, i), Infinity)
    BY <1>2, <1>3, <2>1, AddScalars, SMTT(60)
  <2>5. ScalarMult(q, j) = ScalarMult(q, i) /\ ScalarMult(r, j) = ScalarMult(r, i)
    BY <2>2, <2>3, <2>4, Neutral, ZenonT(60)
  <2>6. i \in Differ
    BY <2>1, <2>5, Zenon
  <2> QED
    BY <1>1, <2>1, <2>6
<1> QED
  BY <1>3, <1>4, <1>5, <1>6

\* A scalar that is no multiple of Order can be divided by.
LEMMA Cancel ==
    ASSUME NEW q \in Points, NEW r \in Points, NEW k \in Nat,
           ScalarMult(q, k) = ScalarMult(r, k), ScalarMult(q, k) # Infinity
    PROVE  q = r
<1> DEFINE t == spakeNegateY(r)
           d == Add(q, t)
<1>1. t \in Points /\ Add(r, t) = Infinity
  BY GroupAssumption, Zenon
<1> HIDE DEF t
<1>2. d \in Points
  BY <1>1, Closed, Zenon
<1>3. ScalarMult(d, k) = Infinity
  <2>1. ScalarMult(d, k) = Add(ScalarMult(q, k), ScalarMult(t, k))
    BY <1>1, Distribute, Zenon
  <2>2. ScalarMult(Add(r, t), k) = Add(ScalarMult(r, k), ScalarMult(t, k))
    BY <1>1, Distribute, Zenon
  <2>3. ScalarMult(Infinity, k) = Infinity
    BY MultipleOfInfinity, Zenon
  <2> QED
    BY <1>1, <2>1, <2>2, <2>3, Zenon
<1>4. CASE d = Infinity
  <2>1. Add(d, r) = Add(q, Add(t, r))
    BY <1>1, Associates, Zenon
  <2>2. Add(t, r) = Infinity
    BY <1>1, Commutes, Zenon
  <2>3. Add(q, Infinity) = q /\ Add(Infinity, r) = r
    BY Neutral, Zenon
  <2> QED
    BY <1>4, <2>1, <2>2, <2>3, Zenon
<1>5. CASE d # Infinity
  <2> HIDE DEF d
  <2>1. d \in Curve
    BY <1>2, <1>5, Zenon DEF Points
  <2>2. CASE q \in Curve
    BY <1>3, <2>1, <2>2, AllOrNone, Zenon
  <2>3. CASE q = Infinity
    BY <2>3, MultipleOfInfinity, Zenon
  <2> QED
    BY <2>2, <2>3, Zenon DEF Points
<1> QED
  BY <1>4, <1>5, Zenon

\* Unblinding gives back what was blinded.
LEMMA UnblindBlind ==
    ASSUME NEW scalar \in Nat, NEW generator \in Curve, NEW w0 \in Nat
    PROVE  Unblind(Blind(scalar, generator, w0), generator, w0) = ScalarMult(G, scalar)
<1> DEFINE g == ScalarMult(G, scalar)
           m == ScalarMult(generator, w0)
<1>1. G \in Points /\ generator \in Points
  BY CurveAssumption, Zenon DEF Points
<1>2. g \in Points /\ m \in Points
  BY <1>1, Multiplication, Zenon
<1>3. Unblind(Blind(scalar, generator, w0), generator, w0) = Add(Add(g, m), spakeNegateY(m))
  BY Zenon DEF Unblind, Blind
<1> HIDE DEF g, m
<1>4. spakeNegateY(m) \in Points /\ Add(m, spakeNegateY(m)) = Infinity
  BY <1>2, GroupAssumption, Zenon
<1>5. Add(Add(g, m), spakeNegateY(m)) = Add(g, Infinity)
  BY <1>2, <1>4, Associates, Zenon
<1>6. Add(g, Infinity) = g
  BY <1>2, Neutral, Zenon
<1> QED
  BY <1>3, <1>5, <1>6, Zenon DEF g

-----------------------------------------------------------------------------
\* What Finalize of the prover derives from its scalar x and the verifier's pB.
ProverKeys(p, x, pB) ==
    spakeFinalize(p.context, Blind(x, M, p.w0), pB, ScalarMult(Unblind(pB, N, p.w0), x),
                  ScalarMult(Unblind(pB, N, p.w0), p.w1), p.w0)

\* What Finalize of the verifier derives from its scalar y and the prover's pA.
VerifierKeys(v, y, pA) ==
    spakeFinalize(v.context, pA, Blind(y, N, v.w0), ScalarMult(Unblind(pA, M, v.w0), y),
                  ScalarMult(v.L, y), v.w0)

\* The keys of a prover come from one scalar and one point, no matter how often
\* ComputePA has drawn another scalar since.
ProverSound(p) ==
    /\ p \in SPAKE2PProver
    /\ p.x # Nil => p.pA = Blind(p.x, M, p.w0)
    /\ p.keys # Nil => /\ \E x \in Scalars, pB \in Curve : p.keys = ProverKeys(p, x, pB)
                       /\ p.keys.tt.v # Infinity

\* The same for a verifier, whose ComputePB leaves Z and V for Finalize.
VerifierSound(v) ==
    /\ v \in SPAKE2PVerifier
    /\ v.zV # Nil /\ v.vV # Nil =>
          \E y \in Scalars : /\ v.pA \in Curve
                             /\ v.pB = Blind(y, N, v.w0)
                             /\ v.zV = ScalarMult(Unblind(v.pA, M, v.w0), y)
                             /\ v.vV = ScalarMult(v.L, y)
    /\ v.keys # Nil => \E y \in Scalars, pA \in Curve : v.keys = VerifierKeys(v, y, pA)

\* A side has returned no other confirmation than the one of the keys it holds.
Confirmed(object, mac, c) ==
    mac # {} => object.keys # Nil /\ mac = {c}

\* The inductive invariant: sound objects, one confirmation per side, and none
\* of it before the objects exist.
Inv ==
    /\ sent \in [pA : SUBSET Curve, pB : SUBSET Curve,
                 cA : SUBSET ({"KcA"} \X Transcript \X Points),
                 cB : SUBSET ({"KcB"} \X Transcript \X Points)]
    /\ Up(prover) => ProverSound(prover) /\ Confirmed(prover, sent.cA, prover.keys.cA)
    /\ Up(verifier) => VerifierSound(verifier) /\ Confirmed(verifier, sent.cB, verifier.keys.cB)
    /\ prover = Nil => sent.cA = {} /\ accepted = {}
    /\ verifier = Nil => sent.cB = {} /\ accepted = {}
    /\ VerifiedKeStays

\* Blinding and unblinding give points.
LEMMA BlindType ==
    ASSUME NEW scalar \in Nat, NEW generator \in Curve, NEW w0 \in Nat, NEW q \in Points
    PROVE  /\ Blind(scalar, generator, w0) \in Points
           /\ Unblind(q, generator, w0) \in Points
<1>1. G \in Points /\ generator \in Points
  BY CurveAssumption, Zenon DEF Points
<1>2. ScalarMult(G, scalar) \in Points /\ ScalarMult(generator, w0) \in Points
  BY <1>1, Multiplication, Zenon
<1>3. spakeNegateY(ScalarMult(generator, w0)) \in Points
  BY <1>2, GroupAssumption, Zenon
<1> QED
  BY <1>2, <1>3, Closed, Zenon DEF Blind, Unblind

\* The keys are typed.
LEMMA FinalizeType ==
    ASSUME NEW context \in Contexts, NEW pA \in Points, NEW pB \in Points,
           NEW z \in Points, NEW v \in Points, NEW w0 \in Nat
    PROVE  spakeFinalize(context, pA, pB, z, v, w0) \in Keys
<1> DEFINE tt == [context |-> context, pA |-> pA, pB |-> pB, z |-> z, v |-> v, w0 |-> w0]
<1>1. tt \in Transcript
  BY Zenon DEF Transcript
<1>2. spakeFinalize(context, pA, pB, z, v, w0)
        = [tt |-> tt, ke |-> <<"Ke", tt>>, cA |-> <<"KcA", tt, pB>>, cB |-> <<"KcB", tt, pA>>]
  BY Zenon DEF spakeFinalize
<1> HIDE DEF tt
<1> QED
  BY <1>1, <1>2 DEF Keys

\* The algebra of SPAKE2+: with the same w0 and the same two points both sides
\* hold the same Z, and the same V exactly if L is w1*G.
LEMMA SameSecrets ==
    ASSUME NEW x \in Nat, NEW y \in Nat, NEW w0 \in Nat, NEW w1 \in Nat, NEW L \in Points,
           ScalarMult(Unblind(Blind(y, N, w0), N, w0), w1) # Infinity
    PROVE  /\ ScalarMult(Unblind(Blind(y, N, w0), N, w0), x)
                  = ScalarMult(Unblind(Blind(x, M, w0), M, w0), y)
           /\ (ScalarMult(Unblind(Blind(y, N, w0), N, w0), w1) = ScalarMult(L, y))
                  <=> (L = ScalarMult(G, w1))
<1>1. G \in Points /\ M \in Curve /\ N \in Curve
  BY CurveAssumption, Zenon DEF Points
<1>2. Unblind(Blind(y, N, w0), N, w0) = ScalarMult(G, y)
  BY <1>1, UnblindBlind, Zenon
<1>3. Unblind(Blind(x, M, w0), M, w0) = ScalarMult(G, x)
  BY <1>1, UnblindBlind, Zenon
<1>4. ScalarMult(ScalarMult(G, y), x) = ScalarMult(ScalarMult(G, x), y)
  BY <1>1, Exchange, Zenon
<1>5. ScalarMult(ScalarMult(G, y), w1) = ScalarMult(ScalarMult(G, w1), y)
  BY <1>1, Exchange, Zenon
<1>6. ScalarMult(G, w1) \in Points
  BY <1>1, Multiplication, Zenon
<1>7. ASSUME ScalarMult(ScalarMult(G, y), w1) = ScalarMult(L, y)
      PROVE  L = ScalarMult(G, w1)
  <2>1. ScalarMult(ScalarMult(G, w1), y) = ScalarMult(L, y)
    BY <1>5, <1>7, Zenon
  <2>2. ScalarMult(ScalarMult(G, w1), y) # Infinity
    BY <1>2, <1>5, Zenon
  <2> QED
    BY <1>6, <2>1, <2>2, Cancel, Zenon
<1> QED
  BY <1>2, <1>3, <1>4, <1>5, <1>7, Zenon

\* SameKeExactly, for two objects.
LEMMA SameKe ==
    ASSUME NEW p, ProverSound(p), p.keys # Nil, NEW v, VerifierSound(v), v.keys # Nil
    PROVE  p.keys.ke = v.keys.ke <=>
              /\ p.keys.tt.pA = v.keys.tt.pA
              /\ p.keys.tt.pB = v.keys.tt.pB
              /\ p.context = v.context
              /\ p.w0 = v.w0
              /\ v.L = ScalarMult(G, p.w1)
<1>1. PICK x \in Scalars, qB \in Curve : p.keys = ProverKeys(p, x, qB)
  BY Zenon DEF ProverSound
<1>2. PICK y \in Scalars, qA \in Curve : v.keys = VerifierKeys(v, y, qA)
  BY Zenon DEF VerifierSound
<1>3. /\ p.w0 \in Nat /\ p.w1 \in Nat /\ v.w0 \in Nat /\ v.L \in Points
      /\ x \in Nat /\ y \in Nat
  BY ObjectAssumption, Zenon DEF ProverSound, VerifierSound, SPAKE2PProver, SPAKE2PVerifier
<1> DEFINE tp == p.keys.tt
           tv == v.keys.tt
<1>4. /\ tp = [context |-> p.context, pA |-> Blind(x, M, p.w0), pB |-> qB,
               z |-> ScalarMult(Unblind(qB, N, p.w0), x),
               v |-> ScalarMult(Unblind(qB, N, p.w0), p.w1), w0 |-> p.w0]
      /\ p.keys.ke = <<"Ke", tp>>
  BY <1>1, SMTT(60) DEF ProverKeys, spakeFinalize
<1>5. /\ tv = [context |-> v.context, pA |-> qA, pB |-> Blind(y, N, v.w0),
               z |-> ScalarMult(Unblind(qA, M, v.w0), y),
               v |-> ScalarMult(v.L, y), w0 |-> v.w0]
      /\ v.keys.ke = <<"Ke", tv>>
  BY <1>2 DEF VerifierKeys, spakeFinalize
<1>6. tp.v # Infinity
  BY Zenon DEF ProverSound
<1> HIDE DEF tp, tv
<1>7. p.keys.ke = v.keys.ke <=> tp = tv
  BY <1>4, <1>5
<1>8. ASSUME tp.pA = tv.pA, tp.pB = tv.pB, p.w0 = v.w0
      PROVE  /\ tp.z = tv.z
             /\ tp.v = tv.v <=> v.L = ScalarMult(G, p.w1)
  <2>1. qA = Blind(x, M, p.w0) /\ qB = Blind(y, N, p.w0)
    BY <1>4, <1>5, <1>8, Zenon
  <2>2. /\ tp.z = ScalarMult(Unblind(Blind(y, N, p.w0), N, p.w0), x)
        /\ tp.v = ScalarMult(Unblind(Blind(y, N, p.w0), N, p.w0), p.w1)
    BY <1>4, <2>1, Zenon
  <2>3. /\ tv.z = ScalarMult(Unblind(Blind(x, M, p.w0), M, p.w0), y)
        /\ tv.v = ScalarMult(v.L, y)
    BY <1>5, <1>8, <2>1, Zenon
  <2> QED
    BY <1>3, <1>6, <2>2, <2>3, SameSecrets, SMTT(60)
<1>9. tp = tv <=> /\ tp.context = tv.context /\ tp.pA = tv.pA /\ tp.pB = tv.pB
                  /\ tp.z = tv.z /\ tp.v = tv.v /\ tp.w0 = tv.w0
  BY <1>4, <1>5, Zenon
<1>10. /\ tp.context = p.context /\ tp.w0 = p.w0
       /\ tv.context = v.context /\ tv.w0 = v.w0
  BY <1>4, <1>5, Zenon
<1> QED
  BY <1>7, <1>8, <1>9, <1>10, Zenon DEF tp, tv

\* Equal confirmations come from equal transcripts, hence from equal Ke.
LEMMA ConfirmationFixesKe ==
    ASSUME NEW p, ProverSound(p), p.keys # Nil, NEW v, VerifierSound(v), v.keys # Nil,
           p.keys.cA = v.keys.cA \/ p.keys.cB = v.keys.cB
    PROVE  p.keys.ke = v.keys.ke
<1>1. PICK x \in Scalars, qB \in Curve : p.keys = ProverKeys(p, x, qB)
  BY Zenon DEF ProverSound
<1>2. PICK y \in Scalars, qA \in Curve : v.keys = VerifierKeys(v, y, qA)
  BY Zenon DEF VerifierSound
<1>3. /\ p.keys.ke = <<"Ke", p.keys.tt>>
      /\ p.keys.cA = <<"KcA", p.keys.tt, p.keys.tt.pB>>
      /\ p.keys.cB = <<"KcB", p.keys.tt, p.keys.tt.pA>>
  BY <1>1, SMTT(60) DEF ProverKeys, spakeFinalize
<1>4. /\ v.keys.ke = <<"Ke", v.keys.tt>>
      /\ v.keys.cA = <<"KcA", v.keys.tt, v.keys.tt.pB>>
      /\ v.keys.cB = <<"KcB", v.keys.tt, v.keys.tt.pA>>
  BY <1>2 DEF VerifierKeys, spakeFinalize
<1>5. p.keys.tt = v.keys.tt
  BY <1>3, <1>4
<1> QED
  BY <1>3, <1>4, <1>5, Zenon

\* w0 and w1 are reduced by Order.
LEMMA Reduced ==
    ASSUME NEW passcode \in DOMAIN PBKDF2
    PROVE  /\ Spake2pW0W1FromPasscode(passcode).w0 \in Nat
           /\ Spake2pW0W1FromPasscode(passcode).w1 \in Nat
           /\ ComputeL(passcode) \in Points
<1>1. PBKDF2[passcode][1] \in Nat /\ PBKDF2[passcode][2] \in Nat
  BY ObjectAssumption, Zenon
<1>2. Order \in Nat \ {0}
  BY GroupAssumption, Zenon
<1>3. PBKDF2[passcode][1] % Order \in Nat /\ PBKDF2[passcode][2] % Order \in Nat
  BY <1>1, <1>2
<1>4. G \in Points
  BY CurveAssumption, Zenon DEF Points
<1> QED
  BY <1>3, <1>4, Multiplication, Zenon DEF Spake2pW0W1FromPasscode, ComputeL

\* No object, nothing returned.
LEMMA InitInv == Init => Inv
BY DEF Init, Inv, Up, VerifiedKeStays

\* A new object holds no keys, and finds no confirmation and no acceptance.
LEMMA NewProverInv ==
    ASSUME Inv, NEW passcode \in DOMAIN PBKDF2, NEW context \in Contexts,
           NewSPAKE2PProver(passcode, context)
    PROVE  Inv'
<1> DEFINE w == Spake2pW0W1FromPasscode(passcode)
           p == [w0 |-> w.w0, w1 |-> w.w1, context |-> context, x |-> Nil,
                 pA |-> Nil, keys |-> Nil]
<1>1. /\ prover = Nil /\ prover' = p
      /\ UNCHANGED <<verifier, sent, accepted>>
  BY Zenon DEF NewSPAKE2PProver
<1>2. p \in SPAKE2PProver /\ p.x = Nil /\ p.keys = Nil
  BY Reduced, Zenon DEF SPAKE2PProver
<1> HIDE DEF p
<1>3. ProverSound(p) /\ p # Nil
  BY <1>2, ObjectAssumption, Zenon DEF ProverSound
<1>4. sent.cA = {} /\ accepted = {}
  BY <1>1, Zenon DEF Inv
<1> QED
  BY <1>1, <1>3, <1>4, Zenon DEF Inv, Up, Confirmed, VerifiedKeStays

\* The same for the verifier.
LEMMA NewVerifierInv ==
    ASSUME Inv, NEW passcode \in DOMAIN PBKDF2, NEW context \in Contexts,
           NewSPAKE2PVerifier(passcode, context)
    PROVE  Inv'
<1> DEFINE v == [w0 |-> Spake2pW0W1FromPasscode(passcode).w0, L |-> ComputeL(passcode),
                 context |-> context, pA |-> Nil, pB |-> Nil, zV |-> Nil, vV |-> Nil,
                 keys |-> Nil]
<1>1. /\ verifier = Nil /\ verifier' = v
      /\ UNCHANGED <<prover, sent, accepted>>
  BY Zenon DEF NewSPAKE2PVerifier
<1>2. v \in SPAKE2PVerifier /\ v.zV = Nil /\ v.keys = Nil
  BY Reduced, Zenon DEF SPAKE2PVerifier
<1> HIDE DEF v
<1>3. VerifierSound(v) /\ v # Nil
  <2>1. v # Nil
    BY <1>2, ObjectAssumption, Zenon
  <2> QED
    BY <1>2, <2>1, Zenon DEF VerifierSound
<1>4. sent.cB = {} /\ accepted = {}
  BY <1>1, Zenon DEF Inv
<1>5. VerifierSound(verifier') /\ Confirmed(verifier', sent'.cB, verifier'.keys.cB)
  BY <1>1, <1>3, <1>4, Zenon DEF Confirmed
<1>6. VerifiedKeStays'
  BY <1>1, <1>4, Zenon DEF VerifiedKeStays
<1> QED
  BY <1>1, <1>3, <1>4, <1>5, <1>6, Zenon DEF Inv, Up

\* ComputePA changes neither the keys nor what they come from.
LEMMA ComputePAInv ==
    ASSUME Inv, NEW x \in Scalars, ComputePA(x)
    PROVE  Inv'
<1> DEFINE pA == Blind(x, M, prover.w0)
           p  == [prover EXCEPT !.x = x, !.pA = pA]
<1>1. Up(prover) /\ UNCHANGED <<verifier, accepted>>
  BY Zenon DEF ComputePA
<1>2. ProverSound(prover) /\ Confirmed(prover, sent.cA, prover.keys.cA) /\ prover # Nil
  BY <1>1, Zenon DEF Inv, Up
<1>3. CASE pA = Infinity
  <2>1. prover' = Down /\ sent' = sent
    BY <1>3, Zenon DEF ComputePA
  <2> QED
    BY <1>1, <2>1, ObjectAssumption, Zenon DEF Inv, Up, VerifiedKeStays
<1>4. CASE pA # Infinity
  <2>1. prover' = p /\ sent' = [sent EXCEPT !.pA = @ \cup {pA}]
    BY <1>4, Zenon DEF ComputePA
  <2>2. prover \in SPAKE2PProver /\ prover.w0 \in Nat /\ x \in Nat
    BY <1>2, ObjectAssumption, Zenon DEF ProverSound, SPAKE2PProver
  <2>3. pA \in Points
    BY <2>2, BlindType, CurveAssumption, Neutral, Zenon
  <2>4. pA \in Curve
    BY <1>4, <2>3, Zenon DEF Points
  <2> HIDE DEF pA
  <2>5. /\ p \in SPAKE2PProver
        /\ p.x = x /\ p.pA = pA /\ p.w0 = prover.w0 /\ p.w1 = prover.w1
        /\ p.context = prover.context /\ p.keys = prover.keys
    BY <2>2, <2>3, ZenonT(60) DEF SPAKE2PProver
  <2> HIDE DEF p
  <2>6. \A y, qB : ProverKeys(p, y, qB) = ProverKeys(prover, y, qB)
    BY <2>5, Zenon DEF ProverKeys
  <2>7. p.pA = Blind(p.x, M, p.w0)
    BY <2>5, Zenon DEF pA
  <2>8. ProverSound(p)
    BY <1>2, <2>5, <2>6, <2>7, Zenon DEF ProverSound
  <2>9. /\ sent' \in [pA : SUBSET Curve, pB : SUBSET Curve,
                     cA : SUBSET ({"KcA"} \X Transcript \X Points),
                     cB : SUBSET ({"KcB"} \X Transcript \X Points)]
        /\ sent'.cA = sent.cA /\ sent'.cB = sent.cB
    BY <2>1, <2>4, Zenon DEF Inv
  <2>10. p # Nil
    BY <2>5, ObjectAssumption, Zenon
  <2>11. Confirmed(p, sent.cA, p.keys.cA)
    BY <1>2, <2>5, Zenon DEF Confirmed
  <2>12. VerifiedKeStays'
    BY <1>1, <2>1, <2>5, Zenon DEF Inv, VerifiedKeStays, Finalized, Up
  <2> QED
    BY <1>1, <2>1, <2>8, <2>9, <2>10, <2>11, <2>12, Zenon DEF Inv, Up
<1> QED
  BY <1>3, <1>4, Zenon

\* The first Finalize of a prover finds no confirmation returned yet.
LEMMA ProverFinalizeInv ==
    ASSUME Inv, NEW pB, ProverFinalize(pB)
    PROVE  Inv'
<1> DEFINE yG == Unblind(pB, N, prover.w0)
           z  == ScalarMult(yG, prover.x)
           v  == ScalarMult(yG, prover.w1)
           keys == spakeFinalize(prover.context, prover.pA, pB, z, v, prover.w0)
           p  == [prover EXCEPT !.keys = keys]
<1>1. /\ Up(prover) /\ prover.keys = Nil /\ prover.x # Nil /\ pB \in Curve
      /\ UNCHANGED <<verifier, sent, accepted>>
  BY Zenon DEF ProverFinalize
<1>2. ProverSound(prover) /\ Confirmed(prover, sent.cA, prover.keys.cA) /\ prover # Nil
  BY <1>1, Zenon DEF Inv, Up
<1>3. CASE Infinity \in {z, v}
  <2>1. prover' = Down
    BY <1>3, Zenon DEF ProverFinalize
  <2> QED
    BY <1>1, <2>1, ObjectAssumption, Zenon DEF Inv, Up, VerifiedKeStays
<1>4. CASE Infinity \notin {z, v}
  <2>1. prover' = p
    BY <1>4, Zenon DEF ProverFinalize
  <2>2. /\ prover \in SPAKE2PProver /\ prover.w0 \in Nat /\ prover.w1 \in Nat
        /\ prover.context \in Contexts /\ prover.x \in Scalars /\ prover.x \in Nat
        /\ prover.pA = Blind(prover.x, M, prover.w0)
    BY <1>1, <1>2, ObjectAssumption, ZenonT(60) DEF ProverSound, SPAKE2PProver
  <2>3. M \in Curve /\ N \in Curve /\ pB \in Points
    BY <1>1, CurveAssumption, Zenon DEF Points
  <2>4. yG \in Points /\ prover.pA \in Points
    BY <2>2, <2>3, BlindType, Zenon
  <2> HIDE DEF yG
  <2>5. z \in Points /\ v \in Points
    BY <2>2, <2>4, Multiplication, Zenon
  <2>6. keys = ProverKeys(prover, prover.x, pB)
    BY <2>2, Zenon DEF ProverKeys, yG
  <2> HIDE DEF z, v
  <2>7. keys \in Keys
    BY <2>2, <2>3, <2>4, <2>5, FinalizeType, Zenon
  <2>8. keys.tt.v # Infinity
    BY <1>4, Zenon DEF spakeFinalize
  <2> HIDE DEF keys
  <2>9. /\ p \in SPAKE2PProver
        /\ p.x = prover.x /\ p.pA = prover.pA /\ p.w0 = prover.w0 /\ p.w1 = prover.w1
        /\ p.context = prover.context /\ p.keys = keys
    BY <2>2, <2>7, Zenon DEF SPAKE2PProver
  <2> HIDE DEF p
  <2>10. p.keys = ProverKeys(p, prover.x, pB)
    BY <2>6, <2>9, Zenon DEF ProverKeys
  <2>11. ProverSound(p)
    BY <1>1, <1>2, <2>2, <2>8, <2>9, <2>10, Zenon DEF ProverSound
  <2>12. p # Nil
    BY <2>9, ObjectAssumption, Zenon
  <2>13. sent.cA = {}
    BY <1>1, <1>2, Zenon DEF Confirmed
  <2>14. VerifiedKeStays'
    BY <1>1, Zenon DEF Inv, VerifiedKeStays, Finalized
  <2>15. Confirmed(p, sent.cA, p.keys.cA)
    BY <2>13, Zenon DEF Confirmed
  <2> QED
    BY <1>1, <2>1, <2>11, <2>12, <2>14, <2>15, Zenon DEF Inv, Up
<1> QED
  BY <1>3, <1>4, Zenon

\* ComputePB replaces pA, pB, Z and V and leaves the keys.
LEMMA ComputePBInv ==
    ASSUME Inv, NEW pA, NEW y \in Scalars, ComputePB(pA, y)
    PROVE  Inv'
<1> DEFINE pB == Blind(y, N, verifier.w0)
           zV == ScalarMult(Unblind(pA, M, verifier.w0), y)
           vV == ScalarMult(verifier.L, y)
           v  == [verifier EXCEPT !.pA = pA, !.pB = pB, !.zV = zV, !.vV = vV]
<1>1. Up(verifier) /\ pA \in Curve /\ UNCHANGED <<prover, accepted>>
  BY Zenon DEF ComputePB
<1>2. VerifierSound(verifier) /\ Confirmed(verifier, sent.cB, verifier.keys.cB) /\ verifier # Nil
  BY <1>1, Zenon DEF Inv, Up
<1>3. CASE Infinity \in {pB, zV, vV}
  <2>1. verifier' = Down /\ sent' = sent
    BY <1>3, Zenon DEF ComputePB
  <2> QED
    BY <1>1, <2>1, ObjectAssumption, Zenon DEF Inv, Up, VerifiedKeStays
<1>4. CASE Infinity \notin {pB, zV, vV}
  <2>1. verifier' = v /\ sent' = [sent EXCEPT !.pB = @ \cup {pB}]
    BY <1>4, Zenon DEF ComputePB
  <2>2. verifier \in SPAKE2PVerifier /\ verifier.w0 \in Nat /\ verifier.L \in Points /\ y \in Nat
    BY <1>2, ObjectAssumption, Zenon DEF VerifierSound, SPAKE2PVerifier
  <2>3. M \in Curve /\ N \in Curve /\ pA \in Points
    BY <1>1, CurveAssumption, Zenon DEF Points
  <2>4. pB \in Points /\ Unblind(pA, M, verifier.w0) \in Points
    BY <2>2, <2>3, BlindType, Zenon
  <2>5. zV \in Points /\ vV \in Points
    BY <2>2, <2>4, Multiplication, Zenon
  <2>6. pB \in Curve
    BY <1>4, <2>4, Zenon DEF Points
  <2> HIDE DEF pB, zV, vV
  <2>7. /\ v \in SPAKE2PVerifier
        /\ v.pA = pA /\ v.pB = pB /\ v.zV = zV /\ v.vV = vV
        /\ v.w0 = verifier.w0 /\ v.L = verifier.L
        /\ v.context = verifier.context /\ v.keys = verifier.keys
    BY <2>2, <2>3, <2>4, <2>5, ZenonT(60) DEF SPAKE2PVerifier
  <2> HIDE DEF v
  <2>8. \A u, qA : VerifierKeys(v, u, qA) = VerifierKeys(verifier, u, qA)
    BY <2>7, Zenon DEF VerifierKeys
  <2>9. /\ v.pA \in Curve
        /\ v.pB = Blind(y, N, v.w0)
        /\ v.zV = ScalarMult(Unblind(v.pA, M, v.w0), y)
        /\ v.vV = ScalarMult(v.L, y)
    BY <1>1, <2>7, Zenon DEF pB, zV, vV
  <2>10. VerifierSound(v)
    BY <1>2, <2>7, <2>8, <2>9, Zenon DEF VerifierSound
  <2>11. /\ sent' \in [pA : SUBSET Curve, pB : SUBSET Curve,
                     cA : SUBSET ({"KcA"} \X Transcript \X Points),
                     cB : SUBSET ({"KcB"} \X Transcript \X Points)]
         /\ sent'.cA = sent.cA /\ sent'.cB = sent.cB
    BY <2>1, <2>6, Zenon DEF Inv
  <2>12. v # Nil
    BY <2>7, ObjectAssumption, Zenon
  <2>13. Confirmed(v, sent.cB, v.keys.cB)
    BY <1>2, <2>7, Zenon DEF Confirmed
  <2>14. VerifiedKeStays'
    BY <1>1, <2>1, <2>7, Zenon DEF Inv, VerifiedKeStays, Finalized, Up
  <2> QED
    BY <1>1, <2>1, <2>10, <2>11, <2>12, <2>13, <2>14, Zenon DEF Inv, Up
<1> QED
  BY <1>3, <1>4, Zenon

\* The first Finalize of a verifier finds no confirmation returned yet.
LEMMA VerifierFinalizeInv ==
    ASSUME Inv, VerifierFinalize
    PROVE  Inv'
<1> DEFINE keys == spakeFinalize(verifier.context, verifier.pA, verifier.pB,
                                 verifier.zV, verifier.vV, verifier.w0)
           v == [verifier EXCEPT !.keys = keys]
<1>1. /\ Up(verifier) /\ verifier.keys = Nil /\ verifier.zV # Nil /\ verifier.vV # Nil
      /\ verifier' = v
      /\ UNCHANGED <<prover, sent, accepted>>
  BY Zenon DEF VerifierFinalize
<1>2. VerifierSound(verifier) /\ Confirmed(verifier, sent.cB, verifier.keys.cB) /\ verifier # Nil
  BY <1>1, Zenon DEF Inv, Up
<1>3. PICK y \in Scalars : /\ verifier.pA \in Curve
                           /\ verifier.pB = Blind(y, N, verifier.w0)
                           /\ verifier.zV = ScalarMult(Unblind(verifier.pA, M, verifier.w0), y)
                           /\ verifier.vV = ScalarMult(verifier.L, y)
  BY <1>1, <1>2, Zenon DEF VerifierSound
<1>4. /\ verifier \in SPAKE2PVerifier /\ verifier.w0 \in Nat /\ verifier.L \in Points
      /\ verifier.context \in Contexts /\ y \in Nat
      /\ verifier.zV \in Points /\ verifier.vV \in Points
  BY <1>1, <1>2, ObjectAssumption, Zenon DEF VerifierSound, SPAKE2PVerifier
<1>5. verifier.pA \in Points /\ verifier.pB \in Points
  BY <1>3, <1>4, BlindType, CurveAssumption, Neutral DEF Points
<1>6. keys = VerifierKeys(verifier, y, verifier.pA)
  BY <1>3, Zenon DEF VerifierKeys
<1>7. keys \in Keys
  BY <1>4, <1>5, FinalizeType, Zenon
<1> HIDE DEF keys
<1>8. /\ v \in SPAKE2PVerifier
      /\ v.pA = verifier.pA /\ v.pB = verifier.pB /\ v.zV = verifier.zV /\ v.vV = verifier.vV
      /\ v.w0 = verifier.w0 /\ v.L = verifier.L
      /\ v.context = verifier.context /\ v.keys = keys
  BY <1>4, <1>7, Zenon DEF SPAKE2PVerifier
<1> HIDE DEF v
<1>9. v.keys = VerifierKeys(v, y, v.pA)
  BY <1>6, <1>8, Zenon DEF VerifierKeys
<1>10. /\ v.pA \in Curve
       /\ v.pB = Blind(y, N, v.w0)
       /\ v.zV = ScalarMult(Unblind(v.pA, M, v.w0), y)
       /\ v.vV = ScalarMult(v.L, y)
  BY <1>3, <1>8, Zenon
<1>11. VerifierSound(v)
  BY <1>8, <1>9, <1>10, Zenon DEF VerifierSound
<1>12. v # Nil
  BY <1>8, ObjectAssumption, Zenon
<1>13. sent.cB = {}
  BY <1>1, <1>2, Zenon DEF Confirmed
<1>14. VerifiedKeStays'
  BY <1>1, Zenon DEF Inv, VerifiedKeStays, Finalized
<1>15. Confirmed(v, sent.cB, v.keys.cB)
  BY <1>13, Zenon DEF Confirmed
<1> QED
  BY <1>1, <1>11, <1>12, <1>14, <1>15, Zenon DEF Inv, Up

\* A side returns the confirmation of its keys and no other.
LEMMA ConfirmationInv ==
    ASSUME Inv, ConfirmationA \/ ConfirmationB
    PROVE  Inv'
<1>1. CASE ConfirmationA
  <2>1. /\ Up(prover) /\ prover.keys # Nil
        /\ sent' = [sent EXCEPT !.cA = @ \cup {prover.keys.cA}]
        /\ UNCHANGED <<prover, verifier, accepted>>
    BY <1>1, Zenon DEF ConfirmationA
  <2>2. ProverSound(prover) /\ Confirmed(prover, sent.cA, prover.keys.cA) /\ prover # Nil
    BY <2>1, Zenon DEF Inv, Up
  <2>3. prover.keys.cA \in {"KcA"} \X Transcript \X Points
    BY <2>1, <2>2, Zenon DEF ProverSound, SPAKE2PProver, Keys
  <2>4. /\ sent' \in [pA : SUBSET Curve, pB : SUBSET Curve,
                      cA : SUBSET ({"KcA"} \X Transcript \X Points),
                      cB : SUBSET ({"KcB"} \X Transcript \X Points)]
        /\ sent'.cA = sent.cA \cup {prover.keys.cA} /\ sent'.cB = sent.cB
    BY <2>1, <2>3, Zenon DEF Inv
  <2>5. Confirmed(prover, sent'.cA, prover.keys.cA)
    BY <2>1, <2>2, <2>4, Zenon DEF Confirmed
  <2>6. VerifiedKeStays'
    BY <2>1, Zenon DEF Inv, VerifiedKeStays, Finalized, Up
  <2> QED
    BY <2>1, <2>2, <2>4, <2>5, <2>6, Zenon DEF Inv, Up
<1>2. CASE ConfirmationB
  <2>1. /\ Up(verifier) /\ verifier.keys # Nil
        /\ sent' = [sent EXCEPT !.cB = @ \cup {verifier.keys.cB}]
        /\ UNCHANGED <<prover, verifier, accepted>>
    BY <1>2, Zenon DEF ConfirmationB
  <2>2. VerifierSound(verifier) /\ Confirmed(verifier, sent.cB, verifier.keys.cB) /\ verifier # Nil
    BY <2>1, Zenon DEF Inv, Up
  <2>3. verifier.keys.cB \in {"KcB"} \X Transcript \X Points
    BY <2>1, <2>2, Zenon DEF VerifierSound, SPAKE2PVerifier, Keys
  <2>4. /\ sent' \in [pA : SUBSET Curve, pB : SUBSET Curve,
                      cA : SUBSET ({"KcA"} \X Transcript \X Points),
                      cB : SUBSET ({"KcB"} \X Transcript \X Points)]
        /\ sent'.cB = sent.cB \cup {verifier.keys.cB} /\ sent'.cA = sent.cA
    BY <2>1, <2>3, Zenon DEF Inv
  <2>5. Confirmed(verifier, sent'.cB, verifier.keys.cB)
    BY <2>1, <2>2, <2>4, Zenon DEF Confirmed
  <2>6. VerifiedKeStays'
    BY <2>1, Zenon DEF Inv, VerifiedKeStays, Finalized, Up
  <2> QED
    BY <2>1, <2>2, <2>4, <2>5, <2>6, Zenon DEF Inv, Up
<1> QED
  BY <1>1, <1>2, Zenon

\* A side that verifies a confirmation finds the Ke of the other side.
LEMMA VerifyInv ==
    ASSUME Inv,
           \/ \E cB \in sent.cB : VerifyConfirmationB(cB)
           \/ \E cA \in sent.cA : VerifyConfirmationA(cA)
    PROVE  Inv'
<1>1. ASSUME NEW cB \in sent.cB, VerifyConfirmationB(cB) PROVE Inv'
  <2>1. /\ Up(prover) /\ prover.keys # Nil /\ cB = prover.keys.cB
        /\ UNCHANGED <<prover, verifier, sent>>
    BY <1>1, Zenon DEF VerifyConfirmationB
  <2>2. prover # Nil /\ verifier # Nil /\ ProverSound(prover)
    BY <1>1, <2>1, Zenon DEF Inv, Up
  <2>3. ASSUME Up(verifier)
        PROVE  verifier.keys # Nil /\ prover.keys.ke = verifier.keys.ke
    <3>1. VerifierSound(verifier) /\ Confirmed(verifier, sent.cB, verifier.keys.cB)
      BY <2>3, Zenon DEF Inv
    <3>2. verifier.keys # Nil /\ verifier.keys.cB = prover.keys.cB
      BY <1>1, <2>1, <3>1, Zenon DEF Confirmed
    <3> QED
      BY <2>1, <2>2, <3>1, <3>2, ConfirmationFixesKe, Zenon
  <2>4. VerifiedKeStays'
    BY <2>1, <2>3, Zenon DEF VerifiedKeStays, Finalized, Up
  <2> QED
    BY <2>1, <2>2, <2>4, Zenon DEF Inv, Up
<1>2. ASSUME NEW cA \in sent.cA, VerifyConfirmationA(cA) PROVE Inv'
  <2>1. /\ Up(verifier) /\ verifier.keys # Nil /\ cA = verifier.keys.cA
        /\ UNCHANGED <<prover, verifier, sent>>
    BY <1>2, Zenon DEF VerifyConfirmationA
  <2>2. prover # Nil /\ verifier # Nil /\ VerifierSound(verifier)
    BY <1>2, <2>1, Zenon DEF Inv, Up
  <2>3. ASSUME Up(prover)
        PROVE  prover.keys # Nil /\ prover.keys.ke = verifier.keys.ke
    <3>1. ProverSound(prover) /\ Confirmed(prover, sent.cA, prover.keys.cA)
      BY <2>3, Zenon DEF Inv
    <3>2. prover.keys # Nil /\ verifier.keys.cA = prover.keys.cA
      BY <1>2, <2>1, <3>1, Zenon DEF Confirmed
    <3> QED
      BY <2>1, <2>2, <3>1, <3>2, ConfirmationFixesKe, Zenon
  <2>4. VerifiedKeStays'
    BY <2>1, <2>3, Zenon DEF VerifiedKeStays, Finalized, Up
  <2> QED
    BY <2>1, <2>2, <2>4, Zenon DEF Inv, Up
<1> QED
  BY <1>1, <1>2, Zenon

\* Every call keeps Inv.
LEMMA Invariance == Spec => []Inv
<1>1. Inv /\ [Next]_vars => Inv'
  <2> SUFFICES ASSUME Inv, [Next]_vars PROVE Inv'
    BY Zenon
  <2>1. CASE UNCHANGED vars
    BY <2>1, Zenon DEF vars, Inv, Up, VerifiedKeStays, Finalized
  <2>2. CASE Next
    BY <2>2, NewProverInv, NewVerifierInv, ComputePAInv, ProverFinalizeInv, ConfirmationInv,
       VerifyInv, ComputePBInv, VerifierFinalizeInv, Zenon DEF Next
  <2> QED
    BY <2>1, <2>2, Zenon
<1> QED
  BY InitInv, <1>1, PTL DEF Spec

\* On every curve whose points form a group of prime order, for all scalars,
\* passcodes and orders of calls: Finalize of the two sides gives the same Ke
\* exactly if both saw the same pA, pB and context and the verifier's w0 and L
\* belong to the prover's passcode.
THEOREM KeAgreement == Spec => []SameKeExactly
<1>1. Inv => SameKeExactly
  BY SameKe, Zenon DEF Inv, SameKeExactly, Finalized
<1> QED
  BY Invariance, <1>1, PTL

\* Once a side has verified a confirmation, both hold the same Ke and no later
\* call of ComputePA, ComputePB or Finalize replaces it.
THEOREM KeStays == Spec => []VerifiedKeStays
<1>1. Inv => VerifiedKeStays
  BY Zenon DEF Inv
<1> QED
  BY Invariance, <1>1, PTL
=============================================================================
