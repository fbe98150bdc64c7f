----------------------------- MODULE Iteration -----------------------------
(***************************************************************************)
(* Induction over the natural numbers and the existence of iterates, as    *)
(* facts about sets and functions. The induction theorems of the library   *)
(* take an operator, which the provers cannot instantiate; that a set of   *)
(* natural numbers has a least element (WFMin) needs none. The loops of    *)
(* the models are recursive functions over Nat, which Iterates gives.      *)
(***************************************************************************)
EXTENDS Naturals, PowerOfTwo, NaturalsInduction, WellFoundedInduction, TLAPS

\* A set of natural numbers that is not empty has a least element.
LEMMA Least ==
  ASSUME NEW B \in SUBSET Nat, B # {}
  PROVE  \E x \in B : \A y \in B : x <= y
<1> DEFINE R == OpToRel(<, Nat)
<1>1. IsWellFoundedOn(R, Nat)
  BY NatLessThanWellFounded
<1>2. \A x, y \in Nat : <<x, y>> \in R <=> x < y
  BY DEF OpToRel
<1> HIDE DEF R
<1>3. PICK x \in B : \A y \in B : ~(<<y, x>> \in R)
  BY <1>1, WFMin
<1>4. \A y \in B : y \in Nat /\ ~(y < x)
  BY <1>2, <1>3
<1>5. \A y \in B : x <= y
  BY <1>4
<1> QED
  BY <1>5

\* A set that has zero and with every number the next one has all of them.
LEMMA SetInduction ==
  ASSUME NEW T, 0 \in T, \A n \in Nat : n \in T => n + 1 \in T
  PROVE  Nat \subseteq T
<1> SUFFICES ASSUME NEW z \in Nat, z \notin T PROVE FALSE
  OBVIOUS
<1>1. PICK x \in Nat \ T : \A y \in Nat \ T : x <= y
  BY Least
<1>2. x # 0
  OBVIOUS
<1>3. PICK w \in Nat : x = w + 1
  BY <1>2
<1>4. w \notin T /\ ~(x <= w)
  BY <1>3
<1> QED
  BY <1>1, <1>4

\* g[n] is the result of applying F to a n times.
IsIterate(g, S, F, a) ==
  g \in [Nat -> S] /\ g[0] = a /\ \A n \in Nat : g[n + 1] = F[g[n]]

\* A function can be applied again and again.
LEMMA Iterates ==
  ASSUME NEW S, NEW F \in [S -> S], NEW a \in S
  PROVE  \E g : IsIterate(g, S, F, a)
<1> DEFINE Run(n, g) == /\ g \in [0 .. n -> S] /\ g[0] = a
                        /\ \A k \in 0 .. n : k < n => g[k + 1] = F[g[k]]
           T == {n \in Nat : \E g \in [0 .. n -> S] : Run(n, g)}
           same(g, h, m) == {k \in Nat : k <= m => g[k] = h[k]}
<1>1. 0 \in T
  <2>1. Run(0, [k \in 0 .. 0 |-> a])
    OBVIOUS
  <2> QED
    BY <2>1
<1>2. \A n \in Nat : n \in T => n + 1 \in T
  <2> SUFFICES ASSUME NEW n \in Nat, NEW g \in [0 .. n -> S], Run(n, g) PROVE n + 1 \in T
    OBVIOUS
  <2> DEFINE h == [k \in 0 .. n + 1 |-> IF k = n + 1 THEN F[g[n]] ELSE g[k]]
  <2>1. h \in [0 .. n + 1 -> S]
    OBVIOUS
  <2>2. h[0] = a
    OBVIOUS
  <2>3. ASSUME NEW k \in 0 .. n + 1, k < n + 1 PROVE h[k + 1] = F[h[k]]
    <3>1. CASE k = n
      BY <3>1
    <3>2. CASE k < n
      <4>1. k \in 0 .. n /\ k + 1 \in 0 .. n /\ k + 1 # n + 1 /\ k # n + 1 /\ k + 1 \in 0 .. n + 1
        BY <3>2
      <4> QED
        BY <4>1, <3>2
    <3> QED
      BY <2>3, <3>1, <3>2
  <2>4. Run(n + 1, h)
    BY <2>1, <2>2, <2>3
  <2> HIDE DEF Run, h
  <2> QED
    BY <2>1, <2>4
<1>3. \A n \in Nat : \E g \in [0 .. n -> S] : Run(n, g)
  <2> HIDE DEF Run
  <2>1. Nat \subseteq T
    <3> HIDE DEF T
    <3> QED
      BY <1>1, <1>2, SetInduction
  <2> QED
    BY <2>1
\* The runs agree with each other.
<1>4. ASSUME NEW m \in Nat, NEW n \in Nat, m <= n, NEW g, NEW h, Run(m, g), Run(n, h)
      PROVE  \A k \in 0 .. m : g[k] = h[k]
  <2>1. 0 \in same(g, h, m)
    BY <1>4
  <2>2. ASSUME NEW k \in Nat, k \in same(g, h, m) PROVE k + 1 \in same(g, h, m)
    <3>1. CASE k + 1 <= m
      <4>1. k \in 0 .. m /\ k < m /\ k \in 0 .. n /\ k < n /\ k <= m
        BY <3>1, <1>4
      <4>2. g[k] = h[k]
        BY <2>2, <4>1
      <4>3. g[k + 1] = F[g[k]] /\ h[k + 1] = F[h[k]]
        BY <1>4, <4>1
      <4> QED
        BY <4>2, <4>3
    <3> QED
      BY <3>1
  <2>3. Nat \subseteq same(g, h, m)
    <3> HIDE DEF same
    <3> QED
      BY <2>1, <2>2, SetInduction
  <2> QED
    BY <2>3
<1> DEFINE r(n) == CHOOSE g \in [0 .. n -> S] : Run(n, g)
           G == [n \in Nat |-> r(n)[n]]
<1>5. ASSUME NEW n \in Nat PROVE r(n) \in [0 .. n -> S] /\ Run(n, r(n))
  <2> HIDE DEF Run
  <2> QED
    BY <1>3
<1> HIDE DEF r
<1>6. G \in [Nat -> S]
  <2> SUFFICES ASSUME NEW n \in Nat PROVE r(n)[n] \in S
    OBVIOUS
  <2>1. n \in 0 .. n
    OBVIOUS
  <2> QED
    BY <1>5, <2>1
<1>7. G[0] = a
  BY <1>5
<1>8. ASSUME NEW n \in Nat PROVE G[n + 1] = F[G[n]]
  <2>1. PICK m \in Nat : m = n + 1
    OBVIOUS
  <2>2. Run(n, r(n)) /\ Run(m, r(m))
    <3> HIDE DEF Run
    <3> QED
      BY <1>5
  <2>3. n <= m /\ n \in 0 .. n /\ n \in 0 .. m /\ n < m
    BY <2>1
  <2>4. r(n)[n] = r(m)[n]
    <3> HIDE DEF Run
    <3> QED
      BY <1>4, <2>2, <2>3
  <2>5. r(m)[n + 1] = F[r(m)[n]]
    BY <2>2, <2>3
  <2> QED
    BY <2>1, <2>4, <2>5
<1> HIDE DEF G
<1>9. IsIterate(G, S, F, a)
  BY <1>6, <1>7, <1>8 DEF IsIterate
<1> QED
  BY <1>9

\* The same for a function that also looks at the number of the step.
IsRecursion(g, S, F, a) ==
  g \in [Nat -> S] /\ g[0] = a /\ \A n \in Nat : g[n + 1] = F[<<n, g[n]>>]

\* Such a function can be applied again and again, too.
LEMMA Recursion ==
  ASSUME NEW S, NEW F \in [Nat \X S -> S], NEW a \in S
  PROVE  \E g : IsRecursion(g, S, F, a)
<1> DEFINE P == Nat \X S
           H == [x \in P |-> <<x[1] + 1, F[x]>>]
<1>1. H \in [P -> P] /\ <<0, a>> \in P
  <2> SUFFICES ASSUME NEW x \in P PROVE <<x[1] + 1, F[x]>> \in P
    OBVIOUS
  <2>1. x[1] \in Nat /\ F[x] \in S
    OBVIOUS
  <2> QED
    BY <2>1
<1>2. PICK h : IsIterate(h, P, H, <<0, a>>)
  <2> HIDE DEF H, P
  <2> QED
    BY <1>1, Iterates
<1>3. h \in [Nat -> P] /\ h[0] = <<0, a>> /\ \A n \in Nat : h[n + 1] = H[h[n]]
  BY <1>2 DEF IsIterate
<1> DEFINE T == {n \in Nat : h[n][1] = n}
<1>4. \A n \in Nat : h[n] \in P /\ h[n + 1] = <<h[n][1] + 1, F[h[n]]>>
  BY <1>3
<1>5. Nat \subseteq T
  <2>1. 0 \in T
    BY <1>3
  <2>2. \A n \in Nat : n \in T => n + 1 \in T
    BY <1>4
  <2> HIDE DEF T
  <2> QED
    BY <2>1, <2>2, SetInduction
<1> DEFINE g == [n \in Nat |-> h[n][2]]
<1>6. \A n \in Nat : h[n] = <<n, g[n]>> /\ g[n] \in S
  BY <1>4, <1>5
<1>7. g \in [Nat -> S] /\ g[0] = a
  BY <1>3, <1>6
<1>8. ASSUME NEW n \in Nat PROVE g[n + 1] = F[<<n, g[n]>>]
  <2>1. g[n + 1] = h[n + 1][2]
    OBVIOUS
  <2>2. h[n + 1][2] = F[h[n]]
    BY <1>4
  <2> QED
    BY <1>6, <2>1, <2>2
<1> HIDE DEF g
<1>9. IsRecursion(g, S, F, a)
  BY <1>7, <1>8 DEF IsRecursion
<1> QED
  BY <1>9

-----------------------------------------------------------------------------
(* Products and quotients *)

\* Multiplying keeps the order.
LEMMA TimesMonotone ==
  ASSUME NEW a \in Nat, NEW b \in Nat, NEW c \in Nat, a <= b
  PROVE  a * c \in Nat /\ b * c \in Nat /\ a * c <= b * c
<1>1. PICK k \in Nat : b = a + k
  BY SMT
<1>2. b * c = a * c + k * c /\ k * c \in Nat /\ a * c \in Nat
  BY <1>1
<1> QED
  BY <1>2

\* Runs of q numbers, taken in pairs: c pairs cover what M runs cover.
LEMMA PairedRuns ==
  ASSUME NEW M \in Nat \ {0}, NEW c \in Nat \ {0}, NEW q \in Nat, NEW N \in Nat,
         M = 2 * c \/ M = 2 * c - 1, (M - 1) * q < N, N <= M * q
  PROVE  (c - 1) * (2 * q) < N /\ N <= c * (2 * q)
<1>1. PICK p \in Nat : p = c * q
  OBVIOUS
<1>2. c * (2 * q) = 2 * p /\ (c - 1) * (2 * q) = 2 * p - 2 * q
  BY <1>1
<1>3. CASE M = 2 * c
  <2>1. M * q = 2 * p /\ (M - 1) * q = 2 * p - q
    BY <1>1, <1>3
  <2> QED
    BY <1>2, <2>1
<1>4. CASE M = 2 * c - 1
  <2>1. M * q = 2 * p - q /\ (M - 1) * q = 2 * p - 2 * q
    BY <1>1, <1>4
  <2> QED
    BY <1>2, <2>1
<1> QED
  BY <1>3, <1>4

\* A run from x to y is followed by one from m to n, and all of them are at
\* most r numbers: without the first, they are at most r - k; there is none
\* when the first has r numbers.
LEMMA RunsLeft ==
  ASSUME NEW x \in Nat, NEW y \in Nat, NEW m \in Nat, NEW n \in Nat,
         NEW r \in Nat, NEW k \in Nat, k = y - x + 1, y < m, n - x + 1 <= r
  PROVE  n - m + 1 <= r - k /\ ~(m <= n /\ k = r)
OBVIOUS

\* A quotient is the number of times the divisor fits.
LEMMA DivBounds ==
  ASSUME NEW a \in Nat, NEW b \in Nat \ {0}
  PROVE  /\ a \div b \in Nat /\ a % b \in Nat /\ a % b < b
         /\ a = ((a \div b) * b) + (a % b)
         /\ (a \div b) * b <= a
OBVIOUS

-----------------------------------------------------------------------------
(* Powers of two *)

\* The powers of two are what their definition says, and positive.
LEMMA Pow2Def ==
  /\ Pow2 \in [Nat -> Nat \ {0}]
  /\ Pow2[0] = 1
  /\ \A n \in Nat : Pow2[n + 1] = 2 * Pow2[n]
<1> DEFINE S == Nat \ {0}
           F == [x \in Nat \X S |-> 2 * x[2]]
           D(f) == f = [n \in Nat |-> IF n = 0 THEN 1 ELSE 2 * f[n-1]]
<1>1. F \in [Nat \X S -> S]
  <2> SUFFICES ASSUME NEW x \in Nat \X S PROVE 2 * x[2] \in S
    OBVIOUS
  <2>1. x[2] \in S
    OBVIOUS
  <2> QED
    BY <2>1
<1>2. PICK g : IsRecursion(g, S, F, 1)
  <2>1. 1 \in S
    OBVIOUS
  <2> HIDE DEF F, S
  <2> QED
    BY <1>1, <2>1, Recursion
<1>3. /\ g \in [Nat -> S] /\ g[0] = 1
      /\ \A n \in Nat : g[n + 1] = 2 * g[n]
  <2>0. g \in [Nat -> S] /\ g[0] = 1
    BY <1>2 DEF IsRecursion
  <2> SUFFICES ASSUME NEW n \in Nat PROVE g[n + 1] = 2 * g[n]
    BY <2>0
  <2>1. <<n, g[n]>> \in Nat \X S
    BY <2>0
  <2> QED
    BY <1>2, <2>1 DEF IsRecursion
<1>4. D(g)
  <2>1. ASSUME NEW n \in Nat PROVE g[n] = IF n = 0 THEN 1 ELSE 2 * g[n-1]
    <3>1. CASE n = 0
      BY <1>3, <3>1
    <3>2. CASE n # 0
      <4>1. PICK m \in Nat : n = m + 1
        BY <3>2
      <4> QED
        BY <1>3, <4>1
    <3> QED
      BY <3>1, <3>2
  <2> QED
    BY <1>3, <2>1
<1>5. Pow2 = CHOOSE f : D(f)
  BY DEF Pow2
<1>6. D(Pow2)
  <2> HIDE DEF D
  <2> QED
    BY <1>4, <1>5
<1>7. \A n \in Nat : Pow2[n] = IF n = 0 THEN 1 ELSE 2 * Pow2[n-1]
  BY <1>6
<1>8. Pow2[0] = 1 /\ \A n \in Nat : Pow2[n + 1] = 2 * Pow2[n]
  BY <1>7
<1> DEFINE T == {n \in Nat : Pow2[n] \in S}
<1>9. Nat \subseteq T
  <2>1. 0 \in T
    BY <1>8
  <2>2. \A n \in Nat : n \in T => n + 1 \in T
    BY <1>8
  <2> HIDE DEF T
  <2> QED
    BY <2>1, <2>2, SetInduction
<1>10. Pow2 = [n \in Nat |-> Pow2[n]]
  <2>1. DOMAIN Pow2 = Nat /\ Pow2 = [n \in Nat |-> IF n = 0 THEN 1 ELSE 2 * Pow2[n-1]]
    BY <1>6
  <2> QED
    BY <2>1
<1> QED
  BY <1>8, <1>9, <1>10

\* Exponents add up.
LEMMA Pow2Sum ==
  ASSUME NEW m \in Nat, NEW n \in Nat
  PROVE  Pow2[m + n] = Pow2[m] * Pow2[n]
<1> DEFINE T == {k \in Nat : Pow2[m + k] = Pow2[m] * Pow2[k]}
<1>1. 0 \in T
  <2>1. m + 0 = m /\ Pow2[m] \in Nat /\ Pow2[0] = 1
    BY Pow2Def
  <2> QED
    BY <2>1
<1>2. ASSUME NEW k \in Nat, k \in T PROVE k + 1 \in T
  <2>1. m + (k + 1) = (m + k) + 1 /\ m + k \in Nat
    OBVIOUS
  <2>2. Pow2[m + (k + 1)] = 2 * Pow2[m + k] /\ Pow2[k + 1] = 2 * Pow2[k]
    BY <2>1, Pow2Def
  <2>3. PICK a \in Nat, b \in Nat : a = Pow2[m] /\ b = Pow2[k]
    BY Pow2Def
  <2>4. PICK c \in Nat : c = a * b
    OBVIOUS
  <2>5. Pow2[m + k] = c
    BY <1>2, <2>3, <2>4
  <2>6. a * (2 * b) = 2 * c
    BY <2>4
  <2>7. Pow2[m + (k + 1)] = Pow2[m] * Pow2[k + 1]
    BY <2>2, <2>3, <2>5, <2>6, Zenon
  <2> QED
    BY <2>7
<1>3. Nat \subseteq T
  <2> HIDE DEF T
  <2> QED
    BY <1>1, <1>2, SetInduction
<1> QED
  BY <1>3

\* A larger exponent gives a larger power.
LEMMA Pow2Grows ==
  ASSUME NEW m \in Nat, NEW n \in Nat, m <= n
  PROVE  Pow2[m] <= Pow2[n] /\ (m < n => 2 * Pow2[m] <= Pow2[n])
<1> DEFINE T == {k \in Nat : Pow2[m] <= Pow2[m + k] /\ (0 < k => 2 * Pow2[m] <= Pow2[m + k])}
<1>1. 0 \in T
  <2>1. m + 0 = m /\ Pow2[m] \in Nat
    BY Pow2Def
  <2> QED
    BY <2>1
<1>2. ASSUME NEW k \in Nat, k \in T PROVE k + 1 \in T
  <2>1. m + (k + 1) = (m + k) + 1 /\ m + k \in Nat
    OBVIOUS
  <2>2. Pow2[m + (k + 1)] = 2 * Pow2[m + k] /\ Pow2[m] \in Nat /\ Pow2[m + k] \in Nat
    BY <2>1, Pow2Def
  <2> QED
    BY <1>2, <2>2
<1>3. Nat \subseteq T
  <2> HIDE DEF T
  <2> QED
    BY <1>1, <1>2, SetInduction
<1>4. PICK k \in Nat : n = m + k
  BY SMT
<1> QED
  BY <1>3, <1>4

\* A number is smaller than the power of two with it as the exponent.
LEMMA Pow2Larger ==
  \A n \in Nat : n < Pow2[n]
<1> DEFINE T == {k \in Nat : k < Pow2[k]}
<1>1. 0 \in T
  BY Pow2Def
<1>2. ASSUME NEW k \in Nat, k \in T PROVE k + 1 \in T
  <2>1. Pow2[k + 1] = 2 * Pow2[k] /\ Pow2[k] \in Nat
    BY Pow2Def
  <2> QED
    BY <1>2, <2>1
<1>3. Nat \subseteq T
  <2> HIDE DEF T
  <2> QED
    BY <1>1, <1>2, SetInduction
<1> QED
  BY <1>3

\* Every positive number lies between a power of two and the next one.
LEMMA Pow2Between ==
  ASSUME NEW d \in Nat, d > 0
  PROVE  \E n \in 1 .. d : Pow2[n-1] <= d /\ d < Pow2[n]
<1> DEFINE B == {n \in Nat : d < Pow2[n]}
<1>1. d \in B
  BY Pow2Larger
<1>2. PICK n \in B : \A y \in B : n <= y
  <2>1. B \in SUBSET Nat /\ B # {}
    BY <1>1
  <2> HIDE DEF B
  <2> QED
    BY <2>1, Least
<1>3. n # 0
  BY Pow2Def
<1>4. n <= d
  BY <1>1, <1>2
<1>5. n - 1 \in Nat /\ n - 1 \notin B
  BY <1>2, <1>3
<1>6. Pow2[n-1] <= d
  BY <1>5, Pow2Def
<1> QED
  BY <1>3, <1>4, <1>6

\* There is only one such power.
LEMMA Pow2Unique ==
  ASSUME NEW d \in Nat, NEW m \in Nat, NEW n \in Nat,
         Pow2[m] <= d, d < Pow2[m + 1], Pow2[n] <= d, d < Pow2[n + 1]
  PROVE  m = n
<1>1. Pow2[m] \in Nat /\ Pow2[n] \in Nat /\ Pow2[m + 1] \in Nat /\ Pow2[n + 1] \in Nat
  BY Pow2Def
<1>2. ~(m < n)
  <2>1. SUFFICES ASSUME m < n PROVE FALSE
    OBVIOUS
  <2>2. Pow2[m + 1] <= Pow2[n]
    BY <2>1, Pow2Grows
  <2> QED
    BY <1>1, <2>2
<1>3. ~(n < m)
  <2>1. SUFFICES ASSUME n < m PROVE FALSE
    OBVIOUS
  <2>2. Pow2[n + 1] <= Pow2[m]
    BY <2>1, Pow2Grows
  <2> QED
    BY <1>1, <2>2
<1> QED
  BY <1>2, <1>3
=============================================================================
