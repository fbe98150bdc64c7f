-------------------------- MODULE DifficultyProofs --------------------------
(***************************************************************************)
(* Proofs about the adjustment of the difficulty, module Difficulty.       *)
(***************************************************************************)
EXTENDS Difficulty, Iteration

-----------------------------------------------------------------------------
(* Quotients *)

\* A quotient is at least what fits.
LEMMA DivAtLeast ==
  ASSUME NEW a \in Nat, NEW b \in Nat \ {0}, NEW q \in Nat, q * b <= a
  PROVE  q <= a \div b
<1>1. PICK x \in Nat : x = a \div b
  BY DivBounds
<1>2. a = x * b + (a % b) /\ a % b \in Nat /\ a % b < b
  BY <1>1, DivBounds
<1>3. SUFFICES ASSUME x < q PROVE FALSE
  BY <1>1
<1>4. (x + 1) * b <= q * b
  BY <1>3, TimesMonotone
<1>5. (x + 1) * b = x * b + b /\ x * b \in Nat /\ q * b \in Nat
  OBVIOUS
<1> QED
  BY <1>2, <1>4, <1>5

\* A quotient is less than what does not fit.
LEMMA DivLess ==
  ASSUME NEW a \in Nat, NEW b \in Nat \ {0}, NEW q \in Nat, a < q * b
  PROVE  a \div b < q
<1>1. PICK x \in Nat : x = a \div b
  BY DivBounds
<1>2. x * b <= a
  BY <1>1, DivBounds
<1>3. SUFFICES ASSUME q <= x PROVE FALSE
  BY <1>1
<1>4. q * b <= x * b /\ q * b \in Nat /\ x * b \in Nat
  BY <1>3, TimesMonotone
<1> QED
  BY <1>2, <1>4

\* A quotient and a remainder are the only ones.
LEMMA DivUnique ==
  ASSUME NEW b \in Nat \ {0}, NEW q \in Nat, NEW r \in Nat, r < b
  PROVE  (q * b + r) \div b = q /\ (q * b + r) % b = r
<1>1. PICK a \in Nat : a = q * b + r
  <2>1. q * b \in Nat
    OBVIOUS
  <2> QED
    BY <2>1
<1>2. q <= a \div b
  <2>1. q * b <= a
    BY <1>1
  <2> QED
    BY <2>1, DivAtLeast
<1>3. a \div b < q + 1
  <2>1. (q + 1) * b = q * b + b /\ q + 1 \in Nat /\ q * b \in Nat
    OBVIOUS
  <2>2. a < (q + 1) * b
    BY <1>1, <2>1
  <2> QED
    BY <2>1, <2>2, DivLess
<1>4. a \div b = q
  BY <1>2, <1>3, DivBounds
<1>5. a = q * b + (a % b) /\ q * b \in Nat /\ a % b \in Nat
  BY <1>4, DivBounds
<1> QED
  BY <1>1, <1>4, <1>5

-----------------------------------------------------------------------------
(* Targets *)

\* A positive number is the next one after a number.
LEMMA Predecessor ==
  \A n \in Nat \ {0} : \E k \in Nat : n = k + 1
<1> SUFFICES ASSUME NEW n \in Nat \ {0} PROVE \E k \in Nat : n = k + 1
  OBVIOUS
<1>1. n - 1 \in Nat /\ n = (n - 1) + 1
  OBVIOUS
<1> QED
  BY <1>1

\* The length in bits of a positive number.
LEMMA BitLenDef ==
  ASSUME NEW d \in Nat, d > 0
  PROVE  /\ BitLen(d) \in Nat \ {0}
         /\ Pow2[BitLen(d) - 1] <= d /\ d < Pow2[BitLen(d)]
<1>1. BitLen(d) = CHOOSE n \in 1 .. d : Pow2[n-1] <= d /\ d < Pow2[n]
  BY DEF BitLen
<1>2. BitLen(d) \in 1 .. d /\ Pow2[BitLen(d) - 1] <= d /\ d < Pow2[BitLen(d)]
  BY <1>1, Pow2Between
<1> QED
  BY <1>2

\* There is no other length.
LEMMA BitLenUnique ==
  ASSUME NEW d \in Nat, NEW n \in Nat \ {0}, Pow2[n - 1] <= d, d < Pow2[n]
  PROVE  BitLen(d) = n /\ d > 0
<1>1. PICK k \in Nat : n = k + 1
  BY SMT
<1>2. Pow2[k] <= d /\ d < Pow2[k + 1] /\ Pow2[k] \in Nat \ {0}
  BY <1>1, Pow2Def
<1>3. d > 0
  BY <1>2
<1>4. PICK j \in Nat : BitLen(d) = j + 1
  BY <1>3, BitLenDef, Predecessor
<1>5. Pow2[j] <= d /\ d < Pow2[j + 1]
  BY <1>3, <1>4, BitLenDef
<1>6. j = k
  BY <1>2, <1>5, Pow2Unique
<1> QED
  BY <1>1, <1>3, <1>4, <1>6

\* A larger number is not shorter.
LEMMA BitLenMonotone ==
  ASSUME NEW d \in Nat, NEW e \in Nat, d <= e
  PROVE  BitLen(d) <= BitLen(e) /\ BitLen(d) \in Nat \ {0} /\ BitLen(e) \in Nat \ {0}
<1>1. BitLen(0) = 1
  BY DEF BitLen
<1>2. \A x \in Nat : BitLen(x) \in Nat \ {0}
  BY <1>1, BitLenDef
<1>3. CASE d = 0
  BY <1>1, <1>2, <1>3
<1>4. CASE d > 0
  <2>0. PICK m \in Nat : BitLen(d) = m + 1
    BY <1>2, Predecessor
  <2>1. PICK n \in Nat : BitLen(d) = m + 1 /\ BitLen(e) = n + 1
    BY <1>2, <2>0, Predecessor
  <2>2. Pow2[m] <= d /\ e < Pow2[n + 1]
    BY <1>4, <2>1, BitLenDef
  <2>3. SUFFICES ASSUME n < m PROVE FALSE
    BY <1>2, <2>1
  <2>4. Pow2[n + 1] <= Pow2[m] /\ Pow2[n + 1] \in Nat /\ Pow2[m] \in Nat
    <3>1. n + 1 \in Nat /\ n + 1 <= m
      BY <2>3
    <3> QED
      BY <3>1, Pow2Grows, Pow2Def
  <2> QED
    BY <2>2, <2>4
<1> QED
  BY <1>3, <1>4

\* What a target keeps of a difficulty: all but the bits behind the prefix.
Floor(d) == (d \div Precision(d)) * Precision(d)

\* The distance between two difficulties of the same length is a power of two.
LEMMA PrecisionDef ==
  ASSUME NEW d \in Nat
  PROVE  /\ Precision(d) \in Nat \ {0}
         /\ \E j \in Nat : /\ Precision(d) = Pow2[j]
                           /\ BitLen(d) > PrefixBits => BitLen(d) = PrefixBits + j
                           /\ BitLen(d) <= PrefixBits => j = 0
<1>1. BitLen(d) \in Nat /\ PrefixBits \in Nat
  BY BitLenMonotone, DifficultyAssumption
<1>2. CASE BitLen(d) > PrefixBits
  <2>1. PICK j \in Nat : BitLen(d) = PrefixBits + j
    BY <1>1, <1>2
  <2>2. Precision(d) = Pow2[j]
    BY <1>1, <1>2, <2>1 DEF Precision
  <2> QED
    BY <1>1, <1>2, <2>1, <2>2, Pow2Def
<1>3. CASE ~(BitLen(d) > PrefixBits)
  BY <1>1, <1>3, Pow2Def DEF Precision
<1> QED
  BY <1>2, <1>3

\* The prefix of a difficulty has PrefixBits bits, the first of which is set
\* unless the whole difficulty is shorter.
LEMMA PrefixDef ==
  ASSUME NEW d \in Nat
  PROVE  /\ d \div Precision(d) \in Nat /\ d \div Precision(d) < Pow2[PrefixBits]
         /\ BitLen(d) >= PrefixBits /\ d > 0 => Pow2[PrefixBits - 1] <= d \div Precision(d)
<1>1. PICK j \in Nat : /\ Precision(d) = Pow2[j]
                       /\ BitLen(d) > PrefixBits => BitLen(d) = PrefixBits + j
                       /\ BitLen(d) <= PrefixBits => j = 0
  BY PrecisionDef
<1>2. PICK p \in Nat : PrefixBits = p + 1
  BY DifficultyAssumption
<1>3. PICK s \in Nat \ {0} : s = Pow2[j]
  BY Pow2Def
<1>4. Pow2[PrefixBits] \in Nat /\ Pow2[p] \in Nat /\ Pow2[PrefixBits] = 2 * Pow2[p]
  BY <1>2, Pow2Def
<1>5. d < Pow2[PrefixBits] * s
  <2>1. CASE d = 0
    <3>1. \A x \in Nat \ {0}, y \in Nat \ {0} : 0 < x * y
      OBVIOUS
    <3>2. Pow2[PrefixBits] \in Nat \ {0}
      BY <1>2, Pow2Def
    <3> QED
      BY <2>1, <3>1, <3>2
  <2>2. CASE d > 0 /\ BitLen(d) > PrefixBits
    <3>1. d < Pow2[PrefixBits + j]
      BY <1>1, <2>2, BitLenDef
    <3>2. PrefixBits \in Nat
      BY <1>2
    <3>3. Pow2[PrefixBits + j] = Pow2[PrefixBits] * s
      BY <1>3, <3>2, Pow2Sum
    <3> QED
      BY <3>1, <3>3
  <2>3. CASE d > 0 /\ ~(BitLen(d) > PrefixBits)
    <3>1. j = 0 /\ s = 1
      BY <1>1, <1>2, <1>3, <2>3, BitLenDef, Pow2Def
    <3>2. d < Pow2[BitLen(d)] /\ BitLen(d) \in Nat /\ BitLen(d) <= PrefixBits
      BY <1>2, <2>3, BitLenDef
    <3>3. Pow2[BitLen(d)] <= Pow2[PrefixBits] /\ Pow2[BitLen(d)] \in Nat
      BY <1>2, <3>2, Pow2Grows, Pow2Def
    <3> QED
      BY <1>4, <3>1, <3>2, <3>3
  <2> QED
    BY <2>1, <2>2, <2>3
<1>6. d \div s \in Nat /\ d \div s < Pow2[PrefixBits]
  BY <1>3, <1>4, <1>5, DivLess, DivBounds
<1>7. ASSUME BitLen(d) >= PrefixBits, d > 0 PROVE Pow2[p] <= d \div s
  <2>1. BitLen(d) = PrefixBits + j /\ BitLen(d) \in Nat
    BY <1>1, <1>2, <1>7, BitLenDef
  <2>2. BitLen(d) - 1 = p + j
    BY <1>2, <2>1
  <2>3. Pow2[p + j] <= d
    BY <1>7, <2>2, BitLenDef
  <2>4. Pow2[p] * s <= d
    BY <1>3, <2>3, Pow2Sum
  <2> QED
    BY <1>3, <1>4, <2>4, DivAtLeast
<1>8. PrefixBits - 1 = p
  BY <1>2
<1> QED
  BY <1>1, <1>3, <1>6, <1>7, <1>8

\* The bits behind the prefix are worth less than one unit of it, and the
\* length stays.
LEMMA FloorBounds ==
  ASSUME NEW d \in Nat
  PROVE  /\ Floor(d) \in Nat /\ Floor(d) <= d /\ d < Floor(d) + Precision(d)
         /\ BitLen(Floor(d)) = BitLen(d)
         /\ d > 0 => Floor(d) > 0
<1>1. PICK s \in Nat \ {0} : s = Precision(d)
  BY PrecisionDef
<1>2. PICK q \in Nat : q = d \div s
  BY DivBounds
<1>3. Floor(d) = q * s /\ q * s \in Nat
  BY <1>1, <1>2 DEF Floor
<1>4. d = q * s + (d % s) /\ d % s \in Nat /\ d % s < s
  BY <1>2, DivBounds
<1>5. Floor(d) \in Nat /\ Floor(d) <= d /\ d < Floor(d) + s
  BY <1>3, <1>4
<1>6. PICK j \in Nat : /\ s = Pow2[j]
                       /\ BitLen(d) > PrefixBits => BitLen(d) = PrefixBits + j
                       /\ BitLen(d) <= PrefixBits => j = 0
  BY <1>1, PrecisionDef
<1>7. PICK p \in Nat : PrefixBits = p + 1
  BY DifficultyAssumption, Predecessor
<1>8. CASE BitLen(d) <= PrefixBits
  <2>1. s = 1
    BY <1>6, <1>8, Pow2Def
  <2>2. d % s = 0
    BY <1>4, <2>1
  <2>3. Floor(d) = d
    BY <1>3, <1>4, <2>2
  <2> QED
    BY <1>1, <1>5, <2>3
<1>9. CASE BitLen(d) > PrefixBits
  <2>1. d > 0
    BY <1>7, <1>9 DEF BitLen
  <2>2. BitLen(d) \in Nat \ {0}
    BY <2>1, BitLenDef
  <2>3. Pow2[p] <= q
    <3>1. BitLen(d) >= PrefixBits /\ PrefixBits - 1 = p
      BY <1>7, <1>9, <2>2
    <3> QED
      BY <1>1, <1>2, <2>1, <3>1, PrefixDef
  <2>4. Pow2[p + j] <= q * s /\ Pow2[p + j] \in Nat
    <3>1. Pow2[p] \in Nat
      BY Pow2Def
    <3>2. Pow2[p] * s <= q * s
      BY <2>3, <3>1, TimesMonotone
    <3>3. Pow2[p] * s = Pow2[p + j]
      BY <1>6, Pow2Sum
    <3> QED
      BY <3>2, <3>3, Pow2Def
  <2>5. BitLen(d) - 1 = p + j
    BY <1>6, <1>7, <1>9
  <2>6. d < Pow2[BitLen(d)] /\ Pow2[BitLen(d)] \in Nat
    BY <2>1, <2>2, BitLenDef, Pow2Def
  <2>7. Floor(d) < Pow2[BitLen(d)]
    BY <1>5, <2>6
  <2>8. Pow2[BitLen(d) - 1] <= Floor(d)
    BY <1>3, <2>4, <2>5
  <2>9. BitLen(Floor(d)) = BitLen(d) /\ Floor(d) > 0
    BY <1>5, <2>2, <2>7, <2>8, BitLenUnique
  <2> QED
    BY <1>1, <1>5, <2>9
<1>10. BitLen(d) \in Nat /\ PrefixBits \in Nat
  BY <1>7, BitLenMonotone
<1> QED
  BY <1>8, <1>9, <1>10

\* The target of a difficulty: its length and its prefix.
LEMMA DiffToTargetDef ==
  ASSUME NEW d \in Nat, d > 0
  PROVE  /\ DiffToTarget(d) = BitLen(d) * Pow2[PrefixBits] + d \div Precision(d)
         /\ DiffToTarget(d) \in Nat
<1>1. BitLen(d) \in Nat /\ PrefixBits \in Nat
  BY BitLenMonotone, DifficultyAssumption
<1>2. d \div 1 = d
  OBVIOUS
<1>3. DiffToTarget(d) = BitLen(d) * Pow2[PrefixBits] + d \div Precision(d)
  <2>1. CASE BitLen(d) > PrefixBits
    BY <2>1 DEF DiffToTarget, Precision
  <2>2. CASE ~(BitLen(d) > PrefixBits)
    BY <1>2, <2>2 DEF DiffToTarget, Precision
  <2> QED
    BY <2>1, <2>2
<1>4. Pow2[PrefixBits] \in Nat /\ d \div Precision(d) \in Nat
  BY <1>1, Pow2Def, PrefixDef
<1>5. BitLen(d) * Pow2[PrefixBits] \in Nat
  BY <1>1, <1>4
<1> QED
  BY <1>3, <1>4, <1>5

\* A target gives back the difficulty it was made of, without the bits
\* behind the prefix.
LEMMA TargetGivesFloor ==
  ASSUME NEW d \in Nat
  PROVE  TargetToDiff(DiffToTarget(d)) = Floor(d) /\ DiffToTarget(d) \in Nat
<1>1. PICK K \in Nat \ {0} : K = Pow2[PrefixBits]
  BY Pow2Def, DifficultyAssumption
<1>2. PrefixBits \in Nat \ {0}
  BY DifficultyAssumption
<1>3. CASE d = 0
  <2>1. DiffToTarget(d) = 0
    BY <1>3 DEF DiffToTarget
  <2>2. 0 \div K = 0 /\ 0 % K = 0
    OBVIOUS
  <2>3. TargetToDiff(0) = 0
    BY <1>1, <1>2, <2>2 DEF TargetToDiff
  <2>4. Floor(0) = 0
    BY FloorBounds
  <2> QED
    BY <1>3, <2>1, <2>3, <2>4
<1>4. CASE d > 0
  <2>1. PICK q \in Nat : q = d \div Precision(d) /\ q < K
    BY <1>1, PrefixDef
  <2>2. PICK len \in Nat : len = BitLen(d)
    BY BitLenMonotone
  <2>3. DiffToTarget(d) = len * K + q /\ DiffToTarget(d) \in Nat
    BY <1>1, <1>4, <2>1, <2>2, DiffToTargetDef
  <2>4. DiffToTarget(d) \div K = len /\ DiffToTarget(d) % K = q
    BY <2>1, <2>3, DivUnique
  <2>5. TargetToDiff(DiffToTarget(d)) =
          IF len > PrefixBits THEN q * Pow2[len - PrefixBits] ELSE q
    BY <1>1, <2>4 DEF TargetToDiff
  <2>6. Floor(d) = q * (IF len > PrefixBits THEN Pow2[len - PrefixBits] ELSE 1)
    BY <2>1, <2>2 DEF Floor, Precision
  <2>7. q * 1 = q
    OBVIOUS
  <2> QED
    BY <2>3, <2>5, <2>6, <2>7
<1> QED
  BY <1>3, <1>4

\* The bits that a target loses do not count: it is the target of what it
\* keeps.
LEMMA TargetOfFloor ==
  ASSUME NEW d \in Nat
  PROVE  DiffToTarget(Floor(d)) = DiffToTarget(d)
<1>1. Floor(d) \in Nat /\ BitLen(Floor(d)) = BitLen(d) /\ (d > 0 => Floor(d) > 0)
      /\ Floor(d) <= d
  BY FloorBounds
<1>2. CASE d = 0
  BY <1>1, <1>2
<1>3. CASE d > 0
  <2>1. Precision(Floor(d)) = Precision(d)
    BY <1>1 DEF Precision
  <2>2. PICK s \in Nat \ {0} : s = Precision(d)
    BY PrecisionDef
  <2>3. PICK q \in Nat : q = d \div s
    BY DivBounds
  <2>4. (q * s) \div s = q
    <3>1. q * s + 0 = q * s
      OBVIOUS
    <3>2. (q * s + 0) \div s = q
      BY DivUnique
    <3> QED
      BY <3>1, <3>2
  <2>5. Floor(d) \div Precision(Floor(d)) = d \div Precision(d)
    BY <2>1, <2>2, <2>3, <2>4 DEF Floor
  <2> QED
    BY <1>1, <1>3, <2>5, DiffToTargetDef
<1> QED
  BY <1>2, <1>3

\* What has at most PrefixBits bits before its zeros is kept as it is.
LEMMA WholeIsKept ==
  ASSUME NEW p \in Nat, p < Pow2[PrefixBits], NEW j \in Nat
  PROVE  Floor(p * Pow2[j]) = p * Pow2[j] /\ p * Pow2[j] \in Nat
<1>1. PICK d \in Nat : d = p * Pow2[j]
  BY Pow2Def
<1>2. PICK i \in Nat : /\ Precision(d) = Pow2[i]
                       /\ BitLen(d) > PrefixBits => BitLen(d) = PrefixBits + i
                       /\ BitLen(d) <= PrefixBits => i = 0
  BY PrecisionDef
<1>3. PICK b \in Nat : PrefixBits = b + 1
  BY DifficultyAssumption, Predecessor
<1>4. i <= j
  <2>1. SUFFICES ASSUME j < i PROVE FALSE
    OBVIOUS
  <2>2. BitLen(d) \in Nat /\ PrefixBits \in Nat
    BY <1>3, BitLenMonotone
  <2>3. BitLen(d) > PrefixBits /\ BitLen(d) = PrefixBits + i
    BY <1>2, <2>1, <2>2
  <2>4. d > 0
    BY <1>3, <2>3 DEF BitLen
  <2>5. BitLen(d) - 1 = b + i
    BY <1>3, <2>3
  <2>6. Pow2[b + i] <= d
    BY <2>4, <2>5, BitLenDef
  <2>7. Pow2[PrefixBits + j] <= Pow2[b + i]
    BY <1>3, <2>1, Pow2Grows
  <2>8. PICK K \in Nat, s \in Nat \ {0} : K = Pow2[PrefixBits] /\ s = Pow2[j]
    BY <2>2, Pow2Def
  <2>9. Pow2[PrefixBits + j] = K * s
    BY <2>2, <2>8, Pow2Sum
  <2>10. (p + 1) * s <= K * s
    BY <2>8, TimesMonotone
  <2>11. (p + 1) * s = p * s + s /\ p * s \in Nat /\ K * s \in Nat
    OBVIOUS
  <2>12. d < K * s
    BY <1>1, <2>8, <2>10, <2>11
  <2>13. Pow2[b + i] \in Nat
    BY Pow2Def
  <2> QED
    BY <2>6, <2>7, <2>9, <2>11, <2>12, <2>13
<1>5. PICK k \in Nat : j = k + i
  BY <1>4
<1>6. PICK s \in Nat \ {0}, u \in Nat : s = Pow2[i] /\ u = Pow2[k]
  BY Pow2Def
<1>7. Pow2[j] = u * s
  BY <1>5, <1>6, Pow2Sum
<1>8. d = (p * u) * s /\ p * u \in Nat
  BY <1>1, <1>7
<1>9. d \div s = p * u
  <2>1. PICK q \in Nat : q = p * u
    OBVIOUS
  <2>2. q * s + 0 = d
    BY <1>8, <2>1
  <2>3. (q * s + 0) \div s = q
    BY DivUnique
  <2> QED
    BY <2>1, <2>2, <2>3
<1>10. Floor(d) = d
  BY <1>2, <1>6, <1>8, <1>9 DEF Floor
<1> QED
  BY <1>1, <1>10

\* So every difficulty that a target stands for is kept, also that of a
\* target which no difficulty has, as the limit may be.
LEMMA TargetIsWhole ==
  ASSUME NEW t \in Nat
  PROVE  TargetToDiff(t) \in Nat /\ Floor(TargetToDiff(t)) = TargetToDiff(t)
<1>1. PICK K \in Nat \ {0} : K = Pow2[PrefixBits]
  BY Pow2Def, DifficultyAssumption
<1>2. PICK len \in Nat, p \in Nat : len = t \div K /\ p = t % K /\ p < K
  BY DivBounds
<1>3. PrefixBits \in Nat
  BY DifficultyAssumption
<1>4. CASE len > PrefixBits
  <2>1. PICK j \in Nat : j = len - PrefixBits
    BY <1>3, <1>4
  <2>2. TargetToDiff(t) = p * Pow2[j]
    BY <1>1, <1>2, <1>4, <2>1 DEF TargetToDiff
  <2> QED
    BY <1>1, <1>2, <2>2, WholeIsKept
<1>5. CASE ~(len > PrefixBits)
  <2>1. TargetToDiff(t) = p
    BY <1>1, <1>2, <1>5 DEF TargetToDiff
  <2>2. p * Pow2[0] = p
    BY Pow2Def
  <2>3. Floor(p * Pow2[0]) = p * Pow2[0]
    BY <1>1, <1>2, WholeIsKept
  <2> QED
    BY <2>1, <2>2, <2>3
<1> QED
  BY <1>4, <1>5

\* A smaller difficulty does not have a larger prefix, nor a coarser one.
LEMMA FloorMonotone ==
  ASSUME NEW d \in Nat, NEW e \in Nat, d <= e
  PROVE  Floor(d) <= Floor(e) /\ Precision(d) <= Precision(e)
<1>1. BitLen(d) \in Nat \ {0} /\ BitLen(e) \in Nat \ {0} /\ BitLen(d) <= BitLen(e)
      /\ PrefixBits \in Nat
  BY BitLenMonotone, DifficultyAssumption
<1>2. /\ Floor(d) \in Nat /\ Floor(e) \in Nat /\ Floor(d) <= d
      /\ Precision(d) \in Nat \ {0} /\ Precision(e) \in Nat \ {0}
  BY FloorBounds, PrecisionDef
<1>3. Precision(d) <= Precision(e)
  <2>1. CASE BitLen(d) > PrefixBits
    <3>1. PICK i \in Nat, j \in Nat : i = BitLen(d) - PrefixBits /\ j = BitLen(e) - PrefixBits
      BY <1>1, <2>1
    <3>2. Precision(d) = Pow2[i] /\ Precision(e) = Pow2[j] /\ i <= j
      BY <1>1, <2>1, <3>1 DEF Precision
    <3> QED
      BY <3>2, Pow2Grows
  <2>2. CASE ~(BitLen(d) > PrefixBits)
    BY <1>2, <2>2 DEF Precision
  <2> QED
    BY <2>1, <2>2
<1>4. CASE BitLen(d) = BitLen(e)
  <2>1. PICK s \in Nat \ {0} : s = Precision(d)
    BY <1>2
  <2>2. Precision(e) = s
    BY <1>4, <2>1 DEF Precision
  <2>3. PICK x \in Nat, y \in Nat : x = d \div s /\ y = e \div s
    BY DivBounds
  <2>4. x * s <= d /\ x * s \in Nat
    BY <2>3, DivBounds
  <2>5. x * s <= e
    BY <2>4
  <2>6. x <= y
    BY <2>3, <2>5, DivAtLeast
  <2>7. x * s <= y * s
    BY <2>6, TimesMonotone
  <2> QED
    BY <1>3, <2>1, <2>2, <2>3, <2>7 DEF Floor
<1>5. CASE BitLen(d) < BitLen(e)
  <2>1. e > 0
    <3>1. SUFFICES ASSUME e = 0 PROVE FALSE
      OBVIOUS
    <3>2. d = e
      BY <3>1
    <3> QED
      BY <1>1, <1>5, <3>2
  <2>2. Floor(e) > 0 /\ BitLen(Floor(e)) = BitLen(e)
    BY <2>1, FloorBounds
  <2>3. PICK m \in Nat : m = BitLen(e) - 1
    BY <1>1
  <2>4. Pow2[m] <= Floor(e)
    BY <1>2, <2>2, <2>3, BitLenDef
  <2>5. CASE d = 0
    BY <1>2, <1>3, <2>5
  <2>6. CASE d > 0
    <3>1. d < Pow2[BitLen(d)]
      BY <2>6, BitLenDef
    <3>2. Pow2[BitLen(d)] <= Pow2[m]
      BY <1>1, <1>5, <2>3, Pow2Grows
    <3>3. Pow2[BitLen(d)] \in Nat /\ Pow2[m] \in Nat
      BY <1>1, Pow2Def
    <3> QED
      BY <1>2, <1>3, <2>4, <3>1, <3>2, <3>3
  <2> QED
    BY <2>5, <2>6
<1> QED
  BY <1>1, <1>4, <1>5

-----------------------------------------------------------------------------
(* CalculateTarget *)

\* The sum of natural numbers is one.
LEMMA SumIsNat ==
  ASSUME NEW s \in Seq(Nat)
  PROVE  Sum(s) \in Nat
<1> DEFINE n == Len(s)
           D(f) == f = [i \in 0 .. n |-> IF i = 0 THEN 0 ELSE f[i-1] + s[i]]
           F == [x \in Nat \X Nat |-> IF x[1] + 1 \in 1 .. n THEN x[2] + s[x[1] + 1] ELSE x[2]]
<1>1. n \in Nat /\ \A i \in 1 .. n : s[i] \in Nat
  OBVIOUS
<1>2. F \in [Nat \X Nat -> Nat]
  <2> SUFFICES ASSUME NEW x \in Nat \X Nat
               PROVE  (IF x[1] + 1 \in 1 .. n THEN x[2] + s[x[1] + 1] ELSE x[2]) \in Nat
    OBVIOUS
  <2>1. x[1] \in Nat /\ x[2] \in Nat
    OBVIOUS
  <2> HIDE DEF n
  <2> QED
    BY <1>1, <2>1
<1>3. PICK g : IsRecursion(g, Nat, F, 0)
  <2> HIDE DEF F
  <2> QED
    BY <1>2, Recursion
<1>4. g \in [Nat -> Nat] /\ g[0] = 0
  BY <1>3 DEF IsRecursion
<1>5. ASSUME NEW i \in Nat, i + 1 <= n PROVE g[i + 1] = g[i] + s[i + 1]
  <2>1. <<i, g[i]>> \in Nat \X Nat
    BY <1>4
  <2>2. g[i + 1] = F[<<i, g[i]>>]
    BY <1>3 DEF IsRecursion
  <2>3. i + 1 \in 1 .. n
    BY <1>1, <1>5
  <2> HIDE DEF n
  <2> QED
    BY <2>1, <2>2, <2>3
<1> DEFINE t == [i \in 0 .. n |-> g[i]]
<1>6. D(t)
  <2>1. ASSUME NEW i \in 0 .. n PROVE t[i] = IF i = 0 THEN 0 ELSE t[i-1] + s[i]
    <3>1. CASE i = 0
      BY <1>4, <3>1
    <3>2. CASE i # 0
      <4>1. PICK k \in Nat : i = k + 1
        BY <3>2, <1>1, Predecessor
      <4>2. k \in 0 .. n /\ k + 1 <= n /\ i - 1 = k
        BY <1>1, <4>1
      <4>3. g[k + 1] = g[k] + s[k + 1]
        BY <1>5, <4>2
      <4>4. t[i] = g[k + 1] /\ t[i - 1] = g[k]
        BY <4>1, <4>2
      <4> QED
        BY <3>2, <4>1, <4>3, <4>4
    <3> QED
      BY <3>1, <3>2
  <2> QED
    BY <2>1
<1> DEFINE total == CHOOSE f : D(f)
<1>7. D(total)
  <2> HIDE DEF D, t
  <2> QED
    BY <1>6
<1>8. Sum(s) = total[n]
  BY DEF Sum
<1> HIDE DEF total
<1> DEFINE T == {i \in Nat : i <= n => total[i] \in Nat}
<1>9. Nat \subseteq T
  <2>0. \A i \in 0 .. n : total[i] = IF i = 0 THEN 0 ELSE total[i-1] + s[i]
    BY <1>7
  <2>1. 0 \in T
    BY <1>1, <2>0
  <2>2. ASSUME NEW i \in Nat, i \in T PROVE i + 1 \in T
    <3>1. CASE i + 1 <= n
      <4>1. i + 1 \in 0 .. n /\ i + 1 # 0 /\ (i + 1) - 1 = i /\ i <= n /\ i + 1 \in 1 .. n
        BY <1>1, <3>1
      <4>2. total[i + 1] = total[i] + s[i + 1]
        BY <2>0, <4>1
      <4> QED
        BY <1>1, <2>2, <4>1, <4>2
    <3> QED
      BY <3>1
  <2> HIDE DEF T
  <2> QED
    BY <2>1, <2>2, SetInduction
<1> QED
  BY <1>1, <1>8, <1>9

\* The numbers that the adjustment compares.
LEMMA SlownessIsNat ==
  /\ Expected \in Nat \ {0}
  /\ \A gap \in Nat, s \in Seq(Nat) : Slowness(gap, Sum(s)) \in Nat
<1>1. {ReferenceBlocks, Alpha, BlockInterval} \subseteq Nat \ {0}
  BY DifficultyAssumption
<1>2. Expected \in Nat \ {0}
  <2>1. \A a, b \in Nat \ {0} : a * b \in Nat \ {0}
    OBVIOUS
  <2>2. Alpha * ReferenceBlocks \in Nat \ {0}
    BY <1>1, <2>1
  <2> QED
    BY <1>1, <2>1, <2>2 DEF Expected
<1>3. ASSUME NEW gap \in Nat, NEW s \in Seq(Nat) PROVE Slowness(gap, Sum(s)) \in Nat
  <2>1. Sum(s) \in Nat /\ Alpha - 1 \in Nat
    BY <1>1, SumIsNat
  <2>2. Max({gap, 1}) \in Nat
    <3>1. \E x \in {gap, 1} : \A y \in {gap, 1} : x >= y
      <4>1. CASE gap >= 1
        BY <4>1
      <4>2. CASE 1 >= gap
        BY <4>2
      <4> QED
        BY <4>1, <4>2
    <3>2. Max({gap, 1}) \in {gap, 1}
      BY <3>1 DEF Max
    <3> QED
      BY <3>2
  <2>3. \A a, b \in Nat : a * b \in Nat /\ a + b \in Nat
    OBVIOUS
  <2> QED
    BY <1>1, <2>1, <2>2, <2>3 DEF Slowness
<1> QED
  BY <1>2, <1>3

\* The scaled difficulty is a half at least.
LEMMA ScaledBounds ==
  ASSUME NEW d \in Nat, NEW s \in Nat
  PROVE  /\ Scaled(d, s) \in Nat
         /\ s <= Expected => Scaled(d, s) <= d
         /\ s >= Expected => Scaled(d, s) >= d
         /\ Scaled(d, s) >= d \div 2
<1>1. PICK E \in Nat \ {0} : E = Expected
  BY SlownessIsNat
<1>2. d * s \in Nat /\ d \div 2 \in Nat
  OBVIOUS
<1>3. (d * s) \div E \in Nat
  BY <1>2, DivBounds
<1>4. CASE 2 * s < E
  BY <1>1, <1>2, <1>4 DEF Scaled
<1>5. CASE ~(2 * s < E)
  <2>1. Scaled(d, s) = (d * s) \div E
    BY <1>1, <1>5 DEF Scaled
  <2>2. ASSUME s <= E PROVE (d * s) \div E <= d
    <3>1. s * d <= E * d
      BY <2>2, TimesMonotone
    <3>2. d * s < (d + 1) * E
      <4>1. (d + 1) * E = E * d + E /\ E * d \in Nat /\ s * d = d * s
        OBVIOUS
      <4> QED
        BY <1>2, <3>1, <4>1
    <3>3. (d * s) \div E < d + 1
      BY <1>2, <3>2, DivLess
    <3> QED
      BY <1>3, <3>3
  <2>3. ASSUME s >= E PROVE (d * s) \div E >= d
    <3>1. E * d <= s * d
      BY <2>3, TimesMonotone
    <3>2. d * E <= d * s
      <4>1. d * E = E * d /\ s * d = d * s
        OBVIOUS
      <4> QED
        BY <3>1, <4>1
    <3> QED
      BY <1>2, <1>3, <3>2, DivAtLeast
  <2>4. (d * s) \div E >= d \div 2
    <3>1. PICK h \in Nat : h = d \div 2 /\ 2 * h <= d
      BY <1>2
    <3>2. h * E <= h * (2 * s)
      <4>1. E * h <= (2 * s) * h
        BY <1>5, TimesMonotone
      <4>2. E * h = h * E /\ (2 * s) * h = h * (2 * s)
        OBVIOUS
      <4> QED
        BY <4>1, <4>2
    <3>3. (2 * h) * s <= d * s
      BY <3>1, TimesMonotone
    <3>4. (2 * h) * s = h * (2 * s) /\ h * E \in Nat /\ h * (2 * s) \in Nat
      OBVIOUS
    <3>5. h * E <= d * s
      BY <1>2, <3>2, <3>3, <3>4
    <3> QED
      BY <1>2, <1>3, <3>1, <3>5, DivAtLeast
  <2> QED
    BY <1>1, <1>3, <2>1, <2>2, <2>3, <2>4
<1> QED
  BY <1>4, <1>5

\* An average that is off by one unit of the prefix moves the difficulty by
\* one unit at least.
LEMMA ScaledMoves ==
  ASSUME NEW d \in Nat, NEW s \in Nat, d >= MinDiff, Floor(d) = d,
         s * Pow2[PrefixBits - 1] >= Expected * (Pow2[PrefixBits - 1] + 1)
  PROVE  Scaled(d, s) >= d + Precision(d) /\ Floor(d + Precision(d)) = d + Precision(d)
<1>1. PICK E \in Nat \ {0} : E = Expected
  BY SlownessIsNat
<1>2. PICK p \in Nat : PrefixBits = p + 1 /\ PrefixBits - 1 = p
  BY DifficultyAssumption, Predecessor
<1>3. PICK H \in Nat \ {0} : H = Pow2[p]
  BY Pow2Def
<1>4. PICK j \in Nat : /\ Precision(d) = Pow2[j]
                       /\ BitLen(d) > PrefixBits => BitLen(d) = PrefixBits + j
                       /\ BitLen(d) <= PrefixBits => j = 0
  BY PrecisionDef
<1>5. PICK u \in Nat \ {0} : u = Precision(d)
  BY PrecisionDef
<1>6. H <= d /\ d > 0
  BY <1>2, <1>3, DifficultyAssumption
\* The difficulty fills the prefix.
<1>7. BitLen(d) >= PrefixBits
  <2>1. BitLen(H) = PrefixBits
    <3>1. H < Pow2[PrefixBits]
      BY <1>2, <1>3, Pow2Def
    <3> QED
      BY <1>2, <1>3, <3>1, BitLenUnique
  <2> QED
    BY <1>6, <2>1, BitLenMonotone
<1>8. PICK q \in Nat : q = d \div u /\ q < Pow2[PrefixBits] /\ H <= q
  BY <1>2, <1>3, <1>5, <1>6, <1>7, PrefixDef
<1>9. d = q * u
  BY <1>5, <1>8 DEF Floor
<1>10. d + u = (q + 1) * u
  BY <1>9
<1>11. Pow2[PrefixBits] \in Nat /\ Pow2[PrefixBits] >= 2 /\ Pow2[PrefixBits] = 2 * H
  BY <1>2, <1>3, Pow2Def
<1>12. Floor(d + u) = d + u
  <2>1. CASE q + 1 < Pow2[PrefixBits]
    <3>1. Floor((q + 1) * Pow2[j]) = (q + 1) * Pow2[j]
      BY <2>1, WholeIsKept
    <3> QED
      BY <1>4, <1>5, <1>10, <3>1
  <2>2. CASE q + 1 = Pow2[PrefixBits]
    <3>1. PrefixBits \in Nat /\ PrefixBits + j \in Nat
      BY <1>2
    <3>2. d + u = Pow2[PrefixBits + j]
      BY <1>4, <1>5, <1>10, <2>2, <3>1, Pow2Sum
    <3>3. 1 * Pow2[PrefixBits + j] = Pow2[PrefixBits + j]
      BY <3>1, Pow2Def
    <3>4. Floor(1 * Pow2[PrefixBits + j]) = 1 * Pow2[PrefixBits + j]
      BY <1>11, <3>1, WholeIsKept
    <3> QED
      BY <3>2, <3>3, <3>4
  <2> QED
    BY <1>8, <1>11, <2>1, <2>2
\* (d + u) * E * H <= d * s * H
<1>13. (d + u) * E <= d * s
  <2>1. s * H >= E * (H + 1)
    BY <1>1, <1>2, <1>3
  <2>2. (E * (H + 1)) * d <= (s * H) * d
    <3>1. E * (H + 1) \in Nat /\ s * H \in Nat
      OBVIOUS
    <3> QED
      BY <2>1, <3>1, TimesMonotone
  <2>3. H * u <= d
    BY <1>8, <1>9, TimesMonotone
  <2>4. (H * u) * E <= d * E
    <3>1. H * u \in Nat
      OBVIOUS
    <3> QED
      BY <2>3, <3>1, TimesMonotone
  <2>5. (E * (H + 1)) * d = (d * E) * H + d * E
    OBVIOUS
  <2>6. ((d + u) * E) * H = (d * E) * H + (H * u) * E
    OBVIOUS
  <2>7. (s * H) * d = (d * s) * H
    OBVIOUS
  <2>8. PICK a \in Nat, b \in Nat : a = (d + u) * E /\ b = d * s
    OBVIOUS
  <2>9. a * H <= b * H
    <3>1. PICK w \in Nat, x \in Nat, y \in Nat : w = (d * E) * H /\ x = d * E /\ y = (H * u) * E
      OBVIOUS
    <3>2. w + x <= b * H /\ a * H = w + y /\ y <= x
      BY <2>2, <2>4, <2>5, <2>6, <2>7, <2>8, <3>1
    <3>3. b * H \in Nat
      OBVIOUS
    <3> QED
      BY <3>2, <3>3
  <2>10. SUFFICES ASSUME b < a PROVE FALSE
    BY <2>8
  <2>11. (b + 1) * H <= a * H
    BY <2>10, TimesMonotone
  <2>12. (b + 1) * H = b * H + H /\ b * H \in Nat /\ a * H \in Nat
    OBVIOUS
  <2> QED
    BY <2>9, <2>11, <2>12
<1>14. ~(2 * s < E)
  <2>1. SUFFICES ASSUME 2 * s < E PROVE FALSE
    OBVIOUS
  <2>2. s <= E
    BY <2>1
  <2>3. s * d <= E * d
    BY <2>2, TimesMonotone
  <2>4. (d + u) * E = E * d + u * E /\ s * d = d * s /\ E * d \in Nat /\ d * s \in Nat
    OBVIOUS
  <2>5. u * E \in Nat \ {0}
    OBVIOUS
  <2> QED
    BY <1>13, <2>3, <2>4, <2>5
<1>15. d * s \in Nat /\ d + u \in Nat
  OBVIOUS
<1>16. d + u <= (d * s) \div E
  BY <1>13, <1>15, DivAtLeast
<1>17. Scaled(d, s) = (d * s) \div E
  BY <1>1, <1>14 DEF Scaled
<1>18. (d * s) \div E \in Nat
  BY <1>15, DivBounds
<1> QED
  BY <1>5, <1>12, <1>15, <1>16, <1>17, <1>18

\* The next target stands for the scaled difficulty without the bits behind
\* its prefix, or is the limit.
LEMMA CalculateTargetDef ==
  ASSUME NEW t \in Nat, NEW gap \in Nat, NEW s \in Seq(Nat)
  PROVE  LET next == CalculateTarget(t, gap, Sum(s))
             diff == Scaled(TargetToDiff(t), Slowness(gap, Sum(s)))
         IN  /\ next \in Nat
             /\ diff > BlockDifficultyLimit => next = BlockTargetLimit
             /\ diff <= BlockDifficultyLimit =>
                  TargetToDiff(next) = Floor(diff) /\ next = DiffToTarget(diff)
<1>1. PICK diff \in Nat : diff = Scaled(TargetToDiff(t), Slowness(gap, Sum(s)))
  BY TargetIsWhole, SlownessIsNat, ScaledBounds
<1>2. BlockDifficultyLimit \in Nat /\ BlockTargetLimit \in Nat
  BY TargetIsWhole, DifficultyAssumption DEF BlockDifficultyLimit
<1>3. CalculateTarget(t, gap, Sum(s)) =
        IF diff > BlockDifficultyLimit THEN BlockTargetLimit ELSE DiffToTarget(diff)
  BY <1>1 DEF CalculateTarget
<1>4. TargetToDiff(DiffToTarget(diff)) = Floor(diff) /\ DiffToTarget(diff) \in Nat
  BY TargetGivesFloor
<1> QED
  BY <1>1, <1>2, <1>3, <1>4

-----------------------------------------------------------------------------
(* The branch *)

\* The types of the variables.
TypeOK == target \in Nat /\ gaps \in Seq(Nat) /\ height \in Nat \ {0}

Inv == TypeOK /\ WithinLimit

\* The first block has the limit as its target.
LEMMA InitInv == Init => Inv
<1> SUFFICES ASSUME Init PROVE Inv
  OBVIOUS
<1>1. TypeOK
  BY DifficultyAssumption DEF Init, TypeOK
<1>2. BlockDifficultyLimit \in Nat
  BY TargetIsWhole, DifficultyAssumption DEF BlockDifficultyLimit
<1>3. WithinLimit
  BY <1>2 DEF Init, WithinLimit, Diff, BlockDifficultyLimit
<1> QED
  BY <1>1, <1>3 DEF Inv

\* A block that is added keeps the types.
LEMMA AddTypes ==
  ASSUME TypeOK, NEW gap \in Nat, Add(gap)
  PROVE  TypeOK'
<1>1. target' \in Nat
  <2>1. CASE height <= ReferenceBlocks + 1
    BY <2>1, DifficultyAssumption DEF Add, nextBlockTarget
  <2>2. CASE ~(height <= ReferenceBlocks + 1)
    BY <2>2, CalculateTargetDef DEF Add, nextBlockTarget, TypeOK
  <2> QED
    BY <2>1, <2>2
<1>2. height' \in Nat \ {0}
  <2>0. height + 1 \in Nat \ {0} /\ ReferenceBlocks + 2 \in Nat \ {0}
    BY DifficultyAssumption DEF TypeOK
  <2>1. PICK a \in Nat \ {0}, b \in Nat \ {0} : a = height + 1 /\ b = ReferenceBlocks + 2
    BY <2>0
  <2>2. height' = Min({a, b})
    BY <2>1 DEF Add
  <2>3. \E x \in {a, b} : \A y \in {a, b} : x <= y
    <3>1. CASE a <= b
      BY <3>1
    <3>2. CASE b <= a
      BY <3>2
    <3> QED
      BY <3>1, <3>2
  <2>4. Min({a, b}) \in {a, b}
    BY <2>3 DEF Min
  <2> QED
    BY <2>2, <2>4
<1>3. gaps' \in Seq(Nat)
  <2>1. gaps \in Seq(Nat) /\ Append(gaps, gap) \in Seq(Nat)
    BY DEF TypeOK
  <2>2. CASE height = 1
    BY <2>2 DEF Add
  <2>3. CASE height # 1 /\ Len(gaps) < ReferenceBlocks
    BY <2>1, <2>3 DEF Add
  <2>4. CASE height # 1 /\ ~(Len(gaps) < ReferenceBlocks)
    <3>1. gaps # <<>>
      BY <2>1, <2>4, DifficultyAssumption
    <3>2. Tail(gaps) \in Seq(Nat)
      BY <2>1, <3>1
    <3>3. Append(Tail(gaps), gap) \in Seq(Nat)
      BY <3>2
    <3> QED
      BY <2>4, <3>3 DEF Add
  <2> QED
    BY <2>2, <2>3, <2>4
<1> QED
  BY <1>1, <1>2, <1>3 DEF TypeOK

\* A block that is added is not easier than the limit and has the only target
\* of its difficulty.
LEMMA AddWithinLimit ==
  ASSUME TypeOK, NEW gap \in Nat, Add(gap)
  PROVE  WithinLimit'
<1>1. BlockDifficultyLimit \in Nat
  BY TargetIsWhole, DifficultyAssumption DEF BlockDifficultyLimit
<1>2. CASE target' = BlockTargetLimit
  BY <1>1, <1>2 DEF WithinLimit, Diff, BlockDifficultyLimit
<1>3. CASE target' # BlockTargetLimit
  <2>1. target' = CalculateTarget(target, gap, Sum(gaps))
    BY <1>3 DEF Add, nextBlockTarget
  <2>2. target \in Nat /\ gaps \in Seq(Nat)
    BY DEF TypeOK
  <2>3. PICK diff \in Nat : diff = Scaled(TargetToDiff(target), Slowness(gap, Sum(gaps)))
    BY <2>2, TargetIsWhole, SlownessIsNat, ScaledBounds
  <2>4. /\ diff > BlockDifficultyLimit => target' = BlockTargetLimit
        /\ diff <= BlockDifficultyLimit =>
             TargetToDiff(target') = Floor(diff) /\ target' = DiffToTarget(diff)
    BY <2>1, <2>2, <2>3, CalculateTargetDef
  <2>5. diff <= BlockDifficultyLimit
    BY <1>1, <1>3, <2>4
  <2>6. Diff' = Floor(diff) /\ target' = DiffToTarget(diff)
    BY <2>4, <2>5 DEF Diff
  <2>7. Floor(diff) \in Nat /\ Floor(diff) <= diff
    BY FloorBounds
  <2>8. Diff' <= BlockDifficultyLimit
    BY <1>1, <2>5, <2>6, <2>7
  <2>9. DiffToTarget(Diff') = target'
    BY <2>6, TargetOfFloor
  <2> QED
    BY <2>8, <2>9 DEF WithinLimit, BlockDifficultyLimit
<1> QED
  BY <1>2, <1>3

\* The gap of the block that is added is the newest one.
LEMMA NewestGap ==
  ASSUME TypeOK, NEW gap \in Nat, Add(gap), Adjusting
  PROVE  Last(gaps') = gap
<1>1. height # 1
  BY DifficultyAssumption DEF Adjusting
<1>2. gaps \in Seq(Nat)
  BY DEF TypeOK
<1>3. PICK s \in Seq(Nat) : gaps' = Append(s, gap)
  <2>1. CASE Len(gaps) < ReferenceBlocks
    BY <1>1, <1>2, <2>1 DEF Add
  <2>2. CASE ~(Len(gaps) < ReferenceBlocks)
    <3>1. gaps # <<>>
      BY <1>2, <2>2, DifficultyAssumption
    <3>2. Tail(gaps) \in Seq(Nat)
      BY <1>2, <3>1
    <3> QED
      BY <1>1, <2>2, <3>2 DEF Add
  <2> QED
    BY <2>1, <2>2
<1>4. Len(Append(s, gap)) = Len(s) + 1 /\ Append(s, gap)[Len(s) + 1] = gap
  OBVIOUS
<1> QED
  BY <1>3, <1>4 DEF Last

\* The adjustment follows the rate at which blocks come.
LEMMA AddFollowsRate ==
  ASSUME Inv, NEW gap \in Nat, Add(gap), Adjusting
  PROVE  /\ PastSlowness <= Expected => Diff' <= Diff
         /\ PastSlowness >= Expected => Diff' >= Diff
         /\ Diff' + Precision(Diff) > Diff \div 2
         /\ PastSlowness * Pow2[PrefixBits - 1] >= Expected * (Pow2[PrefixBits - 1] + 1)
              => Diff' > Diff \/ Diff' = BlockDifficultyLimit
<1>1. target \in Nat /\ gaps \in Seq(Nat) /\ TypeOK
  BY DEF Inv, TypeOK
<1>2. PICK d \in Nat : d = Diff /\ Floor(d) = d /\ d = TargetToDiff(target)
  BY <1>1, TargetIsWhole DEF Diff
<1>3. PICK s \in Nat : s = PastSlowness /\ s = Slowness(gap, Sum(gaps))
  BY <1>1, NewestGap, SlownessIsNat DEF PastSlowness
<1>4. PICK lim \in Nat : lim = BlockDifficultyLimit
  BY TargetIsWhole, DifficultyAssumption DEF BlockDifficultyLimit
<1>5. PICK x \in Nat : x = Scaled(d, s)
  BY ScaledBounds
<1>6. d <= lim
  BY <1>2, <1>4 DEF Inv, WithinLimit
<1>7. target' = CalculateTarget(target, gap, Sum(gaps))
  <2>1. ~(height <= ReferenceBlocks + 1)
    BY DifficultyAssumption DEF Adjusting
  <2> QED
    BY <2>1 DEF Add, nextBlockTarget
<1>8. /\ x > lim => Diff' = lim
      /\ x <= lim => Diff' = Floor(x)
  <2>1. x = Scaled(TargetToDiff(target), Slowness(gap, Sum(gaps)))
    BY <1>2, <1>3, <1>5
  <2>2. /\ x > lim => target' = BlockTargetLimit
        /\ x <= lim => TargetToDiff(target') = Floor(x)
    BY <1>1, <1>4, <1>7, <2>1, CalculateTargetDef
  <2>3. Diff' = TargetToDiff(target') /\ lim = TargetToDiff(BlockTargetLimit)
    BY <1>4 DEF Diff, BlockDifficultyLimit
  <2> QED
    BY <2>2, <2>3
<1>9. Floor(x) \in Nat /\ Floor(x) <= x
  BY FloorBounds
<1>10. Expected \in Nat
  BY SlownessIsNat
<1>11. ASSUME s <= Expected PROVE Diff' <= d
  <2>1. x <= d
    BY <1>5, <1>11, ScaledBounds
  <2> QED
    BY <1>6, <1>8, <1>9, <2>1
<1>12. ASSUME s >= Expected PROVE Diff' >= d
  <2>1. x >= d
    BY <1>5, <1>12, ScaledBounds
  <2>2. Floor(d) <= Floor(x)
    BY <2>1, FloorMonotone
  <2> QED
    BY <1>2, <1>6, <1>8, <1>9, <2>2
<1>13. Diff' + Precision(d) > d \div 2
  <2>1. PICK h \in Nat : h = d \div 2 /\ h <= d
    OBVIOUS
  <2>2. h <= x
    BY <1>5, <2>1, ScaledBounds
  <2>3. Floor(h) <= Floor(x) /\ Precision(h) <= Precision(d)
    BY <2>1, <2>2, FloorMonotone
  <2>4. h < Floor(h) + Precision(h) /\ Floor(h) \in Nat
    BY FloorBounds
  <2>5. Precision(h) \in Nat \ {0} /\ Precision(d) \in Nat \ {0}
    BY PrecisionDef
  <2> QED
    BY <1>6, <1>8, <1>9, <2>1, <2>3, <2>4, <2>5
<1>14. ASSUME s * Pow2[PrefixBits - 1] >= Expected * (Pow2[PrefixBits - 1] + 1)
       PROVE  Diff' > d \/ Diff' = lim
  <2>1. d >= MinDiff
    BY <1>2 DEF Add
  <2>2. PICK u \in Nat \ {0} : u = Precision(d)
    BY PrecisionDef
  <2>3. x >= d + u /\ Floor(d + u) = d + u
    BY <1>2, <1>5, <1>14, <2>1, <2>2, ScaledMoves
  <2>4. d + u \in Nat
    OBVIOUS
  <2>5. Floor(d + u) <= Floor(x)
    BY <2>3, <2>4, FloorMonotone
  <2> QED
    BY <1>8, <1>9, <2>3, <2>5
<1> QED
  BY <1>2, <1>3, <1>4, <1>11, <1>12, <1>13, <1>14

\* No block that is added breaks the invariant.
LEMMA NextInv == Inv /\ [Next]_vars => Inv'
<1> SUFFICES ASSUME Inv, [Next]_vars PROVE Inv'
  OBVIOUS
<1>1. CASE UNCHANGED vars
  BY <1>1 DEF Inv, TypeOK, WithinLimit, Diff, vars
<1>2. ASSUME NEW gap \in 0 .. MaxGap, Add(gap) PROVE Inv'
  <2>1. gap \in Nat /\ TypeOK
    BY DifficultyAssumption DEF Inv
  <2> QED
    BY <1>2, <2>1, AddTypes, AddWithinLimit DEF Inv
<1> QED
  BY <1>1, <1>2 DEF Next

\* No block is easier than the limit, and the target of a header is the only
\* one for its difficulty, with whatever prefix, window, weights and limit:
\* the nodes that compare targets compare difficulties (CalculateTarget,
\* DiffToTarget).
THEOREM TargetsWithinLimit == Spec => []WithinLimit
<1>1. Inv => WithinLimit
  BY DEF Inv
<1> QED
  BY <1>1, InitInv, NextInv, PTL DEF Spec

\* With all the rounding, faster blocks never make the next one easier, slower
\* ones never make it harder, one block at most halves the difficulty, and an
\* average that is off by one unit of the prefix moves it (CalculateTarget).
THEOREM RateIsFollowed == Spec => FollowsRate
<1> DEFINE A == Adjusting =>
       /\ PastSlowness <= Expected => Diff' <= Diff
       /\ PastSlowness >= Expected => Diff' >= Diff
       /\ Diff' + Precision(Diff) > Diff \div 2
       /\ PastSlowness * Pow2[PrefixBits - 1] >= Expected * (Pow2[PrefixBits - 1] + 1)
            => Diff' > Diff \/ Diff' = BlockDifficultyLimit
<1>1. Inv /\ [Next]_vars => [A]_vars
  <2> SUFFICES ASSUME Inv, NEW gap \in 0 .. MaxGap, Add(gap) PROVE A
    BY DEF Next
  <2>1. gap \in Nat
    BY DifficultyAssumption
  <2> QED
    BY <2>1, AddFollowsRate
<1>2. [][A]_vars => FollowsRate
  BY PTL DEF FollowsRate
<1> HIDE DEF A
<1> QED
  BY <1>1, <1>2, InitInv, NextInv, PTL DEF Spec
=============================================================================
