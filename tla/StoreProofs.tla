---------------------------- MODULE StoreProofs -----------------------------
(***************************************************************************)
(* Proofs about Store, for every tree of blocks, every assignment of       *)
(* evidence and accounts, and stops at any moment.                         *)
(*                                                                         *)
(* First, the merkle root over the evidence of a block is that of the tree *)
(* (RootOfTree): by induction over the passes, a node of level l is the    *)
(* root over the 2^l leafs from its place on.                              *)
(*                                                                         *)
(* PutBlock writes a dozen kinds of keys in one transaction. The argument  *)
(* has two halves. The first says what a transaction writes (BlockWrites,  *)
(* WrittenKeys): the keys of schema.go never meet. The second says what a  *)
(* database with n blocks looks like (Holds) and that the transaction of a *)
(* block of height n + 1 makes it one with n + 1 blocks (Grows).           *)
(***************************************************************************)
EXTENDS Store, Iteration, FiniteSetTheorems, SequenceTheorems

-----------------------------------------------------------------------------
(* The merkle root *)

\* The k-th node of the next level.
Node(A, k) ==
  IF 2 * k <= Len(A) THEN HashOfTwo(A[2*k - 1], A[2*k]) ELSE A[2*k - 1]

\* A pass gives the nodes of the next level although it overwrites the array
\* it reads from: what it reads lies behind what it has written.
LEMMA PassNodes ==
  ASSUME NEW n \in Nat, NEW A, DOMAIN A = 1 .. n, Len(A) = n, A = [i \in 1 .. n |-> A[i]]
  PROVE  /\ DOMAIN Pass(A) = 1 .. Ceil2(n) /\ Len(Pass(A)) = Ceil2(n)
         /\ Pass(A) = [i \in 1 .. Ceil2(n) |-> Pass(A)[i]]
         /\ \A i \in 1 .. Ceil2(n) : Pass(A)[i] = Node(A, i)
<1> DEFINE c == Ceil2(n)
           D(f) == f = [k \in 0 .. c |-> IF k = 0 THEN A ELSE Overwrite(f[k-1], k, n)]
           closed == [k \in 0 .. c |-> [i \in 1 .. n |-> IF i <= k THEN Node(A, i) ELSE A[i]]]
           after == CHOOSE f : D(f)
<1>1. c \in Nat /\ c <= n /\ \A k \in 1 .. c : 2 * k - 1 <= n
  BY DEF Ceil2
<1> HIDE DEF c
\* One step on an array whose first k - 1 nodes are written.
<1>2. ASSUME NEW k \in 1 .. c
      PROVE  Overwrite(closed[k-1], k, n) = closed[k]
  <2>1. k \in 1 .. n /\ k - 1 \in 0 .. c /\ k \in 0 .. c /\ 2 * k - 1 \in 1 .. n /\ ~(2 * k - 1 <= k - 1)
    BY <1>1
  <2> DEFINE B == closed[k-1]
  <2>2. B = [i \in 1 .. n |-> IF i <= k - 1 THEN Node(A, i) ELSE A[i]]
    BY <2>1
  <2>3. B[2*k - 1] = A[2*k - 1]
    BY <2>1, <2>2
  <2>4. ASSUME 2 * k <= n PROVE B[2*k] = A[2*k]
    <3>1. 2 * k \in 1 .. n /\ ~(2 * k <= k - 1)
      BY <2>1, <2>4
    <3> QED
      BY <2>2, <3>1
  <2>5. (IF 2 * k <= n THEN HashOfTwo(B[2*k - 1], B[2*k]) ELSE B[2*k - 1]) = Node(A, k)
    BY <2>3, <2>4 DEF Node
  <2> HIDE DEF B
  <2>6. Overwrite(B, k, n) = [B EXCEPT ![k] = Node(A, k)]
    BY <2>5 DEF Overwrite
  <2>7. [B EXCEPT ![k] = Node(A, k)] = [i \in 1 .. n |-> IF i = k THEN Node(A, k) ELSE B[i]]
    BY <2>1, <2>2
  <2>8. \A i \in 1 .. n : (IF i = k THEN Node(A, k) ELSE B[i]) = (IF i <= k THEN Node(A, i) ELSE A[i])
    <3> SUFFICES ASSUME NEW i \in 1 .. n
                 PROVE  (IF i = k THEN Node(A, k) ELSE B[i]) = (IF i <= k THEN Node(A, i) ELSE A[i])
      OBVIOUS
    <3>1. CASE i = k
      BY <2>1, <3>1
    <3>2. CASE i < k
      <4>1. i <= k - 1 /\ i # k /\ i <= k
        BY <2>1, <3>2
      <4> QED
        BY <2>2, <4>1
    <3>3. CASE i > k
      <4>1. ~(i <= k - 1) /\ i # k /\ ~(i <= k)
        BY <2>1, <3>3
      <4> QED
        BY <2>2, <4>1
    <3> QED
      BY <2>1, <3>1, <3>2, <3>3
  <2>9. closed[k] = [i \in 1 .. n |-> IF i <= k THEN Node(A, i) ELSE A[i]]
    BY <2>1
  <2>10. Overwrite(B, k, n) = closed[k]
    BY <2>6, <2>7, <2>8, <2>9
  <2> QED
    BY <2>10 DEF B
<1>3. closed[0] = A
  <2>1. 0 \in 0 .. c
    BY <1>1
  <2>2. closed[0] = [i \in 1 .. n |-> IF i <= 0 THEN Node(A, i) ELSE A[i]]
    BY <2>1
  <2>3. \A i \in 1 .. n : ~(i <= 0)
    OBVIOUS
  <2>4. closed[0] = [i \in 1 .. n |-> A[i]]
    BY <2>2, <2>3
  <2> QED
    BY <2>4
<1> HIDE DEF closed
<1>4. D(closed)
  <2>1. ASSUME NEW k \in 0 .. c
        PROVE  closed[k] = IF k = 0 THEN A ELSE Overwrite(closed[k-1], k, n)
    <3>1. CASE k = 0
      BY <1>3, <3>1
    <3>2. CASE k # 0
      <4>1. k \in 1 .. c
        BY <1>1, <3>2
      <4> QED
        BY <1>2, <3>2, <4>1
    <3> QED
      BY <3>1, <3>2
  <2>2. closed = [k \in 0 .. c |-> closed[k]]
    BY DEF closed
  <2> QED
    BY <2>1, <2>2
<1>5. D(after)
  <2> HIDE DEF D
  <2> QED
    BY <1>4
<1> HIDE DEF after
<1> DEFINE T == {k \in Nat : k <= c => after[k] = closed[k]}
<1>6. Nat \subseteq T
  <2>0. \A k \in 0 .. c : after[k] = IF k = 0 THEN A ELSE Overwrite(after[k-1], k, n)
    BY <1>5
  <2>1. 0 \in T
    BY <1>1, <1>3, <2>0
  <2>2. ASSUME NEW k \in Nat, k \in T PROVE k + 1 \in T
    <3>1. CASE k + 1 <= c
      <4>1. k + 1 \in 0 .. c /\ k + 1 # 0 /\ (k + 1) - 1 = k /\ k <= c /\ k + 1 \in 1 .. c
        BY <1>1, <3>1
      <4>2. after[k + 1] = Overwrite(after[k], k + 1, n)
        BY <2>0, <4>1
      <4>3. Overwrite(closed[(k + 1) - 1], k + 1, n) = closed[k + 1]
        BY <1>2, <4>1
      <4> QED
        BY <2>2, <4>1, <4>2, <4>3
    <3> QED
      BY <3>1
  <2> HIDE DEF T
  <2> QED
    BY <2>1, <2>2, SetInduction
<1>7. after[c] = closed[c]
  BY <1>1, <1>6
<1>8. Pass(A) = [i \in 1 .. c |-> after[c][i]]
  BY DEF Pass, after, c
<1>9. \A i \in 1 .. c : closed[c][i] = Node(A, i)
  <2>1. c \in 0 .. c
    BY <1>1
  <2>2. closed[c] = [i \in 1 .. n |-> IF i <= c THEN Node(A, i) ELSE A[i]]
    BY <2>1 DEF closed
  <2>3. \A i \in 1 .. c : i \in 1 .. n /\ i <= c
    BY <1>1
  <2> QED
    BY <2>2, <2>3
<1>10. /\ DOMAIN Pass(A) = 1 .. c
       /\ Pass(A) = [i \in 1 .. c |-> Pass(A)[i]]
       /\ \A i \in 1 .. c : Pass(A)[i] = Node(A, i)
  BY <1>7, <1>8, <1>9
<1>11. Len(Pass(A)) = c
  BY <1>1, <1>8
<1> QED
  BY <1>10, <1>11 DEF c

\* The left part of a tree is complete and leaves something to its right.
LEMMA CutDef ==
  ASSUME NEW n \in Nat, n > 1
  PROVE  /\ Cut(n) \in Nat \ {0} /\ Cut(n) < n /\ n - Cut(n) <= Cut(n)
         /\ \A q \in Nat : Cut(n) = Pow2[q] <=> (Pow2[q] < n /\ n <= 2 * Pow2[q])
<1> DEFINE Halves(m) == m < n /\ n <= 2 * m
           S == {Pow2[k] : k \in 0 .. n}
<1>1. PICK k \in 1 .. n - 1 : Pow2[k-1] <= n - 1 /\ n - 1 < Pow2[k]
  <2>1. n - 1 \in Nat /\ n - 1 > 0
    OBVIOUS
  <2> QED
    BY <2>1, Pow2Between
<1>2. PICK j \in Nat : k = j + 1 /\ k - 1 = j
  OBVIOUS
<1>3. Pow2[j] \in Nat \ {0} /\ Pow2[k] = 2 * Pow2[j]
  BY <1>2, Pow2Def
<1>4. Halves(Pow2[j]) /\ j \in 0 .. n
  BY <1>1, <1>2, <1>3
<1>5. Cut(n) \in S /\ Halves(Cut(n))
  BY <1>4 DEF Cut
<1>6. PICK i \in Nat : Cut(n) = Pow2[i]
  BY <1>5
<1>7. Pow2[i] \in Nat \ {0}
  BY Pow2Def
<1>8. ASSUME NEW q \in Nat, Pow2[q] < n, n <= 2 * Pow2[q] PROVE Cut(n) = Pow2[q]
  <2>1. PICK m \in Nat : m = n - 1
    OBVIOUS
  <2>2. Pow2[q] \in Nat /\ Pow2[q + 1] = 2 * Pow2[q] /\ Pow2[i + 1] = 2 * Pow2[i]
    BY Pow2Def
  <2>3. Pow2[q] <= m /\ m < Pow2[q + 1] /\ Pow2[i] <= m /\ m < Pow2[i + 1]
    BY <1>5, <1>6, <1>7, <1>8, <2>1, <2>2
  <2>4. q = i
    BY <2>3, Pow2Unique
  <2> QED
    BY <1>6, <2>4
<1> QED
  BY <1>5, <1>6, <1>7, <1>8

\* The roots of all trees over n leafs in a row, for n up to m.
IsTrees(r, L, m) ==
  r = [n \in 1 .. m |->
         [i \in 1 .. Len(L) - n + 1 |->
            IF n = 1 THEN L[i] ELSE HashOfTwo(r[Cut(n)][i], r[n - Cut(n)][i + Cut(n)])]]

\* These roots exist.
LEMMA TreesExist ==
  ASSUME NEW L, Len(L) \in Nat
  PROVE  \A m \in Nat : \E r : IsTrees(r, L, m)
<1> DEFINE T == {m \in Nat : \E r : IsTrees(r, L, m)}
           Body(r, n) == [i \in 1 .. Len(L) - n + 1 |->
                            IF n = 1 THEN L[i]
                            ELSE HashOfTwo(r[Cut(n)][i], r[n - Cut(n)][i + Cut(n)])]
<1>1. 0 \in T
  <2>1. IsTrees([n \in 1 .. 0 |-> 0], L, 0)
    BY DEF IsTrees
  <2> QED
    BY <2>1
<1>2. ASSUME NEW m \in Nat, m \in T PROVE m + 1 \in T
  <2>1. PICK r : IsTrees(r, L, m)
    BY <1>2
  <2>2. r = [n \in 1 .. m |-> Body(r, n)]
    BY <2>1 DEF IsTrees
  <2> DEFINE s == [n \in 1 .. m + 1 |-> IF n <= m THEN r[n] ELSE Body(r, n)]
  <2>3. \A n \in 1 .. m : s[n] = r[n]
    OBVIOUS
  <2>4. ASSUME NEW n \in 1 .. m + 1 PROVE Body(s, n) = Body(r, n)
    <3>1. CASE n = 1
      BY <3>1
    <3>2. CASE n # 1
      <4>1. n \in Nat /\ n > 1
        BY <3>2
      <4>2. Cut(n) \in 1 .. m /\ n - Cut(n) \in 1 .. m
        BY <4>1, CutDef
      <4>3. s[Cut(n)] = r[Cut(n)] /\ s[n - Cut(n)] = r[n - Cut(n)]
        BY <2>3, <4>2
      <4> HIDE DEF s
      <4> QED
        BY <4>3
    <3> QED
      BY <3>1, <3>2
  <2>5. ASSUME NEW n \in 1 .. m + 1 PROVE s[n] = Body(s, n)
    <3>1. CASE n <= m
      <4>1. n \in 1 .. m
        BY <3>1
      <4>2. r[n] = Body(r, n)
        BY <2>2, <4>1
      <4>3. s[n] = r[n]
        BY <2>3, <4>1
      <4> HIDE DEF s, Body
      <4> QED
        BY <2>4, <4>2, <4>3
    <3>2. CASE ~(n <= m)
      <4>1. s[n] = Body(r, n)
        BY <3>2
      <4> HIDE DEF s, Body
      <4> QED
        BY <2>4, <4>1
    <3> QED
      BY <3>1, <3>2
  <2>6. s = [n \in 1 .. m + 1 |-> Body(s, n)]
    <3>1. s = [n \in 1 .. m + 1 |-> s[n]]
      OBVIOUS
    <3> HIDE DEF s, Body
    <3> QED
      BY <2>5, <3>1
  <2>7. IsTrees(s, L, m + 1)
    <3> HIDE DEF s
    <3> QED
      BY <2>6 DEF IsTrees
  <2> HIDE DEF s
  <2> QED
    BY <2>7
<1> HIDE DEF T
<1>3. Nat \subseteq T
  BY <1>1, <1>2, SetInduction
<1> QED
  BY <1>3 DEF T

\* A root is that of its two parts.
LEMMA TreeParts ==
  ASSUME NEW L, NEW N \in Nat, Len(L) = N, NEW r, IsTrees(r, L, N),
         NEW n \in 1 .. N, NEW i \in 1 .. N - n + 1
  PROVE  r[n][i] = IF n = 1 THEN L[i] ELSE HashOfTwo(r[Cut(n)][i], r[n - Cut(n)][i + Cut(n)])
<1>1. r[n] = [j \in 1 .. N - n + 1 |->
                IF n = 1 THEN L[j] ELSE HashOfTwo(r[Cut(n)][j], r[n - Cut(n)][j + Cut(n)])]
  BY DEF IsTrees
<1> QED
  BY <1>1

\* What A holds after l passes over N leafs: A[i] is the root over the i-th
\* run of 2^l leafs, the last of which may be shorter.
IsLevel(A, q, N, r) ==
  LET M == Len(A)
  IN  /\ M \in Nat \ {0} /\ DOMAIN A = 1 .. M /\ A = [i \in 1 .. M |-> A[i]]
      /\ (M - 1) * q < N /\ N <= M * q
      /\ \A i \in 1 .. M :
           A[i] = r[IF i * q <= N THEN q ELSE N - (i - 1) * q][(i - 1) * q + 1]

\* A pass leads to the next level.
LEMMA PassLevel ==
  ASSUME NEW L, NEW N \in Nat \ {0}, Len(L) = N, NEW r, IsTrees(r, L, N),
         NEW l \in Nat, NEW A, IsLevel(A, Pow2[l], N, r)
  PROVE  IsLevel(Pass(A), Pow2[l + 1], N, r)
<1>1. PICK q \in Nat \ {0} : q = Pow2[l]
  BY Pow2Def
<1>2. Pow2[l + 1] = 2 * q
  BY <1>1, Pow2Def
<1>3. PICK M \in Nat \ {0} :
        /\ M = Len(A) /\ DOMAIN A = 1 .. M /\ A = [i \in 1 .. M |-> A[i]]
        /\ (M - 1) * q < N /\ N <= M * q
        /\ \A i \in 1 .. M :
             A[i] = r[IF i * q <= N THEN q ELSE N - (i - 1) * q][(i - 1) * q + 1]
  BY <1>1 DEF IsLevel
<1>4. PICK c \in Nat \ {0} : c = Ceil2(M) /\ (M = 2 * c \/ M = 2 * c - 1)
  <2>1. Ceil2(M) \in Nat \ {0} /\ (M = 2 * Ceil2(M) \/ M = 2 * Ceil2(M) - 1)
    BY DEF Ceil2
  <2> QED
    BY <2>1
<1>5. /\ DOMAIN Pass(A) = 1 .. c /\ Len(Pass(A)) = c
      /\ Pass(A) = [i \in 1 .. c |-> Pass(A)[i]]
      /\ \A i \in 1 .. c : Pass(A)[i] = Node(A, i)
  BY <1>3, <1>4, PassNodes, ZenonT(60)
<1>6. PICK Mq \in Nat : Mq = M * q /\ (M - 1) * q = Mq - q
  <2>1. M * q \in Nat /\ (M - 1) * q = M * q - q
    OBVIOUS
  <2> QED
    BY <2>1
<1>7. (c - 1) * (2 * q) < N /\ N <= c * (2 * q)
  <2>1. (M - 1) * q < N /\ N <= M * q
    BY <1>3
  <2> QED
    BY <1>4, <2>1, PairedRuns
<1>8. ASSUME NEW i \in 1 .. c
      PROVE  Pass(A)[i] =
               r[IF i * (2 * q) <= N THEN 2 * q ELSE N - (i - 1) * (2 * q)][(i - 1) * (2 * q) + 1]
  <2>1. Pass(A)[i] = Node(A, i)
    BY <1>5
  \* x: the leafs before the i-th run
  <2>2. PICK x \in Nat : x = (i - 1) * (2 * q)
    OBVIOUS
  <2>3. /\ i * (2 * q) = x + 2 * q
        /\ ((2 * i - 1) - 1) * q = x /\ (2 * i - 1) * q = x + q
        /\ (2 * i - 1) * q = x + q /\ (2 * i) * q = x + 2 * q
    BY <2>2
  <2>4. 2 * i - 1 \in 1 .. M
    BY <1>4
  <2>5. A[2 * i - 1] = r[IF x + q <= N THEN q ELSE N - x][x + 1]
    <3>1. A[2 * i - 1] = r[IF (2 * i - 1) * q <= N THEN q ELSE N - ((2 * i - 1) - 1) * q]
                          [((2 * i - 1) - 1) * q + 1]
      BY <1>3, <2>4
    <3> QED
      BY <2>3, <3>1
  <2>6. CASE 2 * i <= M
    <3>1. 2 * i \in 1 .. M /\ (2 * i) - 1 = 2 * i - 1
      BY <2>6
    \* the left one is complete, the right one is not empty
    <3>2. x + q < N
      <4>1. (2 * i - 1) * q <= (M - 1) * q
        <5>1. PICK d \in Nat : M - 1 = (2 * i - 1) + d
          BY <3>1
        <5>2. (M - 1) * q = (2 * i - 1) * q + d * q /\ d * q \in Nat
          BY <5>1
        <5> QED
          BY <2>3, <5>2
      <4>2. (M - 1) * q < N
        BY <1>3
      <4> QED
        BY <1>6, <2>3, <4>1, <4>2
    <3>3. A[2 * i - 1] = r[q][x + 1]
      BY <2>5, <3>2
    <3>4. PICK w \in Nat \ {0} : w = IF x + 2 * q <= N THEN q ELSE N - (x + q)
      <4>1. N - (x + q) \in Nat \ {0}
        BY <3>2
      <4> QED
        BY <4>1
    <3>5. A[2 * i] = r[w][x + q + 1]
      <4>1. A[2 * i] = r[IF (2 * i) * q <= N THEN q ELSE N - ((2 * i) - 1) * q]
                        [((2 * i) - 1) * q + 1]
        BY <1>3, <3>1
      <4> QED
        BY <2>3, <3>4, <4>1
    <3>6. PICK v \in Nat : v = q + w /\ v = IF x + 2 * q <= N THEN 2 * q ELSE N - x
      <4>1. q + w \in Nat /\ q + w = IF x + 2 * q <= N THEN 2 * q ELSE N - x
        BY <3>2, <3>4
      <4> QED
        BY <4>1
    <3>7. v > 1 /\ Cut(v) = q
      <4>1. v > 1 /\ q < v /\ v <= 2 * q
        BY <3>4, <3>6
      <4> QED
        BY <1>1, <4>1, CutDef
    <3>8. v \in 1 .. N /\ x + 1 \in 1 .. N - v + 1
      BY <3>2, <3>4, <3>6
    <3>9. r[v] = [j \in 1 .. N - v + 1 |->
                    IF v = 1 THEN L[j] ELSE HashOfTwo(r[Cut(v)][j], r[v - Cut(v)][j + Cut(v)])]
      BY <3>8 DEF IsTrees
    <3>10. r[v][x + 1] = HashOfTwo(r[q][x + 1], r[v - q][x + 1 + q])
      BY <3>7, <3>8, <3>9
    <3>11. v - q = w /\ x + 1 + q = x + q + 1
      BY <3>6
    <3>12. Node(A, i) = HashOfTwo(A[2 * i - 1], A[2 * i])
      BY <1>3, <2>6 DEF Node
    <3>13. Node(A, i) = r[v][x + 1]
      BY <3>3, <3>5, <3>10, <3>11, <3>12
    <3> QED
      BY <2>1, <2>2, <2>3, <3>6, <3>13
  <2>7. CASE ~(2 * i <= M)
    <3>1. M = 2 * i - 1
      BY <2>4, <2>7
    <3>2. N <= x + q
      BY <1>3, <2>3, <3>1
    <3>3. x < N
      BY <1>3, <2>3, <3>1
    <3>4. (IF x + q <= N THEN q ELSE N - x) = N - x
      BY <3>2, <3>3
    <3>5. (IF x + 2 * q <= N THEN 2 * q ELSE N - x) = N - x
      BY <3>2
    <3>6. Node(A, i) = A[2 * i - 1]
      BY <1>3, <2>7 DEF Node
    <3>7. Node(A, i) = r[N - x][x + 1]
      BY <2>5, <3>4, <3>6
    <3> QED
      BY <2>1, <2>2, <2>3, <3>5, <3>7
  <2> QED
    BY <2>6, <2>7
<1> QED
  BY <1>2, <1>5, <1>7, <1>8 DEF IsLevel

\* ComputeRoot gives the root of the tree, for every list of leafs.
LEMMA RootOfTree ==
  ASSUME NEW N \in Nat \ {0}, NEW L, DOMAIN L = 1 .. N, Len(L) = N, L = [i \in 1 .. N |-> L[i]]
  PROVE  /\ ComputeRoot(L) = TreeRoot(L)
         /\ N > 1 => \E x, y : ComputeRoot(L) = HashOfTwo(x, y)
         /\ N = 1 => ComputeRoot(L) = L[1]
<1> DEFINE r == CHOOSE f : IsTrees(f, L, N)
           After(A) == IF Len(A) = 1 THEN A ELSE Pass(A)
           D(f, m) == f = [i \in 0 .. m |-> IF i = 0 THEN L ELSE After(f[i-1])]
           harray == CHOOSE f : D(f, N)
           T == {m \in Nat : \E f : D(f, m)}
           G == {j \in Nat : j <= N =>
                   \E l \in Nat : /\ IsLevel(harray[j], Pow2[l], N, r)
                                  /\ Len(harray[j]) = 1 \/ l = j}
<1>1. IsTrees(r, L, N)
  BY TreesExist
<1>2. TreeRoot(L) = r[N][1]
  BY DEF TreeRoot, IsTrees
<1> HIDE DEF r
<1>3. Nat \subseteq T
  <2>1. 0 \in T
    <3>1. D([i \in 0 .. 0 |-> L], 0)
      OBVIOUS
    <3> QED
      BY <3>1
  <2>2. ASSUME NEW m \in Nat, m \in T PROVE m + 1 \in T
    <3>1. PICK f : D(f, m)
      BY <2>2
    <3> HIDE DEF After
    <3> DEFINE g == [i \in 0 .. m + 1 |-> IF i <= m THEN f[i] ELSE After(f[m])]
    <3>2. ASSUME NEW i \in 0 .. m + 1 PROVE g[i] = IF i = 0 THEN L ELSE After(g[i-1])
      <4>1. CASE i = 0
        BY <3>1, <4>1
      <4>2. CASE i # 0 /\ i <= m
        <5>1. i \in 0 .. m /\ i - 1 \in 0 .. m /\ i - 1 \in 0 .. m + 1 /\ i - 1 <= m
          BY <4>2
        <5>2. f[i] = After(f[i-1])
          BY <3>1, <4>2, <5>1
        <5>3. g[i] = f[i] /\ g[i-1] = f[i-1]
          BY <4>2, <5>1
        <5> HIDE DEF g
        <5> QED
          BY <4>2, <5>2, <5>3
      <4>3. CASE i = m + 1
        <5>1. i - 1 = m /\ m \in 0 .. m + 1 /\ m <= m /\ ~(i <= m) /\ i # 0
          BY <4>3
        <5>2. g[m] = f[m] /\ g[i] = After(f[m])
          BY <5>1
        <5> HIDE DEF g
        <5> QED
          BY <5>1, <5>2
      <4> QED
        BY <4>1, <4>2, <4>3
    <3>3. g = [i \in 0 .. m + 1 |-> g[i]]
      OBVIOUS
    <3> HIDE DEF g
    <3>4. D(g, m + 1)
      BY <3>2, <3>3
    <3> HIDE DEF D
    <3> QED
      BY <3>4
  <2> HIDE DEF T
  <2> QED
    BY <2>1, <2>2, SetInduction
<1>4. D(harray, N)
  <2>1. \E f : D(f, N)
    <3> HIDE DEF D
    <3> QED
      BY <1>3
  <2> HIDE DEF D
  <2> QED
    BY <2>1
<1>5. ComputeRoot(L) = harray[N][1]
  BY DEF ComputeRoot
<1> HIDE DEF harray
<1>6. /\ harray[0] = L
      /\ \A j \in Nat : j + 1 <= N => harray[j + 1] = After(harray[j])
  <2>0. \A i \in 0 .. N : harray[i] = IF i = 0 THEN L ELSE After(harray[i-1])
    <3> HIDE DEF After
    <3> QED
      BY <1>4
  <2>1. harray[0] = L
    BY <2>0
  <2>2. ASSUME NEW j \in Nat, j + 1 <= N PROVE harray[j + 1] = After(harray[j])
    <3>1. j + 1 \in 0 .. N /\ j + 1 # 0 /\ (j + 1) - 1 = j
      BY <2>2
    <3> HIDE DEF After
    <3> QED
      BY <2>0, <3>1
  <2> QED
    BY <2>1, <2>2
<1>7. IsLevel(L, Pow2[0], N, r)
  <2>1. Pow2[0] = 1
    BY Pow2Def
  <2>2. (N - 1) * 1 < N /\ N <= N * 1
    OBVIOUS
  <2>3. ASSUME NEW i \in 1 .. N
        PROVE  L[i] = r[IF i * 1 <= N THEN 1 ELSE N - (i - 1) * 1][(i - 1) * 1 + 1]
    <3>1. i * 1 <= N /\ (i - 1) * 1 + 1 = i /\ 1 \in 1 .. N /\ i \in 1 .. N - 1 + 1
      OBVIOUS
    <3>2. r[1] = [j \in 1 .. N - 1 + 1 |-> IF 1 = 1 THEN L[j]
                    ELSE HashOfTwo(r[Cut(1)][j], r[1 - Cut(1)][j + Cut(1)])]
      BY <1>1, <3>1 DEF IsTrees
    <3>3. r[1][i] = L[i]
      BY <3>1, <3>2
    <3> QED
      BY <3>1, <3>3
  <2> QED
    BY <2>1, <2>2, <2>3 DEF IsLevel
<1>8. Nat \subseteq G
  <2>1. 0 \in G
    BY <1>6, <1>7
  <2>2. ASSUME NEW j \in Nat, j \in G PROVE j + 1 \in G
    <3> SUFFICES ASSUME j + 1 <= N
                 PROVE  \E l \in Nat : /\ IsLevel(harray[j + 1], Pow2[l], N, r)
                                       /\ Len(harray[j + 1]) = 1 \/ l = j + 1
      OBVIOUS
    <3>1. PICK l \in Nat : IsLevel(harray[j], Pow2[l], N, r) /\ (Len(harray[j]) = 1 \/ l = j)
      BY <2>2
    <3>2. harray[j + 1] = IF Len(harray[j]) = 1 THEN harray[j] ELSE Pass(harray[j])
      BY <1>6
    <3>3. CASE Len(harray[j]) = 1
      BY <3>1, <3>2, <3>3
    <3>4. CASE Len(harray[j]) # 1
      <4>1. IsLevel(Pass(harray[j]), Pow2[l + 1], N, r)
        BY <1>1, <3>1, PassLevel
      <4> QED
        BY <3>1, <3>2, <3>4, <4>1
    <3> QED
      BY <3>3, <3>4
  <2> HIDE DEF G
  <2> QED
    BY <2>1, <2>2, SetInduction
<1>9. PICK l \in Nat : IsLevel(harray[N], Pow2[l], N, r) /\ (Len(harray[N]) = 1 \/ l = N)
  BY <1>8
<1>10. PICK q \in Nat \ {0} : q = Pow2[l]
  BY Pow2Def
<1>11. PICK M \in Nat \ {0} :
         /\ M = Len(harray[N]) /\ (M - 1) * q < N /\ N <= M * q
         /\ \A i \in 1 .. M :
              harray[N][i] = r[IF i * q <= N THEN q ELSE N - (i - 1) * q][(i - 1) * q + 1]
  BY <1>9, <1>10 DEF IsLevel
<1>12. M = 1
  <2>1. CASE l = N
    <3>1. N < q
      BY <1>10, <2>1, Pow2Larger
    <3>2. SUFFICES ASSUME M # 1 PROVE FALSE
      OBVIOUS
    <3>3. PICK d \in Nat : M - 1 = d + 1
      <4>1. M - 2 \in Nat /\ M - 1 = (M - 2) + 1
        BY <3>2
      <4> QED
        BY <4>1
    <3>4. PICK y \in Nat : (M - 1) * q = y /\ y = d * q + q /\ d * q \in Nat
      BY <3>3
    <3>5. y < N
      BY <1>11, <3>4
    <3> QED
      BY <3>1, <3>4, <3>5
  <2> QED
    BY <1>9, <1>11, <2>1
<1>13. harray[N][1] = r[N][1]
  <2>1. 1 \in 1 .. M /\ 1 * q = q /\ (1 - 1) * q = 0 /\ M * q = q
    BY <1>12
  <2>2. harray[N][1] = r[IF q <= N THEN q ELSE N - 0][0 + 1]
    BY <1>11, <2>1
  <2>3. N <= q
    BY <1>11, <2>1
  <2>4. (IF q <= N THEN q ELSE N - 0) = N /\ 0 + 1 = 1
    BY <2>3
  <2> QED
    BY <2>2, <2>4
<1>14. r[N][1] = IF N = 1 THEN L[1] ELSE HashOfTwo(r[Cut(N)][1], r[N - Cut(N)][1 + Cut(N)])
  <2>1. N \in 1 .. N /\ 1 \in 1 .. N - N + 1
    OBVIOUS
  <2> QED
    BY <1>1, <2>1, TreeParts
<1>15. N > 1 => \E x, y : r[N][1] = HashOfTwo(x, y)
  BY <1>14
<1>16. N = 1 => r[N][1] = L[1]
  BY <1>14
<1> QED
  BY <1>2, <1>5, <1>13, <1>15, <1>16

\* Whatever the hashes of the evidence and however many there are, also an odd
\* number on any level, the array that is overwritten pass by pass
\* (ComputeRoot, merkle.go) ends with the root of the tree over them.
THEOREM MerkleRootOfTree ==
  ASSUME NEW S, NEW L \in Seq(S), L # <<>>
  PROVE  ComputeRoot(L) = TreeRoot(L)
<1>1. Len(L) \in Nat \ {0} /\ DOMAIN L = 1 .. Len(L) /\ L = [i \in 1 .. Len(L) |-> L[i]]
  OBVIOUS
<1> QED
  BY ONLY <1>1, RootOfTree

\* The same for a list of evidence, whose leafs are not hashes of two.
LEMMA RootIsTree ==
  ASSUME NEW S, NEW evds \in Seq(S), evds # <<>>
  PROVE  /\ Root(evds) = TreeRoot([i \in DOMAIN evds |-> Leaf(evds[i])])
         /\ Root(evds) # EmptyEvidenceRoot
<1> DEFINE L == [i \in DOMAIN evds |-> Leaf(evds[i])]
<1>1. PICK N \in Nat \ {0} : Len(evds) = N /\ DOMAIN evds = 1 .. N
  <2>1. Len(evds) \in Nat \ {0} /\ DOMAIN evds = 1 .. Len(evds)
    BY EmptySeq, LenProperties
  <2> QED
    BY <2>1
<1>2. L = [i \in 1 .. N |-> L[i]] /\ DOMAIN L = 1 .. N /\ L[1] = Leaf(evds[1])
  BY <1>1
<1>3. Len(L) = N
  BY <1>1
<1>4. Root(evds) = ComputeRoot(L)
  BY DEF Root
<1> HIDE DEF L
<1>5. /\ ComputeRoot(L) = TreeRoot(L)
      /\ N > 1 => \E x, y : ComputeRoot(L) = HashOfTwo(x, y)
      /\ N = 1 => ComputeRoot(L) = L[1]
  BY <1>2, <1>3, RootOfTree
<1>6. \A x, y : HashOfTwo(x, y) # <<>> /\ Leaf(x) # <<>>
  BY DEF HashOfTwo, Leaf
<1>7. ComputeRoot(L) # <<>>
  <2>1. CASE N = 1
    BY <1>2, <1>5, <1>6, <2>1
  <2>2. CASE N > 1
    BY <1>5, <1>6, <2>2
  <2> QED
    BY <2>1, <2>2
<1> QED
  BY <1>4, <1>5, <1>7 DEF L, EmptyEvidenceRoot

\* No list of evidence has the root of the empty list: a block whose header
\* has that root has no evidence (badger.go PutBlock, getCPBlock).
LEMMA Rooted == \A h \in Hash : EmptyRoot(h) => Evds[h] = <<>>
<1> SUFFICES ASSUME NEW h \in Hash, Evds[h] # <<>> PROVE ~EmptyRoot(h)
  OBVIOUS
<1>1. Evds[h] \in Seq(Evidence)
  BY StoreAssumption
<1> QED
  BY <1>1, RootIsTree DEF EmptyRoot

-----------------------------------------------------------------------------
(* The database *)

\* The block that f, a state of the database, has at a height.
At(f, i) == f[hashKey(i)]

\* Heights 1 to n are taken, each by a block of that height.
Heighted(f, n) ==
  /\ \A i \in Heights \cup 1 .. n : hashKey(i) \in DOMAIN f <=> i \in 1 .. n
  /\ \A i \in 1 .. n : At(f, i) \in Hash /\ Depth[At(f, i)] = i
  /\ n > 0 => At(f, 1) = Genesis

\* A hash leads to the height at which the block is, and to no other.
Indexed(f, n) ==
  /\ \A i \in 1 .. n : headerHeightKey(At(f, i)) \in DOMAIN f
  /\ \A h \in Hash : headerHeightKey(h) \in DOMAIN f =>
       /\ f[headerHeightKey(h)] = Depth[h]
       /\ Depth[h] \in 1 .. n /\ At(f, Depth[h]) = h

Header(h, d) == [hash |-> h, height |-> d, root |-> Root(Evds[h])]

\* Nothing of a stored block is missing.
Contents(f, n) ==
  \A i \in 1 .. n :
    /\ headerKey(i, At(f, i)) \in DOMAIN f
    /\ f[headerKey(i, At(f, i))] = Header(At(f, i), i)
    /\ ~EmptyRoot(At(f, i)) => /\ blockKey(i, At(f, i)) \in DOMAIN f
                               /\ f[blockKey(i, At(f, i))] = Evds[At(f, i)]
    /\ \A e \in EvdsOf(At(f, i)) :
         /\ evidenceKey(i, e) \in DOMAIN f /\ f[evidenceKey(i, e)] = e
         /\ evidenceHeightKey(e) \in DOMAIN f
         /\ accountEvidenceKey(PubKey[e], e) \in DOMAIN f

\* The height that is stored with an evidence is one of a block that has it.
EvidenceIndex(f, n) ==
  \A e \in Evidence :
    /\ evidenceHeightKey(e) \in DOMAIN f =>
         LET i == f[evidenceHeightKey(e)] IN i \in 1 .. n /\ e \in EvdsOf(At(f, i))
    /\ \A a \in Account : accountEvidenceKey(a, e) \in DOMAIN f =>
         LET i == f[accountEvidenceKey(a, e)]
         IN  i \in 1 .. n /\ e \in EvdsOf(At(f, i)) /\ a = PubKey[e]

\* What the iterator over an account's prefix meets are entries of evidence.
Prefixed(f) ==
  \A k \in DOMAIN f :
    Len(k) = 3 /\ k[1] \in Account /\ k[2] = "e" =>
      k[3] \in Evidence /\ k = accountEvidenceKey(k[1], k[3])

\* A point for every block mined.
Mined(f, n, a) == {i \in 1 .. n : Miner[At(f, i)] = a}
Score(f, a) == IF scoreKey(a) \in DOMAIN f THEN f[scoreKey(a)] ELSE 0
Scores(f, n) == \A a \in Account : Score(f, a) = Cardinality(Mined(f, n, a))

\* A database with n blocks.
Holds(f, n) ==
  /\ Heighted(f, n) /\ Indexed(f, n) /\ Contents(f, n)
  /\ EvidenceIndex(f, n) /\ Prefixed(f) /\ Scores(f, n)

\* The block that has passed the check of its height is the next one and the
\* child of the last one, until it is put.
Pending ==
  putting # NoHash =>
    /\ HasGenesis /\ putting \in Hash \ {Genesis}
    /\ Depth[putting] = kv[mLatestHeight] + 1
    /\ Parent[putting] = At(kv, kv[mLatestHeight])

Stored ==
  IF HasGenesis
  THEN /\ Has(mLatestHeight) /\ kv[mLatestHeight] \in Nat \ {0}
       /\ Holds(kv, kv[mLatestHeight])
  ELSE DOMAIN kv = {} /\ query = NoQuery

StoreInv == Stored /\ Pending

-----------------------------------------------------------------------------
(* Keys and transactions *)

\* A transaction sets its own keys and leaves the others alone.
LEMMA SetDomain ==
  ASSUME NEW old, NEW new
  PROVE  DOMAIN Set(old, new) = DOMAIN old \cup DOMAIN new
BY DEF Set

\* A transaction that sets a key makes it readable.
LEMMA SetNew ==
  ASSUME NEW old, NEW new, NEW k \in DOMAIN new
  PROVE  Set(old, new)[k] = new[k]
BY DEF Set

\* A transaction leaves the other keys alone.
LEMMA SetOld ==
  ASSUME NEW old, NEW new, NEW k \in DOMAIN old, k \notin DOMAIN new
  PROVE  Set(old, new)[k] = old[k]
BY DEF Set

\* What putEvidenceTX sets, for a block with evidence and for one without.
EvidencePart(h, d) == IF EmptyRoot(h) THEN <<>> ELSE putEvidenceTX(h, d)

EvidenceWritten(h, d) ==
  /\ DOMAIN EvidencePart(h, d) =
       {evidenceKey(d, e) : e \in EvdsOf(h)}
         \cup {evidenceHeightKey(e) : e \in EvdsOf(h)}
         \cup {accountEvidenceKey(PubKey[e], e) : e \in EvdsOf(h)}
         \cup {k \in {blockKey(d, h)} : ~EmptyRoot(h)}
  /\ \A e \in EvdsOf(h) :
       /\ EvidencePart(h, d)[evidenceKey(d, e)] = e
       /\ EvidencePart(h, d)[evidenceHeightKey(e)] = d
       /\ EvidencePart(h, d)[accountEvidenceKey(PubKey[e], e)] = d
  /\ ~EmptyRoot(h) => EvidencePart(h, d)[blockKey(d, h)] = Evds[h]
  /\ EvdsOf(h) \subseteq Evidence

\* putEvidenceTX sets the two keys of each evidence, and no other.
LEMMA EvidenceWrites ==
  ASSUME NEW h \in Hash, NEW d
  PROVE  EvidenceWritten(h, d)
<1>1. Evds[h] \in Seq(Evidence)
  BY StoreAssumption
<1>2. EvdsOf(h) \subseteq Evidence
  BY <1>1 DEF EvdsOf
<1>3. \A e \in EvdsOf(h) : PubKey[e] \in Account
  BY <1>2 DEF Account
<1>4. CASE EmptyRoot(h)
  <2>1. Evds[h] = <<>>
    BY <1>4, Rooted
  <2>2. EvdsOf(h) = {} /\ EvidencePart(h, d) = <<>>
    BY <1>4, <2>1 DEF EvdsOf, EvidencePart
  <2> QED
    BY <1>4, <2>2 DEF EvidenceWritten
<1>5. CASE ~EmptyRoot(h)
  <2> DEFINE A == [k \in {evidenceKey(d, e) : e \in EvdsOf(h)} |-> k[3]]
             B == [k \in {evidenceHeightKey(e) : e \in EvdsOf(h)} |-> d]
             C == [k \in {accountEvidenceKey(PubKey[e], e) : e \in EvdsOf(h)} |-> d]
             D == [k \in {blockKey(d, h)} |-> Evds[h]]
  <2>1. EvidencePart(h, d) = Set(A, Set(B, Set(C, D)))
    BY <1>5 DEF EvidencePart, putEvidenceTX
  <2>2. \A e \in EvdsOf(h) : evidenceKey(d, e)[3] = e
    BY DEF evidenceKey
  <2>3. /\ DOMAIN A = {evidenceKey(d, e) : e \in EvdsOf(h)}
        /\ \A e \in EvdsOf(h) : A[evidenceKey(d, e)] = e
    BY <2>2
  <2>4. /\ DOMAIN B = {evidenceHeightKey(e) : e \in EvdsOf(h)}
        /\ \A k \in DOMAIN B : B[k] = d
    OBVIOUS
  <2>5. /\ DOMAIN C = {accountEvidenceKey(PubKey[e], e) : e \in EvdsOf(h)}
        /\ \A k \in DOMAIN C : C[k] = d
    OBVIOUS
  <2>6. DOMAIN D = {blockKey(d, h)} /\ D[blockKey(d, h)] = Evds[h]
    OBVIOUS
  <2> HIDE DEF A, B, C, D
  <2>7. \A e \in EvdsOf(h) :
           /\ evidenceKey(d, e) \notin DOMAIN B \cup DOMAIN C \cup DOMAIN D
           /\ evidenceHeightKey(e) \notin DOMAIN C \cup DOMAIN D
           /\ accountEvidenceKey(PubKey[e], e) \notin DOMAIN D
    BY <1>3, <2>4, <2>5, <2>6, Symbols
       DEF blockKey, evidenceKey, evidenceHeightKey, accountEvidenceKey
  <2> DEFINE CD == Set(C, D)
             BCD == Set(B, CD)
  <2>8. DOMAIN CD = DOMAIN C \cup DOMAIN D
    BY SetDomain
  <2>9. DOMAIN BCD = DOMAIN B \cup DOMAIN CD
    BY SetDomain
  <2>10. DOMAIN EvidencePart(h, d) = DOMAIN A \cup DOMAIN BCD
    BY <2>1, SetDomain
  <2>11. ASSUME NEW e \in EvdsOf(h)
         PROVE  /\ EvidencePart(h, d)[evidenceKey(d, e)] = e
                /\ EvidencePart(h, d)[evidenceHeightKey(e)] = d
                /\ EvidencePart(h, d)[accountEvidenceKey(PubKey[e], e)] = d
    <3> DEFINE ek == evidenceKey(d, e)
               hk == evidenceHeightKey(e)
               ak == accountEvidenceKey(PubKey[e], e)
    <3>1. /\ ek \in DOMAIN A /\ hk \in DOMAIN B /\ ak \in DOMAIN C
          /\ ek \notin DOMAIN BCD /\ hk \notin DOMAIN CD /\ hk \in DOMAIN BCD
          /\ ak \notin DOMAIN D /\ ak \in DOMAIN CD /\ ak \in DOMAIN BCD
          /\ A[ek] = e /\ B[hk] = d /\ C[ak] = d
      BY <2>3, <2>4, <2>5, <2>7, <2>8, <2>9
    <3> HIDE DEF ek, hk, ak
    <3>2. Set(A, BCD)[ek] = A[ek]
      BY <3>1, SetOld
    <3>3. Set(A, BCD)[hk] = BCD[hk] /\ Set(A, BCD)[ak] = BCD[ak]
      BY <3>1, SetNew
    <3>4. BCD[hk] = B[hk] /\ CD[ak] = C[ak]
      BY <3>1, SetOld
    <3>5. BCD[ak] = CD[ak]
      BY <3>1, SetNew
    <3> QED
      BY <2>1, <3>1, <3>2, <3>3, <3>4, <3>5 DEF ek, hk, ak
  <2>12. EvidencePart(h, d)[blockKey(d, h)] = Evds[h]
    <3> DEFINE bk == blockKey(d, h)
    <3>1. bk \in DOMAIN D /\ bk \in DOMAIN CD /\ bk \in DOMAIN BCD /\ D[bk] = Evds[h]
      BY <2>6, <2>8, <2>9
    <3> HIDE DEF bk
    <3>2. /\ CD[bk] = D[bk] /\ BCD[bk] = CD[bk] /\ Set(A, BCD)[bk] = BCD[bk]
      BY <3>1, SetNew
    <3> QED
      BY <2>1, <3>1, <3>2 DEF bk
  <2> HIDE DEF CD, BCD
  <2> QED
    BY <1>2, <1>5, <2>3, <2>4, <2>5, <2>6, <2>8, <2>9, <2>10, <2>11, <2>12
    DEF EvidenceWritten
<1> QED
  BY <1>4, <1>5

\* What the transaction of a block sets.
Written(h, d) == Set(putBlockTX(h, d), updateLatestHeightTX(d))

BlockWritten(h, d) ==
  /\ DOMAIN Written(h, d) =
       {headerKey(d, h), hashKey(d), headerHeightKey(h), scoreKey(Miner[h]),
        mLatestHeight} \cup DOMAIN EvidencePart(h, d)
  /\ Written(h, d)[headerKey(d, h)] = Header(h, d)
  /\ Written(h, d)[hashKey(d)] = h
  /\ Written(h, d)[headerHeightKey(h)] = d
  /\ Written(h, d)[mLatestHeight] = d
  /\ Written(h, d)[scoreKey(Miner[h])] = Score(kv, Miner[h]) + 1
  /\ \A k \in DOMAIN EvidencePart(h, d) : Written(h, d)[k] = EvidencePart(h, d)[k]

\* PutBlock sets the keys of header, height, hash and evidence list.
LEMMA BlockWrites ==
  ASSUME NEW h \in Hash, NEW d
  PROVE  BlockWritten(h, d)
<1> DEFINE A == [k \in {headerKey(d, h)} |->
                   [hash |-> h, height |-> d, root |-> Root(Evds[h])]]
           B == [k \in {hashKey(d)} |-> h]
           C == [k \in {headerHeightKey(h)} |-> d]
           D == updateScoreTX(Miner[h])
           E == EvidencePart(h, d)
           L == updateLatestHeightTX(d)
           DE == Set(D, E)
           CDE == Set(C, DE)
           BCDE == Set(B, CDE)
           ABCDE == Set(A, BCDE)
           ks == scoreKey(Miner[h])
<1>1. Written(h, d) = Set(ABCDE, L)
  BY DEF Written, putBlockTX, EvidencePart
<1>2. /\ DOMAIN A = {headerKey(d, h)} /\ A[headerKey(d, h)] = Header(h, d)
      /\ DOMAIN B = {hashKey(d)} /\ B[hashKey(d)] = h
      /\ DOMAIN C = {headerHeightKey(h)} /\ C[headerHeightKey(h)] = d
      /\ DOMAIN D = {ks} /\ D[ks] = Score(kv, Miner[h]) + 1
      /\ DOMAIN L = {mLatestHeight} /\ L[mLatestHeight] = d
  BY DEF Header, updateScoreTX, updateLatestHeightTX, Score, Has
<1>3. DOMAIN E = {evidenceKey(d, e) : e \in EvdsOf(h)}
                \cup {evidenceHeightKey(e) : e \in EvdsOf(h)}
                \cup {accountEvidenceKey(PubKey[e], e) : e \in EvdsOf(h)}
                \cup {k \in {blockKey(d, h)} : ~EmptyRoot(h)}
  BY EvidenceWrites DEF EvidenceWritten
<1>4. \A e \in EvdsOf(h) : PubKey[e] \in Account
  BY EvidenceWrites DEF EvidenceWritten, Account
<1>5. Miner[h] \in Account
  BY DEF Account
<1> HIDE DEF A, B, C, D, E, L
<1>6. DOMAIN A \cup DOMAIN B \cup DOMAIN C \cup DOMAIN D \cup DOMAIN L \subseteq
        {headerKey(d, h), hashKey(d), headerHeightKey(h), scoreKey(Miner[h]), mLatestHeight}
  BY <1>2
<1>7. \A k \in DOMAIN E : k \notin {headerKey(d, h), hashKey(d), headerHeightKey(h),
                                    scoreKey(Miner[h]), mLatestHeight}
  BY <1>3, <1>4, <1>5, Symbols
     DEF headerKey, hashKey, headerHeightKey, scoreKey, mLatestHeight, blockKey,
         evidenceKey, evidenceHeightKey, accountEvidenceKey
<1>8. /\ headerKey(d, h) \notin {hashKey(d), headerHeightKey(h), ks, mLatestHeight}
      /\ hashKey(d) \notin {headerHeightKey(h), ks, mLatestHeight}
      /\ headerHeightKey(h) \notin {ks, mLatestHeight}
      /\ ks # mLatestHeight
  BY <1>5, Symbols
     DEF headerKey, hashKey, headerHeightKey, scoreKey, mLatestHeight
<1>9. /\ DOMAIN DE = DOMAIN D \cup DOMAIN E
      /\ DOMAIN CDE = DOMAIN C \cup DOMAIN DE
      /\ DOMAIN BCDE = DOMAIN B \cup DOMAIN CDE
      /\ DOMAIN ABCDE = DOMAIN A \cup DOMAIN BCDE
      /\ DOMAIN Written(h, d) = DOMAIN ABCDE \cup DOMAIN L
  BY <1>1, SetDomain
<1>10. DOMAIN Written(h, d) =
              {headerKey(d, h), hashKey(d), headerHeightKey(h), scoreKey(Miner[h]),
               mLatestHeight} \cup DOMAIN E
  <2> HIDE DEF DE, CDE, BCDE, ABCDE
  <2> QED
    BY <1>2, <1>9
<1>11. Written(h, d)[headerKey(d, h)] = A[headerKey(d, h)]
  <2> DEFINE k == headerKey(d, h)
  <2>1. k \in DOMAIN A /\ k \notin DOMAIN BCDE /\ k \in DOMAIN ABCDE /\ k \notin DOMAIN L
    <3> HIDE DEF DE, CDE, BCDE, ABCDE
    <3> QED
      BY <1>2, <1>7, <1>8, <1>9
  <2> HIDE DEF k
  <2>2. ABCDE[k] = A[k] /\ Set(ABCDE, L)[k] = ABCDE[k]
    BY <2>1, SetOld
  <2> QED
    BY <1>1, <2>2 DEF k
<1>12. Written(h, d)[hashKey(d)] = B[hashKey(d)]
  <2> DEFINE k == hashKey(d)
  <2>1. /\ k \in DOMAIN B /\ k \notin DOMAIN CDE /\ k \in DOMAIN BCDE
        /\ k \in DOMAIN ABCDE /\ k \notin DOMAIN L
    <3> HIDE DEF DE, CDE, BCDE, ABCDE
    <3> QED
      BY <1>2, <1>7, <1>8, <1>9
  <2> HIDE DEF k
  <2>2. BCDE[k] = B[k] /\ Set(ABCDE, L)[k] = ABCDE[k]
    BY <2>1, SetOld
  <2>3. ABCDE[k] = BCDE[k]
    BY <2>1, SetNew
  <2> QED
    BY <1>1, <2>2, <2>3 DEF k
<1>13. Written(h, d)[headerHeightKey(h)] = C[headerHeightKey(h)]
  <2> DEFINE k == headerHeightKey(h)
  <2>1. /\ k \in DOMAIN C /\ k \notin DOMAIN DE /\ k \in DOMAIN CDE
        /\ k \in DOMAIN BCDE /\ k \in DOMAIN ABCDE /\ k \notin DOMAIN L
    <3> HIDE DEF DE, CDE, BCDE, ABCDE
    <3> QED
      BY <1>2, <1>7, <1>8, <1>9
  <2> HIDE DEF k
  <2>2. CDE[k] = C[k] /\ Set(ABCDE, L)[k] = ABCDE[k]
    BY <2>1, SetOld
  <2>3. ABCDE[k] = BCDE[k] /\ BCDE[k] = CDE[k]
    BY <2>1, SetNew
  <2> QED
    BY <1>1, <2>2, <2>3 DEF k
<1>14. Written(h, d)[ks] = D[ks]
  <2>1. /\ ks \in DOMAIN D /\ ks \notin DOMAIN E /\ ks \in DOMAIN DE
        /\ ks \in DOMAIN CDE
        /\ ks \in DOMAIN BCDE /\ ks \in DOMAIN ABCDE /\ ks \notin DOMAIN L
    <3> HIDE DEF DE, CDE, BCDE, ABCDE
    <3> QED
      BY <1>2, <1>7, <1>8, <1>9
  <2> HIDE DEF ks
  <2>2. DE[ks] = D[ks] /\ Set(ABCDE, L)[ks] = ABCDE[ks]
    BY <2>1, SetOld
  <2>3. ABCDE[ks] = BCDE[ks] /\ BCDE[ks] = CDE[ks] /\ CDE[ks] = DE[ks]
    BY <2>1, SetNew
  <2> QED
    BY <1>1, <2>2, <2>3
<1>15. ASSUME NEW k \in DOMAIN E PROVE Written(h, d)[k] = E[k]
  <2>1. /\ k \in DOMAIN DE /\ k \in DOMAIN CDE
        /\ k \in DOMAIN BCDE /\ k \in DOMAIN ABCDE /\ k \notin DOMAIN L
    <3> HIDE DEF DE, CDE, BCDE, ABCDE
    <3> QED
      BY <1>2, <1>7, <1>9
  <2>2. Set(ABCDE, L)[k] = ABCDE[k]
    BY <2>1, SetOld
  <2>3. ABCDE[k] = BCDE[k] /\ BCDE[k] = CDE[k] /\ CDE[k] = DE[k] /\ DE[k] = E[k]
    BY <2>1, SetNew
  <2> QED
    BY <1>1, <2>2, <2>3
<1>16. Written(h, d)[mLatestHeight] = L[mLatestHeight]
  BY <1>1, <1>2, SetNew
<1> HIDE DEF ABCDE
<1> QED
  BY <1>2, <1>10, <1>11, <1>12, <1>13, <1>14, <1>15, <1>16 DEF E, BlockWritten

\* Which keys of each kind of schema.go are among them.
LEMMA WrittenKeys ==
  ASSUME NEW h \in Hash, NEW d, NEW W, W = DOMAIN Written(h, d)
  PROVE  /\ mLatestHeight \in W /\ mGenesis \notin W
         /\ \A i : hashKey(i) \in W <=> i = d
         /\ \A x : headerHeightKey(x) \in W <=> x = h
         /\ \A i, x : x \in Hash => (headerKey(i, x) \in W <=> i = d /\ x = h)
         /\ \A i, x : blockKey(i, x) \in W <=> i = d /\ x = h /\ ~EmptyRoot(h)
         /\ \A i, e : evidenceKey(i, e) \in W <=> i = d /\ e \in EvdsOf(h)
         /\ \A e : evidenceHeightKey(e) \in W <=> e \in EvdsOf(h)
         /\ \A a \in Account : \A e :
              accountEvidenceKey(a, e) \in W <=> e \in EvdsOf(h) /\ a = PubKey[e]
         /\ \A a \in Account : scoreKey(a) \in W <=> a = Miner[h]
<1>1. W = {headerKey(d, h), hashKey(d), headerHeightKey(h), scoreKey(Miner[h]),
           mLatestHeight} \cup DOMAIN EvidencePart(h, d)
  BY BlockWrites DEF BlockWritten
<1>2. DOMAIN EvidencePart(h, d) =
        {evidenceKey(d, e) : e \in EvdsOf(h)}
          \cup {evidenceHeightKey(e) : e \in EvdsOf(h)}
          \cup {accountEvidenceKey(PubKey[e], e) : e \in EvdsOf(h)}
          \cup {k \in {blockKey(d, h)} : ~EmptyRoot(h)}
  BY EvidenceWrites DEF EvidenceWritten
<1>3. Miner[h] \in Account /\ \A e \in EvdsOf(h) : PubKey[e] \in Account
  BY EvidenceWrites DEF EvidenceWritten, Account
<1>4. \A a \in Account : a \notin {"h", "H", "b", "e", "E"}
  BY Symbols
<1>5. \A x \in Hash : x # "n"
  BY Symbols
<1>6. mLatestHeight \in W /\ mGenesis \notin W
  BY <1>1, <1>2 DEF headerKey, hashKey, headerHeightKey, scoreKey, mLatestHeight, mGenesis,
     blockKey, evidenceKey, evidenceHeightKey, accountEvidenceKey
<1>7. \A i : hashKey(i) \in W <=> i = d
  BY <1>1, <1>2, <1>3, <1>4, <1>5
  DEF headerKey, hashKey, headerHeightKey, scoreKey, mLatestHeight,
     blockKey, evidenceKey, evidenceHeightKey, accountEvidenceKey
<1>8. \A x : headerHeightKey(x) \in W <=> x = h
  BY <1>1, <1>2, <1>3, <1>4
  DEF headerKey, hashKey, headerHeightKey, scoreKey, mLatestHeight,
     blockKey, evidenceKey, evidenceHeightKey, accountEvidenceKey
<1>9. \A i, x : x \in Hash => (headerKey(i, x) \in W <=> i = d /\ x = h)
  BY <1>1, <1>2, <1>3, <1>4, <1>5
  DEF headerKey, hashKey, headerHeightKey, scoreKey, mLatestHeight,
     blockKey, evidenceKey, evidenceHeightKey, accountEvidenceKey
<1>10. \A i, x : blockKey(i, x) \in W <=> i = d /\ x = h /\ ~EmptyRoot(h)
  BY <1>1, <1>2, <1>3, <1>4
  DEF headerKey, hashKey, headerHeightKey, scoreKey, mLatestHeight,
     blockKey, evidenceKey, evidenceHeightKey, accountEvidenceKey
<1>11. \A i, e : evidenceKey(i, e) \in W <=> i = d /\ e \in EvdsOf(h)
  BY <1>1, <1>2, <1>3, <1>4
  DEF headerKey, hashKey, headerHeightKey, scoreKey, mLatestHeight,
     blockKey, evidenceKey, evidenceHeightKey, accountEvidenceKey
<1>12. \A e : evidenceHeightKey(e) \in W <=> e \in EvdsOf(h)
  BY <1>1, <1>2, <1>3, <1>4
  DEF headerKey, hashKey, headerHeightKey, scoreKey, mLatestHeight,
     blockKey, evidenceKey, evidenceHeightKey, accountEvidenceKey
<1>13. \A a \in Account : \A e :
         accountEvidenceKey(a, e) \in W <=> e \in EvdsOf(h) /\ a = PubKey[e]
  BY <1>1, <1>2, <1>3, <1>4
  DEF headerKey, hashKey, headerHeightKey, scoreKey, mLatestHeight,
     blockKey, evidenceKey, evidenceHeightKey, accountEvidenceKey
<1>14. \A a \in Account : scoreKey(a) \in W <=> a = Miner[h]
  BY <1>1, <1>2, <1>3, <1>4
  DEF headerKey, hashKey, headerHeightKey, scoreKey, mLatestHeight,
     blockKey, evidenceKey, evidenceHeightKey, accountEvidenceKey
<1> QED
  BY <1>6, <1>7, <1>8, <1>9, <1>10, <1>11, <1>12, <1>13, <1>14

-----------------------------------------------------------------------------
(* A block more *)

\* Blocks have heights from 1 on.
LEMMA DepthPositive == \A h \in Hash : Depth[h] \in Nat /\ Depth[h] >= 1
<1> TAKE h \in Hash
<1>1. Depth[h] \in Nat
  BY StoreAssumption
<1>2. CASE h = Genesis
  BY <1>1, <1>2, StoreAssumption
<1>3. CASE h # Genesis
  <2>1. Parent[h] \in Hash
    BY <1>3, StoreAssumption
  <2>2. Depth[Parent[h]] \in Nat /\ Depth[h] = Depth[Parent[h]] + 1
    BY <1>3, <2>1, StoreAssumption
  <2> QED
    BY <1>1, <2>2
<1> QED
  BY <1>2, <1>3

\* The evidence of a block.
LEMMA EvdsOfType == \A h \in Hash : EvdsOf(h) \subseteq Evidence
BY EvidenceWrites DEF EvidenceWritten

\* The database after the transaction, from the one before.
Committed(h, d, old, new) ==
  LET W == DOMAIN Written(h, d)
  IN  /\ DOMAIN new = DOMAIN old \cup W
      /\ \A k \in DOMAIN old \ W : new[k] = old[k]
      /\ new[mLatestHeight] = d
      /\ new[hashKey(d)] = h
      /\ new[headerHeightKey(h)] = d
      /\ new[headerKey(d, h)] = Header(h, d)
      /\ new[scoreKey(Miner[h])] = Score(kv, Miner[h]) + 1
      /\ ~EmptyRoot(h) => new[blockKey(d, h)] = Evds[h]
      /\ \A e \in EvdsOf(h) : /\ new[evidenceKey(d, e)] = e
                              /\ new[evidenceHeightKey(e)] = d
                              /\ new[accountEvidenceKey(PubKey[e], e)] = d
      /\ W = {headerKey(d, h), hashKey(d), headerHeightKey(h), scoreKey(Miner[h]),
              mLatestHeight} \cup
             ({evidenceKey(d, e) : e \in EvdsOf(h)}
               \cup {evidenceHeightKey(e) : e \in EvdsOf(h)}
               \cup {accountEvidenceKey(PubKey[e], e) : e \in EvdsOf(h)}
               \cup {k \in {blockKey(d, h)} : ~EmptyRoot(h)})

\* What is readable after the transaction of PutBlock.
LEMMA Transaction ==
  ASSUME NEW h \in Hash, NEW d, NEW old, NEW new, new = Set(old, Written(h, d))
  PROVE  Committed(h, d, old, new)
<1> DEFINE w == Written(h, d)
           W == DOMAIN w
<1>1. EvidenceWritten(h, d)
  BY EvidenceWrites
<1>2. BlockWritten(h, d)
  BY BlockWrites
<1>3. W = {headerKey(d, h), hashKey(d), headerHeightKey(h), scoreKey(Miner[h]),
           mLatestHeight} \cup DOMAIN EvidencePart(h, d)
  BY <1>2 DEF BlockWritten
<1>4. new = Set(old, w)
  OBVIOUS
<1> HIDE DEF w
<1>5. DOMAIN new = DOMAIN old \cup W
  BY <1>4, SetDomain
<1>6. ASSUME NEW k \in W PROVE new[k] = w[k]
  BY <1>4, SetNew
<1>7. ASSUME NEW k \in DOMAIN old, k \notin W PROVE new[k] = old[k]
  BY <1>4, <1>7, SetOld
<1> HIDE DEF W
<1>8. /\ new[mLatestHeight] = w[mLatestHeight]
      /\ new[hashKey(d)] = w[hashKey(d)]
      /\ new[headerHeightKey(h)] = w[headerHeightKey(h)]
      /\ new[headerKey(d, h)] = w[headerKey(d, h)]
      /\ new[scoreKey(Miner[h])] = w[scoreKey(Miner[h])]
  BY <1>3, <1>6
<1>9. \A k \in DOMAIN EvidencePart(h, d) : new[k] = EvidencePart(h, d)[k]
  BY <1>2, <1>3, <1>6 DEF BlockWritten, w
<1>10. ~EmptyRoot(h) => new[blockKey(d, h)] = Evds[h]
  BY <1>1, <1>9 DEF EvidenceWritten
<1>11. \A e \in EvdsOf(h) : /\ new[evidenceKey(d, e)] = e
                            /\ new[evidenceHeightKey(e)] = d
                            /\ new[accountEvidenceKey(PubKey[e], e)] = d
  BY <1>1, <1>9 DEF EvidenceWritten
<1>12. /\ new[mLatestHeight] = d /\ new[hashKey(d)] = h /\ new[headerHeightKey(h)] = d
       /\ new[headerKey(d, h)] = Header(h, d)
       /\ new[scoreKey(Miner[h])] = Score(kv, Miner[h]) + 1
  BY <1>2, <1>8 DEF BlockWritten, w
<1>13. DOMAIN EvidencePart(h, d) =
             ({evidenceKey(d, e) : e \in EvdsOf(h)}
               \cup {evidenceHeightKey(e) : e \in EvdsOf(h)}
               \cup {accountEvidenceKey(PubKey[e], e) : e \in EvdsOf(h)}
               \cup {k \in {blockKey(d, h)} : ~EmptyRoot(h)})
  BY <1>1 DEF EvidenceWritten
<1>14. W = DOMAIN Written(h, d)
  BY DEF W, w
<1> QED
  BY <1>3, <1>5, <1>7, <1>10, <1>11, <1>12, <1>13, <1>14 DEF Committed

\* After a transaction for the next height the database holds one block more.
LEMMA Grows ==
  ASSUME NEW n \in Nat, NEW h \in Hash, NEW d \in Nat, d = n + 1, Depth[h] = d, n = 0 => h = Genesis,
         NEW old, Holds(old, n),
         \A a \in Account : Score(kv, a) = Score(old, a),
         NEW new, new = Set(old, Written(h, d))
  PROVE  /\ Holds(new, d)
         /\ mLatestHeight \in DOMAIN new /\ new[mLatestHeight] = d
         /\ mGenesis \in DOMAIN new <=> mGenesis \in DOMAIN old
         /\ At(new, d) = h
         /\ \A i \in 1 .. n : At(new, i) = At(old, i)
<1> DEFINE W == DOMAIN Written(h, d)
           S == EvdsOf(h)
<1>0. Committed(h, d, old, new)
  BY Transaction
<1>1. /\ DOMAIN new = DOMAIN old \cup W
      /\ \A k \in DOMAIN old \ W : new[k] = old[k]
  BY <1>0 DEF Committed
<1>2. /\ mLatestHeight \in W /\ mGenesis \notin W
      /\ \A i : hashKey(i) \in W <=> i = d
      /\ \A x : headerHeightKey(x) \in W <=> x = h
      /\ \A i, x : x \in Hash => (headerKey(i, x) \in W <=> i = d /\ x = h)
      /\ \A i, x : blockKey(i, x) \in W <=> i = d /\ x = h /\ ~EmptyRoot(h)
      /\ \A i, e : evidenceKey(i, e) \in W <=> i = d /\ e \in S
      /\ \A e : evidenceHeightKey(e) \in W <=> e \in S
      /\ \A a \in Account : \A e :
           accountEvidenceKey(a, e) \in W <=> e \in S /\ a = PubKey[e]
      /\ \A a \in Account : scoreKey(a) \in W <=> a = Miner[h]
  BY WrittenKeys
<1>3. /\ new[mLatestHeight] = d
      /\ new[hashKey(d)] = h
      /\ new[headerHeightKey(h)] = d
      /\ new[headerKey(d, h)] = Header(h, d)
      /\ new[scoreKey(Miner[h])] = Score(kv, Miner[h]) + 1
  BY <1>0 DEF Committed
<1>4. /\ ~EmptyRoot(h) => new[blockKey(d, h)] = Evds[h]
      /\ \A e \in S : /\ new[evidenceKey(d, e)] = e
                       /\ new[evidenceHeightKey(e)] = d
                       /\ new[accountEvidenceKey(PubKey[e], e)] = d
  BY <1>0 DEF Committed
<1>5. S \subseteq Evidence /\ Miner[h] \in Account
      /\ \A e \in Evidence : PubKey[e] \in Account
  BY EvdsOfType DEF Account
<1>6. W = {headerKey(d, h), hashKey(d), headerHeightKey(h), scoreKey(Miner[h]),
           mLatestHeight} \cup
          ({evidenceKey(d, e) : e \in S}
            \cup {evidenceHeightKey(e) : e \in S}
            \cup {accountEvidenceKey(PubKey[e], e) : e \in S}
            \cup {k \in {blockKey(d, h)} : ~EmptyRoot(h)})
  BY <1>0 DEF Committed
<1> HIDE DEF W, S
<1>7. /\ At(new, d) = h
      /\ \A i : hashKey(i) \in DOMAIN new <=> i = d \/ hashKey(i) \in DOMAIN old
      /\ \A i : hashKey(i) \in DOMAIN old /\ i # d => At(new, i) = At(old, i)
  BY <1>1, <1>2, <1>3 DEF At
<1>8. \A i \in 1 .. n : hashKey(i) \in DOMAIN old /\ At(new, i) = At(old, i)
                          /\ At(old, i) \in Hash /\ Depth[At(old, i)] = i /\ At(old, i) # h
  <2> TAKE i \in 1 .. n
  <2>1. hashKey(i) \in DOMAIN old /\ At(old, i) \in Hash /\ Depth[At(old, i)] = i
    BY DEF Holds, Heighted
  <2>2. i # d
    OBVIOUS
  <2> QED
    BY <1>7, <2>1, <2>2
<1>9. \A i \in 1 .. d : i \in 1 .. n \/ i = d
  OBVIOUS
<1>10. Heighted(new, d)
  <2>1. ASSUME NEW i \in Heights \cup 1 .. d
        PROVE  hashKey(i) \in DOMAIN new <=> i \in 1 .. d
    <3>1. i \in Nat
      BY DepthPositive DEF Heights
    <3>2. CASE i = d
      BY <1>7, <3>2
    <3>3. CASE i # d
      <4>1. i \in Heights \cup 1 .. n
        BY <3>3, <1>9
      <4>2. hashKey(i) \in DOMAIN old <=> i \in 1 .. n
        BY <4>1 DEF Holds, Heighted
      <4> QED
        BY <1>7, <3>1, <3>3, <4>2
    <3> QED
      BY <3>2, <3>3
  <2>2. \A i \in 1 .. d : At(new, i) \in Hash /\ Depth[At(new, i)] = i
    BY <1>7, <1>8, <1>9
  <2>3. At(new, 1) = Genesis
    <3>1. CASE n = 0
      BY <1>7, <3>1
    <3>2. CASE n # 0
      <4>1. 1 \in 1 .. n /\ n > 0
        BY <3>2
      <4> QED
        BY <4>1, <1>8 DEF Holds, Heighted
    <3> QED
      BY <3>1, <3>2
  <2> QED
    BY <2>1, <2>2, <2>3 DEF Heighted
<1>11. Indexed(new, d)
  <2>1. \A i \in 1 .. d : headerHeightKey(At(new, i)) \in DOMAIN new
    BY <1>1, <1>2, <1>7, <1>8, <1>9 DEF Holds, Indexed
  <2>2. ASSUME NEW x \in Hash, headerHeightKey(x) \in DOMAIN new
        PROVE  /\ new[headerHeightKey(x)] = Depth[x]
               /\ Depth[x] \in 1 .. d /\ At(new, Depth[x]) = x
    <3>1. CASE x = h
      BY <3>1, <1>1, <1>2, <1>3, <1>7
    <3>2. CASE x # h
      <4>1. headerHeightKey(x) \in DOMAIN old /\ headerHeightKey(x) \notin W
        BY <2>2, <3>2, <1>1, <1>2
      <4>2. /\ old[headerHeightKey(x)] = Depth[x]
            /\ Depth[x] \in 1 .. n /\ At(old, Depth[x]) = x
        BY <4>1 DEF Holds, Indexed
      <4> QED
        BY <4>1, <4>2, <1>1, <1>8
    <3> QED
      BY <3>1, <3>2
  <2> QED
    BY <2>1, <2>2 DEF Indexed
<1>12. Contents(new, d)
  <2> SUFFICES ASSUME NEW i \in 1 .. d
               PROVE  /\ headerKey(i, At(new, i)) \in DOMAIN new
                      /\ new[headerKey(i, At(new, i))] = Header(At(new, i), i)
                      /\ ~EmptyRoot(At(new, i)) =>
                           /\ blockKey(i, At(new, i)) \in DOMAIN new
                           /\ new[blockKey(i, At(new, i))] = Evds[At(new, i)]
                      /\ \A e \in EvdsOf(At(new, i)) :
                           /\ evidenceKey(i, e) \in DOMAIN new
                           /\ new[evidenceKey(i, e)] = e
                           /\ evidenceHeightKey(e) \in DOMAIN new
                           /\ accountEvidenceKey(PubKey[e], e) \in DOMAIN new
    BY DEF Contents
  <2>1. CASE i = d
    <3>1. At(new, i) = h
      BY <2>1, <1>7
    <3>2. \A e \in S : PubKey[e] \in Account
      BY <1>5
    <3> QED
      BY <2>1, <3>1, <3>2, <1>1, <1>2, <1>3, <1>4 DEF S
  <2>2. CASE i \in 1 .. n
    <3>1. At(new, i) = At(old, i) /\ At(old, i) \in Hash /\ i # d
      BY <2>2, <1>8
    <3>2. /\ headerKey(i, At(old, i)) \notin W /\ blockKey(i, At(old, i)) \notin W
          /\ \A e : evidenceKey(i, e) \notin W
      BY <3>1, <1>2
    <3>3. /\ headerKey(i, At(old, i)) \in DOMAIN old
          /\ old[headerKey(i, At(old, i))] = Header(At(old, i), i)
          /\ ~EmptyRoot(At(old, i)) =>
                           /\ blockKey(i, At(old, i)) \in DOMAIN old
                           /\ old[blockKey(i, At(old, i))] = Evds[At(old, i)]
          /\ \A e \in EvdsOf(At(old, i)) :
                           /\ evidenceKey(i, e) \in DOMAIN old
                           /\ old[evidenceKey(i, e)] = e
                           /\ evidenceHeightKey(e) \in DOMAIN old
                           /\ accountEvidenceKey(PubKey[e], e) \in DOMAIN old
      BY <2>2 DEF Holds, Contents
    <3> QED
      BY <3>1, <3>2, <3>3, <1>1
  <2> QED
    BY <2>1, <2>2, <1>9
<1>13. EvidenceIndex(new, d)
  <2>1. d \in 1 .. d /\ \A i \in 1 .. n : i \in 1 .. d
    OBVIOUS
  <2>2. ASSUME NEW e \in Evidence, evidenceHeightKey(e) \in DOMAIN new
        PROVE  /\ new[evidenceHeightKey(e)] \in 1 .. d
               /\ e \in EvdsOf(At(new, new[evidenceHeightKey(e)]))
    <3>1. CASE e \in S
      BY <3>1, <2>1, <1>1, <1>2, <1>4, <1>7 DEF S
    <3>2. CASE e \notin S
      <4>1. /\ evidenceHeightKey(e) \in DOMAIN old
            /\ new[evidenceHeightKey(e)] = old[evidenceHeightKey(e)]
        BY <2>2, <3>2, <1>1, <1>2
      <4>2. /\ old[evidenceHeightKey(e)] \in 1 .. n
            /\ e \in EvdsOf(At(old, old[evidenceHeightKey(e)]))
        BY <4>1 DEF Holds, EvidenceIndex
      <4> QED
        BY <4>1, <4>2, <2>1, <1>8
    <3> QED
      BY <3>1, <3>2
  <2>3. ASSUME NEW e \in Evidence, NEW a \in Account,
               accountEvidenceKey(a, e) \in DOMAIN new
        PROVE  /\ new[accountEvidenceKey(a, e)] \in 1 .. d
               /\ e \in EvdsOf(At(new, new[accountEvidenceKey(a, e)]))
               /\ a = PubKey[e]
    <3>1. CASE e \in S /\ a = PubKey[e]
      BY <3>1, <2>1, <1>1, <1>2, <1>4, <1>7 DEF S
    <3>2. CASE ~(e \in S /\ a = PubKey[e])
      <4>1. /\ accountEvidenceKey(a, e) \in DOMAIN old
            /\ new[accountEvidenceKey(a, e)] = old[accountEvidenceKey(a, e)]
        BY <2>3, <3>2, <1>1, <1>2
      <4>2. /\ old[accountEvidenceKey(a, e)] \in 1 .. n
            /\ e \in EvdsOf(At(old, old[accountEvidenceKey(a, e)]))
            /\ a = PubKey[e]
        BY <4>1 DEF Holds, EvidenceIndex
      <4> QED
        BY <4>1, <4>2, <2>1, <1>8
    <3> QED
      BY <3>1, <3>2
  <2> QED
    BY <2>2, <2>3 DEF EvidenceIndex
<1>14. Prefixed(new)
  <2> SUFFICES ASSUME NEW k \in DOMAIN new, Len(k) = 3, k[1] \in Account, k[2] = "e"
               PROVE  k[3] \in Evidence /\ k = accountEvidenceKey(k[1], k[3])
    BY DEF Prefixed
  <2>1. CASE k \in DOMAIN old
    BY <2>1 DEF Holds, Prefixed
  <2>2. CASE k \in W
    <3>1. k[1] \notin {"h", "H", "b", "e", "E"}
      BY Symbols
    <3>2. k \in {accountEvidenceKey(PubKey[e], e) : e \in S}
      BY <1>6, <2>2, <3>1
      DEF headerKey, hashKey, headerHeightKey, scoreKey, mLatestHeight,
          blockKey, evidenceKey, evidenceHeightKey
    <3> QED
      BY <3>2, <1>5 DEF accountEvidenceKey
  <2> QED
    BY <2>1, <2>2, <1>1
<1>15. Scores(new, d)
  <2> SUFFICES ASSUME NEW a \in Account
               PROVE  Score(new, a) = Cardinality(Mined(new, d, a))
    BY DEF Scores
  <2>1. Score(old, a) = Cardinality(Mined(old, n, a))
    BY DEF Holds, Scores
  <2>2. IsFiniteSet(Mined(old, n, a)) /\ d \notin Mined(old, n, a)
    <3>1. IsFiniteSet(1 .. n)
      BY FS_Interval
    <3> QED
      BY <3>1, FS_Subset DEF Mined
  <2>3. CASE a = Miner[h]
    <3>1. Mined(new, d, a) = Mined(old, n, a) \cup {d}
      BY <2>3, <1>7, <1>8, <1>9 DEF Mined
    <3>2. /\ Cardinality(Mined(new, d, a)) = Cardinality(Mined(old, n, a)) + 1
          /\ Cardinality(Mined(old, n, a)) \in Nat
      BY <3>1, <2>2, FS_AddElement, FS_CardinalityType
    <3>3. Score(new, a) = new[scoreKey(a)]
      BY <2>3, <1>1, <1>2 DEF Score
    <3>4. new[scoreKey(a)] = Score(old, a) + 1
      BY <2>3, <1>3
    <3> QED
      BY <2>1, <3>2, <3>3, <3>4
  <2>4. CASE a # Miner[h]
    <3>1. Mined(new, d, a) = Mined(old, n, a)
      BY <2>4, <1>7, <1>8, <1>9 DEF Mined
    <3>2. Score(new, a) = Score(old, a)
      BY <2>4, <1>1, <1>2 DEF Score
    <3> QED
      BY <2>1, <3>1, <3>2
  <2> QED
    BY <2>3, <2>4
<1>16. Holds(new, d)
  BY <1>10, <1>11, <1>12, <1>13, <1>14, <1>15 DEF Holds
<1> QED
  BY <1>1, <1>2, <1>3, <1>7, <1>8, <1>16

-----------------------------------------------------------------------------
(* The steps *)

\* The keys of a database of which nothing is known but the genesis mark.
LEMMA HoldsNone ==
  ASSUME NEW f, DOMAIN f \subseteq {mGenesis}
  PROVE  Holds(f, 0) /\ \A a \in Account : Score(f, a) = 0
<1>1. 1 .. 0 = {}
  OBVIOUS
<1>2. /\ \A i : hashKey(i) \notin DOMAIN f
      /\ \A h : headerHeightKey(h) \notin DOMAIN f
      /\ \A e : evidenceHeightKey(e) \notin DOMAIN f
      /\ \A a, e : accountEvidenceKey(a, e) \notin DOMAIN f
      /\ \A a : scoreKey(a) \notin DOMAIN f
      /\ \A k \in DOMAIN f : Len(k) # 3
  BY DEF mGenesis, hashKey, headerHeightKey, evidenceHeightKey, accountEvidenceKey, scoreKey
<1>3. \A a \in Account : Score(f, a) = 0 /\ Mined(f, 0, a) = {}
  BY <1>1, <1>2 DEF Score, Mined
<1>4. Scores(f, 0)
  BY <1>3, FS_EmptySet DEF Scores
<1>5. Heighted(f, 0) /\ Indexed(f, 0)
  BY <1>1, <1>2 DEF Heighted, Indexed
<1>6. Contents(f, 0) /\ EvidenceIndex(f, 0) /\ Prefixed(f)
  BY <1>1, <1>2 DEF Contents, EvidenceIndex, Prefixed
<1> QED
  BY <1>3, <1>4, <1>5, <1>6 DEF Holds

\* The first start.
LEMMA GenesisStep ==
  ASSUME StoreInv, PutGenesis
  PROVE  /\ HasGenesis' /\ kv'[mLatestHeight] = 1 /\ Has(mLatestHeight)'
         /\ Holds(kv', 1) /\ At(kv', 1) = Genesis /\ putting = NoHash
<1> DEFINE G == [k \in {mGenesis} |-> "0"]
           w == Written(Genesis, 1)
<1>1. ~HasGenesis /\ DOMAIN kv = {} /\ kv' = Set(kv, Set(G, w)) /\ putting = NoHash
  BY DEF PutGenesis, StoreInv, Stored, Written, Pending
<1>2. kv' = Set(G, w)
  <2> HIDE DEF G, w
  <2>1. DOMAIN Set(G, w) = DOMAIN G \cup DOMAIN w
    BY SetDomain
  <2>2. kv' = [k \in DOMAIN Set(G, w) |-> Set(G, w)[k]]
    BY <1>1 DEF Set
  <2>3. Set(G, w) = [k \in DOMAIN Set(G, w) |-> Set(G, w)[k]]
    BY <2>1 DEF Set
  <2> QED
    BY <2>2, <2>3
<1>3. Holds(G, 0) /\ \A a \in Account : Score(kv, a) = Score(G, a)
  <2>1. DOMAIN G = {mGenesis}
    OBVIOUS
  <2> HIDE DEF G
  <2>2. Holds(G, 0) /\ \A a \in Account : Score(G, a) = 0
    BY <2>1, HoldsNone
  <2>3. \A a \in Account : Score(kv, a) = 0
    BY <1>1, HoldsNone
  <2> QED
    BY <2>2, <2>3
<1>4. Genesis \in Hash /\ Depth[Genesis] = 1 /\ mGenesis \in DOMAIN G
  BY StoreAssumption
<1> HIDE DEF G
<1>5. PICK d \in Nat : d = 0 + 1 /\ d = 1
  OBVIOUS
<1>6. kv' = Set(G, Written(Genesis, d)) /\ Depth[Genesis] = d
  BY <1>2, <1>4, <1>5
<1>7. /\ Holds(kv', d)
      /\ mLatestHeight \in DOMAIN kv' /\ kv'[mLatestHeight] = d
      /\ mGenesis \in DOMAIN kv' <=> mGenesis \in DOMAIN G
      /\ At(kv', d) = Genesis
  BY <1>3, <1>4, <1>5, <1>6, Grows
<1> QED
  BY <1>1, <1>4, <1>5, <1>7 DEF HasGenesis, Has

\* A block more: the old blocks keep their heights.
LEMMA PutStep ==
  ASSUME StoreInv, PutBlock
  PROVE  LET n == kv[mLatestHeight]
         IN  /\ HasGenesis /\ HasGenesis' /\ n \in Nat \ {0}
             /\ kv'[mLatestHeight] = n + 1 /\ Has(mLatestHeight)'
             /\ Holds(kv', n + 1) /\ At(kv', n + 1) = putting
             /\ \A i \in 1 .. n : At(kv', i) = At(kv, i)
             /\ putting \in Hash \ {Genesis} /\ Parent[putting] = At(kv, n)
             /\ putting' = NoHash
<1>1. PICK n \in Nat \ {0} : n = kv[mLatestHeight]
  BY DEF StoreInv, Stored, Pending, PutBlock
<1>2. /\ HasGenesis /\ Holds(kv, n)
      /\ putting \in Hash \ {Genesis} /\ Parent[putting] = At(kv, n)
      /\ Depth[putting] = n + 1
  BY <1>1 DEF StoreInv, Stored, Pending, PutBlock
<1>3. PICK d \in Nat : d = n + 1
  OBVIOUS
<1>4. /\ kv' = Set(kv, Written(putting, Depth[putting]))
      /\ putting' = NoHash
  BY DEF PutBlock, Written
<1>5. Depth[putting] = d
  BY <1>2, <1>3
<1>6. kv' = Set(kv, Written(putting, d))
  BY <1>4, <1>5
<1>7. /\ Holds(kv', d)
      /\ mLatestHeight \in DOMAIN kv' /\ kv'[mLatestHeight] = d
      /\ mGenesis \in DOMAIN kv' <=> mGenesis \in DOMAIN kv
      /\ At(kv', d) = putting
      /\ \A i \in 1 .. n : At(kv', i) = At(kv, i)
  <2>1. n \in Nat /\ (n = 0 => putting = Genesis) /\ putting \in Hash
    BY <1>2
  <2> QED
    BY <1>2, <1>3, <1>5, <1>6, <2>1, Grows
<1> QED
  BY <1>1, <1>2, <1>3, <1>4, <1>7 DEF HasGenesis, Has

\* The check of the height is enough for a block whose parent is stored.
LEMMA CheckStep ==
  ASSUME StoreInv, NEW h \in Hash, CheckHeight(h)
  PROVE  StoreInv'
<1>1. PICK n \in Nat \ {0} : n = kv[mLatestHeight]
  BY DEF StoreInv, Stored, CheckHeight
<1>2. /\ HasGenesis /\ Holds(kv, n) /\ kv' = kv /\ query' = query /\ putting' = h
      /\ h \in Hash \ {Genesis} /\ Has(headerHeightKey(Parent[h]))
      /\ Depth[h] = n + 1
  BY <1>1 DEF StoreInv, Stored, CheckHeight, Offered, Fits
<1>3. Parent[h] \in Hash /\ Depth[h] = Depth[Parent[h]] + 1
  BY <1>2, StoreAssumption
<1>4. Depth[Parent[h]] = n
  BY <1>2, <1>3, DepthPositive
<1>5. At(kv, n) = Parent[h]
  BY <1>2, <1>3, <1>4 DEF Holds, Indexed, Has
<1>6. Stored'
  BY <1>2 DEF StoreInv, Stored, HasGenesis, Has
<1>7. Pending'
  BY <1>1, <1>2, <1>5 DEF Pending, HasGenesis, Has
<1> QED
  BY <1>6, <1>7 DEF StoreInv

\* An empty database holds nothing.
LEMMA StoreInvInit == Init => StoreInv
BY DEF Init, StoreInv, Stored, Pending, HasGenesis, Has

\* Queries and stops leave the database alone.
LEMMA ReadStep ==
  ASSUME StoreInv, kv' = kv, putting' \in {putting, NoHash}, HasGenesis \/ query' = query
  PROVE  StoreInv'
<1>1. Stored'
  BY DEF StoreInv, Stored, HasGenesis, Has
<1>2. Pending'
  BY DEF StoreInv, Pending, HasGenesis, Has
<1> QED
  BY <1>1, <1>2 DEF StoreInv

\* Queries and stops change no key.
LEMMA ReadFrame ==
  ASSUME StoreInv, Query \/ Read \/ Stop
  PROVE  kv' = kv /\ putting' \in {putting, NoHash} /\ HasGenesis
<1>1. CASE Query
  BY <1>1 DEF Query, Ask
<1>2. CASE Read
  <2>1. kv' = kv /\ putting' = putting /\ query.next # "done"
    BY <1>2 DEF Read, GetLatestHeight, GetHash, getHeaderHeight, getHeader, getBlock,
                getEvidenceHeight, getEvidence, Step
  <2>2. HasGenesis
    BY <2>1 DEF StoreInv, Stored, NoQuery
  <2> QED
    BY <2>1, <2>2
<1>3. CASE Stop
  BY <1>3 DEF Stop, StoreInv, Stored, Pending
<1> QED
  BY <1>1, <1>2, <1>3

\* Every step keeps the invariant of the keys.
LEMMA StoreInvStep == StoreInv /\ [Next]_vars => StoreInv'
<1> SUFFICES ASSUME StoreInv, [Next]_vars PROVE StoreInv'
  OBVIOUS
<1>1. CASE PutGenesis
  <2>1. Stored' /\ Pending'
    BY <1>1, GenesisStep DEF Stored, Pending, PutGenesis
  <2> QED
    BY <2>1 DEF StoreInv
<1>2. CASE \E h \in Hash : CheckHeight(h)
  BY <1>2, CheckStep
<1>3. CASE PutBlock
  <2>1. PICK n \in Nat \ {0} : n = kv[mLatestHeight]
    BY <1>3, PutStep
  <2>2. /\ HasGenesis' /\ kv'[mLatestHeight] = n + 1 /\ Has(mLatestHeight)'
        /\ Holds(kv', n + 1) /\ putting' = NoHash
    BY <1>3, <2>1, PutStep
  <2>3. Stored' /\ Pending'
    BY <2>1, <2>2 DEF Stored, Pending
  <2> QED
    BY <2>3 DEF StoreInv
<1>4. CASE Query \/ Read \/ Stop
  BY <1>4, ReadFrame, ReadStep
<1>5. CASE UNCHANGED vars
  BY <1>5, ReadStep DEF vars
<1> QED
  BY <1>1, <1>2, <1>3, <1>4, <1>5 DEF Next

-----------------------------------------------------------------------------
(* The list of blocks *)

\* The list read from a database with n blocks.
LEMMA LedgerIs ==
  ASSUME Stored, HasGenesis
  PROVE  /\ ledger \in Seq(Hash) /\ Len(ledger) = kv[mLatestHeight]
         /\ DOMAIN ledger = 1 .. kv[mLatestHeight]
         /\ \A i \in 1 .. kv[mLatestHeight] : ledger[i] = At(kv, i)
<1>1. PICK n \in Nat \ {0} : n = kv[mLatestHeight]
  BY DEF Stored
<1>2. ledger = [i \in 1 .. n |-> At(kv, i)]
  BY <1>1 DEF ledger, At
<1>3. \A i \in 1 .. n : At(kv, i) \in Hash
  BY <1>1 DEF Stored, Holds, Heighted
<1>4. ledger \in Seq(Hash) /\ Len(ledger) = n /\ DOMAIN ledger = 1 .. n
  BY <1>2, <1>3
<1> QED
  BY <1>1, <1>2, <1>4

\* Every step appends a child of the last block, or changes nothing.
LEMMA LedgerStep ==
  ASSUME StoreInv, [Next]_vars
  PROVE  \/ ledger' = ledger
         \/ \E h \in Hash \ {Genesis} :
              Parent[h] = ledger[Len(ledger)] /\ ledger' = Append(ledger, h)
<1>1. CASE PutGenesis
  <2>1. ledger = <<Genesis>>
    BY <1>1 DEF PutGenesis, ledger
  <2>2. HasGenesis' /\ kv'[mLatestHeight] = 1 /\ At(kv', 1) = Genesis
    BY <1>1, GenesisStep
  <2>3. ledger' = [i \in 1 .. 1 |-> At(kv', i)]
    BY <2>2 DEF ledger, At
  <2>4. ledger' = <<Genesis>>
    BY <2>2, <2>3
  <2> QED
    BY <2>1, <2>4
<1>2. CASE PutBlock
  <2>1. PICK n \in Nat \ {0} : n = kv[mLatestHeight]
    BY <1>2, PutStep
  <2>2. /\ HasGenesis /\ HasGenesis' /\ kv'[mLatestHeight] = n + 1
        /\ At(kv', n + 1) = putting
        /\ \A i \in 1 .. n : At(kv', i) = At(kv, i)
        /\ putting \in Hash \ {Genesis} /\ Parent[putting] = At(kv, n)
    BY <1>2, <2>1, PutStep
  <2>3. /\ ledger \in Seq(Hash) /\ Len(ledger) = n
        /\ \A i \in 1 .. n : ledger[i] = At(kv, i)
    BY <2>1, <2>2, LedgerIs DEF StoreInv
  <2>4. ledger' = [i \in 1 .. n + 1 |-> At(kv', i)]
    BY <2>2 DEF ledger, At
  <2>5. /\ Append(ledger, putting) \in Seq(Hash)
        /\ Len(Append(ledger, putting)) = n + 1
        /\ \A i \in 1 .. n : Append(ledger, putting)[i] = ledger[i]
        /\ Append(ledger, putting)[n + 1] = putting
    BY <2>1, <2>2, <2>3, AppendProperties
  <2>6. \A i \in 1 .. n + 1 : At(kv', i) = Append(ledger, putting)[i] /\ At(kv', i) \in Hash
    <3> TAKE i \in 1 .. n + 1
    <3>1. i = n + 1 \/ i \in 1 .. n
      OBVIOUS
    <3>2. \A j \in 1 .. n : ledger[j] \in Hash
      BY <2>3
    <3> QED
      BY <3>1, <3>2, <2>2, <2>3, <2>5
  <2>7. ledger' = Append(ledger, putting)
    <3>1. /\ ledger' \in Seq(Hash) /\ Len(ledger') = n + 1
          /\ \A i \in 1 .. n + 1 : ledger'[i] = Append(ledger, putting)[i]
      <4>1. PICK m \in Nat : m = n + 1
        OBVIOUS
      <4>2. /\ \A i \in 1 .. m : At(kv', i) \in Hash
            /\ ledger' = [i \in 1 .. m |-> At(kv', i)]
        BY <4>1, <2>4, <2>6
      <4>3. /\ ledger' \in Seq(Hash) /\ Len(ledger') = m
            /\ \A i \in 1 .. m : ledger'[i] = At(kv', i)
        BY <4>2
      <4> QED
        BY <4>1, <4>3, <2>6
    <3> QED
      BY <3>1, <2>5, SeqEqual
  <2>8. Parent[putting] = ledger[Len(ledger)]
    BY <2>2, <2>3
  <2> QED
    BY <2>2, <2>7, <2>8
<1>3. CASE kv' = kv
  BY <1>3 DEF ledger, HasGenesis, Has
<1>4. PutGenesis \/ PutBlock \/ kv' = kv
  BY ReadFrame DEF Next, CheckHeight, vars
<1> QED
  BY <1>1, <1>2, <1>3, <1>4

\* The invariant of the keys holds in every reachable state.
LEMMA StoreInvariance == Spec => []StoreInv
<1>1. Init => StoreInv
  BY StoreInvInit
<1>2. StoreInv /\ [Next]_vars => StoreInv'
  BY StoreInvStep
<1> QED
  BY <1>1, <1>2, PTL DEF Spec

\* The store is the list of blocks that only grows, a child at a time:
\* the check of the height alone (badger.go PutBlock) keeps it one, wherever
\* the process stops, because callers hand over children of stored blocks.
THEOREM StoreRefinesLedger == Spec => StoreIsLedger
<1>1. Init => TheLedger!Init
  BY DEF Init, TheLedger!Init, ledger, HasGenesis, Has
<1>2. StoreInv /\ [Next]_vars => [TheLedger!Next]_ledger
  BY LedgerStep DEF TheLedger!Next, TheLedger!Extend
<1> QED
  BY <1>1, <1>2, StoreInvariance, PTL DEF Spec, TheLedger!Spec, StoreIsLedger

-----------------------------------------------------------------------------
(* The entries by account *)

\* No evidence is in two stored blocks: what verifyBlock asks of its caller
\* before a block is stored.
StoredOnce ==
  \A i, j \in DOMAIN ledger :
    EvdsOf(ledger[i]) \cap EvdsOf(ledger[j]) # {} => i = j

\* When no evidence is stored twice the indexes follow from the blocks.
LEMMA AccountsAgree ==
  ASSUME Stored, StoredOnce
  PROVE  IndexesAgree
<1> SUFFICES ASSUME HasGenesis, NEW a \in Account
             PROVE  /\ GetScoreViaKey(a) =
                         Cardinality({i \in DOMAIN ledger : Miner[ledger[i]] = a})
                    /\ GetEvidenceViaKey(a) =
                         {p \in Evidence \X DOMAIN ledger :
                            PubKey[p[1]] = a /\ p[1] \in EvdsOf(ledger[p[2]])}
                    /\ \A e \in Evidence :
                         HasEvidence(e) <=> \E i \in DOMAIN ledger : e \in EvdsOf(ledger[i])
  BY DEF IndexesAgree
<1>1. PICK n \in Nat \ {0} : n = kv[mLatestHeight] /\ Holds(kv, n)
  BY DEF Stored
<1>2. DOMAIN ledger = 1 .. n /\ \A i \in 1 .. n : ledger[i] = At(kv, i)
  BY <1>1, LedgerIs
<1>3. GetScoreViaKey(a) = Cardinality({i \in DOMAIN ledger : Miner[ledger[i]] = a})
  <2>1. GetScoreViaKey(a) = Score(kv, a)
    BY DEF GetScoreViaKey, Score, Has
  <2>2. {i \in DOMAIN ledger : Miner[ledger[i]] = a} = Mined(kv, n, a)
    BY <1>2 DEF Mined
  <2> QED
    BY <2>1, <2>2, <1>1 DEF Holds, Scores
<1>4. \A i \in 1 .. n : At(kv, i) \in Hash /\ EvdsOf(At(kv, i)) \subseteq Evidence
  BY <1>1, EvdsOfType DEF Holds, Heighted
<1>5. ASSUME NEW e \in Evidence
      PROVE  HasEvidence(e) <=> \E i \in DOMAIN ledger : e \in EvdsOf(ledger[i])
  BY <1>1, <1>2, <1>4 DEF HasEvidence, Has, Holds, Contents, EvidenceIndex
<1>6. ASSUME NEW p \in GetEvidenceViaKey(a)
      PROVE  p \in {q \in Evidence \X DOMAIN ledger :
                      PubKey[q[1]] = a /\ q[1] \in EvdsOf(ledger[q[2]])}
  <2>1. PICK k \in DOMAIN kv : Len(k) = 3 /\ k[1] = a /\ k[2] = "e" /\ p = <<k[3], kv[k]>>
    BY DEF GetEvidenceViaKey
  <2>2. k[3] \in Evidence /\ k = accountEvidenceKey(a, k[3])
    BY <2>1, <1>1 DEF Holds, Prefixed
  <2>3. PICK e \in Evidence : e = k[3]
    BY <2>2
  <2>4. /\ kv[k] \in 1 .. n /\ e \in EvdsOf(At(kv, kv[k])) /\ a = PubKey[e]
    BY <2>2, <2>3, <1>1 DEF Holds, EvidenceIndex
  <2> QED
    BY <2>1, <2>3, <2>4, <1>2
<1>7. ASSUME NEW e \in Evidence, NEW i \in DOMAIN ledger,
             PubKey[e] = a, e \in EvdsOf(ledger[i])
      PROVE  <<e, i>> \in GetEvidenceViaKey(a)
  <2> DEFINE k == accountEvidenceKey(a, e)
  <2>1. k \in DOMAIN kv
    BY <1>1, <1>2, <1>7 DEF Holds, Contents
  <2>2. kv[k] \in 1 .. n /\ e \in EvdsOf(At(kv, kv[k]))
    BY <2>1, <1>1 DEF Holds, EvidenceIndex
  <2>3. kv[k] = i
    BY <2>2, <1>2, <1>7 DEF StoredOnce
  <2>4. Len(k) = 3 /\ k[1] = a /\ k[2] = "e" /\ k[3] = e
    BY DEF accountEvidenceKey
  <2> HIDE DEF k
  <2> QED
    BY <2>1, <2>3, <2>4 DEF GetEvidenceViaKey
<1>8. GetEvidenceViaKey(a) = {p \in Evidence \X DOMAIN ledger :
                                PubKey[p[1]] = a /\ p[1] \in EvdsOf(ledger[p[2]])}
  <2>1. ASSUME NEW p \in Evidence \X DOMAIN ledger,
               PubKey[p[1]] = a, p[1] \in EvdsOf(ledger[p[2]])
        PROVE  p \in GetEvidenceViaKey(a)
    <3>1. p = <<p[1], p[2]>> /\ p[1] \in Evidence /\ p[2] \in DOMAIN ledger
      OBVIOUS
    <3>2. <<p[1], p[2]>> \in GetEvidenceViaKey(a)
      BY <3>1, <2>1, <1>7
    <3> QED
      BY <3>1, <3>2
  <2> QED
    BY <2>1, <1>6
<1> QED
  BY <1>3, <1>5, <1>8

\* Scores, the evidence of an account and HasEvidence are the ones that follow
\* from the list of blocks, as long as no evidence is stored twice, in every
\* order of blocks and stops (badger.go updateScoreTX, updateAccountEvidenceTX,
\* GetEvidenceViaKey's iterator over a prefix included).
THEOREM AccountIndexes == Spec => [](StoredOnce => IndexesAgree)
<1>1. StoreInv => (StoredOnce => IndexesAgree)
  BY AccountsAgree DEF StoreInv
<1> QED
  BY <1>1, StoreInvariance, PTL

-----------------------------------------------------------------------------
(* Queries *)

Sym == Hash \cup Evidence \cup {NoHash}
Ops == ByHeight \cup ByHash \cup Latest \cup {"getEvidence", "none"}
Places == {"GetLatestHeight", "GetHash", "getHeaderHeight", "getHeader", "getBlock",
           "getEvidenceHeight", "getEvidence", "done"}
Lists == Seq(Evidence)

QueryType ==
  [op : Ops, asked : Sym, next : Places, height : Nat, hash : Sym, header : Sym,
   todo : Lists, evds : Lists, before : Nat, found : BOOLEAN]

\* The query q is at a block that the database f with n blocks has.
Here(q, f, n) == q.height \in 1 .. n /\ q.hash = At(f, q.height)

\* It is at the height of a block with the evidence that was asked for.
Holder(q, f, n) == q.height \in 1 .. n /\ q.asked \in EvdsOf(At(f, q.height))

\* What was read and what is still to read make up the block's list.
Parts(v, u, all) ==
  /\ Len(v) + Len(u) = Len(all)
  /\ \A i \in 1 .. Len(v) : v[i] = all[i]
  /\ \A i \in 1 .. Len(u) : u[i] = all[Len(v) + i]

Split(q) == Parts(q.evds, q.todo, Evds[q.hash])

Found(q, f, n) ==
  /\ Here(q, f, n) /\ q.header = q.hash
  /\ q.op \in Whole => q.evds = Evds[q.hash]
  /\ q.op = "getEvidence" => q.evds = <<q.asked>> /\ Holder(q, f, n)

Missing(q, f, n) ==
  /\ q.op \notin Latest
  /\ q.op \in ByHeight => q.height > q.before
  /\ q.op \in ByHash => \A i \in 1 .. q.before : At(f, i) # q.asked
  /\ q.op = "getEvidence" => \A i \in 1 .. q.before : q.asked \notin EvdsOf(At(f, i))

\* What a query knows at each of its steps. Nothing of it is lost when blocks
\* are put between two steps.
Reading(q, f, n) ==
  /\ q.op # "none" /\ q.before \in 1 .. n
  /\ q.next = "GetLatestHeight" => q.op \in Latest /\ q.evds = <<>>
  /\ q.next = "GetHash" =>
       \/ q.op \in ByHeight /\ q.height \in Heights /\ q.evds = <<>>
       \/ q.op \in Latest /\ q.height \in 1 .. n /\ q.evds = <<>>
       \/ q.op = "getEvidence" /\ Holder(q, f, n) /\ q.evds = <<q.asked>>
  /\ q.next = "getHeaderHeight" =>
       q.op \in ByHash /\ q.hash = q.asked /\ q.hash \in Hash /\ q.evds = <<>>
  /\ q.next = "getEvidenceHeight" =>
       q.op = "getEvidence" /\ q.hash = q.asked /\ q.hash \in Evidence /\ q.evds = <<>>
  /\ q.next = "getHeader" =>
       /\ Here(q, f, n)
       /\ IF q.op = "getEvidence" THEN Holder(q, f, n) /\ q.evds = <<q.asked>>
          ELSE q.evds = <<>>
  /\ q.next = "getBlock" =>
       q.op \in Whole /\ Here(q, f, n) /\ q.header = q.hash /\ q.evds = <<>>
         /\ ~EmptyRoot(q.hash)
  /\ q.next = "getEvidence" =>
       \/ q.op \in Whole /\ Here(q, f, n) /\ q.header = q.hash /\ q.todo # <<>> /\ Split(q)
       \/ q.op = "getEvidence" /\ Holder(q, f, n) /\ q.todo = <<q.asked>> /\ q.evds = <<>>
  /\ q.next = "done" /\ q.found => Found(q, f, n)
  /\ q.next = "done" /\ ~q.found => Missing(q, f, n)

QueryInv ==
  /\ query \in QueryType
  /\ query = NoQuery \/ (HasGenesis /\ Reading(query, kv, kv[mLatestHeight]))

\* A database with n blocks answers for each of them.
LEMMA HoldsBlock ==
  ASSUME NEW f, NEW n \in Nat, Holds(f, n), NEW i \in 1 .. n
  PROVE  /\ At(f, i) \in Hash /\ hashKey(i) \in DOMAIN f
         /\ headerHeightKey(At(f, i)) \in DOMAIN f
         /\ headerKey(i, At(f, i)) \in DOMAIN f
         /\ f[headerKey(i, At(f, i))] = Header(At(f, i), i)
         /\ ~EmptyRoot(At(f, i)) => /\ blockKey(i, At(f, i)) \in DOMAIN f
                                    /\ f[blockKey(i, At(f, i))] = Evds[At(f, i)]
         /\ \A e \in EvdsOf(At(f, i)) :
              /\ e \in Evidence
              /\ evidenceKey(i, e) \in DOMAIN f /\ f[evidenceKey(i, e)] = e
              /\ evidenceHeightKey(e) \in DOMAIN f
<1>1. At(f, i) \in Hash /\ hashKey(i) \in DOMAIN f
  BY DEF Holds, Heighted
<1>2. EvdsOf(At(f, i)) \subseteq Evidence
  BY <1>1, EvdsOfType
<1> QED
  BY <1>1, <1>2 DEF Holds, Indexed, Contents

\* A query that fails.
LEMMA FailReading ==
  ASSUME NEW f, NEW n \in Nat, NEW q \in QueryType, Reading(q, f, n), Missing(q, f, n),
         NEW r, r = [q EXCEPT !.next = "done", !.found = FALSE]
  PROVE  r \in QueryType /\ Reading(r, f, n)
<1>1. /\ r \in QueryType /\ r.next = "done" /\ r.found = FALSE
      /\ r.op = q.op /\ r.asked = q.asked /\ r.height = q.height
      /\ r.before = q.before
  BY DEF QueryType, Places
<1>2. Missing(r, f, n)
  BY <1>1 DEF Missing
<1> QED
  BY <1>1, <1>2 DEF Reading

\* The view of GetLatestHeight keeps a query on one block.
LEMMA LatestReading ==
  ASSUME NEW f, NEW n \in Nat \ {0}, NEW q \in QueryType, Reading(q, f, n),
         q.next = "GetLatestHeight",
         NEW r, r = [q EXCEPT !.next = "GetHash", !.height = n]
  PROVE  r \in QueryType /\ Reading(r, f, n)
<1>1. /\ r \in QueryType /\ r.next = "GetHash" /\ r.height = n
      /\ r.op = q.op /\ r.asked = q.asked /\ r.evds = q.evds /\ r.before = q.before
  BY DEF QueryType, Places
<1>2. n \in 1 .. n
  OBVIOUS
<1> QED
  BY <1>1, <1>2 DEF Reading

\* The view of GetHash finds the hash of that height, for ever the same.
LEMMA HashReading ==
  ASSUME NEW f, NEW n \in Nat \ {0}, Holds(f, n), NEW q \in QueryType, Reading(q, f, n),
         q.next = "GetHash",
         NEW r, r = IF hashKey(q.height) \in DOMAIN f
                    THEN [q EXCEPT !.next = "getHeader", !.hash = At(f, q.height)]
                    ELSE [q EXCEPT !.next = "done", !.found = FALSE]
  PROVE  r \in QueryType /\ Reading(r, f, n)
<1>1. q.height \in Heights \cup 1 .. n /\ q.height \in Nat /\ q.before \in 1 .. n
  BY DEF Reading, Holder, QueryType
<1>2. hashKey(q.height) \in DOMAIN f <=> q.height \in 1 .. n
  BY <1>1 DEF Holds, Heighted
<1>3. CASE q.height \in 1 .. n
  <2>1. At(f, q.height) \in Sym
    BY <1>3, HoldsBlock DEF Sym
  <2>2. /\ r \in QueryType /\ r.next = "getHeader"
        /\ r.hash = At(f, q.height) /\ r.height = q.height
        /\ r.op = q.op /\ r.asked = q.asked /\ r.evds = q.evds /\ r.before = q.before
    BY <1>1, <1>2, <1>3, <2>1 DEF QueryType, Places
  <2>3. Here(r, f, n)
    BY <2>2, <1>3 DEF Here
  <2>4. IF r.op = "getEvidence" THEN Holder(r, f, n) /\ r.evds = <<r.asked>>
        ELSE r.evds = <<>>
    BY <2>2 DEF Reading, Holder, ByHeight, Latest
  <2> QED
    BY <2>2, <2>3, <2>4 DEF Reading
<1>4. CASE q.height \notin 1 .. n
  <2>1. q.op \in ByHeight /\ q.height \in Heights
    BY <1>4 DEF Reading, Holder
  <2>2. q.height >= 1
    BY <2>1, DepthPositive DEF Heights
  <2>3. q.height > q.before
    BY <1>1, <1>4, <2>2
  <2>4. Missing(q, f, n)
    BY <2>1, <2>3 DEF Missing, ByHeight, ByHash, Latest
  <2> QED
    BY <1>2, <1>4, <2>4, FailReading
<1> QED
  BY <1>3, <1>4

\* The view of getHeaderHeight finds the height of that hash.
LEMMA HeightReading ==
  ASSUME NEW f, NEW n \in Nat \ {0}, Holds(f, n), NEW q \in QueryType, Reading(q, f, n),
         q.next = "getHeaderHeight",
         NEW r, r = IF headerHeightKey(q.hash) \in DOMAIN f
                    THEN [q EXCEPT !.next = "getHeader",
                                   !.height = f[headerHeightKey(q.hash)]]
                    ELSE [q EXCEPT !.next = "done", !.found = FALSE]
  PROVE  r \in QueryType /\ Reading(r, f, n)
<1>1. /\ q.op \in ByHash /\ q.hash = q.asked /\ q.hash \in Hash /\ q.evds = <<>>
      /\ q.before \in 1 .. n
  BY DEF Reading
<1>2. CASE headerHeightKey(q.hash) \in DOMAIN f
  <2>1. /\ f[headerHeightKey(q.hash)] = Depth[q.hash]
        /\ Depth[q.hash] \in 1 .. n /\ At(f, Depth[q.hash]) = q.hash
    BY <1>1, <1>2 DEF Holds, Indexed
  <2>2. PICK i \in Nat : i = f[headerHeightKey(q.hash)]
    BY <2>1
  <2>3. r = [q EXCEPT !.next = "getHeader", !.height = i]
    BY <1>2, <2>2
  <2>4. PICK h \in Sym : h = q.hash
    BY <1>1 DEF Sym
  <2>5. /\ r \in QueryType /\ r.next = "getHeader" /\ r.hash = h /\ r.height = i
        /\ r.op = q.op /\ r.asked = q.asked /\ r.evds = q.evds /\ r.before = q.before
    BY <2>3, <2>4 DEF QueryType, Places
  <2>6. Here(r, f, n)
    BY <2>1, <2>2, <2>4, <2>5 DEF Here
  <2> QED
    BY <1>1, <2>5, <2>6 DEF Reading, ByHash
<1>3. CASE headerHeightKey(q.hash) \notin DOMAIN f
  <2>1. \A i \in 1 .. n : At(f, i) # q.asked
    BY <1>1, <1>3, HoldsBlock
  <2>2. \A i \in 1 .. q.before : i \in 1 .. n
    BY <1>1
  <2>3. Missing(q, f, n)
    BY <1>1, <2>1, <2>2 DEF Missing, ByHeight, ByHash, Latest
  <2> QED
    BY <1>3, <2>3, FailReading
<1> QED
  BY <1>2, <1>3

\* The view of getHeader finds the header of height and hash.
LEMMA HeaderReading ==
  ASSUME NEW f, NEW n \in Nat \ {0}, Holds(f, n), NEW q \in QueryType, Reading(q, f, n),
         q.next = "getHeader"
  PROVE  LET header == f[headerKey(q.height, q.hash)]
             r == IF q.op \in Whole /\ header.root # EmptyEvidenceRoot
                  THEN [q EXCEPT !.next = "getBlock", !.header = header.hash]
                  ELSE [q EXCEPT !.next = "done", !.header = header.hash, !.found = TRUE]
         IN  /\ headerKey(q.height, q.hash) \in DOMAIN f
             /\ r \in QueryType /\ Reading(r, f, n)
<1> DEFINE header == f[headerKey(q.height, q.hash)]
           rb == [q EXCEPT !.next = "getBlock", !.header = header.hash]
           rd == [q EXCEPT !.next = "done", !.header = header.hash, !.found = TRUE]
<1>1. /\ Here(q, f, n) /\ q.height \in 1 .. n /\ q.hash = At(f, q.height)
      /\ q.op # "none" /\ q.before \in 1 .. n
      /\ IF q.op = "getEvidence" THEN Holder(q, f, n) /\ q.evds = <<q.asked>>
         ELSE q.evds = <<>>
  BY DEF Reading, Here
<1>2. /\ headerKey(q.height, q.hash) \in DOMAIN f
      /\ header = Header(q.hash, q.height) /\ q.hash \in Hash
  BY <1>1, HoldsBlock
<1>3. header.hash = q.hash /\ header.root = Root(Evds[q.hash]) /\ header.hash \in Sym
  BY <1>2 DEF Header, Sym
<1> HIDE DEF header
<1>4. CASE q.op \in Whole /\ header.root # EmptyEvidenceRoot
  <2>1. /\ rb \in QueryType /\ rb.next = "getBlock" /\ rb.header = q.hash
        /\ rb.op = q.op /\ rb.asked = q.asked /\ rb.height = q.height /\ rb.hash = q.hash
        /\ rb.evds = q.evds /\ rb.before = q.before
    BY <1>3 DEF QueryType, Places
  <2> HIDE DEF rb
  <2>2. Here(rb, f, n) /\ ~EmptyRoot(rb.hash) /\ rb.evds = <<>>
    BY <1>1, <1>3, <1>4, <2>1 DEF Here, EmptyRoot, Whole
  <2>3. Reading(rb, f, n)
    BY <1>1, <1>4, <2>1, <2>2 DEF Reading
  <2> QED
    BY <1>2, <1>4, <2>1, <2>3 DEF rb, header
<1>5. CASE ~(q.op \in Whole /\ header.root # EmptyEvidenceRoot)
  <2>1. /\ rd \in QueryType /\ rd.next = "done" /\ rd.found = TRUE /\ rd.header = q.hash
        /\ rd.op = q.op /\ rd.asked = q.asked /\ rd.height = q.height /\ rd.hash = q.hash
        /\ rd.evds = q.evds /\ rd.before = q.before
    BY <1>3 DEF QueryType, Places
  <2> HIDE DEF rd
  <2>2. q.op \in Whole => q.evds = Evds[q.hash]
    <3> SUFFICES ASSUME q.op \in Whole PROVE q.evds = Evds[q.hash]
      OBVIOUS
    <3>1. EmptyRoot(q.hash) /\ q.evds = <<>>
      BY <1>1, <1>3, <1>5 DEF EmptyRoot, Whole
    <3> QED
      BY <1>2, <3>1, Rooted
  <2>3. Found(rd, f, n)
    BY <1>1, <2>1, <2>2 DEF Found, Here, Holder
  <2>4. Reading(rd, f, n)
    BY <1>1, <2>1, <2>3 DEF Reading
  <2> QED
    BY <1>2, <1>5, <2>1, <2>4 DEF rd, header
<1> QED
  BY <1>4, <1>5

\* The view of getBlock finds the list of the evidence of the block.
LEMMA BlockReading ==
  ASSUME NEW f, NEW n \in Nat \ {0}, Holds(f, n), NEW q \in QueryType, Reading(q, f, n),
         q.next = "getBlock",
         NEW r, r = [q EXCEPT !.next = "getEvidence", !.todo = f[blockKey(q.height, q.hash)]]
  PROVE  /\ blockKey(q.height, q.hash) \in DOMAIN f
         /\ r \in QueryType /\ Reading(r, f, n)
<1>1. /\ Here(q, f, n) /\ q.height \in 1 .. n /\ q.hash = At(f, q.height)
      /\ q.op \in Whole /\ q.header = q.hash /\ q.evds = <<>> /\ ~EmptyRoot(q.hash)
      /\ q.op # "none" /\ q.before \in 1 .. n
  BY DEF Reading, Here
<1>2. /\ blockKey(q.height, q.hash) \in DOMAIN f /\ q.hash \in Hash
      /\ f[blockKey(q.height, q.hash)] = Evds[q.hash]
  BY <1>1, HoldsBlock
<1>3. PICK l \in Lists : l = Evds[q.hash]
  BY <1>2, StoreAssumption DEF Lists
<1>4. r = [q EXCEPT !.next = "getEvidence", !.todo = l]
  BY <1>2, <1>3
<1>5. /\ r \in QueryType /\ r.next = "getEvidence" /\ r.todo = l
      /\ r.op = q.op /\ r.asked = q.asked /\ r.height = q.height /\ r.hash = q.hash
      /\ r.header = q.header /\ r.evds = q.evds /\ r.before = q.before
  BY <1>4 DEF QueryType, Places
<1>6. l # <<>>
  BY <1>1, <1>3 DEF EmptyRoot, Root
<1>7. Split(r)
  <2>1. r.evds = <<>> /\ r.todo = Evds[r.hash] /\ r.todo \in Seq(Evidence)
    BY <1>1, <1>3, <1>5 DEF Lists
  <2>2. Len(r.evds) = 0 /\ Len(r.todo) \in Nat
    BY <2>1
  <2>3. \A i \in 1 .. Len(r.todo) : i = Len(r.evds) + i
    BY <2>2
  <2>4. \A i \in 1 .. Len(r.evds) : r.evds[i] = Evds[r.hash][i]
    BY <2>2
  <2>5. \A i \in 1 .. Len(r.todo) : r.todo[i] = Evds[r.hash][Len(r.evds) + i]
    BY <2>1, <2>3
  <2>6. Len(r.evds) + Len(r.todo) = Len(Evds[r.hash])
    <3>1. Len(r.todo) = Len(Evds[r.hash])
      BY <2>1
    <3>2. 0 + Len(r.todo) = Len(r.todo)
      BY <2>2
    <3> QED
      BY <2>2, <3>1, <3>2
  <2> QED
    BY <2>4, <2>5, <2>6 DEF Split, Parts
<1>8. Here(r, f, n)
  BY <1>1, <1>5 DEF Here
<1>9. Reading(r, f, n)
  BY <1>1, <1>5, <1>6, <1>7, <1>8 DEF Reading
<1> QED
  BY <1>2, <1>5, <1>9

\* The view of getEvidenceHeight finds where the evidence is.
LEMMA EvidenceHeightReading ==
  ASSUME NEW f, NEW n \in Nat \ {0}, Holds(f, n), NEW q \in QueryType, Reading(q, f, n),
         q.next = "getEvidenceHeight",
         NEW r, r = IF evidenceHeightKey(q.hash) \in DOMAIN f
                    THEN [q EXCEPT !.next = "getEvidence", !.todo = <<q.hash>>,
                                   !.height = f[evidenceHeightKey(q.hash)]]
                    ELSE [q EXCEPT !.next = "done", !.found = FALSE]
  PROVE  r \in QueryType /\ Reading(r, f, n)
<1>1. /\ q.op = "getEvidence" /\ q.hash = q.asked /\ q.hash \in Evidence /\ q.evds = <<>>
      /\ q.before \in 1 .. n
  BY DEF Reading
<1>2. CASE evidenceHeightKey(q.hash) \in DOMAIN f
  <2>1. /\ f[evidenceHeightKey(q.hash)] \in 1 .. n
        /\ q.hash \in EvdsOf(At(f, f[evidenceHeightKey(q.hash)]))
    BY <1>1, <1>2 DEF Holds, EvidenceIndex
  <2>2. PICK i \in Nat : i = f[evidenceHeightKey(q.hash)]
    BY <2>1
  <2>0. <<q.hash>> \in Seq(Evidence)
    BY <1>1
  <2>3. PICK l \in Lists : l = <<q.hash>>
    BY <2>0, Zenon DEF Lists
  <2>4. r = [q EXCEPT !.next = "getEvidence", !.todo = l, !.height = i]
    BY <1>2, <2>2, <2>3
  <2>5. /\ r \in QueryType /\ r.next = "getEvidence" /\ r.todo = l /\ r.height = i
        /\ r.op = q.op /\ r.asked = q.asked /\ r.hash = q.hash
        /\ r.header = q.header /\ r.evds = q.evds /\ r.before = q.before
    BY <2>4 DEF QueryType, Places
  <2>6. Holder(r, f, n)
    BY <1>1, <2>1, <2>2, <2>5 DEF Holder
  <2> QED
    BY <1>1, <2>3, <2>5, <2>6 DEF Reading
<1>3. CASE evidenceHeightKey(q.hash) \notin DOMAIN f
  <2>1. \A i \in 1 .. n : q.asked \notin EvdsOf(At(f, i))
    BY <1>1, <1>3, HoldsBlock
  <2>2. \A i \in 1 .. q.before : i \in 1 .. n
    BY <1>1
  <2>3. Missing(q, f, n)
    BY <1>1, <2>1, <2>2 DEF Missing, ByHeight, ByHash, Latest
  <2> QED
    BY <1>3, <2>3, FailReading
<1> QED
  BY <1>2, <1>3

\* The evidence that is read next goes from the list of what is left, u, to
\* the list of what was read, v.
LEMMA HeadParts ==
  ASSUME NEW S, NEW u \in Seq(S), u # <<>>, NEW e, e = Head(u), NEW t, t = Tail(u)
  PROVE  /\ Len(u) \in Nat \ {0} /\ e = u[1] /\ e \in S /\ t \in Seq(S)
         /\ Len(t) = Len(u) - 1 /\ \A i \in 1 .. Len(t) : t[i] = u[i + 1]
<1>1. Len(u) \in Nat \ {0}
  BY EmptySeq
<1>2. e = u[1]
  BY <1>1
<1> QED
  BY <1>1, <1>2, HeadTailProperties

\* What Append does to a list, element by element.
LEMMA AppendParts ==
  ASSUME NEW S, NEW v \in Seq(S), NEW e \in S, NEW w, w = Append(v, e)
  PROVE  /\ Len(v) \in Nat /\ w \in Seq(S) /\ Len(w) = Len(v) + 1
         /\ w[Len(v) + 1] = e /\ \A i \in 1 .. Len(v) : w[i] = v[i]
BY AppendProperties, LenProperties

\* Taking the first of what is to be read and adding it to what was read.
LEMMA SplitStep ==
  ASSUME NEW S, NEW u \in Seq(S), NEW v \in Seq(S), NEW all \in Seq(S), u # <<>>,
         Parts(v, u, all)
  PROVE  /\ Head(u) \in S /\ Tail(u) \in Seq(S) /\ Append(v, Head(u)) \in Seq(S)
         /\ \E i \in DOMAIN all : Head(u) = all[i]
         /\ Parts(Append(v, Head(u)), Tail(u), all)
         /\ Len(Tail(u)) = Len(u) - 1
<1>e. PICK e : e = Head(u)
  OBVIOUS
<1>t. PICK t : t = Tail(u)
  OBVIOUS
<1>w. PICK w : w = Append(v, e)
  OBVIOUS
<1>0. /\ Len(v) + Len(u) = Len(all)
      /\ \A i \in 1 .. Len(v) : v[i] = all[i]
      /\ \A i \in 1 .. Len(u) : u[i] = all[Len(v) + i]
  BY DEF Parts
<1>1. /\ Len(u) \in Nat \ {0} /\ e = u[1] /\ e \in S /\ t \in Seq(S)
      /\ Len(t) = Len(u) - 1 /\ \A i \in 1 .. Len(t) : t[i] = u[i + 1]
  BY <1>e, <1>t, HeadParts
<1>2. /\ Len(v) \in Nat /\ w \in Seq(S) /\ Len(w) = Len(v) + 1
      /\ w[Len(v) + 1] = e /\ \A i \in 1 .. Len(v) : w[i] = v[i]
  BY <1>1, <1>w, AppendParts
<1>3. Len(all) \in Nat /\ DOMAIN all = 1 .. Len(all) /\ Len(t) \in Nat
  BY <1>1, LenProperties
<1>a. PICK a \in Nat : a = Len(v)
  BY <1>2, Zenon
<1>b. PICK b \in Nat : b = Len(t)
  BY <1>3, Zenon
<1>c. PICK c \in Nat : c = Len(all)
  BY <1>3, Zenon
<1>d. PICK d \in Nat : d = Len(u)
  BY <1>1, Zenon
<1>k. PICK k \in Nat : k = a + 1
  OBVIOUS
<1>4. a = Len(v) /\ b = Len(t) /\ c = Len(all) /\ k = a + 1
  BY <1>a, <1>b, <1>c, <1>k
<1>5. Len(u) = b + 1 /\ Len(w) = k /\ c = k + b /\ w[k] = e
  <2>1. b = d - 1 /\ a + d = c
    BY <1>0, <1>1, <1>4, <1>d, Zenon
  <2>2. d = b + 1 /\ c = k + b
    BY <2>1, <1>k
  <2>3. Len(w) = k /\ w[k] = e
    BY <1>2, <1>4, Zenon
  <2> QED
    BY <1>d, <2>2, <2>3, Zenon
<1>6. k \in 1 .. c
  BY <1>4, <1>5
<1>7. e = all[k]
  <2>1. 1 \in 1 .. Len(u)
    BY <1>1
  <2>2. u[1] = all[Len(v) + 1]
    BY <1>0, <2>1
  <2> QED
    BY <1>1, <1>4, <2>2
<1>8. \A i \in 1 .. k : w[i] = all[i]
  <2> TAKE i \in 1 .. k
  <2>1. i \in 1 .. a \/ i = k
    BY <1>4
  <2> QED
    BY <1>0, <1>2, <1>4, <1>5, <1>7, <2>1
<1>9. \A i \in 1 .. b : t[i] = all[k + i]
  <2> TAKE i \in 1 .. b
  <2>1. PICK j \in Nat : j = i + 1
    BY <1>4
  <2>2. j \in 1 .. b + 1 /\ a + j = k + i
    BY <1>4, <2>1
  <2>3. t[i] = u[j]
    BY <1>1, <1>4, <2>1
  <2>4. u[j] = all[a + j]
    BY <1>0, <1>4, <1>5, <2>2
  <2> QED
    BY <2>2, <2>3, <2>4
<1>10. Len(w) + Len(t) = Len(all)
  BY <1>4, <1>5
<1>11. Parts(w, t, all)
  BY <1>4, <1>5, <1>8, <1>9, <1>10 DEF Parts
<1>12. \E i \in DOMAIN all : e = all[i]
  BY <1>3, <1>4, <1>6, <1>7
<1> QED
  BY <1>1, <1>2, <1>11, <1>12, <1>e, <1>t, <1>w

\* A query that reads one evidence of its list.
LEMMA EvidenceReading ==
  ASSUME NEW f, NEW n \in Nat \ {0}, Holds(f, n), NEW q \in QueryType, Reading(q, f, n),
         q.next = "getEvidence", NEW e, e = Head(q.todo), NEW m, NEW r,
         m = [q EXCEPT !.todo = Tail(q.todo),
                       !.evds = Append(q.evds, f[evidenceKey(q.height, e)])],
         r = IF Len(q.todo) > 1 THEN m
             ELSE IF q.op = "getEvidence" THEN [m EXCEPT !.next = "GetHash"]
             ELSE [m EXCEPT !.next = "done", !.found = TRUE]
  PROVE  /\ evidenceKey(q.height, e) \in DOMAIN f
         /\ r \in QueryType /\ Reading(r, f, n)
<1>1. q.todo \in Seq(Evidence) /\ q.evds \in Seq(Evidence)
  BY DEF QueryType, Lists
<1>2. q.op # "none" /\ q.before \in 1 .. n
  BY DEF Reading
<1>3. \/ q.op \in Whole /\ Here(q, f, n) /\ q.header = q.hash /\ q.todo # <<>> /\ Split(q)
      \/ q.op = "getEvidence" /\ Holder(q, f, n) /\ q.todo = <<q.asked>> /\ q.evds = <<>>
  BY DEF Reading
<1>4. CASE q.op \in Whole /\ Here(q, f, n) /\ q.header = q.hash /\ q.todo # <<>> /\ Split(q)
  <2>1. q.height \in 1 .. n /\ q.hash = At(f, q.height) /\ q.hash \in Hash
    BY <1>4, HoldsBlock DEF Here
  <2>2. PICK u \in Seq(Evidence) : u = q.todo
    BY <1>1, Zenon
  <2>3. PICK v \in Seq(Evidence) : v = q.evds
    BY <1>1, Zenon
  <2>4. PICK all \in Seq(Evidence) : all = Evds[q.hash]
    BY <2>1, StoreAssumption
  <2>5. Parts(v, u, all) /\ u # <<>>
    BY <1>4, <2>2, <2>3, <2>4 DEF Split
  <2>6. PICK t : t = Tail(u)
    OBVIOUS
  <2>7. PICK w : w = Append(v, e)
    OBVIOUS
  <2>8. e = Head(u)
    BY <2>2
  <2>9. /\ e \in Evidence /\ t \in Seq(Evidence) /\ w \in Seq(Evidence)
        /\ \E i \in DOMAIN all : e = all[i]
        /\ Parts(w, t, all) /\ Len(t) = Len(u) - 1
    BY <2>5, <2>6, <2>7, <2>8, SplitStep
  <2>10. e \in EvdsOf(At(f, q.height))
    BY <2>1, <2>4, <2>9 DEF EvdsOf
  <2>11. evidenceKey(q.height, e) \in DOMAIN f /\ f[evidenceKey(q.height, e)] = e
    BY <2>1, <2>10, HoldsBlock
  <2>12. m = [q EXCEPT !.todo = t, !.evds = w]
    BY <2>2, <2>3, <2>6, <2>7, <2>11
  <2>13. /\ m \in QueryType /\ m.next = q.next /\ m.todo = t /\ m.evds = w
         /\ m.op = q.op /\ m.asked = q.asked /\ m.height = q.height /\ m.hash = q.hash
         /\ m.header = q.header /\ m.before = q.before
    BY <2>9, <2>12 DEF QueryType, Lists
  <2>14. Here(m, f, n)
    BY <1>4, <2>13 DEF Here
  <2>15. Len(t) \in Nat /\ Len(u) \in Nat
    BY <2>9, LenProperties
  <2>16. q.op # "getEvidence"
    BY <1>4 DEF Whole
  <2>17. CASE Len(u) > 1
    <3>1. r = m
      BY <2>2, <2>17
    <3>2. t # <<>>
      BY <2>9, <2>15, <2>17
    <3>3. Split(m)
      <4>1. m.evds = w /\ m.todo = t /\ Evds[m.hash] = all
        BY <2>4, <2>13
      <4> QED
        BY <2>9, <4>1 DEF Split
    <3>4. Reading(m, f, n)
      BY <1>2, <1>4, <2>13, <2>14, <3>2, <3>3 DEF Reading
    <3> QED
      BY <2>11, <2>13, <3>1, <3>4
  <2>18. CASE ~(Len(u) > 1)
    <3>1. r = [m EXCEPT !.next = "done", !.found = TRUE]
      BY <2>2, <2>16, <2>18
    <3>2. /\ r \in QueryType /\ r.next = "done" /\ r.found = TRUE /\ r.evds = m.evds
          /\ r.op = m.op /\ r.asked = m.asked /\ r.height = m.height /\ r.hash = m.hash
          /\ r.header = m.header /\ r.before = m.before
      BY <2>13, <3>1 DEF QueryType, Places
    <3>3. Len(t) = 0
      BY <2>9, <2>15, <2>18
    <3>4. Len(w) = Len(all)
      <4>1. Len(w) \in Nat /\ Len(w) + 0 = Len(all)
        BY <2>9, <3>3, LenProperties DEF Parts
      <4> QED
        BY <4>1
    <3>5. w = all
      BY <2>9, <3>4, SeqEqual DEF Parts
    <3>6. Found(r, f, n)
      BY <1>4, <2>4, <2>13, <2>14, <2>16, <3>2, <3>5 DEF Found, Here
    <3>7. Reading(r, f, n)
      BY <1>2, <2>13, <3>2, <3>6 DEF Reading
    <3> QED
      BY <2>11, <3>2, <3>7
  <2> QED
    BY <2>17, <2>18
<1>5. CASE q.op = "getEvidence" /\ Holder(q, f, n) /\ q.todo = <<q.asked>> /\ q.evds = <<>>
  <2>1. q.height \in 1 .. n /\ q.asked \in EvdsOf(At(f, q.height))
    BY <1>5 DEF Holder
  <2>2. e = q.asked /\ ~(Len(q.todo) > 1)
    BY <1>5
  <2>3. /\ evidenceKey(q.height, e) \in DOMAIN f /\ f[evidenceKey(q.height, e)] = e
        /\ e \in Evidence
    BY <2>1, <2>2, HoldsBlock
  <2>0. Tail(q.todo) \in Seq(Evidence)
    BY <1>1, <1>5, HeadTailProperties
  <2>4. PICK t \in Seq(Evidence) : t = Tail(q.todo)
    BY <2>0, Zenon
  <2>5. <<q.asked>> \in Seq(Evidence)
    BY <2>2, <2>3
  <2>6. Append(q.evds, f[evidenceKey(q.height, e)]) = <<q.asked>>
    BY <1>5, <2>2, <2>3
  <2>7. PICK w \in Seq(Evidence) : w = <<q.asked>>
    BY <2>5, Zenon
  <2>8. m = [q EXCEPT !.todo = t, !.evds = w]
    BY <2>4, <2>6, <2>7
  <2>9. /\ m \in QueryType /\ m.next = q.next /\ m.evds = w
        /\ m.op = q.op /\ m.asked = q.asked /\ m.height = q.height
        /\ m.before = q.before
    BY <2>8 DEF QueryType, Lists
  <2>10. r = [m EXCEPT !.next = "GetHash"]
    BY <1>5, <2>2
  <2>11. /\ r \in QueryType /\ r.next = "GetHash" /\ r.evds = w
         /\ r.op = q.op /\ r.asked = q.asked /\ r.height = q.height
         /\ r.before = q.before
    BY <2>9, <2>10 DEF QueryType, Places
  <2>12. Holder(r, f, n)
    BY <1>5, <2>11 DEF Holder
  <2>13. Reading(r, f, n)
    BY <1>2, <1>5, <2>7, <2>11, <2>12 DEF Reading
  <2> QED
    BY <2>3, <2>11, <2>13
<1> QED
  BY <1>3, <1>4, <1>5

\* Blocks that are put between two steps take nothing from a query.
LEMMA ReadingKept ==
  ASSUME NEW f, NEW g, NEW n \in Nat, NEW m \in Nat, n <= m,
         \A i \in 1 .. n : At(g, i) = At(f, i), NEW q, Reading(q, f, n)
  PROVE  Reading(q, g, m)
<1>1. \A i \in 1 .. n : i \in 1 .. m
  OBVIOUS
<1>2. Here(q, f, n) => Here(q, g, m)
  BY <1>1 DEF Here
<1>3. Holder(q, f, n) => Holder(q, g, m)
  BY <1>1 DEF Holder
<1>4. Found(q, f, n) => Found(q, g, m)
  BY <1>2, <1>3 DEF Found
<1>5. q.before \in 1 .. n /\ q.before \in 1 .. m
  BY <1>1 DEF Reading
<1>6. \A i \in 1 .. q.before : At(g, i) = At(f, i)
  BY <1>5
<1>7. Missing(q, f, n) => Missing(q, g, m)
  BY <1>6 DEF Missing
<1> QED
  BY <1>1, <1>2, <1>3, <1>4, <1>5, <1>7 DEF Reading

\* No query is a query record.
LEMMA NoQueryType == NoQuery \in QueryType
<1>1. <<>> \in Seq(Evidence)
  OBVIOUS
<1> QED
  BY <1>1 DEF NoQuery, QueryType, Ops, Sym, Places, Lists

\* A query begins.
LEMMA AskReading ==
  ASSUME NEW f, NEW n \in Nat \ {0}, NEW op \in Ops, NEW next \in Places,
         NEW i \in Nat, NEW h \in Sym,
         \/ op \in ByHeight /\ next = "GetHash" /\ i \in Heights
         \/ op \in ByHash /\ next = "getHeaderHeight" /\ h \in Hash
         \/ op \in Latest /\ next = "GetLatestHeight"
         \/ op = "getEvidence" /\ next = "getEvidenceHeight" /\ h \in Evidence,
         NEW r, r = [NoQuery EXCEPT !.op = op, !.asked = h, !.next = next,
                                    !.height = i, !.hash = h, !.before = n]
  PROVE  r \in QueryType /\ Reading(r, f, n)
<1>1. /\ r.op = op /\ r.asked = h /\ r.next = next /\ r.height = i /\ r.hash = h
      /\ r.before = n /\ r.evds = <<>> /\ r \in QueryType
  BY NoQueryType DEF NoQuery, QueryType
<1>2. n \in 1 .. n /\ op # "none"
  BY DEF ByHeight, ByHash, Latest
<1>3. next \in {"GetHash", "getHeaderHeight", "GetLatestHeight", "getEvidenceHeight"}
  OBVIOUS
<1> QED
  BY <1>1, <1>2, <1>3 DEF Reading, ByHeight, ByHash, Latest

\* A query begins at the database it meets.
LEMMA QueryStep ==
  ASSUME StoreInv, Query
  PROVE  HasGenesis /\ kv' = kv /\ query' \in QueryType
         /\ Reading(query', kv, kv[mLatestHeight])
<1>1. HasGenesis /\ kv' = kv
  BY DEF Query, Ask
<1>2. PICK n \in Nat \ {0} : n = kv[mLatestHeight]
  BY <1>1 DEF StoreInv, Stored
<1>3. \E op \in Ops, next \in Places, i \in Nat, h \in Sym :
        /\ \/ op \in ByHeight /\ next = "GetHash" /\ i \in Heights
           \/ op \in ByHash /\ next = "getHeaderHeight" /\ h \in Hash
           \/ op \in Latest /\ next = "GetLatestHeight"
           \/ op = "getEvidence" /\ next = "getEvidenceHeight" /\ h \in Evidence
        /\ Ask(op, next, i, h)
  <2>1. CASE \E op \in ByHeight, i \in Heights : Ask(op, "GetHash", i, NoHash)
    <3>1. PICK op \in ByHeight, i \in Heights : Ask(op, "GetHash", i, NoHash)
      BY <2>1
    <3>2. i \in Nat /\ op \in Ops /\ NoHash \in Sym /\ "GetHash" \in Places
      BY DepthPositive DEF Heights, Ops, Sym, Places
    <3> QED
      BY <3>1, <3>2
  <2>2. CASE \E op \in ByHash, h \in Hash : Ask(op, "getHeaderHeight", 0, h)
    <3>1. PICK op \in ByHash, h \in Hash : Ask(op, "getHeaderHeight", 0, h)
      BY <2>2
    <3>2. 0 \in Nat /\ op \in Ops /\ h \in Sym /\ "getHeaderHeight" \in Places
      BY DEF Ops, Sym, Places
    <3> QED
      BY <3>1, <3>2
  <2>3. CASE \E op \in Latest : Ask(op, "GetLatestHeight", 0, NoHash)
    <3>1. PICK op \in Latest : Ask(op, "GetLatestHeight", 0, NoHash)
      BY <2>3
    <3>2. 0 \in Nat /\ op \in Ops /\ NoHash \in Sym /\ "GetLatestHeight" \in Places
      BY DEF Ops, Sym, Places
    <3> QED
      BY <3>1, <3>2
  <2>4. CASE \E e \in Evidence : Ask("getEvidence", "getEvidenceHeight", 0, e)
    <3>1. PICK e \in Evidence : Ask("getEvidence", "getEvidenceHeight", 0, e)
      BY <2>4
    <3>2. /\ 0 \in Nat /\ "getEvidence" \in Ops /\ e \in Sym
          /\ "getEvidenceHeight" \in Places
      BY DEF Ops, Sym, Places
    <3> QED
      BY <3>1, <3>2
  <2> QED
    BY <2>1, <2>2, <2>3, <2>4 DEF Query
<1>4. PICK op \in Ops, next \in Places, i \in Nat, h \in Sym :
        /\ \/ op \in ByHeight /\ next = "GetHash" /\ i \in Heights
           \/ op \in ByHash /\ next = "getHeaderHeight" /\ h \in Hash
           \/ op \in Latest /\ next = "GetLatestHeight"
           \/ op = "getEvidence" /\ next = "getEvidenceHeight" /\ h \in Evidence
        /\ Ask(op, next, i, h)
  BY <1>3
<1>5. query' = [NoQuery EXCEPT !.op = op, !.asked = h, !.next = next,
                               !.height = i, !.hash = h, !.before = n]
  BY <1>2, <1>4 DEF Ask
<1>6. query' \in QueryType /\ Reading(query', kv, n)
  BY <1>4, <1>5, AskReading
<1> QED
  BY <1>1, <1>2, <1>6

\* Every view of the database takes a query a step on.
LEMMA ReadsOn ==
  ASSUME NEW n \in Nat \ {0}, n = kv[mLatestHeight], Has(mLatestHeight), Holds(kv, n),
         query \in QueryType, Reading(query, kv, n), Read
  PROVE  query' \in QueryType /\ Reading(query', kv, n)
<1>0. PICK q \in QueryType : q = query
  BY Zenon
<1>1. CASE GetLatestHeight
  <2>1. q.next = "GetLatestHeight" /\ query' = [q EXCEPT !.next = "GetHash", !.height = n]
    BY <1>0, <1>1 DEF GetLatestHeight, Step
  <2> QED
    BY <1>0, <2>1, LatestReading
<1>2. CASE GetHash
  <2>1. /\ q.next = "GetHash"
        /\ query' = IF hashKey(q.height) \in DOMAIN kv
                    THEN [q EXCEPT !.next = "getHeader", !.hash = At(kv, q.height)]
                    ELSE [q EXCEPT !.next = "done", !.found = FALSE]
    BY <1>0, <1>2 DEF GetHash, Step, Has, At
  <2> QED
    BY <1>0, <2>1, HashReading
<1>3. CASE getHeaderHeight
  <2>1. /\ q.next = "getHeaderHeight"
        /\ query' = IF headerHeightKey(q.hash) \in DOMAIN kv
                    THEN [q EXCEPT !.next = "getHeader",
                                   !.height = kv[headerHeightKey(q.hash)]]
                    ELSE [q EXCEPT !.next = "done", !.found = FALSE]
    BY <1>0, <1>3 DEF getHeaderHeight, Step, Has
  <2> QED
    BY <1>0, <2>1, HeightReading
<1>4. CASE getHeader
  <2> DEFINE header == kv[headerKey(q.height, q.hash)]
             r == IF q.op \in Whole /\ header.root # EmptyEvidenceRoot
                  THEN [q EXCEPT !.next = "getBlock", !.header = header.hash]
                  ELSE [q EXCEPT !.next = "done", !.header = header.hash, !.found = TRUE]
  <2>1. q.next = "getHeader"
    BY <1>0, <1>4 DEF getHeader, Step
  <2>2. /\ headerKey(q.height, q.hash) \in DOMAIN kv
        /\ r \in QueryType /\ Reading(r, kv, n)
    BY <1>0, <2>1, HeaderReading
  <2>3. query' = r
    BY <1>0, <1>4, <2>2 DEF getHeader, Step, Has
  <2> QED
    BY <2>2, <2>3
<1>5. CASE getBlock
  <2> DEFINE r == [q EXCEPT !.next = "getEvidence",
                            !.todo = kv[blockKey(q.height, q.hash)]]
  <2>1. q.next = "getBlock"
    BY <1>0, <1>5 DEF getBlock, Step
  <2>2. /\ blockKey(q.height, q.hash) \in DOMAIN kv
        /\ r \in QueryType /\ Reading(r, kv, n)
    BY <1>0, <2>1, BlockReading
  <2>3. query' = r
    BY <1>0, <1>5, <2>2 DEF getBlock, Step, Has
  <2> QED
    BY <2>2, <2>3
<1>6. CASE getEvidenceHeight
  <2>1. /\ q.next = "getEvidenceHeight"
        /\ query' = IF evidenceHeightKey(q.hash) \in DOMAIN kv
                    THEN [q EXCEPT !.next = "getEvidence", !.todo = <<q.hash>>,
                                   !.height = kv[evidenceHeightKey(q.hash)]]
                    ELSE [q EXCEPT !.next = "done", !.found = FALSE]
    BY <1>0, <1>6 DEF getEvidenceHeight, Step, Has
  <2> QED
    BY <1>0, <2>1, EvidenceHeightReading
<1>7. CASE getEvidence
  <2>1. PICK e : e = Head(q.todo)
    OBVIOUS
  <2> DEFINE m == [q EXCEPT !.todo = Tail(q.todo),
                            !.evds = Append(q.evds, kv[evidenceKey(q.height, e)])]
             r == IF Len(q.todo) > 1 THEN m
                  ELSE IF q.op = "getEvidence" THEN [m EXCEPT !.next = "GetHash"]
                  ELSE [m EXCEPT !.next = "done", !.found = TRUE]
  <2>2. q.next = "getEvidence"
    BY <1>0, <1>7 DEF getEvidence, Step
  <2>3. /\ evidenceKey(q.height, e) \in DOMAIN kv
        /\ r \in QueryType /\ Reading(r, kv, n)
    BY <1>0, <2>1, <2>2, EvidenceReading
  <2>4. query' = r
    BY <1>0, <1>7, <2>1, <2>3 DEF getEvidence, Step, Has
  <2> QED
    BY <2>3, <2>4
<1> QED
  BY <1>1, <1>2, <1>3, <1>4, <1>5, <1>6, <1>7 DEF Read

\* No query is on its way at the start.
LEMMA QueryInvInit == Init => QueryInv
BY NoQueryType DEF Init, QueryInv

\* A query stays on one block while blocks are stored between its views.
LEMMA QueryInvStep == StoreInv /\ QueryInv /\ [Next]_vars => QueryInv'
<1> SUFFICES ASSUME StoreInv, QueryInv, [Next]_vars PROVE QueryInv'
  OBVIOUS
<1>1. CASE PutGenesis
  <2>1. query = NoQuery /\ query' = query
    BY <1>1 DEF PutGenesis, StoreInv, Stored
  <2> QED
    BY <2>1, NoQueryType DEF QueryInv
<1>2. CASE PutBlock
  <2>1. query' = query
    BY <1>2 DEF PutBlock
  <2>2. CASE query = NoQuery
    BY <2>1, <2>2, NoQueryType DEF QueryInv
  <2>3. CASE query # NoQuery
    <3>1. PICK n \in Nat \ {0} : n = kv[mLatestHeight]
      BY <1>2, PutStep
    <3>2. /\ HasGenesis' /\ kv'[mLatestHeight] = n + 1
          /\ \A i \in 1 .. n : At(kv', i) = At(kv, i)
      BY <1>2, <3>1, PutStep
    <3>3. PICK m \in Nat : m = n + 1
      OBVIOUS
    <3>4. n <= m /\ kv'[mLatestHeight] = m
      BY <3>2, <3>3
    <3>5. Reading(query, kv, n)
      BY <2>3, <3>1 DEF QueryInv
    <3>6. Reading(query, kv', m)
      BY <3>1, <3>2, <3>4, <3>5, ReadingKept
    <3> QED
      BY <2>1, <3>2, <3>4, <3>6 DEF QueryInv
  <2> QED
    BY <2>2, <2>3
<1>3. CASE Query
  <2>1. /\ HasGenesis /\ kv' = kv /\ query' \in QueryType
        /\ Reading(query', kv, kv[mLatestHeight])
    BY <1>3, QueryStep
  <2> QED
    BY <2>1 DEF QueryInv, HasGenesis, Has
<1>4. CASE Read
  <2>1. kv' = kv /\ HasGenesis
    BY <1>4, ReadFrame
  <2>2. PICK n \in Nat \ {0} : n = kv[mLatestHeight]
    BY <2>1 DEF StoreInv, Stored
  <2>3. Has(mLatestHeight) /\ Holds(kv, n)
    BY <2>1, <2>2 DEF StoreInv, Stored
  <2>4. query.next # "done"
    BY <1>4 DEF Read, GetLatestHeight, GetHash, getHeaderHeight, getHeader, getBlock,
                getEvidenceHeight, getEvidence, Step
  <2>5. query \in QueryType /\ Reading(query, kv, n)
    BY <2>2, <2>4 DEF QueryInv, NoQuery
  <2>6. query' \in QueryType /\ Reading(query', kv, n)
    BY <1>4, <2>2, <2>3, <2>5, ReadsOn
  <2> QED
    BY <2>1, <2>2, <2>6 DEF QueryInv, HasGenesis, Has
<1>5. CASE Stop
  BY <1>5, NoQueryType DEF Stop, QueryInv
<1>6. CASE kv' = kv /\ query' = query
  BY <1>6 DEF QueryInv, HasGenesis, Has
<1> QED
  BY <1>1, <1>2, <1>3, <1>4, <1>5, <1>6 DEF Next, CheckHeight, vars

\* Both invariants hold in every reachable state.
LEMMA QueryInvariance == Spec => [](StoreInv /\ QueryInv)
<1>1. Init => StoreInv /\ QueryInv
  BY StoreInvInit, QueryInvInit
<1>2. (StoreInv /\ QueryInv) /\ [Next]_vars => (StoreInv /\ QueryInv)'
  BY StoreInvStep, QueryInvStep
<1> QED
  BY <1>1, <1>2, PTL DEF Spec

\* What the answers of a query come down to.
LEMMA AnswersWhole ==
  ASSUME StoreInv, QueryInv
  PROVE  ReadsWhole
<1>1. CASE ~Answered
  BY <1>1 DEF ReadsWhole
<1>2. CASE Answered
  <2>1. query.op # "none" /\ query.next = "done" /\ query # NoQuery
    BY <1>2 DEF Answered, NoQuery
  <2>2. HasGenesis /\ query \in QueryType
    BY <2>1 DEF QueryInv
  <2>3. PICK n \in Nat \ {0} : n = kv[mLatestHeight]
    BY <2>2 DEF StoreInv, Stored
  <2>4. Holds(kv, n) /\ Reading(query, kv, n) /\ query.before \in 1 .. n
    BY <2>1, <2>2, <2>3 DEF StoreInv, Stored, QueryInv, Reading
  <2>5. \A i \in 1 .. n : ledger[i] = At(kv, i)
    BY <2>2, <2>3, LedgerIs DEF StoreInv
  <2>6. CASE query.found
    <3>1. Found(query, kv, n)
      BY <2>1, <2>4, <2>6 DEF Reading
    <3>2. /\ query.height \in 1 .. n /\ query.hash = At(kv, query.height)
          /\ query.header = query.hash
      BY <3>1 DEF Found, Here
    <3>3. query.hash \in Hash /\ Depth[query.hash] = query.height
      BY <2>4, <3>2 DEF Holds, Heighted
    <3>4. query.op \in Whole =>
            /\ Root(query.evds) = Root(Evds[query.header])
            /\ query.evds # <<>> => Root(query.evds) =
                 TreeRoot([i \in DOMAIN query.evds |-> Leaf(query.evds[i])])
      <4> SUFFICES ASSUME query.op \in Whole
                   PROVE  /\ Root(query.evds) = Root(Evds[query.header])
                          /\ query.evds # <<>> => Root(query.evds) =
                               TreeRoot([i \in DOMAIN query.evds |-> Leaf(query.evds[i])])
        OBVIOUS
      <4>1. query.evds = Evds[query.hash]
        BY <3>1 DEF Found
      <4>2. Evds[query.hash] \in Seq(Evidence)
        BY <3>3, StoreAssumption
      <4>3. query.evds # <<>> => Root(query.evds) =
              TreeRoot([i \in DOMAIN query.evds |-> Leaf(query.evds[i])])
        BY <4>1, <4>2, RootIsTree
      <4> QED
        BY <3>2, <4>1, <4>3
    <3>5. query.op = "getEvidence" =>
            query.evds = <<query.asked>> /\ query.asked \in EvdsOf(query.header)
      BY <3>1, <3>2 DEF Found, Holder
    <3> QED
      BY <2>6, <3>2, <3>3, <3>4, <3>5 DEF ReadsWhole
  <2>7. CASE ~query.found
    <3>1. Missing(query, kv, n)
      BY <2>1, <2>4, <2>7 DEF Reading
    <3>2. \A i \in 1 .. query.before : ledger[i] = At(kv, i)
      BY <2>4, <2>5
    <3> QED
      BY <2>7, <3>1, <3>2 DEF ReadsWhole, Missing
  <2> QED
    BY <2>6, <2>7
<1> QED
  BY <1>1, <1>2

\* A query answers with one whole stored block, or fails only for what was not
\* stored when it began, wherever blocks are put and the process stops between
\* its views (badger.go getCPBlock, GetEvidenceViaHash, qcache.go getEvidence).
THEOREM QueriesReadWhole == Spec => []ReadsWhole
<1>1. StoreInv /\ QueryInv => ReadsWhole
  BY AnswersWhole
<1> QED
  BY <1>1, QueryInvariance, PTL
=============================================================================
