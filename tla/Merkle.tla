------------------------------- MODULE Merkle -------------------------------
(***************************************************************************)
(* The root over the evidence of a block: core/merkle/merkle.go. A hash of *)
(* two nodes is the pair of them, so that equal roots mean equal trees.    *)
(***************************************************************************)
EXTENDS Naturals, Sequences, PowerOfTwo

Leaf(hash) == <<hash>>
HashOfTwo(left, right) == <<left, right>>

Ceil2(n) == (n + 1) \div 2

\* The k-th node of the next level replaces the k-th of this one, in place.
Overwrite(harray, k, n) ==
  [harray EXCEPT ![k] = IF 2 * k <= n THEN HashOfTwo(harray[2*k - 1], harray[2*k])
                        ELSE harray[2*k - 1]]

\* One pass of the inner loop and the cut of the array after it.
Pass(harray) ==
  LET n == Len(harray)
      after[k \in 0 .. Ceil2(n)] ==
        IF k = 0 THEN harray ELSE Overwrite(after[k-1], k, n)
  IN  [i \in 1 .. Ceil2(n) |-> after[Ceil2(n)][i]]

\* The outer loop ends at one node; a pass over one node changes nothing.
ComputeRoot(leafs) ==
  LET harray[i \in 0 .. Len(leafs)] ==
        IF i = 0 THEN leafs
        ELSE IF Len(harray[i-1]) = 1 THEN harray[i-1] ELSE Pass(harray[i-1])
  IN  harray[Len(leafs)][1]

-----------------------------------------------------------------------------
\* What the root should be: the tree whose left part is the largest complete
\* one that leaves something to its right. root[n][i] is over n leafs from i on.
Cut(n) == CHOOSE m \in {Pow2[k] : k \in 0 .. n} : m < n /\ n <= 2 * m

TreeRoot(leafs) ==
  LET root[n \in 1 .. Len(leafs)] ==
        [i \in 1 .. Len(leafs) - n + 1 |->
           IF n = 1 THEN leafs[i]
           ELSE HashOfTwo(root[Cut(n)][i], root[n - Cut(n)][i + Cut(n)])]
  IN  root[Len(leafs)][1]
=============================================================================
