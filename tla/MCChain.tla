------------------------------ MODULE MCChain ------------------------------
(* Small block trees for TLC. Blocks are numbers, 1 is the genesis block. *)
EXTENDS Chain

\* 1 - 2 - 3 - 4 - 5 - 6 - 12 a main chain, long enough to be evicted from. 12
\*         | - 7 - 8 - 9      has the evidence of 2, which has left the cache by
\*          \- 10 - 11        then. A fork that can tie with it, and one mined by
\*                            this node. 5 and 8 carry the same evidence.
ForkParent == [h \in 2 .. 12 |-> CASE h \in 2 .. 6 -> h - 1
                                   [] h \in {7, 10} -> 3
                                   [] h \in {8, 9, 11} -> h - 1
                                   [] h = 12 -> 6]
DepthOf(parent) ==
  LET d[h \in 1 .. 20] == IF h = 1 THEN 1 ELSE d[parent[h]] + 1
  IN  [h \in {1} \cup DOMAIN parent |-> d[h]]
ForkDepth == DepthOf(ForkParent)

\* Every run of consecutive blocks of at most n blocks, taken from hs.
Segments(parent, hs, n) ==
  UNION {{s \in [1 .. k -> hs] :
            \A i \in 2 .. k : parent[s[i]] = s[i-1]} : k \in 1 .. n}
ForkBatches == Segments(ForkParent, 2 .. 9, 2) \cup {<<12>>}
ForkEvds == [h \in 1 .. 12 |-> CASE h \in {2, 12} -> {"e1"}
                                 [] h \in {5, 8} -> {"e2"}
                                 [] OTHER -> {}]

\* 1 - 2 - 3 - 4 - 5 - 11     the main chain; 11 carries the evidence of 2,
\* |       \- 9               which has left the cache by then. 9 is refused:
\* | - 6 - 7 - 8              it fails its proof of work. A fork, 7 is ahead
\*     \- 10                  of the clock, 10 is refused; 5 and 8 carry the same
\*                            evidence on two branches.
FaultParent == [h \in 2 .. 11 |-> CASE h \in {2, 3, 4, 5, 7, 8} -> h - 1
                                    [] h = 6 -> 1
                                    [] h = 9 -> 3
                                    [] h = 10 -> 6
                                    [] h = 11 -> 5]
FaultDepth == DepthOf(FaultParent)
\* <<3, 5>> skips a block.
FaultBatches == Segments(FaultParent, 2 .. 11, 2) \cup {<<3, 5>>}
FaultEvds == [h \in 1 .. 11 |-> CASE h \in {2, 11} -> {"e1"}
                                  [] h \in {5, 8} -> {"e2"}
                                  [] OTHER -> {}]
============================================================================
