------------------------------- MODULE MCSync -------------------------------
(* A node that starts behind two others or ahead of them, and a pair of      *)
(* nodes that find blocks of their own.                                      *)
EXTENDS Sync, TLC

\* 1 - 2 - 3 - 4 - 6
\*         | - 5
TreeParent == (2 :> 1) @@ (3 :> 2) @@ (4 :> 3) @@ (5 :> 3) @@ (6 :> 4)
TreeDepth == (1 :> 1) @@ (2 :> 2) @@ (3 :> 3) @@ (4 :> 4) @@ (5 :> 4) @@ (6 :> 5)

Star == ("c" :> {"p", "q"}) @@ ("p" :> {"c"}) @@ ("q" :> {"c"})
StartStar == {("c" :> h) @@ ("p" :> 3) @@ ("q" :> 3) : h \in {1, 4}}
MinesStar == ("c" :> {}) @@ ("p" :> {}) @@ ("q" :> {5})

\* One early tick or one early timeout.
Either == {<<1, 0>>, <<0, 1>>}

Pair == ("c" :> {"p"}) @@ ("p" :> {"c"})
StartPair == {("c" :> 2) @@ ("p" :> 3)}
MinesPair == ("c" :> {5}) @@ ("p" :> {4, 6})
=============================================================================
