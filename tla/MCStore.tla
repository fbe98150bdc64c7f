------------------------------ MODULE MCStore ------------------------------
EXTENDS Store

\* Two branches; sibling blocks share an evidence and have one miner.
MCHash == {"g", "a1", "a2", "a3", "b1", "b2", "b3"}
MCParent == [h \in MCHash \ {"g"} |->
               CASE h \in {"a1", "b1"} -> "g" [] h \in {"a2", "b2"} -> "a1"
                 [] h = "a3" -> "a2" [] h = "b3" -> "b2"]
MCDepth == [h \in MCHash |-> CASE h = "g" -> 1 [] h \in {"a1", "b1"} -> 2
                               [] h \in {"a2", "b2"} -> 3 [] OTHER -> 4]
MCEvds == [h \in MCHash |->
             CASE h = "a1" -> <<"x", "y">> [] h = "b1" -> <<"y">>
               [] h = "a2" -> <<"s", "z", "w", "t", "u">>
               [] h = "b2" -> <<"t", "w", "s">>
               [] h = "b3" -> <<"z">>
               [] OTHER -> <<>>]
MCPubKey == [e \in {"s", "t", "u", "w", "x", "y", "z"} |->
               IF e \in {"y", "t"} THEN "k2" ELSE "k1"]
MCMiner == [h \in MCHash |-> IF h \in {"a2", "b1"} THEN "k2" ELSE "k1"]
=============================================================================
