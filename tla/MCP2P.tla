------------------------------- MODULE MCP2P --------------------------------
(* Three nodes: two that dial each other, and a light one, whose address may *)
(* belong to one of the others by now.                                       *)
EXTENDS P2P, TLC

FindsAll == ("a" :> {"b", "c"}) @@ ("b" :> {"a"}) @@ ("c" :> {"b"})
MovedC == ("a" :> {}) @@ ("b" :> {}) @@ ("c" :> {"b"})
OneChain == [n \in {"a", "b", "c"} |-> 1]
=============================================================================
