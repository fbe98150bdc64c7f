------------------------------ MODULE MCEvPool ------------------------------
(* Four pieces of evidence, two of them of the same weight. *)
EXTENDS EvPool

PoolWeight == [ev \in {"a", "b", "c", "d"} |->
                 CASE ev = "a" -> 1 [] ev = "b" -> 2 [] ev = "c" -> 2
                   [] ev = "d" -> 3]
=============================================================================
