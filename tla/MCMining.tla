------------------------------ MODULE MCMining ------------------------------
(* The weights of the evidence that reaches the pool. *)
EXTENDS Mining

MineWeight == [ev \in Evidence |-> IF ev = "a" THEN 1 ELSE 2]
=============================================================================
