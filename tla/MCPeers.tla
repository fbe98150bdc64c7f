------------------------------ MODULE MCPeers -------------------------------
(* One node among a seed and an ordinary peer. *)
EXTENDS Peers
=============================================================================
