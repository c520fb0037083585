----------------------------- MODULE MCPeerWatch -----------------------------
(***************************************************************************)
(* Instances of PeerWatch.                                                 *)
(***************************************************************************)
EXTENDS PeerWatch

Kinds == {"Headers", "Pong"}

=============================================================================
