--------------------------- MODULE MCConnections ---------------------------
(***************************************************************************)
(* Connections for TLC.  Two ids and two addresses: two futures, the event *)
(* loop and the control loop race for the same connections.                *)
(***************************************************************************)
EXTENDS Connections

CONSTANTS a, b

MCStartup == [p \in {1} |-> a]
=============================================================================
