------------------------------ MODULE MCPeerIO ------------------------------
(***************************************************************************)
(* PeerIO for TLC.  A message of one byte and one of three, longer than    *)
(* what one read_ahead or socket read moves (two) and than what the socket *)
(* takes at once (two), and one that does not decode.                      *)
(***************************************************************************)
EXTENDS PeerIO

CONSTANTS short, long, bad

MCMessage == {short, long, bad}
MCSize == [m \in MCMessage |-> IF m = long THEN 3 ELSE 1]
=============================================================================
