------------------------------- MODULE MCPeer -------------------------------
(* TLC instance of Peer: the Listen goroutine l and one outside caller o.   *)
EXTENDS Peer, TLC

CONSTANTS l, o
=============================================================================
