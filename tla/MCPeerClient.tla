---------------------------- MODULE MCPeerClient ----------------------------
(* One borrower, or two goroutines, use the client.  The channels hold one *)
(* request each, so that the writer and the callers meet full channels.    *)
EXTENDS PeerClient

CONSTANTS p, q
=============================================================================
