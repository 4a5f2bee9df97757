---------------------------- MODULE MCPeerActor -----------------------------
(* Small instances of PeerActor.                                           *)
EXTENDS PeerActor
=============================================================================
