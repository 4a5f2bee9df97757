---------------------------- MODULE MCTunnelPair ----------------------------
(* A small instance of TunnelPair.                                         *)
EXTENDS TunnelPair
=============================================================================
