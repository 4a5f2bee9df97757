---------------------------- MODULE MCPeerPair -----------------------------
(* Small instances of PeerPair.  The nodes may be interchanged when both    *)
(* initiate, and the pre-shared keys always.                                *)
EXTENDS PeerPairNoise, TLC

Symmetry == Permutations(Node)

SymPsk == Permutations(Psk)
=============================================================================
