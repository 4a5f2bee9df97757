------------------------------ MODULE MCDevice ------------------------------
(***************************************************************************)
(* Small instances of Device: one-bit addresses, the IPv4 default route    *)
(* written with and without host bits, an IPv4 host route, and the IPv6    *)
(* default route with host bits to clear.                                  *)
(***************************************************************************)
EXTENDS Device, TLC

Net(family, bits, len) == [family |-> family, bits |-> bits, len |-> len]

MCGiven == {Net(4, 1, 0), Net(4, 0, 0), Net(4, 1, 1), Net(6, 1, 0)}

Symmetry == Permutations(Key)
=============================================================================
