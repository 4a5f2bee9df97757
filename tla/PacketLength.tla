---------------------------- MODULE PacketLength ----------------------------
(***************************************************************************)
(* The lengths of an IP packet (tunstile/src/lib.rs): the one its header   *)
(* declares and the one it is padded to for the transport.  A packet is    *)
(* its version, the IPv4 header length in words, the length its header     *)
(* declares and the bytes it really has.                                   *)
(***************************************************************************)
EXTENDS Integers

CONSTANTS TRANSPORT_PADDING_MULTIPLE, MAX_PLAINTEXT_SIZE

ASSUME LengthAssumption ==
  /\ TRANSPORT_PADDING_MULTIPLE \in Nat \ {0}
  /\ MAX_PLAINTEXT_SIZE \in Nat
  /\ MAX_PLAINTEXT_SIZE % TRANSPORT_PADDING_MULTIPLE = 0

Least(a, b) == IF a < b THEN a ELSE b

Packet == [version : Nat, ihl : Nat, declared : Nat, size : Nat]

\* The length packet_info finds, as a set of at most one.
packet_info(p) ==
  LET header_len == 4 * p.ihl
      len == IF p.version = 4 THEN p.declared ELSE 40 + p.declared
      valid == \/ /\ p.version = 4 /\ p.size >= 20
                  /\ header_len >= 20 /\ len >= header_len /\ len <= p.size
               \/ /\ p.version = 6 /\ p.size >= 40
                  /\ len <= p.size
  IN  IF valid THEN {len} ELSE {}

\* max_packet_size, from the configured MTU
start(mtu) == Least(mtu, MAX_PLAINTEXT_SIZE)

\* usize::next_multiple_of
next_multiple_of(n, m) == m * ((n + m - 1) \div m)

\* The padded length, as a set of at most one.
pad_packet(len, max) ==
  IF len > max THEN {}
  ELSE {Least(next_multiple_of(len, TRANSPORT_PADDING_MULTIPLE), max)}
=============================================================================
