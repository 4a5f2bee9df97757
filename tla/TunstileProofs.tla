--------------------------- MODULE TunstileProofs ---------------------------
(***************************************************************************)
(* What is true of the packets while the program runs, for every file, MTU *)
(* and sequence of packets.  The steps of a packet on its way are the      *)
(* matter of DataPathProofs; here they are put behind main: it reads the   *)
(* file, and no packet is on its way before run_packets and after it.      *)
(***************************************************************************)
EXTENDS Tunstile, DataPathProofs

\* The inductive invariant: PathInv; outside of run_packets no packet is on
\* its way, so that a new MTU meets none; the MTU that parse_config returns
\* is a number.
IInv ==
  /\ PathInv
  /\ phase # "running" => PathInit
  /\ file \in Files \/ phase # "start"
  /\ \A c \in config : c.mtu \subseteq Nat

\* When main begins there is no packet, and no configuration yet.
LEMMA InitInv ==
  Init => IInv
<1> SUFFICES ASSUME Init PROVE IInv
  OBVIOUS
<1>1. /\ PathInit /\ mtu = 0 /\ file \in Files /\ config = {}
  BY Zenon DEF Init
<1>2. mtu \in Nat
  BY <1>1
<1>3. PathInv
  BY <1>1, <1>2, PathInitInv, Zenon
<1> QED
  BY <1>1, <1>3, Zenon DEF IInv

\* Every step of main, and every one of a packet while it runs, keeps IInv.
LEMMA NextInv ==
  IInv /\ [Next]_vars => IInv'
<1> SUFFICES ASSUME IInv, [Next]_vars PROVE IInv'
  OBVIOUS
<1>0. /\ PathInv /\ (phase # "running" => PathInit) /\ (file \in Files \/ phase # "start")
      /\ \A c \in config : c.mtu \subseteq Nat
  BY Zenon DEF IInv
<1>1. UNCHANGED <<path, mtu>> => PathInv'
  BY <1>0, PathStays, Zenon
<1>2. UNCHANGED path /\ PathInit => PathInit'
  BY Zenon DEF path, PathInit
<1>3. PathInit' /\ mtu' \in Nat => PathInv'
  BY PathInitNext, Zenon
<1>4. CASE ReadConfig
  <2>1. /\ phase = "start" /\ config' = parse_config(file) /\ UNCHANGED <<mtu, path>>
        /\ phase' \in {"rejected", "parsed"}
    BY <1>4, Zenon DEF ReadConfig
  <2>2. phase # "running" /\ phase' # "start" /\ phase' # "running"
    BY <2>1
  <2>3. \A c \in config' : c.mtu \subseteq Nat
    BY <1>0, <2>1, FileAssumption, Zenon
  <2> QED
    BY <1>0, <1>1, <1>2, <2>1, <2>2, <2>3, Zenon DEF IInv
<1>5. CASE CreateDevice
  <2>1. /\ phase = "parsed" /\ phase' \in {"peers", "failed"} /\ UNCHANGED <<config, path>>
        /\ mtu' = mtu \/ \E c \in config : mtu' \in c.mtu
    BY <1>5, Zenon DEF CreateDevice
  <2>2. phase # "running" /\ phase' # "start" /\ phase' # "running"
    BY <2>1
  <2>3. mtu' \in Nat
    BY <1>0, <2>1, Zenon DEF PathInv, WayInv, Types
  <2> QED
    BY <1>0, <1>2, <1>3, <2>1, <2>2, <2>3, Zenon DEF IInv
<1>6. CASE AddNextPeer \/ Up
  <2>1. /\ phase = "peers" /\ phase' \in {"peers", "failed", "up"}
        /\ UNCHANGED <<config, mtu, path>>
    BY <1>6, Zenon DEF AddNextPeer, Up
  <2>2. phase # "running" /\ phase' # "start" /\ phase' # "running"
    BY <2>1
  <2> QED
    BY <1>0, <1>1, <1>2, <2>1, <2>2, Zenon DEF IInv
<1>7. CASE RunPackets
  <2>1. phase' = "running" /\ config' = {} /\ PathNext /\ mtu' = mtu
    BY <1>7, Zenon DEF RunPackets
  <2>2. PathInv'
    BY <1>0, <2>1, PathNextInv, Zenon
  <2>3. phase' # "start"
    BY <2>1
  <2> QED
    BY <2>1, <2>2, <2>3, Zenon DEF IInv
<1>8. CASE Stop
  <2>1. phase' = "stopped" /\ mtu' = 0 /\ PathInit' /\ config' = config
    BY <1>8, Zenon DEF Stop, PathInit, NoBuffer
  <2>2. phase' # "start" /\ mtu' \in Nat
    BY <2>1
  <2> QED
    BY <1>0, <1>3, <2>1, <2>2, Zenon DEF IInv
<1>9. CASE UNCHANGED vars
  <2>1. UNCHANGED <<file, phase, config, mtu, path>>
    BY <1>9, Zenon DEF vars
  <2> QED
    BY <1>0, <1>1, <1>2, <2>1, Zenon DEF IInv
<1> QED
  BY <1>4, <1>5, <1>6, <1>7, <1>8, <1>9, Zenon DEF Next

\* So IInv holds from the start of the program to its end.
LEMMA InvHolds ==
  Spec => []IInv
BY InitInv, NextInv, PTL DEF Spec

\* Neither staging nor batching nor coalescing and splitting reorders or
\* repeats packets, from recv_tun on to the write to the other interface.
THEOREM PacketsStayInOrder ==
  Spec => []InOrder
<1>1. IInv => InOrder
  BY PathInvImplies, ZenonT(30) DEF IInv
<1> QED
  BY <1>1, InvHolds, PTL

\* A packet that try_send_packet took is on its way until it was written to the
\* other interface or dropped for one of the reasons the code has, and
\* recv_packet refuses none of them.
THEOREM NoPacketVanishes ==
  Spec => []NothingVanishes
<1>1. IInv => NothingVanishes
  BY PathInvImplies, ZenonT(30) DEF IInv
<1> QED
  BY <1>1, InvHolds, PTL

\* When packets have to wait for a session, the actor's stage gives up the
\* oldest of them: nothing it still has to send is older than a packet that
\* stage popped or handshake_due cleared.
THEOREM StagingDropsTheOldest ==
  Spec => []OldestIsDropped
<1>1. IInv => OldestIsDropped
  BY PathInvImplies, ZenonT(30) DEF IInv
<1> QED
  BY <1>1, InvHolds, PTL

\* What recv_packet hands to the interface has the length the header of the
\* packet that was read declares, whatever padding the message carried.
THEOREM LengthsAreRestored ==
  Spec => []LengthRestored
<1>1. IInv => LengthRestored
  BY PathInvImplies, ZenonT(30) DEF IInv
<1> QED
  BY <1>1, InvHolds, PTL

\* flush_sends asks the socket for segments of one length, within the limits
\* of a send, and no packet is padded beyond the MTU or a message.
THEOREM SendsFitTheSocket ==
  Spec => []SendFits
<1>1. IInv => SendFits
  BY PathInvImplies, ZenonT(30) DEF IInv
<1> QED
  BY <1>1, InvHolds, PTL
=============================================================================
