------------------------------ MODULE DataPath ------------------------------
(***************************************************************************)
(* The way of IP packets from the interface of one device to that of       *)
(* another: recv_tun and try_send_packet, the actor's queue, staging and   *)
(* batches, the segments of one send, the buffers the other socket         *)
(* coalesces them into, the read loop that splits them, its actor, and     *)
(* recv_packet.                                                            *)
(*                                                                         *)
(* A packet on its way is its number in the order it was read, 0 for a     *)
(* message without one, and its length.  The session is the number of      *)
(* messages it still encrypts.  The network keeps what it takes, in order; *)
(* loss and reordering are the matter of PeerPair.                         *)
(***************************************************************************)
EXTENDS PacketLength, Sequences, Functions, FiniteSetsExt

CONSTANTS
  TRANSPORT_OVERHEAD, INIT_MSG_LENGTH, MAX_MESSAGE_SIZE,
  BATCH_SIZE, MAX_GSO_SEGMENTS,
  PEER_ACTION_QUEUE_CAPACITY, MAX_STAGED_PACKETS, INBOUND_QUEUE_CAPACITY,
  Plain,      \* packets that may follow one another
  Odd,        \* packets that are read alone
  Routed,     \* packets whose destination some peer allows
  MaxPackets, \* bound: packets read
  MaxCredit   \* bound: messages a session encrypts

ASSUME PathAssumption ==
  /\ TRANSPORT_OVERHEAD \in Nat \ {0} /\ INIT_MSG_LENGTH \in Nat
  /\ MAX_MESSAGE_SIZE \in Nat /\ MAX_PLAINTEXT_SIZE + TRANSPORT_OVERHEAD <= MAX_MESSAGE_SIZE
  /\ {BATCH_SIZE, MAX_GSO_SEGMENTS, PEER_ACTION_QUEUE_CAPACITY, MAX_STAGED_PACKETS,
      INBOUND_QUEUE_CAPACITY, MaxCredit} \subseteq Nat \ {0}
  /\ Plain \cup Odd \subseteq Packet

VARIABLES
  mtu,       \* the configured MTU
  read,      \* history: the packets the interface handed over
  queue,     \* SendData actions of the sending actor
  credit,    \* messages its session still encrypts, 0 without one
  staged,    \* packets staged for a session
  sending,   \* packets flush_sends has still to send
  wire,      \* datagrams between the sockets
  buffer,    \* the buffer read_loop is cutting: its stride and what is left
  received,  \* RecvData actions of the receiving actor
  inbound,   \* payloads of the receiving tunnel
  delivered, \* packets written to the other interface
  dropped    \* history: packets given up, and why

path == <<read, queue, credit, staged, sending, wire, buffer, received, inbound, delivered,
          dropped>>

NoBuffer == [stride |-> 0, rest |-> <<>>]

PathInit ==
  /\ read = <<>> /\ queue = <<>> /\ credit = 0 /\ staged = <<>> /\ sending = <<>>
  /\ wire = <<>> /\ buffer = NoBuffer
  /\ received = <<>> /\ inbound = <<>> /\ delivered = <<>> /\ dropped = {}

Drop(items, why) == {[n |-> i.n, why |-> why] : i \in Range(items)}

-----------------------------------------------------------------------------
(* The sending device.                                                     *)

\* recv_tun: the buffer holds mtu bytes.
Recv(p) == [p EXCEPT !.size = Least(@, mtu)]

\* prepare_outbound_packet: the padded length, as a set of at most one
prepare_outbound_packet(p) ==
  UNION {pad_packet(len, start(mtu)) : len \in packet_info(p)}

\* An iteration of run_packets that reads the interface: try_send_packet.
ReadInterface(p) ==
  /\ Len(read) < MaxPackets /\ \A i \in DOMAIN read : read[i] \in Plain
  /\ p \in Plain \/ read = <<>>
  /\ read' = Append(read, p)
  /\ LET item(len) == <<[n |-> Len(read'), len |-> len]>>
         padded == prepare_outbound_packet(Recv(p))
         why == CASE padded = {} -> "unfit"
                  [] padded # {} /\ p \notin Routed -> "unrouted"
                  [] OTHER -> "full"
     IN  IF padded # {} /\ p \in Routed /\ Len(queue) < PEER_ACTION_QUEUE_CAPACITY
         THEN /\ \E len \in padded : queue' = queue \o item(len)
              /\ UNCHANGED dropped
         ELSE /\ dropped' = dropped \cup Drop(item(0), why)
              /\ UNCHANGED queue
  /\ UNCHANGED <<credit, staged, sending, wire, buffer, received, inbound, delivered>>

-----------------------------------------------------------------------------
(* The sending actor.                                                      *)

packet_len(n) == TRANSPORT_OVERHEAD + n

\* Mutant: only the segments are counted, not their bytes.
MaxSegmentsAlone(size) == MAX_GSO_SEGMENTS

max_batch_segments(size) ==
  Max({1, Least(MAX_GSO_SEGMENTS, MAX_MESSAGE_SIZE \div size)})

\* How many of the payloads go into the first batch: those of one length.
BatchEnd(payloads) ==
  LET size == packet_len(payloads[1].len)
  IN  Max({e \in 1 .. Len(payloads) :
             /\ e <= max_batch_segments(size)
             /\ \A i \in 1 .. e : packet_len(payloads[i].len) = size})

\* The datagrams of one send_segments.
Datagrams(batch) ==
  [i \in DOMAIN batch |-> [type |-> "data", n |-> batch[i].n, len |-> packet_len(batch[i].len)]]

\* The packets from the one numbered `first` on are kept, those before it lost.
Keep(all, first) ==
  [kept |-> SubSeq(all, first, Len(all)), lost |-> SubSeq(all, 1, first - 1)]

\* Mutant: what could not be sent goes before what was staged earlier.
StageFront(old, payloads) ==
  Keep(payloads \o old, Max({1, Len(old \o payloads) - MAX_STAGED_PACKETS + 1}))

\* Mutant: a full stage turns new packets away.
StageOldest(old, payloads) ==
  LET all == old \o payloads
      n == Least(MAX_STAGED_PACKETS, Len(all))
  IN  [kept |-> SubSeq(all, 1, n), lost |-> SubSeq(all, n + 1, Len(all))]

\* stage pops the oldest to make room.
stage(old, payloads) ==
  Keep(old \o payloads, Max({1, Len(old \o payloads) - MAX_STAGED_PACKETS + 1}))

Control(type, len) == <<[type |-> type, n |-> 0, len |-> len]>>

\* Bound: one message without a packet is under way at a time.
Quiet == \A d \in Range(wire \o buffer.rest \o received) : d.n # 0

\* What recv_many takes.
Gathered == SubSeq(queue, 1, Least(BATCH_SIZE, Len(queue)))

\* The actor takes what is queued and calls flush_sends.  It does nothing else
\* until that is through.
SendQueued ==
  /\ sending = <<>> /\ queue # <<>>
  /\ sending' = Gathered
  /\ queue' = SubSeq(queue, Len(Gathered) + 1, Len(queue))
  /\ UNCHANGED <<read, credit, staged, wire, buffer, received, inbound, delivered, dropped>>

\* An iteration of the loop of flush_sends, up to its await: as much of a batch
\* as the session encrypts goes to the socket, which takes it or fails.
SendBatch ==
  /\ sending # <<>> /\ credit > 0
  /\ LET n == Least(BatchEnd(sending), credit)
         batch == SubSeq(sending, 1, n)
     IN  /\ sending' = SubSeq(sending, n + 1, Len(sending))
         /\ credit' = credit - n
         /\ \/ wire' = wire \o Datagrams(batch) /\ UNCHANGED dropped
            \/ dropped' = dropped \cup Drop(batch, "socket") /\ UNCHANGED wire
  /\ UNCHANGED <<read, queue, staged, buffer, received, inbound, delivered>>

\* flush_sends is stalled: what is left is staged and a handshake is started.
StageRest ==
  /\ sending # <<>> /\ credit = 0
  /\ staged' = stage(staged, sending).kept
  /\ dropped' = dropped \cup Drop(stage(staged, sending).lost, "staged")
  /\ sending' = <<>>
  /\ wire' = IF Quiet THEN wire \o Control("init", INIT_MSG_LENGTH) ELSE wire
  /\ UNCHANGED <<read, queue, credit, buffer, received, inbound, delivered>>

\* session_established: the staged packets go to flush_sends; with nothing
\* staged the initiator sends a keepalive, the responder nothing.
Establish ==
  /\ sending = <<>> /\ credit = 0
  /\ sending' = staged /\ staged' = <<>>
  /\ \/ credit' = MaxCredit /\ UNCHANGED wire
     \/ /\ staged = <<>> /\ Quiet
        /\ credit' = MaxCredit - 1
        /\ wire' \in {wire, wire \o Control("data", packet_len(0))}
  /\ UNCHANGED <<read, queue, buffer, received, inbound, delivered, dropped>>

\* handshake_due after REKEY_ATTEMPT_TIME: what is staged is given up.
Abandon ==
  /\ sending = <<>> /\ staged # <<>>
  /\ staged' = <<>>
  /\ dropped' = dropped \cup Drop(staged, "staged")
  /\ UNCHANGED <<read, queue, credit, sending, wire, buffer, received, inbound, delivered>>

\* The session is refused from now on.  flush_sends reads the clock once, so
\* this does not happen while it runs.
Expire ==
  /\ sending = <<>> /\ credit > 0 /\ credit' = 0
  /\ UNCHANGED <<read, queue, staged, sending, wire, buffer, received, inbound, delivered,
                 dropped>>

-----------------------------------------------------------------------------
(* The receiving device.                                                   *)

\* The bytes of datagrams of the length `stride`, but for the last.
Bytes(stride, group) == (Len(group) - 1) * stride + group[Len(group)].len

\* What the socket may hand over in one buffer: datagrams of one length, the
\* last of which may be shorter.
Coalesced(group) ==
  /\ \A i \in 1 .. Len(group) - 1 : group[i].len = group[1].len
  /\ group[Len(group)].len <= group[1].len
  /\ Bytes(group[1].len, group) <= MAX_MESSAGE_SIZE

\* socket.recv hands a buffer to read_loop, which is through with the last.
RecvBuffer(k) ==
  /\ buffer = NoBuffer
  /\ k <= Len(wire) /\ Coalesced(SubSeq(wire, 1, k))
  /\ buffer' = [stride |-> wire[1].len, rest |-> SubSeq(wire, 1, k)]
  /\ wire' = SubSeq(wire, k + 1, Len(wire))
  /\ UNCHANGED <<read, queue, credit, staged, sending, received, inbound, delivered, dropped>>

\* Mutant: only whole strides are taken from the buffer.
WholeStride(stride, left) == IF left < stride THEN 0 ELSE stride

\* The length of the next segment when `left` bytes are left; 0 ends the loop.
SegmentLen(stride, left) == Least(stride, left)

\* MessageHeader::try_from accepts the datagram: its length fits its type.
Header(d) ==
  CASE d.type = "init" -> d.len = INIT_MSG_LENGTH
    [] d.type = "data" -> d.len >= packet_len(0)

\* An iteration of the while loop over the buffer.  Data that passes goes to
\* the actor's queue if that has room.  Of a segment that is not a datagram,
\* and what follows it, nothing is understood.
ReadSegment ==
  /\ buffer.rest # <<>>
  /\ LET d == Head(buffer.rest)
         whole == SegmentLen(buffer.stride, Bytes(buffer.stride, buffer.rest)) = d.len
         data == whole /\ Header(d) /\ d.type = "data"
         room == Len(received) < PEER_ACTION_QUEUE_CAPACITY
     IN  /\ buffer' = IF whole /\ Len(buffer.rest) > 1
                      THEN [buffer EXCEPT !.rest = Tail(@)] ELSE NoBuffer
         /\ received' = IF data /\ room THEN Append(received, d) ELSE received
         /\ dropped' = IF data /\ ~room THEN dropped \cup Drop(<<d>>, "full") ELSE dropped
  /\ UNCHANGED <<read, queue, credit, staged, sending, wire, inbound, delivered>>

\* The actor's RecvData: a payload goes to the inbound queue if that has room.
ReceiveData ==
  /\ received # <<>>
  /\ received' = Tail(received)
  /\ LET d == Head(received)
         payload == [n |-> d.n, len |-> d.len - TRANSPORT_OVERHEAD]
     IN  IF payload.len = 0 THEN UNCHANGED <<inbound, dropped>>
         ELSE IF Len(inbound) < INBOUND_QUEUE_CAPACITY
         THEN inbound' = Append(inbound, payload) /\ UNCHANGED dropped
         ELSE dropped' = dropped \cup Drop(<<payload>>, "full") /\ UNCHANGED inbound
  /\ UNCHANGED <<read, queue, credit, staged, sending, wire, buffer, delivered>>

\* Mutant: the padding is handed to the interface.
WritePadded ==
  /\ inbound # <<>>
  /\ inbound' = Tail(inbound)
  /\ delivered' = Append(delivered, Head(inbound))
  /\ UNCHANGED <<read, queue, credit, staged, sending, wire, buffer, received, dropped>>

\* An iteration of run_packets that receives: recv_packet, whose source
\* check passes, then the write to the interface.
WriteInterface ==
  /\ inbound # <<>>
  /\ inbound' = Tail(inbound)
  /\ LET p == Head(inbound)
         len == packet_info([read[p.n] EXCEPT !.size = p.len])
     IN  IF len = {}
         THEN dropped' = dropped \cup Drop(<<p>>, "refused") /\ UNCHANGED delivered
         ELSE /\ \E size \in len : delivered' = Append(delivered, [p EXCEPT !.len = size])
              /\ UNCHANGED dropped
  /\ UNCHANGED <<read, queue, credit, staged, sending, wire, buffer, received>>

PathNext ==
  \/ \E p \in Plain \cup Odd : ReadInterface(p)
  \/ SendQueued \/ SendBatch \/ StageRest \/ Establish \/ Abandon \/ Expire
  \/ \E k \in 1 .. Len(wire) : RecvBuffer(k)
  \/ ReadSegment \/ ReceiveData \/ WriteInterface

-----------------------------------------------------------------------------
(* Properties.                                                             *)

\* Where packets are on their way, from the far end on.
Way == <<delivered, inbound, received, buffer.rest, wire, staged, sending, queue>>

\* The numbers of the packets at a place.
Numbers(items) == {item.n : item \in Range(items)} \ {0}

\* The numbers of the packets in a sequence increase.
Increasing(items) ==
  \A i, j \in DOMAIN items :
    i < j /\ items[i].n # 0 /\ items[j].n # 0 => items[i].n < items[j].n

\* Neither staging nor batching nor coalescing and splitting reorders or
\* repeats packets.
InOrder ==
  /\ \A a \in DOMAIN Way : Increasing(Way[a])
  /\ \A a, b \in DOMAIN Way :
       a < b => \A m \in Numbers(Way[a]), n \in Numbers(Way[b]) : m < n

\* No packet vanishes: each is on its way or was given up for a reason, and
\* one that the first device accepted is never refused by the other.
NothingVanishes ==
  \A n \in DOMAIN read :
    \/ \E a \in DOMAIN Way : n \in Numbers(Way[a])
    \/ \E d \in dropped :
         /\ d.n = n /\ d.why # "refused"
         /\ d.why = "unfit" => \A len \in packet_info(read[n]) : len > start(mtu)

\* Of the packets that wait, staging gives up the oldest: one it dropped is
\* older than every packet still to be sent.
OldestIsDropped ==
  \A d \in dropped :
    d.why = "staged" =>
      \A n \in Numbers(staged) \cup Numbers(sending) \cup Numbers(queue) : d.n < n

\* The other interface gets the packet its header declares, without the
\* padding and without the trailing bytes the first one handed over.
LengthRestored ==
  \A d \in Range(delivered) : {d.len} = packet_info(read[d.n])

\* What the actor is about to send in one call fits the socket: segments of
\* one length, no more than it takes, within the size of a message.  A
\* packet is padded to the multiple as far as the MTU allows, not beyond.
SendFits ==
  /\ sending # <<>> =>
       LET n == BatchEnd(sending)
       IN  /\ n <= MAX_GSO_SEGMENTS
           /\ n * packet_len(sending[1].len) <= MAX_MESSAGE_SIZE
           /\ \A i \in 1 .. n : sending[i].len = sending[1].len
  /\ \A i \in DOMAIN queue :
       /\ queue[i].len <= mtu /\ queue[i].len <= MAX_PLAINTEXT_SIZE
       /\ queue[i].len % TRANSPORT_PADDING_MULTIPLE = 0 \/ queue[i].len = mtu
=============================================================================
