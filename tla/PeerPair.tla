------------------------------ MODULE PeerPair ------------------------------
(***************************************************************************)
(* Two peers of each other, each the sans-I/O protocol::Peer (PeerMachine) *)
(* under an arbitrary driver, over a network that loses, delays,           *)
(* duplicates and reorders datagrams.  An action is one call of a method   *)
(* of Peer together with what its contract asks of the driver: draw a      *)
(* fresh index and ephemeral, stop routing the index the method returns,   *)
(* route the new one.  The timers that decide when tunnel/src/actor.rs     *)
(* makes these calls are left to the driver, so what holds here holds for  *)
(* every schedule.                                                         *)
(*                                                                         *)
(* A datagram that was sent stays in its set and may be delivered any      *)
(* number of times or never.  A call that returns an error changes nothing *)
(* and is not a step.                                                      *)
(***************************************************************************)
EXTENDS PeerMachine

CONSTANTS
  Node,         \* the two tunnels
  Psk,          \* values of the pre-shared key
  Initiators,   \* nodes whose driver ever starts a handshake
  MaxSerial,    \* bound: handshakes a node takes part in
  MaxTimestamp, \* bound: wall-clock readings are 1 .. MaxTimestamp
  MaxTime,      \* bound: ticks of the monotonic clock
  MaxRestart    \* bound: times a peer is removed and added again

ASSUME PairAssumption ==
  /\ \E a, b \in Node : a # b /\ Node = {a, b}
  /\ Psk # {}
  /\ Initiators \subseteq Node
  /\ Limit \in Nat /\ Window \in Nat
  /\ REJECT_AFTER_TIME \in Nat \ {0}
  /\ MaxSerial \in Nat /\ MaxTimestamp \in Nat
  /\ MaxTime \in Nat /\ MaxRestart \in Nat

VARIABLES
  peer,      \* node -> its peer record
  routed,    \* node -> receiver indices the driver routes to the peer
  serial,    \* node -> handshakes so far: numbers indices and ephemerals
  restarts,  \* times a peer was removed and added again
  now,       \* monotonic time
  inits,     \* initiations sent
  resps,     \* responses sent
  datas,     \* transport data messages sent
  answered,  \* history: node -> initiations answered since registration
  delivered  \* history: node -> data messages accepted

net == <<inits, resps, datas>>

vars == <<peer, routed, serial, restarts, now, net, answered, delivered>>

Other(n) == CHOOSE m \in Node : m # n

Init ==
  /\ peer \in [Node -> {NewPeer(psk) : psk \in Psk}]
  /\ routed = [n \in Node |-> {}]
  /\ serial = [n \in Node |-> 0]
  /\ restarts = 0
  /\ now = 0
  /\ inits = {} /\ resps = {} /\ datas = {}
  /\ answered = [n \in Node |-> {}]
  /\ delivered = [n \in Node |-> {}]

-----------------------------------------------------------------------------
\* Take the result of a method: store the record, stop routing the index it
\* returns, route the new one.
Apply(n, result, bound) ==
  /\ peer' = [peer EXCEPT ![n] = result.peer]
  /\ routed' = [routed EXCEPT ![n] = (@ \ result.retired) \cup bound]

\* A fresh random index and ephemeral secret.
Draw(n) ==
  /\ serial[n] < MaxSerial
  /\ serial' = [serial EXCEPT ![n] = @ + 1]

\* Peer::initiate, a first attempt or a retransmission
Initiate(n, timestamp) ==
  LET index == serial[n]
      init == InitMessage(n, Other(n), index, index, timestamp)
  IN  /\ n \in Initiators
      /\ Draw(n)
      /\ Apply(n, initiate(peer[n], index, init.hs), {index})
      /\ inits' = inits \cup {init}
      /\ UNCHANGED <<restarts, now, resps, datas, answered, delivered>>

\* Peer::abandon_handshake
AbandonHandshake(n) ==
  /\ peer[n].pending # {}
  /\ Apply(n, abandon_handshake(peer[n]), {})
  /\ UNCHANGED <<serial, restarts, now, net, answered, delivered>>

\* Peer::respond
Respond(n, init) ==
  LET index == serial[n]
      resp == RespMessage(init, index, index, peer[n].psk)
      transport == ResponderTransport(index, init, resp.key)
  IN  /\ receive(n, init)
      /\ Newer(peer[n], init)
      /\ Draw(n)
      /\ Apply(n, respond(peer[n], init, transport, Other(n), now), {index})
      /\ resps' = resps \cup {resp}
      /\ answered' = [answered EXCEPT ![n] = @ \cup {init}]
      /\ UNCHANGED <<restarts, now, inits, datas, delivered>>

\* Peer::handshake_response
HandshakeResponse(n, resp) ==
  \E pending \in peer[n].pending :
    LET transport == InitiatorTransport(pending, peer[n].psk, resp)
    IN  /\ response_received(pending, peer[n].psk, resp)
        /\ Apply(n, handshake_response(peer[n], transport, Other(n), now), {})
        /\ UNCHANGED <<serial, restarts, now, net, answered, delivered>>

\* Peer::encrypt
Encrypt(n) ==
  /\ can_encrypt(peer[n], now)
  /\ datas' = datas \cup {Sealed(peer[n], now)}
  /\ peer' = [peer EXCEPT ![n] = encrypt(@)]
  /\ UNCHANGED <<routed, serial, restarts, now, inits, resps, answered, delivered>>

\* Peer::decrypt
Decrypt(n, data) ==
  /\ can_decrypt(peer[n], data, now)
  /\ \E slot \in Addressed(peer[n], data.receiver) :
       Apply(n, decrypt(peer[n], slot, data, Other(n)), {})
  /\ delivered' = [delivered EXCEPT ![n] = @ \cup {data}]
  /\ UNCHANGED <<serial, restarts, now, net, answered>>

\* Peer::set_preshared_key
SetPresharedKey(n, psk) ==
  /\ psk # peer[n].psk
  /\ peer' = [peer EXCEPT ![n] = set_preshared_key(@, psk)]
  /\ UNCHANGED <<routed, serial, restarts, now, net, answered, delivered>>

\* Peer::set_endpoint
SetEndpoint(n) ==
  /\ peer[n].endpoint # {Other(n)}
  /\ peer' = [peer EXCEPT ![n] = set_endpoint(@, Other(n))]
  /\ UNCHANGED <<routed, serial, restarts, now, net, answered, delivered>>

\* The peer is removed, its indices purged, and it is added again.
Restart(n) ==
  /\ restarts < MaxRestart
  /\ restarts' = restarts + 1
  /\ peer' = [peer EXCEPT ![n] = NewPeer(@.psk)]
  /\ routed' = [routed EXCEPT ![n] = {}]
  /\ answered' = [answered EXCEPT ![n] = {}]
  /\ UNCHANGED <<serial, now, net, delivered>>

Tick ==
  /\ now < MaxTime
  /\ now' = now + 1
  /\ UNCHANGED <<peer, routed, serial, restarts, net, answered, delivered>>

Next ==
  \/ \E n \in Node :
       \/ \E timestamp \in 1 .. MaxTimestamp : Initiate(n, timestamp)
       \/ AbandonHandshake(n)
       \/ \E init \in inits : Respond(n, init)
       \/ \E resp \in resps : HandshakeResponse(n, resp)
       \/ Encrypt(n)
       \/ \E data \in datas : Decrypt(n, data)
       \/ \E psk \in Psk : SetPresharedKey(n, psk)
       \/ SetEndpoint(n)
       \/ Restart(n)
  \/ Tick

Spec == Init /\ [][Next]_vars

-----------------------------------------------------------------------------
(* Properties.                                                             *)

Hs == [initiator : Node, responder : Node, eph : Nat, timestamp : Nat \ {0}]

Keys == [hs : Hs, eph : Nat, psk : Psk]

AeadKeys == [key : Keys, dir : {1, 2}]

Pending == [index : Nat, hs : Hs]

Session ==
  [index : Nat, peer : Nat, recv : AeadKeys, send : AeadKeys,
   sent : Nat, established : Nat, seen : SUBSET Nat]

Peer ==
  [endpoint : SUBSET Node, psk : Psk, last : Nat, pending : SUBSET Pending,
   current : SUBSET Session, next : SUBSET Session, previous : SUBSET Session]

\* The state is well typed: the slots hold sessions and handshakes with the
\* fields that the structs of peer.rs and session.rs have, and the wire what
\* the methods build.
TypeOK ==
  /\ peer \in [Node -> Peer]
  /\ routed \in [Node -> SUBSET Nat]
  /\ serial \in [Node -> 0 .. MaxSerial]
  /\ restarts \in 0 .. MaxRestart /\ now \in 0 .. MaxTime
  /\ inits \subseteq [sender : Nat, hs : Hs]
  /\ resps \subseteq [sender : Nat, receiver : Nat, key : Keys]
  /\ datas \subseteq [receiver : Nat, counter : Nat, aead : AeadKeys, at : Nat]
  /\ answered \in [Node -> SUBSET inits]
  /\ delivered \in [Node -> SUBSET datas]

\* Every session of a node.
Sessions(n) == UNION {peer[n][slot] : slot \in Slots}

\* The indices a driver routes to a peer are exactly those the peer answers
\* to, and no index names two of its slots: every method returns the index
\* that leaves, and only that one, whatever the order of rotations.
RoutedExactly ==
  \A n \in Node :
    LET p == peer[n]
        slots == Slots \cup {"pending"}
    IN  /\ routed[n] = Held(p)
        /\ \A a, b \in slots :
             a # b => Indices(p[a]) \cap Indices(p[b]) = {}

\* No nonce is used twice: the next message a session seals has a counter
\* that no message under the same key has, even when the responses and
\* initiations that made the session are duplicated.
NonceFresh ==
  \A n \in Node : \A s \in Sessions(n) : \A data \in datas :
    data.aead = s.send => data.counter < s.sent

\* Two sessions with the same key are the two ends of one handshake: each
\* sends to the index the other receives on, with the key it receives with.
PairedSessions ==
  \A n \in Node : \A s \in Sessions(n) :
    /\ \A t \in Sessions(n) : s.send.key = t.send.key => s = t
    /\ \A t \in Sessions(Other(n)) :
         s.send.key = t.send.key =>
           /\ s.index = t.peer /\ s.peer = t.index
           /\ s.send = t.recv /\ s.recv = t.send

\* No data message is accepted twice by a peer, through rekeys, slot
\* rotations, restarts and duplicated datagrams.
NoRedelivery ==
  \A n \in Node : \A data \in delivered[n] : ~can_decrypt(peer[n], data, now)

\* An accepted message was sealed less than REJECT_AFTER_TIME ago, although
\* the two ends count the age of the session from different moments: the
\* responder seals nothing before the initiator is known to have the key.
AcceptedIsRecent ==
  \A n \in Node : \A data \in datas :
    can_decrypt(peer[n], data, now) => now - data.at < REJECT_AFTER_TIME

\* A responder sends on a session only after it accepted a message of the
\* initiator on it (confirm on first packet).
KeyConfirmed ==
  \A n \in Node : \A s \in peer[n].current :
    s.send.dir = 2 =>
      \E data \in delivered[n] : data.aead = s.recv

\* A peer answers an initiation at most once while it is registered.
AnsweredOnce ==
  \A n \in Node : \A init \in answered[n] : ~Newer(peer[n], init)
=============================================================================
