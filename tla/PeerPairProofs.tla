--------------------------- MODULE PeerPairProofs ---------------------------
(***************************************************************************)
(* The sessions of two peers over a network that loses, duplicates and     *)
(* reorders, for every bound on indices, restarts, time and timestamps,    *)
(* every window and every message limit.                                   *)
(*                                                                         *)
(* What the methods of the machine do to a record is stated on its own;    *)
(* from it each action is reduced to its effect in PeerPairEffects. That   *)
(* the driver routes exactly the indices a peer answers to is inductive    *)
(* together with the layout of the slots (LayoutInv): were two slots to    *)
(* share an index, retiring one would unroute the other.                   *)
(*                                                                         *)
(* Few of the other properties of PeerPair are inductive. That a nonce is  *)
(* fresh needs that no two sessions seal under one key. That needs where   *)
(* every key comes from (WireInv): the initiator answers to the index of   *)
(* the initiation, the responder to that of its response, and no index is  *)
(* drawn twice; and since a response may be duplicated, that the handshake *)
(* it answers is no longer pending once it was taken. That a message is    *)
(* recent needs that the end which opens it is not older than the message, *)
(* which for an initiator rests on KeyConfirmed: the responder seals       *)
(* nothing before a message of the initiator's session reached it. SealInv *)
(* says what was sealed and remembered. IInv adds the types and the layout *)
(* of the slots, and is shown preserved by every effect.                   *)
(***************************************************************************)
EXTENDS PeerPairEffects, TLAPS

-----------------------------------------------------------------------------
(* What a well-typed state is made of.                                     *)

\* The variables have the types TypeOK gives them; serials and the time are
\* numbers.
LEMMA TypeFacts ==
  ASSUME TypeOK
  PROVE  /\ peer \in [Node -> Peer] /\ routed \in [Node -> SUBSET Nat]
         /\ serial \in [Node -> Nat] /\ restarts \in Nat /\ now \in Nat
         /\ inits \subseteq [sender : Nat, hs : Hs]
         /\ resps \subseteq [sender : Nat, receiver : Nat, key : Keys]
         /\ datas \subseteq [receiver : Nat, counter : Nat, aead : AeadKeys, at : Nat]
         /\ answered \in [Node -> SUBSET inits]
         /\ delivered \in [Node -> SUBSET datas]
BY PairAssumption DEF TypeOK

\* The fields of a peer record.
LEMMA PeerFields ==
  ASSUME NEW p \in Peer
  PROVE  /\ p.endpoint \in SUBSET Node /\ p.psk \in Psk /\ p.last \in Nat
         /\ p.pending \in SUBSET Pending /\ p.current \in SUBSET Session
         /\ p.next \in SUBSET Session /\ p.previous \in SUBSET Session
         /\ p["pending"] = p.pending /\ p["current"] = p.current
         /\ p["next"] = p.next /\ p["previous"] = p.previous
BY Zenon DEF Peer

\* There are two nodes.
LEMMA OtherNode ==
  ASSUME NEW n \in Node
  PROVE  Other(n) \in Node /\ Other(n) # n /\ Other(Other(n)) = n
<1>1. PICK m \in Node : m # n /\ Node = {n, m}
  BY PairAssumption, Zenon
<1> QED
  BY <1>1, Zenon DEF Other

-----------------------------------------------------------------------------
(* The effects keep the types.                                            *)

\* Every effect keeps the types.
LEMMA TypeNext ==
  ASSUME TypeOK, NEW n \in Node, Effect(n)
  PROVE  TypeOK'
<1>1. serial[n] \in Nat /\ now \in Nat
  BY PairAssumption DEF TypeOK
<1>2. ASSUME NEW x \in Pending, NEW q \in Peer, Initiated(n, x, q) PROVE TypeOK'
  <2>1. [sender |-> serial[n], hs |-> x.hs] \in [sender : Nat, hs : Hs]
    BY <1>1, Zenon DEF Pending
  <2> QED
    BY <1>1, <1>2, <2>1, PairAssumption DEF TypeOK, Initiated, Becomes, Reroutes
<1>3. ASSUME NEW q \in Peer, Abandoned(n, q) PROVE TypeOK'
  BY <1>3, Zenon DEF TypeOK, Abandoned, Becomes, Reroutes, net
<1>4. ASSUME NEW init \in inits, NEW s \in Session, NEW q \in Peer, NEW k \in Keys,
             Responded(n, init, s, q, k)
      PROVE  TypeOK'
  <2>1. [sender |-> serial[n], receiver |-> init.sender, key |-> k]
          \in [sender : Nat, receiver : Nat, key : Keys]
    BY <1>1, Zenon DEF TypeOK
  <2> QED
    BY <1>1, <1>4, <2>1, PairAssumption DEF TypeOK, Responded, Becomes, Reroutes
<1>5. ASSUME NEW resp \in resps, NEW x \in Pending, NEW s \in Session,
             NEW q \in Peer, Established(n, resp, x, s, q)
      PROVE  TypeOK'
  BY <1>5, Zenon DEF TypeOK, Established, Becomes, Reroutes, net
<1>6. ASSUME NEW s \in Session, NEW u \in Session, NEW q \in Peer, SentOn(n, s, u, q)
      PROVE  TypeOK'
  <2>1. [receiver |-> s.peer, counter |-> s.sent, aead |-> s.send, at |-> now]
          \in [receiver : Nat, counter : Nat, aead : AeadKeys, at : Nat]
    BY <1>1, Zenon DEF Session
  <2> QED
    BY <1>6, <2>1, Zenon DEF TypeOK, SentOn, Becomes
<1>7. ASSUME NEW data \in datas, NEW s \in Session, NEW u \in Session, NEW q \in Peer,
             ReceivedOn(n, data, s, u, q)
      PROVE  TypeOK'
  BY <1>7 DEF TypeOK, ReceivedOn, Becomes, Reroutes, net
<1>8. ASSUME NEW q \in Peer, Adjusted(n, q) PROVE TypeOK'
  BY <1>8, Zenon DEF TypeOK, Adjusted, Becomes, net
<1>9. ASSUME NEW q \in Peer, Renewed(n, q) PROVE TypeOK'
  BY <1>9, PairAssumption DEF TypeOK, Renewed, Becomes, net
<1> QED
  BY <1>2, <1>3, <1>4, <1>5, <1>6, <1>7, <1>8, <1>9, Zenon DEF Effect

-----------------------------------------------------------------------------
(* What the methods of the machine do to a well-typed record.              *)

\* Peer::new starts with empty slots.
LEMMA NewPeerRecord ==
  ASSUME NEW psk \in Psk
  PROVE  LET q == NewPeer(psk)
         IN  /\ q \in Peer /\ q.last = 0
             /\ q.pending = {} /\ q.current = {} /\ q.next = {} /\ q.previous = {}
BY Zenon DEF NewPeer, Peer

\* Peer::initiate replaces the pending handshake and hands back the index of
\* the old one.
LEMMA InitiateRecord ==
  ASSUME NEW p \in Peer, NEW x \in Pending
  PROVE  LET r == initiate(p, x.index, x.hs)
         IN  /\ r.peer \in Peer /\ r.peer.pending = {x} /\ r.retired = Indices(p.pending)
             /\ r.peer.current = p.current /\ r.peer.next = p.next
             /\ r.peer.previous = p.previous /\ r.peer.last = p.last
<1>1. x = [index |-> x.index, hs |-> x.hs]
  BY Zenon DEF Pending
<1> QED
  BY <1>1, Zenon DEF initiate, Peer

\* Peer::abandon_handshake drops the pending handshake and hands back its
\* index.
LEMMA AbandonRecord ==
  ASSUME NEW p \in Peer
  PROVE  LET r == abandon_handshake(p)
         IN  /\ r.peer \in Peer /\ r.peer.pending = {} /\ r.retired = Indices(p.pending)
             /\ r.peer.current = p.current /\ r.peer.next = p.next
             /\ r.peer.previous = p.previous /\ r.peer.last = p.last
BY Zenon DEF abandon_handshake, Peer

\* Session::new starts at counter 0, now, with an empty filter.
LEMMA NewSessionRecord ==
  ASSUME NEW transport, NEW t \in Nat,
         transport.index \in Nat, transport.peer \in Nat,
         transport.recv \in AeadKeys, transport.send \in AeadKeys
  PROVE  LET s == NewSession(transport, t)
         IN  /\ s \in Session /\ s.index = transport.index /\ s.peer = transport.peer
             /\ s.recv = transport.recv /\ s.send = transport.send
             /\ s.sent = 0 /\ s.established = t /\ s.seen = {}
BY Zenon DEF NewSession, Session

\* Peer::respond fills the next slot and hands back the index that was there.
LEMMA RespondRecord ==
  ASSUME NEW p \in Peer, NEW init \in [sender : Nat, hs : Hs], NEW transport,
         NEW source \in Node, NEW t, NewSession(transport, t) \in Session
  PROVE  LET r == respond(p, init, transport, source, t)
         IN  /\ r.peer \in Peer /\ r.peer.next = {NewSession(transport, t)}
             /\ r.retired = Indices(p.next)
             /\ r.peer.pending = p.pending /\ r.peer.current = p.current
             /\ r.peer.previous = p.previous /\ r.peer.last = init.hs.timestamp
<1>1. init.hs.timestamp \in Nat
  BY Zenon DEF Hs
<1> QED
  BY <1>1, Zenon DEF respond, Peer

\* Peer::adopt_current moves current to previous and hands back the index
\* that was in previous.
LEMMA AdoptRecord ==
  ASSUME NEW p \in Peer, NEW s \in Session, NEW source \in Node
  PROVE  LET r == adopt_current(p, s, source)
         IN  /\ r.peer \in Peer /\ r.peer.current = {s} /\ r.peer.previous = p.current
             /\ r.retired = Indices(p.previous)
             /\ r.peer.pending = p.pending /\ r.peer.next = p.next
             /\ r.peer.last = p.last
BY Zenon DEF adopt_current, Peer

\* Peer::handshake_response consumes the pending handshake and adopts its
\* session.
LEMMA ResponseRecord ==
  ASSUME NEW p \in Peer, NEW transport, NEW source \in Node, NEW t,
         NewSession(transport, t) \in Session
  PROVE  LET r == handshake_response(p, transport, source, t)
         IN  /\ r.peer \in Peer /\ r.peer.current = {NewSession(transport, t)}
             /\ r.peer.previous = p.current /\ r.retired = Indices(p.previous)
             /\ r.peer.pending = {} /\ r.peer.next = p.next
             /\ r.peer.last = p.last
<1> DEFINE q == [p EXCEPT !.pending = {}]
<1>1. /\ q \in Peer /\ q.pending = {} /\ q.current = p.current /\ q.next = p.next
      /\ q.previous = p.previous /\ q.last = p.last
  BY Zenon DEF Peer
<1>2. handshake_response(p, transport, source, t) =
        adopt_current(q, NewSession(transport, t), source)
  BY Zenon DEF handshake_response
<1> HIDE DEF q
<1> QED
  BY <1>1, <1>2, AdoptRecord

\* Peer::encrypt advances the counter of the current session and nothing
\* else.
LEMMA EncryptRecord ==
  ASSUME NEW p \in Peer, One(p.current), NEW s \in p.current
  PROVE  LET q == encrypt(p)
             u == [s EXCEPT !.sent = @ + 1]
         IN  /\ q \in Peer /\ q.current = {u} /\ p.current = {s}
             /\ u \in Session /\ u.sent = s.sent + 1
             /\ u.index = s.index /\ u.peer = s.peer /\ u.recv = s.recv
             /\ u.send = s.send /\ u.established = s.established /\ u.seen = s.seen
             /\ q.pending = p.pending /\ q.next = p.next /\ q.previous = p.previous
             /\ q.last = p.last
<1> DEFINE u == [s EXCEPT !.sent = @ + 1]
<1>1. p.current = {s} /\ s \in Session
  BY Zenon DEF One, Peer
<1>2. /\ u \in Session /\ u.sent = s.sent + 1
      /\ u.index = s.index /\ u.peer = s.peer /\ u.recv = s.recv
      /\ u.send = s.send /\ u.established = s.established /\ u.seen = s.seen
  BY <1>1 DEF Session
<1>3. {[v EXCEPT !.sent = @ + 1] : v \in p.current} = {u}
  BY <1>1, Zenon
<1> HIDE DEF u
<1>4. encrypt(p) = [p EXCEPT !.current = {u}]
  BY <1>3, Zenon DEF encrypt
<1>5. LET q == [p EXCEPT !.current = {u}]
      IN  /\ q \in Peer /\ q.current = {u}
          /\ q.pending = p.pending /\ q.next = p.next /\ q.previous = p.previous
          /\ q.last = p.last
  BY <1>2, Zenon DEF Peer
<1> QED
  BY <1>1, <1>2, <1>4, <1>5, Zenon DEF u

\* Peer::decrypt adds the counter to the filter of the session in the slot,
\* and rotates the slots when that is next.
LEMMA DecryptRecord ==
  ASSUME NEW p \in Peer, NEW slot \in Slots, One(p[slot]), NEW s \in p[slot],
         NEW data, data.counter \in Nat, NEW source \in Node
  PROVE  LET r == decrypt(p, slot, data, source)
             u == [s EXCEPT !.seen = @ \cup {data.counter}]
         IN  /\ r.peer \in Peer /\ p[slot] = {s}
             /\ u \in Session /\ u.seen = s.seen \cup {data.counter}
             /\ u.index = s.index /\ u.peer = s.peer /\ u.recv = s.recv
             /\ u.send = s.send /\ u.established = s.established /\ u.sent = s.sent
             /\ r.peer.pending = p.pending /\ r.peer.last = p.last
             /\ slot = "next" =>
                  /\ r.peer.current = {u} /\ r.peer.next = {} /\ r.peer.previous = p.current
                  /\ r.retired = Indices(p.previous)
             /\ slot = "current" =>
                  /\ r.peer.current = {u} /\ r.peer.next = p.next
                  /\ r.peer.previous = p.previous /\ r.retired = {}
             /\ slot = "previous" =>
                  /\ r.peer.current = p.current /\ r.peer.next = p.next
                  /\ r.peer.previous = {u} /\ r.retired = {}
<1> DEFINE u == [s EXCEPT !.seen = @ \cup {data.counter}]
           r == decrypt(p, slot, data, source)
<1>1. p[slot] = {s} /\ s \in Session
  BY Zenon DEF One, Peer, Slots
<1>2. /\ u \in Session /\ u.seen = s.seen \cup {data.counter}
      /\ u.index = s.index /\ u.peer = s.peer /\ u.recv = s.recv
      /\ u.send = s.send /\ u.established = s.established /\ u.sent = s.sent
  BY <1>1, Zenon DEF Session
<1>3. (CHOOSE v \in p[slot] : TRUE) = s
  BY <1>1, Zenon
<1>4. r = IF slot = "next" THEN adopt_current([p EXCEPT !.next = {}], u, source)
          ELSE [peer |-> [p EXCEPT ![slot] = {u}, !.endpoint = {source}], retired |-> {}]
  BY <1>3, Zenon DEF decrypt
<1> HIDE DEF u, r
<1>5. CASE slot = "next"
  <2> DEFINE q == [p EXCEPT !.next = {}]
  <2>1. /\ q \in Peer /\ q.next = {} /\ q.current = p.current /\ q.pending = p.pending
        /\ q.previous = p.previous /\ q.last = p.last
    BY Zenon DEF Peer
  <2>2. r = adopt_current(q, u, source)
    BY <1>4, <1>5, Zenon
  <2> HIDE DEF q
  <2>3. /\ r.peer \in Peer /\ r.peer.current = {u} /\ r.peer.previous = p.current
        /\ r.retired = Indices(p.previous)
        /\ r.peer.pending = p.pending /\ r.peer.next = {} /\ r.peer.last = p.last
    BY <1>2, <2>1, <2>2, AdoptRecord
  <2> QED
    BY <1>1, <1>2, <1>5, <2>3, Zenon DEF u, r
<1>6. CASE slot = "current"
  <2>1. /\ r.peer \in Peer /\ r.peer.current = {u} /\ r.peer.next = p.next
        /\ r.peer.previous = p.previous /\ r.retired = {}
        /\ r.peer.pending = p.pending /\ r.peer.last = p.last
    BY <1>2, <1>4, <1>6, Zenon DEF Peer
  <2> QED
    BY <1>1, <1>2, <1>6, <2>1, Zenon DEF u, r
<1>7. CASE slot = "previous"
  <2>1. /\ r.peer \in Peer /\ r.peer.previous = {u} /\ r.peer.next = p.next
        /\ r.peer.current = p.current /\ r.retired = {}
        /\ r.peer.pending = p.pending /\ r.peer.last = p.last
    BY <1>2, <1>4, <1>7, Zenon DEF Peer
  <2> QED
    BY <1>1, <1>2, <1>7, <2>1, Zenon DEF u, r
<1> QED
  BY <1>5, <1>6, <1>7, Zenon DEF Slots

\* Peer::set_preshared_key and Peer::set_endpoint leave the slots alone.
LEMMA SettingsRecord ==
  ASSUME NEW p \in Peer, NEW psk \in Psk, NEW endpoint \in Node,
         NEW q \in {set_preshared_key(p, psk), set_endpoint(p, endpoint)}
  PROVE  /\ q \in Peer /\ q.last = p.last /\ q.pending = p.pending
         /\ q.current = p.current /\ q.next = p.next /\ q.previous = p.previous
<1>1. CASE q = set_preshared_key(p, psk)
  BY <1>1, Zenon DEF set_preshared_key, Peer
<1>2. CASE q = set_endpoint(p, endpoint)
  BY <1>2, Zenon DEF set_endpoint, Peer
<1> QED
  BY <1>1, <1>2, Zenon

-----------------------------------------------------------------------------
(* What each action does to the slots of a node.                           *)

\* An Initiate step has that effect.
LEMMA InitiateStep ==
  ASSUME TypeOK, NEW n \in Node, NEW timestamp \in 1 .. MaxTimestamp, Initiate(n, timestamp)
  PROVE  \E x \in Pending, q \in Peer : Initiated(n, x, q)
<1> DEFINE i == serial[n]
           hs == [initiator |-> n, responder |-> Other(n), eph |-> i, timestamp |-> timestamp]
           x == [index |-> i, hs |-> hs]
           r == initiate(peer[n], i, hs)
<1>1. i \in Nat /\ peer[n] \in Peer
  BY PairAssumption DEF TypeOK
<1>2. hs \in Hs
  BY <1>1, OtherNode, PairAssumption DEF Hs
<1>3. /\ hs.initiator = n /\ hs.responder = Other(n) /\ hs.eph = i
      /\ InitMessage(n, Other(n), i, i, timestamp) = [sender |-> i, hs |-> hs]
      /\ InitMessage(n, Other(n), i, i, timestamp).hs = hs
  BY Zenon DEF InitMessage
<1> HIDE DEF hs
<1>4. x \in Pending /\ x.index = i /\ x.hs = hs
  BY <1>1, <1>2, Zenon DEF Pending
<1> HIDE DEF x
<1>5. /\ r.peer \in Peer /\ r.peer.pending = {x} /\ r.retired = Indices(peer[n].pending)
      /\ r.peer.current = peer[n].current /\ r.peer.next = peer[n].next
      /\ r.peer.previous = peer[n].previous /\ r.peer.last = peer[n].last
  <2>1. r = initiate(peer[n], x.index, x.hs)
    BY <1>4, Zenon
  <2> HIDE DEF r
  <2> QED
    BY <1>1, <1>4, <2>1, InitiateRecord, Zenon
<1> HIDE DEF r
<1>6. /\ peer' = [peer EXCEPT ![n] = r.peer]
      /\ routed' = [routed EXCEPT ![n] = (@ \ r.retired) \cup {i}]
      /\ i < MaxSerial /\ serial' = [serial EXCEPT ![n] = @ + 1]
      /\ inits' = inits \cup {[sender |-> i, hs |-> hs]}
      /\ UNCHANGED <<restarts, now, resps, datas, answered, delivered>>
  BY <1>3, Zenon DEF Initiate, Apply, Draw, r
<1> x \in Pending /\ r.peer \in Peer
  BY <1>4, <1>5, Zenon
<1> WITNESS x \in Pending, r.peer \in Peer
<1> QED
  BY <1>3, <1>4, <1>5, <1>6, Zenon DEF Becomes, Reroutes, Initiated

\* An AbandonHandshake step has that effect.
LEMMA AbandonStep ==
  ASSUME TypeOK, NEW n \in Node, AbandonHandshake(n)
  PROVE  \E q \in Peer : Abandoned(n, q)
<1> DEFINE r == abandon_handshake(peer[n])
<1>1. /\ r.peer \in Peer /\ r.peer.pending = {} /\ r.retired = Indices(peer[n].pending)
      /\ r.peer.current = peer[n].current /\ r.peer.next = peer[n].next
      /\ r.peer.previous = peer[n].previous /\ r.peer.last = peer[n].last
  BY AbandonRecord, Zenon DEF TypeOK
<1> r.peer \in Peer
  BY <1>1, Zenon
<1> WITNESS r.peer \in Peer
<1> QED
  BY <1>1, Zenon DEF AbandonHandshake, Apply, Becomes, Reroutes, Abandoned

\* A Respond step has that effect.
LEMMA RespondStep ==
  ASSUME TypeOK, NEW n \in Node, NEW init \in inits, Respond(n, init)
  PROVE  \E s \in Session, q \in Peer, k \in Keys : Responded(n, init, s, q, k)
<1> DEFINE i == serial[n]
           k == [hs |-> init.hs, eph |-> i, psk |-> peer[n].psk]
           transport == ResponderTransport(i, init, k)
           s == NewSession(transport, now)
           r == respond(peer[n], init, transport, Other(n), now)
<1>1. /\ i \in Nat /\ peer[n] \in Peer /\ init \in [sender : Nat, hs : Hs] /\ now \in Nat
      /\ Other(n) \in Node
  BY PairAssumption, OtherNode DEF TypeOK
<1>2. k \in Keys /\ k.hs = init.hs /\ k.eph = i
  BY <1>1, Zenon DEF Keys, Peer
<1>3. RespMessage(init, i, i, peer[n].psk) =
        [sender |-> i, receiver |-> init.sender, key |-> k]
      /\ RespMessage(init, i, i, peer[n].psk).key = k
  BY Zenon DEF RespMessage
<1> HIDE DEF k
<1>4. /\ transport.index = i /\ transport.peer = init.sender
      /\ transport.recv = Forward(k) /\ transport.send = Backward(k)
  BY Zenon DEF ResponderTransport
<1>5. Forward(k) \in AeadKeys /\ Backward(k) \in AeadKeys
  BY <1>2, Zenon DEF Forward, Backward, AeadKeys
<1> HIDE DEF transport
<1>6. /\ Made(s, i, now) /\ s.peer = init.sender
      /\ s.recv = Forward(k) /\ s.send = Backward(k)
  BY <1>1, <1>4, <1>5, NewSessionRecord DEF Made
<1>7. /\ r.peer \in Peer /\ r.peer.next = {s} /\ r.retired = Indices(peer[n].next)
      /\ r.peer.pending = peer[n].pending /\ r.peer.current = peer[n].current
      /\ r.peer.previous = peer[n].previous /\ r.peer.last = init.hs.timestamp
  BY <1>1, <1>6, RespondRecord DEF Made
<1> HIDE DEF s, r
<1>8. /\ receive(n, init) /\ Newer(peer[n], init)
      /\ peer' = [peer EXCEPT ![n] = r.peer]
      /\ routed' = [routed EXCEPT ![n] = (@ \ r.retired) \cup {i}]
      /\ i < MaxSerial /\ serial' = [serial EXCEPT ![n] = @ + 1]
      /\ resps' = resps \cup {[sender |-> i, receiver |-> init.sender, key |-> k]}
      /\ answered' = [answered EXCEPT ![n] = @ \cup {init}]
      /\ UNCHANGED <<restarts, now, inits, datas, delivered>>
  BY <1>3, Zenon DEF Respond, Apply, Draw, r, transport
<1>9. init.hs.responder = n /\ init.hs.timestamp > peer[n].last
  BY <1>8, Zenon DEF receive, Newer
<1> s \in Session /\ r.peer \in Peer /\ k \in Keys
  BY <1>2, <1>6, <1>7, Zenon DEF Made
<1> WITNESS s \in Session, r.peer \in Peer, k \in Keys
<1> QED
  BY <1>2, <1>6, <1>7, <1>8, <1>9, Zenon DEF Becomes, Reroutes, Responded

\* A HandshakeResponse step has that effect.
LEMMA ResponseStep ==
  ASSUME TypeOK, NEW n \in Node, NEW resp \in resps, HandshakeResponse(n, resp)
  PROVE  \E x \in Pending, s \in Session, q \in Peer : Established(n, resp, x, s, q)
<1>1. PICK x :
        LET transport == InitiatorTransport(x, peer[n].psk, resp)
        IN  /\ x \in peer[n].pending
            /\ response_received(x, peer[n].psk, resp)
            /\ Apply(n, handshake_response(peer[n], transport, Other(n), now), {})
            /\ UNCHANGED <<serial, restarts, now, net, answered, delivered>>
  BY Zenon DEF HandshakeResponse
<1> DEFINE transport == InitiatorTransport(x, peer[n].psk, resp)
           s == NewSession(transport, now)
           r == handshake_response(peer[n], transport, Other(n), now)
<1>2. /\ peer[n] \in Peer /\ now \in Nat /\ Other(n) \in Node
      /\ resp \in [sender : Nat, receiver : Nat, key : Keys]
      /\ resp.key \in Keys /\ resp.sender \in Nat
  BY PairAssumption, OtherNode DEF TypeOK
<1>3. x \in Pending /\ x.index \in Nat
  BY <1>1, <1>2, Zenon DEF Peer, Pending
<1>4. /\ resp.receiver = x.index /\ resp.key.hs = x.hs /\ resp.key.psk = peer[n].psk
  BY <1>1, Zenon DEF response_received
<1>5. resp.key = [hs |-> x.hs, eph |-> resp.key.eph, psk |-> peer[n].psk]
  BY <1>2, <1>4, Zenon DEF Keys
<1>6. /\ transport.index = x.index /\ transport.peer = resp.sender
      /\ transport.recv = Backward(resp.key) /\ transport.send = Forward(resp.key)
  BY <1>5, Zenon DEF InitiatorTransport
<1>7. Forward(resp.key) \in AeadKeys /\ Backward(resp.key) \in AeadKeys
  BY <1>2, Zenon DEF Forward, Backward, AeadKeys
<1> HIDE DEF transport
<1>8. /\ Made(s, x.index, now) /\ s.peer = resp.sender
      /\ s.recv = Backward(resp.key) /\ s.send = Forward(resp.key)
  BY <1>2, <1>3, <1>6, <1>7, NewSessionRecord DEF Made
<1>9. /\ r.peer \in Peer /\ r.peer.current = {s} /\ r.peer.previous = peer[n].current
      /\ r.retired = Indices(peer[n].previous) /\ r.peer.pending = {}
      /\ r.peer.next = peer[n].next /\ r.peer.last = peer[n].last
  <2>1. s \in Session
    BY <1>8, Zenon DEF Made
  <2>2. peer[n] \in Peer /\ Other(n) \in Node
    BY <1>2, Zenon
  <2> QED
    BY <2>1, <2>2, ResponseRecord
<1>10. /\ peer' = [peer EXCEPT ![n] = r.peer]
       /\ routed' = [routed EXCEPT ![n] = (@ \ r.retired) \cup {}]
       /\ UNCHANGED <<serial, restarts, now, net, answered, delivered>>
  BY <1>1, Zenon DEF Apply, transport
<1> HIDE DEF s, r
<1> x \in Pending /\ s \in Session /\ r.peer \in Peer
  BY <1>3, <1>8, <1>9, Zenon DEF Made
<1> WITNESS x \in Pending, s \in Session, r.peer \in Peer
<1> QED
  BY <1>1, <1>4, <1>8, <1>9, <1>10, Zenon DEF Becomes, Reroutes, Established

\* An Encrypt step has that effect.
LEMMA EncryptStep ==
  ASSUME TypeOK, NEW n \in Node, Layout(peer[n]), Encrypt(n)
  PROVE  \E s \in Session, u \in Session, q \in Peer : SentOn(n, s, u, q)
<1>1. PICK s \in peer[n].current : TRUE
  BY Zenon DEF Encrypt, can_encrypt
<1> DEFINE u == [s EXCEPT !.sent = @ + 1]
           q == encrypt(peer[n])
<1>2. peer[n] \in Peer /\ One(peer[n].current) /\ s \in Session
  BY Zenon DEF TypeOK, Layout, Peer
<1>3. /\ q \in Peer /\ q.current = {u} /\ peer[n].current = {s}
      /\ u \in Session /\ u.sent = s.sent + 1
      /\ u.index = s.index /\ u.peer = s.peer /\ u.recv = s.recv
      /\ u.send = s.send /\ u.established = s.established /\ u.seen = s.seen
      /\ q.pending = peer[n].pending /\ q.next = peer[n].next
      /\ q.previous = peer[n].previous /\ q.last = peer[n].last
  BY <1>2, EncryptRecord, Zenon
<1> HIDE DEF u
<1>4. Advances(s, u)
  <2>1. s.sent \in Nat
    BY <1>2, Zenon DEF Session
  <2> QED
    BY <1>3, <2>1 DEF Advances
<1>5. (CHOOSE v \in peer[n].current : TRUE) = s
  BY <1>3, Zenon
<1>6. Sealed(peer[n], now) =
        [receiver |-> s.peer, counter |-> s.sent, aead |-> s.send, at |-> now]
  BY <1>5, Zenon DEF Sealed
<1>7. /\ datas' = datas \cup {Sealed(peer[n], now)}
      /\ peer' = [peer EXCEPT ![n] = q]
      /\ UNCHANGED <<routed, serial, restarts, now, inits, resps, answered, delivered>>
  BY Zenon DEF Encrypt
<1> HIDE DEF q
<1> s \in Session /\ u \in Session /\ q \in Peer
  BY <1>2, <1>3, Zenon
<1> WITNESS s \in Session, u \in Session, q \in Peer
<1> QED
  BY <1>3, <1>4, <1>6, <1>7, Zenon DEF Becomes, SentOn

\* A data message is for one slot at most (the if-chain of Peer::decrypt).
LEMMA AddressedSlot ==
  ASSUME NEW p, NEW receiver
  PROVE  One(Addressed(p, receiver)) /\ Addressed(p, receiver) \subseteq Slots
<1>1. Matching(p, receiver) \subseteq Slots
  BY Zenon DEF Matching
<1> QED
  BY <1>1, Zenon DEF Addressed, One, Slots

\* A Decrypt step has that effect.
LEMMA DecryptStep ==
  ASSUME TypeOK, NEW n \in Node, Layout(peer[n]), NEW data \in datas, Decrypt(n, data)
  PROVE  \E s \in Session, u \in Session, q \in Peer : ReceivedOn(n, data, s, u, q)
<1>1. PICK slot \in Addressed(peer[n], data.receiver) :
        \E s \in peer[n][slot] : usable(s, now) /\ accepts(s, data)
  BY Zenon DEF Decrypt, can_decrypt
<1>2. PICK s \in peer[n][slot] : usable(s, now) /\ accepts(s, data)
  BY <1>1, Zenon
<1>3. slot \in Slots /\ Apply(n, decrypt(peer[n], slot, data, Other(n)), {})
  BY <1>1, AddressedSlot, Zenon DEF Decrypt, One
<1> DEFINE u == [s EXCEPT !.seen = @ \cup {data.counter}]
           r == decrypt(peer[n], slot, data, Other(n))
<1>4. /\ peer[n] \in Peer /\ One(peer[n][slot]) /\ Other(n) \in Node /\ s \in Session
      /\ data.counter \in Nat
  <2>1. peer[n] \in Peer /\ data.counter \in Nat
    BY Zenon DEF TypeOK
  <2>2. One(peer[n][slot])
    BY <1>3, <2>1, Zenon DEF Layout, Slots, Peer
  <2>3. s \in Session
    BY <1>2, <1>3, <2>1, Zenon DEF Slots, Peer
  <2> QED
    BY <2>1, <2>2, <2>3, OtherNode, Zenon
<1>5. /\ r.peer \in Peer /\ peer[n][slot] = {s}
      /\ u \in Session /\ u.seen = s.seen \cup {data.counter}
      /\ u.index = s.index /\ u.peer = s.peer /\ u.recv = s.recv
      /\ u.send = s.send /\ u.established = s.established /\ u.sent = s.sent
      /\ r.peer.pending = peer[n].pending /\ r.peer.last = peer[n].last
      /\ slot = "next" =>
           /\ r.peer.current = {u} /\ r.peer.next = {} /\ r.peer.previous = peer[n].current
           /\ r.retired = Indices(peer[n].previous)
      /\ slot = "current" =>
           /\ r.peer.current = {u} /\ r.peer.next = peer[n].next
           /\ r.peer.previous = peer[n].previous /\ r.retired = {}
      /\ slot = "previous" =>
           /\ r.peer.current = peer[n].current /\ r.peer.next = peer[n].next
           /\ r.peer.previous = {u} /\ r.retired = {}
  BY <1>3, <1>4, DecryptRecord, Zenon
<1>6. data.aead = s.recv /\ data.counter \notin s.seen
  BY <1>2, Zenon DEF accepts, Fresh
<1>7. /\ peer' = [peer EXCEPT ![n] = r.peer]
      /\ routed' = [routed EXCEPT ![n] = (@ \ r.retired) \cup {}]
      /\ delivered' = [delivered EXCEPT ![n] = @ \cup {data}]
      /\ UNCHANGED <<serial, restarts, now, net, answered>>
  BY <1>3, Zenon DEF Decrypt, Apply
<1> HIDE DEF u, r
<1>8. Advances(s, u)
  <2>1. s.sent \in Nat
    BY <1>4, Zenon DEF Session
  <2> QED
    BY <1>5, <2>1 DEF Advances
<1>9. \/ /\ peer[n].next = {s}
         /\ Becomes(n, r.peer, peer[n].pending, {u}, {}, peer[n].current)
         /\ Reroutes(n, Indices(peer[n].previous), {})
      \/ /\ peer[n].current = {s}
         /\ Becomes(n, r.peer, peer[n].pending, {u}, peer[n].next, peer[n].previous)
         /\ Reroutes(n, {}, {})
      \/ /\ peer[n].previous = {s}
         /\ Becomes(n, r.peer, peer[n].pending, peer[n].current, peer[n].next, {u})
         /\ Reroutes(n, {}, {})
  BY <1>3, <1>5, <1>7, Zenon DEF Becomes, Reroutes, Slots
<1> s \in Session /\ u \in Session /\ r.peer \in Peer
  BY <1>4, <1>5, Zenon
<1> WITNESS s \in Session, u \in Session, r.peer \in Peer
<1> QED
  BY <1>5, <1>6, <1>7, <1>8, <1>9, Zenon DEF ReceivedOn, net

\* SetEndpoint and SetPresharedKey steps have that effect.
LEMMA SettingsStep ==
  ASSUME TypeOK, NEW n \in Node,
         SetEndpoint(n) \/ \E psk \in Psk : SetPresharedKey(n, psk)
  PROVE  \E q \in Peer : Adjusted(n, q)
<1>1. peer[n] \in Peer /\ Other(n) \in Node /\ Psk # {}
  BY OtherNode, PairAssumption, Zenon DEF TypeOK
<1>2. PICK q :
        /\ \E psk \in Psk :
             q \in {set_preshared_key(peer[n], psk), set_endpoint(peer[n], Other(n))}
        /\ peer' = [peer EXCEPT ![n] = q]
        /\ UNCHANGED <<routed, serial, restarts, now, net, answered, delivered>>
  BY <1>1, Zenon DEF SetEndpoint, SetPresharedKey
<1>3. /\ q \in Peer /\ q.last = peer[n].last /\ q.pending = peer[n].pending
      /\ q.current = peer[n].current /\ q.next = peer[n].next /\ q.previous = peer[n].previous
  BY <1>1, <1>2, SettingsRecord
<1> q \in Peer
  BY <1>3, Zenon
<1> WITNESS q \in Peer
<1> QED
  BY <1>2, <1>3, Zenon DEF Becomes, Adjusted

\* A Restart step has that effect.
LEMMA RestartStep ==
  ASSUME TypeOK, NEW n \in Node, Restart(n)
  PROVE  \E q \in Peer : Renewed(n, q)
<1> DEFINE q == NewPeer(peer[n].psk)
<1>1. peer[n].psk \in Psk
  BY Zenon DEF TypeOK, Peer
<1>2. /\ q \in Peer /\ q.last = 0
      /\ q.pending = {} /\ q.current = {} /\ q.next = {} /\ q.previous = {}
  BY <1>1, NewPeerRecord, Zenon
<1>3. peer' = [peer EXCEPT ![n] = q]
  BY Zenon DEF Restart
<1> HIDE DEF q
<1> q \in Peer
  BY <1>2, Zenon
<1> WITNESS q \in Peer
<1> QED
  BY <1>2, <1>3, Zenon DEF Restart, Becomes, Renewed

-----------------------------------------------------------------------------
(* The steps of a node.                                                    *)

\* Every step is a tick of the clock or has such an effect on one node.
LEMMA StepEffect ==
  ASSUME TypeOK, LayoutInv, Next
  PROVE  Tick \/ \E n \in Node : Effect(n)
<1> SUFFICES ASSUME NEW n \in Node,
               \/ \E timestamp \in 1 .. MaxTimestamp : Initiate(n, timestamp)
               \/ AbandonHandshake(n)
               \/ \E init \in inits : Respond(n, init)
               \/ \E resp \in resps : HandshakeResponse(n, resp)
               \/ Encrypt(n)
               \/ \E data \in datas : Decrypt(n, data)
               \/ \E psk \in Psk : SetPresharedKey(n, psk)
               \/ SetEndpoint(n)
               \/ Restart(n)
             PROVE  Effect(n)
  BY Zenon DEF Next
<1>1. Layout(peer[n])
  BY Zenon DEF LayoutInv
<1>2. ASSUME NEW timestamp \in 1 .. MaxTimestamp, Initiate(n, timestamp) PROVE Effect(n)
  BY <1>2, InitiateStep, Zenon DEF Effect
<1>3. CASE AbandonHandshake(n)
  BY <1>3, AbandonStep, Zenon DEF Effect
<1>4. ASSUME NEW init \in inits, Respond(n, init) PROVE Effect(n)
  BY <1>4, RespondStep, Zenon DEF Effect
<1>5. ASSUME NEW resp \in resps, HandshakeResponse(n, resp) PROVE Effect(n)
  BY <1>5, ResponseStep, Zenon DEF Effect
<1>6. CASE Encrypt(n)
  BY <1>1, <1>6, EncryptStep, Zenon DEF Effect
<1>7. ASSUME NEW data \in datas, Decrypt(n, data) PROVE Effect(n)
  BY <1>1, <1>7, DecryptStep, Zenon DEF Effect
<1>8. CASE SetEndpoint(n) \/ \E psk \in Psk : SetPresharedKey(n, psk)
  BY <1>8, SettingsStep, Zenon DEF Effect
<1>9. CASE Restart(n)
  BY <1>9, RestartStep, Zenon DEF Effect
<1> QED
  BY <1>2, <1>3, <1>4, <1>5, <1>6, <1>7, <1>8, <1>9, Zenon

-----------------------------------------------------------------------------
(* Every effect keeps the layout.                                          *)

\* The slots of a peer that is laid out well answer to disjoint sets of
\* indices.
LEMMA IndexOf ==
  ASSUME NEW p \in Peer, Layout(p)
  PROVE  LET P == Indices(p.pending)
             C == Indices(p.current)
             N == Indices(p.next)
             V == Indices(p.previous)
         IN  /\ P \cap C = {} /\ P \cap N = {} /\ P \cap V = {}
             /\ C \cap N = {} /\ C \cap V = {} /\ N \cap V = {}
             /\ Held(p) = P \cup C \cup N \cup V
             /\ \A x \in p.pending : x.index \in P
             /\ \A s \in p.current : s.index \in C
             /\ \A s \in p.next : s.index \in N
             /\ \A s \in p.previous : s.index \in V
BY Zenon DEF Indices, Held, Layout, All

\* The indices of an Option that is filled, and of one that is empty.
LEMMA IndexOfOne ==
  /\ \A x : Indices({x}) = {x.index}
  /\ Indices({}) = {}
BY Zenon DEF Indices

\* LayoutInv after a step that changes one node, when its new record is laid
\* out well, the driver routes what it answers to, and what is new there was
\* just drawn.
LEMMA LayoutFrame ==
  ASSUME TypeOK, LayoutInv, NEW n \in Node, NEW q \in Peer, peer' = [peer EXCEPT ![n] = q],
         NEW R, routed' = [routed EXCEPT ![n] = R], R = Held(q), Layout(q),
         \/ serial' = serial /\ R \subseteq Held(peer[n])
         \/ serial' = [serial EXCEPT ![n] = @ + 1] /\ R \subseteq Held(peer[n]) \cup {serial[n]}
  PROVE  LayoutInv'
<1> SUFFICES ASSUME NEW m \in Node
             PROVE  /\ Layout(peer'[m]) /\ routed'[m] = Held(peer'[m])
                    /\ \A i \in Held(peer'[m]) : i < serial'[m]
  BY Zenon DEF LayoutInv
<1>1. serial \in [Node -> Nat]
  BY PairAssumption, TypeFacts, Zenon
<1>2. \A i \in Held(peer[n]) : i \in Nat
  BY TypeFacts DEF Held, Indices, Peer, Pending, Session
<1>3. CASE m = n
  <2>1. peer'[n] = q /\ routed'[n] = R
    BY TypeFacts, Zenon
  <2>2. \A i \in R : i < serial'[n]
    BY <1>1, <1>2, SMTT(30) DEF LayoutInv
  <2> QED
    BY <1>3, <2>1, <2>2, Zenon
<1>4. CASE m # n
  <2>1. peer'[m] = peer[m] /\ routed'[m] = routed[m] /\ serial'[m] = serial[m]
    BY <1>1, <1>4, TypeFacts, Zenon
  <2> QED
    BY <2>1, Zenon DEF LayoutInv
<1> QED
  BY <1>3, <1>4, Zenon

\* Every effect preserves LayoutInv: each method hands back the one index
\* that leaves.
LEMMA LayoutNext ==
  ASSUME TypeOK, LayoutInv, NEW n \in Node, Effect(n)
  PROVE  LayoutInv'
<1> DEFINE p == peer[n]
           i == serial[n]
           P == Indices(p.pending)
           C == Indices(p.current)
           N == Indices(p.next)
           V == Indices(p.previous)
<1>1. /\ p \in Peer /\ Layout(p) /\ routed[n] = Held(p)
      /\ i \in Nat /\ \A j \in Held(p) : j < i
  BY PairAssumption, TypeFacts, Zenon DEF LayoutInv
<1>2. /\ P \cap C = {} /\ P \cap N = {} /\ P \cap V = {}
      /\ C \cap N = {} /\ C \cap V = {} /\ N \cap V = {}
      /\ Held(p) = P \cup C \cup N \cup V
      /\ \A x \in p.pending : x.index \in P
      /\ \A s \in p.current : s.index \in C
      /\ \A s \in p.next : s.index \in N
      /\ \A s \in p.previous : s.index \in V
  BY <1>1, IndexOf, Zenon
<1>3. i \notin Held(p)
  BY <1>1
<1>4. \A retired, bound :
        Reroutes(n, retired, bound) => routed' = [routed EXCEPT ![n] = (Held(p) \ retired) \cup bound]
  BY <1>1, Zenon DEF Reroutes
<1> HIDE DEF p, i, P, C, N, V
<1>5. ASSUME NEW x \in Pending, NEW q \in Peer, Initiated(n, x, q) PROVE LayoutInv'
  <2>1. /\ x.index = i /\ q.pending = {x} /\ q.current = p.current
        /\ q.next = p.next /\ q.previous = p.previous
        /\ peer' = [peer EXCEPT ![n] = q] /\ serial' = [serial EXCEPT ![n] = @ + 1]
        /\ routed' = [routed EXCEPT ![n] = (Held(p) \ P) \cup {i}]
    BY <1>4, <1>5 DEF Initiated, Becomes, p, i, P
  <2>2. Layout(q)
    BY <1>1, <1>2, <1>3, <2>1, Zenon DEF Layout, All, One
  <2>3. Held(q) = {i} \cup C \cup N \cup V
    BY <2>1, IndexOfOne, Zenon DEF Held, C, N, V
  <2>4. (Held(p) \ P) \cup {i} = Held(q)
    BY <1>2, <2>3, Zenon
  <2>5. (Held(p) \ P) \cup {i} \subseteq Held(peer[n]) \cup {serial[n]}
    BY Zenon DEF p, i
  <2> QED
    BY <2>1, <2>2, <2>4, <2>5, LayoutFrame, Zenon
<1>6. ASSUME NEW q \in Peer, Abandoned(n, q) PROVE LayoutInv'
  <2>1. /\ q.pending = {} /\ q.current = p.current
        /\ q.next = p.next /\ q.previous = p.previous
        /\ peer' = [peer EXCEPT ![n] = q] /\ serial' = serial
        /\ routed' = [routed EXCEPT ![n] = (Held(p) \ P) \cup {}]
    BY <1>4, <1>6, Zenon DEF Abandoned, Becomes, p, P
  <2>2. Layout(q)
    BY <1>1, <1>2, <2>1, Zenon DEF Layout, All, One
  <2>3. Held(q) = C \cup N \cup V
    BY <2>1, IndexOfOne, Zenon DEF Held, C, N, V
  <2>4. (Held(p) \ P) \cup {} = Held(q)
    BY <1>2, <2>3, Zenon
  <2>5. (Held(p) \ P) \cup {} \subseteq Held(peer[n])
    BY Zenon DEF p
  <2> QED
    BY <2>1, <2>2, <2>4, <2>5, LayoutFrame, Zenon
<1>7. ASSUME NEW init \in inits, NEW s \in Session, NEW q \in Peer, NEW k \in Keys,
             Responded(n, init, s, q, k)
      PROVE  LayoutInv'
  <2>1. /\ s.index = i /\ q.pending = p.pending /\ q.current = p.current
        /\ q.next = {s} /\ q.previous = p.previous
        /\ peer' = [peer EXCEPT ![n] = q] /\ serial' = [serial EXCEPT ![n] = @ + 1]
        /\ routed' = [routed EXCEPT ![n] = (Held(p) \ N) \cup {i}]
    BY <1>4, <1>7 DEF Responded, Made, Becomes, p, i, N
  <2>2. Layout(q)
    BY <1>1, <1>2, <1>3, <2>1, Zenon DEF Layout, All, One
  <2>3. Held(q) = P \cup C \cup {i} \cup V
    BY <2>1, IndexOfOne, Zenon DEF Held, P, C, V
  <2>4. (Held(p) \ N) \cup {i} = Held(q)
    BY <1>2, <2>3, Zenon
  <2>5. (Held(p) \ N) \cup {i} \subseteq Held(peer[n]) \cup {serial[n]}
    BY Zenon DEF p, i
  <2> QED
    BY <2>1, <2>2, <2>4, <2>5, LayoutFrame, Zenon
<1>8. ASSUME NEW resp \in resps, NEW x \in Pending, NEW s \in Session,
             NEW q \in Peer, Established(n, resp, x, s, q)
      PROVE  LayoutInv'
  <2>1. /\ x \in p.pending /\ s.index = x.index /\ q.pending = {} /\ q.current = {s}
        /\ q.next = p.next /\ q.previous = p.current
        /\ peer' = [peer EXCEPT ![n] = q] /\ serial' = serial
        /\ routed' = [routed EXCEPT ![n] = (Held(p) \ V) \cup {}]
    BY <1>4, <1>8 DEF Established, Made, Becomes, p, V
  <2>2. Layout(q)
    BY <1>1, <1>2, <2>1, Zenon DEF Layout, All, One
  <2>3. P = {x.index}
    <3>1. p.pending = {x}
      BY <1>1, <2>1 DEF Layout, One
    <3> QED
      BY <3>1, IndexOfOne, Zenon DEF P
  <2>4. Held(q) = {x.index} \cup N \cup C
    BY <2>1, IndexOfOne, Zenon DEF Held, C, N
  <2>5. (Held(p) \ V) \cup {} = Held(q)
    BY <1>2, <2>3, <2>4, Zenon
  <2>6. (Held(p) \ V) \cup {} \subseteq Held(peer[n])
    BY Zenon DEF p
  <2> QED
    BY <2>1, <2>2, <2>5, <2>6, LayoutFrame, Zenon
<1>9. ASSUME NEW s \in Session, NEW u \in Session, NEW q \in Peer, SentOn(n, s, u, q)
      PROVE  LayoutInv'
  <2>1. /\ p.current = {s} /\ u.index = s.index
        /\ q.pending = p.pending /\ q.current = {u} /\ q.next = p.next /\ q.previous = p.previous
        /\ peer' = [peer EXCEPT ![n] = q] /\ serial' = serial /\ routed' = routed
    BY <1>9, Zenon DEF SentOn, Advances, Becomes, p
  <2>2. Layout(q)
    BY <1>1, <1>2, <2>1, Zenon DEF Layout, All, One
  <2>3. Held(q) = Held(p)
    BY <2>1, IndexOfOne, Zenon DEF Held
  <2>4. routed' = [routed EXCEPT ![n] = Held(p)]
    BY <1>1, <2>1, TypeFacts, Zenon
  <2>5. Held(p) \subseteq Held(peer[n])
    BY Zenon DEF p
  <2> QED
    BY <2>1, <2>2, <2>3, <2>4, <2>5, LayoutFrame, Zenon
<1>10. ASSUME NEW data \in datas, NEW s \in Session, NEW u \in Session, NEW q \in Peer,
              ReceivedOn(n, data, s, u, q)
       PROVE  LayoutInv'
  <2>1. /\ u.index = s.index /\ q.pending = p.pending
        /\ peer' = [peer EXCEPT ![n] = q] /\ serial' = serial
        /\ \/ /\ p.next = {s} /\ q.current = {u} /\ q.next = {} /\ q.previous = p.current
              /\ routed' = [routed EXCEPT ![n] = (Held(p) \ V) \cup {}]
           \/ /\ p.current = {s} /\ q.current = {u} /\ q.next = p.next /\ q.previous = p.previous
              /\ routed' = [routed EXCEPT ![n] = (Held(p) \ {}) \cup {}]
           \/ /\ p.previous = {s} /\ q.current = p.current /\ q.next = p.next /\ q.previous = {u}
              /\ routed' = [routed EXCEPT ![n] = (Held(p) \ {}) \cup {}]
    <3>1. /\ u.index = s.index /\ q.pending = p.pending
          /\ peer' = [peer EXCEPT ![n] = q] /\ serial' = serial
      BY <1>10, Zenon DEF ReceivedOn, Advances, Becomes, p
    <3>2. \/ /\ p.next = {s} /\ q.current = {u} /\ q.next = {} /\ q.previous = p.current
             /\ Reroutes(n, V, {})
          \/ /\ p.current = {s} /\ q.current = {u} /\ q.next = p.next /\ q.previous = p.previous
             /\ Reroutes(n, {}, {})
          \/ /\ p.previous = {s} /\ q.current = p.current /\ q.next = p.next /\ q.previous = {u}
             /\ Reroutes(n, {}, {})
      BY <1>10, Zenon DEF ReceivedOn, Becomes, p, V
    <3> QED
      BY <1>4, <3>1, <3>2, Zenon
  <2>2. Layout(q)
    BY <1>1, <1>2, <2>1 DEF Layout, All, One
  <2>3. CASE p.next = {s} /\ q.current = {u} /\ q.next = {} /\ q.previous = p.current
             /\ routed' = [routed EXCEPT ![n] = (Held(p) \ V) \cup {}]
    <3>1. Held(q) = P \cup N \cup C
      BY <2>1, <2>3, IndexOfOne DEF Held, P, C, N
    <3>2. (Held(p) \ V) \cup {} = Held(q)
      BY <1>2, <3>1, Zenon
    <3>3. (Held(p) \ V) \cup {} \subseteq Held(peer[n])
      BY Zenon DEF p
    <3> QED
      BY <2>1, <2>2, <2>3, <3>2, <3>3, LayoutFrame, Zenon
  <2>4. CASE /\ routed' = [routed EXCEPT ![n] = (Held(p) \ {}) \cup {}]
             /\ \/ /\ p.current = {s} /\ q.current = {u} /\ q.next = p.next
                   /\ q.previous = p.previous
                \/ /\ p.previous = {s} /\ q.current = p.current /\ q.next = p.next
                   /\ q.previous = {u}
    <3>1. (Held(p) \ {}) \cup {} = Held(q)
      BY <2>1, <2>4, IndexOfOne DEF Held
    <3>2. (Held(p) \ {}) \cup {} \subseteq Held(peer[n])
      BY Zenon DEF p
    <3> QED
      BY <2>1, <2>2, <2>4, <3>1, <3>2, LayoutFrame, Zenon
  <2> QED
    BY <2>1, <2>3, <2>4, Zenon
<1>11. ASSUME NEW q \in Peer, Adjusted(n, q) PROVE LayoutInv'
  <2>1. /\ q.pending = p.pending /\ q.current = p.current
        /\ q.next = p.next /\ q.previous = p.previous
        /\ peer' = [peer EXCEPT ![n] = q] /\ serial' = serial /\ routed' = routed
    BY <1>11, Zenon DEF Adjusted, Becomes, p
  <2>2. Layout(q) /\ Held(q) = Held(p)
    BY <1>1, <2>1, ZenonT(30) DEF Layout, All, One, Held
  <2>3. routed' = [routed EXCEPT ![n] = Held(p)] /\ Held(p) \subseteq Held(peer[n])
    BY <1>1, <2>1, TypeFacts, Zenon DEF p
  <2> QED
    BY <2>1, <2>2, <2>3, LayoutFrame, Zenon
<1>12. ASSUME NEW q \in Peer, Renewed(n, q) PROVE LayoutInv'
  <2>1. /\ q.pending = {} /\ q.current = {} /\ q.next = {} /\ q.previous = {}
        /\ peer' = [peer EXCEPT ![n] = q] /\ serial' = serial
        /\ routed' = [routed EXCEPT ![n] = {}]
    BY <1>12, Zenon DEF Renewed, Becomes
  <2>2. Layout(q) /\ Held(q) = {}
    BY <2>1, IndexOfOne, Zenon DEF Layout, All, One, Held
  <2> QED
    BY <2>1, <2>2, LayoutFrame, Zenon
<1> QED
  BY <1>5, <1>6, <1>7, <1>8, <1>9, <1>10, <1>11, <1>12, Zenon DEF Effect

-----------------------------------------------------------------------------
(* Where keys come from, and what was sealed under them.                   *)

\* The two ends of a handshake are the two nodes, and its ephemeral was
\* drawn.
Drawn(hs) == hs.responder = Other(hs.initiator) /\ hs.eph < serial[hs.initiator]

\* The same for the key that a response makes of it.
KeyDrawn(k) == Drawn(k.hs) /\ k.eph < serial[k.hs.responder]

\* s is an end of the session with its key: the initiator's, which answers to
\* the index of the initiation, or the responder's, which answers to that of
\* the response.
Ends(n, s) ==
  LET k == s.send.key
  IN  \/ /\ s.send = Forward(k) /\ s.recv = Backward(k) /\ k.hs.initiator = n
         /\ s.index = k.hs.eph /\ s.peer = k.eph
      \/ /\ s.send = Backward(k) /\ s.recv = Forward(k) /\ k.hs.responder = n
         /\ s.index = k.eph /\ s.peer = k.hs.eph

\* Messages, pending handshakes and sessions come from drawn handshakes, and
\* carry the indices of those.
WireInv ==
  /\ \A init \in inits : Drawn(init.hs) /\ init.sender = init.hs.eph
  /\ \A resp \in resps :
       /\ KeyDrawn(resp.key)
       /\ resp.sender = resp.key.eph /\ resp.receiver = resp.key.hs.eph
  /\ \A data \in datas : KeyDrawn(data.aead.key)
  /\ \A n \in Node : \A x \in peer[n].pending :
       x.hs.initiator = n /\ x.hs.eph = x.index /\ Drawn(x.hs)
  /\ \A n \in Node : \A s \in All(peer[n]) :
       KeyDrawn(s.send.key) /\ Ends(n, s) /\ s.established <= now

\* What was sealed with the key s sends with has a counter below the next one
\* of s; what was sealed with the key it receives with is not older than s.
Seals(s, D) ==
  \A data \in D :
    /\ data.aead = s.send => data.counter < s.sent
    /\ data.aead = s.recv => s.established <= data.at

\* The filter of s knows every delivered message of its key.
Remembers(s, D) == \A data \in D : data.aead = s.recv => data.counter \in s.seen

\* No message was sealed in a session of the pending handshake x of n.
Unused(n, x, D) ==
  \A data \in D :
    data.aead.dir = 1 /\ data.aead.key.hs.initiator = n => data.aead.key.hs.eph # x.index

\* The sessions seal and remember, pending handshakes have no session yet,
\* and the responder seals only after the initiator did.
SealInv ==
  /\ \A n \in Node : \A s \in All(peer[n]) : Seals(s, datas) /\ Remembers(s, delivered[n])
  /\ \A n \in Node : \A x \in peer[n].pending : Unused(n, x, datas)
  /\ \A data \in datas :
       data.aead.dir = 2 => \E e \in datas : e.aead = Forward(data.aead.key)

\* The inductive invariant.
IInv == TypeOK /\ LayoutInv /\ WireInv /\ SealInv /\ KeyConfirmed /\ AnsweredOnce

-----------------------------------------------------------------------------
(* Every effect keeps the origin of the keys.                              *)

\* The two keys of a session name the handshake they come from.
LEMMA KeysNameTheirKey ==
  ASSUME NEW k
  PROVE  /\ Forward(k).key = k /\ Backward(k).key = k
         /\ Forward(k).dir = 1 /\ Backward(k).dir = 2
BY Zenon DEF Forward, Backward

\* What was drawn stays drawn: indices and ephemerals are not drawn twice.
LEMMA DrawnKept ==
  ASSUME TypeOK, NEW n \in Node, serial' = serial \/ serial' = [serial EXCEPT ![n] = @ + 1]
  PROVE  /\ \A hs \in Hs : Drawn(hs) => Drawn(hs)'
         /\ \A k \in Keys : KeyDrawn(k) => KeyDrawn(k)'
<1>1. serial \in [Node -> Nat]
  BY PairAssumption DEF TypeOK
<1>2. \A m \in Node : serial'[m] \in Nat /\ serial[m] <= serial'[m]
  BY <1>1
<1>3. \A hs \in Hs : Drawn(hs) => Drawn(hs)'
  BY <1>1, <1>2 DEF Hs, Drawn
<1>4. \A k \in Keys : KeyDrawn(k) => KeyDrawn(k)'
  BY <1>1, <1>2, <1>3 DEF Hs, Keys, KeyDrawn
<1> QED
  BY <1>3, <1>4, Zenon

\* WireInv after a step that changes one node, when every message, handshake
\* and session that is new comes from a drawn handshake.
LEMMA WireFrame ==
  ASSUME TypeOK, WireInv, NEW n \in Node, NEW q \in Peer, peer' = [peer EXCEPT ![n] = q],
         serial' = serial \/ serial' = [serial EXCEPT ![n] = @ + 1], now' = now,
         \A init \in inits' : init \in inits \/ (Drawn(init.hs)' /\ init.sender = init.hs.eph),
         \A resp \in resps' :
           \/ resp \in resps
           \/ KeyDrawn(resp.key)' /\ resp.sender = resp.key.eph /\ resp.receiver = resp.key.hs.eph,
         \A data \in datas' :
           data \in datas \/ \E s \in All(peer[n]) : data.aead = s.send,
         \A x \in q.pending :
           \/ x \in peer[n].pending
           \/ x.hs.initiator = n /\ x.hs.eph = x.index /\ Drawn(x.hs)',
         \A t \in All(q) :
           \/ \E s \in All(peer[n]) : Advances(s, t)
           \/ KeyDrawn(t.send.key)' /\ Ends(n, t) /\ t.established <= now
  PROVE  WireInv'
<1>1. /\ \A hs \in Hs : Drawn(hs) => Drawn(hs)'
      /\ \A k \in Keys : KeyDrawn(k) => KeyDrawn(k)'
  BY DrawnKept, Zenon
<1>2. peer'[n] = q /\ \A m \in Node : m # n => peer'[m] = peer[m]
  BY Zenon DEF TypeOK
<1>3. \A m \in Node : \A s \in All(peer[m]) : s \in Session /\ s.send.key \in Keys
  BY DEF TypeOK, All, Peer, Session, AeadKeys
<1>4. \A init \in inits' : Drawn(init.hs)' /\ init.sender = init.hs.eph
  BY <1>1, Zenon DEF WireInv, TypeOK
<1>5. \A resp \in resps' :
        KeyDrawn(resp.key)' /\ resp.sender = resp.key.eph /\ resp.receiver = resp.key.hs.eph
  BY <1>1, Zenon DEF WireInv, TypeOK
<1>6. \A data \in datas' : KeyDrawn(data.aead.key)'
  BY <1>1, <1>3 DEF WireInv, TypeOK, AeadKeys
<1>7. ASSUME NEW m \in Node, NEW x \in peer'[m].pending
      PROVE  x.hs.initiator = m /\ x.hs.eph = x.index /\ Drawn(x.hs)'
  <2>1. CASE x \in peer[m].pending
    BY <1>1, <2>1 DEF WireInv, TypeOK, Peer, Pending
  <2> QED
    BY <1>2, <1>7, <2>1, Zenon
<1>8. ASSUME NEW m \in Node, NEW t \in All(peer'[m])
      PROVE  KeyDrawn(t.send.key)' /\ Ends(m, t) /\ t.established <= now'
  <2>1. CASE \E s \in All(peer[m]) : Advances(s, t)
    <3>1. PICK s \in All(peer[m]) : Advances(s, t)
      BY <2>1, Zenon
    <3>2. KeyDrawn(s.send.key) /\ Ends(m, s) /\ s.established <= now
      BY Zenon DEF WireInv
    <3> QED
      BY <1>1, <1>3, <3>1, <3>2, Zenon DEF Advances, Ends
  <2>2. CASE t \in All(peer[m])
    BY <1>1, <1>3, <2>2, Zenon DEF WireInv
  <2>3. CASE m = n
    BY <1>2, <2>1, <2>3, Zenon
  <2> QED
    BY <1>2, <2>2, <2>3, Zenon
<1> QED
  BY <1>4, <1>5, <1>6, <1>7, <1>8, Zenon DEF WireInv

\* A session that nothing was sent or received on.
LEMMA AdvancesSelf ==
  ASSUME NEW s \in Session
  PROVE  Advances(s, s)
<1>1. s.sent \in Nat
  BY Zenon DEF Session
<1> QED
  BY <1>1 DEF Advances

\* The same for every session of a node.
LEMMA SessionsAdvance ==
  ASSUME TypeOK, NEW n \in Node
  PROVE  \A t \in All(peer[n]) : Advances(t, t)
<1>1. peer[n] \in Peer
  BY TypeFacts, Zenon
<1>2. All(peer[n]) \subseteq Session
  BY <1>1, PeerFields, Zenon DEF All
<1> QED
  BY <1>2, AdvancesSelf, Zenon

\* Respond preserves WireInv: the key it makes is drawn, and s is the
\* responder's end of it.
LEMMA WireResponded ==
  ASSUME TypeOK, WireInv, NEW n \in Node, NEW init \in inits, NEW s \in Session,
         NEW q \in Peer, NEW k \in Keys, Responded(n, init, s, q, k)
  PROVE  WireInv'
<1> DEFINE resp == [sender |-> serial[n], receiver |-> init.sender, key |-> k]
<1>1. \A t \in All(peer[n]) : Advances(t, t)
  BY SessionsAdvance, Zenon
<1>2. All(q) \subseteq All(peer[n]) \cup {s} /\ q.pending = peer[n].pending
  BY Zenon DEF Responded, Becomes, All
<1>3. serial[n] \in Nat /\ now \in Nat /\ serial'[n] = serial[n] + 1
  BY TypeFacts, Zenon DEF Responded
<1>4. KeyDrawn(k)' /\ init.sender = k.hs.eph /\ k.hs.responder = n /\ k.eph = serial[n]
  <2>1. Drawn(init.hs) /\ init.sender = init.hs.eph
    BY Zenon DEF WireInv
  <2>2. init.hs \in Hs
    BY TypeFacts, Zenon
  <2>3. Drawn(init.hs)'
    BY <2>1, <2>2, DrawnKept, Zenon DEF Responded
  <2> QED
    BY <1>3, <2>1, <2>3 DEF Responded, KeyDrawn
<1>5. s.send.key = k
  BY KeysNameTheirKey, Zenon DEF Responded
<1>6. KeyDrawn(s.send.key)' /\ Ends(n, s) /\ s.established <= now
  BY <1>3, <1>4, <1>5 DEF Responded, Made, Ends
<1>7. \A r \in resps' :
        \/ r \in resps
        \/ KeyDrawn(r.key)' /\ r.sender = r.key.eph /\ r.receiver = r.key.hs.eph
  <2>1. KeyDrawn(resp.key)' /\ resp.sender = resp.key.eph /\ resp.receiver = resp.key.hs.eph
    BY <1>4, Zenon
  <2> QED
    BY <2>1 DEF Responded
<1>8. /\ peer' = [peer EXCEPT ![n] = q] /\ serial' = [serial EXCEPT ![n] = @ + 1]
      /\ UNCHANGED <<now, inits, datas>>
  BY Zenon DEF Responded, Becomes
<1> QED
  BY <1>1, <1>2, <1>6, <1>7, <1>8, WireFrame, Zenon

\* HandshakeResponse preserves WireInv: s is the initiator's end of the key
\* of the response.
LEMMA WireEstablished ==
  ASSUME TypeOK, WireInv, NEW n \in Node, NEW resp \in resps, NEW x \in Pending,
         NEW s \in Session, NEW q \in Peer, Established(n, resp, x, s, q)
  PROVE  WireInv'
<1>1. \A t \in All(peer[n]) : Advances(t, t)
  BY SessionsAdvance, Zenon
<1>2. All(q) \subseteq All(peer[n]) \cup {s} /\ q.pending = {}
  BY Zenon DEF Established, Becomes, All
<1>3. /\ KeyDrawn(resp.key) /\ resp.sender = resp.key.eph
      /\ x.hs.initiator = n /\ x.hs.eph = x.index
  BY Zenon DEF Established, WireInv
<1>4. resp.key \in Keys /\ now \in Nat
  BY TypeFacts, Zenon
<1>5. s.send.key = resp.key
  BY KeysNameTheirKey, Zenon DEF Established
<1>6. Ends(n, s) /\ s.established <= now
  BY <1>3, <1>4, <1>5 DEF Established, Made, Ends
<1>7. /\ peer' = [peer EXCEPT ![n] = q]
      /\ UNCHANGED <<serial, now, inits, resps, datas>>
  BY Zenon DEF Established, Becomes, net
<1>8. KeyDrawn(s.send.key)'
  BY <1>3, <1>4, <1>5, <1>7, DrawnKept, Zenon
<1> QED
  BY <1>1, <1>2, <1>6, <1>7, <1>8, WireFrame, Zenon

\* Encrypt and Decrypt preserve WireInv: they only advance a session.
LEMMA WireUsed ==
  ASSUME TypeOK, WireInv, NEW n \in Node, NEW s \in Session, NEW u \in Session,
         NEW q \in Peer,
         SentOn(n, s, u, q) \/ \E data \in datas : ReceivedOn(n, data, s, u, q)
  PROVE  WireInv'
<1>1. \A t \in All(peer[n]) : Advances(t, t)
  BY SessionsAdvance, Zenon
<1>2. /\ All(q) \subseteq All(peer[n]) \cup {u} /\ q.pending = peer[n].pending
      /\ s \in All(peer[n]) /\ Advances(s, u)
  BY ZenonT(30) DEF SentOn, ReceivedOn, Becomes, All
<1>3. \A data \in datas' : data \in datas \/ data.aead = s.send
  BY DEF SentOn, ReceivedOn, net
<1>4. /\ peer' = [peer EXCEPT ![n] = q]
      /\ UNCHANGED <<serial, now, inits, resps>>
  BY Zenon DEF SentOn, ReceivedOn, Becomes, net
<1> QED
  BY <1>1, <1>2, <1>3, <1>4, WireFrame, Zenon

\* Every effect preserves WireInv.
LEMMA WireNext ==
  ASSUME TypeOK, WireInv, NEW n \in Node, Effect(n)
  PROVE  WireInv'
<1>1. \A t \in All(peer[n]) : Advances(t, t)
  BY SessionsAdvance, Zenon
<1>2. ASSUME NEW x \in Pending, NEW q \in Peer, Initiated(n, x, q) PROVE WireInv'
  <2>1. /\ peer' = [peer EXCEPT ![n] = q] /\ serial' = [serial EXCEPT ![n] = @ + 1]
        /\ inits' = inits \cup {[sender |-> x.index, hs |-> x.hs]}
        /\ UNCHANGED <<now, resps, datas>>
    BY <1>2, Zenon DEF Initiated, Becomes
  <2>2. All(q) = All(peer[n]) /\ q.pending = {x}
    BY <1>2, Zenon DEF Initiated, Becomes, All
  <2>3. serial[n] \in Nat /\ serial'[n] = serial[n] + 1
    BY <2>1, TypeFacts, Zenon
  <2>4. x.hs.initiator = n /\ x.hs.eph = x.index /\ Drawn(x.hs)'
    BY <1>2, <2>3 DEF Initiated, Drawn
  <2>5. \A init \in inits' : init \in inits \/ (Drawn(init.hs)' /\ init.sender = init.hs.eph)
    BY <2>1, <2>4
  <2> QED
    BY <1>1, <2>1, <2>2, <2>4, <2>5, WireFrame, Zenon
<1>3. ASSUME NEW q \in Peer, Abandoned(n, q) \/ Adjusted(n, q) \/ Renewed(n, q)
      PROVE  WireInv'
  <2>1. All(q) \subseteq All(peer[n]) /\ q.pending \subseteq peer[n].pending
    BY <1>3, Zenon DEF Abandoned, Adjusted, Renewed, Becomes, All
  <2> QED
    BY <1>1, <1>3, <2>1, WireFrame, Zenon DEF Abandoned, Adjusted, Renewed, Becomes, net
<1> QED
  BY <1>2, <1>3, WireResponded, WireEstablished, WireUsed, Zenon DEF Effect

\* A session of a node is one of the two ends of its key, and which one.
LEMMA EndOf ==
  ASSUME TypeOK, WireInv, NEW n \in Node, NEW s \in All(peer[n])
  PROVE  LET k == s.send.key
         IN  /\ s \in Session /\ s.recv.key = k /\ k \in Keys /\ k.hs \in Hs
             /\ s.established <= now
             /\ \/ /\ s.send = Forward(k) /\ s.recv = Backward(k)
                   /\ s.send.dir = 1 /\ s.recv.dir = 2
                   /\ k.hs.initiator = n /\ k.hs.responder = Other(n)
                   /\ s.index = k.hs.eph /\ s.peer = k.eph
                \/ /\ s.send = Backward(k) /\ s.recv = Forward(k)
                   /\ s.send.dir = 2 /\ s.recv.dir = 1
                   /\ k.hs.responder = n /\ k.hs.initiator = Other(n)
                   /\ s.index = k.eph /\ s.peer = k.hs.eph
<1> DEFINE k == s.send.key
<1>1. s \in Session /\ k \in Keys /\ k.hs \in Hs /\ k.hs.initiator \in Node
  BY DEF TypeOK, All, Peer, Session, AeadKeys, Keys, Hs
<1>2. KeyDrawn(k) /\ Ends(n, s) /\ s.established <= now
  BY Zenon DEF WireInv
<1>3. k.hs.responder = Other(k.hs.initiator)
  BY <1>2, Zenon DEF KeyDrawn, Drawn
<1>4. k.hs.responder = n => k.hs.initiator = Other(n)
  BY <1>1, <1>3, OtherNode, Zenon
<1>5. \A j : Forward(j).key = j /\ Forward(j).dir = 1 /\ Backward(j).key = j /\ Backward(j).dir = 2
  BY Zenon DEF Forward, Backward
<1>6. \/ /\ s.send = Forward(k) /\ s.recv = Backward(k) /\ k.hs.initiator = n
         /\ s.index = k.hs.eph /\ s.peer = k.eph
      \/ /\ s.send = Backward(k) /\ s.recv = Forward(k) /\ k.hs.responder = n
         /\ s.index = k.eph /\ s.peer = k.hs.eph
  BY <1>2, Zenon DEF Ends
<1> QED
  BY <1>1, <1>2, <1>3, <1>4, <1>5, <1>6

\* A node has one session of a key at most: the index it answers to is part
\* of the key, and the slots of a node answer to different indices.
LEMMA OneKeyOneSession ==
  ASSUME TypeOK, LayoutInv, WireInv, NEW n \in Node, NEW s \in All(peer[n]),
         NEW t \in All(peer[n]), s.send.key = t.send.key
  PROVE  s = t
<1>1. s.index = t.index
  BY EndOf, OtherNode
<1> QED
  BY <1>1 DEF LayoutInv, Layout, All, One

\* Sessions of the two nodes with one key are its two ends.
LEMMA OneKeyTwoEnds ==
  ASSUME TypeOK, WireInv, NEW n \in Node, NEW m \in Node, n # m,
         NEW s \in All(peer[n]), NEW t \in All(peer[m]), s.send.key = t.send.key
  PROVE  /\ s.send = t.recv /\ s.recv = t.send /\ s.send # t.send
         /\ s.index = t.peer /\ s.peer = t.index
<1> DEFINE k == s.send.key
<1>1. \/ /\ s.send = Forward(k) /\ s.recv = Backward(k) /\ s.send.dir = 1
         /\ k.hs.initiator = n /\ k.hs.responder = Other(n)
         /\ s.index = k.hs.eph /\ s.peer = k.eph
      \/ /\ s.send = Backward(k) /\ s.recv = Forward(k) /\ s.send.dir = 2
         /\ k.hs.responder = n /\ k.hs.initiator = Other(n)
         /\ s.index = k.eph /\ s.peer = k.hs.eph
  BY EndOf
<1>2. \/ /\ t.send = Forward(k) /\ t.recv = Backward(k) /\ t.send.dir = 1
         /\ k.hs.initiator = m /\ k.hs.responder = Other(m)
         /\ t.index = k.hs.eph /\ t.peer = k.eph
      \/ /\ t.send = Backward(k) /\ t.recv = Forward(k) /\ t.send.dir = 2
         /\ k.hs.responder = m /\ k.hs.initiator = Other(m)
         /\ t.index = k.eph /\ t.peer = k.hs.eph
  BY EndOf
<1> QED
  BY <1>1, <1>2, OtherNode

-----------------------------------------------------------------------------
(* The other conjuncts.                                                    *)

\* SealInv after a step that changes one node and seals nothing.
LEMMA SealFrame ==
  ASSUME TypeOK, SealInv, NEW n \in Node, NEW q \in Peer, peer' = [peer EXCEPT ![n] = q],
         datas' = datas, \A m \in Node : m # n => delivered'[m] = delivered[m],
         \A t \in All(q) : Seals(t, datas) /\ Remembers(t, delivered'[n]),
         \A x \in q.pending : Unused(n, x, datas)
  PROVE  SealInv'
<1>1. peer'[n] = q /\ \A m \in Node : m # n => peer'[m] = peer[m]
  BY Zenon DEF TypeOK
<1>2. ASSUME NEW m \in Node, NEW t \in All(peer'[m])
      PROVE  Seals(t, datas') /\ Remembers(t, delivered'[m])
  BY <1>1, <1>2, Zenon DEF SealInv
<1>3. ASSUME NEW m \in Node, NEW x \in peer'[m].pending PROVE Unused(m, x, datas')
  BY <1>1, <1>3, Zenon DEF SealInv
<1>4. \A data \in datas' :
        data.aead.dir = 2 => \E e \in datas' : e.aead = Forward(data.aead.key)
  BY Zenon DEF SealInv
<1> QED
  BY <1>2, <1>3, <1>4, Zenon DEF SealInv

\* Encrypt preserves SealInv: no other session seals under the key, the
\* session that opens the message was made before it, and a responder that
\* seals was confirmed.
LEMMA SealSent ==
  ASSUME TypeOK, LayoutInv, WireInv, SealInv, KeyConfirmed, NEW n \in Node,
         NEW s \in Session, NEW u \in Session, NEW q \in Peer, SentOn(n, s, u, q)
  PROVE  SealInv'
<1> DEFINE d == [receiver |-> s.peer, counter |-> s.sent, aead |-> s.send, at |-> now]
           k == s.send.key
<1>1. /\ peer' = [peer EXCEPT ![n] = q] /\ datas' = datas \cup {d} /\ delivered' = delivered
      /\ peer[n].current = {s} /\ q.current = {u} /\ q.pending = peer[n].pending
      /\ q.next = peer[n].next /\ q.previous = peer[n].previous
      /\ Advances(s, u) /\ u.sent = s.sent + 1
  BY Zenon DEF SentOn, Becomes
<1>2. d.aead = s.send /\ d.counter = s.sent /\ d.at = now
  OBVIOUS
<1> HIDE DEF d
<1>3. peer'[n] = q /\ \A m \in Node : m # n => peer'[m] = peer[m]
  BY <1>1, Zenon DEF TypeOK
<1>4. s \in All(peer[n]) /\ s.sent \in Nat
  BY <1>1, Zenon DEF All, Session
<1>5. /\ s.recv.key = k /\ s.established <= now
      /\ \/ /\ s.send.dir = 1 /\ s.recv.dir = 2
            /\ k.hs.initiator = n /\ s.index = k.hs.eph
         \/ s.send.dir = 2 /\ s.recv.dir = 1 /\ s.recv = Forward(k)
  BY <1>4, EndOf, Zenon
<1>6. \A t \in All(q) : t = u \/ (t \in All(peer[n]) /\ t # s)
  BY <1>1, Zenon DEF All, LayoutInv, Layout
<1>7. ASSUME NEW m \in Node, NEW t \in All(peer'[m]), NEW data \in datas'
      PROVE  /\ data.aead = t.send => data.counter < t.sent
             /\ data.aead = t.recv => t.established <= data.at
  <2>1. CASE m = n /\ t = u /\ data \in datas
    <3>1. /\ data.aead = s.send => data.counter < s.sent
          /\ data.aead = s.recv => s.established <= data.at
      BY <1>4, <2>1, Zenon DEF SealInv, Seals
    <3>2. data.counter \in Nat
      BY <2>1, Zenon DEF TypeOK
    <3> QED
      BY <1>1, <1>4, <2>1, <3>1, <3>2 DEF Advances
  <2>2. CASE m = n /\ t = u /\ data = d
    <3>1. u.recv # s.send
      BY <1>1, <1>5 DEF Advances
    <3> QED
      BY <1>1, <1>2, <1>4, <2>2, <3>1
  <2>3. CASE t \in All(peer[m]) /\ data \in datas
    BY <2>3, Zenon DEF SealInv, Seals
  <2>4. CASE m = n /\ t \in All(peer[n]) /\ t # s /\ data = d
    <3>1. t.send.key # k
      BY <1>4, <2>4, OneKeyOneSession, Zenon
    <3>2. t.recv.key = t.send.key
      BY <2>4, EndOf, Zenon
    <3> QED
      BY <1>2, <2>4, <3>1, <3>2, Zenon
  <2>5. CASE m # n /\ t \in All(peer[m]) /\ data = d
    <3>1. s.send.key = t.send.key => s.send # t.send
      BY <1>4, <2>5, OneKeyTwoEnds
    <3>2. t.established <= now
      BY <2>5, EndOf, Zenon
    <3> QED
      BY <1>2, <2>5, <3>1, <3>2, Zenon
  <2> QED
    BY <1>1, <1>3, <1>6, <2>1, <2>2, <2>3, <2>4, <2>5, Zenon
<1>8. ASSUME NEW m \in Node, NEW t \in All(peer'[m]), NEW data \in delivered'[m]
      PROVE  data.aead = t.recv => data.counter \in t.seen
  BY <1>1, <1>3, <1>4, <1>6 DEF SealInv, Remembers, Advances
<1>9. ASSUME NEW m \in Node, NEW x \in peer'[m].pending, NEW data \in datas'
      PROVE  data.aead.dir = 1 /\ data.aead.key.hs.initiator = m =>
               data.aead.key.hs.eph # x.index
  <2>1. x \in peer[m].pending
    BY <1>1, <1>3, Zenon
  <2>2. CASE data \in datas
    BY <2>1, <2>2, Zenon DEF SealInv, Unused
  <2>3. CASE data = d
    <3>1. m = n => x.index # s.index
      BY <1>4, <2>1, Zenon DEF LayoutInv, Layout
    <3>2. s.send.dir = 1 => k.hs.initiator = n /\ s.index = k.hs.eph
      BY <1>5
    <3> QED
      BY <1>2, <2>3, <3>1, <3>2, Zenon
  <2> QED
    BY <1>1, <2>2, <2>3, Zenon
<1>10. ASSUME NEW data \in datas', data.aead.dir = 2
       PROVE  \E e \in datas' : e.aead = Forward(data.aead.key)
  <2>1. CASE data \in datas
    BY <1>1, <1>10, <2>1, Zenon DEF SealInv
  <2>2. CASE data = d
    <3>1. s.recv = Forward(k)
      BY <1>2, <1>5, <1>10, <2>2
    <3>2. \E e \in delivered[n] : e.aead = s.recv
      BY <1>1, <1>2, <1>10, <2>2, Zenon DEF KeyConfirmed
    <3> QED
      BY <1>1, <1>2, <2>2, <3>1, <3>2, Zenon DEF TypeOK
  <2> QED
    BY <1>1, <2>1, <2>2, Zenon
<1> QED
  BY <1>7, <1>8, <1>9, <1>10, Zenon DEF SealInv, Seals, Remembers, Unused

\* Every effect preserves SealInv.
LEMMA SealNext ==
  ASSUME TypeOK, LayoutInv, WireInv, SealInv, KeyConfirmed, NEW n \in Node, Effect(n)
  PROVE  SealInv'
<1>1. /\ peer[n] \in Peer /\ serial[n] \in Nat
      /\ \A m \in Node : delivered[m] \subseteq datas
  BY PairAssumption DEF TypeOK
<1>2. \A t \in All(peer[n]) : Seals(t, datas) /\ Remembers(t, delivered[n])
  BY Zenon DEF SealInv
<1>3. \A x \in peer[n].pending : Unused(n, x, datas)
  BY Zenon DEF SealInv
<1>4. ASSUME NEW q \in Peer, All(q) \subseteq All(peer[n]), q.pending \subseteq peer[n].pending,
             peer' = [peer EXCEPT ![n] = q], datas' = datas, delivered' = delivered
      PROVE  SealInv'
  BY <1>2, <1>3, <1>4, SealFrame, Zenon
<1>5. ASSUME NEW x \in Pending, NEW q \in Peer, Initiated(n, x, q) PROVE SealInv'
  <2>1. /\ All(q) = All(peer[n]) /\ q.pending = {x} /\ x.index = serial[n]
        /\ peer' = [peer EXCEPT ![n] = q] /\ datas' = datas /\ delivered' = delivered
    BY <1>5, Zenon DEF Initiated, Becomes, All
  <2>2. ASSUME NEW data \in datas, data.aead.key.hs.initiator = n
        PROVE  data.aead.key.hs.eph # x.index
    <3>1. data.aead.key.hs.eph < serial[n]
      BY <2>2, Zenon DEF WireInv, KeyDrawn, Drawn
    <3> QED
      BY <1>1, <2>1, <3>1
  <2>3. Unused(n, x, datas)
    BY <2>2, Zenon DEF Unused
  <2> QED
    BY <1>2, <2>1, <2>3, SealFrame, Zenon
<1>6. ASSUME NEW q \in Peer, Abandoned(n, q) \/ Adjusted(n, q) \/ Renewed(n, q) PROVE SealInv'
  BY <1>4, <1>6, Zenon DEF Abandoned, Adjusted, Renewed, Becomes, All, net
<1>7. ASSUME NEW init \in inits, NEW s \in Session, NEW q \in Peer, NEW k \in Keys,
             Responded(n, init, s, q, k)
      PROVE  SealInv'
  <2>1. /\ All(q) \subseteq All(peer[n]) \cup {s} /\ q.pending = peer[n].pending
        /\ peer' = [peer EXCEPT ![n] = q] /\ datas' = datas /\ delivered' = delivered
    BY <1>7, Zenon DEF Responded, Becomes, All
  <2>2. s.send.key = k /\ s.recv.key = k /\ k.hs.responder = n /\ k.eph = serial[n]
    BY <1>7 DEF Responded, Forward, Backward
  <2>3. ASSUME NEW data \in datas PROVE data.aead # s.send /\ data.aead # s.recv
    <3>1. data.aead.key.eph < serial[data.aead.key.hs.responder]
      BY Zenon DEF WireInv, KeyDrawn
    <3> QED
      BY <1>1, <2>2, <3>1
  <2>4. Seals(s, datas) /\ Remembers(s, delivered[n])
    BY <1>1, <2>3, Zenon DEF Seals, Remembers
  <2> QED
    BY <1>2, <1>3, <2>1, <2>4, SealFrame, Zenon
<1>8. ASSUME NEW resp \in resps, NEW x \in Pending, NEW s \in Session,
             NEW q \in Peer, Established(n, resp, x, s, q)
      PROVE  SealInv'
  <2>1. /\ All(q) \subseteq All(peer[n]) \cup {s} /\ q.pending = {} /\ x \in peer[n].pending
        /\ peer' = [peer EXCEPT ![n] = q] /\ datas' = datas /\ delivered' = delivered
    BY <1>8, Zenon DEF Established, Becomes, All, net
  <2>2. /\ s.send = Forward(resp.key) /\ s.recv = Backward(resp.key)
        /\ resp.key.hs.initiator = n /\ resp.key.hs.eph = x.index
    BY <1>8, Zenon DEF Established, WireInv
  <2>3. \A data \in datas : data.aead # Forward(resp.key)
    BY <1>3, <2>1, <2>2 DEF Forward, Unused
  <2>4. \A data \in datas : data.aead # Backward(resp.key)
    BY <2>3 DEF SealInv, Backward
  <2>5. Seals(s, datas) /\ Remembers(s, delivered[n])
    BY <1>1, <2>2, <2>3, <2>4, Zenon DEF Seals, Remembers
  <2> QED
    BY <1>2, <2>1, <2>5, SealFrame, Zenon
<1>9. ASSUME NEW s \in Session, NEW u \in Session, NEW q \in Peer, SentOn(n, s, u, q)
      PROVE  SealInv'
  BY <1>9, SealSent, Zenon
<1>10. ASSUME NEW data \in datas, NEW s \in Session, NEW u \in Session, NEW q \in Peer,
              ReceivedOn(n, data, s, u, q)
       PROVE  SealInv'
  <2>1. /\ peer' = [peer EXCEPT ![n] = q] /\ q.pending = peer[n].pending
        /\ datas' = datas /\ delivered' = [delivered EXCEPT ![n] = @ \cup {data}]
        /\ data.aead = s.recv /\ Advances(s, u) /\ data.counter \in u.seen
    BY <1>10, Zenon DEF ReceivedOn, Becomes, net
  <2>2. s \in All(peer[n]) /\ \A t \in All(q) : t = u \/ (t \in All(peer[n]) /\ t # s)
    BY <1>10, Zenon DEF ReceivedOn, Becomes, Advances, All, LayoutInv, Layout
  <2>3. /\ delivered'[n] = delivered[n] \cup {data}
        /\ \A m \in Node : m # n => delivered'[m] = delivered[m]
    BY <2>1, Zenon DEF TypeOK
  <2>4. ASSUME NEW e \in datas
        PROVE  /\ e.aead = u.send => e.counter < u.sent
               /\ e.aead = u.recv => u.established <= e.at
    <3>1. e.counter \in Nat /\ s.sent \in Nat /\ u.sent \in Nat
      BY Zenon DEF TypeOK, Session
    <3> QED
      BY <1>2, <2>1, <2>2, <3>1 DEF Advances, Seals
  <2>5. ASSUME NEW t \in All(q), NEW e \in delivered'[n], e.aead = t.recv
        PROVE  e.counter \in t.seen
    <3>1. CASE t = u
      BY <1>2, <2>1, <2>2, <2>3, <2>5, <3>1, Zenon DEF Advances, Remembers
    <3>2. CASE t \in All(peer[n]) /\ t # s
      <4>1. t.recv.key # s.recv.key
        BY <2>2, <3>2, EndOf, OneKeyOneSession
      <4> QED
        BY <1>2, <2>1, <2>3, <2>5, <3>2, <4>1, Zenon DEF Remembers
    <3> QED
      BY <2>2, <3>1, <3>2, Zenon
  <2>6. \A t \in All(q) : Seals(t, datas) /\ Remembers(t, delivered'[n])
    BY <1>2, <2>2, <2>4, <2>5, Zenon DEF Seals, Remembers
  <2> QED
    BY <1>3, <2>1, <2>3, <2>6, SealFrame, Zenon
<1> QED
  BY <1>5, <1>6, <1>7, <1>8, <1>9, <1>10, Zenon DEF Effect

\* Every effect preserves KeyConfirmed: a responder's session becomes current
\* only through Peer::decrypt.
LEMMA ConfirmedNext ==
  ASSUME TypeOK, KeyConfirmed, NEW n \in Node, Effect(n)
  PROVE  KeyConfirmed'
<1>1. ASSUME NEW q, peer' = [peer EXCEPT ![n] = q],
             \A m \in Node : delivered[m] \subseteq delivered'[m],
             \A t \in q.current :
               \/ \E s \in peer[n].current : t.send = s.send /\ t.recv = s.recv
               \/ t.send.dir = 1
               \/ \E data \in delivered'[n] : data.aead = t.recv
      PROVE  KeyConfirmed'
  <2>1. peer'[n] = q /\ \A m \in Node : m # n => peer'[m] = peer[m]
    BY <1>1, Zenon DEF TypeOK
  <2> QED
    BY <1>1, <2>1 DEF KeyConfirmed
<1>2. ASSUME NEW q, peer' = [peer EXCEPT ![n] = q], delivered' = delivered,
             q.current \in {peer[n].current, {}}
      PROVE  KeyConfirmed'
  BY <1>1, <1>2, Zenon
<1>3. ASSUME NEW x \in Pending, NEW q \in Peer, Initiated(n, x, q) PROVE KeyConfirmed'
  BY <1>2, <1>3, Zenon DEF Initiated, Becomes
<1>4. ASSUME NEW q \in Peer, Abandoned(n, q) \/ Adjusted(n, q) \/ Renewed(n, q)
      PROVE  KeyConfirmed'
  BY <1>2, <1>4, Zenon DEF Abandoned, Adjusted, Renewed, Becomes
<1>5. ASSUME NEW init \in inits, NEW s \in Session, NEW q \in Peer, NEW k \in Keys,
             Responded(n, init, s, q, k)
      PROVE  KeyConfirmed'
  BY <1>2, <1>5, Zenon DEF Responded, Becomes
<1>6. ASSUME NEW resp \in resps, NEW x \in Pending, NEW s \in Session,
             NEW q \in Peer, Established(n, resp, x, s, q)
      PROVE  KeyConfirmed'
  <2>1. /\ peer' = [peer EXCEPT ![n] = q] /\ delivered' = delivered
        /\ q.current = {s} /\ s.send.dir = 1
    BY <1>6 DEF Established, Becomes, Forward
  <2> QED
    BY <1>1, <2>1, Zenon
<1>7. ASSUME NEW s \in Session, NEW u \in Session, NEW q \in Peer, SentOn(n, s, u, q)
      PROVE  KeyConfirmed'
  <2>1. /\ peer' = [peer EXCEPT ![n] = q] /\ delivered' = delivered
        /\ q.current = {u} /\ peer[n].current = {s} /\ u.send = s.send /\ u.recv = s.recv
    BY <1>7, Zenon DEF SentOn, Becomes, Advances
  <2> QED
    BY <1>1, <2>1, Zenon
<1>8. ASSUME NEW data \in datas, NEW s \in Session, NEW u \in Session, NEW q \in Peer,
             ReceivedOn(n, data, s, u, q)
      PROVE  KeyConfirmed'
  <2>1. /\ peer' = [peer EXCEPT ![n] = q] /\ data.aead = u.recv
        /\ q.current = {u} \/ q.current = peer[n].current
        /\ delivered' = [delivered EXCEPT ![n] = @ \cup {data}]
    BY <1>8, Zenon DEF ReceivedOn, Becomes, Advances
  <2>2. /\ data \in delivered'[n]
        /\ \A m \in Node : delivered[m] \subseteq delivered'[m]
    BY <2>1, Zenon DEF TypeOK
  <2> QED
    BY <1>1, <2>1, <2>2, Zenon
<1> QED
  BY <1>3, <1>4, <1>5, <1>6, <1>7, <1>8, Zenon DEF Effect

\* Every effect preserves AnsweredOnce: Peer::respond moves the timestamp to
\* that of the initiation it answers, and a later one moves it on.
LEMMA AnsweredNext ==
  ASSUME TypeOK, AnsweredOnce, NEW n \in Node, Effect(n)
  PROVE  AnsweredOnce'
<1>1. /\ peer \in [Node -> Peer] /\ answered \in [Node -> SUBSET inits]
      /\ \A m \in Node : peer[m].last \in Nat
      /\ \A init \in inits : init.hs.timestamp \in Nat
  BY Zenon DEF TypeOK, Peer, Hs
<1>2. ASSUME NEW q, peer' = [peer EXCEPT ![n] = q],
             q.last = peer[n].last, answered' = answered
      PROVE  AnsweredOnce'
  BY <1>1, <1>2, Zenon DEF AnsweredOnce, Newer
<1>3. ASSUME NEW init \in inits, NEW s \in Session, NEW q \in Peer, NEW k \in Keys,
             Responded(n, init, s, q, k)
      PROVE  AnsweredOnce'
  <2>1. /\ peer' = [peer EXCEPT ![n] = q] /\ q.last = init.hs.timestamp
        /\ answered' = [answered EXCEPT ![n] = @ \cup {init}]
        /\ init.hs.timestamp > peer[n].last
    BY <1>3, Zenon DEF Responded, Becomes
  <2> QED
    BY <1>1, <2>1 DEF AnsweredOnce, Newer
<1>4. ASSUME NEW q \in Peer, Renewed(n, q) PROVE AnsweredOnce'
  BY <1>1, <1>4, Zenon DEF AnsweredOnce, Newer, Renewed, Becomes
<1>5. ASSUME NEW x \in Pending, NEW q \in Peer, Initiated(n, x, q) PROVE AnsweredOnce'
  BY <1>2, <1>5, Zenon DEF Initiated, Becomes
<1>6. ASSUME NEW q \in Peer, Abandoned(n, q) \/ Adjusted(n, q) PROVE AnsweredOnce'
  BY <1>2, <1>6, Zenon DEF Abandoned, Adjusted, Becomes
<1>7. ASSUME NEW resp \in resps, NEW x \in Pending, NEW s \in Session,
             NEW q \in Peer, Established(n, resp, x, s, q)
      PROVE  AnsweredOnce'
  BY <1>2, <1>7, Zenon DEF Established, Becomes
<1>8. ASSUME NEW s \in Session, NEW u \in Session, NEW q \in Peer, SentOn(n, s, u, q)
      PROVE  AnsweredOnce'
  BY <1>2, <1>8, Zenon DEF SentOn, Becomes
<1>9. ASSUME NEW data \in datas, NEW s \in Session, NEW u \in Session, NEW q \in Peer,
             ReceivedOn(n, data, s, u, q)
      PROVE  AnsweredOnce'
  BY <1>2, <1>9, Zenon DEF ReceivedOn, Becomes
<1> QED
  BY <1>3, <1>4, <1>5, <1>6, <1>7, <1>8, <1>9, Zenon DEF Effect

-----------------------------------------------------------------------------
(* The theorems.                                                           *)

\* Two peers that were just created have empty slots and nothing sealed.
LEMMA InitIInv == Init => IInv
<1> SUFFICES ASSUME Init PROVE IInv
  OBVIOUS
<1>1. ASSUME NEW n \in Node
      PROVE  /\ peer[n] \in Peer /\ peer[n].pending = {} /\ peer[n].current = {}
             /\ peer[n].next = {} /\ peer[n].previous = {}
  <2>1. PICK psk \in Psk : peer[n] = NewPeer(psk)
    BY Zenon DEF Init
  <2> QED
    BY <2>1, NewPeerRecord, Zenon
<1>2. peer \in [Node -> Peer]
  BY <1>1, Zenon DEF Init
<1>3. TypeOK
  BY <1>2, PairAssumption DEF Init, TypeOK
<1>4. ASSUME NEW n \in Node
      PROVE  Layout(peer[n]) /\ Held(peer[n]) = {} /\ All(peer[n]) = {}
  BY <1>1, IndexOfOne, Zenon DEF Layout, One, All, Held
<1>5. LayoutInv
  BY <1>4, Zenon DEF Init, LayoutInv
<1>6. WireInv
  BY <1>1, <1>4, Zenon DEF Init, WireInv
<1>7. SealInv
  BY <1>1, <1>4, Zenon DEF Init, SealInv
<1>8. KeyConfirmed /\ AnsweredOnce
  BY <1>1, Zenon DEF Init, KeyConfirmed, AnsweredOnce
<1> QED
  BY <1>3, <1>5, <1>6, <1>7, <1>8, Zenon DEF IInv

\* A tick of the clock, or a step of someone else, changes no slot.
LEMMA TimePasses ==
  ASSUME IInv, Tick \/ UNCHANGED vars
  PROVE  IInv'
<1>1. /\ UNCHANGED <<peer, routed, serial, restarts, inits, resps, datas, answered, delivered>>
      /\ now' \in 0 .. MaxTime /\ now \in Nat /\ now <= now' /\ now' \in Nat
  BY PairAssumption DEF IInv, TypeOK, Tick, vars, net
<1>2. TypeOK'
  BY <1>1, Zenon DEF IInv, TypeOK
<1>3. LayoutInv'
  BY <1>1, Zenon DEF IInv, LayoutInv
<1>4. WireInv'
  <2>1. \A m \in Node : \A s \in All(peer[m]) : s.established \in Nat
    BY SMTT(30) DEF IInv, TypeOK, All, Peer, Session
  <2>2. \A m \in Node : \A s \in All(peer[m]) :
          KeyDrawn(s.send.key) /\ Ends(m, s) /\ s.established <= now'
    BY <1>1, <2>1 DEF IInv, WireInv
  <2>3. /\ \A hs : Drawn(hs) => Drawn(hs)'
        /\ \A k : KeyDrawn(k) => KeyDrawn(k)'
    BY <1>1, Zenon DEF Drawn, KeyDrawn
  <2> QED
    BY <1>1, <2>2, <2>3, Zenon DEF IInv, WireInv
<1>5. SealInv' /\ KeyConfirmed' /\ AnsweredOnce'
  BY <1>1, Zenon DEF IInv, SealInv, KeyConfirmed, AnsweredOnce
<1> QED
  BY <1>2, <1>3, <1>4, <1>5, Zenon DEF IInv

\* IInv holds in every reachable state of the pair.
THEOREM Inductive == Spec => []IInv
<1>1. IInv /\ [Next]_vars => IInv'
  <2> SUFFICES ASSUME IInv, [Next]_vars PROVE IInv'
    OBVIOUS
  <2>1. CASE Tick \/ UNCHANGED vars
    BY <2>1, TimePasses, Zenon
  <2>2. ASSUME NEW n \in Node, Effect(n) PROVE IInv'
    BY <2>2, TypeNext, LayoutNext, WireNext, SealNext, ConfirmedNext, AnsweredNext, Zenon DEF IInv
  <2> QED
    BY <2>1, <2>2, StepEffect, Zenon DEF IInv
<1> QED
  BY <1>1, InitIInv, PTL DEF Spec

\* The indices a driver routes to a peer are exactly those the peer answers
\* to, and no two slots share one (the retired indices that initiate,
\* abandon_handshake, respond, handshake_response and decrypt return).
THEOREM IndicesAreRoutedExactly == Spec => []RoutedExactly
<1>1. IInv => RoutedExactly
  <2> SUFFICES ASSUME IInv, NEW n \in Node
               PROVE  /\ routed[n] = Held(peer[n])
                      /\ \A a, b \in Slots \cup {"pending"} :
                           a # b => Indices(peer[n][a]) \cap Indices(peer[n][b]) = {}
    BY Zenon DEF RoutedExactly
  <2>1. peer[n] \in Peer /\ Layout(peer[n]) /\ routed[n] = Held(peer[n])
    BY TypeFacts, Zenon DEF IInv, LayoutInv
  <2>2. /\ peer[n]["pending"] = peer[n].pending /\ peer[n]["current"] = peer[n].current
        /\ peer[n]["next"] = peer[n].next /\ peer[n]["previous"] = peer[n].previous
    BY <2>1, PeerFields, Zenon
  <2>3. LET P == Indices(peer[n].pending)
            C == Indices(peer[n].current)
            N == Indices(peer[n].next)
            V == Indices(peer[n].previous)
        IN  /\ P \cap C = {} /\ P \cap N = {} /\ P \cap V = {}
            /\ C \cap N = {} /\ C \cap V = {} /\ N \cap V = {}
    BY <2>1, IndexOf, Zenon
  <2> QED
    BY <2>1, <2>2, <2>3, Zenon DEF Slots
<1> QED
  BY <1>1, Inductive, PTL

\* The sessions of a node are those of its three slots.
LEMMA AllSessions ==
  ASSUME TypeOK, NEW n \in Node
  PROVE  Sessions(n) = All(peer[n])
BY Zenon DEF TypeOK, Sessions, Slots, All, Peer

\* No nonce is used twice under a key, through rekeys, restarts, duplicated
\* initiations and duplicated responses (Session::send and the slots of
\* Peer).
THEOREM NoncesAreFresh == Spec => []NonceFresh
<1>1. IInv => NonceFresh
  BY AllSessions, Zenon DEF IInv, SealInv, Seals, NonceFresh
<1> QED
  BY <1>1, Inductive, PTL

\* Two sessions with one key are the two ends of one handshake, each sending
\* to the index and with the key of the other (respond and
\* handshake_response).
THEOREM SessionsArePaired == Spec => []PairedSessions
<1>1. IInv => PairedSessions
  <2> SUFFICES ASSUME IInv, NEW n \in Node, NEW s \in All(peer[n])
               PROVE  /\ \A t \in All(peer[n]) : s.send.key = t.send.key => s = t
                      /\ \A t \in All(peer[Other(n)]) :
                           s.send.key = t.send.key =>
                             /\ s.index = t.peer /\ s.peer = t.index
                             /\ s.send = t.recv /\ s.recv = t.send
    BY AllSessions, OtherNode DEF IInv, PairedSessions
  <2>1. \A t \in All(peer[n]) : s.send.key = t.send.key => s = t
    BY OneKeyOneSession, Zenon DEF IInv
  <2>2. Other(n) \in Node /\ n # Other(n)
    BY OtherNode, Zenon
  <2> QED
    BY <2>1, <2>2, OneKeyTwoEnds DEF IInv
<1> QED
  BY <1>1, Inductive, PTL

\* A message that Peer::decrypt accepts is authentic, new and in time for a
\* session of the peer.
LEMMA Decrypts ==
  ASSUME TypeOK, NEW n \in Node, NEW data, can_decrypt(peer[n], data, now)
  PROVE  \E s \in All(peer[n]) :
           /\ data.aead = s.recv /\ data.counter \notin s.seen
           /\ ~(now - s.established >= REJECT_AFTER_TIME)
<1>1. PICK slot \in Addressed(peer[n], data.receiver) :
        \E s \in peer[n][slot] : usable(s, now) /\ accepts(s, data)
  BY Zenon DEF can_decrypt
<1>2. PICK s \in peer[n][slot] : usable(s, now) /\ accepts(s, data)
  BY <1>1, Zenon
<1>3. slot \in Slots /\ peer[n] \in Peer
  BY AddressedSlot, Zenon DEF TypeOK
<1>4. s \in All(peer[n])
  BY <1>2, <1>3, Zenon DEF Slots, Peer, All
<1> QED
  BY <1>2, <1>4, Zenon DEF usable, expired, accepts, Fresh

\* A delivered data message is never accepted again by the same peer,
\* whatever slot its session moved to, and after a restart either
\* (Session::receive and the rotation of the slots).
THEOREM NothingIsRedelivered == Spec => []NoRedelivery
<1>1. IInv => NoRedelivery
  BY Decrypts, Zenon DEF IInv, SealInv, Remembers, NoRedelivery
<1> QED
  BY <1>1, Inductive, PTL

\* A data message that is accepted was sealed less than REJECT_AFTER_TIME
\* ago, although the two ends count the age of a session from different
\* moments (the expiry test of Session and confirmation on the first packet).
THEOREM AcceptedMessagesAreRecent == Spec => []AcceptedIsRecent
<1>1. IInv => AcceptedIsRecent
  <2> SUFFICES ASSUME IInv, NEW n \in Node, NEW data \in datas,
                      can_decrypt(peer[n], data, now)
               PROVE  now - data.at < REJECT_AFTER_TIME
    BY Zenon DEF AcceptedIsRecent
  <2>1. PICK s \in All(peer[n]) :
          data.aead = s.recv /\ ~(now - s.established >= REJECT_AFTER_TIME)
    BY Decrypts, Zenon DEF IInv
  <2>2. s.established <= data.at
    BY <2>1, Zenon DEF IInv, SealInv, Seals
  <2>3. s.established \in Nat /\ data.at \in Nat /\ now \in Nat /\ REJECT_AFTER_TIME \in Nat
    BY PairAssumption DEF IInv, TypeOK, All, Peer, Session
  <2> QED
    BY <2>1, <2>2, <2>3
<1> QED
  BY <1>1, Inductive, PTL

\* A responder sends on a session only after it accepted a message of the
\* initiator on it (the next slot of Peer::decrypt).
THEOREM KeysAreConfirmed == Spec => []KeyConfirmed
<1>1. IInv => KeyConfirmed
  BY Zenon DEF IInv
<1> QED
  BY <1>1, Inductive, PTL

\* An initiation is answered at most once while the peer is registered,
\* however often it is duplicated (the timestamp test of Peer::respond).
THEOREM InitiationsAreAnsweredOnce == Spec => []AnsweredOnce
<1>1. IInv => AnsweredOnce
  BY Zenon DEF IInv
<1> QED
  BY <1>1, Inductive, PTL
=============================================================================
