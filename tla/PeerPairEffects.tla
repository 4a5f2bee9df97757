--------------------------- MODULE PeerPairEffects --------------------------
(***************************************************************************)
(* What a step of PeerPair does to the slots of a node: the vocabulary of  *)
(* its proofs.                                                             *)
(*                                                                         *)
(* PeerPairProofs reduces each action to its effect on the slots           *)
(* (Initiated, Responded, ...). Its invariants are shown to survive the    *)
(* effects: none needs the methods of the machine again.                   *)
(***************************************************************************)
EXTENDS PeerPair

\* An Option holds at most one thing.
One(S) == \A x, y \in S : x = y

\* The sessions of a peer record.
All(p) == p.current \cup p.next \cup p.previous

\* The slots of a peer are Options, and no two of them answer to the same
\* index.
Layout(p) ==
  /\ One(p.pending) /\ One(p.current) /\ One(p.next) /\ One(p.previous)
  /\ \A x \in p.pending : \A s \in All(p) : x.index # s.index
  /\ \A s \in p.current : \A t \in p.next \cup p.previous : s.index # t.index
  /\ \A s \in p.next : \A t \in p.previous : s.index # t.index

\* The slots of every node are laid out like that, the driver routes exactly
\* the indices they answer to, and each index was drawn before.
LayoutInv ==
  \A n \in Node :
    /\ Layout(peer[n])
    /\ routed[n] = Held(peer[n])
    /\ \A i \in Held(peer[n]) : i < serial[n]

-----------------------------------------------------------------------------
(* The effect of each action on the slots of a node, and on the rest.      *)

\* q takes the place of the record of n, and its slots are these.
Becomes(n, q, pending, current, next, previous) ==
  /\ peer' = [peer EXCEPT ![n] = q] /\ q \in Peer
  /\ q.pending = pending /\ q.current = current
  /\ q.next = next /\ q.previous = previous

\* The driver stops routing what a method retired and routes what it bound.
Reroutes(n, retired, bound) ==
  routed' = [routed EXCEPT ![n] = (@ \ retired) \cup bound]

\* The effect of Initiate: the handshake x is pending, with a fresh index.
Initiated(n, x, q) ==
  /\ x.index = serial[n] /\ x.hs.initiator = n /\ x.hs.responder = Other(n)
  /\ x.hs.eph = serial[n]
  /\ Becomes(n, q, {x}, peer[n].current, peer[n].next, peer[n].previous)
  /\ q.last = peer[n].last
  /\ Reroutes(n, Indices(peer[n].pending), {serial[n]})
  /\ serial[n] < MaxSerial /\ serial' = [serial EXCEPT ![n] = @ + 1]
  /\ inits' = inits \cup {[sender |-> serial[n], hs |-> x.hs]}
  /\ UNCHANGED <<restarts, now, resps, datas, answered, delivered>>

\* The effect of AbandonHandshake.
Abandoned(n, q) ==
  /\ Becomes(n, q, {}, peer[n].current, peer[n].next, peer[n].previous)
  /\ q.last = peer[n].last
  /\ Reroutes(n, Indices(peer[n].pending), {})
  /\ UNCHANGED <<serial, restarts, now, net, answered, delivered>>

\* A session that was just made.
Made(s, index, at) ==
  s \in Session /\ s.index = index /\ s.sent = 0 /\ s.established = at /\ s.seen = {}

\* The effect of Respond: s, of the key k, is next, with a fresh index.
Responded(n, init, s, q, k) ==
  /\ k.hs = init.hs /\ k.eph = serial[n] /\ init.hs.responder = n
  /\ Made(s, serial[n], now) /\ s.peer = init.sender
  /\ s.recv = Forward(k) /\ s.send = Backward(k)
  /\ Becomes(n, q, peer[n].pending, peer[n].current, {s}, peer[n].previous)
  /\ init.hs.timestamp > peer[n].last /\ q.last = init.hs.timestamp
  /\ Reroutes(n, Indices(peer[n].next), {serial[n]})
  /\ serial[n] < MaxSerial /\ serial' = [serial EXCEPT ![n] = @ + 1]
  /\ resps' = resps \cup {[sender |-> serial[n], receiver |-> init.sender, key |-> k]}
  /\ answered' = [answered EXCEPT ![n] = @ \cup {init}]
  /\ UNCHANGED <<restarts, now, inits, datas, delivered>>

\* The effect of HandshakeResponse: the pending x becomes the current s.
Established(n, resp, x, s, q) ==
  /\ x \in peer[n].pending
  /\ resp.receiver = x.index /\ resp.key.hs = x.hs
  /\ Made(s, x.index, now) /\ s.peer = resp.sender
  /\ s.recv = Backward(resp.key) /\ s.send = Forward(resp.key)
  /\ Becomes(n, q, {}, {s}, peer[n].next, peer[n].current)
  /\ q.last = peer[n].last
  /\ Reroutes(n, Indices(peer[n].previous), {})
  /\ UNCHANGED <<serial, restarts, now, net, answered, delivered>>

\* u is s after a message was sent or received: only these fields may differ.
Advances(s, u) ==
  /\ u \in Session /\ u.index = s.index /\ u.peer = s.peer /\ u.recv = s.recv
  /\ u.send = s.send /\ u.established = s.established
  /\ s.sent <= u.sent /\ s.seen \subseteq u.seen

\* The effect of Encrypt: the current s becomes u, and one message is on the
\* wire.
SentOn(n, s, u, q) ==
  /\ peer[n].current = {s} /\ Advances(s, u) /\ u.sent = s.sent + 1
  /\ Becomes(n, q, peer[n].pending, {u}, peer[n].next, peer[n].previous)
  /\ q.last = peer[n].last
  /\ datas' = datas \cup {[receiver |-> s.peer, counter |-> s.sent,
                           aead |-> s.send, at |-> now]}
  /\ UNCHANGED <<routed, serial, restarts, now, inits, resps, answered, delivered>>

\* The effect of Decrypt: s accepts the message and becomes u, in its slot
\* or, if that is next, as the current session.
ReceivedOn(n, data, s, u, q) ==
  /\ data.aead = s.recv /\ data.counter \notin s.seen
  /\ Advances(s, u) /\ data.counter \in u.seen /\ u.sent = s.sent
  /\ q.last = peer[n].last
  /\ \/ /\ peer[n].next = {s}
        /\ Becomes(n, q, peer[n].pending, {u}, {}, peer[n].current)
        /\ Reroutes(n, Indices(peer[n].previous), {})
     \/ /\ peer[n].current = {s}
        /\ Becomes(n, q, peer[n].pending, {u}, peer[n].next, peer[n].previous)
        /\ Reroutes(n, {}, {})
     \/ /\ peer[n].previous = {s}
        /\ Becomes(n, q, peer[n].pending, peer[n].current, peer[n].next, {u})
        /\ Reroutes(n, {}, {})
  /\ delivered' = [delivered EXCEPT ![n] = @ \cup {data}]
  /\ UNCHANGED <<serial, restarts, now, net, answered>>

\* The effect of a changed setting.
Adjusted(n, q) ==
  /\ Becomes(n, q, peer[n].pending, peer[n].current, peer[n].next, peer[n].previous)
  /\ q.last = peer[n].last
  /\ UNCHANGED <<routed, serial, restarts, now, net, answered, delivered>>

\* The effect of Restart.
Renewed(n, q) ==
  /\ Becomes(n, q, {}, {}, {}, {}) /\ q.last = 0
  /\ restarts < MaxRestart /\ restarts' = restarts + 1
  /\ routed' = [routed EXCEPT ![n] = {}]
  /\ answered' = [answered EXCEPT ![n] = {}]
  /\ UNCHANGED <<serial, now, net, delivered>>

\* What a step of n amounts to.
Effect(n) ==
  \/ \E x \in Pending, q \in Peer : Initiated(n, x, q)
  \/ \E q \in Peer : Abandoned(n, q)
  \/ \E init \in inits, s \in Session, q \in Peer, k \in Keys : Responded(n, init, s, q, k)
  \/ \E resp \in resps, x \in Pending, s \in Session, q \in Peer :
       Established(n, resp, x, s, q)
  \/ \E s, u \in Session, q \in Peer : SentOn(n, s, u, q)
  \/ \E data \in datas, s, u \in Session, q \in Peer : ReceivedOn(n, data, s, u, q)
  \/ \E q \in Peer : Adjusted(n, q)
  \/ \E q \in Peer : Renewed(n, q)
=============================================================================
