---------------------------- MODULE PeerMachine -----------------------------
(***************************************************************************)
(* The sans-I/O per-peer state of protocol/src/peer.rs and peer/session.rs *)
(* as operators on a peer record: what each method does to the record, and *)
(* the receiver indices it hands back to the driver as no longer routed.   *)
(*                                                                         *)
(* An Option is a set with at most one element.  The replay filter of a    *)
(* session is the set of counters it accepted (see ReplayFilter).          *)
(***************************************************************************)
EXTENDS Handshake, CounterWindow

CONSTANT REJECT_AFTER_TIME \* age from which a session refuses to work

REJECT_AFTER_MESSAGES == Limit

Indices(option) == {x.index : x \in option}

\* Every receiver index a peer answers to.
Held(p) ==
  Indices(p.pending) \cup Indices(p.current)
    \cup Indices(p.next) \cup Indices(p.previous)

\* Peer::new, and the pre-shared key that spawn sets at once.
NewPeer(psk) ==
  [endpoint |-> {}, psk |-> psk, last |-> 0,
   pending |-> {}, current |-> {}, next |-> {}, previous |-> {}]

\* Session::new around a transport.
NewSession(transport, now) ==
  [index |-> transport.index, peer |-> transport.peer,
   recv |-> transport.recv, send |-> transport.send,
   sent |-> 0, established |-> now, seen |-> {}]

expired(s, now) == now - s.established >= REJECT_AFTER_TIME

set_preshared_key(p, psk) == [p EXCEPT !.psk = psk]

set_endpoint(p, endpoint) == [p EXCEPT !.endpoint = {endpoint}]

-----------------------------------------------------------------------------
(* Handshakes.                                                             *)

initiate(p, index, hs) ==
  [peer |-> [p EXCEPT !.pending = {[index |-> index, hs |-> hs]}],
   retired |-> Indices(p.pending)]

abandon_handshake(p) ==
  [peer |-> [p EXCEPT !.pending = {}], retired |-> Indices(p.pending)]

\* Mutant: an initiation as old as the last one is taken for a newer one.
NotOlder(p, init) == init.hs.timestamp >= p.last

\* The timestamp test of respond.  Timestamps start at 1: no initiation was
\* answered yet when `last` is 0.
Newer(p, init) == init.hs.timestamp > p.last

\* Mutant: the responder sends on the session before it is confirmed.
RespondAtOnce(p, init, transport, source, now) ==
  [peer |-> [p EXCEPT !.last = init.hs.timestamp, !.endpoint = {source},
                      !.previous = p.current,
                      !.current = {NewSession(transport, now)}],
   retired |-> Indices(p.previous)]

respond(p, init, transport, source, now) ==
  [peer |-> [p EXCEPT !.last = init.hs.timestamp, !.endpoint = {source},
                      !.next = {NewSession(transport, now)}],
   retired |-> Indices(p.next)]

\* Mutant: the index that leaves is taken from the wrong slot.
AdoptRetireCurrent(p, s, source) ==
  [peer |-> [p EXCEPT !.previous = p.current, !.current = {s},
                      !.endpoint = {source}],
   retired |-> Indices(p.current)]

adopt_current(p, s, source) ==
  [peer |-> [p EXCEPT !.previous = p.current, !.current = {s},
                      !.endpoint = {source}],
   retired |-> Indices(p.previous)]

\* Mutant: the pending handshake survives its response.
KeepPending(p, transport, source, now) ==
  adopt_current(p, NewSession(transport, now), source)

handshake_response(p, transport, source, now) ==
  adopt_current([p EXCEPT !.pending = {}], NewSession(transport, now), source)

-----------------------------------------------------------------------------
(* Transport data.                                                         *)

\* Mutant: a session of any age encrypts and decrypts.
Ageless(s, now) == TRUE

usable(s, now) == ~expired(s, now)

can_encrypt(p, now) ==
  /\ p.endpoint # {}
  /\ \E s \in p.current : usable(s, now) /\ s.sent < REJECT_AFTER_MESSAGES

\* The data message the next encrypt seals.
Sealed(p, now) ==
  LET s == CHOOSE s \in p.current : TRUE
  IN  [receiver |-> s.peer, counter |-> s.sent, aead |-> s.send, at |-> now]

encrypt(p) ==
  [p EXCEPT !.current = {[s EXCEPT !.sent = @ + 1] : s \in p.current}]

\* The slot a data message addressed to receiver is for: next, then current,
\* then previous.
Slots == {"next", "current", "previous"}

Matching(p, receiver) == {slot \in Slots : receiver \in Indices(p[slot])}

Addressed(p, receiver) ==
  LET m == Matching(p, receiver)
  IN  IF "next" \in m THEN {"next"}
      ELSE IF "current" \in m THEN {"current"}
      ELSE m

\* Mutant: authentic packets are not checked against the replay filter.
Opens(s, data) == data.aead = s.recv /\ data.counter < REJECT_AFTER_MESSAGES

\* Session::receive: authenticate, then validate the counter.
accepts(s, data) == data.aead = s.recv /\ Fresh(s.seen, data.counter)

can_decrypt(p, data, now) ==
  \E slot \in Addressed(p, data.receiver) :
    \E s \in p[slot] : usable(s, now) /\ accepts(s, data)

\* Decryption in a slot: the first authentic packet on `next` confirms it.
decrypt(p, slot, data, source) ==
  LET s == CHOOSE s \in p[slot] : TRUE
      opened == [s EXCEPT !.seen = @ \cup {data.counter}]
  IN  IF slot = "next"
      THEN adopt_current([p EXCEPT !.next = {}], opened, source)
      ELSE [peer |-> [p EXCEPT ![slot] = {opened}, !.endpoint = {source}],
            retired |-> {}]
=============================================================================
