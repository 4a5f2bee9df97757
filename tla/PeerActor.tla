----------------------------- MODULE PeerActor ------------------------------
(***************************************************************************)
(* One peer actor against a remote peer and a socket that may do anything: *)
(* a select arm of run is an action, and a due timer may fire late.        *)
(***************************************************************************)
EXTENDS PeerDriver

CONSTANT MaxBatch \* bound: payloads in one batch of SendData actions

ASSUME BatchAssumption == MaxBatch \in Nat \ {0}

VARIABLE actor

Init ==
  \E persistent \in Persistent, contributory \in BOOLEAN :
    actor = NewDriver(persistent, contributory)

\* The actor after a handler; what it sent is the network's.
Become(a) == actor' = [a EXCEPT !.out = {}]

\* What concerns a handler that sends no packets.
NoData == {e \in Env : e.data}

OnConnect == \E e \in NoData : Become(Connect(actor, e))

OnUpdate ==
  \E e \in NoData, persistent \in Persistent, endpoint \in BOOLEAN :
    Become(apply_update(actor, persistent, endpoint, e))

OnSendData == \E e \in Env, n \in 1 .. MaxBatch : Become(flush_sends(actor, n, e))

OnRecvData ==
  \E e \in Env, slot \in Slots, payload \in BOOLEAN :
    /\ \E id \in Ids : can_decrypt(actor, slot, id)
    /\ Become(RecvData(actor, slot, payload, e))

\* Handshake::receive needs a secret of both static keys, so no initiation
\* comes from a key that is not contributory.
OnRecvHandshakeInit ==
  /\ actor.contributory
  /\ \E e \in NoData, from \in Ids : Become(RecvHandshakeInit(actor, from, e))

OnRecvHandshakeResp ==
  /\ actor.pending # {}
  /\ \E e \in Env, id \in Ids : Become(RecvHandshakeResp(actor, id, e))

OnTimer(t) ==
  /\ due(actor, t)
  /\ \E e \in Env : Become(fire(actor, t, e))

Tick == actor' = Aged(actor)

Next ==
  \/ OnConnect \/ OnUpdate \/ OnSendData
  \/ OnRecvData \/ OnRecvHandshakeInit \/ OnRecvHandshakeResp
  \/ \E t \in Timers : OnTimer(t)
  \/ Tick

\* Time passes and a due retransmission is served; the properties need no
\* fairness of the other timers.
Fairness == WF_actor(Tick) /\ SF_actor(OnTimer("handshake"))

Spec == Init /\ [][Next]_actor /\ Fairness

-----------------------------------------------------------------------------
(* Properties.                                                             *)

\* The record is well typed; staging is bounded by MAX_STAGED_PACKETS.
TypeOK ==
  /\ actor.endpoint \in BOOLEAN /\ actor.ready \in BOOLEAN
  /\ \A f \in {"pending", "current", "next", "previous", "handshake", "session"} :
       Cardinality(actor[f]) <= 1
  /\ actor.current \subseteq [id : Ids, age : 0 .. REJECT_AFTER_TIME,
                              sent : 0 .. REJECT_AFTER_MESSAGES]
  /\ actor.next \cup actor.previous \subseteq [id : Ids, age : 0 .. REJECT_AFTER_TIME]
  /\ actor.staged \in 0 .. MAX_STAGED_PACKETS

\* The driver's attempt and the machine's pending handshake come and go
\* together, unless the peer's key is one that initiate refuses: a pending
\* handshake is always retransmitted or abandoned, no timer runs for one
\* that is over, and for a refused key nothing is ever pending.
AttemptIsPending ==
  actor.pending # {} <=> actor.handshake # {} /\ actor.contributory

\* Whenever the machine can encrypt, the driver has timers for the session,
\* so no packet is sent whose loss would go unnoticed, and has told those
\* who wait in ready().  Driver and machine count the age of a responder's
\* session from different moments.
SendsAreTimed == can_encrypt(actor) => actor.session # {} /\ actor.ready

\* Packets are staged only while the machine cannot encrypt, so no later
\* packet overtakes a staged one.
StagedWaits == actor.staged > 0 => ~can_encrypt(actor)

\* Staged packets that could be asked a session for are on their way: an
\* attempt is in flight, or a session answered to the remote peer may still
\* be confirmed.
Pursued(a) ==
  a.staged > 0 /\ a.endpoint =>
    a.handshake # {} \/ \E s \in a.next : s.age < REJECT_AFTER_TIME

\* No message and no timer leaves staged packets unpursued: that takes the
\* expiry of a session which the remote peer asked for and never confirmed.
PursuitIsKept == [][Pursued(actor) => Pursued(actor') \/ Tick]_actor

\* The timer t is due again the moment it has fired.
Spins(t) == \E e \in Env : due(actor, t) /\ due(fire(actor, t, e), t)

\* What the comment on last_send says: the select loop spins on no timer.
NeverSpins == \A t \in Timers : ~Spins(t)

\* A timer that fired is no longer due, whatever the socket says and
\* whether or not initiate fails, but for a persistent keepalive of zero.
NoSpin == \A t \in Timers : Spins(t) => t = "persistent" /\ 0 \in actor.persistent

\* An attempt in flight is not begun anew, and its initiation is repeated
\* only when the retransmission is due, however many triggers ask for one.
RetransmitsOnTime ==
  [][(\A h \in actor.handshake, g \in actor'.handshake :
        g.elapsed >= h.elapsed /\ (g.retry > h.retry => h.retry = 0))
     \/ OnRecvHandshakeResp]_actor

\* Unanswered data is noticed in time however much more is sent: while the
\* session has timers, only an answer or a new session puts the deadline off
\* or clears it before it is due.
SilenceDeadlineKept ==
  [][(\A s \in actor.session, r \in actor'.session :
        \A t \in s.renew : t = 0 \/ \E u \in r.renew : u <= t)
     \/ OnRecvData \/ OnRecvHandshakeResp]_actor

\* Every attempt ends, with a response or by being abandoned.
AttemptEnds == (actor.handshake # {}) ~> (actor.handshake = {})

\* While an attempt is in flight, staged packets do not wait for ever: they
\* are sent on the session it makes or dropped with it.
StagedLeaves == (actor.staged > 0 /\ actor.handshake # {}) ~> (actor.staged = 0)
=============================================================================
