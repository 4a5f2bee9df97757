----------------------------- MODULE PeerDriver -----------------------------
(***************************************************************************)
(* The per-peer driver of tunnel/src/actor.rs: its timers, its staged      *)
(* packets and its calls of the protocol machine.                          *)
(*                                                                         *)
(* The driver is one record and every method is an operator on it.  Time   *)
(* is relative: an instant in the past is the ticks since then, up to the  *)
(* largest limit it is compared with, and a deadline the ticks left, 0     *)
(* when it is due.  Of the machine the record keeps what the driver        *)
(* depends on: the handshake pending, which slots are filled, each         *)
(* session's name and age, and the messages sealed on the current one.     *)
(* `out` holds what the handler sent.  An Option is a set of at most one   *)
(* element.                                                                *)
(***************************************************************************)
EXTENDS Integers, FiniteSets, FiniteSetsExt

CONSTANTS
  REKEY_TIMEOUT, REKEY_TIMEOUT_JITTER_MAX, REKEY_ATTEMPT_TIME,
  REKEY_AFTER_TIME, REJECT_AFTER_TIME, KEEPALIVE_TIMEOUT,
  REKEY_AFTER_MESSAGES, REJECT_AFTER_MESSAGES,
  MAX_STAGED_PACKETS,
  Intervals,     \* persistent keepalive intervals that may be configured
  CountMessages, \* FALSE where every session stays far from its message limits
  Ids            \* names of handshakes and sessions

REKEY_AFTER_TIME_RECEIVING ==
  REJECT_AFTER_TIME - KEEPALIVE_TIMEOUT - REKEY_TIMEOUT

ASSUME ActorAssumption ==
  /\ REKEY_TIMEOUT \in Nat \ {0} /\ KEEPALIVE_TIMEOUT \in Nat \ {0}
  /\ REKEY_TIMEOUT_JITTER_MAX \in Nat \ {0}
  /\ REKEY_ATTEMPT_TIME \in Nat \ {0} /\ REKEY_AFTER_TIME \in Nat
  /\ REJECT_AFTER_TIME \in Nat /\ REKEY_AFTER_TIME_RECEIVING \in Nat
  /\ REKEY_AFTER_TIME < REJECT_AFTER_TIME
  /\ REKEY_AFTER_MESSAGES \in Nat /\ REJECT_AFTER_MESSAGES \in Nat
  /\ REKEY_AFTER_MESSAGES < REJECT_AFTER_MESSAGES
  /\ MAX_STAGED_PACKETS \in Nat \ {0} /\ CountMessages \in BOOLEAN
  /\ Intervals \subseteq Nat
  /\ \E longest \in Intervals \cup {0} : \A interval \in Intervals : interval <= longest

\* What a handler draws or is told: the jitter, the name of a handshake or
\* session it starts, and whether the socket takes the data and the other
\* messages it sends.
Env == [jitter : 0 .. REKEY_TIMEOUT_JITTER_MAX - 1, id : Ids,
        data : BOOLEAN, msg : BOOLEAN]

\* The messages a driver sends.
Initiation(id) == [type |-> "init", id |-> id]
Response(to, id) == [type |-> "resp", to |-> to, id |-> id]
Data(id, payload) == [type |-> "data", id |-> id, payload |-> payload]

\* The persistent keepalives that may be configured: none, or an interval.
Persistent == {{}} \cup {{interval} : interval \in Intervals}

\* contributory: the peer's public key is one that a shared secret can be
\* made with; keys and add_peer take any 32 bytes.
NewDriver(persistent, contributory) ==
  [contributory |-> contributory, endpoint |-> FALSE, pending |-> {}, current |-> {}, next |-> {},
   previous |-> {}, handshake |-> {}, session |-> {}, staged |-> 0,
   ready |-> FALSE, persistent |-> persistent, idle |-> 0, out |-> {}]

Send(a, taken, msgs) == IF taken THEN [a EXCEPT !.out = @ \cup msgs] ELSE a

-----------------------------------------------------------------------------
(* The actor's Session: the timers of the current session.                 *)

NewTimers(initiator) ==
  {[initiator |-> initiator, age |-> 0, keepalive |-> {}, renew |-> {}]}

\* Mutant: every send puts the deadline off.
DataSentAgain(s, e) ==
  [s EXCEPT !.keepalive = {},
            !.renew = {KEEPALIVE_TIMEOUT + REKEY_TIMEOUT + e.jitter}]

data_sent(s, e) ==
  [s EXCEPT !.keepalive = {},
            !.renew = IF @ = {}
                      THEN {KEEPALIVE_TIMEOUT + REKEY_TIMEOUT + e.jitter}
                      ELSE @]

keepalive_sent(s) == [s EXCEPT !.keepalive = {}]

\* Mutant: every packet puts the passive keepalive off.
KeepalivePutOff(s, payload) ==
  [s EXCEPT !.renew = {},
            !.keepalive = IF payload THEN {KEEPALIVE_TIMEOUT} ELSE @]

packet_received(s, payload) ==
  [s EXCEPT !.renew = {},
            !.keepalive = IF payload /\ @ = {} THEN {KEEPALIVE_TIMEOUT} ELSE @]

usable(s) == s.age < REJECT_AFTER_TIME

rekey_after_send(s) == s.initiator /\ s.age >= REKEY_AFTER_TIME

rekey_after_receive(s) == s.initiator /\ s.age >= REKEY_AFTER_TIME_RECEIVING

-----------------------------------------------------------------------------
(* Sending.                                                                *)

\* The machine's encrypt succeeds.
can_encrypt(a) ==
  /\ a.endpoint
  /\ \E s \in a.current :
       s.age < REJECT_AFTER_TIME /\ s.sent < REJECT_AFTER_MESSAGES

\* The machine's current session after n more messages.
Encrypted(a, n) ==
  IF ~CountMessages THEN a
  ELSE [a EXCEPT !.current = {[s EXCEPT !.sent = @ + n] : s \in a.current}]

\* A message on the current session.
DataOn(a, payload) == {Data(s.id, payload) : s \in a.current}

rekey_due_to_messages(a) == \E s \in a.current : s.sent >= REKEY_AFTER_MESSAGES

\* `elapsed` is the time since the first initiation of the attempt.  The
\* attempt is noted before the machine's initiate, which fails for a key that
\* is not contributory: then nothing is pending and nothing is sent.
send_handshake(a, elapsed, e) ==
  LET b == [a EXCEPT !.handshake = {[elapsed |-> elapsed,
                                     retry |-> REKEY_TIMEOUT + e.jitter]}]
  IN  IF ~a.endpoint THEN a
      ELSE IF ~a.contributory THEN b
      ELSE Send([b EXCEPT !.pending = {e.id}, !.idle = IF e.msg THEN 0 ELSE @],
                e.msg, {Initiation(e.id)})

\* Mutant: a handshake is started although one is in flight.
AlwaysHandshake(a, e) == send_handshake(a, 0, e)

ensure_handshake(a, e) ==
  IF a.handshake = {} THEN send_handshake(a, 0, e) ELSE a

\* Mutant: staged packets wait for someone else to start a handshake.
StageOnly(a, n, e) ==
  [a EXCEPT !.session = {}, !.staged = Min({MAX_STAGED_PACKETS, @ + n})]

\* The tail of flush_sends when n payloads could not be encrypted.
Stalled(a, n, e) ==
  ensure_handshake(
    [a EXCEPT !.session = {}, !.staged = Min({MAX_STAGED_PACKETS, @ + n})], e)

\* The tail of flush_sends when everything was encrypted.
Flushed(a, e) ==
  LET b == IF e.data
           THEN [a EXCEPT !.idle = 0,
                          !.session = {data_sent(s, e) : s \in a.session}]
           ELSE a
      rekey == \/ rekey_due_to_messages(a)
               \/ e.data /\ \E s \in a.session : rekey_after_send(s)
  IN  IF rekey THEN ensure_handshake(b, e) ELSE b

flush_sends(a, n, e) ==
  LET room == IF CountMessages THEN {REJECT_AFTER_MESSAGES - s.sent : s \in a.current}
              ELSE {}
      encrypted == IF can_encrypt(a) THEN Min({n} \cup room) ELSE 0
      b == Send(Encrypted(a, encrypted), e.data /\ encrypted > 0, DataOn(a, TRUE))
  IN  IF n = 0 THEN a
      ELSE IF encrypted < n THEN Stalled(b, n - encrypted, e)
      ELSE Flushed(b, e)

send_keepalive(a, e) ==
  LET b == Send(Encrypted(a, 1), e.msg, DataOn(a, FALSE))
      c == [b EXCEPT !.session = {keepalive_sent(s) : s \in a.session},
                     !.idle = IF e.msg THEN 0 ELSE @]
      rekey == \/ rekey_due_to_messages(b)
               \/ e.msg /\ \E s \in a.session : rekey_after_send(s)
  IN  IF ~can_encrypt(a) THEN [a EXCEPT !.session = {}]
      ELSE IF rekey THEN ensure_handshake(c, e)
      ELSE c

flush_staged(a, e) == flush_sends([a EXCEPT !.staged = 0], a.staged, e)

\* Mutant: the packets staged for the session are left where they are.
EstablishedUnflushed(a, initiator, e) ==
  [send_keepalive(a, e) EXCEPT !.ready = TRUE]

session_established(a, initiator, e) ==
  LET b == flush_staged(a, e)
  IN  [(IF initiator /\ a.staged = 0 THEN send_keepalive(b, e) ELSE b)
         EXCEPT !.ready = TRUE]

-----------------------------------------------------------------------------
(* handle_message.                                                         *)

Connect(a, e) == ensure_handshake([a EXCEPT !.endpoint = TRUE], e)

\* apply_update with the persistent keepalive that results from it.
apply_update(a, persistent, endpoint, e) ==
  LET b == [a EXCEPT !.persistent = persistent]
  IN  IF endpoint THEN Connect(b, e) ELSE b

\* The machine's adopt_current, with the confirmed or initiated session.
adopt_current(a, s) ==
  [a EXCEPT !.previous = {[id |-> c.id, age |-> c.age] : c \in a.current},
            !.current = {[id |-> s.id, age |-> s.age, sent |-> 0]},
            !.endpoint = TRUE]

Slots == {"next", "current", "previous"}

\* The sessions that open packets, by slot.
Slot(a, slot) ==
  CASE slot = "next"     -> a.next
    [] slot = "current"  -> a.current
    [] slot = "previous" -> a.previous

can_decrypt(a, slot, id) ==
  \E s \in Slot(a, slot) : s.id = id /\ s.age < REJECT_AFTER_TIME

\* Mutant: the confirmed session gets no timers.
ConfirmedUntimed(a, s) == [adopt_current(a, s) EXCEPT !.next = {}]

\* The responder's session is confirmed.
Confirmed(a, s) ==
  [adopt_current(a, s) EXCEPT !.next = {}, !.session = NewTimers(FALSE)]

RecvData(a, slot, payload, e) ==
  LET b == IF slot = "next"
           THEN Confirmed(a, CHOOSE s \in a.next : TRUE)
           ELSE [a EXCEPT !.endpoint = TRUE]
      c == [b EXCEPT !.session = {packet_received(s, payload) : s \in b.session}]
      d == IF slot = "next" THEN session_established(c, FALSE, e) ELSE c
  IN  IF \E s \in c.session : rekey_after_receive(s)
      THEN ensure_handshake(d, e) ELSE d

\* An initiation named `from` is answered with a session named e.id.
RecvHandshakeInit(a, from, e) ==
  Send([a EXCEPT !.next = {[id |-> e.id, age |-> 0]}, !.endpoint = TRUE,
                 !.idle = IF e.msg THEN 0 ELSE @],
       e.msg, {Response(from, e.id)})

\* Mutant: the finished attempt keeps its retransmission timer.
KeepRetrying(a, id, e) ==
  session_established(
    [adopt_current(a, [id |-> id, age |-> 0])
       EXCEPT !.pending = {}, !.session = NewTimers(TRUE)],
    TRUE, e)

\* The pending handshake is answered with the session named id.
RecvHandshakeResp(a, id, e) ==
  session_established(
    [adopt_current(a, [id |-> id, age |-> 0])
       EXCEPT !.pending = {}, !.handshake = {}, !.session = NewTimers(TRUE)],
    TRUE, e)

-----------------------------------------------------------------------------
(* Timers.                                                                 *)

\* Mutant: a retransmission starts the abandonment window anew.
RetryAnew(a, e) ==
  IF \E h \in a.handshake : h.elapsed >= REKEY_ATTEMPT_TIME
  THEN [a EXCEPT !.handshake = {}, !.staged = 0, !.pending = {}]
  ELSE send_handshake(a, 0, e)

\* Mutant: giving up leaves the staged packets behind.
GiveUpStaged(a, e) ==
  LET h == CHOOSE h \in a.handshake : TRUE
  IN  IF h.elapsed >= REKEY_ATTEMPT_TIME
      THEN [a EXCEPT !.handshake = {}, !.pending = {}]
      ELSE send_handshake(a, h.elapsed, e)

handshake_due(a, e) ==
  LET h == CHOOSE h \in a.handshake : TRUE
  IN  IF h.elapsed >= REKEY_ATTEMPT_TIME
      THEN [a EXCEPT !.handshake = {}, !.staged = 0, !.pending = {}]
      ELSE send_handshake(a, h.elapsed, e)

session_expired(a) == [a EXCEPT !.session = {}]

new_handshake_due(a, e) ==
  ensure_handshake(
    [a EXCEPT !.session = {[s EXCEPT !.renew = {}] : s \in @}], e)

\* Mutant: last_send moves only when a keepalive is sent.
PersistentUnmoved(a, e) ==
  IF \E s \in a.session : usable(s) THEN send_keepalive(a, e)
  ELSE ensure_handshake(a, e)

persistent_keepalive_due(a, e) ==
  LET b == [a EXCEPT !.idle = 0]
  IN  IF \E s \in a.session : usable(s) THEN send_keepalive(b, e)
      ELSE ensure_handshake(b, e)

Timers == {"handshake", "expires", "keepalive", "new_handshake", "persistent"}

\* The select arms of run: which timers are due, and what they run.
due(a, t) ==
  CASE t = "handshake"     -> \E h \in a.handshake : h.retry = 0
    [] t = "expires"       -> \E s \in a.session : ~usable(s)
    [] t = "keepalive"     -> \E s \in a.session : 0 \in s.keepalive
    [] t = "new_handshake" -> \E s \in a.session : 0 \in s.renew
    [] t = "persistent"    -> a.endpoint /\ \E interval \in a.persistent : a.idle >= interval

fire(a, t, e) ==
  CASE t = "handshake"     -> handshake_due(a, e)
    [] t = "expires"       -> session_expired(a)
    [] t = "keepalive"     -> send_keepalive(a, e)
    [] t = "new_handshake" -> new_handshake_due(a, e)
    [] t = "persistent"    -> persistent_keepalive_due(a, e)

\* One tick of the clock.
Older(x, limit) == Min({x + 1, limit})

Sooner(deadline) == {Max({t - 1, 0}) : t \in deadline}

Aged(a) ==
  [a EXCEPT
     !.current = {[s EXCEPT !.age = Older(@, REJECT_AFTER_TIME)] : s \in @},
     !.next = {[s EXCEPT !.age = Older(@, REJECT_AFTER_TIME)] : s \in @},
     !.previous = {[s EXCEPT !.age = Older(@, REJECT_AFTER_TIME)] : s \in @},
     !.handshake = {[elapsed |-> Older(h.elapsed, REKEY_ATTEMPT_TIME),
                     retry |-> Max({h.retry - 1, 0})] : h \in @},
     !.session = {[s EXCEPT !.age = Older(@, REJECT_AFTER_TIME),
                            !.keepalive = Sooner(@),
                            !.renew = Sooner(@)] : s \in @},
     !.idle = Older(@, Max(Intervals \cup {0}))]

=============================================================================
