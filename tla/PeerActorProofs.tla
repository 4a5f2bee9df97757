-------------------------- MODULE PeerActorProofs ---------------------------
(***************************************************************************)
(* The timers, the staging and the handshake attempts of a peer actor, for *)
(* every value of the timeouts, the message limits, the staging and batch  *)
(* bounds and the keepalive intervals.                                     *)
(*                                                                         *)
(* A handler is a chain of calls, each of which may send, start a          *)
(* handshake, drop the session's timers or stage packets. Good is what     *)
(* holds between any two calls of the chain, and every method is shown to  *)
(* keep it; Core is the part that holds even while packets wait for a      *)
(* session that was just made, before flush_staged runs. Two conjuncts are *)
(* not among the properties and make them hold: Aging, that the driver's   *)
(* timers are never older than the machine's session, so that a session    *)
(* that expires for the driver is one the machine no longer encrypts with; *)
(* and Known, that a peer with a session has an endpoint.                  *)
(*                                                                         *)
(* Liveness (AttemptEnds, StagedLeaves) is beyond these proofs.            *)
(***************************************************************************)
EXTENDS PeerActor, FiniteSetTheorems, TLAPS

\* A handshake attempt: the time since its first initiation, and until the
\* next.
Attempt == [elapsed : 0 .. REKEY_ATTEMPT_TIME, retry : Nat]

\* A timer: off, or the ticks left.
Deadline == {{}} \cup {{t} : t \in Nat}

\* The timers of the current session.
Timing ==
  [initiator : BOOLEAN, age : 0 .. REJECT_AFTER_TIME,
   keepalive : Deadline, renew : Deadline]

\* A session that opens packets.
Kept == [id : Ids, age : 0 .. REJECT_AFTER_TIME]

\* The session that seals packets.
Current ==
  [id : Ids, age : 0 .. REJECT_AFTER_TIME, sent : 0 .. REJECT_AFTER_MESSAGES]

\* What a driver sends.
Message ==
  [type : {"init"}, id : Ids] \cup [type : {"resp"}, to : Ids, id : Ids]
    \cup [type : {"data"}, id : Ids, payload : BOOLEAN]

\* The types of the driver's record.
Driver ==
  [contributory : BOOLEAN, endpoint : BOOLEAN, pending : SUBSET Ids, current : SUBSET Current,
   next : SUBSET Kept, previous : SUBSET Kept, handshake : SUBSET Attempt,
   session : SUBSET Timing, staged : 0 .. MAX_STAGED_PACKETS,
   ready : BOOLEAN, persistent : SUBSET Intervals, idle : Nat,
   out : SUBSET Message]

\* An Option holds at most one thing.
One(S) == \A x, y \in S : x = y

\* The fields that are Options.
Options(a) ==
  /\ One(a.pending) /\ One(a.handshake) /\ One(a.session)
  /\ One(a.current) /\ One(a.next) /\ One(a.previous)

\* The machine's pending handshake and the driver's attempt come and go
\* together, a key apart that initiate refuses, and there is somebody they
\* are sent to.
Attempted(a) ==
  /\ a.pending # {} <=> a.handshake # {} /\ a.contributory
  /\ a.handshake # {} => a.endpoint

\* A peer with a session has an endpoint.
Known(a) == a.current \cup a.next \cup a.previous # {} => a.endpoint

\* The driver's timers are not older than the machine's session.
Aging(a) == \A c \in a.current, s \in a.session : s.age <= c.age

\* A session that encrypts has timers.
Timed(a) == can_encrypt(a) => a.session # {}

\* What holds while a handler runs, before the staged packets are looked at.
Core(a) ==
  a \in Driver /\ Options(a) /\ Attempted(a) /\ Known(a) /\ Aging(a) /\ Timed(a)

\* Packets are staged only while the machine cannot encrypt.
Waits(a) == a.staged > 0 => ~can_encrypt(a)

\* Whoever waits in ready() was told of the session.
Ready(a) == a.current # {} => a.ready

\* What holds between the calls a handler makes.
Good(a) == Core(a) /\ Waits(a)

\* The inductive invariant.
IInv == Good(actor) /\ Ready(actor)

-----------------------------------------------------------------------------
(* The helpers.                                                            *)

\* The smaller of two numbers.
LEMMA MinOfTwo ==
  ASSUME NEW x \in Int, NEW y \in Int
  PROVE  Min({x, y}) = IF x <= y THEN x ELSE y
<1>1. \E z \in {x, y} : \A w \in {x, y} : z <= w
  OBVIOUS
<1>2. Min({x, y}) \in {x, y} /\ \A w \in {x, y} : Min({x, y}) <= w
  BY <1>1, Zenon DEF Min
<1> QED
  BY <1>2

\* The larger of two numbers.
LEMMA MaxOfTwo ==
  ASSUME NEW x \in Int, NEW y \in Int
  PROVE  Max({x, y}) = IF x >= y THEN x ELSE y
<1>1. \E z \in {x, y} : \A w \in {x, y} : z >= w
  OBVIOUS
<1>2. Max({x, y}) \in {x, y} /\ \A w \in {x, y} : Max({x, y}) >= w
  BY <1>1, Zenon DEF Max
<1> QED
  BY <1>2

\* There is a longest persistent keepalive interval.
LEMMA LongestInterval == Max(Intervals \cup {0}) \in Nat
<1> DEFINE S == Intervals \cup {0}
<1>1. PICK longest \in S : \A interval \in Intervals : interval <= longest
  BY ActorAssumption, Zenon
<1>2. S \subseteq Nat
  BY ActorAssumption
<1>3. \A y \in S : longest >= y
  BY <1>1, <1>2
<1>4. Max(S) \in S
  BY <1>1, <1>3, Zenon DEF Max
<1> QED
  BY <1>2, <1>4, Zenon

\* b differs from a at most in its attempt and in what it sent, and when.
Same(a, b) ==
  /\ b \in Driver
  /\ b.endpoint = a.endpoint /\ b.current = a.current /\ b.next = a.next
  /\ b.previous = a.previous /\ b.session = a.session /\ b.staged = a.staged
  /\ b.ready = a.ready /\ b.persistent = a.persistent
  /\ b.contributory = a.contributory

\* The attempt that an initiation drawn from e begins or continues.
Sent(elapsed, e) == {[elapsed |-> elapsed, retry |-> REKEY_TIMEOUT + e.jitter]}

\* The types of what a handler draws.
LEMMA EnvFields ==
  ASSUME NEW e \in Env
  PROVE  e.jitter \in Nat /\ e.id \in Ids /\ e.data \in BOOLEAN /\ e.msg \in BOOLEAN
BY ActorAssumption DEF Env

\* Sending a message changes nothing else.
LEMMA SendRecord ==
  ASSUME NEW a \in Driver, NEW taken \in BOOLEAN, NEW msgs \in SUBSET Message
  PROVE  LET b == Send(a, taken, msgs)
         IN  /\ Same(a, b) /\ b.idle = a.idle
             /\ b.handshake = a.handshake /\ b.pending = a.pending /\ b.contributory = a.contributory
<1>1. CASE taken
  BY <1>1, Zenon DEF Send, Same, Driver
<1>2. CASE ~taken
  BY <1>2, Zenon DEF Send, Same, Driver
<1> QED
  BY <1>1, <1>2, Zenon

\* send_handshake replaces the attempt and, for a key that initiate takes, the
\* pending handshake.
LEMMA SendHandshakeRecord ==
  ASSUME NEW a \in Driver, a.endpoint, NEW e \in Env, NEW elapsed \in 0 .. REKEY_ATTEMPT_TIME
  PROVE  LET b == send_handshake(a, elapsed, e)
         IN  /\ Same(a, b) /\ b.idle \in {0, a.idle}
             /\ b.handshake = Sent(elapsed, e)
             /\ b.pending = IF a.contributory THEN {e.id} ELSE a.pending
<1> DEFINE x == [elapsed |-> elapsed, retry |-> REKEY_TIMEOUT + e.jitter]
           d == [a EXCEPT !.handshake = {x}]
           c == [d EXCEPT !.pending = {e.id}, !.idle = IF e.msg THEN 0 ELSE @]
<1>1. x \in Attempt /\ e.id \in Ids /\ e.msg \in BOOLEAN
  BY EnvFields, ActorAssumption DEF Attempt
<1>2. send_handshake(a, elapsed, e) =
        IF a.contributory THEN Send(c, e.msg, {Initiation(e.id)}) ELSE d
  <2>1. a.endpoint
    OBVIOUS
  <2> QED
    BY <2>1 DEF send_handshake
<1>3. {Initiation(e.id)} \in SUBSET Message
  BY <1>1 DEF Initiation, Message
<1>4. {x} = Sent(elapsed, e)
  BY Zenon DEF Sent
<1> HIDE DEF x
<1>5. /\ Same(a, d) /\ d.idle = a.idle
      /\ d.handshake = {x} /\ d.pending = a.pending
  BY <1>1, Zenon DEF Same, Driver
<1> HIDE DEF d
<1>6. /\ Same(a, c) /\ c.idle \in {0, a.idle}
      /\ c.handshake = {x} /\ c.pending = {e.id}
  <2>1. d \in Driver
    BY <1>5, Zenon DEF Same
  <2>2. /\ Same(d, c) /\ c.idle \in {0, d.idle}
        /\ c.handshake = d.handshake /\ c.pending = {e.id}
    BY <1>1, <2>1, Zenon DEF Same, Driver
  <2> HIDE DEF c
  <2> QED
    BY <1>5, <2>2 DEF Same
<1> HIDE DEF c
<1> DEFINE b == Send(c, e.msg, {Initiation(e.id)})
<1>7. /\ Same(c, b) /\ b.idle = c.idle
      /\ b.handshake = c.handshake /\ b.pending = c.pending
  <2>1. c \in Driver
    BY <1>6, Zenon DEF Same
  <2> QED
    BY <1>1, <1>3, <2>1, SendRecord
<1> HIDE DEF b
<1>8. Same(a, b)
  BY <1>6, <1>7 DEF Same
<1>9. CASE a.contributory
  BY <1>2, <1>4, <1>6, <1>7, <1>8, <1>9, Zenon DEF b
<1>10. CASE ~a.contributory
  BY <1>2, <1>4, <1>5, <1>10, Zenon
<1> QED
  BY <1>9, <1>10

\* ensure_handshake starts an attempt when none is in flight and there is an
\* endpoint, and does nothing otherwise.
LEMMA EnsureRecord ==
  ASSUME NEW a \in Driver, NEW e \in Env
  PROVE  LET b == ensure_handshake(a, e)
         IN  /\ Same(a, b) /\ b.idle \in {0, a.idle}
             /\ \/ /\ a.handshake = {} /\ a.endpoint
                   /\ b.handshake = Sent(0, e)
                   /\ b.pending = IF a.contributory THEN {e.id} ELSE a.pending
                \/ /\ a.handshake # {} \/ ~a.endpoint
                   /\ b.handshake = a.handshake /\ b.pending = a.pending /\ b.contributory = a.contributory
<1>1. CASE a.handshake = {} /\ a.endpoint
  <2>1. 0 \in 0 .. REKEY_ATTEMPT_TIME
    BY ActorAssumption
  <2>2. ensure_handshake(a, e) = send_handshake(a, 0, e)
    BY <1>1, Zenon DEF ensure_handshake
  <2> DEFINE b == send_handshake(a, 0, e)
  <2>3. /\ Same(a, b) /\ b.idle \in {0, a.idle} /\ b.handshake = Sent(0, e)
        /\ b.pending = IF a.contributory THEN {e.id} ELSE a.pending
    BY <1>1, <2>1, SendHandshakeRecord, Zenon
  <2> HIDE DEF b
  <2>4. ensure_handshake(a, e) = b
    BY <2>2, Zenon DEF b
  <2> QED
    BY <1>1, <2>3, <2>4
<1>2. CASE a.handshake # {} \/ ~a.endpoint
  <2>1. ensure_handshake(a, e) = a
    BY <1>2, Zenon DEF ensure_handshake, send_handshake
  <2> QED
    BY <1>2, <2>1, Zenon DEF Same
<1> QED
  BY <1>1, <1>2, Zenon DEF Driver

\* ensure_handshake keeps what holds between calls and an attempt in flight;
\* with an endpoint there is an attempt afterwards.
LEMMA EnsureGood ==
  ASSUME NEW a, Core(a), NEW e \in Env
  PROVE  LET b == ensure_handshake(a, e)
         IN  /\ Core(b) /\ Same(a, b) /\ b.idle \in {0, a.idle}
             /\ a.handshake # {} => b.handshake = a.handshake
             /\ a.endpoint => b.handshake # {}
             /\ Waits(a) => Waits(b)
             /\ Pursued(a) => Pursued(b)
<1> DEFINE b == ensure_handshake(a, e)
<1>1. /\ Same(a, b) /\ b.idle \in {0, a.idle}
      /\ \/ /\ a.handshake = {} /\ a.endpoint
            /\ b.handshake = Sent(0, e)
            /\ b.pending = IF a.contributory THEN {e.id} ELSE a.pending
         \/ /\ a.handshake # {} \/ ~a.endpoint
            /\ b.handshake = a.handshake /\ b.pending = a.pending /\ b.contributory = a.contributory
  BY EnsureRecord, Zenon DEF Core
<1> HIDE DEF b
<1>2. Options(b)
  BY <1>1 DEF Core, Options, One, Same, Sent
<1>3. Attempted(b)
  BY <1>1, Zenon DEF Core, Attempted, Same, Sent
<1>4. Known(b) /\ Aging(b) /\ Timed(b) /\ (Waits(a) => Waits(b)) /\ (can_encrypt(b) <=> can_encrypt(a))
  BY <1>1, Zenon DEF Core, Known, Aging, Timed, Waits, Same, can_encrypt
<1>5. Pursued(a) => Pursued(b)
  BY <1>1, Zenon DEF Pursued, Same, Sent
<1> QED
  BY <1>1, <1>2, <1>3, <1>4, <1>5, Zenon DEF Core, Same, Sent, b

-----------------------------------------------------------------------------
(* Sending.                                                                *)

\* b is a after k messages on the current session.
Spent(a, b, k) ==
  /\ b \in Driver
  /\ b.endpoint = a.endpoint /\ b.pending = a.pending /\ b.contributory = a.contributory /\ b.next = a.next
  /\ b.previous = a.previous /\ b.handshake = a.handshake /\ b.session = a.session
  /\ b.staged = a.staged /\ b.ready = a.ready /\ b.persistent = a.persistent
  /\ b.idle = a.idle
  /\ \/ a.current = {} /\ b.current = {}
     \/ \E s, t \in Current :
          /\ a.current = {s} /\ b.current = {t} /\ t.id = s.id /\ t.age = s.age
          /\ t.sent = s.sent + (IF CountMessages THEN k ELSE 0)

\* Encrypting and sending k messages advances the counter of the session by
\* k.
LEMMA EncryptedRecord ==
  ASSUME NEW a \in Driver, One(a.current), NEW k \in Nat,
         NEW taken \in BOOLEAN, NEW payload \in BOOLEAN,
         CountMessages => \A s \in a.current : s.sent + k <= REJECT_AFTER_MESSAGES
  PROVE  Spent(a, Send(Encrypted(a, k), taken, DataOn(a, payload)), k)
<1> DEFINE b == Encrypted(a, k)
<1>1. Spent(a, b, k)
  <2>1. CASE ~CountMessages
    <3>1. b = a
      BY <2>1, Zenon DEF Encrypted
    <3>2. a.current = {} \/ \E s \in Current : a.current = {s} /\ s.sent = s.sent + 0
      BY DEF One, Driver, Current
    <3> QED
      BY <2>1, <3>1, <3>2, Zenon DEF Spent
  <2>2. CASE CountMessages /\ a.current = {}
    <3>1. b = [a EXCEPT !.current = {}]
      BY <2>2, Zenon DEF Encrypted
    <3> QED
      BY <2>2, <3>1 DEF Spent, Driver
  <2>3. ASSUME CountMessages, NEW s \in a.current PROVE Spent(a, b, k)
    <3> DEFINE t == [s EXCEPT !.sent = @ + k]
    <3>1. a.current = {s} /\ s \in Current
      BY Zenon DEF One, Driver
    <3>2. t \in Current /\ t.id = s.id /\ t.age = s.age /\ t.sent = s.sent + k
      BY <2>3, <3>1, ActorAssumption DEF Current
    <3>3. b = [a EXCEPT !.current = {t}]
      BY <2>3, <3>1, Zenon DEF Encrypted
    <3> HIDE DEF t, b
    <3>4. /\ b \in Driver /\ b.current = {t}
          /\ b.endpoint = a.endpoint /\ b.pending = a.pending /\ b.contributory = a.contributory /\ b.next = a.next
          /\ b.previous = a.previous /\ b.handshake = a.handshake /\ b.session = a.session
          /\ b.staged = a.staged /\ b.ready = a.ready /\ b.persistent = a.persistent
          /\ b.idle = a.idle
      BY <3>2, <3>3 DEF Driver
    <3> QED
      BY <2>3, <3>1, <3>2, <3>4, Zenon DEF Spent
  <2> QED
    BY <2>1, <2>2, <2>3, Zenon
<1>2. DataOn(a, payload) \in SUBSET Message
  BY DEF DataOn, Data, Message, Driver, Current
<1> DEFINE c == Send(b, taken, DataOn(a, payload))
<1> HIDE DEF b
<1>3. Same(b, c) /\ c.idle = b.idle /\ c.handshake = b.handshake /\ c.pending = b.pending /\ c.contributory = b.contributory
  BY <1>1, <1>2, SendRecord DEF Spent
<1> HIDE DEF c
<1>4. Spent(a, c, k)
  BY <1>1, <1>3 DEF Spent, Same
<1> QED
  BY <1>4, Zenon DEF c, b

\* So it keeps what holds between calls.
LEMMA SpentCore ==
  ASSUME NEW a, Core(a), NEW b, NEW k \in Nat, Spent(a, b, k)
  PROVE  /\ Core(b) /\ (can_encrypt(b) => can_encrypt(a))
         /\ Waits(a) => Waits(b)
         /\ Pursued(a) => Pursued(b)
<1>1. Options(b)
  BY DEF Spent, Core, Options, One
<1>2. Attempted(b) /\ Known(b)
  BY Zenon DEF Spent, Core, Attempted, Known
<1>3. can_encrypt(b) => can_encrypt(a)
  BY ActorAssumption DEF Spent, can_encrypt, Current
<1>4. Aging(b)
  BY DEF Spent, Core, Aging
<1>5. Timed(b) /\ (Waits(a) => Waits(b)) /\ (Pursued(a) => Pursued(b))
  BY <1>3, Zenon DEF Spent, Core, Timed, Waits, Pursued
<1> QED
  BY <1>1, <1>2, <1>3, <1>4, <1>5, Zenon DEF Core, Spent

\* A deadline for the answer of the remote peer is neither put off between a
\* and b nor cleared before it is due, while there are timers.
RenewKept(a, b) ==
  \A s \in a.session, r \in b.session :
    \A t \in s.renew : t = 0 \/ \E u \in r.renew : u <= t

\* Nor when the timers are kept or dropped.
LEMMA RenewSelf ==
  ASSUME NEW a, Core(a), NEW b, b.session \in {a.session, {}}
  PROVE  RenewKept(a, b)
<1> SUFFICES ASSUME NEW s \in a.session, NEW r \in a.session,
                    NEW t \in s.renew
             PROVE  \E u \in r.renew : u <= t
  BY Zenon DEF RenewKept
<1>1. s = r /\ s \in Timing
  BY Zenon DEF Core, Options, One, Driver
<1>2. t \in Nat
  BY <1>1 DEF Timing, Deadline
<1> QED
  BY <1>1, <1>2

\* The tail of flush_sends that stages packets: without a session that
\* encrypts, the timers go, the packets stay within MAX_STAGED_PACKETS and a
\* handshake is in flight if there is an endpoint.
LEMMA StalledGood ==
  ASSUME NEW a, Core(a), ~can_encrypt(a), NEW n \in Nat, NEW e \in Env
  PROVE  LET b == Stalled(a, n, e)
         IN  /\ Good(b) /\ b.session = {} /\ b.ready = a.ready /\ b.current = a.current
             /\ b.endpoint = a.endpoint /\ b.persistent = a.persistent
             /\ a.handshake # {} => b.handshake = a.handshake
             /\ Pursued(b)
<1> DEFINE m == Min({MAX_STAGED_PACKETS, a.staged + n})
           c == [a EXCEPT !.session = {}, !.staged = m]
           b == ensure_handshake(c, e)
<1>1. a \in Driver /\ a.staged \in 0 .. MAX_STAGED_PACKETS /\ MAX_STAGED_PACKETS \in Nat
  BY ActorAssumption, Zenon DEF Core, Driver
<1>2. m \in 0 .. MAX_STAGED_PACKETS
  BY <1>1, MinOfTwo
<1>3. Stalled(a, n, e) = b
  BY Zenon DEF Stalled
<1> HIDE DEF m
<1>4. /\ c \in Driver /\ c.session = {} /\ c.staged = m
      /\ c.endpoint = a.endpoint /\ c.pending = a.pending /\ c.contributory = a.contributory /\ c.next = a.next
      /\ c.previous = a.previous /\ c.handshake = a.handshake /\ c.current = a.current
      /\ c.ready = a.ready /\ c.persistent = a.persistent
  BY <1>1, <1>2, Zenon DEF Driver
<1> HIDE DEF c
<1>5. ~can_encrypt(c)
  BY <1>4, Zenon DEF can_encrypt
<1>6. Core(c)
  BY <1>4, <1>5 DEF Core, Options, One, Attempted, Known, Aging, Timed
<1>7. /\ Core(b) /\ Same(c, b) /\ (c.handshake # {} => b.handshake = c.handshake)
      /\ (c.endpoint => b.handshake # {}) /\ Waits(b)
  BY <1>5, <1>6, EnsureGood, Zenon DEF Waits
<1> HIDE DEF b
<1>8. Pursued(b)
  BY <1>7, Zenon DEF Pursued, Same
<1> QED
  BY <1>3, <1>4, <1>7, <1>8, Zenon DEF Good, Same

\* b is a with other timers for the same session.
Retimed(a, b) ==
  /\ b \in Driver
  /\ b.endpoint = a.endpoint /\ b.pending = a.pending /\ b.contributory = a.contributory /\ b.next = a.next
  /\ b.previous = a.previous /\ b.handshake = a.handshake /\ b.current = a.current
  /\ b.staged = a.staged /\ b.ready = a.ready /\ b.persistent = a.persistent
  /\ \/ a.session = {} /\ b.session = {}
     \/ \E s, t \in Timing :
          a.session = {s} /\ b.session = {t} /\ t.age = s.age /\ t.initiator = s.initiator

\* Other timers keep what holds between calls.
LEMMA RetimedCore ==
  ASSUME NEW a, Core(a), NEW b, Retimed(a, b)
  PROVE  /\ Core(b) /\ (can_encrypt(b) <=> can_encrypt(a))
         /\ Waits(a) => Waits(b)
         /\ Pursued(a) => Pursued(b)
<1>1. Options(b)
  BY DEF Retimed, Core, Options, One
<1>2. Attempted(b) /\ Known(b)
  BY Zenon DEF Retimed, Core, Attempted, Known
<1>3. can_encrypt(b) <=> can_encrypt(a)
  BY Zenon DEF Retimed, can_encrypt
<1>4. Aging(b)
  BY DEF Retimed, Core, Aging
<1>5. Timed(b) /\ (Waits(a) => Waits(b)) /\ (Pursued(a) => Pursued(b))
  BY <1>3, Zenon DEF Retimed, Core, Timed, Waits, Pursued
<1> QED
  BY <1>1, <1>2, <1>3, <1>4, <1>5, Zenon DEF Core, Retimed

\* The tail of flush_sends when everything was sent: the deadline for an
\* answer is set if there was none and kept if there was.
LEMMA FlushedGood ==
  ASSUME NEW a, Good(a), NEW e \in Env
  PROVE  LET b == Flushed(a, e)
         IN  /\ Good(b) /\ b.ready = a.ready /\ b.current = a.current
             /\ b.endpoint = a.endpoint /\ b.persistent = a.persistent
             /\ a.handshake # {} => b.handshake = a.handshake
             /\ RenewKept(a, b) /\ (Pursued(a) => Pursued(b))
<1> DEFINE S == {data_sent(s, e) : s \in a.session}
           d == [a EXCEPT !.idle = 0, !.session = S]
           c == IF e.data THEN d ELSE a
<1>1. a \in Driver /\ Core(a) /\ e.jitter \in Nat
  BY EnvFields, Zenon DEF Good, Core
<1>2. ASSUME NEW s \in Timing
      PROVE  LET t == data_sent(s, e)
             IN  /\ t \in Timing /\ t.age = s.age /\ t.initiator = s.initiator
                 /\ s.renew # {} => t.renew = s.renew
  <2> DEFINE D == {KEEPALIVE_TIMEOUT + REKEY_TIMEOUT + e.jitter}
  <2>1. D \in Deadline /\ {} \in Deadline
    BY <1>1, ActorAssumption DEF Deadline
  <2>2. data_sent(s, e) = [s EXCEPT !.keepalive = {}, !.renew = IF @ = {} THEN D ELSE @]
    BY Zenon DEF data_sent
  <2> HIDE DEF D
  <2> QED
    BY <2>1, <2>2, Zenon DEF Timing
<1>3. \/ a.session = {} /\ S = {}
      \/ \E s, t \in Timing :
           /\ a.session = {s} /\ S = {t} /\ t.age = s.age /\ t.initiator = s.initiator
           /\ s.renew # {} => t.renew = s.renew
  <2>1. CASE a.session = {}
    BY <2>1, Zenon
  <2>2. ASSUME NEW s \in a.session
        PROVE  /\ a.session = {s} /\ s \in Timing /\ S = {data_sent(s, e)}
    BY <1>1 DEF Core, Options, One, Driver
  <2> QED
    BY <1>2, <2>1, <2>2
<1>4. Retimed(a, d) /\ d.session = S
  <2>1. S \in SUBSET Timing
    BY <1>3, Zenon
  <2> HIDE DEF S
  <2>2. /\ d \in Driver /\ d.session = S
        /\ d.endpoint = a.endpoint /\ d.pending = a.pending /\ d.contributory = a.contributory /\ d.next = a.next
        /\ d.previous = a.previous /\ d.handshake = a.handshake /\ d.current = a.current
        /\ d.staged = a.staged /\ d.ready = a.ready /\ d.persistent = a.persistent
    BY <1>1, <2>1, Zenon DEF Driver
  <2> HIDE DEF d
  <2> QED
    BY <1>3, <2>2, Zenon DEF Retimed
<1>5. \A t \in Timing : \A u, v \in t.renew : u = v /\ u \in Nat
  BY DEF Timing, Deadline
<1>6. RenewKept(a, d)
  <2> HIDE DEF S, d
  <2>1. CASE a.session = {}
    BY <2>1, Zenon DEF RenewKept
  <2>2. ASSUME NEW s \in Timing, NEW t \in Timing, a.session = {s}, d.session = {t},
               s.renew # {} => t.renew = s.renew
        PROVE  RenewKept(a, d)
    BY <1>5, <2>2 DEF RenewKept
  <2> QED
    BY <1>3, <1>4, <2>1, <2>2, Zenon
<1>7. RenewKept(a, a)
  BY <1>1, RenewSelf
<1>8. Good(c) /\ RenewKept(a, c) /\ (Pursued(a) => Pursued(c))
  BY <1>1, <1>4, <1>6, <1>7, RetimedCore, Zenon DEF Good
<1>9. /\ c.ready = a.ready /\ c.current = a.current /\ c.endpoint = a.endpoint
      /\ c.persistent = a.persistent /\ c.handshake = a.handshake
  BY <1>4, Zenon DEF Retimed
<1>10. Flushed(a, e) \in {c, ensure_handshake(c, e)}
  BY Zenon DEF Flushed
<1> HIDE DEF c
<1>11. LET b == ensure_handshake(c, e)
       IN  /\ Good(b) /\ Same(c, b) /\ (Pursued(c) => Pursued(b))
           /\ c.handshake # {} => b.handshake = c.handshake
  BY <1>8, EnsureGood, Zenon DEF Good
<1>12. RenewKept(a, ensure_handshake(c, e))
  BY <1>8, <1>11, Zenon DEF RenewKept, Same
<1> QED
  BY <1>8, <1>9, <1>10, <1>11, <1>12, Zenon DEF Same

\* flush_sends, from any state between calls and for a batch of any size: it
\* encrypts as many as the session allows and stages the rest only when that
\* exhausted the session.
LEMMA FlushSendsGood ==
  ASSUME NEW a, Good(a), NEW n \in Nat, NEW e \in Env
  PROVE  LET b == flush_sends(a, n, e)
         IN  /\ Good(b) /\ b.ready = a.ready /\ (a.current = {} => b.current = {})
             /\ b.endpoint = a.endpoint /\ b.persistent = a.persistent
             /\ a.handshake # {} => b.handshake = a.handshake
             /\ RenewKept(a, b) /\ (Pursued(a) => Pursued(b))
<1> DEFINE room == IF CountMessages THEN {REJECT_AFTER_MESSAGES - s.sent : s \in a.current} ELSE {}
           k == IF can_encrypt(a) THEN Min({n} \cup room) ELSE 0
           taken == e.data /\ k > 0
           c == Send(Encrypted(a, k), taken, DataOn(a, TRUE))
<1>1. a \in Driver /\ Core(a) /\ One(a.current) /\ a.current \subseteq Current
  BY Zenon DEF Good, Core, Options, Driver
<1>2. /\ k \in 0 .. n
      /\ CountMessages => \A s \in a.current : s.sent + k <= REJECT_AFTER_MESSAGES
      /\ can_encrypt(a) /\ k < n =>
           CountMessages /\ \A s \in a.current : s.sent + k = REJECT_AFTER_MESSAGES
  <2>1. CASE ~can_encrypt(a)
    BY <1>1, <2>1, ActorAssumption DEF Current
  <2>2. CASE can_encrypt(a) /\ ~CountMessages
    <3>1. {n} \cup room = {n, n}
      BY <2>2, Zenon
    <3> QED
      BY <2>2, <3>1, MinOfTwo
  <2>3. CASE can_encrypt(a) /\ CountMessages
    <3>1. PICK s \in a.current : s.sent < REJECT_AFTER_MESSAGES
      BY <2>3, Zenon DEF can_encrypt
    <3>2. a.current = {s} /\ s.sent \in Nat
      BY <1>1 DEF One, Current
    <3>3. {n} \cup room = {n, REJECT_AFTER_MESSAGES - s.sent}
      BY <2>3, <3>2, Zenon
    <3>4. k = IF n <= REJECT_AFTER_MESSAGES - s.sent THEN n ELSE REJECT_AFTER_MESSAGES - s.sent
      BY <2>3, <3>2, <3>3, MinOfTwo, ActorAssumption
    <3> HIDE DEF k
    <3> QED
      BY <2>3, <3>1, <3>2, <3>4, ActorAssumption
  <2> QED
    BY <2>1, <2>2, <2>3, Zenon
<1>3. flush_sends(a, n, e) = IF n = 0 THEN a
                            ELSE IF k < n THEN Stalled(c, n - k, e) ELSE Flushed(c, e)
  BY Zenon DEF flush_sends
<1>4. taken \in BOOLEAN /\ n - k \in Nat /\ k \in Nat
  BY <1>2, EnvFields
<1> HIDE DEF k, taken
<1>5. Spent(a, c, k)
  BY <1>1, <1>2, <1>4, EncryptedRecord, Zenon
<1> HIDE DEF c
<1>6. /\ Core(c) /\ Good(c) /\ (can_encrypt(c) => can_encrypt(a))
      /\ c.ready = a.ready /\ (a.current = {} => c.current = {})
      /\ c.endpoint = a.endpoint /\ c.persistent = a.persistent
      /\ c.handshake = a.handshake /\ c.session = a.session
      /\ Pursued(a) => Pursued(c)
  BY <1>1, <1>4, <1>5, SpentCore, SMTT(30) DEF Good, Spent
<1>7. CASE n = 0
  BY <1>1, <1>3, <1>7, RenewSelf
<1>8. CASE n # 0 /\ k < n
  <2>1. ~can_encrypt(c)
    <3>1. CASE ~can_encrypt(a)
      BY <1>6, <3>1, Zenon
    <3>2. CASE can_encrypt(a)
      <4>1. CountMessages /\ \A s \in a.current : s.sent + k = REJECT_AFTER_MESSAGES
        BY <1>2, <1>8, <3>2, Zenon
      <4> QED
        BY <1>5, <4>1, ActorAssumption DEF Spent, can_encrypt
    <3> QED
      BY <3>1, <3>2, Zenon
  <2> DEFINE b == Stalled(c, n - k, e)
  <2>2. /\ Good(b) /\ b.session = {} /\ b.ready = c.ready /\ b.current = c.current
        /\ b.endpoint = c.endpoint /\ b.persistent = c.persistent
        /\ c.handshake # {} => b.handshake = c.handshake
        /\ Pursued(b)
    BY <1>4, <1>6, <2>1, StalledGood
  <2>3. flush_sends(a, n, e) = b
    BY <1>3, <1>8, Zenon
  <2> HIDE DEF b
  <2>4. RenewKept(a, b)
    BY <1>1, <2>2, RenewSelf
  <2> QED
    BY <1>6, <2>2, <2>3, <2>4, Zenon
<1>9. CASE n # 0 /\ ~(k < n)
  <2> DEFINE b == Flushed(c, e)
  <2>1. /\ Good(b) /\ b.ready = c.ready /\ b.current = c.current
        /\ b.endpoint = c.endpoint /\ b.persistent = c.persistent
        /\ c.handshake # {} => b.handshake = c.handshake
        /\ RenewKept(c, b) /\ (Pursued(c) => Pursued(b))
    BY <1>6, FlushedGood, Zenon
  <2>2. flush_sends(a, n, e) = b
    BY <1>3, <1>9, Zenon
  <2> HIDE DEF b
  <2>3. RenewKept(a, b)
    BY <1>6, <2>1, Zenon DEF RenewKept
  <2> QED
    BY <1>6, <2>1, <2>2, <2>3, Zenon
<1> QED
  BY <1>7, <1>8, <1>9, Zenon

\* send_keepalive, in any state between calls: the passive keepalive is off
\* afterwards.
LEMMA SendKeepaliveGood ==
  ASSUME NEW a, Good(a), NEW e \in Env
  PROVE  LET b == send_keepalive(a, e)
         IN  /\ Good(b) /\ b.ready = a.ready /\ (a.current = {} => b.current = {})
             /\ b.endpoint = a.endpoint /\ b.persistent = a.persistent
             /\ b.idle \in {0, a.idle}
             /\ a.handshake # {} => b.handshake = a.handshake
             /\ RenewKept(a, b) /\ (Pursued(a) => Pursued(b))
             /\ \A s \in b.session : s.keepalive = {}
<1> DEFINE d == Send(Encrypted(a, 1), e.msg, DataOn(a, FALSE))
           S == {keepalive_sent(s) : s \in a.session}
           idle == IF e.msg THEN 0 ELSE d.idle
           c == [d EXCEPT !.session = S, !.idle = IF e.msg THEN 0 ELSE @]
           b == send_keepalive(a, e)
<1>1. /\ a \in Driver /\ Core(a) /\ One(a.current) /\ One(a.session)
      /\ a.session \subseteq Timing /\ e.msg \in BOOLEAN
  BY EnvFields, Zenon DEF Good, Core, Options, Driver
<1>2. CASE ~can_encrypt(a)
  <2>1. b = [a EXCEPT !.session = {}]
    BY <1>2, Zenon DEF send_keepalive
  <2>2. /\ b \in Driver /\ b.session = {} /\ b.idle = a.idle
        /\ b.endpoint = a.endpoint /\ b.pending = a.pending /\ b.contributory = a.contributory /\ b.next = a.next
        /\ b.previous = a.previous /\ b.handshake = a.handshake /\ b.current = a.current
        /\ b.staged = a.staged /\ b.ready = a.ready /\ b.persistent = a.persistent
    BY <1>1, <2>1 DEF Driver
  <2> HIDE DEF b
  <2>3. Core(b)
    BY <1>1, <1>2, <2>2 DEF Core, Options, One, Attempted, Known, Aging, Timed, can_encrypt
  <2>4. Waits(b) /\ (Pursued(a) => Pursued(b))
    BY <1>2, <2>2, Zenon DEF Good, Waits, Pursued, can_encrypt
  <2> QED
    BY <1>1, <2>2, <2>3, <2>4, RenewSelf DEF Good, b
<1>3. CASE can_encrypt(a)
  <2>1. \A s \in a.current : s.sent + 1 <= REJECT_AFTER_MESSAGES
    BY <1>1, <1>3, ActorAssumption DEF can_encrypt, One, Driver, Current
  <2>2. Spent(a, d, 1)
    BY <1>1, <2>1, EncryptedRecord, Zenon
  <2>3. b \in {c, ensure_handshake(c, e)}
    BY <1>3, Zenon DEF send_keepalive
  <2> HIDE DEF d, b
  <2>4. Good(d) /\ (Pursued(a) => Pursued(d))
    BY <1>1, <2>2, SpentCore, Zenon DEF Good
  <2>5. /\ \/ a.session = {} /\ S = {}
           \/ \E s, t \in Timing :
                /\ a.session = {s} /\ S = {t} /\ t.age = s.age /\ t.initiator = s.initiator
                /\ t.renew = s.renew
        /\ \A t \in S : t.keepalive = {}
    <3>1. ASSUME NEW s \in Timing
          PROVE  LET t == keepalive_sent(s)
                 IN  /\ t \in Timing /\ t.age = s.age /\ t.initiator = s.initiator
                     /\ t.renew = s.renew /\ t.keepalive = {}
      BY Zenon DEF keepalive_sent, Timing, Deadline
    <3>2. CASE a.session = {}
      BY <3>2, Zenon
    <3>3. ASSUME NEW s \in a.session
          PROVE  /\ a.session = {s} /\ s \in Timing /\ S = {keepalive_sent(s)}
      BY <1>1, Zenon DEF One
    <3> QED
      BY <3>1, <3>2, <3>3
  <2>6. S \in SUBSET Timing
    BY <2>5, Zenon
  <2> HIDE DEF S
  <2>7. /\ c \in Driver /\ c.session = S /\ c.idle \in {0, d.idle}
        /\ c.endpoint = d.endpoint /\ c.pending = d.pending /\ c.contributory = d.contributory /\ c.next = d.next
        /\ c.previous = d.previous /\ c.handshake = d.handshake /\ c.current = d.current
        /\ c.staged = d.staged /\ c.ready = d.ready /\ c.persistent = d.persistent
    BY <1>1, <2>2, <2>6, Zenon DEF Spent, Driver
  <2> HIDE DEF c
  <2>8. Retimed(d, c)
    BY <2>2, <2>5, <2>7 DEF Retimed, Spent
  <2>9. Good(c) /\ (Pursued(d) => Pursued(c))
    BY <2>4, <2>8, RetimedCore, Zenon DEF Good
  <2>10. RenewKept(a, c)
    <3>1. RenewKept(a, a)
      BY <1>1, RenewSelf
    <3> QED
      BY <2>5, <2>7, <3>1 DEF RenewKept
  <2>11. /\ Good(b) /\ Same(c, b) /\ b.idle \in {0, c.idle} /\ (Pursued(c) => Pursued(b))
         /\ c.handshake # {} => b.handshake = c.handshake
    <3>1. CASE b = c
      BY <2>7, <2>9, <3>1, Zenon DEF Same
    <3>2. CASE b = ensure_handshake(c, e)
      BY <2>9, <3>2, EnsureGood, Zenon DEF Good
    <3> QED
      BY <2>3, <3>1, <3>2, Zenon
  <2>12. RenewKept(a, b)
    BY <2>10, <2>11, Zenon DEF RenewKept, Same
  <2> QED
    BY <2>2, <2>4, <2>5, <2>7, <2>9, <2>11, <2>12 DEF Same, Spent, b
<1> QED
  BY <1>2, <1>3, Zenon

\* session_established with packets still staged: they are flushed before
\* anyone can send on the session, so Good holds again.
LEMMA EstablishedGood ==
  ASSUME NEW a, Core(a), NEW initiator \in BOOLEAN, NEW e \in Env
  PROVE  LET b == session_established(a, initiator, e)
         IN  /\ Good(b) /\ b.ready /\ Pursued(b)
             /\ a.handshake # {} => b.handshake = a.handshake
<1> DEFINE c == [a EXCEPT !.staged = 0]
           d == flush_sends(c, a.staged, e)
           f == IF initiator /\ a.staged = 0 THEN send_keepalive(d, e) ELSE d
           b == [f EXCEPT !.ready = TRUE]
<1>1. a \in Driver /\ a.staged \in Nat
  BY ActorAssumption DEF Core, Driver
<1>2. session_established(a, initiator, e) = b
  BY Zenon DEF session_established, flush_staged
<1>3. /\ c \in Driver /\ c.staged = 0 /\ c.session = a.session
      /\ c.endpoint = a.endpoint /\ c.pending = a.pending /\ c.contributory = a.contributory /\ c.next = a.next
      /\ c.previous = a.previous /\ c.handshake = a.handshake /\ c.current = a.current
  BY <1>1, ActorAssumption DEF Driver
<1> HIDE DEF c
<1>4. Good(c) /\ Pursued(c)
  BY <1>3 DEF Good, Core, Options, One, Attempted, Known, Aging, Timed, can_encrypt,
              Waits, Pursued
<1>5. Good(d) /\ Pursued(d) /\ (c.handshake # {} => d.handshake = c.handshake)
  BY <1>1, <1>4, FlushSendsGood
<1> HIDE DEF d
<1>6. Good(f) /\ Pursued(f) /\ (c.handshake # {} => f.handshake = c.handshake)
  BY <1>5, SendKeepaliveGood, Zenon
<1> HIDE DEF f
<1>7. f \in Driver
  BY <1>6, Zenon DEF Good, Core
<1>8. /\ b \in Driver /\ b.ready /\ b.staged = f.staged /\ b.session = f.session
      /\ b.endpoint = f.endpoint /\ b.pending = f.pending /\ b.contributory = f.contributory /\ b.next = f.next
      /\ b.previous = f.previous /\ b.handshake = f.handshake /\ b.current = f.current
  BY <1>7, Zenon DEF Driver
<1> HIDE DEF b
<1>9. Good(b) /\ Pursued(b)
  BY <1>6, <1>8 DEF Good, Core, Options, One, Attempted, Known, Aging, Timed, can_encrypt,
                    Waits, Pursued
<1> QED
  BY <1>2, <1>3, <1>6, <1>8, <1>9, Zenon

-----------------------------------------------------------------------------
(* The handlers.                                                           *)

\* An attempt in flight in a is in b no younger, and repeated only when due.
Paced(a, b) ==
  \A h \in a.handshake, g \in b.handshake :
    g.elapsed >= h.elapsed /\ (g.retry > h.retry => h.retry = 0)

\* An attempt that a handler leaves alone is paced.
LEMMA PacedKept ==
  ASSUME NEW a, Core(a), NEW b, a.handshake # {} => b.handshake = a.handshake
  PROVE  Paced(a, b)
<1> SUFFICES ASSUME NEW h \in a.handshake, NEW g \in a.handshake
             PROVE  g.elapsed >= h.elapsed /\ (g.retry > h.retry => h.retry = 0)
  BY Zenon DEF Paced
<1>1. g = h /\ h \in Attempt
  BY Zenon DEF Core, Options, One, Driver
<1> QED
  BY <1>1, ActorAssumption DEF Attempt

\* The handler of Connect.
LEMMA ConnectGood ==
  ASSUME NEW a, Good(a), NEW e \in Env
  PROVE  LET b == Connect(a, e)
         IN  /\ Good(b) /\ (Ready(a) => Ready(b))
             /\ a.handshake # {} => b.handshake = a.handshake
             /\ b.session = a.session /\ Pursued(b)
<1> DEFINE c == [a EXCEPT !.endpoint = TRUE]
           b == ensure_handshake(c, e)
<1>1. a \in Driver /\ Core(a)
  BY Zenon DEF Good, Core
<1>2. Connect(a, e) = b
  BY Zenon DEF Connect
<1>3. /\ c \in Driver /\ c.endpoint /\ c.staged = a.staged /\ c.session = a.session
      /\ c.pending = a.pending /\ c.contributory = a.contributory /\ c.next = a.next /\ c.ready = a.ready
      /\ c.previous = a.previous /\ c.handshake = a.handshake /\ c.current = a.current
  BY <1>1, Zenon DEF Driver
<1> HIDE DEF c
<1>4. can_encrypt(c) <=> can_encrypt(a)
  BY <1>1, <1>3, Zenon DEF Core, Known, can_encrypt
<1>5. Core(c)
  BY <1>1, <1>3, <1>4 DEF Core, Options, One, Attempted, Known, Aging, Timed
<1>6. Waits(c)
  BY <1>3, <1>4, Zenon DEF Good, Waits
<1>7. /\ Core(b) /\ Same(c, b) /\ (c.handshake # {} => b.handshake = c.handshake)
      /\ b.handshake # {} /\ Waits(b)
  BY <1>3, <1>5, <1>6, EnsureGood
<1> HIDE DEF b
<1>8. Pursued(b) /\ (Ready(a) => Ready(b))
  BY <1>3, <1>7, Zenon DEF Pursued, Ready, Same
<1> QED
  BY <1>2, <1>3, <1>7, <1>8, Zenon DEF Good, Same

\* The handler of Update.
LEMMA UpdateGood ==
  ASSUME NEW a, Good(a), NEW persistent \in Persistent,
         NEW endpoint \in BOOLEAN, NEW e \in Env
  PROVE  LET b == apply_update(a, persistent, endpoint, e)
         IN  /\ Good(b) /\ (Ready(a) => Ready(b))
             /\ a.handshake # {} => b.handshake = a.handshake
             /\ b.session = a.session /\ (Pursued(a) => Pursued(b))
<1> DEFINE c == [a EXCEPT !.persistent = persistent]
<1>1. a \in Driver /\ persistent \in SUBSET Intervals
  BY Zenon DEF Good, Core, Persistent
<1>2. apply_update(a, persistent, endpoint, e) = IF endpoint THEN Connect(c, e) ELSE c
  BY Zenon DEF apply_update
<1>3. /\ c \in Driver /\ c.endpoint = a.endpoint /\ c.staged = a.staged
      /\ c.session = a.session /\ c.pending = a.pending /\ c.contributory = a.contributory /\ c.next = a.next
      /\ c.previous = a.previous /\ c.handshake = a.handshake /\ c.current = a.current
      /\ c.ready = a.ready
  BY <1>1, Zenon DEF Driver
<1> HIDE DEF c
<1>4. Good(c) /\ (Ready(a) => Ready(c)) /\ (Pursued(a) => Pursued(c))
  BY <1>3 DEF Good, Core, Options, One, Attempted, Known, Aging, Timed, can_encrypt,
              Waits, Pursued, Ready
<1> QED
  BY <1>2, <1>3, <1>4, ConnectGood

\* b is a with the session s current, as adopt_current leaves it.
Adopted(a, b, s) ==
  /\ b \in Driver /\ b.endpoint /\ b.current = {[id |-> s.id, age |-> s.age, sent |-> 0]}
  /\ One(b.previous)
  /\ b.pending = a.pending /\ b.contributory = a.contributory /\ b.next = a.next /\ b.handshake = a.handshake
  /\ b.session = a.session /\ b.staged = a.staged

\* adopt_current moves the current session to previous.
LEMMA AdoptRecord ==
  ASSUME NEW a, Core(a), NEW s \in Kept
  PROVE  Adopted(a, adopt_current(a, s), s)
<1> DEFINE P == {[id |-> c.id, age |-> c.age] : c \in a.current}
           x == [id |-> s.id, age |-> s.age, sent |-> 0]
           b == [a EXCEPT !.previous = P, !.current = {x}, !.endpoint = TRUE]
<1>1. a \in Driver /\ One(a.current) /\ a.current \subseteq Current
  BY Zenon DEF Core, Options, Driver
<1>2. P \in SUBSET Kept /\ One(P)
  BY <1>1 DEF Kept, Current, One
<1>3. x \in Current
  BY ActorAssumption DEF Current, Kept
<1>4. adopt_current(a, s) = b
  BY Zenon DEF adopt_current
<1> HIDE DEF P, x
<1>5. /\ b \in Driver /\ b.endpoint /\ b.current = {x} /\ b.previous = P
      /\ b.pending = a.pending /\ b.contributory = a.contributory /\ b.next = a.next /\ b.handshake = a.handshake
      /\ b.session = a.session /\ b.staged = a.staged
  BY <1>1, <1>2, <1>3, Zenon DEF Driver
<1> HIDE DEF b
<1> QED
  BY <1>2, <1>4, <1>5, Zenon DEF Adopted, x

\* A new session starts its timers at age 0.
LEMMA NewTiming ==
  ASSUME NEW initiator \in BOOLEAN
  PROVE  \E t \in Timing : NewTimers(initiator) = {t} /\ t.age = 0
<1> DEFINE t == [initiator |-> initiator, age |-> 0, keepalive |-> {}, renew |-> {}]
<1>1. t \in Timing /\ t.age = 0
  BY ActorAssumption DEF Timing, Deadline
<1>2. NewTimers(initiator) = {t}
  BY Zenon DEF NewTimers
<1> QED
  BY <1>1, <1>2, Zenon

\* A received packet changes the deadlines, not the age of the timers.
LEMMA PacketTiming ==
  ASSUME NEW s \in Timing, NEW payload \in BOOLEAN
  PROVE  LET t == packet_received(s, payload)
         IN  t \in Timing /\ t.age = s.age /\ t.initiator = s.initiator
<1> DEFINE D == {KEEPALIVE_TIMEOUT}
<1>1. D \in Deadline /\ {} \in Deadline
  BY ActorAssumption, Zenon DEF Deadline
<1>2. packet_received(s, payload) =
        [s EXCEPT !.renew = {}, !.keepalive = IF payload /\ @ = {} THEN D ELSE @]
  BY Zenon DEF packet_received
<1> HIDE DEF D
<1> QED
  BY <1>1, <1>2, Zenon DEF Timing

\* The handler of a data message for a session the peer has: the endpoint is
\* known then, a confirmed session gets timers and the staged packets, a
\* rekey is asked for at most once.
LEMMA RecvDataGood ==
  ASSUME NEW a, Good(a), Ready(a), NEW e \in Env, NEW slot \in Slots,
         NEW payload \in BOOLEAN, Slot(a, slot) # {}
  PROVE  LET b == RecvData(a, slot, payload, e)
         IN  /\ Good(b) /\ Ready(b) /\ (Pursued(a) => Pursued(b))
             /\ a.handshake # {} => b.handshake = a.handshake
<1>1. a \in Driver /\ Core(a)
  BY Zenon DEF Good, Core
<1>2. CASE slot = "next"
  <2> DEFINE x == CHOOSE x \in a.next : TRUE
             f == adopt_current(a, x)
             T == NewTimers(FALSE)
             g == [f EXCEPT !.next = {}, !.session = T]
             S == {packet_received(s, payload) : s \in g.session}
             c == [g EXCEPT !.session = S]
             d == session_established(c, FALSE, e)
             b == RecvData(a, slot, payload, e)
  <2>1. x \in a.next /\ x \in Kept
    BY <1>1, <1>2, Zenon DEF Slot, Driver
  <2>2. b \in {d, ensure_handshake(d, e)}
    BY <1>2, Zenon DEF RecvData, Confirmed
  <2> HIDE DEF x, b
  <2>3. Adopted(a, f, x)
    BY <1>1, <2>1, AdoptRecord, Zenon
  <2>4. PICK t \in Timing : T = {t} /\ t.age = 0
    BY NewTiming, Zenon
  <2> HIDE DEF f, T
  <2>5. g.session = T
    BY <2>3, Zenon DEF Adopted, Driver
  <2>6. S = {packet_received(t, payload)}
    BY <2>4, <2>5, Zenon
  <2>7. PICK u \in Timing : S = {u} /\ u.age = 0
    BY <2>4, <2>6, PacketTiming, Zenon
  <2>8. c = [f EXCEPT !.next = {}, !.session = S]
    BY <2>3, Zenon DEF Adopted, Driver
  <2> HIDE DEF S, c, g
  <2>9. /\ c \in Driver /\ c.session = {u} /\ c.next = {} /\ c.endpoint = f.endpoint
        /\ c.pending = f.pending /\ c.contributory = f.contributory /\ c.previous = f.previous /\ c.handshake = f.handshake
        /\ c.current = f.current
    BY <2>3, <2>7, <2>8, Zenon DEF Adopted, Driver
  <2>10. Options(c) /\ Attempted(c) /\ Known(c) /\ Timed(c)
    BY <1>1, <2>3, <2>9, SMTT(30) DEF Core, Options, One, Attempted, Known, Timed, Adopted
  <2>11. Aging(c)
    BY <2>1, <2>3, <2>7, <2>9 DEF Aging, Adopted, Kept
  <2>12. Core(c)
    BY <2>9, <2>10, <2>11, Zenon DEF Core
  <2>13. Good(d) /\ d.ready /\ Pursued(d) /\ (c.handshake # {} => d.handshake = c.handshake)
    BY <2>12, EstablishedGood, Zenon
  <2> HIDE DEF d
  <2>14. Good(b) /\ b.ready /\ Pursued(b) /\ (d.handshake # {} => b.handshake = d.handshake)
    BY <2>2, <2>13, EnsureGood DEF Good, Same
  <2> QED
    BY <2>3, <2>9, <2>13, <2>14 DEF Ready, Adopted, b
<1>3. CASE slot # "next"
  <2> DEFINE g == [a EXCEPT !.endpoint = TRUE]
             S == {packet_received(s, payload) : s \in g.session}
             c == [g EXCEPT !.session = S]
             b == RecvData(a, slot, payload, e)
  <2>1. a.endpoint
    BY <1>1, <1>3, Zenon DEF Core, Known, Slots, Slot
  <2>2. b \in {c, ensure_handshake(c, e)}
    BY <1>3, Zenon DEF RecvData
  <2>3. g = a
    BY <1>1, <2>1, Zenon DEF Driver
  <2> HIDE DEF b, g
  <2>4. \/ a.session = {} /\ S = {}
        \/ \E s, t \in Timing :
             a.session = {s} /\ S = {t} /\ t.age = s.age /\ t.initiator = s.initiator
    <3>1. CASE a.session = {}
      BY <2>3, <3>1, Zenon
    <3>2. ASSUME NEW s \in a.session
          PROVE  a.session = {s} /\ s \in Timing /\ S = {packet_received(s, payload)}
      BY <1>1, <2>3 DEF Core, Options, One, Driver
    <3>3. ASSUME NEW s \in Timing
          PROVE  LET t == packet_received(s, payload)
                 IN  t \in Timing /\ t.age = s.age /\ t.initiator = s.initiator
      BY PacketTiming, Zenon
    <3> QED
      BY <3>1, <3>2, <3>3, SMTT(30)
  <2>5. S \in SUBSET Timing
    BY <2>4, Zenon
  <2> HIDE DEF S
  <2>6. /\ c \in Driver /\ c.session = S
        /\ c.endpoint = a.endpoint /\ c.pending = a.pending /\ c.contributory = a.contributory /\ c.next = a.next
        /\ c.previous = a.previous /\ c.handshake = a.handshake /\ c.current = a.current
        /\ c.staged = a.staged /\ c.ready = a.ready /\ c.persistent = a.persistent
    BY <1>1, <2>3, <2>5, Zenon DEF Driver
  <2> HIDE DEF c
  <2>7. Retimed(a, c)
    BY <2>4, <2>6, Zenon DEF Retimed
  <2>8. Good(c) /\ (Pursued(a) => Pursued(c))
    BY <1>1, <2>7, RetimedCore, Zenon DEF Good
  <2>9. /\ Good(b) /\ b.ready = c.ready /\ b.current = c.current
        /\ c.handshake # {} => b.handshake = c.handshake
        /\ Pursued(c) => Pursued(b)
    BY <2>2, <2>8, EnsureGood DEF Good, Same
  <2> QED
    BY <2>6, <2>8, <2>9, Zenon DEF Ready, b
<1> QED
  BY <1>2, <1>3, Zenon

\* The handler of an initiation: the session it makes waits in next.
LEMMA RecvHandshakeInitGood ==
  ASSUME NEW a, Good(a), NEW from \in Ids, NEW e \in Env
  PROVE  LET b == RecvHandshakeInit(a, from, e)
         IN  /\ Good(b) /\ (Ready(a) => Ready(b))
             /\ b.handshake = a.handshake /\ b.session = a.session /\ Pursued(b)
<1> DEFINE x == [id |-> e.id, age |-> 0]
           c == [a EXCEPT !.next = {x}, !.endpoint = TRUE, !.idle = IF e.msg THEN 0 ELSE @]
           b == Send(c, e.msg, {Response(from, e.id)})
<1>1. a \in Driver /\ Core(a) /\ e.msg \in BOOLEAN /\ e.id \in Ids
  BY EnvFields, Zenon DEF Good, Core
<1>2. /\ x \in Kept /\ x.age < REJECT_AFTER_TIME
      /\ {Response(from, e.id)} \in SUBSET Message
  BY <1>1, ActorAssumption DEF Kept, Response, Message
<1>3. RecvHandshakeInit(a, from, e) = b
  BY Zenon DEF RecvHandshakeInit
<1> HIDE DEF x
<1>4. /\ c \in Driver /\ c.next = {x} /\ c.endpoint /\ c.session = a.session
      /\ c.pending = a.pending /\ c.contributory = a.contributory /\ c.previous = a.previous /\ c.handshake = a.handshake
      /\ c.current = a.current /\ c.staged = a.staged /\ c.ready = a.ready
  BY <1>1, <1>2, Zenon DEF Driver
<1> HIDE DEF c
<1>5. Same(c, b) /\ b.handshake = c.handshake /\ b.pending = c.pending /\ b.contributory = c.contributory
  BY <1>1, <1>2, <1>4, SendRecord
<1> HIDE DEF b
<1>6. can_encrypt(b) <=> can_encrypt(a)
  BY <1>1, <1>4, <1>5, Zenon DEF Core, Known, can_encrypt, Same
<1>7. Core(b)
  BY <1>1, <1>4, <1>5, <1>6 DEF Core, Options, One, Attempted, Known, Aging, Timed, Same
<1>8. Waits(b) /\ Pursued(b) /\ (Ready(a) => Ready(b))
  BY <1>2, <1>4, <1>5, <1>6, Zenon DEF Good, Waits, Pursued, Ready, Same
<1> QED
  BY <1>3, <1>4, <1>5, <1>7, <1>8, Zenon DEF Good, Same

\* The handler of a response: the attempt ends and its session is current,
\* with timers.
LEMMA RecvHandshakeRespGood ==
  ASSUME NEW a, Core(a), NEW id \in Ids, NEW e \in Env
  PROVE  LET b == RecvHandshakeResp(a, id, e)
         IN  Good(b) /\ Ready(b) /\ Pursued(b)
<1> DEFINE x == [id |-> id, age |-> 0]
           f == adopt_current(a, x)
           T == NewTimers(TRUE)
           c == [f EXCEPT !.pending = {}, !.handshake = {}, !.session = T]
<1>1. RecvHandshakeResp(a, id, e) = session_established(c, TRUE, e)
  BY Zenon DEF RecvHandshakeResp
<1>2. x \in Kept /\ x.age = 0
  BY ActorAssumption DEF Kept
<1> HIDE DEF x
<1>3. Adopted(a, f, x)
  BY <1>2, AdoptRecord, Zenon
<1>4. PICK t \in Timing : T = {t} /\ t.age = 0
  BY NewTiming, Zenon
<1> HIDE DEF f, T
<1>5. /\ c \in Driver /\ c.session = {t} /\ c.next = f.next /\ c.endpoint = f.endpoint
      /\ c.pending = {} /\ c.previous = f.previous /\ c.handshake = {}
      /\ c.current = f.current
  BY <1>3, <1>4, Zenon DEF Adopted, Driver
<1> HIDE DEF c
<1>6. Options(c) /\ Attempted(c) /\ Known(c) /\ Timed(c)
  BY <1>3, <1>5 DEF Core, Options, One, Attempted, Known, Timed, Adopted
<1>7. Aging(c)
  BY <1>2, <1>3, <1>4, <1>5 DEF Aging, Adopted, Kept
<1>8. Core(c)
  BY <1>5, <1>6, <1>7, Zenon DEF Core
<1> QED
  BY <1>1, <1>8, EstablishedGood, Zenon DEF Ready

-----------------------------------------------------------------------------
(* The timers.                                                             *)

\* What firing the timer t does to a, leaving it as b.
Served(a, b, t) ==
  /\ Good(b) /\ Ready(b) /\ Paced(a, b) /\ RenewKept(a, b)
  /\ Pursued(a) => Pursued(b)
  /\ due(b, t) => t = "persistent" /\ 0 \in a.persistent

\* The retransmission timer: the attempt is repeated, its age kept, or given
\* up with everything staged for it.
LEMMA HandshakeDueServed ==
  ASSUME NEW a, Good(a), Ready(a), NEW e \in Env, \E h \in a.handshake : h.retry = 0
  PROVE  Served(a, handshake_due(a, e), "handshake")
<1> DEFINE h == CHOOSE h \in a.handshake : TRUE
           b == handshake_due(a, e)
<1>1. a \in Driver /\ Core(a) /\ a.endpoint /\ e.jitter \in Nat
  BY EnvFields, Zenon DEF Good, Core, Attempted
<1>2. h \in Attempt /\ a.handshake = {h} /\ h.retry = 0
  BY <1>1 DEF Core, Options, One, Driver
<1>3. CASE h.elapsed >= REKEY_ATTEMPT_TIME
  <2>1. b = [a EXCEPT !.handshake = {}, !.staged = 0, !.pending = {}]
    BY <1>3, Zenon DEF handshake_due
  <2> HIDE DEF b, h
  <2>5. 0 \in 0 .. MAX_STAGED_PACKETS
    BY ActorAssumption
  <2>2. /\ b \in Driver /\ b.handshake = {} /\ b.pending = {} /\ b.staged = 0
        /\ b.endpoint = a.endpoint /\ b.session = a.session /\ b.next = a.next
        /\ b.previous = a.previous /\ b.current = a.current /\ b.ready = a.ready
    BY <1>1, <2>5, <2>1, Zenon DEF Driver
  <2>3. Good(b) /\ Ready(b) /\ Pursued(b)
    BY <1>1, <2>2 DEF Good, Core, Options, One, Attempted, Known, Aging, Timed, can_encrypt,
                      Waits, Pursued, Ready
  <2>4. RenewKept(a, b)
    BY <1>1, <2>2, RenewSelf
  <2> QED
    BY <2>2, <2>3, <2>4, Zenon DEF Served, Paced, due, b
<1>4. CASE ~(h.elapsed >= REKEY_ATTEMPT_TIME)
  <2>1. b = send_handshake(a, h.elapsed, e)
    BY <1>4, Zenon DEF handshake_due
  <2>2. h.elapsed \in 0 .. REKEY_ATTEMPT_TIME
    BY <1>2, Zenon DEF Attempt
  <2> HIDE DEF h, b
  <2>3. /\ Same(a, b) /\ b.handshake = Sent(h.elapsed, e)
        /\ b.pending = IF a.contributory THEN {e.id} ELSE a.pending
    BY <1>1, <2>1, <2>2, SendHandshakeRecord, Zenon
  <2>4. PICK g : /\ b.handshake = {g} /\ g.elapsed = h.elapsed
                 /\ g.retry = REKEY_TIMEOUT + e.jitter
    <3> DEFINE g == [elapsed |-> h.elapsed, retry |-> REKEY_TIMEOUT + e.jitter]
    <3>1. b.handshake = {g}
      BY <2>3, Zenon DEF Sent
    <3>2. g.elapsed = h.elapsed /\ g.retry = REKEY_TIMEOUT + e.jitter
      OBVIOUS
    <3> HIDE DEF g
    <3> QED
      BY <3>1, <3>2, Zenon
  <2>5. Core(b)
    BY <1>1, <2>3, <2>4 DEF Core, Options, One, Attempted, Known, Aging, Timed, can_encrypt, Same
  <2>6. Waits(b) /\ Pursued(b) /\ Ready(b)
    BY <2>3, <2>4, Zenon DEF Good, Waits, Pursued, Ready, can_encrypt, Same
  <2>7. RenewKept(a, b)
    BY <1>1, <2>3, RenewSelf DEF Same
  <2>8. Paced(a, b)
    BY <1>2, <2>2, <2>4, ActorAssumption DEF Paced
  <2>9. ~due(b, "handshake")
    BY <1>1, <2>4, ActorAssumption DEF due
  <2> QED
    BY <2>5, <2>6, <2>7, <2>8, <2>9, Zenon DEF Served, Good, b
<1> QED
  BY <1>3, <1>4, Zenon

\* The expiry of the session: by Aging the machine's session has expired too,
\* so no send goes untimed.
LEMMA ExpiredServed ==
  ASSUME NEW a, Good(a), Ready(a), \E s \in a.session : ~usable(s)
  PROVE  Served(a, session_expired(a), "expires")
<1> DEFINE b == session_expired(a)
<1>1. a \in Driver /\ Core(a)
  BY Zenon DEF Good, Core
<1>2. ~can_encrypt(a)
  <2>1. PICK s \in a.session : ~(s.age < REJECT_AFTER_TIME)
    BY Zenon DEF usable
  <2>2. s \in Timing /\ \A c \in a.current : c \in Current /\ s.age <= c.age
    BY <1>1, Zenon DEF Core, Aging, Driver
  <2> QED
    BY <2>1, <2>2, ActorAssumption DEF can_encrypt, Timing, Current
<1>3. /\ b \in Driver /\ b.session = {} /\ b.ready = a.ready
      /\ b.endpoint = a.endpoint /\ b.pending = a.pending /\ b.contributory = a.contributory /\ b.next = a.next
      /\ b.previous = a.previous /\ b.handshake = a.handshake /\ b.current = a.current
      /\ b.staged = a.staged
  BY <1>1, Zenon DEF Driver, session_expired
<1> HIDE DEF b
<1>4. Core(b)
  BY <1>1, <1>2, <1>3 DEF Core, Options, One, Attempted, Known, Aging, Timed, can_encrypt
<1>5. Waits(b) /\ (Pursued(a) => Pursued(b)) /\ Ready(b)
  BY <1>3, Zenon DEF Good, Waits, Pursued, Ready, can_encrypt
<1>6. Paced(a, b) /\ RenewKept(a, b)
  BY <1>1, <1>3, PacedKept, RenewSelf
<1> QED
  BY <1>3, <1>4, <1>5, <1>6, Zenon DEF Served, Good, due, b

\* The passive keepalive.
LEMMA KeepaliveServed ==
  ASSUME NEW a, Good(a), Ready(a), NEW e \in Env
  PROVE  Served(a, send_keepalive(a, e), "keepalive")
<1> DEFINE b == send_keepalive(a, e)
<1>1. /\ Good(b) /\ b.ready = a.ready /\ (a.current = {} => b.current = {})
      /\ a.handshake # {} => b.handshake = a.handshake
      /\ RenewKept(a, b) /\ (Pursued(a) => Pursued(b))
      /\ \A s \in b.session : s.keepalive = {}
  BY SendKeepaliveGood, Zenon
<1> HIDE DEF b
<1>2. Paced(a, b)
  BY <1>1, PacedKept, Zenon DEF Good
<1> QED
  BY <1>1, <1>2, Zenon DEF Served, Ready, due, b

\* The deadline for an answer.
LEMMA NewHandshakeServed ==
  ASSUME NEW a, Good(a), Ready(a), NEW e \in Env, \E s \in a.session : 0 \in s.renew
  PROVE  Served(a, new_handshake_due(a, e), "new_handshake")
<1> DEFINE S == {[s EXCEPT !.renew = {}] : s \in a.session}
           c == [a EXCEPT !.session = S]
           b == ensure_handshake(c, e)
<1>1. a \in Driver /\ Core(a)
  BY Zenon DEF Good, Core
<1>2. new_handshake_due(a, e) = b
  BY <1>1, Zenon DEF new_handshake_due, Driver
<1>3. /\ \/ a.session = {} /\ S = {}
         \/ \E s, t \in Timing :
              a.session = {s} /\ S = {t} /\ t.age = s.age /\ t.initiator = s.initiator
      /\ \A t \in S : t.renew = {}
  <2>1. ASSUME NEW s \in Timing
        PROVE  LET t == [s EXCEPT !.renew = {}]
               IN  /\ t \in Timing /\ t.age = s.age /\ t.initiator = s.initiator
                   /\ t.renew = {}
    BY Zenon DEF Timing, Deadline
  <2>2. CASE a.session = {}
    BY <2>2, Zenon
  <2>3. ASSUME NEW s \in a.session
        PROVE  a.session = {s} /\ s \in Timing /\ S = {[s EXCEPT !.renew = {}]}
    BY <1>1 DEF Core, Options, One, Driver
  <2>4. ASSUME NEW s \in a.session
        PROVE  \E t \in Timing : /\ a.session = {s} /\ s \in Timing /\ S = {t}
                                 /\ t.age = s.age /\ t.initiator = s.initiator
                                 /\ t.renew = {}
    <3> DEFINE t == [s EXCEPT !.renew = {}]
    <3>1. a.session = {s} /\ s \in Timing /\ S = {t}
      BY <2>3, Zenon
    <3>2. t \in Timing /\ t.age = s.age /\ t.initiator = s.initiator /\ t.renew = {}
      BY <2>1, <3>1, Zenon
    <3> HIDE DEF t, S
    <3> QED
      BY <3>1, <3>2, Zenon
  <2> QED
    BY <2>2, <2>4, Zenon
<1>4. S \in SUBSET Timing
  BY <1>3, Zenon
<1> HIDE DEF S
<1>5. /\ c \in Driver /\ c.session = S
      /\ c.endpoint = a.endpoint /\ c.pending = a.pending /\ c.contributory = a.contributory /\ c.next = a.next
      /\ c.previous = a.previous /\ c.handshake = a.handshake /\ c.current = a.current
      /\ c.staged = a.staged /\ c.ready = a.ready /\ c.persistent = a.persistent
  BY <1>1, <1>4, Zenon DEF Driver
<1> HIDE DEF c
<1>6. Retimed(a, c)
  BY <1>3, <1>5, Zenon DEF Retimed
<1>7. Good(c) /\ (Pursued(a) => Pursued(c))
  BY <1>1, <1>6, RetimedCore, Zenon DEF Good
<1>8. Good(b) /\ Same(c, b) /\ (Pursued(c) => Pursued(b)) /\ (c.handshake # {} => b.handshake = c.handshake)
  BY <1>7, EnsureGood, Zenon DEF Good
<1> HIDE DEF b
<1>9. Paced(a, b)
  BY <1>1, <1>5, <1>8, PacedKept, Zenon
<1>10. Ready(b) /\ ~due(b, "new_handshake")
  BY <1>3, <1>5, <1>8, Zenon DEF Ready, due, Same
<1>11. ASSUME NEW s \in a.session, NEW t \in s.renew PROVE t = 0
  <2>1. PICK r \in a.session : 0 \in r.renew
    OBVIOUS
  <2>2. r = s /\ s.renew \in Deadline
    BY <1>1, <2>1, Zenon DEF Core, Options, One, Driver, Timing
  <2> QED
    BY <2>1, <2>2 DEF Deadline
<1>12. RenewKept(a, b)
  BY <1>11, Zenon DEF RenewKept
<1> QED
  BY <1>2, <1>7, <1>8, <1>9, <1>10, <1>12, Zenon DEF Served

\* The persistent keepalive: the idle time starts anew whatever the socket
\* says, which puts it off unless the interval is zero.
LEMMA PersistentServed ==
  ASSUME NEW a, Good(a), Ready(a), NEW e \in Env
  PROVE  Served(a, persistent_keepalive_due(a, e), "persistent")
<1> DEFINE c == [a EXCEPT !.idle = 0]
           b == persistent_keepalive_due(a, e)
<1>1. a \in Driver /\ Core(a)
  BY Zenon DEF Good, Core
<1>2. b \in {send_keepalive(c, e), ensure_handshake(c, e)}
  BY Zenon DEF persistent_keepalive_due
<1>3. /\ c \in Driver /\ c.idle = 0 /\ c.session = a.session
      /\ c.endpoint = a.endpoint /\ c.pending = a.pending /\ c.contributory = a.contributory /\ c.next = a.next
      /\ c.previous = a.previous /\ c.handshake = a.handshake /\ c.current = a.current
      /\ c.staged = a.staged /\ c.ready = a.ready /\ c.persistent = a.persistent
  BY <1>1, Zenon DEF Driver
<1> HIDE DEF b, c
<1>4. Good(c) /\ Ready(c) /\ (Pursued(a) => Pursued(c))
  BY <1>3 DEF Good, Core, Options, One, Attempted, Known, Aging, Timed, can_encrypt,
              Waits, Pursued, Ready
<1>5. /\ Good(b) /\ (Pursued(c) => Pursued(b)) /\ b.ready = c.ready /\ (c.current = {} => b.current = {})
      /\ c.handshake # {} => b.handshake = c.handshake
      /\ RenewKept(c, b) /\ b.persistent = c.persistent /\ b.idle \in {0, c.idle}
  <2>1. CASE b = send_keepalive(c, e)
    BY <1>4, <2>1, SendKeepaliveGood
  <2>2. CASE b = ensure_handshake(c, e)
    <3>1. /\ Good(b) /\ Same(c, b) /\ b.idle \in {0, c.idle} /\ (Pursued(c) => Pursued(b))
          /\ c.handshake # {} => b.handshake = c.handshake
      BY <1>4, <2>2, EnsureGood, Zenon DEF Good
    <3>2. RenewKept(c, b)
      BY <1>4, <3>1, RenewSelf DEF Good, Same
    <3> QED
      BY <3>1, <3>2, Zenon DEF Same
  <2> QED
    BY <1>2, <2>1, <2>2, Zenon
<1>6. Paced(a, b)
  BY <1>1, <1>3, <1>5, PacedKept
<1>7. RenewKept(a, b) /\ Ready(b)
  BY <1>3, <1>4, <1>5, Zenon DEF RenewKept, Ready
<1>8. due(b, "persistent") => 0 \in a.persistent
  <2>1. /\ a.persistent \subseteq Intervals /\ Intervals \subseteq Nat
        /\ b.persistent = a.persistent /\ b.idle = 0
    BY <1>1, <1>3, <1>5, ActorAssumption, Zenon DEF Driver
  <2>2. due(b, "persistent") => \E interval \in a.persistent : 0 >= interval
    BY <2>1, Zenon DEF due
  <2>3. \A interval \in Nat : 0 >= interval => interval = 0
    OBVIOUS
  <2> QED
    BY <2>1, <2>2, <2>3, Zenon
<1> QED
  BY <1>4, <1>5, <1>6, <1>7, <1>8, Zenon DEF Served, b

\* All timers.
LEMMA TimerServed ==
  ASSUME NEW a, Good(a), Ready(a), NEW e \in Env, NEW t \in Timers, due(a, t)
  PROVE  Served(a, fire(a, t, e), t)
<1>1. CASE t = "handshake"
  BY <1>1, HandshakeDueServed, Zenon DEF due, fire
<1>2. CASE t = "expires"
  BY <1>2, ExpiredServed, Zenon DEF due, fire
<1>3. CASE t = "keepalive"
  BY <1>3, KeepaliveServed, Zenon DEF fire
<1>4. CASE t = "new_handshake"
  BY <1>4, NewHandshakeServed, Zenon DEF due, fire
<1>5. CASE t = "persistent"
  BY <1>5, PersistentServed, Zenon DEF due, fire
<1> QED
  BY <1>1, <1>2, <1>3, <1>4, <1>5, Zenon DEF Timers

-----------------------------------------------------------------------------
(* The clock.                                                              *)

\* The age after a tick.
LEMMA OlderValue ==
  ASSUME NEW limit \in Nat, NEW x \in Nat
  PROVE  Older(x, limit) = IF x + 1 <= limit THEN x + 1 ELSE limit
BY MinOfTwo DEF Older

\* A deadline after a tick.
LEMMA SoonerDeadline ==
  ASSUME NEW D \in Deadline
  PROVE  Sooner(D) \in Deadline /\ \A t \in D : \E u \in Sooner(D) : u <= t
<1>1. CASE D = {}
  BY <1>1, Zenon DEF Sooner, Deadline
<1>2. ASSUME NEW t \in Nat, D = {t}
      PROVE  Sooner(D) \in Deadline /\ \A v \in D : \E u \in Sooner(D) : u <= v
  <2> DEFINE m == Max({t - 1, 0})
  <2>1. m \in Nat /\ m <= t
    BY MaxOfTwo
  <2>2. Sooner(D) = {m}
    BY <1>2, Zenon DEF Sooner
  <2> HIDE DEF m
  <2> QED
    BY <1>2, <2>1, <2>2, Zenon DEF Deadline
<1> QED
  BY <1>1, <1>2, Zenon DEF Deadline

\* A session one tick later.
AgedKept(x) == [x EXCEPT !.age = Older(@, REJECT_AFTER_TIME)]

\* An attempt one tick later.
AgedAttempt(h) ==
  [elapsed |-> Older(h.elapsed, REKEY_ATTEMPT_TIME), retry |-> Max({h.retry - 1, 0})]

\* The timers one tick later.
AgedTiming(s) ==
  [s EXCEPT !.age = Older(@, REJECT_AFTER_TIME),
            !.keepalive = Sooner(@), !.renew = Sooner(@)]

\* A tick keeps the types, makes nothing younger and no deadline later.
LEMMA AgedParts ==
  /\ \A x \in Kept : AgedKept(x) \in Kept
  /\ \A c \in Current : /\ AgedKept(c) \in Current /\ AgedKept(c).sent = c.sent
                        /\ AgedKept(c).age = Older(c.age, REJECT_AFTER_TIME)
                        /\ AgedKept(c).age >= c.age
  /\ \A h \in Attempt : /\ AgedAttempt(h) \in Attempt
                        /\ AgedAttempt(h).elapsed >= h.elapsed
                        /\ AgedAttempt(h).retry <= h.retry
  /\ \A s \in Timing : /\ AgedTiming(s) \in Timing
                       /\ AgedTiming(s).age = Older(s.age, REJECT_AFTER_TIME)
                       /\ AgedTiming(s).renew = Sooner(s.renew)
<1>1. ASSUME NEW limit \in Nat, NEW x \in 0 .. limit
      PROVE  Older(x, limit) \in 0 .. limit /\ Older(x, limit) >= x
  BY <1>1, OlderValue
<1>2. REJECT_AFTER_TIME \in Nat /\ REKEY_ATTEMPT_TIME \in Nat
  BY ActorAssumption, Zenon
<1>3. ASSUME NEW x \in Kept PROVE AgedKept(x) \in Kept
  BY <1>1, <1>2, Zenon DEF AgedKept, Kept
<1>4. ASSUME NEW c \in Current
      PROVE  /\ AgedKept(c) \in Current /\ AgedKept(c).sent = c.sent
             /\ AgedKept(c).age = Older(c.age, REJECT_AFTER_TIME)
             /\ AgedKept(c).age >= c.age
  BY <1>1, <1>2, Zenon DEF AgedKept, Current
<1>5. ASSUME NEW h \in Attempt
      PROVE  /\ AgedAttempt(h) \in Attempt
             /\ AgedAttempt(h).elapsed >= h.elapsed
             /\ AgedAttempt(h).retry <= h.retry
  <2> DEFINE m == Max({h.retry - 1, 0})
             o == Older(h.elapsed, REKEY_ATTEMPT_TIME)
  <2>1. h.retry \in Nat /\ h.elapsed \in 0 .. REKEY_ATTEMPT_TIME
    BY Zenon DEF Attempt
  <2>2. m \in Nat /\ m <= h.retry
    BY <2>1, MaxOfTwo
  <2>3. o \in 0 .. REKEY_ATTEMPT_TIME /\ o >= h.elapsed
    BY <1>1, <1>2, <2>1, Zenon
  <2>4. AgedAttempt(h) = [elapsed |-> o, retry |-> m]
    BY Zenon DEF AgedAttempt
  <2> HIDE DEF m, o
  <2> QED
    BY <2>2, <2>3, <2>4 DEF Attempt
<1>6. ASSUME NEW s \in Timing
      PROVE  /\ AgedTiming(s) \in Timing
             /\ AgedTiming(s).age = Older(s.age, REJECT_AFTER_TIME)
             /\ AgedTiming(s).renew = Sooner(s.renew)
  <2> DEFINE o == Older(s.age, REJECT_AFTER_TIME)
             k == Sooner(s.keepalive)
             r == Sooner(s.renew)
  <2>1. s.age \in 0 .. REJECT_AFTER_TIME /\ s.keepalive \in Deadline /\ s.renew \in Deadline
    BY Zenon DEF Timing
  <2>2. o \in 0 .. REJECT_AFTER_TIME
    BY <1>1, <1>2, <2>1, Zenon
  <2>3. k \in Deadline /\ r \in Deadline
    BY <2>1, SoonerDeadline, Zenon
  <2>4. AgedTiming(s) = [s EXCEPT !.age = o, !.keepalive = k, !.renew = r]
    BY Zenon DEF AgedTiming, Timing
  <2> HIDE DEF o, k, r
  <2>5. /\ AgedTiming(s) \in Timing /\ AgedTiming(s).age = o /\ AgedTiming(s).renew = r
    BY <2>2, <2>3, <2>4, Zenon DEF Timing
  <2> QED
    BY <2>5, Zenon DEF o, r
<1> QED
  BY <1>3, <1>4, <1>5, <1>6, Zenon

\* A tick keeps the invariant: driver and machine grow older together.
LEMMA AgedGood ==
  ASSUME NEW a, Good(a), Ready(a)
  PROVE  LET b == Aged(a) IN Good(b) /\ Ready(b) /\ Paced(a, b) /\ RenewKept(a, b)
<1> DEFINE C == {AgedKept(x) : x \in a.current}
           N == {AgedKept(x) : x \in a.next}
           P == {AgedKept(x) : x \in a.previous}
           H == {AgedAttempt(h) : h \in a.handshake}
           S == {AgedTiming(s) : s \in a.session}
           i == Older(a.idle, Max(Intervals \cup {0}))
           b == [a EXCEPT !.current = C, !.next = N, !.previous = P, !.handshake = H,
                          !.session = S, !.idle = i]
<1>1. /\ a \in Driver /\ Core(a) /\ a.current \subseteq Current /\ a.next \subseteq Kept
      /\ a.previous \subseteq Kept /\ a.handshake \subseteq Attempt
      /\ a.session \subseteq Timing /\ a.idle \in Nat
  BY Zenon DEF Good, Core, Driver
<1>2. Aged(a) = b
  BY <1>1, Zenon DEF Aged, AgedKept, AgedAttempt, AgedTiming, Driver
<1>3. /\ C \in SUBSET Current /\ N \in SUBSET Kept /\ P \in SUBSET Kept
      /\ H \in SUBSET Attempt /\ S \in SUBSET Timing
  BY <1>1, AgedParts, Zenon
<1>4. i \in Nat
  BY <1>1, LongestInterval, OlderValue, SMTT(30)
<1>5. /\ One(C) /\ One(N) /\ One(P) /\ One(H) /\ One(S)
      /\ (C = {} <=> a.current = {}) /\ (N = {} <=> a.next = {})
      /\ (P = {} <=> a.previous = {}) /\ (H = {} <=> a.handshake = {})
      /\ (S = {} <=> a.session = {})
  BY <1>1 DEF Core, Options, One
<1>6. ASSUME NEW c \in C, NEW t \in S PROVE t.age <= c.age
  <2>1. PICK x : x \in a.current /\ c = AgedKept(x)
    OBVIOUS
  <2>2. PICK s : s \in a.session /\ t = AgedTiming(s)
    OBVIOUS
  <2>3. x \in Current /\ s \in Timing /\ s.age <= x.age
    BY <1>1, <2>1, <2>2, Zenon DEF Core, Aging
  <2>4. /\ c.age = Older(x.age, REJECT_AFTER_TIME) /\ t.age = Older(s.age, REJECT_AFTER_TIME)
        /\ x.age \in Nat /\ s.age \in Nat /\ REJECT_AFTER_TIME \in Nat
    BY <2>1, <2>2, <2>3, AgedParts, ActorAssumption DEF Current, Timing
  <2> HIDE DEF C, S
  <2> QED
    BY <2>3, <2>4, OlderValue
<1>7. ASSUME NEW c \in C, c.age < REJECT_AFTER_TIME, c.sent < REJECT_AFTER_MESSAGES
      PROVE  \E x \in a.current : x.age < REJECT_AFTER_TIME /\ x.sent < REJECT_AFTER_MESSAGES
  <2>1. PICK x : x \in a.current /\ c = AgedKept(x)
    OBVIOUS
  <2>2. x \in Current /\ c \in Current /\ c.sent = x.sent /\ c.age >= x.age
    BY <1>1, <2>1, AgedParts, Zenon
  <2> HIDE DEF C
  <2> QED
    BY <1>7, <2>1, <2>2, ActorAssumption DEF Current
<1>8. ASSUME NEW h \in a.handshake, NEW g \in H
      PROVE  g.elapsed >= h.elapsed /\ (g.retry > h.retry => h.retry = 0)
  <2>1. g = AgedAttempt(h) /\ h \in Attempt
    BY <1>1, Zenon DEF Core, Options, One
  <2>2. g \in Attempt /\ g.elapsed >= h.elapsed /\ g.retry <= h.retry
    BY <2>1, AgedParts, Zenon
  <2> HIDE DEF H
  <2> QED
    BY <2>1, <2>2 DEF Attempt
<1>9. ASSUME NEW s \in a.session, NEW r \in S, NEW t \in s.renew
      PROVE  \E u \in r.renew : u <= t
  <2>1. r = AgedTiming(s) /\ s \in Timing /\ s.renew \in Deadline
    BY <1>1, Zenon DEF Core, Options, One, Timing
  <2>2. r.renew = Sooner(s.renew)
    BY <2>1, AgedParts, Zenon
  <2> HIDE DEF S
  <2> QED
    BY <2>1, <2>2, SoonerDeadline, Zenon
<1> HIDE DEF C, N, P, H, S, i
<1>10. /\ b \in Driver /\ b.current = C /\ b.next = N /\ b.previous = P
       /\ b.handshake = H /\ b.session = S /\ b.pending = a.pending /\ b.contributory = a.contributory
       /\ b.endpoint = a.endpoint /\ b.staged = a.staged /\ b.ready = a.ready
  BY <1>1, <1>3, <1>4, Zenon DEF Driver
<1> HIDE DEF b
<1>11. can_encrypt(b) => can_encrypt(a)
  BY <1>7, <1>10, Zenon DEF can_encrypt
<1>12. Options(b) /\ Attempted(b) /\ Known(b)
  BY <1>1, <1>5, <1>10, Zenon DEF Core, Options, Attempted, Known
<1>13. Aging(b) /\ Timed(b)
  BY <1>1, <1>5, <1>6, <1>10, <1>11, Zenon DEF Core, Aging, Timed
<1>14. Waits(b) /\ Ready(b)
  BY <1>5, <1>10, <1>11, Zenon DEF Good, Waits, Ready
<1>15. Paced(a, b) /\ RenewKept(a, b)
  BY <1>8, <1>9, <1>10, Zenon DEF Paced, RenewKept
<1> QED
  BY <1>2, <1>10, <1>12, <1>13, <1>14, <1>15, Zenon DEF Good, Core

-----------------------------------------------------------------------------
(* The actor.                                                              *)

\* What a handler leaves is the next state, with its messages given to the
\* network.
LEMMA BecomeGood ==
  ASSUME NEW b, Good(b), Ready(b), Become(b)
  PROVE  /\ IInv' /\ actor'.handshake = b.handshake /\ actor'.session = b.session
         /\ Pursued(b) => Pursued(actor')
<1> DEFINE c == [b EXCEPT !.out = {}]
<1>1. b \in Driver
  BY Zenon DEF Good, Core
<1>2. /\ c \in Driver /\ c.endpoint = b.endpoint /\ c.staged = b.staged
      /\ c.session = b.session /\ c.pending = b.pending /\ c.contributory = b.contributory /\ c.next = b.next
      /\ c.previous = b.previous /\ c.handshake = b.handshake /\ c.current = b.current
      /\ c.ready = b.ready
  BY <1>1, Zenon DEF Driver
<1>3. actor' = c
  BY Zenon DEF Become
<1> HIDE DEF c
<1>4. Good(c) /\ Ready(c) /\ (Pursued(b) => Pursued(c))
  BY <1>2 DEF Good, Core, Options, One, Attempted, Known, Aging, Timed, can_encrypt,
              Waits, Pursued, Ready
<1> QED
  BY <1>2, <1>3, <1>4, Zenon DEF IInv

\* A driver that was just spawned satisfies the invariant.
LEMMA InitIInv == Init => IInv
<1> SUFFICES ASSUME NEW persistent \in Persistent, NEW contributory \in BOOLEAN,
                    actor = NewDriver(persistent, contributory)
             PROVE  IInv
  BY Zenon DEF Init
<1>1. 0 \in 0 .. MAX_STAGED_PACKETS /\ persistent \in SUBSET Intervals
  BY ActorAssumption DEF Persistent
<1>2. /\ actor \in Driver /\ actor.endpoint = FALSE /\ actor.pending = {}
      /\ actor.current = {} /\ actor.next = {} /\ actor.previous = {}
      /\ actor.handshake = {} /\ actor.session = {} /\ actor.staged = 0
  BY <1>1, Zenon DEF NewDriver, Driver
<1> QED
  BY <1>2, Zenon DEF IInv, Good, Core, Options, One, Attempted, Known, Aging, Timed, can_encrypt,
              Waits, Ready

\* Every handler and every timer preserves the invariant and, a response
\* apart, paces the attempt; only received packets put a deadline for an
\* answer off, and only time leaves staged packets unpursued.
LEMMA StepGood ==
  ASSUME IInv, Next
  PROVE  /\ IInv'
         /\ Paced(actor, actor') \/ OnRecvHandshakeResp
         /\ RenewKept(actor, actor') \/ OnRecvData \/ OnRecvHandshakeResp
         /\ Pursued(actor) => Pursued(actor') \/ Tick
<1>1. Good(actor) /\ Ready(actor) /\ Core(actor)
  BY Zenon DEF IInv, Good
<1>2. ASSUME NEW b, Good(b), Ready(b), Become(b), Paced(actor, b)
      PROVE  /\ IInv' /\ Paced(actor, actor')
             /\ RenewKept(actor, b) => RenewKept(actor, actor')
             /\ Pursued(b) => Pursued(actor')
  BY <1>2, BecomeGood, Zenon DEF Paced, RenewKept
<1>3. CASE OnConnect
  <2>1. PICK e \in Env : Become(Connect(actor, e))
    BY <1>3, Zenon DEF OnConnect, NoData
  <2>2. PICK b : b = Connect(actor, e)
    OBVIOUS
  <2>3. /\ Good(b) /\ Ready(b) /\ b.session = actor.session /\ (Pursued(actor) => Pursued(b))
        /\ actor.handshake # {} => b.handshake = actor.handshake
    BY <1>1, <2>2, ConnectGood, Zenon
  <2>4. Paced(actor, b) /\ RenewKept(actor, b)
    BY <1>1, <2>3, PacedKept, RenewSelf
  <2> QED
    BY <1>2, <2>1, <2>2, <2>3, <2>4, Zenon
<1>4. CASE OnUpdate
  <2>1. PICK e \in Env, persistent \in Persistent, endpoint \in BOOLEAN :
          Become(apply_update(actor, persistent, endpoint, e))
    BY <1>4, Zenon DEF OnUpdate, NoData
  <2>2. PICK b : b = apply_update(actor, persistent, endpoint, e)
    OBVIOUS
  <2>3. /\ Good(b) /\ Ready(b) /\ b.session = actor.session /\ (Pursued(actor) => Pursued(b))
        /\ actor.handshake # {} => b.handshake = actor.handshake
    BY <1>1, <2>2, UpdateGood
  <2>4. Paced(actor, b) /\ RenewKept(actor, b)
    BY <1>1, <2>3, PacedKept, RenewSelf
  <2> QED
    BY <1>2, <2>1, <2>2, <2>3, <2>4, Zenon
<1>5. CASE OnSendData
  <2>1. PICK e \in Env, n \in 1 .. MaxBatch : Become(flush_sends(actor, n, e))
    BY <1>5, Zenon DEF OnSendData
  <2>2. PICK b : b = flush_sends(actor, n, e)
    OBVIOUS
  <2>3. n \in Nat
    BY BatchAssumption
  <2>4. /\ Good(b) /\ b.ready = actor.ready /\ (actor.current = {} => b.current = {})
        /\ actor.handshake # {} => b.handshake = actor.handshake
        /\ RenewKept(actor, b) /\ (Pursued(actor) => Pursued(b))
    BY <1>1, <2>2, <2>3, FlushSendsGood
  <2>5. Paced(actor, b) /\ Ready(b)
    BY <1>1, <2>4, PacedKept, Zenon DEF Ready
  <2> QED
    BY <1>2, <2>1, <2>2, <2>4, <2>5, Zenon
<1>6. CASE OnRecvData
  <2>1. PICK e \in Env, slot \in Slots, payload \in BOOLEAN :
          /\ \E id \in Ids : can_decrypt(actor, slot, id)
          /\ Become(RecvData(actor, slot, payload, e))
    BY <1>6, Zenon DEF OnRecvData
  <2>2. PICK b : b = RecvData(actor, slot, payload, e)
    OBVIOUS
  <2>3. Slot(actor, slot) # {}
    BY <2>1, Zenon DEF can_decrypt
  <2>4. /\ Good(b) /\ Ready(b) /\ (Pursued(actor) => Pursued(b))
        /\ actor.handshake # {} => b.handshake = actor.handshake
    BY <1>1, <2>2, <2>3, RecvDataGood, Zenon
  <2>5. Paced(actor, b)
    BY <1>1, <2>4, PacedKept, Zenon
  <2> QED
    BY <1>2, <1>6, <2>1, <2>2, <2>4, <2>5, Zenon
<1>7. CASE OnRecvHandshakeInit
  <2>1. PICK e \in Env, from \in Ids : Become(RecvHandshakeInit(actor, from, e))
    BY <1>7, Zenon DEF OnRecvHandshakeInit, NoData
  <2>2. PICK b : b = RecvHandshakeInit(actor, from, e)
    OBVIOUS
  <2>3. /\ Good(b) /\ Ready(b) /\ b.session = actor.session /\ (Pursued(actor) => Pursued(b))
        /\ b.handshake = actor.handshake
    BY <1>1, <2>2, RecvHandshakeInitGood, Zenon
  <2>4. Paced(actor, b) /\ RenewKept(actor, b)
    BY <1>1, <2>3, PacedKept, RenewSelf
  <2> QED
    BY <1>2, <2>1, <2>2, <2>3, <2>4, Zenon
<1>8. CASE OnRecvHandshakeResp
  <2>1. PICK e \in Env, id \in Ids : Become(RecvHandshakeResp(actor, id, e))
    BY <1>8, Zenon DEF OnRecvHandshakeResp
  <2>2. PICK b : b = RecvHandshakeResp(actor, id, e)
    OBVIOUS
  <2>3. Good(b) /\ Ready(b) /\ Pursued(b)
    BY <1>1, <2>2, RecvHandshakeRespGood, Zenon
  <2> QED
    BY <1>8, <2>1, <2>2, <2>3, BecomeGood, Zenon
<1>9. ASSUME NEW t \in Timers, OnTimer(t)
      PROVE  /\ IInv' /\ Paced(actor, actor') /\ RenewKept(actor, actor')
             /\ Pursued(actor) => Pursued(actor')
  <2>1. PICK e \in Env : due(actor, t) /\ Become(fire(actor, t, e))
    BY <1>9, Zenon DEF OnTimer
  <2>2. PICK b : b = fire(actor, t, e)
    OBVIOUS
  <2>3. Served(actor, b, t)
    BY <1>1, <2>1, <2>2, TimerServed, Zenon
  <2> QED
    BY <1>2, <2>1, <2>2, <2>3, Zenon DEF Served
<1>10. CASE Tick
  BY <1>1, <1>10, AgedGood, Zenon DEF Tick, IInv
<1> QED
  BY <1>3, <1>4, <1>5, <1>6, <1>7, <1>8, <1>9, <1>10, Zenon DEF Next

\* IInv holds in every reachable state of the actor.
THEOREM Inductive == Spec => []IInv
<1>1. ASSUME IInv, UNCHANGED actor PROVE IInv'
  BY <1>1, Zenon DEF IInv
<1> QED
  BY <1>1, InitIInv, StepGood, PTL DEF Spec

\* The driver's attempt and the machine's pending handshake come and go
\* together, through every handler and timer of actor.rs, and for a key that
\* initiate refuses (the error arm of send_handshake) nothing is pending.
THEOREM AttemptsArePending == Spec => []AttemptIsPending
<1>1. IInv => AttemptIsPending
  BY Zenon DEF IInv, Good, Core, Attempted, AttemptIsPending
<1> QED
  BY <1>1, Inductive, PTL

\* Whenever the machine can encrypt, the driver has timers for the session
\* and ready() has returned, although driver and machine count the age of a
\* session apart (session_established, session_expired, flush_sends).
THEOREM EverySendIsTimed == Spec => []SendsAreTimed
<1>1. IInv => SendsAreTimed
  BY Zenon DEF IInv, Good, Core, Timed, Ready, can_encrypt, SendsAreTimed
<1> QED
  BY <1>1, Inductive, PTL

\* Packets are staged only while the machine cannot encrypt, so no later
\* packet overtakes a staged one (flush_sends, flush_staged).
THEOREM NoPacketOvertakes == Spec => []StagedWaits
<1>1. IInv => StagedWaits
  BY Zenon DEF IInv, Good, Waits, StagedWaits
<1> QED
  BY <1>1, Inductive, PTL

\* Staged packets that have an endpoint keep a handshake in flight, or an
\* answered session that may still be confirmed, through every message and
\* every timer; only the expiry of such a session leaves them unpursued
\* (flush_sends, handshake_due, the handler of an initiation).
THEOREM StagedPacketsArePursued == Spec => PursuitIsKept
<1>1. ASSUME IInv, [Next]_actor
      PROVE  [Pursued(actor) => Pursued(actor') \/ Tick]_actor
  BY <1>1, StepGood, Zenon
<1> QED
  BY <1>1, Inductive, PTL DEF Spec, PursuitIsKept

\* A timer that fired is not due any more, whatever the socket says and
\* whether or not initiate fails, so the select loop of run does not spin on
\* it; the one exception is a persistent keepalive whose interval is zero.
THEOREM TimersDoNotSpin == Spec => []NoSpin
<1>1. IInv => NoSpin
  BY TimerServed, Zenon DEF IInv, NoSpin, Spins, Served
<1> QED
  BY <1>1, Inductive, PTL

\* An Option has at most one element.
LEMMA OneIsBounded ==
  ASSUME NEW S, One(S)
  PROVE  Cardinality(S) <= 1
<1>1. CASE S = {}
  BY <1>1, FS_EmptySet
<1>2. ASSUME NEW x \in S PROVE Cardinality(S) <= 1
  <2>1. S = {x}
    BY Zenon DEF One
  <2>2. Cardinality({x}) = 1
    BY FS_Singleton, Zenon
  <2> QED
    BY <2>1, <2>2
<1> QED
  BY <1>1, <1>2, Zenon

\* The record is well typed; staging stays within MAX_STAGED_PACKETS and the
\* counter of a session within REJECT_AFTER_MESSAGES, for batches of any size
\* (flush_sends).
THEOREM DriverWellTyped == Spec => []TypeOK
<1>1. ASSUME IInv PROVE TypeOK
  <2>1. actor \in Driver /\ Options(actor)
    BY <1>1, Zenon DEF IInv, Good, Core
  <2>2. ASSUME NEW f \in {"pending", "current", "next", "previous", "handshake", "session"}
        PROVE  Cardinality(actor[f]) <= 1
    <3>1. One(actor[f])
      BY <2>1, Zenon DEF Options, Driver
    <3> QED
      BY <3>1, OneIsBounded, Zenon
  <2>3. /\ actor.endpoint \in BOOLEAN /\ actor.ready \in BOOLEAN
        /\ actor.current \subseteq Current /\ actor.next \cup actor.previous \subseteq Kept
        /\ actor.staged \in 0 .. MAX_STAGED_PACKETS
    BY <2>1, Zenon DEF Driver
  <2> QED
    BY <2>2, <2>3, Zenon DEF TypeOK, Current, Kept
<1> QED
  BY <1>1, Inductive, PTL

\* An attempt in flight is never begun anew and its initiation repeated only
\* when the retransmission is due, however many triggers ask for a handshake
\* (ensure_handshake, handshake_due).
THEOREM AttemptsAreRetransmittedOnTime == Spec => RetransmitsOnTime
<1>1. ASSUME IInv, [Next]_actor
      PROVE  [(\A h \in actor.handshake, g \in actor'.handshake :
                 g.elapsed >= h.elapsed /\ (g.retry > h.retry => h.retry = 0))
              \/ OnRecvHandshakeResp]_actor
  BY <1>1, StepGood, Zenon DEF Paced
<1> QED
  BY <1>1, Inductive, PTL DEF Spec, RetransmitsOnTime

\* While the session has timers, only an answer or a new session puts the
\* deadline for an answer off or clears it before it is due, however much is
\* sent meanwhile (data_sent, keepalive_sent,
\* new_handshake_due).
THEOREM SilenceIsNoticed == Spec => SilenceDeadlineKept
<1>1. ASSUME IInv, [Next]_actor
      PROVE  [(\A s \in actor.session, r \in actor'.session :
                 \A t \in s.renew : t = 0 \/ \E u \in r.renew : u <= t)
              \/ OnRecvData \/ OnRecvHandshakeResp]_actor
  BY <1>1, StepGood, Zenon DEF RenewKept
<1> QED
  BY <1>1, Inductive, PTL DEF Spec, SilenceDeadlineKept
=============================================================================
