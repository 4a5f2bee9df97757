------------------------------ MODULE Cookies -------------------------------
(***************************************************************************)
(* Handshake MACs and cookies: the Generator of an initiator and the       *)
(* Verifier of protocol/src/cookies.rs, the LoadGuard of                   *)
(* protocol/src/peer/load.rs and the rotation of its secret in read_loop   *)
(* (tunnel/src/lib.rs).                                                    *)
(*                                                                         *)
(* A responder receives handshakes of one initiator, which may change its  *)
(* address, and of others it only counts.  Handshakes and replies are      *)
(* lost, duplicated and reordered.  mac1 is the number of the message it   *)
(* covers; a cookie is the secret and the source it was made from, with    *)
(* the time of issue as history.  mac2 is the cookie it was keyed with.    *)
(***************************************************************************)
EXTENDS Integers, FiniteSets, Sequences

CONSTANTS
  COOKIE_REFRESH_INTERVAL,
  SECOND,         \* ticks in the window of the load guard
  max_per_second,
  Source,         \* addresses of the initiator
  MaxTime,        \* bound on the clocks
  MaxSend,        \* bound on the initiator's handshakes
  MaxLoad         \* bound on the handshakes counted in one window

ASSUME CookieAssumption ==
  /\ COOKIE_REFRESH_INTERVAL \in Nat \ {0} /\ SECOND \in Nat \ {0}
  /\ max_per_second \in Nat
  /\ MaxTime \in Nat /\ MaxSend \in Nat /\ MaxLoad \in Nat

VARIABLES
  now,
  secret,         \* the guard's secret, numbered
  secret_rotated, \* when read_loop last replaced it
  window_start,   \* of the guard
  handshakes,     \* counted in the window
  last_cookie,    \* of the generator: at most one [cookie, at]
  last_sent_mac1, \* of the generator: 0 before the first handshake
  wire,           \* handshakes sent
  replies,        \* cookie replies sent
  admitted,       \* history: when handshakes were processed without a cookie
  proven          \* history: handshakes processed for their cookie

guard == <<secret, secret_rotated, window_start, handshakes>>

generator == <<last_cookie, last_sent_mac1>>

vars == <<now, guard, generator, wire, replies, admitted, proven>>

Init ==
  /\ now = 0
  /\ secret = 0 /\ secret_rotated = 0
  /\ window_start = 0 /\ handshakes = 0
  /\ last_cookie = {} /\ last_sent_mac1 = 0
  /\ wire = {} /\ replies = {}
  /\ admitted = <<>>
  /\ proven = {}

-----------------------------------------------------------------------------
(* The initiator.                                                          *)

\* The cookie that add_macs keys mac2 with.
FreshCookie ==
  {c.cookie : c \in {c \in last_cookie : now - c.at <= COOKIE_REFRESH_INTERVAL}}

\* Generator::add_macs on a handshake that leaves from source
SendHandshake(source) ==
  /\ last_sent_mac1 < MaxSend
  /\ last_sent_mac1' = last_sent_mac1 + 1
  /\ wire' = wire \cup {[mac1 |-> last_sent_mac1', mac2 |-> FreshCookie,
                         source |-> source]}
  /\ UNCHANGED <<now, guard, last_cookie, replies, admitted, proven>>

\* The reply opens only with the mac1 that was sent last.
Opens(reply) == last_sent_mac1 # 0 /\ reply.mac1 = last_sent_mac1

\* Generator::process_cookie_reply
ProcessCookieReply(reply) ==
  /\ Opens(reply)
  /\ last_cookie' = {[cookie |-> reply.cookie, at |-> now]}
  /\ UNCHANGED <<now, guard, last_sent_mac1, wire, replies, admitted, proven>>

-----------------------------------------------------------------------------
(* The responder.                                                          *)

\* Mutant: the secret lives on.
NeverRotate == secret

\* read_loop: the secret is replaced before it is used, when it is due.
RotateDue == now - secret_rotated >= COOKIE_REFRESH_INTERVAL

CurrentSecret == IF RotateDue THEN secret + 1 ELSE secret

\* Mutant: every handshake starts a new window.
RestartAlways == TRUE

\* LoadGuard::check: the window restarts.
WindowOver == now - window_start >= SECOND

Counted == IF WindowOver THEN 1 ELSE handshakes + 1

\* Verifier::verify_mac_2
verify_mac_2(msg) ==
  \E c \in msg.mac2 : c.secret = CurrentSecret /\ c.source = msg.source

\* Verifier::write_cookie_reply
CookieReply(msg) ==
  [mac1 |-> msg.mac1,
   cookie |-> [secret |-> CurrentSecret, source |-> msg.source, issued |-> now]]

\* The guard is not under load.
Admits == Counted <= max_per_second

\* Mutant: the time of the rotation is not noted, so every handshake rotates.
RotateUnnoted ==
  /\ secret' = CurrentSecret
  /\ secret_rotated' = secret_rotated

\* What every handshake does to the read loop's state, before its MACs are
\* looked at.
Rotate ==
  /\ secret' = CurrentSecret
  /\ secret_rotated' = IF RotateDue THEN now ELSE secret_rotated

\* What a handshake with a valid mac1 does to the guard.
Count ==
  /\ Counted <= MaxLoad
  /\ window_start' = IF WindowOver THEN now ELSE window_start
  /\ handshakes' = Counted
  /\ admitted' = IF Admits THEN Append(admitted, now) ELSE admitted
  /\ UNCHANGED <<now, generator, wire>>

\* read_loop and LoadGuard::check on a handshake of the initiator
ReceiveHandshake(msg) ==
  /\ Rotate
  /\ Count
  /\ replies' = IF Admits \/ verify_mac_2(msg) THEN replies
                ELSE replies \cup {CookieReply(msg)}
  /\ proven' = IF ~Admits /\ verify_mac_2(msg)
               THEN proven \cup {[issued |-> c.issued, at |-> now] : c \in msg.mac2}
               ELSE proven

\* The same on a handshake of someone else, who holds no cookie.
ReceiveOther ==
  /\ Rotate
  /\ Count
  /\ UNCHANGED <<replies, proven>>

\* The same on a handshake whose mac1 is invalid: it is dropped uncounted.
ReceiveInvalid ==
  /\ Rotate
  /\ UNCHANGED <<now, window_start, handshakes, generator, wire, replies, admitted, proven>>

Tick ==
  /\ now < MaxTime
  /\ now' = now + 1
  /\ UNCHANGED <<guard, generator, wire, replies, admitted, proven>>

Next ==
  \/ \E source \in Source : SendHandshake(source)
  \/ \E reply \in replies : ProcessCookieReply(reply)
  \/ \E msg \in wire : ReceiveHandshake(msg)
  \/ ReceiveOther
  \/ ReceiveInvalid
  \/ Tick

Spec == Init /\ [][Next]_vars

-----------------------------------------------------------------------------
(* Properties.                                                             *)

\* The state is well typed: the clocks of guard and generator are not ahead
\* of the time.
TypeOK ==
  /\ secret \in Nat
  /\ secret_rotated \in 0 .. now /\ window_start \in 0 .. now
  /\ handshakes \in 0 .. MaxLoad
  /\ last_sent_mac1 \in 0 .. MaxSend
  /\ Cardinality(last_cookie) <= 1
  /\ \A c \in last_cookie : c.at \in c.cookie.issued .. now

\* In any SECOND consecutive ticks at most twice max_per_second handshakes
\* are processed without a cookie: the guard's windows are fixed, so a burst
\* may straddle two of them, but never a third.
UnprovenRate ==
  \A i, j \in DOMAIN admitted :
    j = i + 2 * max_per_second => admitted[j] - admitted[i] >= SECOND

\* A cookie that gets a handshake processed under load was issued less than
\* COOKIE_REFRESH_INTERVAL before, however late its handshake arrives.
AcceptedCookieIsRecent ==
  \A p \in proven : p.at - p.issued < COOKIE_REFRESH_INTERVAL

\* The secret is replaced in time and never twice within an interval, as the
\* cookies that read_loop hands out show: those of one secret are issued less
\* than COOKIE_REFRESH_INTERVAL apart, and between one of a secret and one of
\* the next but one a whole interval passes, however the handshakes that make
\* read_loop look at its clock arrive.
SecretsAreSpaced ==
  \A q, r \in replies :
    LET age == r.cookie.issued - q.cookie.issued IN
    /\ r.cookie.secret = q.cookie.secret => age < COOKIE_REFRESH_INTERVAL
    /\ r.cookie.secret >= q.cookie.secret + 2 => age >= COOKIE_REFRESH_INTERVAL
=============================================================================
