--------------------------- MODULE CookiesProofs ----------------------------
(***************************************************************************)
(* The age of a cookie that gets a handshake processed under load, and the *)
(* rate of the handshakes processed without one, for every interval, every *)
(* limit, every number of initiator addresses and every clock.             *)
(*                                                                         *)
(* AcceptedCookieIsRecent looks at the moment of acceptance only; what     *)
(* makes it hold is a fact about every cookie that is still somewhere: in  *)
(* a reply or a handshake on its way, however late it arrives, or with the *)
(* generator.  Genuine is that fact.                                       *)
(*                                                                         *)
(* UnprovenRate is about any SECOND ticks, the guard's windows begin where *)
(* they begin.  RateInv says which admitted handshakes lie before the      *)
(* current window, and which before the one before it.                     *)
(***************************************************************************)
EXTENDS Cookies, FiniteSetTheorems, TLAPS

\* A cookie made with the current secret was issued after the last rotation,
\* one of an older secret before it, one of a secret before the last a whole
\* interval before it; no cookie is made with a secret to come.
Genuine(c) ==
  /\ c.secret \in Nat /\ c.issued \in 0 .. now
  /\ c.secret <= secret
  /\ c.secret = secret => secret_rotated <= c.issued
  /\ c.secret < secret => c.issued <= secret_rotated
  /\ c.secret + 1 < secret => c.issued + COOKIE_REFRESH_INTERVAL <= secret_rotated

\* The clocks.
ClockInv ==
  /\ now \in 0 .. MaxTime
  /\ secret \in Nat /\ secret_rotated \in 0 .. now

\* The cookies of the generator, of the replies and of the handshakes sent.
\* A handshake carries at most one.
CookieInv ==
  /\ \A c, d \in last_cookie : c = d
  /\ \A c \in last_cookie : Genuine(c.cookie) /\ c.at \in c.cookie.issued .. now
  /\ \A reply \in replies : Genuine(reply.cookie)
  /\ \A msg \in wire :
       /\ \A c, d \in msg.mac2 : c = d
       /\ \A c \in msg.mac2 : Genuine(c)

\* The counters of the guard and of the generator.
CountInv ==
  /\ window_start \in 0 .. now /\ handshakes \in 0 .. MaxLoad
  /\ last_sent_mac1 \in 0 .. MaxSend

\* The handshakes of the current window that were admitted: the first ones.
InWindow == IF handshakes <= max_per_second THEN handshakes ELSE max_per_second

\* The b first of the times in log lie before the window that began at start.
\* Where max_per_second more of those follow, they lie before the window
\* before that one too.
Before(log, b, start) ==
  /\ \A i \in 1 .. Len(log) : log[i] < start + SECOND
  /\ \A i \in 1 .. b : log[i] < start
  /\ \A i \in 1 .. b : i + max_per_second <= b => log[i] + SECOND <= start

\* UnprovenRate for any times.
Spread(log) ==
  \A i, j \in 1 .. Len(log) : j = i + 2 * max_per_second => log[j] - log[i] >= SECOND

\* Which handshakes were admitted before the current window.
RateInv ==
  /\ admitted \in Seq(Nat) /\ InWindow <= Len(admitted)
  /\ Before(admitted, Len(admitted) - InWindow, window_start)
  /\ Spread(admitted)

\* The inductive invariant.
IInv ==
  ClockInv /\ CountInv /\ RateInv /\ CookieInv /\ AcceptedCookieIsRecent /\ SecretsAreSpaced

\* The clocks: time passes, and read_loop may replace the secret.
LEMMA ClockNext ==
  ASSUME ClockInv, [Next]_vars
  PROVE  ClockInv'
<1>1. CASE UNCHANGED <<now, secret, secret_rotated>>
  BY <1>1, Zenon DEF ClockInv
<1>2. CASE Tick
  BY <1>2, CookieAssumption DEF ClockInv, Tick, guard
<1>3. CASE Rotate /\ now' = now
  BY <1>3 DEF Rotate, CurrentSecret, ClockInv
<1> QED
  BY <1>1, <1>2, <1>3, Zenon DEF Next, vars, guard, generator, SendHandshake, ProcessCookieReply,
                          ReceiveHandshake, ReceiveOther, ReceiveInvalid, Count

\* A genuine cookie stays genuine while time passes and the secret is
\* replaced.
LEMMA GenuineKept ==
  ASSUME ClockInv, ClockInv', [Next]_vars, NEW c, Genuine(c)
  PROVE  Genuine(c)'
<1>1. now <= now'
  BY DEF ClockInv, Next, vars, guard, generator, SendHandshake, ProcessCookieReply,
         ReceiveHandshake, ReceiveOther, ReceiveInvalid, Count, Tick
<1>2. \/ secret' = secret /\ secret_rotated' = secret_rotated
      \/ RotateDue /\ secret' = secret + 1 /\ secret_rotated' = now
  BY Zenon DEF Next, vars, guard, generator, SendHandshake, ProcessCookieReply,
         ReceiveHandshake, ReceiveOther, ReceiveInvalid, Rotate, CurrentSecret, Tick
<1>3. CASE RotateDue /\ secret' = secret + 1 /\ secret_rotated' = now
  BY <1>1, <1>3, CookieAssumption DEF Genuine, ClockInv, RotateDue
<1>4. CASE secret' = secret /\ secret_rotated' = secret_rotated
  BY <1>1, <1>4 DEF Genuine, ClockInv
<1> QED
  BY <1>2, <1>3, <1>4, Zenon

\* Every cookie that a step makes, stores or sends on is genuine: the reply
\* of the responder, the cookie the generator keeps from it, the mac2 it puts
\* on a handshake.
LEMMA CookieNext ==
  ASSUME ClockInv, ClockInv', CookieInv, [Next]_vars
  PROVE  CookieInv'
<1>1. \A c : Genuine(c) => Genuine(c)'
  BY GenuineKept, Zenon
<1>2. now <= now' /\ now \in Nat /\ now' \in Nat
  BY DEF ClockInv, Next, vars, guard, generator, SendHandshake, ProcessCookieReply,
         ReceiveHandshake, ReceiveOther, ReceiveInvalid, Count, Tick
<1>3. \A c \in last_cookie : Genuine(c.cookie)' /\ c.at \in c.cookie.issued .. now'
  BY <1>1, <1>2 DEF CookieInv, Genuine
<1>4. ASSUME NEW source \in Source, SendHandshake(source) PROVE CookieInv'
  <2> DEFINE new == [mac1 |-> last_sent_mac1', mac2 |-> FreshCookie, source |-> source]
  <2>1. /\ UNCHANGED <<last_cookie, replies>> /\ wire' = wire \cup {new}
    BY <1>4, Zenon DEF SendHandshake
  <2>2. /\ \A c, d \in new.mac2 : c = d
        /\ \A c \in new.mac2 : Genuine(c)
    BY Zenon DEF CookieInv, FreshCookie
  <2> QED
    BY <1>1, <1>3, <2>1, <2>2, Zenon DEF CookieInv
<1>5. ASSUME NEW reply \in replies, ProcessCookieReply(reply) PROVE CookieInv'
  <2> DEFINE new == [cookie |-> reply.cookie, at |-> now]
  <2>1. /\ UNCHANGED <<wire, replies>> /\ last_cookie' = {new} /\ now' = now
    BY <1>5, Zenon DEF ProcessCookieReply
  <2>2. Genuine(new.cookie)' /\ new.at \in new.cookie.issued .. now'
    BY <1>1, <1>2, <2>1 DEF CookieInv, Genuine
  <2> QED
    BY <1>1, <2>1, <2>2, Zenon DEF CookieInv
<1>6. ASSUME NEW msg \in wire, ReceiveHandshake(msg) PROVE CookieInv'
  <2>1. PICK r : r = CookieReply(msg)
    OBVIOUS
  <2>2. /\ UNCHANGED <<last_cookie, wire>> /\ now' = now
        /\ replies' = replies \/ replies' = replies \cup {r}
    BY <1>6, <2>1, Zenon DEF ReceiveHandshake, Count, generator
  <2>3. r.cookie.secret = secret' /\ r.cookie.issued = now
    BY <1>6, <2>1, Zenon DEF ReceiveHandshake, Rotate, CookieReply
  <2>4. Genuine(r.cookie)'
    BY <1>2, <2>2, <2>3, CookieAssumption DEF Genuine, ClockInv
  <2> QED
    BY <1>1, <1>3, <2>2, <2>4, Zenon DEF CookieInv
<1>7. CASE UNCHANGED <<last_cookie, wire, replies>>
  BY <1>1, <1>3, <1>7, Zenon DEF CookieInv
<1> QED
  BY <1>4, <1>5, <1>6, <1>7, Zenon DEF Next, vars, guard, generator, ReceiveOther, ReceiveInvalid, Count, Tick

\* A handshake that a step accepts for its mac2 carries a cookie of the
\* current secret, issued no longer ago than the secret may live.
LEMMA RecentNext ==
  ASSUME ClockInv, CookieInv, AcceptedCookieIsRecent, [Next]_vars
  PROVE  AcceptedCookieIsRecent'
<1>1. ASSUME NEW msg \in wire, ReceiveHandshake(msg), verify_mac_2(msg),
             NEW c \in msg.mac2
      PROVE  now - c.issued < COOKIE_REFRESH_INTERVAL
  <2>1. c.secret = CurrentSecret /\ Genuine(c)
    BY <1>1, Zenon DEF verify_mac_2, CookieInv
  <2>2. ~RotateDue /\ c.secret = secret
    BY <2>1 DEF CurrentSecret, Genuine, ClockInv
  <2>3. now - secret_rotated < COOKIE_REFRESH_INTERVAL /\ secret_rotated <= c.issued
    BY <2>1, <2>2, CookieAssumption DEF RotateDue, Genuine, ClockInv
  <2> QED
    BY <2>1, <2>3, CookieAssumption DEF Genuine, ClockInv
<1>2. ASSUME NEW msg \in wire, ReceiveHandshake(msg) PROVE AcceptedCookieIsRecent'
  <2>1. CASE ~Admits /\ verify_mac_2(msg)
    <3>1. proven' = proven \cup {[issued |-> c.issued, at |-> now] : c \in msg.mac2}
      BY <1>2, <2>1, Zenon DEF ReceiveHandshake
    <3>2. ASSUME NEW c \in msg.mac2
          PROVE  [issued |-> c.issued, at |-> now].at - [issued |-> c.issued, at |-> now].issued
                   < COOKIE_REFRESH_INTERVAL
      BY <1>1, <1>2, <2>1, Zenon
    <3> QED
      BY <3>1, <3>2, Zenon DEF AcceptedCookieIsRecent
  <2>2. CASE ~(~Admits /\ verify_mac_2(msg))
    BY <1>2, <2>2, Zenon DEF ReceiveHandshake, AcceptedCookieIsRecent
  <2> QED
    BY <2>1, <2>2, Zenon
<1>3. CASE UNCHANGED proven
  BY <1>3, Zenon DEF AcceptedCookieIsRecent
<1> QED
  BY <1>2, <1>3, Zenon DEF Next, vars, SendHandshake, ProcessCookieReply,
                    ReceiveOther, ReceiveInvalid, Tick

\* A cookie that a step issues is spaced from those issued before: within an
\* interval of one of its own secret, and a whole interval after one of the
\* last secret but one.
LEMMA SpacedNext ==
  ASSUME ClockInv, CookieInv, SecretsAreSpaced, [Next]_vars
  PROVE  SecretsAreSpaced'
<1>1. ASSUME NEW msg \in wire, ReceiveHandshake(msg) PROVE SecretsAreSpaced'
  <2>1. PICK r : r = CookieReply(msg)
    OBVIOUS
  <2>2. replies' = replies \/ replies' = replies \cup {r}
    BY <1>1, <2>1, Zenon DEF ReceiveHandshake
  <2>3. r.cookie.secret = CurrentSecret /\ r.cookie.issued = now
    BY <2>1, Zenon DEF CookieReply
  <2>4. \/ CurrentSecret = secret /\ ~RotateDue
        \/ CurrentSecret = secret + 1 /\ RotateDue
    BY DEF CurrentSecret
  <2>5. ASSUME NEW q \in replies
        PROVE  LET age == now - q.cookie.issued IN
               /\ CurrentSecret = q.cookie.secret => age < COOKIE_REFRESH_INTERVAL
               /\ CurrentSecret >= q.cookie.secret + 2 => age >= COOKIE_REFRESH_INTERVAL
               /\ q.cookie.issued - now < COOKIE_REFRESH_INTERVAL
               /\ ~(q.cookie.secret >= CurrentSecret + 2)
    <3>1. Genuine(q.cookie)
      BY Zenon DEF CookieInv
    <3> QED
      BY <2>4, <3>1, CookieAssumption DEF Genuine, ClockInv, RotateDue
  <2>6. /\ now - now < COOKIE_REFRESH_INTERVAL
        /\ ~(CurrentSecret >= CurrentSecret + 2)
    BY <2>4, CookieAssumption DEF ClockInv
  <2> QED
    BY <2>2, <2>3, <2>5, <2>6, Zenon DEF SecretsAreSpaced
<1>2. CASE UNCHANGED replies
  BY <1>2, Zenon DEF SecretsAreSpaced
<1> QED
  BY <1>1, <1>2, Zenon DEF Next, vars, SendHandshake, ProcessCookieReply,
                    ReceiveOther, ReceiveInvalid, Tick

\* The load counter and its window keep their types.
LEMMA CountNext ==
  ASSUME ClockInv, CountInv, [Next]_vars
  PROVE  CountInv'
<1>1. ASSUME Count PROVE CountInv'
  BY <1>1, CookieAssumption DEF Count, Counted, CountInv, ClockInv, generator
<1>2. CASE UNCHANGED <<now, window_start, handshakes, last_sent_mac1>>
  BY <1>2, Zenon DEF CountInv
<1>3. ASSUME NEW source \in Source, SendHandshake(source) PROVE CountInv'
  BY <1>3, CookieAssumption DEF SendHandshake, CountInv, guard
<1>4. CASE Tick
  BY <1>4, CookieAssumption DEF Tick, CountInv, ClockInv, guard, generator
<1> QED
  BY <1>1, <1>2, <1>3, <1>4, Zenon DEF Next, vars, guard, generator, ProcessCookieReply,
     ReceiveHandshake, ReceiveOther, ReceiveInvalid

\* A window begins when the last one is over (LoadGuard::check): it has
\* admitted max_per_second at most, so all before these are two windows old.
LEMMA WindowRestarts ==
  ASSUME NEW log \in Seq(Nat), NEW b \in 0 .. Len(log), Len(log) - b <= max_per_second,
         NEW start \in Nat, NEW time \in Nat, time - start >= SECOND,
         Before(log, b, start)
  PROVE  Before(log, Len(log), time)
<1>1. Len(log) \in Nat /\ SECOND \in Nat /\ max_per_second \in Nat
  BY CookieAssumption
<1>2. ASSUME NEW i \in 1 .. Len(log) PROVE log[i] \in Nat /\ log[i] < time
  BY <1>1 DEF Before
<1>3. ASSUME NEW i \in 1 .. Len(log), i + max_per_second <= Len(log)
      PROVE  log[i] + SECOND <= time
  <2>1. i \in 1 .. b
    BY <1>1, <1>3
  <2> QED
    BY <1>1, <1>2, <2>1, SMTT(30) DEF Before
<1> QED
  BY <1>1, <1>2, <1>3 DEF Before

\* A handshake that is admitted within the window.
LEMMA WindowGrows ==
  ASSUME NEW log \in Seq(Nat), NEW b \in 0 .. Len(log), NEW start \in Nat,
         NEW time \in Nat, time - start < SECOND, Before(log, b, start)
  PROVE  Before(Append(log, time), b, start)
<1>1. Len(log) \in Nat /\ SECOND \in Nat /\ max_per_second \in Nat
  BY CookieAssumption
<1>2. /\ Len(Append(log, time)) = Len(log) + 1
      /\ \A i \in 1 .. Len(log) : Append(log, time)[i] = log[i]
      /\ Append(log, time)[Len(log) + 1] = time
  OBVIOUS
<1>3. \A i \in 1 .. Len(log) + 1 : i \in 1 .. Len(log) \/ i = Len(log) + 1
  BY <1>1
<1>4. \A i \in 1 .. b : i \in 1 .. Len(log)
  BY <1>1
<1>5. time < start + SECOND
  BY <1>1
<1> QED
  BY <1>2, <1>3, <1>4, <1>5, Zenon DEF Before

\* The handshake 2 * max_per_second before one that is admitted lies before
\* the last window: this window and the last have max_per_second each.
LEMMA RateKept ==
  ASSUME NEW log \in Seq(Nat), NEW b \in 0 .. Len(log), NEW start \in Nat,
         Len(log) + 1 - b <= max_per_second, NEW time \in Nat, start <= time,
         Before(log, b, start), Spread(log)
  PROVE  Spread(Append(log, time))
<1>1. Len(log) \in Nat /\ SECOND \in Nat /\ max_per_second \in Nat
  BY CookieAssumption
<1>2. /\ Len(Append(log, time)) = Len(log) + 1
      /\ \A i \in 1 .. Len(log) : Append(log, time)[i] = log[i]
      /\ Append(log, time)[Len(log) + 1] = time
  OBVIOUS
<1>3. ASSUME NEW i \in 1 .. Len(log) + 1, NEW j \in 1 .. Len(log) + 1,
             j = i + 2 * max_per_second
      PROVE  Append(log, time)[j] - Append(log, time)[i] >= SECOND
  <2>1. CASE j = Len(log) + 1
    <3>1. i \in 1 .. b /\ i + max_per_second <= b /\ i \in 1 .. Len(log)
      BY <1>1, <1>3, <2>1
    <3>2. log[i] + SECOND <= start /\ log[i] \in Nat
      BY <3>1 DEF Before
    <3> QED
      BY <1>1, <1>2, <2>1, <3>1, <3>2, SMTT(30)
  <2>2. CASE j # Len(log) + 1
    <3>1. i \in 1 .. Len(log) /\ j \in 1 .. Len(log)
      BY <1>1, <1>3, <2>2, SMTT(30)
    <3> QED
      BY <1>2, <1>3, <3>1 DEF Spread
  <2> QED
    BY <2>1, <2>2
<1> QED
  BY <1>2, <1>3, Zenon DEF Spread

\* LoadGuard::check preserves RateInv, in a window that goes on and in one
\* that begins.
LEMMA RateNext ==
  ASSUME ClockInv, CountInv, RateInv, [Next]_vars
  PROVE  RateInv'
<1> DEFINE n == Len(admitted)
           b == n - InWindow
<1>1. /\ n \in Nat /\ SECOND \in Nat \ {0} /\ max_per_second \in Nat /\ now \in Nat
      /\ window_start \in Nat /\ window_start <= now /\ handshakes \in Nat
      /\ admitted \in Seq(Nat) /\ InWindow \in Nat
  BY CookieAssumption DEF ClockInv, CountInv, RateInv, InWindow
<1>2. b \in 0 .. n /\ n - b = InWindow /\ InWindow <= max_per_second
  BY <1>1 DEF RateInv, InWindow
<1>3. Before(admitted, b, window_start) /\ Spread(admitted)
  BY Zenon DEF RateInv
<1>4. /\ Append(admitted, now) \in Seq(Nat) /\ Len(Append(admitted, now)) = n + 1
  BY <1>1
<1> HIDE DEF b
<1>5. CASE Count /\ WindowOver
  <2>1. window_start' = now /\ handshakes' = 1 /\ now - window_start >= SECOND
    BY <1>5, Zenon DEF Count, Counted, WindowOver
  <2>2. Before(admitted, n, now)
    BY <1>1, <1>2, <1>3, <2>1, WindowRestarts
  <2>3. CASE Admits
    <3>1. admitted' = Append(admitted, now) /\ 1 <= max_per_second
      BY <1>5, <2>3, Zenon DEF Count, Admits, Counted
    <3>2. InWindow' = 1 /\ (n + 1) - 1 = n
      BY <1>1, <2>1, <3>1 DEF InWindow
    <3>3. n \in 0 .. n /\ now - now < SECOND /\ n + 1 - n <= max_per_second /\ 1 <= n + 1
          /\ now <= now
      BY <1>1, <3>1
    <3>4. Before(Append(admitted, now), n, now)
      BY <1>1, <2>2, <3>3, WindowGrows, Zenon
    <3>5. Spread(Append(admitted, now))
      BY <1>1, <1>3, <2>2, <3>3, RateKept, Zenon
    <3> QED
      BY <1>4, <2>1, <3>1, <3>2, <3>3, <3>4, <3>5 DEF RateInv
  <2>4. CASE ~Admits
    <3>1. admitted' = admitted /\ ~(1 <= max_per_second)
      BY <1>5, <2>4, Zenon DEF Count, Admits, Counted
    <3>2. InWindow' = 0 /\ n - 0 = n /\ 0 <= n
      BY <1>1, <2>1, <3>1 DEF InWindow
    <3> QED
      BY <1>1, <1>3, <2>1, <2>2, <3>1, <3>2 DEF RateInv
  <2> QED
    BY <2>3, <2>4
<1>6. CASE Count /\ ~WindowOver
  <2>1. window_start' = window_start /\ handshakes' = handshakes + 1
    BY <1>6, Zenon DEF Count, Counted
  <2>2. now - window_start < SECOND
    BY <1>1, <1>6 DEF WindowOver
  <2>3. CASE Admits
    <3>1. admitted' = Append(admitted, now) /\ handshakes + 1 <= max_per_second
      BY <1>6, <2>3, Zenon DEF Count, Admits, Counted
    <3>2. InWindow' = InWindow + 1 /\ InWindow + 1 <= max_per_second
      BY <1>1, <2>1, <3>1 DEF InWindow
    <3>3. (n + 1) - InWindow' = b /\ n + 1 - b <= max_per_second /\ InWindow' <= n + 1
      BY <1>1, <1>2, <3>2
    <3>4. Before(Append(admitted, now), b, window_start)
      BY <1>1, <1>2, <1>3, <2>2, WindowGrows, Zenon
    <3>5. Spread(Append(admitted, now))
      BY <1>1, <1>2, <1>3, <3>3, RateKept, Zenon
    <3> QED
      BY <1>4, <2>1, <3>1, <3>3, <3>4, <3>5 DEF RateInv
  <2>4. CASE ~Admits
    <3>1. admitted' = admitted /\ ~(handshakes + 1 <= max_per_second)
      BY <1>6, <2>4, Zenon DEF Count, Admits, Counted
    <3>2. InWindow' = InWindow
      BY <1>1, <2>1, <3>1 DEF InWindow
    <3> QED
      BY <2>1, <3>1, <3>2, Zenon DEF RateInv
  <2> QED
    BY <2>3, <2>4
<1>7. CASE UNCHANGED <<window_start, handshakes, admitted>>
  BY <1>7, Zenon DEF RateInv, InWindow
<1> QED
  BY <1>5, <1>6, <1>7, Zenon DEF Next, vars, guard, SendHandshake, ProcessCookieReply,
     ReceiveHandshake, ReceiveOther, ReceiveInvalid, Tick

\* IInv holds in every reachable state of responder and initiator.
THEOREM Inductive == Spec => []IInv
<1>1. Init => IInv
  <2> SUFFICES ASSUME Init PROVE IInv
    OBVIOUS
  <2>1. ClockInv /\ CountInv /\ CookieInv /\ AcceptedCookieIsRecent /\ SecretsAreSpaced
    BY CookieAssumption DEF Init, ClockInv, CountInv, CookieInv, AcceptedCookieIsRecent,
                            SecretsAreSpaced
  <2>2. admitted \in Seq(Nat) /\ Len(admitted) = 0 /\ InWindow = 0
    BY CookieAssumption DEF Init, InWindow
  <2>3. RateInv
    BY <2>2 DEF RateInv, Before, Spread
  <2> QED
    BY <2>1, <2>3 DEF IInv
<1>2. IInv /\ [Next]_vars => IInv'
  BY ClockNext, CountNext, RateNext, CookieNext, RecentNext, SpacedNext, Zenon DEF IInv
<1> QED
  BY <1>1, <1>2, PTL DEF Spec

\* A mac2 is accepted under load only when its cookie was issued within
\* COOKIE_REFRESH_INTERVAL before, however long reply and handshake were on
\* their way (verify_mac2 and current_secret).
THEOREM AcceptedCookiesAreRecent == Spec => []AcceptedCookieIsRecent
<1>1. IInv => AcceptedCookieIsRecent
  BY Zenon DEF IInv
<1> QED
  BY <1>1, Inductive, PTL

\* In any SECOND consecutive ticks at most twice max_per_second handshakes are
\* processed without a cookie, however they arrive (LoadGuard::check).
THEOREM UnprovenHandshakesAreLimited == Spec => []UnprovenRate
<1>1. IInv => UnprovenRate
  <2> SUFFICES ASSUME RateInv PROVE UnprovenRate
    BY Zenon DEF IInv
  <2>1. DOMAIN admitted = 1 .. Len(admitted)
    BY DEF RateInv
  <2> QED
    BY <2>1, Zenon DEF RateInv, Spread, UnprovenRate
<1> QED
  BY <1>1, Inductive, PTL

\* read_loop replaces its secret in time, and never twice within
\* COOKIE_REFRESH_INTERVAL: the cookies of one secret are issued within an
\* interval, those of the next but one an interval later at the earliest.
THEOREM SecretsAreRotatedOnSchedule == Spec => []SecretsAreSpaced
<1>1. IInv => SecretsAreSpaced
  BY Zenon DEF IInv
<1> QED
  BY <1>1, Inductive, PTL

\* The clocks and counters of guard and generator are well typed.
THEOREM CookieTypes == Spec => []TypeOK
<1>1. IInv => TypeOK
  <2> SUFFICES ASSUME IInv PROVE TypeOK
    OBVIOUS
  <2>1. Cardinality(last_cookie) <= 1
    <3>1. CASE last_cookie = {}
      <4>1. Cardinality(last_cookie) = 0
        BY <3>1, FS_EmptySet, Zenon
      <4> QED
        BY <4>1
    <3>2. ASSUME NEW c \in last_cookie PROVE Cardinality(last_cookie) <= 1
      <4>1. last_cookie = {c}
        BY Zenon DEF IInv, CookieInv
      <4>2. Cardinality(last_cookie) = 1
        BY <4>1, FS_Singleton, Zenon
      <4> QED
        BY <4>2
    <3> QED
      BY <3>1, <3>2, Zenon
  <2> QED
    BY <2>1 DEF IInv, ClockInv, CountInv, CookieInv, TypeOK
<1> QED
  BY <1>1, Inductive, PTL
=============================================================================
