----------------------------- MODULE TunnelPair -----------------------------
(***************************************************************************)
(* Two peer actors that talk to each other: the drivers of PeerDriver at   *)
(* both ends of a network that loses messages, in processes that restart,  *)
(* until the network becomes calm.                                         *)
(*                                                                         *)
(* No message is under way when the clock ticks, and timers fire in the    *)
(* tick they are due.  At most one message of a kind is under way in each  *)
(* direction, a newer one taking the place of an older: duplicates, delay  *)
(* and reordering are the matter of PeerPair.  While the network is calm   *)
(* nothing is lost, messages arrive before the next timer fires, and every *)
(* sender hands its actor a packet per tick.                               *)
(***************************************************************************)
EXTENDS PeerDriver, Sequences

CONSTANTS
  Node,
  Configured, \* nodes whose peer is added with an endpoint
  Sender,     \* nodes with packets to send
  MaxFaults   \* bound: messages lost and processes restarted before the calm

ASSUME PairAssumption ==
  /\ Cardinality(Node) = 2 /\ Configured \subseteq Node /\ Sender \subseteq Node
  /\ MaxFaults \in Nat /\ Ids \subseteq Nat

VARIABLES
  driver, \* the actor of each node
  wire,   \* the messages under way
  calm,   \* whether the network is calm
  faults, \* the faults so far
  silent, \* for each sender, ticks of calm since a packet of its arrived
  heard   \* senders whose silence deadline can only have been set in the calm
vars == <<driver, wire, calm, faults, silent, heard>>

Other(n) == CHOOSE m \in Node : m # n

\* A name that no slot and no message holds.
Used ==
  UNION {driver[n].pending \cup
         {s.id : s \in driver[n].current \cup driver[n].next \cup driver[n].previous}
           : n \in Node}
  \cup {x.msg.id : x \in wire} \cup {x.msg.to : x \in {y \in wire : y.msg.type = "resp"}}

\* The socket takes everything: a send that fails is a message lost.
Draw == {[jitter |-> j, id |-> Min(Ids \ Used), data |-> TRUE, msg |-> TRUE] :
           j \in 0 .. REKEY_TIMEOUT_JITTER_MAX - 1}

\* The network after n sent msgs.
Put(w, n, msgs) ==
  {x \in w : ~ \E m \in msgs : x.to = Other(n) /\ x.msg.type = m.type}
  \cup {[to |-> Other(n), msg |-> m] : m \in msgs}

\* Names are told apart and nothing else, so the state keeps them small: a
\* name is the first of the places, in a fixed order, that holds it.
Places(d, w) ==
  LET first == CHOOSE n \in Node : TRUE
      held(n) == <<d[n].pending, {s.id : s \in d[n].current},
                   {s.id : s \in d[n].next}, {s.id : s \in d[n].previous}>>
      sent(n, type) == {x.msg.id : x \in {y \in w : y.to = n /\ y.msg.type = type}}
      answered(n) == {x.msg.to : x \in {y \in w : y.to = n /\ y.msg.type = "resp"}}
      under_way(n) == <<sent(n, "init"), sent(n, "resp"), sent(n, "data"), answered(n)>>
  IN  held(first) \o held(Other(first)) \o under_way(first) \o under_way(Other(first))

Rename(places, id) == Min({i \in DOMAIN places : id \in places[i]})

Settle(d, w) ==
  LET places == Places(d, w)
      new(id) == Rename(places, id)
      kept(S) == {[s EXCEPT !.id = new(@)] : s \in S}
  IN  /\ driver' = [n \in Node |->
           [d[n] EXCEPT !.pending = {new(id) : id \in @}, !.current = kept(@),
                        !.next = kept(@), !.previous = kept(@), !.out = {}]]
      /\ wire' = {[x EXCEPT !.msg = IF @.type = "resp"
                                     THEN [@ EXCEPT !.id = new(@), !.to = new(@)]
                                     ELSE [@ EXCEPT !.id = new(@)]] : x \in w}

\* Node n becomes a, having taken what is in `took` off the network.
Becomes(n, a, took) ==
  Settle([driver EXCEPT ![n] = a], Put(wire \ took, n, a.out))

-----------------------------------------------------------------------------
Init ==
  /\ driver = [n \in Node |-> NewDriver({}, TRUE)]
  /\ wire = {} /\ calm = FALSE /\ faults = 0
  /\ silent = [n \in Sender |-> 0] /\ heard = {}

\* The peer is added with its endpoint, or set_peer names one.
AddPeer(n) ==
  /\ ~calm /\ ~driver[n].endpoint
  /\ \E e \in Draw : Becomes(n, Connect(driver[n], e), {})
  /\ UNCHANGED <<calm, faults, silent, heard>>

Submit(n) ==
  /\ ~calm
  /\ \E e \in Draw : Becomes(n, flush_sends(driver[n], 1, e), {})
  /\ UNCHANGED <<calm, faults, silent, heard>>

\* An authenticated message reaches n.
Hear(n) == heard' = IF calm THEN heard \cup ({n} \cap Sender) ELSE heard

DeliverInit(x) ==
  /\ x.msg.type = "init"
  /\ \E e \in Draw : Becomes(x.to, RecvHandshakeInit(driver[x.to], x.msg.id, e), {x})
  /\ UNCHANGED <<calm, faults, silent, heard>>

DeliverResp(x) ==
  /\ x.msg.type = "resp" /\ x.msg.to \in driver[x.to].pending
  /\ \E e \in Draw : Becomes(x.to, RecvHandshakeResp(driver[x.to], x.msg.id, e), {x})
  /\ Hear(x.to)
  /\ UNCHANGED <<calm, faults, silent>>

DeliverData(x) ==
  /\ x.msg.type = "data"
  /\ \E e \in Draw, slot \in Slots :
       /\ can_decrypt(driver[x.to], slot, x.msg.id)
       /\ Becomes(x.to, RecvData(driver[x.to], slot, x.msg.payload, e), {x})
  /\ silent' = [n \in Sender |-> IF x.msg.payload /\ n # x.to THEN 0 ELSE silent[n]]
  /\ Hear(x.to)
  /\ UNCHANGED <<calm, faults>>

\* A response to no pending handshake is dropped.
DiscardResp(x) ==
  /\ x.msg.type = "resp" /\ x.msg.to \notin driver[x.to].pending
  /\ Settle(driver, wire \ {x})
  /\ UNCHANGED <<calm, faults, silent, heard>>

\* Data that no session opens is dropped.
DiscardData(x) ==
  /\ x.msg.type = "data"
  /\ \A slot \in Slots : ~can_decrypt(driver[x.to], slot, x.msg.id)
  /\ Settle(driver, wire \ {x})
  /\ UNCHANGED <<calm, faults, silent, heard>>

Fire(n, t) ==
  /\ due(driver[n], t)
  /\ calm => wire = {}
  /\ \E e \in Draw : Becomes(n, fire(driver[n], t, e), {})
  /\ UNCHANGED <<calm, faults, silent, heard>>

Quiet == wire = {} /\ \A n \in Node, t \in Timers : ~due(driver[n], t)

Tick ==
  /\ ~calm /\ Quiet
  /\ driver' = [n \in Node |-> Aged(driver[n])]
  /\ UNCHANGED <<wire, calm, faults, silent, heard>>

\* In the calm every sender has a packet to send in every tick.
CalmTick ==
  /\ calm /\ Quiet
  /\ \E e \in Draw :
       LET aged == [n \in Node |-> Aged(driver[n])]
           sent == [n \in Node |->
                      IF n \in Sender THEN flush_sends(aged[n], 1, e) ELSE aged[n]]
       IN  Settle(sent, UNION {Put({}, n, sent[n].out) : n \in Node})
  /\ silent' = [n \in Sender |-> silent[n] + 1]
  /\ UNCHANGED <<calm, faults, heard>>

Lose(x) ==
  /\ ~calm /\ faults < MaxFaults
  /\ Settle(driver, wire \ {x})
  /\ faults' = faults + 1
  /\ UNCHANGED <<calm, silent, heard>>

\* The process dies and comes back with nothing but its configuration.
Restart(n) ==
  /\ ~calm /\ faults < MaxFaults
  /\ Settle([driver EXCEPT ![n] = NewDriver({}, TRUE)], wire)
  /\ faults' = faults + 1
  /\ UNCHANGED <<calm, silent, heard>>

BecomeCalm ==
  /\ ~calm /\ \A n \in Configured : driver[n].endpoint
  /\ calm' = TRUE /\ faults' = 0
  /\ UNCHANGED <<driver, wire, silent, heard>>

Next ==
  \/ \E n \in Configured : AddPeer(n)
  \/ \E n \in Sender : Submit(n)
  \/ \E x \in wire :
       \/ DeliverInit(x) \/ DeliverResp(x) \/ DeliverData(x)
       \/ DiscardResp(x) \/ DiscardData(x) \/ Lose(x)
  \/ \E n \in Node, t \in Timers : Fire(n, t)
  \/ \E n \in Node : Restart(n)
  \/ Tick \/ CalmTick \/ BecomeCalm

Spec == Init /\ [][Next]_vars

-----------------------------------------------------------------------------
(* Properties.                                                             *)

\* However sessions were lost before, a sender's packets get through again
\* once the network is calm, as soon as the silence deadline allows.  A
\* packet the remote owes on a session it still has, which the sender opens
\* as its previous one, can put that off once, by the time until the remote
\* sends it and the tick until the sender's next packet.
RecoversInTime ==
  wire = {} =>
    \A n \in Sender :
      silent[n] <= 2 * KEEPALIVE_TIMEOUT + REKEY_TIMEOUT + REKEY_TIMEOUT_JITTER_MAX

\* A session that works both ways is not given up: the remote's passive
\* keepalive answers in time, so a silence deadline set in the calm falls
\* due only when packets really do not arrive, or when the remote answers
\* on a session the sender has lost.
NoNeedlessHandshake ==
  \A n \in heard :
    wire = {} /\ due(driver[n], "new_handshake") =>
      \/ silent[n] >= KEEPALIVE_TIMEOUT + REKEY_TIMEOUT
      \/ ~ \E s \in driver[Other(n)].current, slot \in Slots :
             can_decrypt(driver[n], slot, s.id)
=============================================================================
