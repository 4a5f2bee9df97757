------------------------------- MODULE Router -------------------------------
(***************************************************************************)
(* The peer registry, the index router and the read loop of                *)
(* tunnel/src/router.rs and tunnel/src/lib.rs, with the peer actors and    *)
(* the handles that share them.                                            *)
(*                                                                         *)
(* Handles and the read loop run on different threads.  The registry is    *)
(* behind a lock; the index map belongs to the read loop, which learns of  *)
(* changes through the unbounded control queue.  Registering a key again   *)
(* starts a new actor while the old one may still be running, so an actor  *)
(* is a number and its channel is told from another's by that number.      *)
(*                                                                         *)
(* Dropping the tunnel aborts the read loop, which ends some time later.   *)
(* The registry lives as long as the tunnel, the read loop or a removal    *)
(* holds it, and an entry as long as the registry, a removal or a call.    *)
(*                                                                         *)
(* An actor draws indices at random: two actors may draw the same one.     *)
(* One actor drawing the same one twice is left out.  Queued actions are   *)
(* only counted.                                                           *)
(***************************************************************************)
EXTENDS Integers, FiniteSets, Sequences, Functions

CONSTANTS
  Key,                        \* public keys of peers
  Index,                      \* receiver indices
  PEER_ACTION_QUEUE_CAPACITY, \* of an actor's queue
  MaxActor,                   \* bound: registrations, of any key
  Caller,                     \* bound: concurrent callers of send and set_peer
  MayClose                    \* whether the tunnel may be dropped

ASSUME RouterAssumption ==
  /\ PEER_ACTION_QUEUE_CAPACITY \in Nat \ {0}
  /\ MaxActor \in Nat /\ MayClose \in BOOLEAN
  /\ Key \cap Index = {}

VARIABLES
  tunnel,   \* whether the Tunnel handle is alive
  owner,    \* the key each actor was spawned for, in order of registration
  registry, \* RoutingTable.peers: key -> actor, 0 when absent
  opening,  \* actors whose add_peer still waits to queue the endpoint
  removing, \* actors out of the registry whose Purge is not sent yet
  control,  \* the control queue
  indices,  \* IndexRouter.indices: index -> actor, 0 when absent
  loop,     \* what the read loop polls next, "control" or "socket", or "ended"
  drawn,    \* actor -> indices it ever drew
  held,     \* actor -> indices its machine answers to
  queue,    \* actor -> number of queued actions
  call,     \* caller -> where its call is, and the actor it is about
  stopped,  \* actors whose task returned
  wire      \* what arrived at the socket: indices addressed, keys initiating

tables == <<tunnel, owner, registry, opening, removing>>

vars == <<tables, control, indices, loop, drawn, held, queue, call, stopped, wire>>

Actors == 1 .. Len(owner)

Live == Actors \ stopped

Init ==
  /\ tunnel = TRUE
  /\ owner = <<>>
  /\ registry = [k \in Key |-> 0]
  /\ opening = {} /\ removing = {}
  /\ control = <<>>
  /\ indices = [i \in Index |-> 0]
  /\ loop = "control"
  /\ drawn = <<>> /\ held = <<>> /\ queue = <<>>
  /\ call = [c \in Caller |-> [at |-> "idle", actor |-> 0]]
  /\ stopped = {}
  /\ wire = {}

-----------------------------------------------------------------------------
(* Handles.                                                                *)

\* Mutant: the queue is not bounded.
SendAnyway(queued, n) == queued + n

\* try_send of n actions: what a full queue cannot take is dropped.
TrySend(queued, n) ==
  IF queued + n <= PEER_ACTION_QUEUE_CAPACITY THEN queued + n
  ELSE PEER_ACTION_QUEUE_CAPACITY

Registered(a) == registry[owner[a]] = a

\* The registry is still there for a weak reference to it.
TableAlive == tunnel \/ loop # "ended" \/ removing # {}

Waiting(c, a) == call[c].at \in {"send", "set_peer"} /\ call[c].actor = a

\* Someone holds a strong reference to the entry, so a handle's weak one
\* can be upgraded: the registry, add_peer and remove_peer until they
\* return, or a caller that waits.
EntryAlive(a) ==
  \/ Registered(a) /\ TableAlive
  \/ a \in opening \cup removing
  \/ \E c \in Caller : Waiting(c, a)

\* Tunnel::add_peer: register_peer under the write lock, then actor::spawn.
\* With a configured endpoint it goes on to wait in connect.
AddPeer(k) ==
  /\ tunnel
  /\ registry[k] = 0
  /\ Len(owner) < MaxActor
  /\ owner' = Append(owner, k)
  /\ registry' = [registry EXCEPT ![k] = Len(owner')]
  /\ opening' \in {opening, opening \cup {Len(owner')}}
  /\ drawn' = Append(drawn, {}) /\ held' = Append(held, {})
  /\ queue' = Append(queue, 0)
  /\ UNCHANGED <<tunnel, removing, control, indices, loop, call, stopped, wire>>

\* The endpoint is queued and add_peer returns the Peer.
FinishAdd(a) ==
  /\ a \in opening
  /\ queue[a] < PEER_ACTION_QUEUE_CAPACITY
  /\ queue' = [queue EXCEPT ![a] = @ + 1]
  /\ opening' = opening \ {a}
  /\ UNCHANGED <<tunnel, owner, registry, removing, control, indices, loop, drawn,
                 held, call, stopped, wire>>

\* Mutant: the routes of the removed peer are not purged.
RemoveUnpurged(k) ==
  /\ TableAlive /\ registry[k] # 0
  /\ registry' = [registry EXCEPT ![k] = 0]
  /\ opening' = opening \ {registry[k]}
  /\ UNCHANGED <<tunnel, owner, removing, control, indices, loop, drawn, held, queue,
                 call, stopped, wire>>

\* Peer::drop, also that of an add_peer cancelled while it waits, and
\* RoutingTable::remove_peer up to the release of the write lock
RemovePeer(k) ==
  /\ TableAlive
  /\ registry[k] # 0
  /\ registry' = [registry EXCEPT ![k] = 0]
  /\ opening' = opening \ {registry[k]}
  /\ removing' = removing \cup {registry[k]}
  /\ UNCHANGED <<tunnel, owner, control, indices, loop, drawn, held, queue, call,
                 stopped, wire>>

\* The receiver of the control queue goes with the read loop.
Sent(m) == IF loop = "ended" THEN control ELSE Append(control, m)

\* RoutingTable::remove_peer, the rest
SendPurge(a) ==
  /\ a \in removing
  /\ removing' = removing \ {a}
  /\ control' = Sent([do |-> "Purge", actor |-> a])
  /\ UNCHANGED <<tunnel, owner, registry, opening, indices, loop, drawn, held, queue,
                 call, stopped, wire>>

\* Tunnel::drop.  add_peer and set_peer borrow the tunnel.
DropTunnel ==
  /\ MayClose /\ tunnel
  /\ opening = {} /\ \A c \in Caller : call[c].at # "set_peer"
  /\ tunnel' = FALSE
  /\ UNCHANGED <<owner, registry, opening, removing, control, indices, loop, drawn,
                 held, queue, call, stopped, wire>>

Called(c, at, a) ==
  /\ call' = [call EXCEPT ![c] = [at |-> at, actor |-> a]]
  /\ UNCHANGED <<tables, control, indices, loop, drawn, held, stopped, wire>>

Calling(c) == call[c].at \in {"send", "set_peer", "lost"}

\* Mutant: entry looks for the tunnel first, then for the entry.
EntryRouterFirst(c, a) ==
  \/ /\ ~Calling(c)
     /\ Called(c, IF TableAlive THEN "lost" ELSE "TunnelClosed", a)
     /\ UNCHANGED queue
  \/ /\ call[c].at = "lost" /\ call[c].actor = a
     /\ Called(c, IF EntryAlive(a) THEN "send" ELSE "PeerRemoved", a)
     /\ UNCHANGED queue

\* PeerSender::entry: the entry, or else the registry, is looked for.  send
\* and connect then wait for capacity with the entry in hand.
Entry(c, a) ==
  \/ /\ ~Calling(c)
     /\ Called(c, IF EntryAlive(a) THEN "send" ELSE "lost", a)
     /\ UNCHANGED queue
  \/ /\ call[c].at = "lost" /\ call[c].actor = a
     /\ Called(c, IF TableAlive THEN "PeerRemoved" ELSE "TunnelClosed", a)
     /\ UNCHANGED queue

\* PeerSender::try_send with the entry in hand; a full queue is an error.
TrySendData(c, a) ==
  /\ ~Calling(c) /\ EntryAlive(a)
  /\ Called(c, IF queue[a] < PEER_ACTION_QUEUE_CAPACITY THEN "Ok" ELSE "Full", a)
  /\ queue' = [queue EXCEPT ![a] = TrySend(@, 1)]

\* RoutingTable::set_peer, through the tunnel.  For a key that is not
\* registered it fails and changes nothing, a stuttering step.
SetPeer(c, k) ==
  /\ tunnel /\ ~Calling(c) /\ registry[k] # 0
  /\ Called(c, "set_peer", registry[k])
  /\ UNCHANGED queue

FinishCall(c) ==
  /\ call[c].at \in {"send", "set_peer"}
  /\ queue[call[c].actor] < PEER_ACTION_QUEUE_CAPACITY
  /\ queue' = [queue EXCEPT ![call[c].actor] = @ + 1]
  /\ Called(c, "Ok", call[c].actor)

-----------------------------------------------------------------------------
(* Actors.                                                                 *)

Post(a, do, i) ==
  control' = Sent([do |-> do, key |-> owner[a], index |-> i])

\* bind_index, before the message that carries the index leaves
BindIndex(a, i) ==
  /\ a \in Live
  /\ i \notin drawn[a]
  /\ drawn' = [drawn EXCEPT ![a] = @ \cup {i}]
  /\ held' = [held EXCEPT ![a] = @ \cup {i}]
  /\ Post(a, "Bind", i)
  /\ UNCHANGED <<tables, indices, loop, queue, call, stopped, wire>>

\* retire_index
RetireIndex(a, i) ==
  /\ a \in Live
  /\ i \in held[a]
  /\ held' = [held EXCEPT ![a] = @ \ {i}]
  /\ Post(a, "Retire", i)
  /\ UNCHANGED <<tables, indices, loop, drawn, queue, call, stopped, wire>>

\* An iteration of run that takes an action from the queue
HandleAction(a) ==
  /\ a \in Live
  /\ queue[a] > 0
  /\ queue' = [queue EXCEPT ![a] = @ - 1]
  /\ UNCHANGED <<tables, control, indices, loop, drawn, held, call, stopped, wire>>

\* Some sender of the actor's channel is left: in the entry, in a route, or
\* in a Purge.
SenderAlive(a) ==
  \/ EntryAlive(a)
  \/ \E i \in Index : indices[i] = a
  \/ [do |-> "Purge", actor |-> a] \in Range(control)

\* run: recv_many returned 0, the channel is closed and drained
Stop(a) ==
  /\ a \in Live
  /\ queue[a] = 0 /\ ~SenderAlive(a)
  /\ stopped' = stopped \cup {a}
  /\ UNCHANGED <<tables, control, indices, loop, drawn, held, queue, call, wire>>

-----------------------------------------------------------------------------
(* The read loop.                                                          *)

Bind(map, m) ==
  IF registry[m.key] # 0 /\ map[m.index] = 0
  THEN [map EXCEPT ![m.index] = registry[m.key]]
  ELSE map

\* Mutant: the channel of the route is not compared.
RetireAny(map, m) ==
  IF registry[m.key] # 0 THEN [map EXCEPT ![m.index] = 0] ELSE map

Retire(map, m) ==
  IF registry[m.key] # 0 /\ map[m.index] = registry[m.key]
  THEN [map EXCEPT ![m.index] = 0]
  ELSE map

\* Mutant: the routes of the key are dropped, not those of the channel.
PurgeKey(map, m) ==
  [i \in Index |->
    IF map[i] # 0 /\ owner[map[i]] = owner[m.actor] THEN 0 ELSE map[i]]

\* Mutant: the channel is looked up by key when the Purge is applied.
PurgeRegistered(map, m) ==
  [i \in Index |-> IF map[i] = registry[owner[m.actor]] THEN 0 ELSE map[i]]

Purge(map, m) == [i \in Index |-> IF map[i] = m.actor THEN 0 ELSE map[i]]

\* IndexRouter::apply.  The registry is read once under its lock and the
\* rest touches only what the read loop owns, so it is one step.
ApplyControl ==
  /\ loop = "control"
  /\ control # <<>>
  /\ control' = Tail(control)
  /\ LET m == Head(control)
     IN  indices' = CASE m.do = "Bind"   -> Bind(indices, m)
                      [] m.do = "Retire" -> Retire(indices, m)
                      [] m.do = "Purge"  -> Purge(indices, m)
  /\ UNCHANGED <<tables, loop, drawn, held, queue, call, stopped, wire>>

\* The biased select found the control queue empty and polls the socket.
PollSocket ==
  /\ loop = "control"
  /\ control = <<>>
  /\ loop' = "socket"
  /\ UNCHANGED <<tables, control, indices, drawn, held, queue, call, stopped, wire>>

\* The actor a datagram is handed to: by key for an initiation, by index
\* for the rest.  0 when there is none.
Target(d) == IF d \in Key THEN registry[d] ELSE indices[d]

\* A batch from the socket.
ReceiveBatch ==
  /\ loop = "socket"
  /\ loop' = "control"
  /\ wire' = {}
  /\ queue' = [a \in Actors |->
       TrySend(queue[a], Cardinality({d \in wire : Target(d) = a}))]
  /\ UNCHANGED <<tables, control, indices, drawn, held, call, stopped>>

ReadLoop == ApplyControl \/ PollSocket \/ ReceiveBatch

\* The abort of the tunnel's drop takes effect: the loop's index map and the
\* control queue go with it.
AbortLoop ==
  /\ ~tunnel /\ loop # "ended"
  /\ loop' = "ended"
  /\ control' = <<>>
  /\ indices' = [i \in Index |-> 0]
  /\ UNCHANGED <<tables, drawn, held, queue, call, stopped, wire>>

\* A datagram reaches the socket: an initiation from a peer, or a message to
\* an index that some actor put on the wire.
Arrive(d) ==
  /\ d \in Key \/ \E a \in Actors : d \in drawn[a]
  /\ d \notin wire /\ loop # "ended"
  /\ wire' = wire \cup {d}
  /\ UNCHANGED <<tables, control, indices, loop, drawn, held, queue, call, stopped>>

Next ==
  \/ DropTunnel
  \/ \E k \in Key : AddPeer(k) \/ RemovePeer(k)
  \/ \E c \in Caller :
       \/ FinishCall(c)
       \/ \E k \in Key : SetPeer(c, k)
       \/ \E a \in Actors : Entry(c, a) \/ TrySendData(c, a)
  \/ \E a \in Actors :
       \/ FinishAdd(a)
       \/ SendPurge(a)
       \/ HandleAction(a)
       \/ Stop(a)
       \/ \E i \in Index : BindIndex(a, i) \/ RetireIndex(a, i)
  \/ ReadLoop \/ AbortLoop
  \/ \E d \in Key \cup Index : Arrive(d)

\* Tasks are scheduled fairly: the read loop and its abort, the thread that
\* removes a peer, each actor, and each caller whose queue has room.
Fairness ==
  /\ WF_vars(ReadLoop) /\ WF_vars(AbortLoop)
  /\ \A a \in 1 .. MaxActor :
       /\ WF_vars(a \in Actors /\ SendPurge(a))
       /\ WF_vars(a \in Actors /\ (HandleAction(a) \/ Stop(a)))
  /\ \A c \in Caller : SF_vars(FinishCall(c))

Spec == Init /\ [][Next]_vars /\ Fairness

-----------------------------------------------------------------------------
(* Properties.                                                             *)

\* The maps are well typed, and a key's entry is an actor of that key,
\* which runs as long as the tunnel does.
TypeOK ==
  /\ owner \in Seq(Key) /\ Len(owner) <= MaxActor
  /\ \A k \in Key :
       registry[k] # 0 =>
         owner[registry[k]] = k /\ (TableAlive => registry[k] \in Live)
  /\ removing \subseteq Live /\ opening \subseteq Live
  /\ \A i \in Index : indices[i] \in {0} \cup Actors
  /\ \A a \in Actors :
       /\ held[a] \subseteq drawn[a] /\ drawn[a] \subseteq Index
       /\ queue[a] \in 0 .. PEER_ACTION_QUEUE_CAPACITY
  /\ loop \in {"control", "socket", "ended"}

\* A bind that loses the race with a removal plants no lasting route to the
\* dead actor: a route to an unregistered actor has a Purge on its way.
NoDeadRoute ==
  \A i \in Index :
    LET a == indices[i]
    IN  a # 0 /\ ~Registered(a) =>
          a \in removing \/ [do |-> "Purge", actor |-> a] \in Range(control)

\* An earlier or later actor of the same key drew the index too.  Binds and
\* retirements name the key, so the two cannot be told apart.
SharedWithKin(a, i) ==
  \E b \in Actors \ {a} : owner[b] = owner[a] /\ i \in drawn[b]

\* A route that a registered actor still answers to stays with it: neither
\* the actor of another key that draws the same index, nor its retirement
\* of it, nor the removal of the actor's predecessor takes it away; only the
\* end of the read loop does.
RouteKept ==
  [][\A i \in Index :
       LET a == indices[i]
       IN  a # 0 /\ Registered(a) /\ i \in held[a] /\ ~SharedWithKin(a, i) =>
             indices'[i] = a \/ loop' = "ended"]_vars

\* Once the control queue is drained, every index that a registered actor
\* answers to, and that no other actor ever drew, is routed to it.
HeldIsRouted ==
  control = <<>> /\ loop # "ended" =>
    \A a \in Actors : \A i \in held[a] :
      Registered(a) /\ (\A b \in Actors \ {a} : i \notin drawn[b]) =>
        indices[i] = a

\* A caller's error names its cause: TunnelClosed only after the tunnel was
\* dropped, PeerRemoved only for a peer that was removed.
ErrorNamesCause ==
  \A c \in Caller :
    /\ call[c].at = "TunnelClosed" => ~tunnel
    /\ call[c].at = "PeerRemoved" => ~Registered(call[c].actor)

\* The actor of a removed peer, and every actor of a dropped tunnel, stops
\* in the end, and ready() with it, unless calls that overlap keep its entry
\* for ever.
OrphanStops ==
  \A a \in 1 .. MaxActor :
    []<>(\A c \in Caller : ~Waiting(c, a)) =>
      ((a \in Actors /\ (~tunnel \/ ~Registered(a))) ~> (a \in stopped))

\* What read_loop says of its biased select: an answer to a message that is
\* on the wire finds the route of its index.
ReplyIsRouted ==
  loop = "socket" =>
    \A a \in Actors : \A i \in held[a] \cap wire :
      Registered(a) => indices[i] # 0
=============================================================================
