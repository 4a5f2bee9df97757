------------------------------- MODULE Device -------------------------------
(***************************************************************************)
(* The device of tunstile/src/lib.rs: its peers, their AllowedIPs, and the *)
(* packets it routes to them and accepts from them.  A call that changes   *)
(* the device borrows it, so no other call runs beside it, but it may wait *)
(* for the tunnel and be cancelled there.  The tunnel's actors run beside  *)
(* it and put packets into its bounded inbound queue, those of a removed   *)
(* peer's actor included, until that actor has stopped (Router).           *)
(*                                                                         *)
(* A peer's handle is the number of its registration: a handle from an     *)
(* earlier registration of the same key sends nothing.                     *)
(***************************************************************************)
EXTENDS AllowedIps

CONSTANTS
  Key,                    \* public keys of peers
  Given,                  \* prefixes that configurations name
  INBOUND_QUEUE_CAPACITY,
  MaxNets,                \* bound: prefixes in one configuration
  MaxRegistration         \* bound: calls of add_peer

ASSUME DeviceAssumption ==
  /\ ADDR_BITS \in Nat
  /\ Given \subseteq IpNet
  /\ INBOUND_QUEUE_CAPACITY \in Nat \ {0}
  /\ MaxNets \in Nat /\ MaxRegistration \in Nat

VARIABLES
  peers,         \* key -> number of its registration, 0 when absent
  tunnel,        \* the tunnel's registry: key -> registration, 0 when absent
  waiting,       \* the call that waits for the tunnel, or Nothing
  registrations, \* the keys that were registered, in order
  allowed_ips,   \* entries of the routing table
  inbound,       \* packets of the tunnel that were not received yet
  request,       \* history: the last call that changed the table
  outcome        \* history: what the last packet call did

vars == <<peers, tunnel, waiting, registrations, allowed_ips, inbound, request, outcome>>

None == "none"

Nothing == [did |-> None]

Init ==
  /\ peers = [k \in Key |-> 0] /\ tunnel = peers /\ waiting = Nothing
  /\ registrations = <<>>
  /\ allowed_ips = <<>>
  /\ inbound = <<>>
  /\ request = [op |-> None]
  /\ outcome = Nothing

\* The allowed_ips of a configuration.
Allowed == UNION {[1 .. n -> Given] : n \in 0 .. MaxNets}

\* The sender a call clones for its prefixes.
Handle(k) == [key |-> k, registration |-> tunnel[k]]

InsertAll(entries, nets, handle) ==
  LET after[i \in 0 .. Len(nets)] ==
        IF i = 0 THEN entries ELSE insert(after[i - 1], nets[i], handle)
  IN  after[Len(nets)]

\* The call is recorded with the prefixes it means.
Record(op, k, nets) ==
  /\ request' = [op |-> op, key |-> k, nets |-> {trunc(net) : net \in Range(nets)}]
  /\ outcome' = Nothing

-----------------------------------------------------------------------------
Idle == waiting = Nothing

Wait(op, k) == waiting' = [did |-> op, key |-> k] /\ outcome' = Nothing

Waiting(op, k) == waiting = [did |-> op, key |-> k]

\* add_peer up to the wait of the tunnel's add_peer, which has registered
\* the peer.  The prefixes are arguments of the call; nothing looks at them
\* before the wait is over.
add_peer(k) ==
  /\ Idle /\ peers[k] = 0
  /\ Len(registrations) < MaxRegistration
  /\ registrations' = Append(registrations, k)
  /\ tunnel' = [tunnel EXCEPT ![k] = Len(registrations')]
  /\ Wait("add", k)
  /\ UNCHANGED <<peers, allowed_ips, inbound, request>>

add_peer_done(k, nets) ==
  /\ Waiting("add", k) /\ waiting' = Nothing
  /\ peers' = [peers EXCEPT ![k] = tunnel[k]]
  /\ allowed_ips' = InsertAll(allowed_ips, nets, Handle(k))
  /\ Record("add", k, nets)
  /\ UNCHANGED <<tunnel, registrations, inbound>>

\* Mutant: the prefixes are released before the tunnel is told.
ReleaseFirst(k) ==
  /\ Idle /\ peers[k] # 0
  /\ Wait("set", k)
  /\ allowed_ips' = retain(allowed_ips, k)
  /\ UNCHANGED <<peers, tunnel, registrations, inbound, request>>

\* set_peer up to the wait for a place in the actor's queue
set_peer(k) ==
  /\ Idle /\ peers[k] # 0
  /\ Wait("set", k)
  /\ UNCHANGED <<peers, tunnel, registrations, allowed_ips, inbound, request>>

\* The update is queued.  allowed_ips: Set(nets), or Clear when there are
\* none.  Keep changes nothing.
set_peer_done(k, nets) ==
  /\ Waiting("set", k) /\ waiting' = Nothing
  /\ allowed_ips' = InsertAll(retain(allowed_ips, k), nets, Handle(k))
  /\ Record("set", k, nets)
  /\ UNCHANGED <<peers, tunnel, registrations, inbound>>

\* Mutant: the peer of a cancelled add_peer stays registered.
CancelUndropped ==
  /\ ~Idle /\ waiting' = Nothing
  /\ UNCHANGED <<peers, tunnel, registrations, allowed_ips, inbound, request, outcome>>

\* The caller drops the future of the call that waits; with add_peer's goes
\* the Peer, which unregisters it.
Cancel ==
  /\ ~Idle /\ waiting' = Nothing
  /\ tunnel' = IF waiting.did = "add" THEN [tunnel EXCEPT ![waiting.key] = 0] ELSE tunnel
  /\ UNCHANGED <<peers, registrations, allowed_ips, inbound, request, outcome>>

remove_peer(k) ==
  /\ Idle /\ peers[k] # 0
  /\ peers' = [peers EXCEPT ![k] = 0]
  /\ tunnel' = [tunnel EXCEPT ![k] = 0]
  /\ allowed_ips' = retain(allowed_ips, k)
  /\ Record("remove", k, <<>>)
  /\ UNCHANGED <<waiting, registrations, inbound>>

\* send_packet and try_send_packet: the handle a packet is given to.  The
\* handle of an earlier registration fails with PeerRemoved.
send_packet(destination) ==
  /\ Idle
  /\ \E handle \in longest_match(allowed_ips, destination) :
       outcome' = IF tunnel[handle.key] = handle.registration
                  THEN [did |-> "send", key |-> handle.key, addr |-> destination]
                  ELSE [did |-> "fail"]
  /\ UNCHANGED <<peers, tunnel, waiting, registrations, allowed_ips, inbound, request>>

\* An actor delivers a decrypted packet, or drops it when the queue is full.
TunnelDelivers(k, source) ==
  /\ k \in Range(registrations)
  /\ Len(inbound) < INBOUND_QUEUE_CAPACITY
  /\ inbound' = Append(inbound, [key |-> k, source |-> source])
  /\ UNCHANGED <<peers, tunnel, waiting, registrations, allowed_ips, request, outcome>>

\* An iteration of recv_packet: the source must route back to the sender.
recv_packet ==
  /\ Idle /\ inbound # <<>>
  /\ inbound' = Tail(inbound)
  /\ LET p == Head(inbound)
         valid_source == \E handle \in longest_match(allowed_ips, p.source) :
                           handle.key = p.key
     IN  outcome' = IF valid_source
                    THEN [did |-> "recv", key |-> p.key, addr |-> p.source]
                    ELSE Nothing
  /\ UNCHANGED <<peers, tunnel, waiting, registrations, allowed_ips, request>>

Next ==
  \/ \E k \in Key :
       \/ add_peer(k) \/ set_peer(k) \/ remove_peer(k)
       \/ \E nets \in Allowed :
            add_peer_done(k, nets) \/ set_peer_done(k, nets)
       \/ \E source \in Address : TunnelDelivers(k, source)
  \/ \E destination \in Address : send_packet(destination)
  \/ recv_packet \/ Cancel

Spec == Init /\ [][Next]_vars

-----------------------------------------------------------------------------
(* Properties.                                                             *)

\* The owner of a prefix in the table.
Owner(net) ==
  LET keys == {e.value.key : e \in {e \in Range(allowed_ips) : e.net = net}}
  IN  IF keys = {} THEN None ELSE CHOOSE k \in keys : TRUE

\* The prefixes that matter.
Named == {trunc(net) : net \in Given}

Routes == INSTANCE CryptokeyRouting WITH
            Net <- Named, owner <- [net \in Named |-> Owner(net)],
            registered <- {k \in Key : peers[k] # 0}

\* The vector implements cryptokey routing: the last claim of a prefix wins,
\* replacing or removing a peer releases all of its prefixes and no one
\* else's, and a call that is cancelled changes nothing.
ImplementsRouting == Routes!Spec

\* The state is well typed, a registration is a number of its key, the
\* vector holds each prefix at most once, and the queue keeps its bound.
TypeOK ==
  /\ peers \in [Key -> Nat] /\ tunnel \in [Key -> Nat]
  /\ registrations \in Seq(Key)
  /\ waiting \in {Nothing} \cup [did : {"add", "set"}, key : Key]
  /\ \A k \in Key : tunnel[k] # 0 =>
       tunnel[k] \in DOMAIN registrations /\ registrations[tunnel[k]] = k
  /\ \A e \in Range(allowed_ips) : e.net \in Prefix /\ e.value.key \in Key
  /\ \A i, j \in DOMAIN allowed_ips : allowed_ips[i].net = allowed_ips[j].net => i = j
  /\ inbound \in Seq([key : Key, source : Address])
  /\ Len(inbound) <= INBOUND_QUEUE_CAPACITY

\* The device's peers are those the tunnel has registered, whatever call was
\* cancelled, so a key that is not a peer can be added.
PeersAgree == Idle => tunnel = peers

\* No route leads to the handle of an earlier registration, so a routed
\* packet is never refused because its peer is gone.
HandlesAreCurrent ==
  \A e \in Range(allowed_ips) : tunnel[e.value.key] = e.value.registration

\* The key that owns the most specific prefix of an address.
Routed(k, addr) ==
  \E net \in Named :
    /\ contains(net, addr) /\ Owner(net) = k
    /\ \A other \in Named :
         contains(other, addr) /\ other.len > net.len => Owner(other) = None

\* A packet is sent to, and accepted from, only the peer that owns the most
\* specific prefix of its address, even when it was queued before the
\* prefixes changed.
TrafficFollowsRoutes ==
  [][outcome' # outcome /\ outcome'.did \in {"send", "recv"} =>
       Routed(outcome'.key, outcome'.addr)]_vars
=============================================================================
