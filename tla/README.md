# Verification of tunstile

TLA+ models of tunstile, a userspace WireGuard implementation in Rust, with the
TLC configurations that check them and TLAPS proofs about most of them. Paths are
relative to the repository.

## The system

| part | state | operations | what makes it hard |
|---|---|---|---|
| replay filter (`protocol/src/transport.rs`) | highest counter, ring of bit blocks | `validate` | jumps around a lap of the ring, the limit |
| handshake (`protocol/src/handshake.rs`) | type state of one Noise IKpsk2 run | `initiate`, `receive`, `respond`, `response_received`, `finish` | duplicated and crossed messages |
| peer machine (`protocol/src/peer.rs`, `peer/session.rs`) | pending handshake; `current`, `next`, `previous` sessions; last timestamp; endpoint | `initiate`, `abandon_handshake`, `respond`, `handshake_response`, `encrypt`, `decrypt`, setters | rotation of slots, two ends that disagree about age |
| cookies and load guard (`protocol/src/cookies.rs`, `peer/load.rs`) | last cookie and mac1; secret, window, count | `add_macs`, `process_cookie_reply`, `check`, rotation | late cookies, fixed windows |
| peer actor (`tunnel/src/actor.rs`) | attempt, session timers, staged packets | message handlers, five timers | timers that race answers, failing sends |
| registry, index router, read loop (`tunnel/src/router.rs`, `lib.rs`, `peer.rs`) | registry, index map, control queue, action queues | `add_peer`, `remove_peer`, `Bind`, `Retire`, `Purge`, `send` | threads that race, re-registration |
| device (`tunstile/src/lib.rs`, `allowed_ips.rs`) | peers, AllowedIPs, inbound queue | `add_peer`, `set_peer`, `remove_peer`, `send_packet`, `recv_packet` | prefixes that change hands, cancelled calls |
| data path (`tunstile/src/lib.rs`, `tunnel/src/actor.rs`, `lib.rs`, `socket.rs`) | queues, staged packets, batches, buffers | padding, `flush_sends`, splitting of buffers | lengths at the edges, full queues, exhausted sessions |
| binary (`tunstile/src/bin/tunstile.rs`) | what the file said, how far `main` is | `parse_config`, bring-up, `run_packets` | order and repetition of keys and sections |

The device gives packets to a peer's actor; the actor drives the peer machine and
sends to the socket; the read loop gives datagrams to actors by receiver index, or
by public key for initiations, after the load guard admitted them. Decrypted
packets return through one bounded queue.

## Modules

| module | models | proofs in |
|---|---|---|
| `CounterWindow`, `ReplayWindow` | what duplicate detection promises (abstract) | |
| `ReplayFilter` | the ring | `ReplayFilterProofs` |
| `NoiseIK` | the handshake as terms over hash, key derivation and sealing | |
| `Handshake` | the same, reduced to what was mixed | |
| `PeerMachine` | each method of `Peer` as an operator on a record | |
| `PeerPair` | two peer machines, a lossy duplicating network, an arbitrary driver | `PeerPairProofs` |
| `PeerPairEffects` | what each step of `PeerPair` does to the slots, for the proofs | |
| `PeerPairNoise` | compares `PeerPair` with `NoiseIK` | |
| `PeerDriver` | each handler and timer of the actor as an operator on a record | |
| `PeerActor` | one driver against any remote and a socket that fails | `PeerActorProofs` |
| `TunnelPair` | two drivers against each other, with losses and restarts | |
| `Router` | handles, callers, actors and the read loop as processes, and the end of the tunnel | `RouterProofs` |
| `Cookies` | generator, verifier, load guard, secret rotation | `CookiesProofs` |
| `CryptokeyRouting` | what AllowedIPs promise (abstract) | |
| `AllowedIps`, `Device` | the prefix vector and the device, whose calls may be cancelled | `DeviceProofs` |
| `PacketLength` | length checks, truncation and padding | `DataPathProofs` |
| `DataPath` | the way of a packet from one interface to the other | `DataPathProofs` |
| `ConfigFile` | `parse_config` line by line, and what a file means | |
| `Tunstile` | `main`: file, device, peers, then the data path | `TunstileProofs` |

`MC*` modules and configurations are the instances. An `Option` is a set of at
most one element. Operators marked "Mutant" are plausible mistakes in the
definition that follows; replacing it by the mutant must break a property.

How the models fit together:

- `PeerPair` replaces the filter of a session by the set of accepted counters,
  which `ReplayFilter` is proved to implement.
- `Handshake` is used where handshakes interleave; `NoiseAgrees` checks, in every
  state of `session_age`, that it opens exactly what the terms of `NoiseIK` open
  and that the two ends derive matching keys.
- `PeerPair` leaves the timing of calls open, so its safety results do not depend
  on the driver. `PeerDriver` in turn keeps which slots are filled, their ages and
  the send count. `PeerActor` and `TunnelPair` are built on this one module. That
  the driver's slots are those of `PeerMachine` is an argument, not a check.
- `Router` counts queued actions; `DataPath` keeps them as a sequence.
- In `DataPath` the loops of `flush_sends` and `read_loop` take one step for each
  batch and each segment, so the far end runs in between. `flush_sends` reads the
  clock once: a session does not expire while it runs.

## Runs

| run | distinct states | shows |
|---|---|---|
| `replay_filter` | 114,689 | the ring answers as the unbounded set would: `ImplementsWindow`, `RingExact` |
| `session_rotation` | 425,642 | routed indices are those held (`RoutedExactly`), no nonce twice (`NonceFresh`), keys pair up (`PairedSessions`), `NoRedelivery`, `AnsweredOnce` |
| `session_age` | 509,880 | `AcceptedIsRecent`, `KeyConfirmed`, `NoiseAgrees` |
| `index_routing` | 861,592 | no lasting route to a removed actor (`NoDeadRoute`), `HeldIsRouted`, `RouteKept` |
| `tunnel_lifecycle` | 38,216 | errors name their cause (`ErrorNamesCause`); liveness: `OrphanStops` |
| `actor_timers` | 99,304 | driver and machine agree (`AttemptIsPending`, `SendsAreTimed`, `StagedWaits`), timers do not spin (`NoSpin`), staged packets are not forgotten (`PursuitIsKept`), deadlines are kept (`RetransmitsOnTime`, `SilenceDeadlineKept`); liveness: `AttemptEnds`, `StagedLeaves` |
| `tunnel_recovery` | 344,992 | after losses and restarts packets get through in bounded time (`RecoversInTime`); a working session is not given up (`NoNeedlessHandshake`) |
| `load_guard` | 287,208 | `UnprovenRate`, `AcceptedCookieIsRecent`, secrets are replaced in time and not too soon (`SecretsAreSpaced`) |
| `cryptokey_routing` | 66,530 | `ImplementsRouting`, `HandlesAreCurrent`, `PeersAgree`, `TrafficFollowsRoutes` |
| `packet_path` | 116,853 | `ConfigMeansFile`; packets cross in order, whole and accounted for: `InOrder`, `NothingVanishes`, `OldestIsDropped`, `LengthRestored`, `SendFits` |

Two runs end in a violation: the property states a comment, the code does less.

- `reply_before_bind`: the comment in `read_loop` says that applying binds first
  guarantees that a reply can be routed. A bind and its reply that arrive between
  the poll of the control queue and the poll of the socket lose the reply. The
  handshake is retransmitted.
- `zero_keepalive`: the comment on `last_send` says that it is advanced "so the timer
  never spins". With a persistent keepalive of zero, which the library takes and only
  the parser of the binary refuses, `last_send + interval` is due the moment it is
  set. `NoSpin` holds in all other cases.

Two more observations, which are not runs of their own:

- A packet sent before an endpoint is known stays staged. An initiation of the remote
  makes the endpoint known, but `RecvHandshakeInit` starts no handshake for what is
  staged. If the remote never confirms the session, it expires, and the packets stay
  staged with an endpoint and nothing in flight until another send or message.
  `PursuitIsKept` says that this is the only way: no message, call or timer leaves
  staged packets unpursued, only the passing of time over an unconfirmed session.
- The secret is replaced every `COOKIE_REFRESH_INTERVAL` and the old one is not kept
  (`SecretsAreSpaced`), so a cookie issued late in the life of a secret is refused
  sooner than that. "How long a cookie stays usable", as the constant is documented,
  is an upper bound (`AcceptedCookieIsRecent`).

Two bounds are worth knowing. `RecoversInTime` allows one `KEEPALIVE_TIMEOUT` more
than the silence deadline: a packet that the remote owes on a session it still
has, and that opens here as the previous one, clears the deadline once
(`actor.rs`, `RecvData`). `NoNeedlessHandshake` excepts a remote that answers on a
session this end lost by a restart.

Some choices of the models are worth knowing, too. A peer's key may be one whose
Diffie-Hellman secret is not contributory: `initiate` then fails after the attempt was
noted, the actor keeps the attempt and its retry, and nothing is pending
(`AttemptIsPending`). `SendFits` holds sends to the 65,535 bytes that
`max_batch_segments` counts; what an IPv4 socket takes at once is its header less
(`MAX_IPV4_UDP_PAYLOAD_SIZE`, 65,507), which is the kernel's matter and appears in the
model as a send that fails. `set_peer` of the tunnel on a removed peer returns an error
and changes nothing, a stuttering step of `Router`.

### Bounds

- Replay filter: three blocks of two bits, counters to 13; more than two laps, so
  every kind of jump occurs.
- Peer pair: `session_rotation` has three handshakes per node, enough to fill and
  empty every slot, both nodes initiating, one re-registration, one pre-shared key
  and no time. `session_age` has two handshakes per node, one initiator, four ticks
  with `REJECT_AFTER_TIME = 2` (the two ends may start a session a tick apart), one
  re-registration and two pre-shared keys. Both allow one message per key and
  direction; reordering among several messages of a session is covered only by the
  replay filter's run and proof. Crossed initiations are not checked with time.
- Router: one index, so that actors collide on it, and queues of one.
  `index_routing` has two keys, two registrations and no callers;
  `tunnel_lifecycle` has one registration, two callers that may overlap and a
  tunnel that may be dropped.
- Actor: limits of a few ticks in the order of the real ones where that matters:
  `REKEY_AFTER_TIME < REJECT_AFTER_TIME`, a timeout of two ticks that is
  retransmitted once before an attempt is given up, batches of two payloads, a
  session of three messages, a persistent keepalive of one tick or none; zero is the
  matter of `zero_keepalive` and of the proofs. A limit at which the first message
  of a session already asks for the next handshake would let attempts follow each
  other without a pause. Jitter is 0 here and in the tunnel pair, because it is
  drawn below `REKEY_TIMEOUT_JITTER_MAX = 1`; 0 is the tightest case for
  `NoNeedlessHandshake`.
- Tunnel pair: two faults (lost messages or restarts) before the calm, one sender,
  both ends configured, sessions that outlive an attempt. Messages are not counted
  and there is no persistent keepalive: it would only add traffic.
- Cookies: two handshakes of one initiator, six ticks. `MaxLoad` bounds the count,
  so overflow of the `u32` is not covered.
- Device: two keys, three registrations, four prefixes, one-bit addresses, an
  inbound queue of one.
- Data path: three packets, so that queue, staging and batches of two overflow, a
  session of two messages, two segments in a send; lengths around the headers, the
  multiple of 16, an MTU that cuts the padding short, one that cuts a packet short
  and one above the largest payload, under which lengths mix. One message without a
  packet is under way at a time (`Quiet`), from the sender to the far actor: without
  that bound keepalives alone would fill the queues. Files have up to three sections,
  or two when one is faulty: repeated, misplaced and bad lines, lists where one value
  belongs, keepalives of 0, 65,534, 65,535 and 65,537.

`CHECK_DEADLOCK FALSE` is set where a bound ends the behaviour (`PeerPair`,
`Cookies`), where the tunnel is dropped and everything stops (`tunnel_lifecycle`),
and where the program ends (`packet_path`).

### Fairness

- `Router`: weak fairness of the read loop, of its abort, of each actor and of
  the Purge of `remove_peer`, which tokio and the operating system schedule; strong
  fairness of a waiting call, because the capacity semaphore is first come, first
  served. `OrphanStops` does not claim that callers pause: it assumes that the calls
  on the actor do not overlap for ever.
- `PeerActor`: time passes, and strong fairness of the retransmission timer,
  because `select!` without `biased` picks a ready branch at random: a persistent
  keepalive that is always due does not starve it. The other timers need none.
- `TunnelPair` needs none: `RecoversInTime` counts ticks, and a tick waits for the
  timers that are due, so it is a safety property.

### Assumptions about indices

Indices are random 32-bit numbers. `PeerPair` and `Router` leave out one actor
drawing an index twice. `RouteKept` excludes two actors of one key drawing the same
one, because `Bind` and `Retire` name the key and cannot tell them apart; it covers
different keys with the same index. `HeldIsRouted` speaks only of an index that no
other actor drew, since the first to bind keeps it.

## Proofs

The theorems hold for every value of the constants: any number of keys, indices,
actors, prefixes and ticks, any limits and capacities. They use only the named
assumptions of the modules (`FilterAssumption`, `PairAssumption` of `PeerPair`,
`ActorAssumption`, `BatchAssumption`, `RouterAssumption`, `CookieAssumption`,
`DeviceAssumption`, `LengthAssumption`, `PathAssumption`, `FileAssumption`):
constants are numbers of the right sign, `REKEY_AFTER_TIME < REJECT_AFTER_TIME`,
`REKEY_AFTER_MESSAGES < REJECT_AFTER_MESSAGES`, there are two nodes, the largest
plaintext is a multiple of the padding and fits a message with its overhead.
`FileAssumption` says that the MTU `parse_config` finds is a number, which the type
`u16` gives in the code; here it would take induction over the lines of a file. TLC
evaluates the assumptions in the runs. The
bounds (`MaxSerial`, `MaxTime`, `MaxActor`, ...) are among the constants, so no
theorem depends on their size.

### Replay filter (`ReplayFilterProofs`)

- `FilterInvariant`, `LastIsTheHighest`: always `RingExact` and `LastIsHighest`.
- `FilterImplementsWindow`: the filter implements `ReplayWindow`.

The inductive invariant is `TypeOK`, `LastIsHighest` and `RingExact`. `RingExact`
needs `LastIsHighest` to know that a cleared slot loses no counter of the new
window. The argument is modular arithmetic: blocks less than a lap apart have
different slots (`ModUnique`), a jump of a lap passes every slot (`ModOnto`), a
counter inside the window lies in a block the ring holds (`WindowBlocks`). From
these the ring after the slide is exact (`SlidExact`), and the bit test is
membership (`BitTest`).

### Sessions of two peers (`PeerPairProofs`)

- `IndicesAreRoutedExactly`: `RoutedExactly`.
- `NoncesAreFresh`, `NothingIsRedelivered`: no counter is used twice under a key,
  and no message is accepted twice.
- `SessionsArePaired`, `KeysAreConfirmed`: sessions with one key are the two ends of
  one handshake, and the responder waits for the initiator before it sends.
- `AcceptedMessagesAreRecent`, `InitiationsAreAnsweredOnce`.

Every action is first reduced to its effect on the slots (`StepEffect`, with the
effects of `PeerPairEffects`), so that the invariants are shown against a dozen effects and not
against the code of the machine. The inductive invariant has four parts:
`LayoutInv` (slots are Options that answer to different indices, else retiring one
would unroute another), `WireInv` (where every key in a slot or a message comes
from: the initiator answers to the index of its initiation, the responder to that
of its response, and a response that was taken has no pending handshake),
`SealInv` (what was sealed and accepted under each key and when), and
`KeyConfirmed`. Freshness of nonces follows because no two sessions seal under one
key; recency because the end that opens a message is not older than the message,
which for an initiator is `KeyConfirmed`.

### Peer actor (`PeerActorProofs`)

- `DriverWellTyped`: types, and staging within `MAX_STAGED_PACKETS`.
- `AttemptsArePending`, `EverySendIsTimed`, `NoPacketOvertakes`,
  `TimersDoNotSpin`: the invariants of `actor_timers`.
- `StagedPacketsArePursued`, `AttemptsAreRetransmittedOnTime`, `SilenceIsNoticed`: its
  action properties.

A handler is a chain of calls. `Good` is what holds between any two of them, `Core`
what holds even while packets wait for a session that was just made. `Aging` (the
driver's timers are never older than the machine's session) and `Known` (a peer with
a session has an endpoint) are no properties of their own, but without them the
others are not inductive.

### Index routing (`RouterProofs`)

- `NoRouteToTheDead`, `HeldIndicesAreRouted`, `RegistryWellTyped`: the invariants of
  `index_routing`; `RoutesAreKept`: its action property.
- `ErrorsNameTheirCause`: that of `tunnel_lifecycle`.

The map, the registry, the control queue and the indices of the actors change one by
one. `IInv` says what they agree on in between: a message in the control queue is
still true of the actors, a route was drawn by an actor of its key, an index that is
answered to is routed or has its Bind on the way, in the order of the queue.

### Cookies and load guard (`CookiesProofs`)

- `AcceptedCookiesAreRecent`: from a fact about every cookie that is still somewhere
  (`Genuine`), however late it arrives.
- `SecretsAreRotatedOnSchedule`: `SecretsAreSpaced`, from the same fact: a cookie of the
  present secret was issued after the last rotation, one of an earlier secret before.
- `UnprovenHandshakesAreLimited`: any `SECOND` consecutive ticks see at most twice
  `max_per_second` handshakes without a cookie. The guard counts in windows that
  begin where they begin; `RateInv` says which admitted handshakes lie before the
  current window and which before the previous one.

### Device (`DeviceProofs`)

- `RoutesLeadToCurrentHandles`, `PeersAgreeWithTunnel`, `DeviceWellTyped`.
- `TrafficFollowsTheRoutes`: an action property.
- `DeviceImplementsRouting`: the refinement of `CryptokeyRouting`, step by step.

The first lemmas show what `insert`, `retain` and `longest_match` do to a vector of
any length. They are recursive functions, and the library's induction theorems
cannot be instantiated by the installed provers, so induction is used in set form:
the set of numbers of steps after which the claim holds contains 0 and the successor
of each member (`SetInduction`, from the well-foundedness of the order on numbers). The
device's `IInv` says how its registry and the tunnel's differ while a call waits,
which decides what cancelling the call leaves behind.

### Data path (`DataPathProofs`, `TunstileProofs`)

For any packets, MTU, batch and segment limits and queue capacities:

- `PacketsStayInOrder`, `NoPacketVanishes`: `InOrder` and `NothingVanishes`.
- `StagingDropsTheOldest`: `OldestIsDropped`.
- `LengthsAreRestored`: `LengthRestored`. The far end finds in the padded packet the
  length the near end found in the packet it read.
- `SendsFitTheSocket`: `SendFits`.

`PathInv` is what every step keeps: the packets at each place still have the padded
length of the packet that was read (`FitInv`, by `Restored` about `packet_info`),
what is left of a buffer has segments of the stride but for the last, and packets are
staged only without a session (`PlaceInv`), and `InOrder` and `NothingVanishes`
themselves (`WayInv`); and what staging dropped precedes all that waits (`DropInv`).
A step takes a prefix of one place to the end of the
next or gives it up, so it is enough to follow the numbers of the packets
(`OrderMove`, `Moved`). What needs an argument of its own: the read loop cuts a
coalesced buffer exactly where the sender joined it, the short last segment included
(`SegmentIsWhole`), staging what a session could not send any more keeps the order
(`StageCut`), and a batch is never empty (`BatchFacts`). `TunstileProofs` adds `main`:
no packet is on its way outside `run_packets`.

### Only model-checked

- Liveness (`OrphanStops`, `AttemptEnds`, `StagedLeaves`): fairness is out of the
  prover's reach.
- `NoiseAgrees`: compares terms nested to a depth the SMT encoding does not manage.
- `RecoversInTime`, `NoNeedlessHandshake`: they bound sums of timers of two actors,
  messages under way included, and depend on how the limits relate; no inductive
  invariant for all values of the limits is known.
- `ConfigMeansFile`: induction over the lines of a file through a fold.
- The two runs that end in a violation, which are counterexamples.

## Not modelled

- Key encoding and clock arithmetic (`keys.rs`, `time.rs`): stateless wrappers.
- The primitives of `crypto.rs` are ideal terms; byte layout and buffer-size errors are left
  out. Keys that are not contributory occur only in `PeerActor`, as a refused `initiate`.
- Status counters and snapshots; logging.
- Readiness, binding and receive errors of the socket, and what the operating
  system does with interface and routes: success or failure only.
- The wall clock of the cookie generator apart from the monotonic one.
- One actor that draws the same random index twice.
