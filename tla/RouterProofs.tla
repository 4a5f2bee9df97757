---------------------------- MODULE RouterProofs ----------------------------
(***************************************************************************)
(* The index routing of a tunnel, for every set of keys, indices and       *)
(* callers, every queue capacity and every number of actors.               *)
(*                                                                         *)
(* A route is kept in one place (the read loop's map), is made from two    *)
(* others (the registry and the control queue) and is about a fourth (the  *)
(* indices an actor answers to), and each changes by itself. The inductive *)
(* invariant IInv says what the four agree on at every moment: every       *)
(* message in the control queue is still true of the actors (ControlInv),  *)
(* every route was once drawn by an actor of its key (SourceInv), and an   *)
(* index that is answered to is routed or has its Bind on the way          *)
(* (BoundInv). The properties of Router follow from it.                    *)
(***************************************************************************)
EXTENDS Router, SequenceTheorems, FiniteSetTheorems, TLAPS

\* The control messages of the read loop.
Message ==
  [do : {"Bind", "Retire"}, key : Key, index : Index] \cup [do : {"Purge"}, actor : Nat]

\* The places a caller may be in.
CallStates ==
  {"idle", "send", "set_peer", "lost", "Ok", "Full", "PeerRemoved", "TunnelClosed"}

\* The types of the variables; unlike TypeOK, of every variable.
Typed ==
  /\ tunnel \in BOOLEAN
  /\ owner \in Seq(Key) /\ Len(owner) <= MaxActor
  /\ registry \in [Key -> 0 .. Len(owner)]
  /\ opening \subseteq Actors /\ removing \subseteq Actors
  /\ stopped \subseteq Actors
  /\ control \in Seq(Message)
  /\ indices \in [Index -> 0 .. Len(owner)]
  /\ loop \in {"control", "socket", "ended"}
  /\ drawn \in Seq(SUBSET Index) /\ Len(drawn) = Len(owner)
  /\ held \in Seq(SUBSET Index) /\ Len(held) = Len(owner)
  /\ queue \in Seq(0 .. PEER_ACTION_QUEUE_CAPACITY) /\ Len(queue) = Len(owner)
  /\ call \in [Caller -> [at : CallStates, actor : 0 .. Len(owner)]]
  /\ \A c \in Caller : call[c].at # "idle" => call[c].actor # 0
  /\ wire \subseteq Key \cup Index /\ IsFiniteSet(wire)

\* A queue that try_send fills stays within its capacity.
LEMMA TrySendType ==
  ASSUME NEW q \in 0 .. PEER_ACTION_QUEUE_CAPACITY, NEW n \in Nat
  PROVE  TrySend(q, n) \in 0 .. PEER_ACTION_QUEUE_CAPACITY
BY RouterAssumption DEF TrySend

\* A message posted to the control queue is one more in it.
LEMMA RangeAppend ==
  ASSUME NEW S, NEW s \in Seq(S), NEW e \in S
  PROVE  Range(Append(s, e)) = Range(s) \cup {e}
<1>1. /\ DOMAIN s = 1 .. Len(s) /\ Len(s) \in Nat
      /\ DOMAIN Append(s, e) = 1 .. Len(s) + 1
      /\ \A i \in 1 .. Len(s) : Append(s, e)[i] = s[i]
      /\ Append(s, e)[Len(s) + 1] = e
  BY AppendProperties, LenProperties
<1> QED
  BY <1>1 DEF Range

\* A message taken from the control queue was its head, and the others stay.
LEMMA RangeTail ==
  ASSUME NEW S, NEW s \in Seq(S), s # <<>>
  PROVE  /\ Head(s) \in S /\ Tail(s) \in Seq(S)
         /\ Range(s) = {Head(s)} \cup Range(Tail(s))
<1>1. /\ Head(s) \in S /\ Tail(s) \in Seq(S)
      /\ Head(s) = s[1] /\ Len(s) \in Nat \ {0}
      /\ Len(Tail(s)) = Len(s) - 1
      /\ \A i \in 1 .. Len(s) - 1 : Tail(s)[i] = s[i + 1]
      /\ DOMAIN s = 1 .. Len(s) /\ DOMAIN Tail(s) = 1 .. Len(s) - 1
  BY HeadTailProperties, LenProperties, EmptySeq
<1>2. ASSUME NEW j \in 2 .. Len(s) PROVE s[j] = Tail(s)[j - 1] /\ j - 1 \in DOMAIN Tail(s)
  BY <1>1
<1>3. ASSUME NEW x \in Range(s) PROVE x \in {Head(s)} \cup Range(Tail(s))
  <2>1. PICK j \in 1 .. Len(s) : x = s[j]
    BY <1>1, Zenon DEF Range
  <2>2. CASE j = 1
    BY <1>1, <2>1, <2>2, Zenon
  <2>3. CASE j \in 2 .. Len(s)
    BY <1>2, <2>1, <2>3, Zenon DEF Range
  <2> QED
    BY <1>1, <2>1, <2>2, <2>3
<1>4. ASSUME NEW x \in Range(Tail(s)) PROVE x \in Range(s)
  <2>1. PICK j \in 1 .. Len(s) - 1 : x = s[j + 1]
    BY <1>1, Zenon DEF Range
  <2> QED
    BY <1>1, <2>1 DEF Range
<1>5. Head(s) \in Range(s)
  BY <1>1 DEF Range
<1> QED
  BY <1>1, <1>3, <1>4, <1>5, Zenon

\* Every step keeps the types: no queue outgrows its capacity and no map
\* names an actor that was never spawned.
LEMMA TypedNext == Typed /\ [Next]_vars => Typed'
<1> SUFFICES ASSUME Typed, [Next]_vars PROVE Typed'
  OBVIOUS
<1> USE RouterAssumption DEF Typed, Actors
<1>1. CASE DropTunnel
  BY <1>1, Zenon DEF DropTunnel
<1>2. ASSUME NEW k \in Key, AddPeer(k) PROVE Typed'
  <2>1. /\ owner' \in Seq(Key) /\ Len(owner') = Len(owner) + 1
        /\ Len(owner) \in Nat /\ Len(owner') <= MaxActor
    BY <1>2, AppendProperties, LenProperties DEF AddPeer
  <2>2. /\ drawn' \in Seq(SUBSET Index) /\ Len(drawn') = Len(owner')
        /\ held' \in Seq(SUBSET Index) /\ Len(held') = Len(owner')
    <3>1. {} \in SUBSET Index
      OBVIOUS
    <3> QED
      BY <1>2, <2>1, <3>1, AppendProperties DEF AddPeer
  <2>3. /\ queue' \in Seq(0 .. PEER_ACTION_QUEUE_CAPACITY) /\ Len(queue') = Len(owner')
    BY <1>2, <2>1, AppendProperties DEF AddPeer
  <2>4. registry' \in [Key -> 0 .. Len(owner')] /\ indices' \in [Index -> 0 .. Len(owner')]
    BY <1>2, <2>1 DEF AddPeer
  <2>5. /\ opening' \subseteq 1 .. Len(owner') /\ removing' \subseteq 1 .. Len(owner')
        /\ stopped' \subseteq 1 .. Len(owner')
    BY <1>2, <2>1 DEF AddPeer
  <2>6. call' \in [Caller -> [at : CallStates, actor : 0 .. Len(owner')]]
    BY <1>2, <2>1 DEF AddPeer
  <2> QED
    BY <1>2, <2>1, <2>2, <2>3, <2>4, <2>5, <2>6, Zenon DEF AddPeer
<1>3. ASSUME NEW k \in Key, RemovePeer(k) PROVE Typed'
  <2>1. registry[k] \in Actors /\ Len(owner) \in Nat
    BY <1>3, LenProperties DEF RemovePeer
  <2>2. registry' \in [Key -> 0 .. Len(owner)]
    BY <1>3, <2>1 DEF RemovePeer
  <2> QED
    BY <1>3, <2>1, <2>2, Zenon DEF RemovePeer
<1>a. ASSUME NEW c \in Caller, NEW at \in CallStates, NEW a \in Actors,
             Called(c, at, a), queue' \in Seq(0 .. PEER_ACTION_QUEUE_CAPACITY),
             Len(queue') = Len(queue)
      PROVE  Typed'
  <2>1. a \in 0 .. Len(owner) /\ a # 0
    BY LenProperties
  <2>2. call' \in [Caller -> [at : CallStates, actor : 0 .. Len(owner)]]
    BY <1>a, <2>1, Zenon DEF Called
  <2>3. \A d \in Caller : call'[d].at # "idle" => call'[d].actor # 0
    BY <1>a, <2>1, Zenon DEF Called
  <2> QED
    BY <1>a, <2>2, <2>3, Zenon DEF Called, tables
<1>b. ASSUME NEW a \in Actors, NEW n \in 0 .. PEER_ACTION_QUEUE_CAPACITY
      PROVE  /\ [queue EXCEPT ![a] = n] \in Seq(0 .. PEER_ACTION_QUEUE_CAPACITY)
             /\ Len([queue EXCEPT ![a] = n]) = Len(queue)
  BY ExceptSeq
<1>e. \A a \in Actors : queue[a] \in 0 .. PEER_ACTION_QUEUE_CAPACITY
  BY ElementOfSeq, Zenon
<1>4. ASSUME NEW c \in Caller, FinishCall(c) PROVE Typed'
  <2>1. call[c].actor \in Actors
    BY <1>4, LenProperties DEF FinishCall
  <2>2. queue[call[c].actor] + 1 \in 0 .. PEER_ACTION_QUEUE_CAPACITY
    BY <1>4, <1>e, <2>1, SMTT(30) DEF FinishCall
  <2> QED
    BY <1>4, <1>a, <1>b, <2>1, <2>2, Zenon DEF FinishCall, CallStates
<1>5. ASSUME NEW c \in Caller, NEW k \in Key, SetPeer(c, k) PROVE Typed'
  <2>1. registry[k] \in Actors
    BY <1>5, LenProperties DEF SetPeer
  <2> QED
    BY <1>5, <1>a, <2>1, Zenon DEF SetPeer, CallStates
<1>6. ASSUME NEW c \in Caller, NEW a \in Actors, Entry(c, a) PROVE Typed'
  BY <1>6, <1>a, Zenon DEF Entry, CallStates
<1>7. ASSUME NEW c \in Caller, NEW a \in Actors, TrySendData(c, a) PROVE Typed'
  <2>1. TrySend(queue[a], 1) \in 0 .. PEER_ACTION_QUEUE_CAPACITY
    BY <1>e, TrySendType, Zenon
  <2> QED
    BY <1>7, <1>a, <1>b, <2>1, Zenon DEF TrySendData, CallStates
<1>8. ASSUME NEW a \in Actors, FinishAdd(a) PROVE Typed'
  <2>1. queue[a] + 1 \in 0 .. PEER_ACTION_QUEUE_CAPACITY
    BY <1>8, <1>e, SMTT(30) DEF FinishAdd
  <2> QED
    BY <1>8, <1>b, <2>1, Zenon DEF FinishAdd
<1>c. ASSUME NEW m \in Message PROVE Sent(m) \in Seq(Message)
  BY AppendProperties, Zenon DEF Sent
<1>9. ASSUME NEW a \in Actors, SendPurge(a) PROVE Typed'
  <2>1. [do |-> "Purge", actor |-> a] \in Message
    BY LenProperties DEF Message
  <2> QED
    BY <1>9, <1>c, <2>1, Zenon DEF SendPurge
<1>10. ASSUME NEW a \in Actors, HandleAction(a) PROVE Typed'
  <2>1. queue[a] - 1 \in 0 .. PEER_ACTION_QUEUE_CAPACITY
    BY <1>10, <1>e DEF HandleAction
  <2> QED
    BY <1>10, <1>b, <2>1, Zenon DEF HandleAction, tables
<1>11. ASSUME NEW a \in Actors, Stop(a) PROVE Typed'
  BY <1>11, Zenon DEF Stop, tables
<1>d. ASSUME NEW a \in Actors, NEW i \in Index, NEW do \in {"Bind", "Retire"}
      PROVE  /\ [do |-> do, key |-> owner[a], index |-> i] \in Message
             /\ held[a] \subseteq Index /\ drawn[a] \subseteq Index
  BY ElementOfSeq DEF Message
<1>12. ASSUME NEW a \in Actors, NEW i \in Index, BindIndex(a, i) PROVE Typed'
  <2>1. control' \in Seq(Message)
    BY <1>12, <1>c, <1>d, Zenon DEF BindIndex, Post
  <2>2. drawn[a] \cup {i} \in SUBSET Index /\ held[a] \cup {i} \in SUBSET Index
    BY <1>d, Zenon
  <2>3. /\ drawn' \in Seq(SUBSET Index) /\ Len(drawn') = Len(owner)
        /\ held' \in Seq(SUBSET Index) /\ Len(held') = Len(owner)
    BY <1>12, <2>2, ExceptSeq DEF BindIndex
  <2> QED
    BY <1>12, <2>1, <2>3, Zenon DEF BindIndex, tables
<1>13. ASSUME NEW a \in Actors, NEW i \in Index, RetireIndex(a, i) PROVE Typed'
  <2>1. control' \in Seq(Message)
    BY <1>13, <1>c, <1>d, Zenon DEF RetireIndex, Post
  <2>2. held[a] \ {i} \in SUBSET Index
    BY <1>d, Zenon
  <2>3. held' \in Seq(SUBSET Index) /\ Len(held') = Len(owner)
    BY <1>13, <2>2, ExceptSeq DEF RetireIndex
  <2> QED
    BY <1>13, <2>1, <2>3, Zenon DEF RetireIndex, tables
<1>14. CASE ApplyControl
  <2>1. Head(control) \in Message /\ control' \in Seq(Message)
    BY <1>14, RangeTail, Zenon DEF ApplyControl
  <2>2. indices' \in [Index -> 0 .. Len(owner)]
    BY <1>14, <2>1 DEF ApplyControl, Message, Bind, Retire, Purge
  <2> QED
    BY <1>14, <2>1, <2>2, Zenon DEF ApplyControl, tables
<1>15. CASE PollSocket
  BY <1>15, Zenon DEF PollSocket, tables
<1>16. CASE ReceiveBatch
  <2>1. \A a \in Actors : Cardinality({d \in wire : Target(d) = a}) \in Nat
    BY FS_Subset, FS_CardinalityType, Zenon
  <2>2. \A a \in Actors : queue'[a] \in 0 .. PEER_ACTION_QUEUE_CAPACITY
    BY <1>16, <1>e, <2>1, TrySendType, Zenon DEF ReceiveBatch
  <2>3. queue' \in Seq(0 .. PEER_ACTION_QUEUE_CAPACITY) /\ Len(queue') = Len(owner)
    BY <1>16, <2>2 DEF ReceiveBatch
  <2> QED
    BY <1>16, <2>3, FS_EmptySet, Zenon DEF ReceiveBatch, tables
<1>17. CASE AbortLoop
  BY <1>17 DEF AbortLoop, tables
<1>18. ASSUME NEW d \in Key \cup Index, Arrive(d) PROVE Typed'
  <2>1. IsFiniteSet(wire')
    BY <1>18, FS_AddElement, Zenon DEF Arrive
  <2> QED
    BY <1>18, <2>1, Zenon DEF Arrive, tables
<1>19. CASE UNCHANGED vars
  BY <1>19, Zenon DEF vars, tables
<1> QED
  BY <1>1, <1>2, <1>3, <1>4, <1>5, <1>6, <1>7, <1>8, <1>9, <1>10, <1>11, <1>12,
     <1>13, <1>14, <1>15, <1>16, <1>17, <1>18, <1>19, Zenon DEF Next, ReadLoop

\* What no step undoes: an actor keeps its key, a peer that was removed is
\* not registered again (its key gets a new actor), a registry that is gone
\* stays gone, and so does a dropped tunnel.
LEMMA TableStep ==
  ASSUME Typed, [Next]_vars
  PROVE  /\ Len(owner) \in Nat /\ Len(owner') \in Nat /\ Len(owner) <= Len(owner')
         /\ \A a \in Actors : owner'[a] = owner[a]
         /\ \A a \in Actors : Registered(a)' => Registered(a)
         /\ TableAlive' => TableAlive
         /\ tunnel' => tunnel
<1> DEFINE Goal == /\ Len(owner) \in Nat /\ Len(owner') \in Nat /\ Len(owner) <= Len(owner')
                   /\ \A a \in Actors : owner'[a] = owner[a]
                   /\ \A a \in Actors : registry'[owner[a]] = a => registry[owner[a]] = a
                   /\ tunnel' \/ loop' # "ended" \/ removing' # {} =>
                        tunnel \/ loop # "ended" \/ removing # {}
                   /\ tunnel' => tunnel
<1> SUFFICES Goal
  BY Zenon DEF Registered, TableAlive
<1>1. /\ owner \in Seq(Key) /\ Len(owner) \in Nat
      /\ \A a \in Actors : owner[a] \in Key
      /\ registry \in [Key -> 0 .. Len(owner)]
      /\ tunnel \in BOOLEAN
  BY LenProperties, ElementOfSeq, Zenon DEF Typed, Actors
<1>2. ASSUME UNCHANGED <<tunnel, owner, registry, removing>>, loop' # "ended" => loop # "ended"
      PROVE  Goal
  BY <1>1, <1>2
<1>3. CASE DropTunnel
  BY <1>1, <1>3 DEF DropTunnel
<1>4. ASSUME NEW k \in Key, AddPeer(k) PROVE Goal
  <2>1. /\ Len(owner') = Len(owner) + 1
        /\ \A a \in Actors : owner'[a] = owner[a]
    BY <1>1, <1>4, AppendProperties DEF AddPeer, Actors
  <2>2. ASSUME NEW a \in Actors, registry'[owner[a]] = a PROVE registry[owner[a]] = a
    <3>1. a # Len(owner')
      BY <1>1, <2>1 DEF Actors
    <3> QED
      BY <1>1, <1>4, <2>2, <3>1, Zenon DEF AddPeer
  <2>3. UNCHANGED <<tunnel, loop, removing>>
    BY <1>4, Zenon DEF AddPeer
  <2> QED
    BY <1>1, <2>1, <2>2, <2>3
<1>5. ASSUME NEW k \in Key, RemovePeer(k) PROVE Goal
  BY <1>1, <1>5 DEF RemovePeer, Actors, TableAlive
<1>6. ASSUME NEW a \in Actors, SendPurge(a) PROVE Goal
  BY <1>1, <1>6 DEF SendPurge
<1>7. CASE ReadLoop
  BY <1>2, <1>7, Zenon DEF ReadLoop, ApplyControl, PollSocket, ReceiveBatch, tables
<1>8. CASE AbortLoop
  BY <1>2, <1>8, Zenon DEF AbortLoop, tables
<1>9. ASSUME NEW c \in Caller,
             \/ FinishCall(c) \/ \E k \in Key : SetPeer(c, k)
             \/ \E a \in Actors : Entry(c, a) \/ TrySendData(c, a)
      PROVE  Goal
  BY <1>2, <1>9, Zenon DEF FinishCall, SetPeer, Entry, TrySendData, Called, tables
<1>10. ASSUME NEW a \in Actors,
              \/ FinishAdd(a) \/ HandleAction(a) \/ Stop(a)
              \/ \E i \in Index : BindIndex(a, i) \/ RetireIndex(a, i)
       PROVE  Goal
  BY <1>2, <1>10, Zenon DEF FinishAdd, HandleAction, Stop, BindIndex, RetireIndex, tables
<1>11. ASSUME NEW d \in Key \cup Index, Arrive(d) PROVE Goal
  BY <1>2, <1>11, Zenon DEF Arrive, tables
<1>12. CASE UNCHANGED vars
  BY <1>2, <1>12, Zenon DEF vars, tables
<1> HIDE DEF Goal
<1> QED
  BY <1>3, <1>4, <1>5, <1>6, <1>7, <1>8, <1>9, <1>10, <1>11, <1>12, Zenon DEF Next

(* The registry, the actors that run, and the end of the read loop.        *)
\* The registry: the entry of a key is its youngest actor, and runs as long
\* as the registry lives; what is being added or removed runs; what is being
\* removed is no longer registered; the end of the read loop leaves no
\* message and no route.
RegistryInv ==
  /\ \A k \in Key : registry[k] # 0 => owner[registry[k]] = k
  /\ \A k \in Key : \A a \in Actors :
       registry[k] # 0 /\ owner[a] = k => a <= registry[k]
  /\ TableAlive => \A k \in Key : registry[k] \notin stopped
  /\ (removing \cup opening) \cap stopped = {}
  /\ \A a \in removing : ~Registered(a)
  /\ loop = "ended" => ~tunnel /\ control = <<>> /\ \A i \in Index : indices[i] = 0

\* Every step preserves RegistryInv: add_peer, the two halves of remove_peer,
\* the stop of an actor and the end of the loop.
LEMMA RegistryNext == Typed /\ RegistryInv /\ [Next]_vars => RegistryInv'
<1> SUFFICES ASSUME Typed, RegistryInv, [Next]_vars PROVE RegistryInv'
  OBVIOUS
<1>1. /\ owner \in Seq(Key) /\ Len(owner) \in Nat
      /\ \A a \in Actors : owner[a] \in Key
      /\ registry \in [Key -> 0 .. Len(owner)]
      /\ tunnel \in BOOLEAN /\ loop \in {"control", "socket", "ended"}
      /\ removing \subseteq Actors /\ stopped \subseteq Actors /\ opening \subseteq Actors
  BY LenProperties, ElementOfSeq, Zenon DEF Typed, Actors
<1>2. /\ \A a \in Actors : owner'[a] = owner[a]
      /\ \A a \in Actors : Registered(a)' => Registered(a)
      /\ TableAlive' => TableAlive
  BY TableStep, Zenon
<1>3. ASSUME UNCHANGED <<owner, registry, stopped, indices, control, tunnel, loop, removing>>,
             opening' \subseteq opening
      PROVE  RegistryInv'
  BY <1>3, Zenon DEF RegistryInv, TableAlive, Registered, Actors
<1>4. CASE DropTunnel
  BY <1>2, <1>4, Zenon DEF DropTunnel, RegistryInv, Registered, Actors
<1>5. ASSUME NEW k \in Key, AddPeer(k) PROVE RegistryInv'
  <2>1. /\ Len(owner') = Len(owner) + 1
        /\ owner'[Len(owner')] = k
    BY <1>1, <1>5, AppendProperties DEF AddPeer
  <2>2. registry' = [registry EXCEPT ![k] = Len(owner')] /\ registry[k] = 0
    BY <1>5, Zenon DEF AddPeer
  <2>3. \A l \in Key : registry'[l] # 0 => owner'[registry'[l]] = l
    BY <1>1, <1>2, <2>1, <2>2 DEF RegistryInv, Actors
  <2>4. \A l \in Key : \A a \in Actors' :
          registry'[l] # 0 /\ owner'[a] = l => a <= registry'[l]
    BY <1>1, <1>2, <2>1, <2>2 DEF RegistryInv, Actors
  <2>5. TableAlive' => \A l \in Key : registry'[l] \notin stopped'
    BY <1>1, <1>2, <1>5, <2>1, <2>2 DEF RegistryInv, Actors, AddPeer
  <2>6. (removing' \cup opening') \cap stopped' = {}
    BY <1>1, <1>5, <2>1 DEF RegistryInv, Actors, AddPeer
  <2>7. \A a \in removing' : ~Registered(a)'
    BY <1>1, <1>2, <1>5, Zenon DEF RegistryInv, AddPeer
  <2>8. loop' # "ended"
    BY <1>5, Zenon DEF RegistryInv, AddPeer
  <2> QED
    BY <2>3, <2>4, <2>5, <2>6, <2>7, <2>8, Zenon DEF RegistryInv
<1>6. ASSUME NEW k \in Key, RemovePeer(k) PROVE RegistryInv'
  <2>1. registry' = [registry EXCEPT ![k] = 0] /\ registry[k] \in Actors /\ TableAlive
    BY <1>1, <1>6 DEF RemovePeer, Actors
  <2>2. \A l \in Key : registry'[l] # 0 => owner'[registry'[l]] = l
    BY <1>1, <1>6, <2>1, Zenon DEF RegistryInv, RemovePeer
  <2>3. \A l \in Key : \A a \in Actors' :
          registry'[l] # 0 /\ owner'[a] = l => a <= registry'[l]
    BY <1>1, <1>6, <2>1, Zenon DEF RegistryInv, RemovePeer, Actors
  <2>4. TableAlive' => \A l \in Key : registry'[l] \notin stopped'
    BY <1>1, <1>6, <2>1 DEF RegistryInv, RemovePeer, Actors
  <2>5. (removing' \cup opening') \cap stopped' = {}
    BY <1>1, <1>6, <2>1 DEF RegistryInv, RemovePeer
  <2>6. \A a \in removing' : ~Registered(a)'
    BY <1>1, <1>2, <1>6, <2>1 DEF RegistryInv, RemovePeer, Registered, Actors
  <2> QED
    BY <1>6, <2>2, <2>3, <2>4, <2>5, <2>6, Zenon DEF RegistryInv, RemovePeer
<1>7. ASSUME NEW c \in Caller,
             \/ FinishCall(c) \/ \E k \in Key : SetPeer(c, k)
             \/ \E a \in Actors : Entry(c, a) \/ TrySendData(c, a)
      PROVE  RegistryInv'
  BY <1>3, <1>7, Zenon DEF FinishCall, SetPeer, Entry, TrySendData, Called, tables
<1>8. ASSUME NEW a \in Actors, FinishAdd(a) \/ HandleAction(a) PROVE RegistryInv'
  BY <1>3, <1>8, Zenon DEF FinishAdd, HandleAction, tables
<1>9. ASSUME NEW a \in Actors, SendPurge(a) PROVE RegistryInv'
  BY <1>2, <1>9, Zenon DEF SendPurge, Sent, RegistryInv, Registered, Actors
<1>10. ASSUME NEW a \in Actors, Stop(a) PROVE RegistryInv'
  <2>1. /\ stopped' = stopped \cup {a} /\ a \notin removing \cup opening
        /\ ~(Registered(a) /\ TableAlive)
    BY <1>10, Zenon DEF Stop, SenderAlive, EntryAlive
  <2>2. TableAlive' => \A l \in Key : registry'[l] \notin stopped'
    <3>1. UNCHANGED <<registry, tunnel, loop, removing>>
      BY <1>10, Zenon DEF Stop, tables
    <3>2. ASSUME TableAlive', NEW l \in Key, registry[l] = a PROVE FALSE
      BY <1>1, <1>2, <2>1, <3>2 DEF RegistryInv, Registered, Actors
    <3> QED
      BY <1>1, <1>2, <2>1, <3>1, <3>2, Zenon DEF RegistryInv
  <2> QED
    BY <1>10, <2>1, <2>2 DEF Stop, tables, RegistryInv, Registered, Actors
<1>11. ASSUME NEW a \in Actors, NEW i \in Index, BindIndex(a, i) \/ RetireIndex(a, i)
       PROVE  RegistryInv'
  BY <1>2, <1>11 DEF BindIndex, RetireIndex, Post, Sent, tables, RegistryInv, Registered, Actors
<1>12. CASE ReadLoop
  BY <1>2, <1>12, Zenon DEF ReadLoop, ApplyControl, PollSocket, ReceiveBatch, tables,
                     RegistryInv, Registered, Actors
<1>13. CASE AbortLoop
  BY <1>2, <1>13, Zenon DEF AbortLoop, tables, RegistryInv, Registered, Actors
<1>14. ASSUME NEW d \in Key \cup Index, Arrive(d) PROVE RegistryInv'
  BY <1>3, <1>14, Zenon DEF Arrive, tables
<1>15. CASE UNCHANGED vars
  BY <1>3, <1>15, Zenon DEF vars, tables
<1> QED
  BY <1>4, <1>5, <1>6, <1>7, <1>8, <1>9, <1>10, <1>11, <1>12, <1>13, <1>14, <1>15, Zenon DEF Next

(* Routes.                                                                 *)

\* What a queued message claims holds when it is applied: the index of a Bind
\* was drawn by an actor of the key, that of a Retire is no longer answered
\* to by it, the actor of a Purge is not registered.
ControlInv ==
  \A m \in Range(control) :
    /\ m.do = "Bind" =>
         \E b \in Actors : owner[b] = m.key /\ m.index \in drawn[b]
    /\ m.do = "Retire" =>
         \E b \in Actors : owner[b] = m.key /\ m.index \in drawn[b] \ held[b]
    /\ m.do = "Purge" => m.actor \in Actors /\ ~Registered(m.actor)

\* A route's index was drawn by the actor it leads to, or by an earlier one
\* of the same key, whose Bind found the later one registered.
SourceInv ==
  \A i \in Index : indices[i] # 0 =>
    \E b \in 1 .. indices[i] : owner[b] = owner[indices[i]] /\ i \in drawn[b]

\* An index that a registered actor answers to, and no one else ever drew, is
\* routed to it or will be when its Bind is applied.
BoundInv ==
  loop # "ended" =>
    \A a \in Actors : \A i \in held[a] :
      Registered(a) /\ (\A b \in Actors \ {a} : i \notin drawn[b]) =>
        \/ indices[i] = a
        \/ [do |-> "Bind", key |-> owner[a], index |-> i] \in Range(control)

\* An actor answers to indices it drew.
HeldInv == \A a \in Actors : held[a] \subseteq drawn[a]

\* A caller that got an error got the right one; one that found the entry
\* gone (lost) and has yet to look for the registry will find the right one.
CallInv ==
  \A c \in Caller :
    /\ call[c].at = "TunnelClosed" => ~tunnel
    /\ call[c].at = "PeerRemoved" => ~Registered(call[c].actor)
    /\ call[c].at = "lost" => ~TableAlive \/ ~Registered(call[c].actor)

\* The parts that relate routes, control messages and actors.
RoutesInv == HeldInv /\ ControlInv /\ SourceInv /\ NoDeadRoute /\ BoundInv

\* The inductive invariant.
IInv == Typed /\ RegistryInv /\ RoutesInv /\ CallInv

\* Every step preserves RoutesInv. The steps that matter are those of
\* IndexRouter::apply, which reads the registry of now for a message of then,
\* and remove_peer and add_peer, which change the registry under the messages
\* in the queue.
LEMMA RoutesNext ==
  Typed /\ RegistryInv /\ RoutesInv /\ [Next]_vars => RoutesInv'
<1> SUFFICES ASSUME Typed, RegistryInv, RoutesInv, [Next]_vars PROVE RoutesInv'
  OBVIOUS
<1>1. /\ owner \in Seq(Key) /\ Len(owner) \in Nat
      /\ \A a \in Actors : owner[a] \in Key
      /\ registry \in [Key -> 0 .. Len(owner)]
      /\ indices \in [Index -> 0 .. Len(owner)]
      /\ control \in Seq(Message)
      /\ drawn \in Seq(SUBSET Index) /\ held \in Seq(SUBSET Index)
      /\ Len(drawn) = Len(owner) /\ Len(held) = Len(owner)
      /\ DOMAIN drawn = Actors /\ DOMAIN held = Actors
      /\ removing \subseteq Actors /\ loop \in {"control", "socket", "ended"}
  BY LenProperties, ElementOfSeq, Zenon DEF Typed, Actors
<1>2. /\ \A a \in Actors : owner'[a] = owner[a]
      /\ \A a \in Actors : Registered(a)' => Registered(a)
  BY TableStep, Zenon
<1>3. /\ HeldInv /\ ControlInv /\ SourceInv /\ NoDeadRoute /\ BoundInv
      /\ \A a \in removing : ~Registered(a)
      /\ loop = "ended" => control = <<>> /\ \A i \in Index : indices[i] = 0
  BY Zenon DEF RoutesInv, RegistryInv
<1>4. \A m \in Message : /\ Range(control) \subseteq Range(Sent(m))
                         /\ Range(Sent(m)) \subseteq Range(control) \cup {m}
                         /\ loop # "ended" => m \in Range(Sent(m))
  BY <1>1, RangeAppend DEF Sent
<1>5. ASSUME UNCHANGED <<owner, registry, removing, control, indices, drawn, held>>,
             loop' # "ended" => loop # "ended"
      PROVE  RoutesInv'
  BY <1>3, <1>5, Zenon DEF RoutesInv, HeldInv, ControlInv, SourceInv, NoDeadRoute, BoundInv,
                      Registered, Actors
<1>6. ASSUME NEW k \in Key, AddPeer(k) PROVE RoutesInv'
  <2> DEFINE n == Len(owner')
  <2>1. n = Len(owner) + 1 /\ owner'[n] = k
    BY <1>1, <1>6, AppendProperties DEF AddPeer
  <2>2. /\ \A a \in Actors : drawn'[a] = drawn[a] /\ held'[a] = held[a]
        /\ drawn'[n] = {} /\ held'[n] = {}
    BY <1>1, <1>6, <2>1, AppendProperties DEF AddPeer, Actors
  <2>3. /\ UNCHANGED <<control, indices, removing, loop>>
        /\ registry[k] = 0 /\ registry' = [registry EXCEPT ![k] = n]
    BY <1>6, Zenon DEF AddPeer
  <2>4. Actors' = Actors \cup {n} /\ n \notin Actors
    BY <1>1, <2>1 DEF Actors
  <2>5. \A a \in Actors : Registered(a) => Registered(a)'
    BY <1>1, <1>2, <2>3 DEF Registered, Actors
  <2> HIDE DEF n
  <2>6. HeldInv'
    BY <1>3, <2>2, <2>4, Zenon DEF HeldInv
  <2>7. ControlInv'
    BY <1>2, <1>3, <2>2, <2>3, <2>4 DEF ControlInv
  <2>8. SourceInv' /\ NoDeadRoute'
    <3>1. \A i \in Index : indices[i] # 0 =>
            indices[i] \in Actors /\ 1 .. indices[i] \subseteq Actors
      BY <1>1 DEF Actors
    <3>2. SourceInv'
      BY <1>2, <1>3, <2>2, <2>3, <3>1 DEF SourceInv
    <3>3. NoDeadRoute'
      BY <1>3, <2>3, <2>5, <3>1, Zenon DEF NoDeadRoute
    <3> QED
      BY <3>2, <3>3, Zenon
  <2>9. BoundInv'
    BY <1>2, <1>3, <2>2, <2>3, <2>4, Zenon DEF BoundInv
  <2> QED
    BY <2>6, <2>7, <2>8, <2>9, Zenon DEF RoutesInv
<1>7. ASSUME NEW k \in Key, RemovePeer(k) PROVE RoutesInv'
  <2>1. /\ UNCHANGED <<owner, control, indices, drawn, held, loop>>
        /\ registry' = [registry EXCEPT ![k] = 0]
        /\ removing' = removing \cup {registry[k]}
    BY <1>7, Zenon DEF RemovePeer
  <2>2. \A a \in Actors : Registered(a) => Registered(a)' \/ a \in removing'
    BY <1>1, <2>1, Zenon DEF Registered
  <2>3. NoDeadRoute'
    BY <1>1, <1>3, <2>1, <2>2 DEF NoDeadRoute, Actors, Registered
  <2> QED
    BY <1>2, <1>3, <2>1, <2>3, Zenon DEF RoutesInv, HeldInv, ControlInv, SourceInv, BoundInv, Actors
<1>8. ASSUME NEW a \in Actors, SendPurge(a) PROVE RoutesInv'
  <2> DEFINE m == [do |-> "Purge", actor |-> a]
  <2>1. /\ UNCHANGED <<owner, registry, indices, drawn, held, loop>>
        /\ control' = Sent(m) /\ removing' = removing \ {a}
        /\ ~Registered(a)
    BY <1>3, <1>8, Zenon DEF SendPurge
  <2>2. m \in Message
    BY <1>1 DEF Message, Actors
  <2>3. ControlInv'
    BY <1>3, <1>4, <2>1, <2>2 DEF ControlInv, Registered, Actors
  <2>4. SourceInv' /\ NoDeadRoute'
    BY <1>3, <1>4, <2>1, <2>2, Zenon DEF SourceInv, NoDeadRoute, Registered
  <2>5. BoundInv'
    BY <1>3, <1>4, <2>1, <2>2, Zenon DEF BoundInv, Registered, Actors
  <2> QED
    BY <1>3, <2>1, <2>3, <2>4, <2>5, Zenon DEF RoutesInv, HeldInv, Actors
<1>9. ASSUME NEW a \in Actors, NEW i \in Index, BindIndex(a, i) PROVE RoutesInv'
  <2> DEFINE m == [do |-> "Bind", key |-> owner[a], index |-> i]
  <2>1. /\ UNCHANGED <<owner, registry, indices, loop, removing>>
        /\ control' = Sent(m) /\ i \notin drawn[a]
        /\ drawn' = [drawn EXCEPT ![a] = @ \cup {i}]
        /\ held' = [held EXCEPT ![a] = @ \cup {i}]
    BY <1>9, Zenon DEF BindIndex, Post, tables
  <2>2. m \in Message
    BY <1>1, Zenon DEF Message
  <2>3. /\ drawn'[a] = drawn[a] \cup {i} /\ held'[a] = held[a] \cup {i}
        /\ \A b \in Actors \ {a} : drawn'[b] = drawn[b] /\ held'[b] = held[b]
        /\ \A b \in Actors : drawn[b] \subseteq drawn'[b]
    BY <1>1, <2>1, Zenon
  <2>4. HeldInv'
    BY <1>3, <2>1, <2>3, Zenon DEF HeldInv, Actors
  <2>5. ControlInv'
    BY <1>3, <1>4, <2>1, <2>2, <2>3 DEF ControlInv, Registered, Actors
  <2>6. SourceInv' /\ NoDeadRoute'
    <3>1. \A j \in Index : 1 .. indices[j] \subseteq Actors
      BY <1>1 DEF Actors
    <3> QED
      BY <1>3, <1>4, <2>1, <2>2, <2>3, <3>1, Zenon DEF SourceInv, NoDeadRoute, Registered
  <2>7. BoundInv'
    BY <1>3, <1>4, <2>1, <2>2, <2>3 DEF BoundInv, Registered, Actors
  <2> QED
    BY <2>4, <2>5, <2>6, <2>7, Zenon DEF RoutesInv
<1>10. ASSUME NEW a \in Actors, NEW i \in Index, RetireIndex(a, i) PROVE RoutesInv'
  <2> DEFINE m == [do |-> "Retire", key |-> owner[a], index |-> i]
  <2>1. /\ UNCHANGED <<owner, registry, indices, loop, removing, drawn>>
        /\ control' = Sent(m) /\ i \in held[a]
        /\ held' = [held EXCEPT ![a] = @ \ {i}]
    BY <1>10, Zenon DEF RetireIndex, Post, tables
  <2>2. m \in Message
    BY <1>1, Zenon DEF Message
  <2>3. /\ held'[a] = held[a] \ {i}
        /\ \A b \in Actors : held'[b] \subseteq held[b]
    BY <1>1, <2>1, Zenon
  <2>4. HeldInv'
    BY <1>3, <2>1, <2>3, Zenon DEF HeldInv, Actors
  <2>5. ControlInv'
    BY <1>3, <1>4, <2>1, <2>2, <2>3 DEF ControlInv, HeldInv, Registered, Actors
  <2>6. SourceInv' /\ NoDeadRoute'
    BY <1>3, <1>4, <2>1, <2>2, Zenon DEF SourceInv, NoDeadRoute, Registered
  <2>7. BoundInv'
    BY <1>3, <1>4, <2>1, <2>2, <2>3, Zenon DEF BoundInv, Registered, Actors
  <2> QED
    BY <2>4, <2>5, <2>6, <2>7 DEF RoutesInv
<1>11. CASE ApplyControl
  <2> DEFINE m == Head(control)
  <2>1. /\ UNCHANGED <<owner, registry, removing, drawn, held, loop>>
        /\ m \in Message /\ Range(control) = {m} \cup Range(control')
    BY <1>1, <1>11, RangeTail, Zenon DEF ApplyControl, tables
  <2>2. HeldInv' /\ ControlInv'
    BY <1>3, <2>1, Zenon DEF HeldInv, ControlInv, Registered, Actors
  <2>3. CASE m.do = "Bind"
    <3>1. m.key \in Key /\ m.index \in Index
      BY <2>1, <2>3, Zenon DEF Message
    <3>2. CASE registry[m.key] = 0 \/ indices[m.index] # 0
      <4>1. indices' = indices
        BY <1>11, <2>3, <3>2, Zenon DEF ApplyControl, Bind
      <4>2. SourceInv' /\ NoDeadRoute'
        BY <1>3, <2>1, <2>3, <4>1 DEF SourceInv, NoDeadRoute, Registered
      <4>3. ASSUME NEW a \in Actors, NEW i \in held[a], Registered(a), loop # "ended",
                   \A b \in Actors \ {a} : i \notin drawn[b]
            PROVE  \/ indices[i] = a
                   \/ [do |-> "Bind", key |-> owner[a], index |-> i] \in Range(control')
        <5>1. i \in Index
          BY <1>1, ElementOfSeq DEF Actors
        <5>2. CASE m = [do |-> "Bind", key |-> owner[a], index |-> i]
          <6>1. indices[i] # 0 /\ indices[i] \in Actors
            BY <1>1, <3>2, <4>3, <5>1, <5>2 DEF Registered, Actors
          <6>2. PICK b \in 1 .. indices[i] : owner[b] = owner[indices[i]] /\ i \in drawn[b]
            BY <1>3, <5>1, <6>1, Zenon DEF SourceInv
          <6>3. b = a
            BY <1>1, <4>3, <6>1, <6>2 DEF Actors
          <6>4. indices[i] <= a
            BY <1>1, <4>3, <6>1, <6>2, <6>3 DEF RegistryInv, Registered, Actors
          <6> QED
            BY <1>1, <6>1, <6>2, <6>3, <6>4 DEF Actors
        <5> QED
          BY <1>3, <2>1, <4>3, <5>2, Zenon DEF BoundInv
      <4>4. BoundInv'
        BY <2>1, <4>1, <4>3, Zenon DEF BoundInv, Registered, Actors
      <4> QED
        BY <2>2, <4>2, <4>4, Zenon DEF RoutesInv
    <3>3. CASE registry[m.key] # 0 /\ indices[m.index] = 0
      <4> DEFINE r == registry[m.key]
      <4>1. indices' = [indices EXCEPT ![m.index] = r]
        BY <1>11, <2>3, <3>3, Zenon DEF ApplyControl, Bind
      <4>2. /\ r \in Actors /\ owner[r] = m.key /\ Registered(r)
            /\ \E b \in 1 .. r : owner[b] = m.key /\ m.index \in drawn[b]
        <5>1. r \in Actors /\ owner[r] = m.key
          BY <1>1, <3>1, <3>3 DEF RegistryInv, Actors
        <5>2. PICK b \in Actors : owner[b] = m.key /\ m.index \in drawn[b]
          BY <1>3, <2>1, <2>3, Zenon DEF ControlInv
        <5>3. b <= r
          BY <3>1, <3>3, <5>2, Zenon DEF RegistryInv
        <5>4. b \in 1 .. r /\ Registered(r)
          BY <1>1, <5>1, <5>3 DEF Registered, Actors
        <5> QED
          BY <5>1, <5>2, <5>4, Zenon
      <4> HIDE DEF r
      <4>3. \A i \in Index : indices'[i] = IF i = m.index THEN r ELSE indices[i]
        BY <1>1, <4>1, Zenon
      <4>5. SourceInv'
        BY <1>3, <2>1, <4>2, <4>3 DEF SourceInv
      <4>6. NoDeadRoute'
        BY <1>3, <2>1, <2>3, <4>2, <4>3 DEF NoDeadRoute, Registered
      <4>4. BoundInv'
        <5> SUFFICES ASSUME NEW a \in Actors, NEW i \in held[a], Registered(a),
                            loop # "ended", \A b \in Actors \ {a} : i \notin drawn[b]
                     PROVE  \/ indices'[i] = a
                            \/ [do |-> "Bind", key |-> owner[a], index |-> i] \in Range(control')
          BY <2>1, Zenon DEF BoundInv, Registered, Actors
        <5>1. i \in Index /\ a # 0
          BY <1>1, ElementOfSeq DEF Actors
        <5>2. CASE indices[i] = a
          BY <1>1, <3>3, <4>1, <5>1, <5>2, Zenon
        <5>3. CASE m = [do |-> "Bind", key |-> owner[a], index |-> i]
          BY <1>1, <4>1, <5>1, <5>3, SMTT(30) DEF r, Registered
        <5> QED
          BY <1>3, <2>1, <5>2, <5>3, Zenon DEF BoundInv
      <4> QED
        BY <2>2, <4>4, <4>5, <4>6, Zenon DEF RoutesInv
    <3> QED
      BY <3>2, <3>3, Zenon
  <2>4. CASE m.do = "Retire"
    <3>1. /\ m.key \in Key /\ m.index \in Index
      BY <2>1, <2>4, Zenon DEF Message
    <3>2. \/ indices' = indices
          \/ /\ registry[m.key] # 0 /\ indices[m.index] = registry[m.key]
             /\ indices' = [indices EXCEPT ![m.index] = 0]
      BY <1>11, <2>4, Zenon DEF ApplyControl, Retire
    <3>3. \A i \in Index : indices'[i] # 0 => indices'[i] = indices[i]
      BY <1>1, <3>1, <3>2, Zenon
    <3>4. SourceInv' /\ NoDeadRoute'
      BY <1>3, <2>1, <2>4, <3>3 DEF SourceInv, NoDeadRoute, Registered
    <3>5. BoundInv'
      <4> SUFFICES ASSUME NEW a \in Actors, NEW i \in held[a], Registered(a),
                          loop # "ended", \A b \in Actors \ {a} : i \notin drawn[b]
                   PROVE  \/ indices'[i] = a
                          \/ [do |-> "Bind", key |-> owner[a], index |-> i] \in Range(control')
        BY <2>1 DEF BoundInv, Registered, Actors
      <4>1. i \in Index /\ a # 0
        BY <1>1, ElementOfSeq DEF Actors
      <4>2. ASSUME indices[i] = a, i = m.index, registry[m.key] = a PROVE FALSE
        <5>1. owner[a] = m.key
          BY <3>1, <4>1, <4>2, Zenon DEF RegistryInv
        <5>2. PICK b \in Actors : owner[b] = m.key /\ i \in drawn[b] \ held[b]
          BY <1>3, <2>1, <2>4, <4>2, Zenon DEF ControlInv
        <5> QED
          BY <5>2, Zenon
      <4>3. CASE indices[i] = a
        BY <1>1, <3>1, <3>2, <4>1, <4>2, <4>3, Zenon
      <4> QED
        BY <1>3, <2>1, <2>4, <4>3 DEF BoundInv
    <3> QED
      BY <2>2, <3>4, <3>5 DEF RoutesInv
  <2>5. CASE m.do = "Purge"
    <3>1. \A i \in Index : indices'[i] = IF indices[i] = m.actor THEN 0 ELSE indices[i]
      BY <1>11, <2>5, Zenon DEF ApplyControl, Purge
    <3>2. m.actor \in Actors /\ ~Registered(m.actor)
      BY <1>3, <2>1, <2>5, Zenon DEF ControlInv
    <3>3. SourceInv' /\ NoDeadRoute'
      BY <1>3, <2>1, <3>1 DEF SourceInv, NoDeadRoute, Registered
    <3>4. BoundInv'
      <4> SUFFICES ASSUME NEW a \in Actors, NEW i \in held[a], Registered(a),
                          loop # "ended", \A b \in Actors \ {a} : i \notin drawn[b]
                   PROVE  \/ indices'[i] = a
                          \/ [do |-> "Bind", key |-> owner[a], index |-> i] \in Range(control')
        BY <2>1 DEF BoundInv, Registered, Actors
      <4>1. i \in Index /\ a # 0
        BY <1>1, ElementOfSeq DEF Actors
      <4> QED
        BY <1>3, <2>1, <2>5, <3>1, <3>2, <4>1 DEF BoundInv
    <3> QED
      BY <2>2, <3>3, <3>4 DEF RoutesInv
  <2> QED
    BY <2>1, <2>3, <2>4, <2>5, Zenon DEF Message
<1>12. CASE AbortLoop
  <2>1. Range(<<>>) = {}
    BY DEF Range
  <2> QED
    BY <1>3, <1>12, <2>1, Zenon DEF AbortLoop, tables, RoutesInv, HeldInv, ControlInv, SourceInv,
                             NoDeadRoute, BoundInv, Actors
<1>13. CASE DropTunnel
  BY <1>5, <1>13, Zenon DEF DropTunnel
<1>14. CASE PollSocket \/ ReceiveBatch
  BY <1>5, <1>14, Zenon DEF PollSocket, ReceiveBatch, tables
<1>15. ASSUME NEW c \in Caller,
              \/ FinishCall(c) \/ \E k \in Key : SetPeer(c, k)
              \/ \E a \in Actors : Entry(c, a) \/ TrySendData(c, a)
       PROVE  RoutesInv'
  BY <1>5, <1>15, Zenon DEF FinishCall, SetPeer, Entry, TrySendData, Called, tables
<1>16. ASSUME NEW a \in Actors, FinishAdd(a) \/ HandleAction(a) \/ Stop(a) PROVE RoutesInv'
  BY <1>5, <1>16, Zenon DEF FinishAdd, HandleAction, Stop, tables
<1>17. ASSUME NEW d \in Key \cup Index, Arrive(d) PROVE RoutesInv'
  BY <1>5, <1>17, Zenon DEF Arrive, tables
<1>18. CASE UNCHANGED vars
  BY <1>5, <1>18, Zenon DEF vars, tables
<1> QED
  BY <1>6, <1>7, <1>8, <1>9, <1>10, <1>11, <1>12, <1>13, <1>14, <1>15, <1>16, <1>17, <1>18, Zenon
     DEF Next, ReadLoop

\* Every step preserves CallInv: between the two looks of PeerSender::entry
\* anything may happen, but nothing that makes its answer wrong.
LEMMA CallNext == Typed /\ CallInv /\ [Next]_vars => CallInv'
<1> SUFFICES ASSUME Typed, CallInv, [Next]_vars PROVE CallInv'
  OBVIOUS
<1>1. /\ \A a \in Actors : Registered(a)' => Registered(a)
      /\ TableAlive' => TableAlive
      /\ tunnel' => tunnel
  BY TableStep, Zenon
<1>2. /\ call \in [Caller -> [at : CallStates, actor : 0 .. Len(owner)]]
      /\ \A c \in Caller : call[c].at # "idle" => call[c].actor \in Actors
  BY LenProperties DEF Typed, Actors
<1>3. ASSUME UNCHANGED call PROVE CallInv'
  BY <1>1, <1>2, <1>3, Zenon DEF CallInv, Registered
<1>4. ASSUME NEW c \in Caller, NEW at, NEW a \in Actors, Called(c, at, a),
             /\ at = "TunnelClosed" => ~TableAlive
             /\ at = "PeerRemoved" => ~Registered(a)
             /\ at = "lost" => ~TableAlive \/ ~Registered(a)
      PROVE  CallInv'
  <2>1. call' = [call EXCEPT ![c] = [at |-> at, actor |-> a]]
    BY <1>4, Zenon DEF Called
  <2>2. TableAlive' = TableAlive /\ tunnel' = tunnel /\ \A b : Registered(b)' = Registered(b)
    BY <1>4, Zenon DEF Called, tables, TableAlive, Registered
  <2>3. ~TableAlive => ~tunnel
    BY Zenon DEF TableAlive
  <2> QED
    BY <1>2, <1>4, <2>1, <2>2, <2>3, Zenon DEF CallInv, Registered
<1>5. ASSUME NEW c \in Caller, FinishCall(c) PROVE CallInv'
  <2>1. call[c].actor \in Actors
    BY <1>2, <1>5, Zenon DEF FinishCall
  <2> QED
    BY <1>4, <1>5, <2>1 DEF FinishCall
<1>6. ASSUME NEW c \in Caller, NEW k \in Key, SetPeer(c, k) PROVE CallInv'
  <2>1. registry[k] \in Actors
    BY <1>6, LenProperties DEF SetPeer, Typed, Actors
  <2> QED
    BY <1>4, <1>6, <2>1, Zenon DEF SetPeer
<1>7. ASSUME NEW c \in Caller, NEW a \in Actors, Entry(c, a) PROVE CallInv'
  <2>1. CASE ~Calling(c)
    <3>1. Called(c, IF EntryAlive(a) THEN "send" ELSE "lost", a)
      BY <1>7, <2>1, Zenon DEF Entry, Calling
    <3>2. ~EntryAlive(a) => ~TableAlive \/ ~Registered(a)
      BY Zenon DEF EntryAlive
    <3> QED
      BY <1>4, <3>1, <3>2, Zenon
  <2>2. CASE call[c].at = "lost" /\ call[c].actor = a
    <3>1. Called(c, IF TableAlive THEN "PeerRemoved" ELSE "TunnelClosed", a)
      BY <1>7, <2>2, Zenon DEF Entry, Calling
    <3>2. TableAlive => ~Registered(a)
      BY <2>2, Zenon DEF CallInv
    <3> QED
      BY <1>4, <3>1, <3>2, Zenon
  <2> QED
    BY <1>7, <2>1, <2>2, Zenon DEF Entry
<1>8. ASSUME NEW c \in Caller, NEW a \in Actors, TrySendData(c, a) PROVE CallInv'
  BY <1>4, <1>8, Zenon DEF TrySendData
<1>9. CASE DropTunnel \/ ReadLoop \/ AbortLoop
  BY <1>3, <1>9, Zenon DEF DropTunnel, ReadLoop, ApplyControl, PollSocket, ReceiveBatch, AbortLoop
<1>10. ASSUME NEW k \in Key, AddPeer(k) \/ RemovePeer(k) PROVE CallInv'
  BY <1>3, <1>10, Zenon DEF AddPeer, RemovePeer
<1>11. ASSUME NEW a \in Actors,
              \/ FinishAdd(a) \/ SendPurge(a) \/ HandleAction(a) \/ Stop(a)
              \/ \E i \in Index : BindIndex(a, i) \/ RetireIndex(a, i)
       PROVE  CallInv'
  BY <1>3, <1>11, Zenon DEF FinishAdd, SendPurge, HandleAction, Stop, BindIndex, RetireIndex
<1>12. ASSUME NEW d \in Key \cup Index, Arrive(d) PROVE CallInv'
  BY <1>3, <1>12, Zenon DEF Arrive
<1>13. CASE UNCHANGED vars
  BY <1>3, <1>13, Zenon DEF vars
<1> QED
  BY <1>5, <1>6, <1>7, <1>8, <1>9, <1>10, <1>11, <1>12, <1>13, Zenon DEF Next

-----------------------------------------------------------------------------
\* A tunnel that was just created satisfies the invariant.
LEMMA InitIInv == Init => IInv
<1> SUFFICES ASSUME Init PROVE IInv
  OBVIOUS
<1> USE DEF Init
<1>1. owner = <<>> /\ Len(owner) = 0 /\ Actors = {}
  BY DEF Actors
<1>2. Range(control) = {}
  BY DEF Range
<1>3. Typed
  <2>1. /\ owner \in Seq(Key) /\ control \in Seq(Message) /\ drawn \in Seq(SUBSET Index)
        /\ held \in Seq(SUBSET Index) /\ queue \in Seq(0 .. PEER_ACTION_QUEUE_CAPACITY)
    BY EmptySeq, Zenon
  <2> QED
    BY <1>1, <2>1, FS_EmptySet, RouterAssumption DEF Typed, CallStates
<1>4. RegistryInv
  BY <1>1 DEF RegistryInv
<1>5. RoutesInv
  BY <1>1, <1>2, Zenon DEF RoutesInv, HeldInv, ControlInv, SourceInv, NoDeadRoute, BoundInv
<1>6. CallInv
  BY Zenon DEF CallInv
<1> QED
  BY <1>3, <1>4, <1>5, <1>6, Zenon DEF IInv

\* IInv holds in every reachable state of the tunnel.
THEOREM Inductive == Spec => []IInv
<1>1. Init => IInv
  BY InitIInv, Zenon
<1>2. IInv /\ [Next]_vars => IInv'
  BY TypedNext, RegistryNext, RoutesNext, CallNext, Zenon DEF IInv
<1> QED
  BY <1>1, <1>2, PTL DEF Spec

\* The invariant implies TypeOK.
LEMMA IInvTypeOK == IInv => TypeOK
<1> SUFFICES ASSUME IInv PROVE TypeOK
  OBVIOUS
<1>1. /\ Typed /\ RegistryInv /\ HeldInv
      /\ Len(owner) \in Nat /\ \A a \in Actors : owner[a] \in Key
  BY LenProperties, ElementOfSeq, Zenon DEF IInv, RoutesInv, Typed, Actors
<1>2. \A a \in Actors : /\ held[a] \subseteq drawn[a] /\ drawn[a] \subseteq Index
                        /\ queue[a] \in 0 .. PEER_ACTION_QUEUE_CAPACITY
  <2>1. \A a \in Actors : drawn[a] \in SUBSET Index
    BY <1>1, ElementOfSeq, Zenon DEF Typed, Actors
  <2>2. \A a \in Actors : queue[a] \in 0 .. PEER_ACTION_QUEUE_CAPACITY
    BY <1>1, ElementOfSeq, Zenon DEF Typed, Actors
  <2> QED
    BY <1>1, <2>1, <2>2, Zenon DEF HeldInv
<1>3. \A k \in Key : registry[k] # 0 =>
        owner[registry[k]] = k /\ (TableAlive => registry[k] \in Live)
  BY <1>1 DEF Typed, RegistryInv, Live, Actors
<1> QED
  BY <1>1, <1>2, <1>3 DEF TypeOK, Typed, RegistryInv, Live, Actors

\* The maps are well typed, queues stay within PEER_ACTION_QUEUE_CAPACITY,
\* and the entry of a key is a running actor of that key as long as the
\* registry lives (register_peer, remove_peer, the actors' run).
THEOREM RegistryWellTyped == Spec => []TypeOK
BY Inductive, IInvTypeOK, PTL

\* A Bind that loses the race with remove_peer plants no lasting route: a
\* route to an unregistered actor always has a Purge on its way (bind_index,
\* remove_peer, IndexRouter::apply).
THEOREM NoRouteToTheDead == Spec => []NoDeadRoute
<1>1. IInv => NoDeadRoute
  BY Zenon DEF IInv, RoutesInv
<1> QED
  BY <1>1, Inductive, PTL

\* Whenever the control queue is drained, every index that a registered actor
\* answers to and no other actor drew is routed to it (bind_index,
\* retire_index and IndexRouter::apply, in whatever order the queue mixes
\* them).
THEOREM HeldIndicesAreRouted == Spec => []HeldIsRouted
<1>1. IInv => HeldIsRouted
  <2> SUFFICES ASSUME BoundInv, control = <<>> PROVE HeldIsRouted
    BY Zenon DEF IInv, RoutesInv, HeldIsRouted
  <2>1. Range(control) = {}
    BY DEF Range
  <2> QED
    BY <2>1, Zenon DEF BoundInv, HeldIsRouted
<1> QED
  BY <1>1, Inductive, PTL

\* PeerSender::entry reports TunnelClosed only for a dropped tunnel and
\* PeerRemoved only for a peer that was removed, although it looks at the
\* entry and at the registry at different moments.
THEOREM ErrorsNameTheirCause == Spec => []ErrorNamesCause
<1>1. IInv => ErrorNamesCause
  BY Zenon DEF IInv, CallInv, ErrorNamesCause
<1> QED
  BY <1>1, Inductive, PTL

\* No step of anyone takes a route from a registered actor that still answers
\* to it, unless an actor of the same key drew the index too or the read loop
\* ends: not the Bind or the Retire of another key with the same index, not
\* the Purge of its predecessor.
THEOREM RoutesAreKept == Spec => RouteKept
<1> DEFINE Kept == \A i \in Index :
                     LET a == indices[i]
                     IN  a # 0 /\ Registered(a) /\ i \in held[a] /\ ~SharedWithKin(a, i) =>
                           indices'[i] = a \/ loop' = "ended"
<1>1. ASSUME IInv, [Next]_vars PROVE [Kept]_vars
  <2> SUFFICES ASSUME NEW i \in Index, NEW a, a = indices[i], a # 0, Registered(a),
                      i \in held[a], ~SharedWithKin(a, i), loop' # "ended"
               PROVE  indices'[i] = a
    OBVIOUS
  <2>1. /\ Typed /\ RegistryInv /\ ControlInv
        /\ indices \in [Index -> 0 .. Len(owner)] /\ control \in Seq(Message)
    BY <1>1, Zenon DEF IInv, RoutesInv, Typed
  <2>2. CASE UNCHANGED indices
    BY <2>2, Zenon
  <2>3. CASE ApplyControl
    <3> DEFINE m == Head(control)
    <3>1. m \in Message /\ m \in Range(control)
      BY <2>1, <2>3, RangeTail, Zenon DEF ApplyControl
    <3>2. CASE m.do = "Bind"
      BY <2>1, <2>3, <3>1, <3>2, Zenon DEF ApplyControl, Bind, Message
    <3>3. CASE m.do = "Retire"
      <4>1. m.key \in Key /\ m.index \in Index
        BY <3>1, <3>3, Zenon DEF Message
      <4>2. ASSUME m.index = i, registry[m.key] = a PROVE FALSE
        <5>1. owner[a] = m.key
          BY <2>1, <4>1, <4>2, Zenon DEF RegistryInv
        <5>2. PICK b \in Actors : owner[b] = m.key /\ i \in drawn[b] \ held[b]
          BY <2>1, <3>1, <3>3, <4>2, Zenon DEF ControlInv
        <5> QED
          BY <5>1, <5>2, Zenon DEF SharedWithKin
      <4> QED
        BY <2>1, <2>3, <3>3, <4>1, <4>2, Zenon DEF ApplyControl, Retire
    <3>4. CASE m.do = "Purge"
      BY <2>1, <2>3, <3>1, <3>4, Zenon DEF ApplyControl, Purge, ControlInv
    <3> QED
      BY <3>1, <3>2, <3>3, <3>4, Zenon DEF Message
  <2> QED
    BY <1>1, <2>2, <2>3, Zenon
       DEF Next, ReadLoop, PollSocket, ReceiveBatch, AbortLoop, DropTunnel, AddPeer, RemovePeer,
           FinishCall, SetPeer, Entry, TrySendData, Called, FinishAdd, SendPurge, HandleAction,
           Stop, BindIndex, RetireIndex, Arrive, vars
<1> QED
  BY <1>1, Inductive, PTL DEF Spec, RouteKept
=============================================================================
