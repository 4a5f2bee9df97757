-------------------------- MODULE CryptokeyRouting --------------------------
(***************************************************************************)
(* What a device promises about AllowedIPs: every prefix has at most one   *)
(* owner, the registered peer that claimed it last, and a peer's prefixes  *)
(* go when they are replaced or the peer is removed.                       *)
(***************************************************************************)
CONSTANTS Key, Net, None

VARIABLES
  request,   \* the last change asked for: [op, key, nets]
  owner,     \* prefix -> the key it routes to, or None
  registered \* keys of the registered peers

Init ==
  /\ request = [op |-> None]
  /\ owner = [net \in Net |-> None]
  /\ registered = {}

Released(key) == [net \in Net |-> IF owner[net] = key THEN None ELSE owner[net]]

Claimed(table, key, nets) == [net \in Net |-> IF net \in nets THEN key ELSE table[net]]

Register(key, nets) ==
  /\ request' = [op |-> "add", key |-> key, nets |-> nets]
  /\ key \notin registered
  /\ registered' = registered \cup {key}
  /\ owner' = Claimed(owner, key, nets)

Replace(key, nets) ==
  /\ request' = [op |-> "set", key |-> key, nets |-> nets]
  /\ key \in registered
  /\ owner' = Claimed(Released(key), key, nets)
  /\ UNCHANGED registered

Unregister(key) ==
  /\ request' = [op |-> "remove", key |-> key, nets |-> {}]
  /\ key \in registered
  /\ registered' = registered \ {key}
  /\ owner' = Released(key)

Next ==
  \E key \in Key :
    \/ \E nets \in SUBSET Net : Register(key, nets) \/ Replace(key, nets)
    \/ Unregister(key)

Spec == Init /\ [][Next]_<<request, owner, registered>>
=============================================================================
