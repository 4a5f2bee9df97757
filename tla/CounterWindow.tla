--------------------------- MODULE CounterWindow ----------------------------
(* When a receive counter is new to a session, given the counters the       *)
(* session has accepted.  This is the promise of the replay filter that     *)
(* the rest of the protocol relies on; ReplayFilter implements it.          *)
EXTENDS Integers

CONSTANTS
  Window,   \* how far behind the highest accepted counter one may still be
  Limit     \* counters from here on are never accepted

Fresh(acc, c) ==
  /\ c < Limit
  /\ c \notin acc
  /\ \A a \in acc : a - c <= Window
=============================================================================
