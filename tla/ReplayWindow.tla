---------------------------- MODULE ReplayWindow ----------------------------
(***************************************************************************)
(* What duplicate detection promises a session, without the bitmap: the    *)
(* set of counters accepted so far, and a verdict for each counter         *)
(* offered.  A counter is accepted when it is below the limit, has not     *)
(* been accepted before, and is at most Window behind every accepted one.  *)
(***************************************************************************)
EXTENDS CounterWindow

CONSTANT Counters  \* the counters that authenticated packets carry

VARIABLES
  accepted, \* every counter accepted so far
  verdict   \* the last counter offered, and whether it was accepted

vars == <<accepted, verdict>>

Init ==
  /\ accepted = {}
  /\ verdict = [ok |-> FALSE]

Accept(c) ==
  /\ Fresh(accepted, c)
  /\ accepted' = accepted \cup {c}
  /\ verdict' = [counter |-> c, ok |-> TRUE]

Reject(c) ==
  /\ ~Fresh(accepted, c)
  /\ verdict' = [counter |-> c, ok |-> FALSE]
  /\ UNCHANGED accepted

Next == \E c \in Counters : Accept(c) \/ Reject(c)

Spec == Init /\ [][Next]_vars
=============================================================================
