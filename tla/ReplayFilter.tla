---------------------------- MODULE ReplayFilter ----------------------------
(***************************************************************************)
(* The sliding-window replay filter of protocol/src/transport.rs: a ring   *)
(* of COUNTER_BLOCKS blocks of COUNTER_BLOCK_BITS bits, addressed by the   *)
(* counter's block number modulo the number of blocks, and the highest     *)
(* counter seen.  A block of bits is the set of the bit positions that are *)
(* set.                                                                    *)
(***************************************************************************)
EXTENDS Integers

CONSTANTS
  COUNTER_BLOCK_BITS,     \* bits in a block of the ring (64)
  COUNTER_BLOCKS,         \* blocks in the ring (128)
  REJECT_AFTER_MESSAGES,  \* first counter that is never valid
  Counters                \* the counters authenticated packets carry

ASSUME FilterAssumption ==
  /\ COUNTER_BLOCK_BITS \in Nat \ {0}
  /\ COUNTER_BLOCKS \in Nat \ {0}
  /\ REJECT_AFTER_MESSAGES \in Nat
  /\ Counters \subseteq Nat

VARIABLES
  last,     \* the highest counter accepted, 0 before the first
  ring,     \* slot -> set of bit positions
  accepted, \* history: the counters validate has returned true for
  verdict   \* history: the last counter offered and what validate returned

vars == <<last, ring, accepted, verdict>>

\* Mutant: the window counts the block that is being filled.
WholeRingWindow == COUNTER_BLOCKS * COUNTER_BLOCK_BITS

COUNTER_WINDOW == (COUNTER_BLOCKS - 1) * COUNTER_BLOCK_BITS

Block(c) == c \div COUNTER_BLOCK_BITS

Bit(c) == c % COUNTER_BLOCK_BITS

Slots == 0 .. COUNTER_BLOCKS - 1

Bits == 0 .. COUNTER_BLOCK_BITS - 1

Slot(b) == b % COUNTER_BLOCKS

new ==
  /\ last = 0
  /\ ring = [s \in Slots |-> {}]

\* Mutant: the block that c falls in is left out of the range.
PassedExclusive(c) == {Slot(b) : b \in Block(last) + 1 .. Block(c) - 1}

\* The slots of the blocks the window moves over on the way to counter c: at
\* most one lap of the ring.
Passed(c) ==
  LET current == Block(last)
      gap == Block(c) - current
      diff == IF gap < COUNTER_BLOCKS THEN gap ELSE COUNTER_BLOCKS
  IN  {Slot(b) : b \in current + 1 .. current + diff}

\* The ring that the bit of counter c is looked up in.
Slid(c) ==
  IF c > last
  THEN [s \in Slots |-> IF s \in Passed(c) THEN {} ELSE ring[s]]
  ELSE ring

\* `last` once counter c is through.
Advanced(c) == IF c > last THEN c ELSE last

Expelled(c) ==
  \/ c >= REJECT_AFTER_MESSAGES
  \/ c <= last /\ last - c > COUNTER_WINDOW

Refuse(c) ==
  /\ Expelled(c)
  /\ verdict' = [counter |-> c, ok |-> FALSE]
  /\ UNCHANGED <<last, ring, accepted>>

\* validate past its early returns: slide, test the bit, set it.  The slide
\* is kept when the bit turns out to be set.
Mark(c) ==
  LET s == Slot(Block(c))
      slid == Slid(c)
      seen == Bit(c) \in slid[s]
  IN  /\ ~Expelled(c)
      /\ last' = Advanced(c)
      /\ ring' = [slid EXCEPT ![s] = @ \cup {Bit(c)}]
      /\ verdict' = [counter |-> c, ok |-> ~seen]
      /\ accepted' = IF seen THEN accepted ELSE accepted \cup {c}

validate(c) == Refuse(c) \/ Mark(c)

Init ==
  /\ new
  /\ accepted = {}
  /\ verdict = [ok |-> FALSE]

Next == \E c \in Counters : validate(c)

Spec == Init /\ [][Next]_vars

-----------------------------------------------------------------------------
\* The state of a filter is a counter and a ring of bit sets.
TypeOK ==
  /\ last \in Nat
  /\ ring \in [Slots -> SUBSET Bits]
  /\ accepted \subseteq Nat

\* `last` is the highest counter accepted: validate never moves the window
\* for a counter that it then refuses.
LastIsHighest ==
  /\ \A a \in accepted : a <= last
  /\ IF accepted = {} THEN last = 0 ELSE last \in accepted

\* In the COUNTER_BLOCKS blocks that end with the block of `last`, a bit is
\* set exactly when its counter was accepted.  A slot is shared by every
\* COUNTER_BLOCKS-th block, so this says that validate clears every slot it
\* reuses, and no other, however far the window jumps.
RingExact ==
  \A b \in 0 .. Block(last), i \in Bits :
    b + COUNTER_BLOCKS > Block(last) =>
      (i \in ring[Slot(b)] <=> b * COUNTER_BLOCK_BITS + i \in accepted)

\* validate answers as the unbounded record of accepted counters would: every
\* counter is accepted at most once, and every counter below the limit that
\* is new and not older than the window is accepted.
RW == INSTANCE ReplayWindow WITH
        Window <- COUNTER_WINDOW,
        Limit <- REJECT_AFTER_MESSAGES

ImplementsWindow == RW!Spec
=============================================================================
