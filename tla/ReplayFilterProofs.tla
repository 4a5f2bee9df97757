------------------------- MODULE ReplayFilterProofs -------------------------
(***************************************************************************)
(* Proofs about the replay filter, for every block size, ring size, limit  *)
(* and set of counters.  The inductive invariant is TypeOK /\              *)
(* LastIsHighest /\ RingExact: the ring is an exact record of the accepted *)
(* counters in the blocks it still holds, which is what makes the bit test *)
(* the membership test of the abstract window.                             *)
(***************************************************************************)
EXTENDS ReplayFilter, TLAPS

-----------------------------------------------------------------------------
(* Arithmetic of blocks and slots.                                         *)

\* Division with remainder, of an integer and of a natural number.
LEMMA DivModInt ==
  ASSUME NEW d \in Nat \ {0}, NEW c \in Int
  PROVE  /\ c \div d \in Int
         /\ c % d \in 0 .. d - 1
         /\ c = (c \div d) * d + (c % d)
OBVIOUS

\* The same for a natural number: the quotient is natural too.
LEMMA DivMod ==
  ASSUME NEW d \in Nat \ {0}, NEW c \in Nat
  PROVE  /\ c \div d \in Nat
         /\ c % d \in 0 .. d - 1
         /\ c = (c \div d) * d + (c % d)
OBVIOUS

\* The quotient and the remainder are unique.
LEMMA DivUnique ==
  ASSUME NEW d \in Nat \ {0}, NEW b \in Int, NEW i \in 0 .. d - 1
  PROVE  (b * d + i) \div d = b /\ (b * d + i) % d = i
OBVIOUS

\* Multiplication by a natural number is monotonic.
LEMMA MulMono ==
  ASSUME NEW d \in Nat, NEW p \in Int, NEW q \in Int, p <= q
  PROVE  p * d <= q * d
OBVIOUS

\* Two numbers less than d apart with the same remainder are equal: blocks
\* that the ring holds at the same time do not share a slot.
LEMMA ModUnique ==
  ASSUME NEW d \in Nat \ {0}, NEW p \in Nat, NEW q \in Nat,
         p % d = q % d, p <= q, q - p < d
  PROVE  p = q
<1> DEFINE x == p \div d
           y == q \div d
<1>1. /\ x \in Nat /\ p = x * d + (p % d)
      /\ y \in Nat /\ q = y * d + (q % d)
      /\ p % d \in 0 .. d - 1
  BY DivMod, Zenon
<1> HIDE DEF x, y
<1>2. q - p = y * d - x * d
  BY <1>1
<1>3. CASE y <= x
  BY <1>1, <1>2, <1>3, MulMono
<1>4. CASE y >= x + 1
  <2>1. (x + 1) * d <= y * d
    BY <1>1, <1>4, MulMono
  <2>2. (x + 1) * d = x * d + d
    BY <1>1
  <2> QED  BY <2>1, <2>2, <1>1, <1>2
<1> QED  BY <1>1, <1>3, <1>4

\* Any d consecutive numbers have every remainder: a jump of a whole lap
\* passes every slot.
LEMMA ModOnto ==
  ASSUME NEW d \in Nat \ {0}, NEW p \in Nat, NEW s \in 0 .. d - 1
  PROVE  \E b \in p + 1 .. p + d : b % d = s
<1> DEFINE r == (s - (p + 1)) % d
           q == (s - (p + 1)) \div d
<1>0. s - (p + 1) \in Int
  OBVIOUS
<1>1. r \in 0 .. d - 1 /\ q \in Int /\ s - (p + 1) = q * d + r
  BY <1>0, DivModInt, Zenon
<1> HIDE DEF r, q
<1>2. p + 1 + r = (-q) * d + s
  <2>1. (-q) * d = -(q * d)
    BY <1>1
  <2> QED  BY <1>1, <2>1
<1>3. (p + 1 + r) % d = s
  <2>1. -q \in Int
    BY <1>1
  <2>2. ((-q) * d + s) % d = s
    BY <2>1, DivUnique, Zenon
  <2> QED  BY <1>2, <2>2, Zenon
<1> QED  BY <1>1, <1>3

USE FilterAssumption

\* A counter lies in its block, at its bit.
LEMMA BlockBit ==
  ASSUME NEW c \in Nat
  PROVE  /\ Block(c) \in Nat
         /\ Bit(c) \in Bits
         /\ c = Block(c) * COUNTER_BLOCK_BITS + Bit(c)
         /\ c < (Block(c) + 1) * COUNTER_BLOCK_BITS
<1>1. /\ Block(c) \in Nat
      /\ Bit(c) \in Bits
      /\ c = Block(c) * COUNTER_BLOCK_BITS + Bit(c)
  BY DivMod, Zenon DEF Block, Bit, Bits
<1>2. (Block(c) + 1) * COUNTER_BLOCK_BITS
        = Block(c) * COUNTER_BLOCK_BITS + COUNTER_BLOCK_BITS
  BY <1>1
<1> QED  BY <1>1, <1>2 DEF Bits

\* A bit of a later block belongs to a higher counter.
LEMMA LaterBlock ==
  ASSUME NEW c \in Nat, NEW b \in Nat, NEW i \in Bits, b > Block(c)
  PROVE  b * COUNTER_BLOCK_BITS + i > c
<1>1. (Block(c) + 1) * COUNTER_BLOCK_BITS <= b * COUNTER_BLOCK_BITS
  BY MulMono, BlockBit
<1> QED  BY <1>1, BlockBit DEF Bits

\* Block and bit determine the counter.
LEMMA BlockBitUnique ==
  ASSUME NEW c \in Nat, NEW b \in Nat, NEW i \in Bits
  PROVE  b * COUNTER_BLOCK_BITS + i = c <=> b = Block(c) /\ i = Bit(c)
<1>1. (b * COUNTER_BLOCK_BITS + i) \div COUNTER_BLOCK_BITS = b
      /\ (b * COUNTER_BLOCK_BITS + i) % COUNTER_BLOCK_BITS = i
  BY DivUnique DEF Bits
<1> QED  BY <1>1, BlockBit, Zenon DEF Block, Bit

\* A higher counter is not in an earlier block.
LEMMA BlockMono ==
  ASSUME NEW c \in Nat, NEW e \in Nat, c <= e
  PROVE  Block(c) <= Block(e)
<1> SUFFICES ASSUME Block(c) > Block(e) PROVE FALSE
  BY BlockBit
<1>1. Block(c) * COUNTER_BLOCK_BITS + Bit(c) > e
  BY LaterBlock, BlockBit, Zenon
<1> QED  BY <1>1, BlockBit

\* A counter that is not older than the window is in a block the ring holds.
LEMMA WindowBlocks ==
  ASSUME NEW c \in Nat, NEW e \in Nat, e - c <= COUNTER_WINDOW
  PROVE  Block(c) + COUNTER_BLOCKS > Block(e)
<1> DEFINE B == COUNTER_BLOCK_BITS
           N == COUNTER_BLOCKS
<1> SUFFICES ASSUME Block(c) + N <= Block(e) PROVE FALSE
  BY BlockBit
<1>1. (Block(c) + N) * B <= Block(e) * B
  BY BlockBit, MulMono
<1>2. (Block(c) + N) * B = (Block(c) + 1) * B + (N - 1) * B
  BY BlockBit
<1>3. e - c <= (N - 1) * B /\ (N - 1) * B \in Int
  BY DEF COUNTER_WINDOW
<1>4. Block(e) * B <= e /\ c < (Block(c) + 1) * B
  BY BlockBit DEF Bits
<1>5. Block(e) * B \in Int /\ (Block(c) + 1) * B \in Int /\ (Block(c) + N) * B \in Int
  BY BlockBit
<1> HIDE DEF B, N
<1> QED  BY <1>1, <1>2, <1>3, <1>4, <1>5

-----------------------------------------------------------------------------
(* Sliding the ring.                                                       *)

\* The blocks the window moves over, up to the block of c, have their slots
\* cleared.
LEMMA PassedNew ==
  ASSUME NEW c \in Nat, last \in Nat,
         NEW b \in Nat, Block(last) < b, b <= Block(c)
  PROVE  Slot(b) \in Passed(c)
<1> DEFINE gap == Block(c) - Block(last)
<1>0. Block(last) \in Nat /\ Block(c) \in Nat
  BY BlockBit, Zenon
<1>1. CASE gap < COUNTER_BLOCKS
  <2>1. b \in Block(last) + 1 .. Block(last) + gap
    BY <1>0
  <2> QED  BY <2>1, <1>1, Zenon DEF Passed
<1>2. CASE ~(gap < COUNTER_BLOCKS)
  <2>1. Slot(b) \in 0 .. COUNTER_BLOCKS - 1
    BY DivMod, Zenon DEF Slot
  <2>2. PICK e \in Block(last) + 1 .. Block(last) + COUNTER_BLOCKS :
          e % COUNTER_BLOCKS = Slot(b)
    BY <1>0, <2>1, ModOnto, Zenon
  <2> QED  BY <1>2, <2>2, Zenon DEF Passed, Slot
<1> QED  BY <1>1, <1>2, Zenon

\* The slot of a block that was in the window and stays in it is kept.
LEMMA PassedOld ==
  ASSUME NEW c \in Nat, last \in Nat, last < c,
         NEW b \in Nat, b <= Block(last), b + COUNTER_BLOCKS > Block(c)
  PROVE  Slot(b) \notin Passed(c)
<1>0. Block(last) \in Nat /\ Block(c) \in Nat /\ Block(last) <= Block(c)
  BY BlockBit, BlockMono
<1> SUFFICES ASSUME Slot(b) \in Passed(c) PROVE FALSE
  OBVIOUS
<1>1. PICK e \in Block(last) + 1 .. Block(c) : Slot(e) = Slot(b)
  BY <1>0 DEF Passed
<1>2. e \in Nat /\ b <= e /\ e - b < COUNTER_BLOCKS
  BY <1>0, <1>1
<1>3. e = b
  BY <1>1, <1>2, ModUnique, Zenon DEF Slot
<1> QED  BY <1>0, <1>1, <1>3

\* The ring after the slide, before c's bit is set, records exactly the
\* accepted counters of the blocks it will then hold.
LEMMA SlidExact ==
  ASSUME TypeOK, LastIsHighest, RingExact, NEW c \in Nat, ~Expelled(c)
  PROVE  /\ Slid(c) \in [Slots -> SUBSET Bits]
         /\ Advanced(c) \in Nat
         /\ \A b \in 0 .. Block(Advanced(c)), i \in Bits :
              b + COUNTER_BLOCKS > Block(Advanced(c)) =>
                (i \in Slid(c)[Slot(b)]
                   <=> b * COUNTER_BLOCK_BITS + i \in accepted)
<1>1. Slid(c) \in [Slots -> SUBSET Bits] /\ Advanced(c) \in Nat
  BY Zenon DEF Slid, Advanced, TypeOK
<1>2. CASE c <= last
  BY <1>1, <1>2 DEF Slid, Advanced, RingExact, TypeOK
<1>3. CASE c > last
  <2> SUFFICES ASSUME NEW b \in 0 .. Block(c), NEW i \in Bits,
                      b + COUNTER_BLOCKS > Block(c)
               PROVE  i \in Slid(c)[Slot(b)]
                        <=> b * COUNTER_BLOCK_BITS + i \in accepted
    BY <1>1, <1>3, Zenon DEF Advanced, TypeOK
  <2>0. /\ last \in Nat /\ b \in Nat /\ Block(c) \in Nat /\ Block(last) \in Nat
        /\ Block(last) <= Block(c) /\ Slot(b) \in Slots
    <3>1. last \in Nat /\ b \in Nat /\ Block(c) \in Nat /\ Block(last) \in Nat
      BY BlockBit DEF TypeOK
    <3>2. Slot(b) \in Slots
      BY <3>1, DivMod, Zenon DEF Slot, Slots
    <3> QED  BY <1>3, <3>1, <3>2, BlockMono
  <2>1. CASE b <= Block(last)
    <3>1. Slot(b) \notin Passed(c)
      BY <1>3, <2>0, <2>1, PassedOld, Zenon
    <3>2. Slid(c)[Slot(b)] = ring[Slot(b)]
      BY <1>3, <2>0, <3>1, Zenon DEF Slid
    <3> QED  BY <2>0, <2>1, <3>2 DEF RingExact
  <2>2. CASE b > Block(last)
    <3>1. Slid(c)[Slot(b)] = {}
      BY <1>3, <2>0, <2>2, PassedNew DEF Slid
    <3>2. b * COUNTER_BLOCK_BITS + i > last
      BY <2>0, <2>2, LaterBlock, Zenon
    <3>3. \A a \in accepted : a \in Nat /\ a <= last
      BY Zenon DEF LastIsHighest, TypeOK
    <3> QED  BY <2>0, <3>1, <3>2, <3>3
  <2> QED  BY <2>0, <2>1, <2>2
<1> QED  BY <1>2, <1>3 DEF TypeOK

\* A counter that passes the early returns is in a block the ring then holds.
LEMMA Held ==
  ASSUME TypeOK, NEW c \in Nat, ~Expelled(c)
  PROVE  /\ Block(c) \in 0 .. Block(Advanced(c))
         /\ Block(c) + COUNTER_BLOCKS > Block(Advanced(c))
         /\ Slot(Block(c)) \in Slots
<1>0. Block(c) \in Nat /\ Bit(c) \in Bits /\ last \in Nat
  BY BlockBit, Zenon DEF TypeOK
<1>1. Slot(Block(c)) \in Slots
  BY <1>0, DivMod, Zenon DEF Slot, Slots
<1>2. CASE c > last
  BY <1>0, <1>1, <1>2 DEF Advanced
<1>3. CASE c <= last
  <2>1. last - c <= COUNTER_WINDOW
    BY <1>0, <1>3 DEF Expelled, COUNTER_WINDOW
  <2>2. Block(c) <= Block(last) /\ Block(c) + COUNTER_BLOCKS > Block(last)
    BY <1>0, <1>3, <2>1, BlockMono, WindowBlocks, Zenon
  <2> QED  BY <1>0, <1>1, <1>3, <2>2, BlockBit DEF Advanced
<1> QED  BY <1>0, <1>2, <1>3

\* The bit test is the membership test.
LEMMA BitTest ==
  ASSUME TypeOK, LastIsHighest, RingExact, NEW c \in Nat, ~Expelled(c)
  PROVE  Bit(c) \in Slid(c)[Slot(Block(c))] <=> c \in accepted
BY SlidExact, Held, BlockBit

-----------------------------------------------------------------------------
(* The inductive invariant.                                                *)

\* What a call of validate preserves: the ring alone does not determine what
\* was accepted, so the three facts are only inductive together.
IInv == TypeOK /\ LastIsHighest /\ RingExact

\* A new filter, which has accepted nothing, satisfies the invariant.
LEMMA InitIInv == Init => IInv
<1> SUFFICES ASSUME Init PROVE IInv
  OBVIOUS
<1>1. TypeOK /\ LastIsHighest
  BY Zenon DEF Init, new, TypeOK, LastIsHighest
<1>2. RingExact
  <2> SUFFICES ASSUME NEW b \in 0 .. Block(last), NEW i \in Bits
               PROVE  i \notin ring[Slot(b)]
    BY Zenon DEF RingExact, Init
  <2>1. Slot(b) \in Slots
    <3>1. last \in Nat /\ Block(last) \in Nat
      BY BlockBit, Zenon DEF Init, new
    <3> QED  BY <3>1, DivMod DEF Slot, Slots
  <2> QED  BY <2>1, Zenon DEF Init, new
<1> QED  BY <1>1, <1>2, Zenon DEF IInv

\* validate past its early returns preserves the invariant.
LEMMA MarkIInv ==
  ASSUME IInv, NEW c \in Nat, Mark(c)
  PROVE  IInv'
<1> DEFINE s == Slot(Block(c))
<1> USE DEF IInv
<1>0. ~Expelled(c) /\ c \in Nat /\ last \in Nat
  BY Zenon DEF Mark, TypeOK
<1>1. /\ Slid(c) \in [Slots -> SUBSET Bits]
      /\ Bit(c) \in Bits /\ s \in Slots
      /\ Advanced(c) \in Nat
  BY <1>0, SlidExact, Held, BlockBit, Zenon
<1>2. /\ last' = Advanced(c)
      /\ ring' = [Slid(c) EXCEPT ![s] = @ \cup {Bit(c)}]
      /\ accepted' = accepted \cup {c}
  BY <1>0, BitTest, Zenon DEF Mark
<1>3. TypeOK'
  BY <1>0, <1>1, <1>2, Zenon DEF TypeOK
<1>4. LastIsHighest'
  <2>1. CASE c > last
    BY <1>0, <1>2, <2>1 DEF LastIsHighest, TypeOK, Advanced
  <2>2. CASE c <= last
    BY <1>0, <1>2, <2>2 DEF LastIsHighest, TypeOK, Advanced
  <2> QED  BY <1>0, <2>1, <2>2
<1>5. RingExact'
  <2> SUFFICES ASSUME NEW b \in 0 .. Block(Advanced(c)), NEW i \in Bits,
                      b + COUNTER_BLOCKS > Block(Advanced(c))
               PROVE  i \in ring'[Slot(b)]
                        <=> b * COUNTER_BLOCK_BITS + i \in accepted'
    BY <1>2, Zenon DEF RingExact, Block, Slot, Bits
  <2>0. b \in Nat /\ Block(c) \in Nat /\ Block(Advanced(c)) \in Nat
    BY <1>0, <1>1, BlockBit
  <2>1. Slot(b) \in Slots
    BY <2>0, DivMod, Zenon DEF Slot, Slots
  <2>2. i \in Slid(c)[Slot(b)] <=> b * COUNTER_BLOCK_BITS + i \in accepted
    BY <1>0, SlidExact, Zenon
  <2>3. CASE b = Block(c)
    <3>1. ring'[Slot(b)] = Slid(c)[Slot(b)] \cup {Bit(c)}
      BY <1>1, <1>2, <2>3, Zenon
    <3>2. b * COUNTER_BLOCK_BITS + i = c <=> i = Bit(c)
      BY <2>0, <2>3, <1>0, BlockBitUnique, Zenon
    <3> QED  BY <1>2, <2>2, <3>1, <3>2, Zenon
  <2>4. CASE b # Block(c)
    <3>1. Slot(b) # s
      <4>1. /\ Block(c) <= Block(Advanced(c))
            /\ Block(c) + COUNTER_BLOCKS > Block(Advanced(c))
        BY <1>0, Held
      <4>2. \/ b <= Block(c) /\ Block(c) - b < COUNTER_BLOCKS
            \/ Block(c) <= b /\ b - Block(c) < COUNTER_BLOCKS
        BY <2>0, <4>1
      <4> QED  BY <2>0, <2>4, <4>2, ModUnique, Zenon DEF Slot
    <3>2. ring'[Slot(b)] = Slid(c)[Slot(b)]
      BY <1>1, <1>2, <2>1, <3>1, Zenon
    <3>3. b * COUNTER_BLOCK_BITS + i # c
      BY <2>0, <2>4, <1>0, BlockBitUnique, Zenon
    <3> QED  BY <1>2, <2>2, <3>2, <3>3, Zenon
  <2> QED  BY <2>3, <2>4, Zenon
<1> QED  BY <1>3, <1>4, <1>5, Zenon

\* Every call of validate preserves the invariant.
LEMMA NextIInv == IInv /\ [Next]_vars => IInv'
<1> SUFFICES ASSUME IInv, [Next]_vars PROVE IInv'
  OBVIOUS
<1>1. ASSUME NEW c \in Counters, Mark(c) PROVE IInv'
  BY <1>1, MarkIInv, Zenon
<1>2. CASE UNCHANGED <<last, ring, accepted>>
  BY <1>2, Zenon DEF IInv, TypeOK, LastIsHighest, RingExact, Block
<1> QED  BY <1>1, <1>2, Zenon DEF Next, validate, Refuse, vars

\* The ring is an exact record of the accepted counters in the blocks it
\* holds, and `last` is the highest of them, whatever counters arrive in
\* whatever order.
THEOREM FilterInvariant == Spec => [](TypeOK /\ LastIsHighest /\ RingExact)
BY InitIInv, NextIInv, PTL DEF Spec, IInv

\* validate moves `last` to a counter only when it accepts that counter, and
\* never back.
THEOREM LastIsTheHighest == Spec => []LastIsHighest
BY FilterInvariant, PTL

-----------------------------------------------------------------------------
(* The filter implements the window.                                       *)

\* validate returns true exactly for the counters the window calls fresh.
LEMMA FreshIffAccepted ==
  ASSUME IInv, NEW c \in Nat
  PROVE  RW!Fresh(accepted, c) <=> ~Expelled(c) /\ c \notin accepted
<1>0. /\ last \in Nat /\ accepted \subseteq Nat /\ COUNTER_WINDOW \in Nat
      /\ \A a \in accepted : a <= last
      /\ IF accepted = {} THEN last = 0 ELSE last \in accepted
  <2>1. COUNTER_WINDOW \in Nat
    BY DEF COUNTER_WINDOW
  <2> QED  BY <2>1, Zenon DEF IInv, TypeOK, LastIsHighest
<1>1. ASSUME ~Expelled(c), c \notin accepted PROVE RW!Fresh(accepted, c)
  BY <1>0, <1>1 DEF Expelled, RW!Fresh
<1>2. ASSUME RW!Fresh(accepted, c) PROVE ~Expelled(c) /\ c \notin accepted
  BY <1>0, <1>2 DEF Expelled, RW!Fresh
<1> QED  BY <1>1, <1>2, Zenon

\* Every call of validate is a step of the abstract window.
LEMMA StepRefines == IInv /\ [Next]_vars => [RW!Next]_(RW!vars)
<1> SUFFICES ASSUME IInv, [Next]_vars PROVE [RW!Next]_(RW!vars)
  OBVIOUS
<1>1. ASSUME NEW c \in Counters, Refuse(c) PROVE RW!Reject(c)
  BY <1>1, FreshIffAccepted, Zenon DEF Refuse, RW!Reject
<1>2. ASSUME NEW c \in Counters, Mark(c) PROVE RW!Accept(c) \/ RW!Reject(c)
  <2>0. c \in Nat /\ ~Expelled(c)
    BY <1>2, Zenon DEF Mark
  <2>1. Bit(c) \in Slid(c)[Slot(Block(c))] <=> c \in accepted
    BY <2>0, BitTest, Zenon DEF IInv
  <2>2. RW!Fresh(accepted, c) <=> c \notin accepted
    BY <2>0, FreshIffAccepted, Zenon
  <2>3. CASE c \in accepted
    BY <1>2, <2>1, <2>2, <2>3, Zenon DEF Mark, RW!Reject
  <2>4. CASE c \notin accepted
    BY <1>2, <2>1, <2>2, <2>4, Zenon DEF Mark, RW!Accept
  <2> QED  BY <2>3, <2>4, Zenon
<1>3. CASE UNCHANGED vars
  BY <1>3, Zenon DEF vars, RW!vars
<1> QED  BY <1>1, <1>2, <1>3, Zenon DEF Next, validate, RW!Next

\* Every verdict of the filter is the verdict of the unbounded record: no
\* counter is accepted twice, and none that is new, below the limit and not
\* older than the window is refused.
THEOREM FilterImplementsWindow == Spec => ImplementsWindow
<1>1. Init => RW!Init
  BY Zenon DEF Init, RW!Init
<1> QED  BY <1>1, InitIInv, NextIInv, StepRefines, PTL
            DEF Spec, RW!Spec, ImplementsWindow
=============================================================================
