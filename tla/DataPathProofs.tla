--------------------------- MODULE DataPathProofs ---------------------------
(***************************************************************************)
(* The way of packets from one interface to the other, for every MTU,      *)
(* every capacity and limit and any packets.                               *)
(*                                                                         *)
(* A packet changes its place and its form on the way, never its number,   *)
(* and its length only by the padding.  PathInv says what is true of the   *)
(* packets at each place: those before the far interface still have the    *)
(* padded length of the packet that was read (Fit), and a message without  *)
(* a packet has the length of its type.  From that the far end's           *)
(* packet_info finds the length the near one found (Restored).  InOrder    *)
(* and NothingVanishes are about the numbers only; every step takes a      *)
(* prefix of one place to the end of another or gives it up, so it is      *)
(* enough to follow the sets of numbers (OrderMove).                       *)
(***************************************************************************)
EXTENDS DataPath, WellFoundedInduction, TLAPS

-----------------------------------------------------------------------------
(* Lengths.                                                                *)

\* The smaller of two numbers is one of them.
LEMMA LeastOf ==
  ASSUME NEW a \in Nat, NEW b \in Nat
  PROVE  /\ Least(a, b) \in Nat /\ Least(a, b) <= a /\ Least(a, b) <= b
         /\ Least(a, b) = a \/ Least(a, b) = b
BY DEF Least

\* The greater of two numbers is one of them.
LEMMA MaxOf ==
  ASSUME NEW a \in Int, NEW b \in Int
  PROVE  /\ Max({a, b}) \in Int /\ Max({a, b}) >= a /\ Max({a, b}) >= b
         /\ Max({a, b}) = a \/ Max({a, b}) = b
<1>1. \E x \in {a, b} : \A y \in {a, b} : x >= y
  OBVIOUS
<1>2. Max({a, b}) \in {a, b} /\ \A y \in {a, b} : Max({a, b}) >= y
  BY <1>1, Zenon DEF Max
<1> QED
  BY <1>2

\* The length packet_info finds is at least that of a header and at most the
\* size of the packet.
LEMMA InfoFacts ==
  ASSUME NEW p \in Packet, NEW len \in packet_info(p)
  PROVE  len \in Nat /\ len >= 20 /\ len <= p.size /\ packet_info(p) = {len}
BY DEF Packet, packet_info

\* packet_info finds the same length in a packet of another size, as long as
\* that is not below it.
LEMMA InfoOfSize ==
  ASSUME NEW p \in Packet, NEW len \in packet_info(p), NEW size \in Nat, size >= len
  PROVE  packet_info([p EXCEPT !.size = size]) = {len}
<1>1. [p EXCEPT !.size = size] = [version |-> p.version, ihl |-> p.ihl,
                                  declared |-> p.declared, size |-> size]
  BY DEF Packet
<1> QED
  BY <1>1 DEF Packet, packet_info

\* What packet_info finds in a shorter packet it finds in the whole one.
LEMMA InfoOfWhole ==
  ASSUME NEW p \in Packet, NEW size \in Nat, size <= p.size,
         NEW len \in packet_info([p EXCEPT !.size = size])
  PROVE  len \in packet_info(p)
<1>1. [p EXCEPT !.size = size] = [version |-> p.version, ihl |-> p.ihl,
                                  declared |-> p.declared, size |-> size]
  BY DEF Packet
<1> QED
  BY <1>1 DEF Packet, packet_info

\* A multiple leaves no remainder.
LEMMA MultipleMod ==
  ASSUME NEW q \in Nat, NEW m \in Nat \ {0}
  PROVE  (q * m) % m = 0
<1>1. (q * m + 0) % m = 0
  OBVIOUS
<1> QED
  BY <1>1

\* usize::next_multiple_of is not below its argument and is a multiple.
LEMMA NextMultiple ==
  ASSUME NEW n \in Nat, NEW m \in Nat \ {0}
  PROVE  /\ next_multiple_of(n, m) \in Nat /\ next_multiple_of(n, m) >= n
         /\ next_multiple_of(n, m) % m = 0
<1> DEFINE q == (n + m - 1) \div m
<1>1. /\ q \in Nat /\ (n + m - 1) % m \in 0 .. m - 1
      /\ n + m - 1 = q * m + ((n + m - 1) % m)
  OBVIOUS
<1> HIDE DEF q
<1>2. q * m \in Nat /\ q * m >= n /\ m * q = q * m
  BY <1>1
<1>3. (q * m) % m = 0
  BY <1>1, MultipleMod
<1> QED
  BY <1>2, <1>3 DEF next_multiple_of, q

\* pad_packet pads to a multiple unless that exceeds the maximum.
LEMMA PadFacts ==
  ASSUME NEW len \in Nat, NEW max \in Nat, NEW padded \in pad_packet(len, max)
  PROVE  /\ padded \in Nat /\ len <= padded /\ padded <= max
         /\ padded % TRANSPORT_PADDING_MULTIPLE = 0 \/ padded = max
<1> DEFINE next == next_multiple_of(len, TRANSPORT_PADDING_MULTIPLE)
<1>1. ~(len > max) /\ padded = Least(next, max)
  BY DEF pad_packet
<1>2. next \in Nat /\ next >= len /\ next % TRANSPORT_PADDING_MULTIPLE = 0
  BY NextMultiple, LengthAssumption, Zenon
<1> HIDE DEF next
<1>3. CASE next < max
  BY <1>1, <1>2, <1>3 DEF Least
<1>4. CASE ~(next < max)
  BY <1>1, <1>2, <1>4 DEF Least
<1> QED
  BY <1>3, <1>4, Zenon
\* What prepare_outbound_packet makes of a packet that was read: some padded
\* length of the length its header declares.
LEMMA Prepared ==
  ASSUME NEW p \in Packet, mtu \in Nat, NEW padded \in prepare_outbound_packet(Recv(p))
  PROVE  \E len \in packet_info(p) : padded \in pad_packet(len, start(mtu))
<1>1. PICK len \in packet_info(Recv(p)) : padded \in pad_packet(len, start(mtu))
  BY Zenon DEF prepare_outbound_packet
<1>2. Least(p.size, mtu) \in Nat /\ Least(p.size, mtu) <= p.size
  <2>1. p.size \in Nat
    BY Zenon DEF Packet
  <2> QED
    BY <2>1, LeastOf, Zenon
<1>3. len \in packet_info(p)
  BY <1>1, <1>2, InfoOfWhole, Zenon DEF Recv
<1> QED
  BY <1>1, <1>3, Zenon

\* The padded length of a packet that was read: it fits the MTU and a
\* message, and the far end's packet_info restores the length from it.
LEMMA Restored ==
  ASSUME NEW p \in Packet, mtu \in Nat, NEW padded \in prepare_outbound_packet(Recv(p))
  PROVE  /\ padded \in Nat /\ padded > 0 /\ padded <= mtu /\ padded <= MAX_PLAINTEXT_SIZE
         /\ padded % TRANSPORT_PADDING_MULTIPLE = 0 \/ padded = mtu
         /\ packet_info(p) # {} /\ packet_info([p EXCEPT !.size = padded]) = packet_info(p)
<1>1. PICK len \in packet_info(p) : padded \in pad_packet(len, start(mtu))
  BY Prepared, Zenon
<1>2. len \in Nat /\ len >= 20 /\ packet_info(p) = {len}
  BY InfoFacts, Zenon
<1>3. /\ start(mtu) \in Nat /\ start(mtu) <= mtu /\ start(mtu) <= MAX_PLAINTEXT_SIZE
      /\ start(mtu) = mtu \/ start(mtu) = MAX_PLAINTEXT_SIZE
  BY LengthAssumption, LeastOf DEF start
<1>4. /\ padded \in Nat /\ len <= padded /\ padded <= start(mtu)
      /\ padded % TRANSPORT_PADDING_MULTIPLE = 0 \/ padded = start(mtu)
  BY <1>1, <1>2, <1>3, PadFacts, Zenon
<1>5. padded % TRANSPORT_PADDING_MULTIPLE = 0 \/ padded = mtu
  BY <1>3, <1>4, LengthAssumption, Zenon
<1>6. padded > 0 /\ padded <= mtu /\ padded <= MAX_PLAINTEXT_SIZE
  BY <1>2, <1>3, <1>4, LengthAssumption
<1>7. packet_info([p EXCEPT !.size = padded]) = {len}
  BY <1>2, <1>4, InfoOfSize
<1> QED
  BY <1>2, <1>4, <1>5, <1>6, <1>7, Zenon

\* A packet that prepare_outbound_packet refuses is invalid or too long.
LEMMA Unfit ==
  ASSUME NEW p \in Packet, mtu \in Nat, prepare_outbound_packet(Recv(p)) = {},
         NEW len \in packet_info(p)
  PROVE  len > start(mtu)
<1> SUFFICES ASSUME ~(len > start(mtu)) PROVE FALSE
  OBVIOUS
<1>1. len \in Nat /\ len <= p.size /\ p.size \in Nat
  BY InfoFacts DEF Packet
<1>2. start(mtu) \in Nat /\ start(mtu) <= mtu
  BY LengthAssumption, LeastOf DEF start
<1>3. Least(p.size, mtu) \in Nat /\ Least(p.size, mtu) >= len
  BY <1>1, <1>2 DEF Least
<1>4. packet_info(Recv(p)) = {len}
  BY <1>3, InfoOfSize DEF Recv
<1>5. pad_packet(len, start(mtu)) # {}
  BY Zenon DEF pad_packet
<1> QED
  BY <1>4, <1>5, Zenon DEF prepare_outbound_packet
-----------------------------------------------------------------------------
(* Sequences of packets and their numbers.                                 *)

\* A packet on its way: a payload of an actor, a datagram.
Item == [n : Nat, len : Nat]
Datagram == [type : {"init", "data"}, n : Nat, len : Nat]

\* Every number of S is below every one of T.
Below(S, T) == \A m \in S, n \in T : m < n

\* The elements of a sequence are those it has at its indices.
LEMMA Elements ==
  ASSUME NEW S, NEW s \in Seq(S)
  PROVE  /\ Len(s) \in Nat /\ DOMAIN s = 1 .. Len(s) /\ Range(s) \subseteq S
         /\ \A i \in 1 .. Len(s) : s[i] \in Range(s)
         /\ \A x \in Range(s) : \E i \in 1 .. Len(s) : x = s[i]
BY DEF Range

\* The first m elements of a sequence and the others: recv_many and the
\* batches of flush_sends cut sequences like that.
LEMMA Cuts ==
  ASSUME NEW S, NEW s \in Seq(S), NEW m \in 0 .. Len(s)
  PROVE  LET a == SubSeq(s, 1, m)
             b == SubSeq(s, m + 1, Len(s))
         IN  /\ a \in Seq(S) /\ Len(a) = m /\ \A i \in 1 .. m : a[i] = s[i]
             /\ b \in Seq(S) /\ Len(b) = Len(s) - m
             /\ \A i \in 1 .. Len(s) - m : b[i] = s[m + i]
             /\ Range(s) = Range(a) \cup Range(b)
<1> DEFINE a == SubSeq(s, 1, m)
           b == SubSeq(s, m + 1, Len(s))
<1>0. Len(s) \in Nat /\ \A i \in 1 .. Len(s) : s[i] \in S
  OBVIOUS
<1>1. a \in Seq(S) /\ Len(a) = m /\ \A i \in 1 .. m : a[i] = s[i]
  OBVIOUS
<1>2. /\ b \in Seq(S) /\ Len(b) = Len(s) - m
      /\ \A i \in 1 .. Len(s) - m : b[i] = s[m + i]
  OBVIOUS
<1> HIDE DEF a, b
<1>3. ASSUME NEW x \in Range(s) PROVE x \in Range(a) \cup Range(b)
  <2>1. PICK i \in 1 .. Len(s) : x = s[i]
    BY Elements, Zenon
  <2>2. CASE i <= m
    <3>1. i \in 1 .. m
      BY <1>0, <2>2
    <3> QED
      BY <1>1, <2>1, <3>1, Elements, Zenon
  <2>3. CASE ~(i <= m)
    <3>1. i - m \in 1 .. Len(s) - m /\ m + (i - m) = i
      BY <1>0, <2>3
    <3>2. x = b[i - m] /\ i - m \in 1 .. Len(b)
      BY <1>2, <2>1, <3>1
    <3> QED
      BY <1>2, <3>2, Elements, Zenon
  <2> QED
    BY <2>2, <2>3, Zenon
<1>4. ASSUME NEW x \in Range(a) PROVE x \in Range(s)
  <2>1. PICK i \in 1 .. m : x = a[i]
    BY <1>1, Elements, Zenon
  <2>2. i \in 1 .. Len(s)
    BY <1>0
  <2> QED
    BY <1>1, <2>1, <2>2, Elements, Zenon
<1>5. ASSUME NEW x \in Range(b) PROVE x \in Range(s)
  <2>1. PICK i \in 1 .. Len(s) - m : x = b[i]
    <3>1. \E i \in 1 .. Len(b) : x = b[i]
      BY <1>2, Elements, Zenon
    <3> QED
      BY <1>2, <3>1
  <2>2. m + i \in 1 .. Len(s)
    BY <1>0
  <2> QED
    BY <1>2, <2>1, <2>2, Elements, Zenon
<1>6. Range(s) = Range(a) \cup Range(b)
  BY <1>3, <1>4, <1>5, Zenon
<1> QED
  BY <1>1, <1>2, <1>6, Zenon DEF a, b

\* Two sequences one after the other.
LEMMA Joins ==
  ASSUME NEW S, NEW s \in Seq(S), NEW t \in Seq(S)
  PROVE  /\ s \o t \in Seq(S) /\ Len(s \o t) = Len(s) + Len(t)
         /\ \A i \in 1 .. Len(s) : (s \o t)[i] = s[i]
         /\ \A i \in 1 .. Len(t) : (s \o t)[Len(s) + i] = t[i]
         /\ Range(s \o t) = Range(s) \cup Range(t)
<1> DEFINE u == s \o t
<1>0. Len(s) \in Nat /\ Len(t) \in Nat
  OBVIOUS
<1>1. /\ u \in Seq(S) /\ Len(u) = Len(s) + Len(t)
      /\ \A i \in 1 .. Len(s) + Len(t) :
           u[i] = IF i <= Len(s) THEN s[i] ELSE t[i - Len(s)]
  OBVIOUS
<1> HIDE DEF u
<1>2. \A i \in 1 .. Len(s) : i \in 1 .. Len(u) /\ u[i] = s[i]
  BY <1>0, <1>1
<1>3. ASSUME NEW i \in 1 .. Len(t) PROVE Len(s) + i \in 1 .. Len(u) /\ u[Len(s) + i] = t[i]
  <2>1. /\ Len(s) + i \in 1 .. Len(s) + Len(t)
        /\ ~(Len(s) + i <= Len(s)) /\ (Len(s) + i) - Len(s) = i
    BY <1>0
  <2> QED
    BY <1>1, <2>1
<1>4. ASSUME NEW x \in Range(u) PROVE x \in Range(s) \cup Range(t)
  <2>1. PICK i \in 1 .. Len(u) : x = u[i]
    BY <1>1, Elements, Zenon
  <2>2. CASE i <= Len(s)
    <3>1. i \in 1 .. Len(s) /\ x = s[i]
      BY <1>0, <1>2, <2>1, <2>2
    <3> QED
      BY <3>1, Elements, Zenon
  <2>3. CASE ~(i <= Len(s))
    <3>1. i - Len(s) \in 1 .. Len(t) /\ x = t[i - Len(s)]
      BY <1>0, <1>1, <2>1, <2>3
    <3> QED
      BY <3>1, Elements, Zenon
  <2> QED
    BY <2>2, <2>3, Zenon
<1>5. ASSUME NEW x \in Range(s) PROVE x \in Range(u)
  <2>1. PICK i \in 1 .. Len(s) : x = s[i]
    BY Elements, Zenon
  <2> QED
    BY <1>1, <1>2, <2>1, Elements, Zenon
<1>6. ASSUME NEW x \in Range(t) PROVE x \in Range(u)
  <2>1. PICK i \in 1 .. Len(t) : x = t[i]
    BY Elements, Zenon
  <2> QED
    BY <1>1, <1>3, <2>1, Elements, Zenon
<1>7. Range(u) = Range(s) \cup Range(t)
  BY <1>4, <1>5, <1>6, Zenon
<1> QED
  BY <1>1, <1>2, <1>3, <1>7, Zenon DEF u

\* The parts of a sequence in order are in order, and one before the other.
LEMMA CutsInOrder ==
  ASSUME NEW S, NEW s \in Seq(S), NEW m \in 0 .. Len(s), Increasing(s)
  PROVE  LET a == SubSeq(s, 1, m)
             b == SubSeq(s, m + 1, Len(s))
         IN  Increasing(a) /\ Increasing(b) /\ Below(Numbers(a), Numbers(b))
<1> DEFINE a == SubSeq(s, 1, m)
           b == SubSeq(s, m + 1, Len(s))
<1>0. Len(s) \in Nat
  OBVIOUS
<1>1. /\ a \in Seq(S) /\ Len(a) = m /\ \A i \in 1 .. m : a[i] = s[i]
      /\ b \in Seq(S) /\ Len(b) = Len(s) - m
      /\ \A i \in 1 .. Len(s) - m : b[i] = s[m + i]
  BY Cuts
<1> HIDE DEF a, b
<1>2. DOMAIN s = 1 .. Len(s) /\ DOMAIN a = 1 .. m /\ DOMAIN b = 1 .. Len(s) - m
  BY <1>1
<1>3. Increasing(a)
  <2> SUFFICES ASSUME NEW i \in 1 .. m, NEW j \in 1 .. m, i < j, a[i].n # 0, a[j].n # 0
               PROVE  a[i].n < a[j].n
    BY <1>2, Zenon DEF Increasing
  <2>1. i \in 1 .. Len(s) /\ j \in 1 .. Len(s) /\ a[i] = s[i] /\ a[j] = s[j]
    BY <1>0, <1>1
  <2> QED
    BY <1>2, <2>1, Zenon DEF Increasing
<1>4. Increasing(b)
  <2> SUFFICES ASSUME NEW i \in 1 .. Len(s) - m, NEW j \in 1 .. Len(s) - m, i < j,
                      b[i].n # 0, b[j].n # 0
               PROVE  b[i].n < b[j].n
    BY <1>2, Zenon DEF Increasing
  <2>1. /\ m + i \in 1 .. Len(s) /\ m + j \in 1 .. Len(s) /\ m + i < m + j
        /\ b[i] = s[m + i] /\ b[j] = s[m + j]
    BY <1>0, <1>1
  <2> QED
    BY <1>2, <2>1, Zenon DEF Increasing
<1>5. Below(Numbers(a), Numbers(b))
  <2> SUFFICES ASSUME NEW x \in Range(a), NEW y \in Range(b), x.n # 0, y.n # 0
               PROVE  x.n < y.n
    BY Zenon DEF Below, Numbers
  <2>1. PICK i \in 1 .. m : x = a[i]
    BY <1>1, Elements, Zenon
  <2>2. PICK j \in 1 .. Len(s) - m : y = b[j]
    BY <1>2, Zenon DEF Range
  <2>3. /\ i \in 1 .. Len(s) /\ m + j \in 1 .. Len(s) /\ i < m + j
        /\ x = s[i] /\ y = s[m + j]
    BY <1>0, <1>1, <2>1, <2>2
  <2> QED
    BY <1>2, <2>3, Zenon DEF Increasing
<1> QED
  BY <1>3, <1>4, <1>5, Zenon DEF a, b

\* A sequence in order after another one whose numbers are lower.
LEMMA JoinsInOrder ==
  ASSUME NEW S, NEW s \in Seq(S), NEW t \in Seq(S), Increasing(s), Increasing(t),
         Below(Numbers(s), Numbers(t))
  PROVE  Increasing(s \o t)
<1> DEFINE u == s \o t
<1>0. Len(s) \in Nat /\ Len(t) \in Nat /\ DOMAIN s = 1 .. Len(s) /\ DOMAIN t = 1 .. Len(t)
  OBVIOUS
<1>1. /\ u \in Seq(S) /\ Len(u) = Len(s) + Len(t)
      /\ \A i \in 1 .. Len(s) : u[i] = s[i]
      /\ \A i \in 1 .. Len(t) : u[Len(s) + i] = t[i]
  BY Joins
<1> HIDE DEF u
<1>2. DOMAIN u = 1 .. Len(s) + Len(t)
  BY <1>1
<1> SUFFICES ASSUME NEW i \in 1 .. Len(s) + Len(t), NEW j \in 1 .. Len(s) + Len(t), i < j,
                    u[i].n # 0, u[j].n # 0
             PROVE  u[i].n < u[j].n
  BY <1>2, Zenon DEF Increasing, u
<1>3. CASE j <= Len(s)
  <2>1. i \in 1 .. Len(s) /\ j \in 1 .. Len(s)
    BY <1>0, <1>3
  <2> QED
    BY <1>0, <1>1, <2>1, Zenon DEF Increasing
<1>4. CASE i > Len(s)
  <2>1. PICK k \in 1 .. Len(t), l \in 1 .. Len(t) : i = Len(s) + k /\ j = Len(s) + l /\ k < l
    <3>1. i - Len(s) \in 1 .. Len(t) /\ j - Len(s) \in 1 .. Len(t)
          /\ i = Len(s) + (i - Len(s)) /\ j = Len(s) + (j - Len(s))
          /\ i - Len(s) < j - Len(s)
      BY <1>0, <1>4
    <3> QED
      BY <3>1, Zenon
  <2>2. u[i] = t[k] /\ u[j] = t[l]
    BY <1>1, <2>1, Zenon
  <2> QED
    BY <1>0, <2>1, <2>2, Zenon DEF Increasing
<1>5. CASE i <= Len(s) /\ ~(j <= Len(s))
  <2>1. i \in 1 .. Len(s)
    BY <1>0, <1>5
  <2>2. PICK l \in 1 .. Len(t) : j = Len(s) + l
    <3>1. j - Len(s) \in 1 .. Len(t) /\ j = Len(s) + (j - Len(s))
      BY <1>0, <1>5
    <3> QED
      BY <3>1, Zenon
  <2>3. u[i] = s[i] /\ u[j] = t[l] /\ s[i] \in Range(s) /\ t[l] \in Range(t)
    BY <1>1, <2>1, <2>2, Elements, Zenon
  <2> QED
    BY <2>3, Zenon DEF Below, Numbers
<1> QED
  BY <1>0, <1>3, <1>4, <1>5

\* The first element and the others.
LEMMA HeadCut ==
  ASSUME NEW S, NEW s \in Seq(S), s # <<>>
  PROVE  /\ Head(s) \in S /\ Tail(s) \in Seq(S) /\ Range(s) = {Head(s)} \cup Range(Tail(s))
         /\ Increasing(s) => /\ Increasing(Tail(s))
                              /\ Below({Head(s).n} \ {0}, Numbers(Tail(s)))
<1>1. Len(s) \in Nat \ {0} /\ 1 \in 0 .. Len(s) /\ 1 + 1 = 2
  OBVIOUS
<1>2. SubSeq(s, 1, 1) = <<Head(s)>> /\ Tail(s) = SubSeq(s, 1 + 1, Len(s))
  <2>1. ASSUME NEW u \in Seq(S), NEW v \in Seq(S), Len(u) = Len(v),
               \A i \in 1 .. Len(u) : u[i] = v[i]
        PROVE  u = v
    BY <2>1
  <2>2. PICK m \in 0 .. Len(s) : m = 1
    BY <1>1, Zenon
  <2> DEFINE a == SubSeq(s, 1, m)
             b == SubSeq(s, m + 1, Len(s))
  <2>3. /\ a \in Seq(S) /\ Len(a) = m /\ \A i \in 1 .. m : a[i] = s[i]
        /\ b \in Seq(S) /\ Len(b) = Len(s) - m /\ \A i \in 1 .. Len(s) - m : b[i] = s[m + i]
    BY Cuts, ZenonT(30)
  <2> HIDE DEF a, b
  <2>4. /\ Tail(s) \in Seq(S) /\ Len(Tail(s)) = Len(s) - m
        /\ \A i \in 1 .. Len(s) - m : Tail(s)[i] = s[m + i]
    BY <1>1, <2>2
  <2>5. /\ <<Head(s)>> \in Seq(S) /\ Len(<<Head(s)>>) = m
        /\ \A i \in 1 .. m : <<Head(s)>>[i] = s[i]
    BY <1>1, <2>2
  <2>6. a = <<Head(s)>>
    <3>1. Len(a) = Len(<<Head(s)>>) /\ \A i \in 1 .. Len(a) : a[i] = <<Head(s)>>[i]
      BY <2>3, <2>5, Zenon
    <3>2. a \in Seq(S) /\ <<Head(s)>> \in Seq(S)
      BY <2>3, <2>5, Zenon
    <3> QED
      BY <2>1, <3>1, <3>2, Zenon
  <2>7. Tail(s) = b
    <3>1. Len(Tail(s)) = Len(b) /\ \A i \in 1 .. Len(Tail(s)) : Tail(s)[i] = b[i]
      BY <2>3, <2>4, Zenon
    <3> QED
      BY <2>1, <2>3, <2>4, <3>1, Zenon
  <2> QED
    BY <2>2, <2>6, <2>7, Zenon DEF a, b
<1>3. Range(<<Head(s)>>) = {Head(s)}
  BY DEF Range
<1>4. Head(s) \in S /\ Tail(s) \in Seq(S)
  BY <1>1
<1>5. Range(s) = {Head(s)} \cup Range(Tail(s))
  <2>1. Range(s) = Range(SubSeq(s, 1, 1)) \cup Range(SubSeq(s, 1 + 1, Len(s)))
    BY <1>1, Cuts
  <2> QED
    BY <1>2, <1>3, <2>1, Zenon
<1>6. ASSUME Increasing(s)
      PROVE  Increasing(Tail(s)) /\ Below({Head(s).n} \ {0}, Numbers(Tail(s)))
  <2>1. Increasing(Tail(s)) /\ Below(Numbers(<<Head(s)>>), Numbers(Tail(s)))
    BY <1>1, <1>2, <1>6, CutsInOrder, Zenon
  <2>2. Numbers(<<Head(s)>>) = {Head(s).n} \ {0}
    BY <1>3, Zenon DEF Numbers
  <2> QED
    BY <2>1, <2>2, Zenon
<1> QED
  BY <1>4, <1>5, <1>6, Zenon

\* One more element.
LEMMA Appended ==
  ASSUME NEW S, NEW s \in Seq(S), NEW x \in S
  PROVE  /\ Append(s, x) \in Seq(S) /\ Range(Append(s, x)) = Range(s) \cup {x}
         /\ Increasing(s) /\ Below(Numbers(s), {x.n} \ {0}) => Increasing(Append(s, x))
<1>1. <<x>> \in Seq(S) /\ Range(<<x>>) = {x} /\ Append(s, x) = s \o <<x>>
  BY DEF Range
<1>2. Increasing(<<x>>)
  BY DEF Increasing
<1>3. Numbers(<<x>>) = {x.n} \ {0}
  BY <1>1, Zenon DEF Numbers
<1>4. s \o <<x>> \in Seq(S) /\ Range(s \o <<x>>) = Range(s) \cup {x}
  <2> DEFINE t == <<x>>
  <2>1. t \in Seq(S) /\ Range(t) = {x}
    BY <1>1
  <2> HIDE DEF t
  <2>2. s \o t \in Seq(S) /\ Range(s \o t) = Range(s) \cup Range(t)
    BY <2>1, Joins
  <2> QED
    BY <2>1, <2>2, Zenon DEF t
<1>5. Increasing(s) /\ Below(Numbers(s), {x.n} \ {0}) => Increasing(s \o <<x>>)
  BY <1>1, <1>2, <1>3, JoinsInOrder, Zenon
<1> QED
  BY <1>1, <1>4, <1>5, Zenon

\* The empty sequence.
LEMMA NoItems ==
  /\ Range(<<>>) = {} /\ Numbers(<<>>) = {} /\ Increasing(<<>>)
  /\ \A S : <<>> \in Seq(S)
BY DEF Range, Numbers, Increasing

\* A nonempty set of numbers up to m has a greatest one.
LEMMA GreatestExists ==
  ASSUME NEW m \in Nat, NEW I \in SUBSET (1 .. m), I # {}
  PROVE  \E x \in I : \A y \in I : x >= y
<1> DEFINE R == OpToRel(<, Nat)
           T == {m - x : x \in I}
<1>1. IsWellFoundedOn(R, Nat)
  BY NatLessThanWellFounded, Zenon
<1>2. \A x, y \in Nat : x < y => <<x, y>> \in R
  BY DEF OpToRel
<1>3. T \subseteq Nat /\ T # {}
  <2>1. ASSUME NEW x \in I PROVE m - x \in Nat
    OBVIOUS
  <2> QED
    BY <2>1, Zenon
<1>4. PICK t \in T : \A u \in T : ~(<<u, t>> \in R)
  <2> HIDE DEF T, R
  <2> QED
    BY <1>1, <1>3, WFMin, Zenon
<1> HIDE DEF R
<1>5. PICK x \in I : t = m - x
  BY Zenon
<1>6. ASSUME NEW y \in I, ~(x >= y) PROVE FALSE
  <2>1. m - y \in Nat /\ m - x \in Nat /\ m - y < m - x
    BY <1>6
  <2> QED
    BY <1>2, <1>4, <1>5, <2>1, Zenon
<1> QED
  BY <1>6, Zenon

\* The batch that flush_sends is about to encrypt: it has a payload at least,
\* payloads of one length, no more than the socket takes.
LEMMA BatchFacts ==
  ASSUME NEW s \in Seq(Item), s # <<>>
  PROVE  /\ BatchEnd(s) \in 1 .. Len(s)
         /\ BatchEnd(s) <= max_batch_segments(packet_len(s[1].len))
         /\ \A i \in 1 .. BatchEnd(s) : packet_len(s[i].len) = packet_len(s[1].len)
<1> DEFINE size == packet_len(s[1].len)
           E == {e \in 1 .. Len(s) :
                   /\ e <= max_batch_segments(size)
                   /\ \A i \in 1 .. e : packet_len(s[i].len) = size}
<1>1. Len(s) \in Nat /\ 1 \in 1 .. Len(s) /\ s[1].len \in Nat
  <2>1. Len(s) \in Nat /\ 1 \in 1 .. Len(s) /\ s[1] \in Item
    OBVIOUS
  <2> QED
    BY <2>1, Zenon DEF Item
<1>2. size \in Nat \ {0}
  BY <1>1, PathAssumption, SMTT(30) DEF packet_len
<1>3. max_batch_segments(size) \in Nat /\ max_batch_segments(size) >= 1
  <2>1. MAX_GSO_SEGMENTS \in Nat /\ MAX_MESSAGE_SIZE \div size \in Nat
    <3>1. MAX_GSO_SEGMENTS \in Nat /\ MAX_MESSAGE_SIZE \in Nat
      BY PathAssumption, Zenon
    <3> HIDE DEF size
    <3> QED
      BY <1>2, <3>1
  <2>2. Least(MAX_GSO_SEGMENTS, MAX_MESSAGE_SIZE \div size) \in Nat
    BY <2>1, LeastOf, Zenon
  <2> DEFINE fit == Least(MAX_GSO_SEGMENTS, MAX_MESSAGE_SIZE \div size)
  <2>3. 1 \in Int /\ fit \in Int
    BY <2>2
  <2> HIDE DEF fit
  <2>4. /\ Max({1, fit}) \in Int /\ Max({1, fit}) >= 1
    BY <2>3, MaxOf, Zenon
  <2>5. Max({1, fit}) \in Nat
    BY <2>4
  <2> QED
    BY <2>4, <2>5, Zenon DEF max_batch_segments, fit
<1>4. 1 \in E
  BY <1>1, <1>3
<1>5. E \in SUBSET (1 .. Len(s)) /\ E # {}
  BY <1>4, Zenon
<1>6. \E x \in E : \A y \in E : x >= y
  <2> HIDE DEF E
  <2> QED
    BY <1>1, <1>5, GreatestExists, Zenon
<1>7. BatchEnd(s) \in E
  BY <1>6, Zenon DEF BatchEnd, Max
<1> QED
  BY <1>7, Zenon

\* A message without a packet after the datagrams on the wire.
LEMMA ControlJoins ==
  ASSUME NEW s \in Seq(Datagram), Increasing(s),
         NEW type \in {"init", "data"}, NEW len \in Nat
  PROVE  LET t == s \o Control(type, len)
         IN  /\ t \in Seq(Datagram) /\ Increasing(t) /\ Numbers(t) = Numbers(s)
             /\ Range(t) = Range(s) \cup {[type |-> type, n |-> 0, len |-> len]}
<1> DEFINE d == [type |-> type, n |-> 0, len |-> len]
           c == Control(type, len)
<1>1. d \in Datagram /\ d.n = 0
  BY DEF Datagram
<1>2. c = <<d>>
  BY DEF Control
<1> HIDE DEF d
<1>3. c \in Seq(Datagram) /\ Range(c) = {d}
  BY <1>1, <1>2 DEF Range
<1>4. Increasing(c)
  BY <1>1, <1>2 DEF Increasing
<1>5. Numbers(c) = {}
  BY <1>1, <1>3, Zenon DEF Numbers
<1> HIDE DEF c
<1>6. s \o c \in Seq(Datagram) /\ Range(s \o c) = Range(s) \cup Range(c)
  BY <1>3, Joins
<1>7. Increasing(s \o c)
  <2>1. Below(Numbers(s), Numbers(c))
    BY <1>5, Zenon DEF Below
  <2> QED
    BY <1>3, <1>4, <2>1, JoinsInOrder, Zenon
<1>8. Numbers(s \o c) = Numbers(s)
  BY <1>1, <1>3, <1>6, Zenon DEF Numbers
<1> QED
  BY <1>3, <1>6, <1>7, <1>8, Zenon DEF c, d

\* The datagrams of a batch carry its packets in its order.
LEMMA DatagramsOf ==
  ASSUME NEW s \in Seq(Item), Increasing(s)
  PROVE  /\ Datagrams(s) \in Seq(Datagram) /\ Increasing(Datagrams(s))
         /\ Numbers(Datagrams(s)) = Numbers(s)
         /\ \A d \in Range(Datagrams(s)) : \E i \in Range(s) :
              d = [type |-> "data", n |-> i.n, len |-> packet_len(i.len)]
<1> DEFINE t == Datagrams(s)
           f(x) == [type |-> "data", n |-> x.n, len |-> packet_len(x.len)]
<1>1. Len(s) \in Nat /\ DOMAIN s = 1 .. Len(s)
  OBVIOUS
<1>2. t = [i \in 1 .. Len(s) |-> f(s[i])]
  BY <1>1, Zenon DEF Datagrams
<1>3. ASSUME NEW x \in Item PROVE f(x) \in Datagram /\ f(x).n = x.n
  BY PathAssumption DEF Item, Datagram, packet_len
<1>4. \A i \in 1 .. Len(s) : s[i] \in Item
  OBVIOUS
<1> HIDE DEF t, f
<1>5. DOMAIN t = 1 .. Len(s) /\ \A i \in 1 .. Len(s) : t[i] = f(s[i]) /\ t[i].n = s[i].n
  BY <1>2, <1>3, <1>4
<1>6. t \in Seq(Datagram)
  <2>1. \A i \in 1 .. Len(s) : f(s[i]) \in Datagram
    BY <1>3, <1>4, Zenon
  <2> QED
    BY <1>1, <1>2, <2>1
<1>7. Increasing(t)
  BY <1>1, <1>5, Zenon DEF Increasing
<1>8. \A d \in Range(t) : \E i \in Range(s) : d = f(i) /\ d.n = i.n
  BY <1>1, <1>5, Zenon DEF Range
<1>9. \A i \in Range(s) : \E d \in Range(t) : d.n = i.n
  BY <1>1, <1>5, Zenon DEF Range
<1>10. Numbers(t) = Numbers(s)
  <2>1. ASSUME NEW n \in Numbers(t) PROVE n \in Numbers(s)
    BY <1>8, Zenon DEF Numbers
  <2>2. ASSUME NEW n \in Numbers(s) PROVE n \in Numbers(t)
    BY <1>9, Zenon DEF Numbers
  <2> QED
    BY <2>1, <2>2, Zenon
<1> QED
  BY <1>6, <1>7, <1>8, <1>10, Zenon DEF t, f

-----------------------------------------------------------------------------
(* What is true of the packets at each place.                              *)

\* A payload has the padded length of a packet that was read.
Fit(x) ==
  x.n \in DOMAIN read /\ x.len \in prepare_outbound_packet(Recv(read[x.n]))

\* The payload of a datagram.
Payload(d) == [n |-> d.n, len |-> d.len - TRANSPORT_OVERHEAD]

\* A datagram is such a payload with the overhead of the transport, or a
\* message without a packet, of the length of its type.
Sealed(d) ==
  \/ d.type = "init" /\ d.n = 0 /\ d.len = INIT_MSG_LENGTH
  \/ d.type = "data" /\ d.n = 0 /\ d.len = packet_len(0)
  \/ d.type = "data" /\ Fit(Payload(d))

Types ==
  /\ mtu \in Nat /\ credit \in Nat /\ read \in Seq(Packet)
  /\ queue \in Seq(Item) /\ staged \in Seq(Item) /\ sending \in Seq(Item)
  /\ wire \in Seq(Datagram) /\ buffer \in [stride : Nat, rest : Seq(Datagram)]
  /\ received \in Seq(Datagram) /\ inbound \in Seq(Item) /\ delivered \in Seq(Item)

\* What was read keeps its length on the way, and gets back the one its
\* header declares at the end of it.
FitInv ==
  /\ \A x \in Range(queue) : Fit(x)
  /\ \A x \in Range(staged) : Fit(x)
  /\ \A x \in Range(sending) : Fit(x)
  /\ \A d \in Range(wire) : Sealed(d)
  /\ \A d \in Range(buffer.rest) : Sealed(d)
  /\ \A d \in Range(received) : Sealed(d) /\ d.type = "data"
  /\ \A x \in Range(inbound) : Fit(x)
  /\ \A x \in Range(delivered) : x.n \in DOMAIN read /\ {x.len} = packet_info(read[x.n])

\* What is left of a buffer is cut into segments of the stride, but for the
\* last.  Packets are staged only while there is no session.
PlaceInv ==
  /\ buffer.rest = <<>> => buffer = NoBuffer
  /\ buffer.rest # <<>> =>
       /\ \A i \in 1 .. Len(buffer.rest) - 1 : buffer.rest[i].len = buffer.stride
       /\ buffer.rest[Len(buffer.rest)].len <= buffer.stride
  /\ staged # <<>> => credit = 0

WayInv == Types /\ FitInv /\ PlaceInv /\ InOrder /\ NothingVanishes

\* What a payload that fits is: a packet with a number and the length
\* prepare_outbound_packet gave it.
LEMMA FitFacts ==
  ASSUME Types, NEW x, Fit(x)
  PROVE  /\ x.n \in 1 .. Len(read) /\ x.n \in Nat \ {0} /\ read[x.n] \in Packet
         /\ x.len \in Nat \ {0} /\ x.len <= mtu /\ x.len <= MAX_PLAINTEXT_SIZE
         /\ x.len % TRANSPORT_PADDING_MULTIPLE = 0 \/ x.len = mtu
         /\ packet_info(read[x.n]) # {}
         /\ packet_info([read[x.n] EXCEPT !.size = x.len]) = packet_info(read[x.n])
<1>1. x.n \in 1 .. Len(read) /\ Len(read) \in Nat /\ read[x.n] \in Packet
  BY DEF Types, Fit
<1>2. x.len \in prepare_outbound_packet(Recv(read[x.n])) /\ mtu \in Nat
  BY Zenon DEF Fit, Types
<1>3. /\ x.len \in Nat /\ x.len > 0 /\ x.len <= mtu /\ x.len <= MAX_PLAINTEXT_SIZE
      /\ x.len % TRANSPORT_PADDING_MULTIPLE = 0 \/ x.len = mtu
      /\ packet_info(read[x.n]) # {}
      /\ packet_info([read[x.n] EXCEPT !.size = x.len]) = packet_info(read[x.n])
  BY <1>1, <1>2, Restored, Zenon
<1>4. x.n \in Nat \ {0} /\ x.len \in Nat \ {0}
  BY <1>1, <1>3
<1> QED
  BY <1>1, <1>3, <1>4, Zenon

\* flush_sends never asks more of the socket than it takes in one call, and
\* what is queued for it is padded.
LEMMA SendFitsHolds ==
  ASSUME Types, FitInv
  PROVE  SendFits
<1>1. ASSUME NEW i \in DOMAIN queue
      PROVE  /\ queue[i].len <= mtu /\ queue[i].len <= MAX_PLAINTEXT_SIZE
             /\ queue[i].len % TRANSPORT_PADDING_MULTIPLE = 0 \/ queue[i].len = mtu
  <2>1. queue[i] \in Range(queue)
    BY Zenon DEF Range
  <2>2. Fit(queue[i])
    BY <2>1, Zenon DEF FitInv
  <2> QED
    BY <2>2, FitFacts, Zenon
<1>2. ASSUME sending # <<>>
      PROVE  /\ BatchEnd(sending) <= MAX_GSO_SEGMENTS
             /\ BatchEnd(sending) * packet_len(sending[1].len) <= MAX_MESSAGE_SIZE
             /\ \A i \in 1 .. BatchEnd(sending) : sending[i].len = sending[1].len
  <2> DEFINE size == packet_len(sending[1].len)
             end == BatchEnd(sending)
  <2>1. sending \in Seq(Item) /\ Len(sending) \in Nat /\ 1 \in DOMAIN sending
    BY <1>2 DEF Types
  <2>2. /\ end \in 1 .. Len(sending) /\ end <= max_batch_segments(size)
        /\ \A i \in 1 .. end : packet_len(sending[i].len) = size
    BY <1>2, <2>1, BatchFacts, Zenon
  <2>3. \A i \in 1 .. Len(sending) : sending[i].len \in Nat
    <3>1. \A i \in 1 .. Len(sending) : sending[i] \in Item
      BY <2>1
    <3> QED
      BY <3>1, Zenon DEF Item
  <2>4. sending[1].len <= MAX_PLAINTEXT_SIZE
    <3>1. Fit(sending[1])
      BY <2>1, Zenon DEF FitInv, Range
    <3> QED
      BY <3>1, FitFacts, Zenon
  <2>5. size \in Nat \ {0} /\ size <= MAX_MESSAGE_SIZE
    BY <2>1, <2>3, <2>4, PathAssumption, LengthAssumption, SMTT(30) DEF packet_len
  <2> HIDE DEF size, end
  <2>6. /\ max_batch_segments(size) \in Nat /\ max_batch_segments(size) <= MAX_GSO_SEGMENTS
        /\ max_batch_segments(size) * size <= MAX_MESSAGE_SIZE
    <3> DEFINE q == MAX_MESSAGE_SIZE \div size
    <3>1. q \in Nat /\ q * size <= MAX_MESSAGE_SIZE /\ q >= 1
      BY <2>5, PathAssumption
    <3>2. MAX_GSO_SEGMENTS \in Nat /\ MAX_GSO_SEGMENTS >= 1
      BY PathAssumption
    <3> HIDE DEF q
    <3>3. /\ Least(MAX_GSO_SEGMENTS, q) \in Nat /\ Least(MAX_GSO_SEGMENTS, q) >= 1
          /\ Least(MAX_GSO_SEGMENTS, q) <= q /\ Least(MAX_GSO_SEGMENTS, q) <= MAX_GSO_SEGMENTS
      BY <3>1, <3>2 DEF Least
    <3>4. max_batch_segments(size) = Least(MAX_GSO_SEGMENTS, q)
      <4> DEFINE fit == Least(MAX_GSO_SEGMENTS, q)
      <4>1. 1 \in Int /\ fit \in Int /\ fit >= 1
        BY <3>3
      <4> HIDE DEF fit
      <4>2. /\ Max({1, fit}) >= fit /\ (Max({1, fit}) = 1 \/ Max({1, fit}) = fit)
        BY <4>1, MaxOf, Zenon
      <4>3. Max({1, fit}) = fit
        BY <4>1, <4>2
      <4> QED
        BY <4>3, Zenon DEF max_batch_segments, fit, q
    <3>5. Least(MAX_GSO_SEGMENTS, q) * size <= q * size
      BY <2>5, <3>1, <3>3
    <3> QED
      BY <2>5, <3>1, <3>3, <3>4, <3>5, PathAssumption
  <2>7. end \in Nat /\ end * size <= max_batch_segments(size) * size
    BY <2>1, <2>2, <2>5, <2>6
  <2>8. ASSUME NEW i \in 1 .. end PROVE sending[i].len = sending[1].len
    <3>1. i \in 1 .. Len(sending) /\ 1 \in 1 .. Len(sending)
      BY <2>1, <2>2
    <3>2. sending[i].len \in Nat /\ sending[1].len \in Nat
      BY <2>3, <3>1, Zenon
    <3>3. TRANSPORT_OVERHEAD + sending[i].len = TRANSPORT_OVERHEAD + sending[1].len
      BY <2>2, Zenon DEF packet_len, size
    <3> QED
      BY <3>2, <3>3, PathAssumption
  <2>9. end <= MAX_GSO_SEGMENTS /\ end * size <= MAX_MESSAGE_SIZE
    BY <2>2, <2>5, <2>6, <2>7, PathAssumption, SMTT(30)
  <2> QED
    BY <2>8, <2>9, Zenon DEF size, end
<1> QED
  BY <1>1, <1>2, Zenon DEF SendFits

-----------------------------------------------------------------------------
(* Steps between two places.                                               *)

\* Sequences of packets, one after the other.
Lined(W) ==
  /\ \A a \in DOMAIN W : Increasing(W[a])
  /\ \A a, b \in DOMAIN W : a < b => Below(Numbers(W[a]), Numbers(W[b]))

\* The places stay in line when packets of places k and l, with none between
\* them, are put in order into these two.
LEMMA OrderMove ==
  ASSUME NEW W, NEW V, DOMAIN W = 1 .. 8, DOMAIN V = 1 .. 8, Lined(W),
         NEW k \in 1 .. 8, NEW l \in 1 .. 8, k < l,
         Increasing(V[k]), Increasing(V[l]), Below(Numbers(V[k]), Numbers(V[l])),
         Numbers(V[k]) \cup Numbers(V[l]) \subseteq Numbers(W[k]) \cup Numbers(W[l]),
         \A j \in 1 .. 8 : j # k /\ j # l => Increasing(V[j]) /\ Numbers(V[j]) = Numbers(W[j]),
         \A j \in 1 .. 8 : k < j /\ j < l => Numbers(W[j]) = {}
  PROVE  Lined(V)
<1>1. ASSUME NEW a \in 1 .. 8 PROVE Increasing(V[a])
  BY Zenon
<1>2. ASSUME NEW a \in 1 .. 8, NEW b \in 1 .. 8, a < b,
             NEW m \in Numbers(V[a]), NEW n \in Numbers(V[b])
      PROVE  m < n
  <2>0. /\ \A i \in 1 .. 8, j \in 1 .. 8 : i < j =>
             \A x \in Numbers(W[i]), y \in Numbers(W[j]) : x < y
    BY Zenon DEF Lined, Below
  <2>1. CASE a = k /\ b = l
    BY <1>2, <2>1, Zenon DEF Below
  <2>2. CASE a \notin {k, l} /\ b \notin {k, l}
    BY <1>2, <2>0, <2>2, Zenon
  <2>3. CASE a \in {k, l} /\ b \notin {k, l}
    <3>1. m \in Numbers(W[k]) \/ m \in Numbers(W[l])
      BY <1>2, <2>3, Zenon
    <3>2. n \in Numbers(W[b])
      BY <1>2, <2>3, Zenon
    <3>3. k < b /\ l < b
      <4>1. ~(k < b /\ b < l)
        BY <3>2, Zenon
      <4> QED
        BY <1>2, <2>3, <4>1
    <3> QED
      BY <2>0, <3>1, <3>2, <3>3, Zenon
  <2>4. CASE a \notin {k, l} /\ b \in {k, l}
    <3>1. n \in Numbers(W[k]) \/ n \in Numbers(W[l])
      BY <1>2, <2>4, Zenon
    <3>2. m \in Numbers(W[a])
      BY <1>2, <2>4, Zenon
    <3>3. a < k /\ a < l
      <4>1. ~(k < a /\ a < l)
        BY <3>2, Zenon
      <4> QED
        BY <1>2, <2>4, <4>1
    <3> QED
      BY <2>0, <3>1, <3>2, <3>3, Zenon
  <2>5. a \in {k, l} /\ b \in {k, l} => a = k /\ b = l
    BY <1>2
  <2> QED
    BY <2>1, <2>2, <2>3, <2>4, <2>5, Zenon
<1> QED
  BY <1>1, <1>2, Zenon DEF Lined, Below

\* The reason for which a packet is given up on the way.
Lost(n, D) == \E d \in D : d.n = n /\ d.why # "refused" /\ d.why # "unfit"

\* What is dropped on the way is accounted for.
LEMMA DropLost ==
  ASSUME NEW s, NEW D, NEW why, why # "refused", why # "unfit", NEW n \in Numbers(s)
  PROVE  Lost(n, D \cup Drop(s, why))
<1>1. PICK x \in Range(s) : n = x.n
  BY Zenon DEF Numbers
<1>2. [n |-> x.n, why |-> why] \in Drop(s, why)
  BY Zenon DEF Drop
<1> QED
  BY <1>1, <1>2 DEF Lost

\* A step that moves packets between places k and l, or gives them up, keeps
\* the order and loses none.
LEMMA Moved ==
  ASSUME InOrder, NothingVanishes, UNCHANGED <<read, mtu>>, dropped \subseteq dropped',
         NEW k \in 1 .. 8, NEW l \in 1 .. 8, k < l,
         Increasing(Way'[k]), Increasing(Way'[l]),
         Below(Numbers(Way'[k]), Numbers(Way'[l])),
         Numbers(Way'[k]) \cup Numbers(Way'[l]) \subseteq Numbers(Way[k]) \cup Numbers(Way[l]),
         \A n \in Numbers(Way[k]) \cup Numbers(Way[l]) :
           n \in Numbers(Way'[k]) \cup Numbers(Way'[l]) \/ Lost(n, dropped'),
         \A j \in 1 .. 8 : j # k /\ j # l =>
           Increasing(Way'[j]) /\ Numbers(Way'[j]) = Numbers(Way[j]),
         \A j \in 1 .. 8 : k < j /\ j < l => Numbers(Way[j]) = {}
  PROVE  InOrder' /\ NothingVanishes'
<1>1. DOMAIN Way = 1 .. 8 /\ DOMAIN Way' = 1 .. 8
  BY DEF Way
<1>2. Lined(Way)
  BY Zenon DEF InOrder, Lined, Below
<1>3. Lined(Way')
  BY <1>1, <1>2, OrderMove, Zenon
<1>4. InOrder'
  BY <1>3, Zenon DEF InOrder, Lined, Below
<1>5. ASSUME NEW n \in DOMAIN read
      PROVE  \/ \E a \in 1 .. 8 : n \in Numbers(Way'[a])
             \/ \E d \in dropped' :
                  /\ d.n = n /\ d.why # "refused"
                  /\ d.why = "unfit" => \A len \in packet_info(read[n]) : len > start(mtu)
  <2>1. CASE \E a \in 1 .. 8 : n \in Numbers(Way[a])
    <3>1. PICK a \in 1 .. 8 : n \in Numbers(Way[a])
      BY <2>1, Zenon
    <3>2. CASE a # k /\ a # l
      BY <3>1, <3>2, Zenon
    <3>3. CASE a = k \/ a = l
      <4>1. n \in Numbers(Way'[k]) \cup Numbers(Way'[l]) \/ Lost(n, dropped')
        BY <3>1, <3>3, Zenon
      <4> QED
        BY <4>1, Zenon DEF Lost
    <3> QED
      BY <3>2, <3>3, Zenon
  <2>2. CASE \E d \in dropped :
               /\ d.n = n /\ d.why # "refused"
               /\ d.why = "unfit" => \A len \in packet_info(read[n]) : len > start(mtu)
    BY <2>2, Zenon
  <2> QED
    BY <1>1, <2>1, <2>2, Zenon DEF NothingVanishes
<1>6. read' = read /\ mtu' = mtu
  BY Zenon
<1>7. NothingVanishes'
  <2>1. ASSUME NEW n \in DOMAIN read'
        PROVE  \/ \E a \in DOMAIN Way' : n \in Numbers(Way'[a])
               \/ \E d \in dropped' :
                    /\ d.n = n /\ d.why # "refused"
                    /\ d.why = "unfit" => \A len \in packet_info(read'[n]) : len > start(mtu')
    <3>1. n \in DOMAIN read
      BY <1>6, <2>1, Zenon
    <3> QED
      BY <1>1, <1>5, <1>6, <3>1
  <2> QED
    BY <2>1, Zenon DEF NothingVanishes
<1> QED
  BY <1>4, <1>7, Zenon

\* The places by name.
LEMMA WayIs ==
  /\ Way[1] = delivered /\ Way[2] = inbound /\ Way[3] = received /\ Way[4] = buffer.rest
  /\ Way[5] = wire /\ Way[6] = staged /\ Way[7] = sending /\ Way[8] = queue
  /\ Way'[1] = delivered' /\ Way'[2] = inbound' /\ Way'[3] = received'
  /\ Way'[4] = buffer'.rest /\ Way'[5] = wire' /\ Way'[6] = staged'
  /\ Way'[7] = sending' /\ Way'[8] = queue'
  /\ DOMAIN Way = 1 .. 8
BY DEF Way

\* The order at one place, and between two.
LEMMA PlaceOrder ==
  ASSUME InOrder
  PROVE  /\ Increasing(delivered) /\ Increasing(inbound) /\ Increasing(received)
         /\ Increasing(buffer.rest) /\ Increasing(wire) /\ Increasing(staged)
         /\ Increasing(sending) /\ Increasing(queue)
         /\ Below(Numbers(delivered), Numbers(inbound))
         /\ Below(Numbers(inbound), Numbers(received))
         /\ Below(Numbers(received), Numbers(buffer.rest))
         /\ Below(Numbers(buffer.rest), Numbers(wire))
         /\ Below(Numbers(wire), Numbers(staged)) /\ Below(Numbers(wire), Numbers(sending))
         /\ Below(Numbers(staged), Numbers(sending))
         /\ Below(Numbers(sending), Numbers(queue))
<1>1. /\ 1 \in 1 .. 8 /\ 2 \in 1 .. 8 /\ 3 \in 1 .. 8 /\ 4 \in 1 .. 8 /\ 5 \in 1 .. 8
      /\ 6 \in 1 .. 8 /\ 7 \in 1 .. 8 /\ 8 \in 1 .. 8
      /\ 1 < 2 /\ 2 < 3 /\ 3 < 4 /\ 4 < 5 /\ 5 < 6 /\ 5 < 7 /\ 6 < 7 /\ 7 < 8
  OBVIOUS
<1>2. \A a \in 1 .. 8 : Increasing(Way[a])
  BY WayIs, Zenon DEF InOrder
<1>3. \A a, b \in 1 .. 8 : a < b => Below(Numbers(Way[a]), Numbers(Way[b]))
  BY WayIs, Zenon DEF InOrder, Below
<1> QED
  BY <1>1, <1>2, <1>3, WayIs, Zenon

\* What waits for a session or a send is older than what is queued.
LEMMA BeforeQueue ==
  ASSUME InOrder
  PROVE  Below(Numbers(staged) \cup Numbers(sending), Numbers(queue))
<1>1. 6 \in 1 .. 8 /\ 7 \in 1 .. 8 /\ 8 \in 1 .. 8 /\ 6 < 8 /\ 7 < 8
  OBVIOUS
<1>2. \A a, b \in 1 .. 8 : a < b => Below(Numbers(Way[a]), Numbers(Way[b]))
  BY WayIs, Zenon DEF InOrder, Below
<1>3. Below(Numbers(staged), Numbers(queue)) /\ Below(Numbers(sending), Numbers(queue))
  BY <1>1, <1>2, WayIs, Zenon
<1> QED
  BY <1>3, Zenon DEF Below

\* Moved, when the other places are left alone.
LEMMA MovedOnly ==
  ASSUME InOrder, NothingVanishes, UNCHANGED <<read, mtu>>, dropped \subseteq dropped',
         NEW k \in 1 .. 8, NEW l \in 1 .. 8, k < l,
         Increasing(Way'[k]), Increasing(Way'[l]),
         Below(Numbers(Way'[k]), Numbers(Way'[l])),
         Numbers(Way'[k]) \cup Numbers(Way'[l]) \subseteq Numbers(Way[k]) \cup Numbers(Way[l]),
         \A n \in Numbers(Way[k]) \cup Numbers(Way[l]) :
           n \in Numbers(Way'[k]) \cup Numbers(Way'[l]) \/ Lost(n, dropped'),
         \A j \in 1 .. 8 : j # k /\ j # l => Way'[j] = Way[j],
         \A j \in 1 .. 8 : k < j /\ j < l => Numbers(Way[j]) = {}
  PROVE  InOrder' /\ NothingVanishes'
<1>1. \A a \in 1 .. 8 : Increasing(Way[a])
  BY WayIs, Zenon DEF InOrder
<1>2. \A j \in 1 .. 8 : j # k /\ j # l =>
        Increasing(Way'[j]) /\ Numbers(Way'[j]) = Numbers(Way[j])
  BY <1>1, Zenon
<1> QED
  BY <1>2, Moved, Zenon

\* What fits depends on what was read and on the MTU only.
LEMMA FitKept ==
  ASSUME UNCHANGED <<read, mtu>>
  PROVE  /\ \A x : Fit(x)' <=> Fit(x)
         /\ \A d : Sealed(d)' <=> Sealed(d)
<1>1. read' = read /\ mtu' = mtu
  BY Zenon
<1>2. \A p : Recv(p)' = Recv(p)
  BY <1>1, Zenon DEF Recv
<1>3. \A p : prepare_outbound_packet(p)' = prepare_outbound_packet(p)
  BY <1>1, Zenon DEF prepare_outbound_packet
<1>4. ASSUME NEW x PROVE Fit(x)' <=> Fit(x)
  BY <1>1, <1>2, <1>3, Zenon DEF Fit
<1>5. ASSUME NEW d PROVE Sealed(d)' <=> Sealed(d)
  BY <1>4, Zenon DEF Sealed, Payload
<1> QED
  BY <1>4, <1>5, Zenon

-----------------------------------------------------------------------------
(* The steps.                                                              *)

\* recv_many takes a prefix of the queue, and flush_sends begins with it.
LEMMA SendQueuedInv ==
  ASSUME WayInv, SendQueued, mtu' = mtu
  PROVE  WayInv'
<1> USE DEF WayInv
<1>1. /\ sending = <<>> /\ queue # <<>> /\ sending' = Gathered
      /\ queue' = SubSeq(queue, Len(Gathered) + 1, Len(queue))
      /\ UNCHANGED <<read, mtu, credit, staged, wire, buffer, received, inbound, delivered,
                     dropped>>
  BY Zenon DEF SendQueued
<1> DEFINE m == Least(BATCH_SIZE, Len(queue))
<1>2. queue \in Seq(Item) /\ Len(queue) \in Nat /\ m \in 0 .. Len(queue)
  <2>1. queue \in Seq(Item) /\ Len(queue) \in Nat /\ BATCH_SIZE \in Nat
    BY PathAssumption DEF Types
  <2> QED
    BY <2>1 DEF Least
<1>3. /\ sending' = SubSeq(queue, 1, m) /\ Len(SubSeq(queue, 1, m)) = m
      /\ queue' = SubSeq(queue, m + 1, Len(queue))
  <2>1. Len(SubSeq(queue, 1, m)) = m
    BY <1>2, Cuts
  <2> QED
    BY <1>1, <2>1, Zenon DEF Gathered
<1> HIDE DEF m
<1>4. /\ sending' \in Seq(Item) /\ queue' \in Seq(Item)
      /\ Range(queue) = Range(sending') \cup Range(queue')
  BY <1>2, <1>3, Cuts
<1>5. Increasing(sending') /\ Increasing(queue') /\ Below(Numbers(sending'), Numbers(queue'))
  BY <1>2, <1>3, PlaceOrder, CutsInOrder
<1>6. Types'
  BY <1>1, <1>4, Zenon DEF Types
<1>7. FitInv'
  BY <1>1, <1>4, FitKept, Zenon DEF FitInv
<1>8. PlaceInv'
  BY <1>1, Zenon DEF PlaceInv
<1>9. InOrder' /\ NothingVanishes'
  <2>1. /\ Numbers(queue) = Numbers(sending') \cup Numbers(queue')
        /\ Numbers(sending) = {}
    BY <1>1, <1>4, NoItems, Zenon DEF Numbers
  <2>2. \A j \in 1 .. 8 : j # 7 /\ j # 8 => Way'[j] = Way[j]
    BY <1>1, WayIs
  <2>3. 7 \in 1 .. 8 /\ 8 \in 1 .. 8 /\ 7 < 8 /\ \A j \in 1 .. 8 : ~(7 < j /\ j < 8)
    OBVIOUS
  <2> QED
    BY <1>1, <1>5, <2>1, <2>2, <2>3, WayIs, MovedOnly, Zenon
<1> QED
  BY <1>6, <1>7, <1>8, <1>9, Zenon

\* A batch goes to the socket, which takes it or fails.  Nothing is staged,
\* for there is a session.
LEMMA SendBatchInv ==
  ASSUME WayInv, SendBatch, mtu' = mtu
  PROVE  WayInv'
<1> USE DEF WayInv
<1> DEFINE n == Least(BatchEnd(sending), credit)
           batch == SubSeq(sending, 1, n)
<1>1. /\ sending # <<>> /\ credit > 0
      /\ sending' = SubSeq(sending, n + 1, Len(sending)) /\ credit' = credit - n
      /\ \/ wire' = wire \o Datagrams(batch) /\ dropped' = dropped
         \/ dropped' = dropped \cup Drop(batch, "socket") /\ wire' = wire
      /\ UNCHANGED <<read, mtu, queue, staged, buffer, received, inbound, delivered>>
  BY Zenon DEF SendBatch
<1>2. /\ sending \in Seq(Item) /\ wire \in Seq(Datagram)
      /\ n \in 0 .. Len(sending) /\ credit - n \in Nat
  <2>1. sending \in Seq(Item) /\ wire \in Seq(Datagram) /\ credit \in Nat
    BY Zenon DEF Types
  <2>2. BatchEnd(sending) \in 1 .. Len(sending) /\ Len(sending) \in Nat
    BY <1>1, <2>1, BatchFacts
  <2> QED
    BY <2>1, <2>2 DEF Least
<1> HIDE DEF n
<1>3. /\ batch \in Seq(Item) /\ sending' \in Seq(Item)
      /\ Range(sending) = Range(batch) \cup Range(sending')
  BY <1>1, <1>2, Cuts
<1>4. Increasing(batch) /\ Increasing(sending') /\ Below(Numbers(batch), Numbers(sending'))
  BY <1>1, <1>2, PlaceOrder, CutsInOrder
<1> HIDE DEF batch
<1>5. staged = <<>>
  BY <1>1 DEF PlaceInv, Types
<1>6. /\ Numbers(sending) = Numbers(batch) \cup Numbers(sending')
      /\ Numbers(staged) = {}
  BY <1>3, <1>5, NoItems, Zenon DEF Numbers
<1>7. /\ Increasing(wire) /\ Below(Numbers(wire), Numbers(batch))
      /\ Below(Numbers(wire), Numbers(sending'))
  BY <1>6, PlaceOrder, Zenon DEF Below
<1>8. PlaceInv'
  BY <1>1, <1>5, Zenon DEF PlaceInv
<1>9. \A j \in 1 .. 8 : j # 5 /\ j # 7 => Way'[j] = Way[j]
  BY <1>1, WayIs
<1>10. /\ 5 \in 1 .. 8 /\ 7 \in 1 .. 8 /\ 5 < 7
       /\ \A j \in 1 .. 8 : 5 < j /\ j < 7 => Numbers(Way[j]) = {}
  <2>1. \A j \in 1 .. 8 : 5 < j /\ j < 7 => j = 6
    OBVIOUS
  <2> QED
    BY <1>6, <2>1, WayIs
<1>11. CASE wire' = wire \o Datagrams(batch) /\ dropped' = dropped
  <2> DEFINE sent == Datagrams(batch)
  <2>1. /\ sent \in Seq(Datagram) /\ Increasing(sent) /\ Numbers(sent) = Numbers(batch)
        /\ \A d \in Range(sent) : \E i \in Range(batch) :
             d = [type |-> "data", n |-> i.n, len |-> packet_len(i.len)]
    BY <1>3, <1>4, DatagramsOf, Zenon
  <2> HIDE DEF sent
  <2>2. wire' \in Seq(Datagram) /\ Range(wire') = Range(wire) \cup Range(sent)
    BY <1>2, <1>11, <2>1, Joins DEF sent
  <2>3. Increasing(wire')
    BY <1>2, <1>7, <1>11, <2>1, JoinsInOrder, Zenon DEF sent
  <2>4. Numbers(wire') = Numbers(wire) \cup Numbers(batch)
    <3>1. Numbers(wire') = Numbers(wire) \cup Numbers(sent)
      BY <2>2, Zenon DEF Numbers
    <3> QED
      BY <2>1, <3>1, Zenon
  <2>5. ASSUME NEW d \in Range(sent) PROVE Sealed(d)
    <3>1. PICK i \in Range(batch) : d = [type |-> "data", n |-> i.n, len |-> packet_len(i.len)]
      BY <2>1, Zenon
    <3>2. i \in Item /\ Fit(i)
      BY <1>3, <3>1, Elements, Zenon DEF FitInv
    <3>3. Payload(d) = i /\ d.type = "data"
      BY <3>1, <3>2, PathAssumption DEF Payload, packet_len, Item
    <3> QED
      BY <3>2, <3>3, Zenon DEF Sealed
  <2>6. Types'
    BY <1>1, <1>2, <1>3, <2>2, Zenon DEF Types
  <2>7. FitInv'
    BY <1>1, <1>3, <2>2, <2>5, FitKept, Zenon DEF FitInv
  <2>8. Below(Numbers(wire'), Numbers(sending'))
    BY <1>4, <1>7, <2>4, Zenon DEF Below
  <2>9. InOrder' /\ NothingVanishes'
    BY <1>1, <1>4, <1>6, <1>9, <1>10, <1>11, <2>3, <2>4, <2>8, WayIs, MovedOnly, Zenon
  <2> QED
    BY <1>8, <2>6, <2>7, <2>9, Zenon
<1>12. CASE dropped' = dropped \cup Drop(batch, "socket") /\ wire' = wire
  <2>1. Types'
    BY <1>1, <1>2, <1>3, <1>12, Zenon DEF Types
  <2>2. FitInv'
    BY <1>1, <1>3, <1>12, FitKept, Zenon DEF FitInv
  <2>3. \A x \in Numbers(batch) : Lost(x, dropped')
    <3>1. "socket" # "refused" /\ "socket" # "unfit"
      OBVIOUS
    <3> QED
      BY <1>12, <3>1, DropLost, Zenon
  <2>4. InOrder' /\ NothingVanishes'
    <3>1. /\ Way'[5] = wire /\ Way'[7] = sending' /\ Way[5] = wire /\ Way[7] = sending
      BY <1>12, WayIs, Zenon
    <3>2. /\ Numbers(Way'[5]) \cup Numbers(Way'[7]) \subseteq Numbers(Way[5]) \cup Numbers(Way[7])
          /\ \A x \in Numbers(Way[5]) \cup Numbers(Way[7]) :
               x \in Numbers(Way'[5]) \cup Numbers(Way'[7]) \/ Lost(x, dropped')
      BY <1>6, <2>3, <3>1, Zenon
    <3>3. /\ Increasing(Way'[5]) /\ Increasing(Way'[7])
          /\ Below(Numbers(Way'[5]), Numbers(Way'[7]))
      BY <1>4, <1>7, <3>1, Zenon
    <3>4. UNCHANGED <<read, mtu>> /\ dropped \subseteq dropped'
      BY <1>1, <1>12, Zenon
    <3> QED
      BY <1>9, <1>10, <3>2, <3>3, <3>4, MovedOnly, Zenon
  <2> QED
    BY <1>8, <2>1, <2>2, <2>4, Zenon
<1> QED
  BY <1>1, <1>11, <1>12, Zenon

\* stage keeps the end of what it has, and loses the rest.
LEMMA StageCut ==
  ASSUME NEW old \in Seq(Item), NEW payloads \in Seq(Item)
  PROVE  \E m \in 0 .. Len(old \o payloads) :
           /\ stage(old, payloads).kept = SubSeq(old \o payloads, m + 1, Len(old \o payloads))
           /\ stage(old, payloads).lost = SubSeq(old \o payloads, 1, m)
<1> DEFINE all == old \o payloads
           first == Max({1, Len(all) - MAX_STAGED_PACKETS + 1})
           m == first - 1
<1>1. all \in Seq(Item) /\ Len(all) \in Nat
  BY Joins
<1>2. /\ stage(old, payloads).kept = SubSeq(all, first, Len(all))
      /\ stage(old, payloads).lost = SubSeq(all, 1, m)
  BY Zenon DEF stage, Keep
<1> HIDE DEF all
<1>4. MAX_STAGED_PACKETS \in Nat /\ MAX_STAGED_PACKETS >= 1
  BY PathAssumption
<1>5. first \in Int /\ (first = 1 \/ first = Len(all) - MAX_STAGED_PACKETS + 1) /\ first >= 1
  <2>1. 1 \in Int /\ Len(all) - MAX_STAGED_PACKETS + 1 \in Int
    BY <1>1, <1>4
  <2> DEFINE a == 1
             b == Len(all) - MAX_STAGED_PACKETS + 1
  <2>2. a \in Int /\ b \in Int /\ first = Max({a, b})
    BY <2>1, Zenon
  <2> HIDE DEF first, b
  <2>3. first \in Int /\ (first = a \/ first = b) /\ first >= a
    BY <2>2, MaxOf, Zenon
  <2> QED
    BY <2>3 DEF b
<1> HIDE DEF first
<1>6. m \in 0 .. Len(all) /\ first = m + 1
  BY <1>1, <1>4, <1>5
<1> HIDE DEF m
<1>7. /\ stage(old, payloads).kept = SubSeq(all, m + 1, Len(all))
      /\ stage(old, payloads).lost = SubSeq(all, 1, m)
  BY <1>2, <1>6, Zenon
<1> QED
  BY <1>6, <1>7, Zenon DEF all

\* flush_sends gives up: what is left goes behind what is staged, the oldest
\* of which may be pushed out.
LEMMA StageRestInv ==
  ASSUME WayInv, StageRest, mtu' = mtu
  PROVE  WayInv'
<1> USE DEF WayInv
<1> DEFINE all == staged \o sending
           over == stage(staged, sending).lost
<1>1. /\ credit = 0 /\ staged' = stage(staged, sending).kept /\ sending' = <<>>
      /\ dropped' = dropped \cup Drop(over, "staged")
      /\ wire' = IF Quiet THEN wire \o Control("init", INIT_MSG_LENGTH) ELSE wire
      /\ UNCHANGED <<read, mtu, queue, credit, buffer, received, inbound, delivered>>
  BY Zenon DEF StageRest
<1>2. staged \in Seq(Item) /\ sending \in Seq(Item) /\ wire \in Seq(Datagram)
  BY Zenon DEF Types
<1>3. PICK m \in 0 .. Len(all) :
        staged' = SubSeq(all, m + 1, Len(all)) /\ over = SubSeq(all, 1, m)
  BY <1>1, <1>2, StageCut, Zenon
<1>4. all \in Seq(Item) /\ Range(all) = Range(staged) \cup Range(sending)
  BY <1>2, Joins
<1>5. Increasing(all)
  BY <1>2, PlaceOrder, JoinsInOrder, Zenon
<1> HIDE DEF all, over
<1>6. /\ staged' \in Seq(Item) /\ Range(all) = Range(over) \cup Range(staged')
  BY <1>3, <1>4, Cuts
<1>7. Increasing(staged')
  BY <1>3, <1>4, <1>5, CutsInOrder
<1>8. Numbers(staged) \cup Numbers(sending) = Numbers(over) \cup Numbers(staged')
  BY <1>4, <1>6, Zenon DEF Numbers
<1>9. /\ wire' \in Seq(Datagram) /\ Increasing(wire') /\ Numbers(wire') = Numbers(wire)
      /\ \A d \in Range(wire') : Sealed(d)
  <2>1. CASE Quiet
    <3> DEFINE d == [type |-> "init", n |-> 0, len |-> INIT_MSG_LENGTH]
    <3>1. "init" \in {"init", "data"} /\ INIT_MSG_LENGTH \in Nat /\ Increasing(wire)
      BY PathAssumption, PlaceOrder, Zenon
    <3>2. wire' = wire \o Control("init", INIT_MSG_LENGTH)
      BY <1>1, <2>1, Zenon
    <3>3. /\ wire' \in Seq(Datagram) /\ Increasing(wire') /\ Numbers(wire') = Numbers(wire)
          /\ Range(wire') = Range(wire) \cup {d}
      BY <1>2, <3>1, <3>2, ControlJoins, Zenon
    <3>4. Sealed(d)
      BY Zenon DEF Sealed
    <3> QED
      BY <3>3, <3>4, Zenon DEF FitInv
  <2>2. CASE ~Quiet
    <3>1. wire' = wire
      BY <1>1, <2>2, Zenon
    <3> QED
      BY <1>2, <3>1, PlaceOrder, Zenon DEF FitInv
  <2> QED
    BY <2>1, <2>2, Zenon
<1>10. Types'
  BY <1>1, <1>2, <1>6, <1>9, NoItems, Zenon DEF Types
<1>11. FitInv'
  BY <1>1, <1>4, <1>6, <1>9, FitKept, NoItems, Zenon DEF FitInv
<1>12. PlaceInv'
  BY <1>1, Zenon DEF PlaceInv
<1>13. \A x \in Numbers(over) : Lost(x, dropped')
  <2>1. "staged" # "refused" /\ "staged" # "unfit"
    OBVIOUS
  <2> QED
    BY <1>1, <2>1, DropLost, Zenon
<1>14. \A j \in 1 .. 8 : j # 6 /\ j # 7 =>
         Increasing(Way'[j]) /\ Numbers(Way'[j]) = Numbers(Way[j])
  <2>1. \A j \in 1 .. 8 : j # 5 /\ j # 6 /\ j # 7 => Way'[j] = Way[j]
    BY <1>1, WayIs
  <2>2. \A j \in 1 .. 8 : Increasing(Way[j])
    BY WayIs, Zenon DEF InOrder
  <2>3. ASSUME NEW j \in 1 .. 8, j # 6, j # 7
        PROVE  Increasing(Way'[j]) /\ Numbers(Way'[j]) = Numbers(Way[j])
    <3>1. CASE j = 5
      BY <1>9, <3>1, WayIs, Zenon
    <3>2. CASE j # 5
      BY <2>1, <2>2, <2>3, <3>2, Zenon
    <3> QED
      BY <3>1, <3>2, Zenon
  <2> QED
    BY <2>3, Zenon
<1>15. /\ 6 \in 1 .. 8 /\ 7 \in 1 .. 8 /\ 6 < 7
       /\ \A j \in 1 .. 8 : ~(6 < j /\ j < 7)
  OBVIOUS
<1>16. Numbers(sending') = {} /\ Increasing(sending') /\ Below(Numbers(staged'), Numbers(sending'))
  BY <1>1, NoItems, Zenon DEF Below
<1>17. /\ Numbers(Way'[6]) \cup Numbers(Way'[7]) \subseteq Numbers(Way[6]) \cup Numbers(Way[7])
       /\ \A n \in Numbers(Way[6]) \cup Numbers(Way[7]) :
            n \in Numbers(Way'[6]) \cup Numbers(Way'[7]) \/ Lost(n, dropped')
  BY <1>8, <1>13, <1>16, WayIs, Zenon
<1>18. /\ Increasing(Way'[6]) /\ Increasing(Way'[7])
       /\ Below(Numbers(Way'[6]), Numbers(Way'[7]))
  BY <1>7, <1>16, WayIs, Zenon
<1>19. UNCHANGED <<read, mtu>> /\ dropped \subseteq dropped'
  BY <1>1, Zenon
<1>20. InOrder' /\ NothingVanishes'
  BY <1>14, <1>15, <1>17, <1>18, <1>19, Moved, Zenon
<1> QED
  BY <1>10, <1>11, <1>12, <1>20, Zenon

\* The staged packets go to flush_sends, or a keepalive to the socket.
LEMMA EstablishInv ==
  ASSUME WayInv, Establish, mtu' = mtu
  PROVE  WayInv'
<1> USE DEF WayInv
<1>1. /\ sending = <<>> /\ sending' = staged /\ staged' = <<>>
      /\ UNCHANGED <<read, mtu, queue, buffer, received, inbound, delivered, dropped>>
  BY Zenon DEF Establish
<1>2. staged \in Seq(Item) /\ wire \in Seq(Datagram)
  BY Zenon DEF Types
<1>3. MaxCredit \in Nat /\ MaxCredit - 1 \in Nat
  BY PathAssumption
<1>4. CASE credit' = MaxCredit /\ wire' = wire
  <2>1. Types'
    BY <1>1, <1>2, <1>3, <1>4, NoItems, Zenon DEF Types
  <2>2. FitInv'
    BY <1>1, <1>4, FitKept, NoItems, Zenon DEF FitInv
  <2>3. PlaceInv'
    BY <1>1, <1>4, Zenon DEF PlaceInv
  <2>4. /\ Increasing(staged') /\ Increasing(sending')
        /\ Numbers(staged') = {} /\ Below(Numbers(staged'), Numbers(sending'))
        /\ Numbers(sending') = Numbers(staged) /\ Numbers(sending) = {}
    BY <1>1, <1>4, NoItems, PlaceOrder, Zenon DEF Below
  <2>5. \A j \in 1 .. 8 : j # 6 /\ j # 7 => Way'[j] = Way[j]
    BY <1>1, <1>4, WayIs
  <2>6. /\ 6 \in 1 .. 8 /\ 7 \in 1 .. 8 /\ 6 < 7
        /\ \A j \in 1 .. 8 : ~(6 < j /\ j < 7)
    OBVIOUS
  <2>7. InOrder' /\ NothingVanishes'
    BY <1>1, <2>4, <2>5, <2>6, WayIs, MovedOnly, ZenonT(30)
  <2> QED
    BY <2>1, <2>2, <2>3, <2>7, Zenon
<1>5. CASE /\ credit' = MaxCredit - 1 /\ staged = <<>>
           /\ wire' \in {wire, wire \o Control("data", packet_len(0))}
  <2>0. staged' = staged /\ sending' = sending
    BY <1>1, <1>5, Zenon
  <2>1. /\ wire' \in Seq(Datagram) /\ Increasing(wire') /\ Numbers(wire') = Numbers(wire)
        /\ \A d \in Range(wire') : Sealed(d)
    <3>1. CASE wire' = wire
      BY <1>2, <3>1, PlaceOrder, Zenon DEF FitInv
    <3>2. CASE wire' = wire \o Control("data", packet_len(0))
      <4> DEFINE d == [type |-> "data", n |-> 0, len |-> packet_len(0)]
      <4>1. packet_len(0) \in Nat
        BY PathAssumption DEF packet_len
      <4>2. /\ wire' \in Seq(Datagram) /\ Increasing(wire') /\ Numbers(wire') = Numbers(wire)
            /\ Range(wire') = Range(wire) \cup {d}
        BY <1>2, <3>2, <4>1, PlaceOrder, ControlJoins, Zenon
      <4>3. Sealed(d)
        BY Zenon DEF Sealed
      <4> QED
        BY <4>2, <4>3, Zenon DEF FitInv
    <3> QED
      BY <1>5, <3>1, <3>2, Zenon
  <2>2. Types'
    BY <1>1, <1>3, <1>5, <2>0, <2>1, Zenon DEF Types
  <2>3. FitInv'
    BY <1>1, <1>5, <2>0, <2>1, FitKept, Zenon DEF FitInv
  <2>4. PlaceInv'
    BY <1>1, <1>5, <2>0, Zenon DEF PlaceInv
  <2>5. \A j \in 1 .. 8 : j # 5 => Way'[j] = Way[j]
    BY <1>1, <1>5, <2>0, WayIs
  <2>6. /\ 5 \in 1 .. 8 /\ 6 \in 1 .. 8 /\ 5 < 6 /\ 6 # 5
        /\ \A j \in 1 .. 8 : ~(5 < j /\ j < 6)
    OBVIOUS
  <2>7. Increasing(staged) /\ Below(Numbers(wire'), Numbers(staged')) /\ staged' = staged
    BY <2>0, <2>1, PlaceOrder, Zenon
  <2>8. InOrder' /\ NothingVanishes'
    BY <1>1, <2>1, <2>5, <2>6, <2>7, WayIs, MovedOnly, Zenon
  <2> QED
    BY <2>2, <2>3, <2>4, <2>8, Zenon
<1> QED
  BY <1>4, <1>5, Zenon DEF Establish

\* What is staged is given up.
LEMMA AbandonInv ==
  ASSUME WayInv, Abandon, mtu' = mtu
  PROVE  WayInv'
<1> USE DEF WayInv
<1>1. /\ sending = <<>> /\ staged' = <<>>
      /\ dropped' = dropped \cup Drop(staged, "staged")
      /\ UNCHANGED <<read, mtu, queue, credit, sending, wire, buffer, received, inbound,
                     delivered>>
  BY Zenon DEF Abandon
<1>2. Types'
  BY <1>1, NoItems, Zenon DEF Types
<1>3. FitInv'
  BY <1>1, FitKept, NoItems, Zenon DEF FitInv
<1>4. PlaceInv'
  BY <1>1, Zenon DEF PlaceInv
<1>5. \A x \in Numbers(staged) : Lost(x, dropped')
  <2>1. "staged" # "refused" /\ "staged" # "unfit"
    OBVIOUS
  <2> QED
    BY <1>1, <2>1, DropLost, Zenon
<1>6. /\ Increasing(staged') /\ Increasing(sending') /\ Numbers(staged') = {}
      /\ Numbers(sending) = {} /\ Numbers(sending') = {}
      /\ Below(Numbers(staged'), Numbers(sending'))
  BY <1>1, NoItems, Zenon DEF Below
<1>7. \A j \in 1 .. 8 : j # 6 /\ j # 7 => Way'[j] = Way[j]
  BY <1>1, WayIs
<1>8. /\ 6 \in 1 .. 8 /\ 7 \in 1 .. 8 /\ 6 < 7
      /\ \A j \in 1 .. 8 : ~(6 < j /\ j < 7)
  OBVIOUS
<1>9. InOrder' /\ NothingVanishes'
  BY <1>1, <1>5, <1>6, <1>7, <1>8, WayIs, MovedOnly, Zenon
<1> QED
  BY <1>2, <1>3, <1>4, <1>9, Zenon

\* No packet moves when the session ends.
LEMMA ExpireInv ==
  ASSUME WayInv, Expire, mtu' = mtu
  PROVE  WayInv'
<1> USE DEF WayInv
<1>1. /\ credit' = 0
      /\ UNCHANGED <<read, mtu, queue, staged, sending, wire, buffer, received, inbound,
                     delivered, dropped>>
  BY Zenon DEF Expire
<1>2. 0 \in Nat
  OBVIOUS
<1>3. Types' /\ PlaceInv'
  BY <1>1, <1>2, Zenon DEF Types, PlaceInv
<1>4. FitInv'
  BY <1>1, FitKept, Zenon DEF FitInv
<1>5. Way' = Way
  BY <1>1, Zenon DEF Way
<1>6. InOrder'
  BY <1>5, Zenon DEF InOrder
<1>7. NothingVanishes'
  BY <1>1, <1>5, Zenon DEF NothingVanishes
<1> QED
  BY <1>3, <1>4, <1>6, <1>7, Zenon

\* The socket hands over a prefix of what is on the wire, in segments of one
\* length but for the last.
LEMMA RecvBufferInv ==
  ASSUME WayInv, NEW k \in 1 .. Len(wire), RecvBuffer(k), mtu' = mtu
  PROVE  WayInv'
<1> USE DEF WayInv
<1> DEFINE group == SubSeq(wire, 1, k)
<1>1. /\ buffer = NoBuffer /\ Coalesced(group)
      /\ buffer' = [stride |-> wire[1].len, rest |-> group]
      /\ wire' = SubSeq(wire, k + 1, Len(wire))
      /\ UNCHANGED <<read, mtu, queue, credit, staged, sending, received, inbound, delivered,
                     dropped>>
  BY Zenon DEF RecvBuffer
<1>2. wire \in Seq(Datagram) /\ k \in 0 .. Len(wire) /\ 1 \in 1 .. k /\ 1 \in 1 .. Len(wire)
  BY DEF Types
<1>3. /\ group \in Seq(Datagram) /\ Len(group) = k /\ \A i \in 1 .. k : group[i] = wire[i]
      /\ wire' \in Seq(Datagram) /\ Range(wire) = Range(group) \cup Range(wire')
  BY <1>1, <1>2, Cuts
<1>4. /\ Increasing(group) /\ Increasing(wire')
      /\ Below(Numbers(group), Numbers(wire'))
  BY <1>1, <1>2, PlaceOrder, CutsInOrder
<1> HIDE DEF group
<1>5. buffer'.rest = group /\ buffer'.stride = wire[1].len /\ buffer.rest = <<>>
  BY <1>1 DEF NoBuffer
<1>6. wire[1].len \in Nat
  <2>1. wire[1] \in Datagram
    BY <1>2
  <2> QED
    BY <2>1, Zenon DEF Datagram
<1>7. Types'
  BY <1>1, <1>3, <1>6, Zenon DEF Types
<1>8. FitInv'
  BY <1>1, <1>3, <1>5, FitKept, Zenon DEF FitInv
<1>9. PlaceInv'
  <2>1. group # <<>>
    BY <1>2, <1>3
  <2>2. /\ \A i \in 1 .. Len(group) - 1 : group[i].len = wire[1].len
        /\ group[Len(group)].len <= wire[1].len
    BY <1>1, <1>2, <1>3, Zenon DEF Coalesced
  <2> QED
    BY <1>1, <1>5, <2>1, <2>2, Zenon DEF PlaceInv
<1>10. Numbers(wire) = Numbers(group) \cup Numbers(wire') /\ Numbers(buffer.rest) = {}
  BY <1>3, <1>5, NoItems, Zenon DEF Numbers
<1>11. \A j \in 1 .. 8 : j # 4 /\ j # 5 => Way'[j] = Way[j]
  BY <1>1, WayIs
<1>12. /\ 4 \in 1 .. 8 /\ 5 \in 1 .. 8 /\ 4 < 5
       /\ \A j \in 1 .. 8 : ~(4 < j /\ j < 5)
  OBVIOUS
<1>13. InOrder' /\ NothingVanishes'
  BY <1>1, <1>4, <1>5, <1>10, <1>11, <1>12, WayIs, MovedOnly, Zenon
<1> QED
  BY <1>7, <1>8, <1>9, <1>13, Zenon

\* The read loop takes exactly the datagrams out of a buffer.
LEMMA SegmentIsWhole ==
  ASSUME Types, PlaceInv, buffer.rest # <<>>
  PROVE  SegmentLen(buffer.stride, Bytes(buffer.stride, buffer.rest)) = Head(buffer.rest).len
<1> DEFINE rest == buffer.rest
           stride == buffer.stride
           last == rest[Len(rest)].len
<1>1. rest \in Seq(Datagram) /\ stride \in Nat
  BY Zenon DEF Types
<1>2. Len(rest) \in Nat \ {0} /\ rest[Len(rest)] \in Datagram /\ Head(rest) = rest[1]
  BY <1>1
<1>3. last \in Nat
  BY <1>2, Zenon DEF Datagram
<1>4. last <= stride /\ \A i \in 1 .. Len(rest) - 1 : rest[i].len = stride
  BY Zenon DEF PlaceInv
<1>5. SegmentLen(stride, Bytes(stride, rest)) = Least(stride, (Len(rest) - 1) * stride + last)
  BY Zenon DEF SegmentLen, Bytes
<1>6. CASE Len(rest) = 1
  <2>1. rest[1].len = last
    BY <1>6, Zenon
  <2> HIDE DEF rest, stride, last
  <2>2. (Len(rest) - 1) * stride + last = last
    BY <1>1, <1>3, <1>6
  <2> QED
    BY <1>1, <1>2, <1>3, <1>4, <1>5, <2>1, <2>2 DEF Least, rest, stride
<1>7. CASE Len(rest) # 1
  <2> HIDE DEF rest, stride, last
  <2>1. 1 \in 1 .. Len(rest) - 1 /\ Len(rest) - 1 \in Nat /\ Len(rest) - 1 >= 1
    <3>1. ASSUME NEW len \in Nat \ {0}, len # 1
          PROVE  1 \in 1 .. len - 1 /\ len - 1 \in Nat /\ len - 1 >= 1
      BY <3>1
    <3> QED
      BY <1>2, <1>7, <3>1, Zenon
  <2>2. rest[1].len = stride
    BY <1>4, <2>1, Zenon
  <2>3. (Len(rest) - 1) * stride >= stride /\ (Len(rest) - 1) * stride \in Nat
    BY <1>1, <2>1
  <2>4. Least(stride, (Len(rest) - 1) * stride + last) = stride
    BY <1>1, <1>3, <2>3 DEF Least
  <2> QED
    BY <1>2, <1>5, <2>2, <2>4, Zenon DEF rest, stride
<1> QED
  BY <1>6, <1>7, Zenon

\* An iteration of the read loop takes the first datagram out of the buffer;
\* what carries a packet goes to the actor's queue or is dropped for want of
\* room.
LEMMA ReadSegmentInv ==
  ASSUME WayInv, ReadSegment, mtu' = mtu
  PROVE  WayInv'
<1> USE DEF WayInv
<1> DEFINE rest == buffer.rest
           d == Head(rest)
           data == Header(d) /\ d.type = "data"
           room == Len(received) < PEER_ACTION_QUEUE_CAPACITY
<1>1. /\ rest # <<>> /\ SegmentLen(buffer.stride, Bytes(buffer.stride, rest)) = d.len
  BY SegmentIsWhole, Zenon DEF ReadSegment
<1>2. /\ buffer' = IF Len(rest) > 1 THEN [buffer EXCEPT !.rest = Tail(rest)] ELSE NoBuffer
      /\ received' = IF data /\ room THEN Append(received, d) ELSE received
      /\ dropped' = IF data /\ ~room THEN dropped \cup Drop(<<d>>, "full") ELSE dropped
      /\ UNCHANGED <<read, mtu, queue, credit, staged, sending, wire, inbound, delivered>>
  BY <1>1, Zenon DEF ReadSegment
<1>3. /\ rest \in Seq(Datagram) /\ buffer.stride \in Nat /\ received \in Seq(Datagram)
      /\ buffer \in [stride : Nat, rest : Seq(Datagram)]
  BY Zenon DEF Types
<1>4. /\ d \in Datagram /\ Tail(rest) \in Seq(Datagram)
      /\ Range(rest) = {d} \cup Range(Tail(rest))
      /\ Increasing(Tail(rest)) /\ Below({d.n} \ {0}, Numbers(Tail(rest)))
  BY <1>1, <1>3, HeadCut, PlaceOrder, Zenon
<1>5. Numbers(rest) = ({d.n} \ {0}) \cup Numbers(Tail(rest))
  BY <1>4, Zenon DEF Numbers
<1>6. Sealed(d)
  BY <1>4, Zenon DEF FitInv
<1>7. /\ buffer'.rest = Tail(rest) /\ buffer' \in [stride : Nat, rest : Seq(Datagram)]
      /\ PlaceInv'
  <2>1. CASE Len(rest) > 1
    <3>1. buffer' = [stride |-> buffer.stride, rest |-> Tail(rest)]
      <4>1. \A S, T, t : \A b \in [stride : S, rest : T] :
              [b EXCEPT !.rest = t] = [stride |-> b.stride, rest |-> t]
        OBVIOUS
      <4> QED
        BY <1>2, <1>3, <2>1, <4>1, Zenon
    <3>2. buffer'.rest = Tail(rest) /\ buffer'.stride = buffer.stride
      BY <3>1
    <3>3. /\ Tail(rest) # <<>>
          /\ \A i \in 1 .. Len(Tail(rest)) - 1 : Tail(rest)[i].len = buffer.stride
          /\ Tail(rest)[Len(Tail(rest))].len <= buffer.stride
      <4>1. /\ \A i \in 1 .. Len(rest) - 1 : rest[i].len = buffer.stride
            /\ rest[Len(rest)].len <= buffer.stride
        BY <1>1, Zenon DEF PlaceInv
      <4> HIDE DEF rest
      <4>2. /\ Len(rest) \in Nat /\ Len(Tail(rest)) = Len(rest) - 1
            /\ \A i \in 1 .. Len(rest) - 1 : Tail(rest)[i] = rest[i + 1]
        BY <1>1, <1>3
      <4>3. \A i \in 1 .. Len(rest) - 1 - 1 :
              i \in 1 .. Len(rest) - 1 /\ i + 1 \in 1 .. Len(rest) - 1
        BY <4>2
      <4>4. Len(rest) - 1 \in 1 .. Len(rest) - 1 /\ Len(rest) - 1 + 1 = Len(rest)
        BY <2>1, <4>2
      <4>5. Tail(rest) # <<>>
        <5>1. Len(<<>>) = 0
          OBVIOUS
        <5>2. \A len \in Nat : len > 1 => len - 1 # 0
          OBVIOUS
        <5> QED
          BY <2>1, <4>2, <5>1, <5>2, Zenon
      <4>6. \A i \in 1 .. Len(rest) - 1 - 1 : Tail(rest)[i].len = buffer.stride
        BY <4>1, <4>2, <4>3, Zenon
      <4>7. Tail(rest)[Len(rest) - 1] = rest[Len(rest)]
        BY <4>2, <4>4, Zenon
      <4> QED
        BY <4>1, <4>2, <4>5, <4>6, <4>7, Zenon
    <3> QED
      BY <1>2, <1>3, <1>4, <3>1, <3>2, <3>3, Zenon DEF PlaceInv
  <2>2. CASE ~(Len(rest) > 1)
    <3>1. buffer' = NoBuffer
      BY <1>2, <2>2, Zenon
    <3> HIDE DEF rest
    <3>2. Tail(rest) = <<>>
      BY <1>1, <1>3, <2>2
    <3>3. buffer'.rest = <<>> /\ buffer' \in [stride : Nat, rest : Seq(Datagram)]
      BY <3>1 DEF NoBuffer
    <3> QED
      BY <1>2, <3>1, <3>2, <3>3, Zenon DEF PlaceInv
  <2> QED
    BY <2>1, <2>2, Zenon
<1>8. \A j \in 1 .. 8 : j # 3 /\ j # 4 => Way'[j] = Way[j]
  BY <1>2, WayIs
<1>9. /\ 3 \in 1 .. 8 /\ 4 \in 1 .. 8 /\ 3 < 4
      /\ \A j \in 1 .. 8 : ~(3 < j /\ j < 4)
  OBVIOUS
<1> HIDE DEF d, data, room
<1>10. /\ Increasing(received) /\ Below(Numbers(received), {d.n} \ {0})
       /\ Below(Numbers(received), Numbers(Tail(rest)))
  BY <1>5, PlaceOrder, Zenon DEF Below
<1>11. CASE data /\ room
  <2>1. received' = Append(received, d) /\ dropped' = dropped
    BY <1>2, <1>11, Zenon
  <2>2. /\ received' \in Seq(Datagram) /\ Range(received') = Range(received) \cup {d}
        /\ Increasing(received')
    <3>1. received \in Seq(Datagram) /\ d \in Datagram
      BY <1>3, <1>4, Zenon
    <3> QED
      BY <1>10, <2>1, <3>1, Appended
  <2>3. Numbers(received') = Numbers(received) \cup ({d.n} \ {0})
    BY <2>2, Zenon DEF Numbers
  <2>4. Below(Numbers(received'), Numbers(Tail(rest)))
    BY <1>4, <1>10, <2>3, Zenon DEF Below
  <2>5. Types'
    BY <1>2, <1>7, <2>2, Zenon DEF Types
  <2>6. FitInv'
    BY <1>2, <1>4, <1>6, <1>7, <1>11, <2>2, FitKept, Zenon DEF FitInv, data
  <2>7. InOrder' /\ NothingVanishes'
    <3>1. /\ Way'[3] = received' /\ Way'[4] = Tail(rest) /\ Way[3] = received /\ Way[4] = rest
      BY <1>7, WayIs, Zenon
    <3>2. UNCHANGED <<read, mtu>> /\ dropped \subseteq dropped'
      BY <1>2, <2>1, Zenon
    <3>3. Numbers(Way'[3]) \cup Numbers(Way'[4]) = Numbers(Way[3]) \cup Numbers(Way[4])
      BY <1>5, <2>3, <3>1, Zenon
    <3>4. /\ Increasing(Way'[3]) /\ Increasing(Way'[4])
          /\ Below(Numbers(Way'[3]), Numbers(Way'[4]))
      BY <1>4, <2>2, <2>4, <3>1, Zenon
    <3> QED
      BY <1>8, <1>9, <3>2, <3>3, <3>4, MovedOnly, Zenon
  <2> QED
    BY <1>7, <2>5, <2>6, <2>7, Zenon
<1>12. CASE ~(data /\ room)
  <2>1. received' = received
    BY <1>2, <1>12, Zenon
  <2>2. Types'
    BY <1>2, <1>7, <2>1, Zenon DEF Types
  <2>3. FitInv'
    BY <1>2, <1>4, <1>7, <2>1, FitKept, Zenon DEF FitInv
  <2>4. dropped \subseteq dropped' /\ \A n \in {d.n} \ {0} : Lost(n, dropped')
    <3>1. CASE data
      <4>1. dropped' = dropped \cup Drop(<<d>>, "full")
        BY <1>2, <1>12, <3>1, Zenon
      <4>2. Numbers(<<d>>) = {d.n} \ {0}
        <5>1. Range(<<d>>) = {d}
          BY DEF Range
        <5> QED
          BY <5>1, Zenon DEF Numbers
      <4>3. "full" # "refused" /\ "full" # "unfit"
        OBVIOUS
      <4> QED
        BY <4>1, <4>2, <4>3, DropLost, Zenon
    <3>2. CASE ~data
      <4>1. dropped' = dropped
        BY <1>2, <3>2, Zenon
      <4>2. d.type = "data" /\ Fit(Payload(d)) => Header(d)
        <5> HAVE d.type = "data" /\ Fit(Payload(d))
        <5>1. d.len - TRANSPORT_OVERHEAD \in Nat
          <6>1. Payload(d).len \in Nat \ {0} /\ Payload(d).len = d.len - TRANSPORT_OVERHEAD
            BY FitFacts, Zenon DEF Payload
          <6> QED
            BY <6>1
        <5>2. d.len \in Nat
          BY <1>4, Zenon DEF Datagram
        <5> HIDE DEF d
        <5>3. d.len >= packet_len(0)
          BY <5>1, <5>2, PathAssumption DEF packet_len
        <5> QED
          BY <5>3 DEF Header
      <4>3. d.n = 0
        <5>1. d.type = "data" /\ d.n # 0 => Fit(Payload(d))
          BY <1>6 DEF Sealed
        <5>2. d.type # "data" => d.n = 0
          BY <1>6, Zenon DEF Sealed
        <5> QED
          BY <3>2, <4>2, <5>1, <5>2, Zenon DEF data
      <4> QED
        BY <4>1, <4>3, Zenon
    <3> QED
      BY <3>1, <3>2, Zenon
  <2>5. InOrder' /\ NothingVanishes'
    <3>1. /\ Way'[3] = received /\ Way'[4] = Tail(rest) /\ Way[3] = received /\ Way[4] = rest
      BY <1>7, <2>1, WayIs, Zenon
    <3>2. UNCHANGED <<read, mtu>>
      BY <1>2, Zenon
    <3>3. /\ Numbers(Way'[3]) \cup Numbers(Way'[4]) \subseteq Numbers(Way[3]) \cup Numbers(Way[4])
          /\ \A n \in Numbers(Way[3]) \cup Numbers(Way[4]) :
               n \in Numbers(Way'[3]) \cup Numbers(Way'[4]) \/ Lost(n, dropped')
      BY <1>5, <2>4, <3>1, Zenon
    <3>4. /\ Increasing(Way'[3]) /\ Increasing(Way'[4])
          /\ Below(Numbers(Way'[3]), Numbers(Way'[4]))
      BY <1>4, <1>10, <3>1, Zenon
    <3> QED
      BY <1>8, <1>9, <2>4, <3>2, <3>3, <3>4, MovedOnly, Zenon
  <2> QED
    BY <1>7, <2>2, <2>3, <2>5, Zenon
<1> QED
  BY <1>11, <1>12, Zenon

\* The actor hands the payload of a datagram to the tunnel, or drops it for
\* want of room; a keepalive has none.
LEMMA ReceiveDataInv ==
  ASSUME WayInv, ReceiveData, mtu' = mtu
  PROVE  WayInv'
<1> USE DEF WayInv
<1> DEFINE d == Head(received)
           payload == Payload(d)
<1>1. /\ received # <<>> /\ received' = Tail(received)
      /\ IF payload.len = 0 THEN UNCHANGED <<inbound, dropped>>
         ELSE IF Len(inbound) < INBOUND_QUEUE_CAPACITY
         THEN inbound' = Append(inbound, payload) /\ dropped' = dropped
         ELSE dropped' = dropped \cup Drop(<<payload>>, "full") /\ inbound' = inbound
      /\ UNCHANGED <<read, mtu, queue, credit, staged, sending, wire, buffer, delivered>>
  BY Zenon DEF ReceiveData, Payload
<1>2. received \in Seq(Datagram) /\ inbound \in Seq(Item)
  BY Zenon DEF Types
<1>3. /\ d \in Datagram /\ received' \in Seq(Datagram)
      /\ Range(received) = {d} \cup Range(received')
      /\ Increasing(received') /\ Below({d.n} \ {0}, Numbers(received'))
  BY <1>1, <1>2, HeadCut, PlaceOrder, Zenon
<1>4. Numbers(received) = ({d.n} \ {0}) \cup Numbers(received')
  BY <1>3, Zenon DEF Numbers
<1>5. Sealed(d) /\ d.type = "data"
  BY <1>3, Zenon DEF FitInv
<1> HIDE DEF d
<1>6. payload.n = d.n /\ payload.len = d.len - TRANSPORT_OVERHEAD
  BY DEF Payload
<1>7. \/ d.n = 0 /\ payload.len = 0
      \/ Fit(payload) /\ payload.len # 0 /\ payload \in Item
  <2>1. CASE d.n = 0 /\ d.len = packet_len(0)
    BY <1>6, <2>1, PathAssumption DEF packet_len
  <2>2. CASE Fit(payload)
    <3>1. payload.n \in Nat \ {0} /\ payload.len \in Nat \ {0}
      BY <2>2, FitFacts, Zenon
    <3> QED
      BY <2>2, <3>1 DEF Item, Payload
  <2>3. d.type # "init"
    BY <1>5
  <2> QED
    BY <1>5, <2>1, <2>2, <2>3, Zenon DEF Sealed
<1> HIDE DEF payload
<1>8. PlaceInv'
  BY <1>1, Zenon DEF PlaceInv
<1>9. \A j \in 1 .. 8 : j # 2 /\ j # 3 => Way'[j] = Way[j]
  BY <1>1, WayIs
<1>10. /\ 2 \in 1 .. 8 /\ 3 \in 1 .. 8 /\ 2 < 3
       /\ \A j \in 1 .. 8 : ~(2 < j /\ j < 3)
  OBVIOUS
<1>11. /\ Increasing(inbound) /\ Below(Numbers(inbound), {d.n} \ {0})
       /\ Below(Numbers(inbound), Numbers(received'))
  BY <1>4, PlaceOrder, Zenon DEF Below
<1>12. /\ Way[2] = inbound /\ Way'[2] = inbound' /\ Way[3] = received /\ Way'[3] = received'
       /\ UNCHANGED <<read, mtu>>
  BY <1>1, WayIs, Zenon
<1>13. CASE inbound' = Append(inbound, payload) /\ dropped' = dropped /\ payload.len # 0
  <2>0. Fit(payload) /\ payload \in Item
    BY <1>7, <1>13, Zenon
  <2>1. /\ inbound' \in Seq(Item) /\ Range(inbound') = Range(inbound) \cup {payload}
        /\ Increasing(inbound')
    <3>1. Below(Numbers(inbound), {payload.n} \ {0})
      BY <1>6, <1>11, Zenon
    <3> QED
      BY <1>2, <1>11, <1>13, <2>0, <3>1, Appended, SMTT(30)
  <2>2. Numbers(inbound') = Numbers(inbound) \cup ({d.n} \ {0})
    BY <1>6, <2>1, Zenon DEF Numbers
  <2>3. Below(Numbers(inbound'), Numbers(received'))
    BY <1>3, <1>11, <2>2, Zenon DEF Below
  <2>4. Types'
    BY <1>1, <1>3, <2>1, Zenon DEF Types
  <2>5. FitInv'
    BY <1>1, <1>3, <2>0, <2>1, FitKept, Zenon DEF FitInv
  <2>6. Numbers(Way'[2]) \cup Numbers(Way'[3]) = Numbers(Way[2]) \cup Numbers(Way[3])
    BY <1>4, <1>12, <2>2, Zenon
  <2>7. /\ Increasing(Way'[2]) /\ Increasing(Way'[3])
        /\ Below(Numbers(Way'[2]), Numbers(Way'[3])) /\ dropped \subseteq dropped'
    BY <1>3, <1>12, <1>13, <2>1, <2>3, Zenon
  <2>8. InOrder' /\ NothingVanishes'
    BY <1>9, <1>10, <1>12, <2>6, <2>7, MovedOnly, Zenon
  <2> QED
    BY <1>8, <2>4, <2>5, <2>8, Zenon
<1>14. CASE /\ inbound' = inbound
            /\ \/ payload.len = 0 /\ dropped' = dropped
               \/ payload.len # 0 /\ dropped' = dropped \cup Drop(<<payload>>, "full")
  <2>1. Types'
    BY <1>1, <1>3, <1>14, Zenon DEF Types
  <2>2. FitInv'
    BY <1>1, <1>3, <1>14, FitKept, Zenon DEF FitInv
  <2>3. dropped \subseteq dropped' /\ \A n \in {d.n} \ {0} : Lost(n, dropped')
    <3>1. CASE payload.len = 0 /\ dropped' = dropped
      BY <1>7, <3>1, Zenon
    <3>2. CASE dropped' = dropped \cup Drop(<<payload>>, "full")
      <4>1. Numbers(<<payload>>) = {d.n} \ {0}
        <5>1. Range(<<payload>>) = {payload}
          BY DEF Range
        <5> QED
          BY <1>6, <5>1, Zenon DEF Numbers
      <4>2. "full" # "refused" /\ "full" # "unfit"
        OBVIOUS
      <4> QED
        BY <3>2, <4>1, <4>2, DropLost, Zenon
    <3> QED
      BY <1>14, <3>1, <3>2, Zenon
  <2>4. /\ Numbers(Way'[2]) \cup Numbers(Way'[3]) \subseteq Numbers(Way[2]) \cup Numbers(Way[3])
        /\ \A n \in Numbers(Way[2]) \cup Numbers(Way[3]) :
             n \in Numbers(Way'[2]) \cup Numbers(Way'[3]) \/ Lost(n, dropped')
    BY <1>4, <1>12, <1>14, <2>3, Zenon
  <2>5. /\ Increasing(Way'[2]) /\ Increasing(Way'[3])
        /\ Below(Numbers(Way'[2]), Numbers(Way'[3]))
    BY <1>3, <1>11, <1>12, <1>14, Zenon
  <2>6. InOrder' /\ NothingVanishes'
    BY <1>9, <1>10, <1>12, <2>3, <2>4, <2>5, MovedOnly, Zenon
  <2> QED
    BY <1>8, <2>1, <2>2, <2>6, Zenon
<1> QED
  BY <1>1, <1>13, <1>14, Zenon

\* recv_packet refuses nothing that was accepted, and the interface gets the
\* length the header declares.
LEMMA WriteInterfaceInv ==
  ASSUME WayInv, WriteInterface, mtu' = mtu
  PROVE  WayInv'
<1> USE DEF WayInv
<1> DEFINE p == Head(inbound)
           len == packet_info([read[p.n] EXCEPT !.size = p.len])
<1>1. /\ inbound # <<>> /\ inbound' = Tail(inbound)
      /\ len # {} => /\ \E size \in len : delivered' = Append(delivered, [p EXCEPT !.len = size])
                     /\ dropped' = dropped
      /\ UNCHANGED <<read, mtu, queue, credit, staged, sending, wire, buffer, received>>
  BY Zenon DEF WriteInterface
<1>2. inbound \in Seq(Item) /\ delivered \in Seq(Item)
  BY Zenon DEF Types
<1>3. /\ p \in Item /\ inbound' \in Seq(Item) /\ Range(inbound) = {p} \cup Range(inbound')
      /\ Increasing(inbound') /\ Below({p.n} \ {0}, Numbers(inbound'))
  BY <1>1, <1>2, HeadCut, PlaceOrder, Zenon
<1>4. Fit(p)
  BY <1>3, Zenon DEF FitInv
<1> HIDE DEF p
<1>5. p.n \in DOMAIN read /\ read[p.n] \in Packet /\ len # {} /\ len = packet_info(read[p.n])
  BY <1>4, FitFacts, Zenon DEF Fit
<1> HIDE DEF len
<1>6. PICK size \in len : delivered' = Append(delivered, [p EXCEPT !.len = size])
  BY <1>1, <1>5, Zenon
<1> DEFINE x == [p EXCEPT !.len = size]
<1>7. size \in Nat /\ packet_info(read[p.n]) = {size}
  BY <1>5, InfoFacts, Zenon
<1>8. x \in Item /\ x.n = p.n /\ x.len = size
  BY <1>3, <1>7 DEF Item
<1> HIDE DEF x
<1>9. Below(Numbers(delivered), {x.n} \ {0}) /\ Below(Numbers(delivered), Numbers(inbound'))
  <2>1. Numbers(inbound) = ({x.n} \ {0}) \cup Numbers(inbound')
    BY <1>3, <1>8, Zenon DEF Numbers
  <2> QED
    BY <2>1, PlaceOrder, Zenon DEF Below
<1>10. /\ delivered' \in Seq(Item) /\ Range(delivered') = Range(delivered) \cup {x}
       /\ Increasing(delivered')
  <2>1. Increasing(delivered) /\ delivered' = Append(delivered, x)
    BY <1>6, PlaceOrder, Zenon DEF x
  <2> QED
    BY <1>2, <1>8, <1>9, <2>1, Appended
<1>11. /\ Numbers(delivered') = Numbers(delivered) \cup ({x.n} \ {0})
       /\ Numbers(inbound) = ({x.n} \ {0}) \cup Numbers(inbound')
  BY <1>3, <1>8, <1>10, Zenon DEF Numbers
<1>12. Below(Numbers(delivered'), Numbers(inbound'))
  BY <1>3, <1>8, <1>9, <1>11, Zenon DEF Below
<1>13. Types'
  BY <1>1, <1>3, <1>10, Zenon DEF Types
<1>14. FitInv'
  <2>1. \A y \in Range(delivered') : y.n \in DOMAIN read /\ {y.len} = packet_info(read[y.n])
    BY <1>5, <1>7, <1>8, <1>10, Zenon DEF FitInv
  <2> QED
    BY <1>1, <1>3, <2>1, FitKept, Zenon DEF FitInv
<1>15. PlaceInv'
  BY <1>1, Zenon DEF PlaceInv
<1>16. \A j \in 1 .. 8 : j # 1 /\ j # 2 => Way'[j] = Way[j]
  BY <1>1, WayIs
<1>17. /\ 1 \in 1 .. 8 /\ 2 \in 1 .. 8 /\ 1 < 2
       /\ \A j \in 1 .. 8 : ~(1 < j /\ j < 2)
  OBVIOUS
<1>18. /\ Way[1] = delivered /\ Way'[1] = delivered' /\ Way[2] = inbound /\ Way'[2] = inbound'
       /\ UNCHANGED <<read, mtu>> /\ dropped \subseteq dropped'
  BY <1>1, <1>5, WayIs, Zenon
<1>19. Numbers(Way'[1]) \cup Numbers(Way'[2]) = Numbers(Way[1]) \cup Numbers(Way[2])
  BY <1>11, <1>18, Zenon
<1>20. /\ Increasing(Way'[1]) /\ Increasing(Way'[2])
       /\ Below(Numbers(Way'[1]), Numbers(Way'[2]))
  BY <1>3, <1>10, <1>12, <1>18, Zenon
<1>21. InOrder' /\ NothingVanishes'
  BY <1>16, <1>17, <1>18, <1>19, <1>20, MovedOnly, Zenon
<1> QED
  BY <1>13, <1>14, <1>15, <1>21, Zenon

\* What was read stays where it is when another packet is read.
LEMMA FitGrows ==
  ASSUME Types, NEW p \in Packet, read' = Append(read, p), mtu' = mtu
  PROVE  /\ read' \in Seq(Packet) /\ Len(read') = Len(read) + 1 /\ read'[Len(read')] = p
         /\ \A n \in DOMAIN read : n \in DOMAIN read' /\ read'[n] = read[n]
         /\ \A n \in DOMAIN read' : n \in DOMAIN read \/ n = Len(read')
         /\ Len(read') \in DOMAIN read'
         /\ \A x : Fit(x) => Fit(x)'
         /\ \A d : Sealed(d) => Sealed(d)'
<1>1. read \in Seq(Packet) /\ Len(read) \in Nat /\ DOMAIN read = 1 .. Len(read)
  BY DEF Types
<1>2. /\ read' \in Seq(Packet) /\ Len(read') = Len(read) + 1
      /\ DOMAIN read' = 1 .. Len(read) + 1
      /\ \A n \in 1 .. Len(read) : read'[n] = read[n]
      /\ read'[Len(read) + 1] = p
  BY <1>1
<1>3. /\ \A n \in 1 .. Len(read) : n \in 1 .. Len(read) + 1
      /\ \A n \in 1 .. Len(read) + 1 : n \in 1 .. Len(read) \/ n = Len(read) + 1
      /\ Len(read) + 1 \in 1 .. Len(read) + 1
  BY <1>1
<1>4. \A n \in DOMAIN read : n \in DOMAIN read' /\ read'[n] = read[n]
  BY <1>1, <1>2, <1>3, Zenon
<1>5. \A q : Recv(q)' = Recv(q)
  BY Zenon DEF Recv
<1>6. \A q : prepare_outbound_packet(q)' = prepare_outbound_packet(q)
  BY Zenon DEF prepare_outbound_packet
<1>7. ASSUME NEW x, Fit(x) PROVE Fit(x)'
  BY <1>4, <1>5, <1>6, <1>7, Zenon DEF Fit
<1>8. ASSUME NEW d, Sealed(d) PROVE Sealed(d)'
  BY <1>7, <1>8, Zenon DEF Sealed, Payload
<1> QED
  BY <1>1, <1>2, <1>3, <1>4, <1>7, <1>8, Zenon

\* The packets on their way are among those that were read.
LEMMA NumbersRead ==
  ASSUME Types, FitInv, NEW a \in 1 .. 8, NEW n \in Numbers(Way[a])
  PROVE  n \in DOMAIN read
<1>1. \A x : Fit(x) => x.n \in DOMAIN read
  BY Zenon DEF Fit
<1>2. ASSUME NEW d, Sealed(d), d.n # 0 PROVE d.n \in DOMAIN read
  <2>1. Fit(Payload(d)) /\ Payload(d).n = d.n
    BY <1>2 DEF Sealed, Payload
  <2> QED
    BY <1>1, <2>1, Zenon
<1>3. PICK x \in Range(Way[a]) : n = x.n /\ x.n # 0
  BY Zenon DEF Numbers
<1>4. \/ x \in Range(delivered) \/ x \in Range(inbound) \/ x \in Range(received)
      \/ x \in Range(buffer.rest) \/ x \in Range(wire) \/ x \in Range(staged)
      \/ x \in Range(sending) \/ x \in Range(queue)
  <2>1. a = 1 \/ a = 2 \/ a = 3 \/ a = 4 \/ a = 5 \/ a = 6 \/ a = 7 \/ a = 8
    OBVIOUS
  <2> QED
    BY <1>3, <2>1, WayIs, Zenon
<1> QED
  BY <1>1, <1>2, <1>3, <1>4, Zenon DEF FitInv

\* A packet that is read gets the next number.  It goes behind all others, or
\* is dropped for a reason.
LEMMA ReadInterfaceInv ==
  ASSUME WayInv, NEW p \in Plain \cup Odd, ReadInterface(p), mtu' = mtu
  PROVE  WayInv'
<1> USE DEF WayInv
<1> DEFINE new == Len(read')
           padded == prepare_outbound_packet(Recv(p))
           Reason(d) == /\ d.n = new /\ d.why # "refused"
                        /\ d.why = "unfit" => padded = {}
<1>1. /\ read' = Append(read, p)
      /\ UNCHANGED <<credit, staged, sending, wire, buffer, received, inbound, delivered, mtu>>
  BY Zenon DEF ReadInterface
<1>2. \/ /\ \E len \in padded : queue' = queue \o <<[n |-> new, len |-> len]>>
         /\ dropped' = dropped
      \/ /\ queue' = queue /\ dropped \subseteq dropped'
         /\ \E d \in dropped' : Reason(d)
  <2> DEFINE why == CASE padded = {} -> "unfit"
                      [] padded # {} /\ p \notin Routed -> "unrouted"
                      [] OTHER -> "full"
             x == [n |-> new, len |-> 0]
  <2>1. \/ /\ \E len \in padded : queue' = queue \o <<[n |-> new, len |-> len]>>
           /\ dropped' = dropped
        \/ /\ queue' = queue /\ dropped' = dropped \cup Drop(<<x>>, why)
    BY Zenon DEF ReadInterface
  <2>2. why # "refused" /\ (why = "unfit" => padded = {})
    <3> HIDE DEF padded
    <3> QED
      OBVIOUS
  <2>3. x \in Range(<<x>>) /\ x.n = new
    BY DEF Range
  <2>4. [n |-> x.n, why |-> why] \in Drop(<<x>>, why)
    BY <2>3, Zenon DEF Drop
  <2> HIDE DEF why, x, padded, new
  <2>5. Reason([n |-> x.n, why |-> why])
    BY <2>2, <2>3
  <2> QED
    BY <2>1, <2>4, <2>5, Zenon
<1>3. p \in Packet /\ mtu \in Nat /\ queue \in Seq(Item)
  BY PathAssumption, Zenon DEF Types
<1>4. /\ read' \in Seq(Packet) /\ new = Len(read) + 1 /\ read'[new] = p /\ new \in DOMAIN read'
      /\ \A n \in DOMAIN read : n \in DOMAIN read' /\ read'[n] = read[n]
      /\ \A n \in DOMAIN read' : n \in DOMAIN read \/ n = new
      /\ \A x : Fit(x) => Fit(x)'
      /\ \A d : Sealed(d) => Sealed(d)'
  BY <1>1, <1>3, FitGrows, Zenon
<1>5. new \in Nat \ {0} /\ \A n \in DOMAIN read : n < new
  BY <1>4, SMTT(30) DEF Types
<1>6. prepare_outbound_packet(Recv(p))' = padded
  BY <1>1, Zenon DEF prepare_outbound_packet, Recv
<1>7. PlaceInv'
  BY <1>1, Zenon DEF PlaceInv
<1>8. \A j \in 1 .. 8 : j # 8 => Way'[j] = Way[j]
  BY <1>1, WayIs
<1>9. \A a \in 1 .. 8 : \A n \in Numbers(Way[a]) : n \in DOMAIN read /\ n < new
  BY <1>5, NumbersRead, Zenon
<1>10. /\ \A x \in Range(delivered') : x.n \in DOMAIN read' /\ {x.len} = packet_info(read'[x.n])
  BY <1>1, <1>4, Zenon DEF FitInv
<1> HIDE DEF new
<1>11. DOMAIN Way = 1 .. 8 /\ DOMAIN Way' = 1 .. 8 /\ 8 \in 1 .. 8
  BY DEF Way
<1>12. \A n \in DOMAIN read : \A len \in packet_info(read[n]) : len \in packet_info(read'[n])
  BY <1>4, Zenon
<1>13. Lined(Way)
  BY Zenon DEF InOrder, Lined, Below
<1>14. CASE /\ \E len \in padded : queue' = queue \o <<[n |-> new, len |-> len]>>
            /\ dropped' = dropped
  <2>1. PICK len \in padded : queue' = queue \o <<[n |-> new, len |-> len]>>
    BY <1>14, Zenon
  <2>0. PICK x : x = [n |-> new, len |-> len]
    BY Zenon
  <2>2. x.n = new /\ x.len = len
    BY <2>0
  <2>3. len \in Nat
    BY <1>3, Restored, Zenon
  <2>4. x \in Item
    BY <1>5, <2>0, <2>3 DEF Item
  <2> HIDE DEF padded
  <2>5. Fit(x)'
    <3>1. x.n \in DOMAIN read' /\ x.len \in prepare_outbound_packet(Recv(p))'
      BY <1>4, <1>6, <2>2, Zenon
    <3> QED
      BY <1>4, <2>2, <3>1, Zenon DEF Fit
  <2>6. queue' = Append(queue, x)
    BY <1>3, <2>0, <2>1, <2>4
  <2>7. Below(Numbers(queue), {x.n} \ {0}) /\ Increasing(queue)
    BY <1>9, <1>11, <2>2, WayIs, PlaceOrder, Zenon DEF Below
  <2>8. /\ queue' \in Seq(Item) /\ Range(queue') = Range(queue) \cup {x} /\ Increasing(queue')
    <3>1. queue \in Seq(Item) /\ x \in Item
      BY <1>3, <2>4, Zenon
    <3> QED
      BY <2>6, <2>7, <3>1, Appended
  <2>9. Numbers(queue') = Numbers(queue) \cup {new}
    <3>1. new # 0
      BY <1>5, Zenon
    <3> QED
      BY <2>2, <2>8, <3>1, Zenon DEF Numbers
  <2>10. Types'
    BY <1>1, <1>4, <2>8, Zenon DEF Types
  <2>11. FitInv'
    BY <1>1, <1>4, <1>10, <2>5, <2>8, Zenon DEF FitInv
  <2>12. InOrder'
    <3>1. ASSUME NEW a \in 1 .. 8 PROVE Increasing(Way'[a])
      BY <1>8, <1>11, <1>13, <2>8, WayIs, Zenon DEF Lined
    <3>2. ASSUME NEW a \in 1 .. 8, NEW b \in 1 .. 8, a < b,
                 NEW m \in Numbers(Way'[a]), NEW n \in Numbers(Way'[b])
          PROVE  m < n
      <4>1. a # 8
        BY <3>2
      <4>2. m \in Numbers(Way[a])
        BY <1>8, <3>2, <4>1, Zenon
      <4>3. CASE n \in Numbers(Way[b])
        BY <1>11, <1>13, <3>2, <4>2, <4>3, Zenon DEF Lined, Below
      <4>4. CASE n = new
        BY <1>9, <4>2, <4>4, Zenon
      <4>5. n \in Numbers(Way[b]) \/ n = new
        BY <1>8, <2>9, <3>2, WayIs, Zenon
      <4> QED
        BY <4>3, <4>4, <4>5, Zenon
    <3> QED
      BY <1>11, <3>1, <3>2, Zenon DEF InOrder
  <2>13. NothingVanishes'
    <3>1. ASSUME NEW n \in DOMAIN read', ~ \E a \in 1 .. 8 : n \in Numbers(Way'[a])
          PROVE  n \in DOMAIN read /\ ~ \E a \in 1 .. 8 : n \in Numbers(Way[a])
      <4>1. n # new
        BY <1>11, <2>9, <3>1, WayIs, Zenon
      <4>2. \A a \in 1 .. 8 : n \in Numbers(Way[a]) => n \in Numbers(Way'[a])
        BY <1>8, <2>9, WayIs, Zenon
      <4> QED
        BY <1>4, <3>1, <4>1, <4>2, Zenon
    <3> QED
      BY <1>1, <1>4, <1>11, <1>14, <3>1, Zenon DEF NothingVanishes
  <2> QED
    BY <1>7, <2>10, <2>11, <2>12, <2>13, Zenon
<1>15. CASE queue' = queue /\ dropped \subseteq dropped' /\ \E d \in dropped' : Reason(d)
  <2>1. Types'
    BY <1>1, <1>4, <1>15, Zenon DEF Types
  <2>2. FitInv'
    BY <1>1, <1>4, <1>10, <1>15, Zenon DEF FitInv
  <2>3. Way' = Way
    BY <1>1, <1>15, Zenon DEF Way
  <2>4. InOrder'
    BY <2>3, Zenon DEF InOrder
  <2>5. ASSUME padded = {}, NEW len \in packet_info(p) PROVE len > start(mtu)
    BY <1>3, <2>5, Unfit, Zenon
  <2> HIDE DEF padded
  <2>6. NothingVanishes'
    <3> SUFFICES ASSUME NEW n \in DOMAIN read', ~ \E a \in DOMAIN Way : n \in Numbers(Way[a])
                 PROVE  \E d \in dropped' :
                          /\ d.n = n /\ d.why # "refused"
                          /\ d.why = "unfit" =>
                               \A len \in packet_info(read'[n]) : len > start(mtu)
      BY <1>1, <2>3, Zenon DEF NothingVanishes
    <3>1. CASE n = new
      BY <1>4, <1>15, <2>5, <3>1, Zenon
    <3>2. CASE n \in DOMAIN read
      BY <1>4, <1>15, <3>2, Zenon DEF NothingVanishes
    <3> QED
      BY <1>4, <3>1, <3>2, Zenon
  <2> QED
    BY <1>7, <2>1, <2>2, <2>4, <2>6, Zenon
<1> QED
  BY <1>2, <1>14, <1>15, Zenon

-----------------------------------------------------------------------------
(* What staging gives up.                                                  *)

\* The packets of the sending actor and its queue.
Waiting == Numbers(staged) \cup Numbers(sending) \cup Numbers(queue)

\* OldestIsDropped, and that the packets it is about were read.
DropInv ==
  \A d \in dropped :
    d.why = "staged" => d.n \in DOMAIN read /\ \A n \in Waiting : d.n < n

\* A step that gives up nothing staged and adds nothing to what waits.
LEMMA DropKept ==
  ASSUME DropInv, \A d \in dropped' : d.why = "staged" => d \in dropped,
         read' = read, Waiting' \subseteq Waiting
  PROVE  DropInv'
BY Zenon DEF DropInv

\* What is dropped for one reason is not dropped for another.
LEMMA DropWhy ==
  ASSUME NEW s, NEW why, why # "staged", dropped' = dropped \cup Drop(s, why)
  PROVE  \A d \in dropped' : d.why = "staged" => d \in dropped
<1>1. ASSUME NEW d \in Drop(s, why) PROVE d.why = why
  <2>1. PICK i \in Range(s) : d = [n |-> i.n, why |-> why]
    BY Zenon DEF Drop
  <2> QED
    BY <2>1
<1> QED
  BY <1>1, Zenon

\* The actor takes packets off its queue.
LEMMA SendQueuedDrop ==
  ASSUME WayInv, DropInv, SendQueued
  PROVE  DropInv'
<1>1. /\ sending' = Gathered /\ queue' = SubSeq(queue, Len(Gathered) + 1, Len(queue))
      /\ UNCHANGED <<read, staged, dropped>>
  BY Zenon DEF SendQueued
<1> DEFINE m == Least(BATCH_SIZE, Len(queue))
<1>2. queue \in Seq(Item) /\ m \in 0 .. Len(queue)
  <2>1. queue \in Seq(Item) /\ Len(queue) \in Nat /\ BATCH_SIZE \in Nat
    BY PathAssumption DEF WayInv, Types
  <2> QED
    BY <2>1 DEF Least
<1>3. Gathered = SubSeq(queue, 1, m)
  BY Zenon DEF Gathered
<1> HIDE DEF m
<1>4. Len(Gathered) = m /\ Range(queue) = Range(sending') \cup Range(queue')
  BY <1>1, <1>2, <1>3, Cuts
<1>5. Waiting' \subseteq Waiting
  BY <1>1, <1>4, Zenon DEF Waiting, Numbers
<1> QED
  BY <1>1, <1>5, DropKept, Zenon

\* A batch is sent, or dropped by the socket.
LEMMA SendBatchDrop ==
  ASSUME WayInv, DropInv, SendBatch
  PROVE  DropInv'
<1> DEFINE n == Least(BatchEnd(sending), credit)
           batch == SubSeq(sending, 1, n)
<1>1. /\ sending # <<>> /\ sending' = SubSeq(sending, n + 1, Len(sending))
      /\ dropped' = dropped \/ dropped' = dropped \cup Drop(batch, "socket")
      /\ UNCHANGED <<read, queue, staged>>
  BY Zenon DEF SendBatch
<1>2. sending \in Seq(Item) /\ credit \in Nat
  BY Zenon DEF WayInv, Types
<1>3. n \in 0 .. Len(sending)
  <2>1. BatchEnd(sending) \in 1 .. Len(sending) /\ Len(sending) \in Nat
    BY <1>1, <1>2, BatchFacts
  <2> QED
    BY <1>2, <2>1 DEF Least
<1> HIDE DEF n
<1>4. Range(sending') \subseteq Range(sending)
  BY <1>1, <1>2, <1>3, Cuts
<1>5. Waiting' \subseteq Waiting
  BY <1>1, <1>4, Zenon DEF Waiting, Numbers
<1>6. "socket" # "staged"
  OBVIOUS
<1>7. \A d \in dropped' : d.why = "staged" => d \in dropped
  BY <1>1, <1>6, DropWhy, Zenon
<1> QED
  BY <1>1, <1>5, <1>7, DropKept, Zenon

\* The numbers of what is dropped.
LEMMA DropNumbers ==
  ASSUME WayInv, NEW s, Range(s) \subseteq Range(staged) \cup Range(sending),
         NEW why, NEW d \in Drop(s, why)
  PROVE  d.n \in Numbers(s) /\ d.n \in DOMAIN read
<1>1. PICK x \in Range(s) : d = [n |-> x.n, why |-> why]
  BY Zenon DEF Drop
<1>2. d.n = x.n /\ x.n \in DOMAIN read /\ read \in Seq(Packet)
  BY <1>1, Zenon DEF WayInv, FitInv, Fit, Types
<1>3. x.n # 0
  BY <1>2
<1> QED
  BY <1>1, <1>2, <1>3, Zenon DEF Numbers

\* stage pops the oldest.
LEMMA StageRestDrop ==
  ASSUME WayInv, DropInv, StageRest
  PROVE  DropInv'
<1> DEFINE all == staged \o sending
           over == stage(staged, sending).lost
<1>1. /\ staged' = stage(staged, sending).kept /\ sending' = <<>>
      /\ dropped' = dropped \cup Drop(over, "staged") /\ UNCHANGED <<read, queue>>
  BY Zenon DEF StageRest
<1>2. staged \in Seq(Item) /\ sending \in Seq(Item) /\ InOrder
  BY Zenon DEF WayInv, Types
<1>3. PICK m \in 0 .. Len(all) :
        staged' = SubSeq(all, m + 1, Len(all)) /\ over = SubSeq(all, 1, m)
  BY <1>1, <1>2, StageCut, Zenon
<1>4. all \in Seq(Item) /\ Range(all) = Range(staged) \cup Range(sending)
  BY <1>2, Joins
<1>5. Increasing(all)
  BY <1>2, PlaceOrder, JoinsInOrder, Zenon
<1> HIDE DEF all, over
<1>6. Range(all) = Range(over) \cup Range(staged')
  BY <1>3, <1>4, Cuts
<1>7. Below(Numbers(over), Numbers(staged'))
  BY <1>3, <1>4, <1>5, CutsInOrder
<1>8. /\ Numbers(over) \cup Numbers(staged') \subseteq Numbers(staged) \cup Numbers(sending)
      /\ Numbers(sending') = {}
  BY <1>1, <1>4, <1>6, NoItems, Zenon DEF Numbers
<1>9. Below(Numbers(staged) \cup Numbers(sending), Numbers(queue))
  BY <1>2, BeforeQueue, Zenon
<1>10. ASSUME NEW d \in Drop(over, "staged")
       PROVE  d.n \in DOMAIN read /\ \A n \in Waiting' : d.n < n
  <2>1. d.n \in Numbers(over) /\ d.n \in DOMAIN read
    BY <1>4, <1>6, DropNumbers, Zenon
  <2> QED
    BY <1>1, <1>7, <1>8, <1>9, <2>1, Zenon DEF Below, Waiting
<1>11. Waiting' \subseteq Waiting
  BY <1>1, <1>8, Zenon DEF Waiting
<1> QED
  BY <1>1, <1>10, <1>11, Zenon DEF DropInv

\* What handshake_due gives up is older than what is queued.
LEMMA AbandonDrop ==
  ASSUME WayInv, DropInv, Abandon
  PROVE  DropInv'
<1>1. /\ sending = <<>> /\ staged' = <<>> /\ UNCHANGED <<read, queue, sending>>
      /\ dropped' = dropped \cup Drop(staged, "staged")
  BY Zenon DEF Abandon
<1>2. Numbers(staged') = {} /\ Numbers(sending') = {}
  BY <1>1, NoItems, Zenon
<1>3. Below(Numbers(staged) \cup Numbers(sending), Numbers(queue))
  BY BeforeQueue, Zenon DEF WayInv
<1>4. ASSUME NEW d \in Drop(staged, "staged")
      PROVE  d.n \in DOMAIN read /\ \A n \in Waiting' : d.n < n
  <2>1. d.n \in Numbers(staged) /\ d.n \in DOMAIN read
    BY DropNumbers, Zenon
  <2> QED
    BY <1>1, <1>2, <1>3, <2>1, Zenon DEF Below, Waiting
<1> QED
  BY <1>1, <1>2, <1>4, Zenon DEF DropInv, Waiting

\* What is read is younger than all that was.
LEMMA ReadInterfaceDrop ==
  ASSUME WayInv, DropInv, NEW p \in Plain \cup Odd, ReadInterface(p)
  PROVE  DropInv'
<1> DEFINE new == Len(read')
           padded == prepare_outbound_packet(Recv(p))
           why == CASE padded = {} -> "unfit"
                    [] padded # {} /\ p \notin Routed -> "unrouted"
                    [] OTHER -> "full"
<1>1. /\ read' = Append(read, p) /\ UNCHANGED <<staged, sending>>
      /\ \/ /\ \E len \in padded : queue' = queue \o <<[n |-> new, len |-> len]>>
            /\ dropped' = dropped
         \/ queue' = queue /\ dropped' = dropped \cup Drop(<<[n |-> new, len |-> 0]>>, why)
  BY Zenon DEF ReadInterface
<1>2. why # "staged"
  <2> HIDE DEF padded
  <2> QED
    OBVIOUS
<1>3. read \in Seq(Packet) /\ p \in Packet /\ queue \in Seq(Item)
  BY PathAssumption, Zenon DEF WayInv, Types
<1>4. new \in Nat /\ DOMAIN read \subseteq DOMAIN read' /\ \A n \in DOMAIN read : n < new
  BY <1>1, <1>3
<1> HIDE DEF new, padded, why
<1>5. \A d \in dropped' : d.why = "staged" => d \in dropped
  BY <1>1, <1>2, DropWhy, Zenon
<1>6. Numbers(queue') \subseteq Numbers(queue) \cup {new}
  <2>1. CASE queue' = queue
    BY <2>1, Zenon
  <2>2. ASSUME NEW len \in padded, queue' = queue \o <<[n |-> new, len |-> len]>>
        PROVE  Numbers(queue') \subseteq Numbers(queue) \cup {new}
    <3> DEFINE x == [n |-> new, len |-> len]
    <3>1. x.n = new
      OBVIOUS
    <3> HIDE DEF x
    <3>2. Range(queue \o <<x>>) \subseteq Range(queue) \cup {x}
      BY <1>3 DEF Range
    <3> QED
      BY <2>2, <3>1, <3>2, Zenon DEF Numbers, x
  <2> QED
    BY <1>1, <2>1, <2>2, Zenon
<1>7. Waiting' \subseteq Waiting \cup {new}
  BY <1>1, <1>6, Zenon DEF Waiting
<1> QED
  BY <1>4, <1>5, <1>7, Zenon DEF DropInv

\* Every step keeps DropInv.
LEMMA DropNext ==
  ASSUME WayInv, DropInv, PathNext
  PROVE  DropInv'
<1>1. CASE Establish
  <2>1. /\ sending' = staged /\ staged' = <<>> /\ UNCHANGED <<read, queue, dropped>>
    BY <1>1, Zenon DEF Establish
  <2>2. Waiting' \subseteq Waiting
    BY <2>1, NoItems, Zenon DEF Waiting
  <2> QED
    BY <2>1, <2>2, DropKept, Zenon
<1>2. CASE /\ UNCHANGED <<read, queue, staged, sending>>
           /\ \/ dropped' = dropped
              \/ \E s : \/ dropped' = dropped \cup Drop(s, "full")
                        \/ dropped' = dropped \cup Drop(s, "refused")
  <2>1. "full" # "staged" /\ "refused" # "staged"
    OBVIOUS
  <2>2. \A d \in dropped' : d.why = "staged" => d \in dropped
    BY <1>2, <2>1, DropWhy, Zenon
  <2>3. Waiting' = Waiting
    BY <1>2, Zenon DEF Waiting
  <2> QED
    BY <1>2, <2>2, <2>3, DropKept, Zenon
<1> QED
  BY <1>1, <1>2, SendQueuedDrop, SendBatchDrop, StageRestDrop, AbandonDrop,
     ReadInterfaceDrop, Zenon
     DEF PathNext, Expire, RecvBuffer, ReadSegment, ReceiveData, WriteInterface

-----------------------------------------------------------------------------
(* The invariant.                                                          *)

PathInv == WayInv /\ DropInv

\* It holds when run_packets begins, ...
LEMMA PathInitInv ==
  PathInit /\ mtu \in Nat => PathInv
<1> SUFFICES ASSUME PathInit, mtu \in Nat PROVE PathInv
  OBVIOUS
<1>1. /\ read = <<>> /\ queue = <<>> /\ credit = 0 /\ staged = <<>> /\ sending = <<>>
      /\ wire = <<>> /\ buffer = NoBuffer /\ buffer.rest = <<>>
      /\ received = <<>> /\ inbound = <<>> /\ delivered = <<>> /\ dropped = {}
  BY DEF PathInit, NoBuffer
<1>2. Types
  <2>1. buffer \in [stride : Nat, rest : Seq(Datagram)] /\ credit \in Nat
    BY <1>1 DEF NoBuffer
  <2> QED
    BY <1>1, <2>1, NoItems, Zenon DEF Types
<1>3. FitInv
  BY <1>1, NoItems, Zenon DEF FitInv
<1>4. PlaceInv
  BY <1>1, Zenon DEF PlaceInv
<1>5. \A a \in 1 .. 8 : Way[a] = <<>>
  BY <1>1 DEF Way
<1>6. InOrder
  BY <1>5, NoItems, WayIs, Zenon DEF InOrder
<1>7. NothingVanishes
  <2>1. DOMAIN read = {}
    BY <1>1
  <2> QED
    BY <2>1, Zenon DEF NothingVanishes
<1> QED
  BY <1>1, <1>2, <1>3, <1>4, <1>6, <1>7, Zenon DEF PathInv, WayInv, DropInv

\* ... also when it does not begin with the program, ...
LEMMA PathInitNext ==
  (PathInit /\ mtu \in Nat => PathInv)'
BY PathInitInv, PTL

\* ... every step of PathNext keeps it, ...
LEMMA PathNextInv ==
  ASSUME PathInv, PathNext, mtu' = mtu
  PROVE  PathInv'
<1>0. WayInv /\ DropInv'
  BY DropNext, Zenon DEF PathInv
<1>1. CASE \E p \in Plain \cup Odd : ReadInterface(p)
  BY <1>0, <1>1, ReadInterfaceInv, Zenon DEF PathInv
<1>2. CASE SendQueued
  BY <1>0, <1>2, SendQueuedInv, Zenon DEF PathInv
<1>3. CASE SendBatch
  BY <1>0, <1>3, SendBatchInv, Zenon DEF PathInv
<1>4. CASE StageRest
  BY <1>0, <1>4, StageRestInv, Zenon DEF PathInv
<1>5. CASE Establish
  BY <1>0, <1>5, EstablishInv, Zenon DEF PathInv
<1>6. CASE Expire
  BY <1>0, <1>6, ExpireInv, Zenon DEF PathInv
<1>7. CASE \E k \in 1 .. Len(wire) : RecvBuffer(k)
  BY <1>0, <1>7, RecvBufferInv, Zenon DEF PathInv
<1>8. CASE ReadSegment
  BY <1>0, <1>8, ReadSegmentInv, Zenon DEF PathInv
<1>9. CASE ReceiveData
  BY <1>0, <1>9, ReceiveDataInv, Zenon DEF PathInv
<1>10. CASE WriteInterface
  BY <1>0, <1>10, WriteInterfaceInv, Zenon DEF PathInv
<1>11. CASE Abandon
  BY <1>0, <1>11, AbandonInv, Zenon DEF PathInv
<1> QED
  BY <1>1, <1>2, <1>3, <1>4, <1>5, <1>6, <1>7, <1>8, <1>9, <1>10, <1>11, Zenon DEF PathNext

\* ... it is kept while nothing happens, ...
LEMMA PathStays ==
  ASSUME PathInv, UNCHANGED <<path, mtu>>
  PROVE  PathInv'
<1> USE DEF PathInv, WayInv
<1>1. UNCHANGED <<read, mtu, queue, credit, staged, sending, wire, buffer, received, inbound,
                  delivered, dropped>>
  BY Zenon DEF path
<1>2. Types' /\ PlaceInv'
  BY <1>1, Zenon DEF Types, PlaceInv
<1>3. FitInv'
  BY <1>1, FitKept, Zenon DEF FitInv
<1>4. Way' = Way
  BY <1>1, Zenon DEF Way
<1>5. InOrder'
  BY <1>4, Zenon DEF InOrder
<1>6. NothingVanishes'
  BY <1>1, <1>4, Zenon DEF NothingVanishes
<1>7. DropInv'
  BY <1>1, Zenon DEF DropInv, Waiting
<1> QED
  BY <1>2, <1>3, <1>5, <1>6, <1>7, Zenon

\* ... and it implies what is said of the packets.
LEMMA PathInvImplies ==
  ASSUME PathInv
  PROVE  InOrder /\ NothingVanishes /\ OldestIsDropped /\ LengthRestored /\ SendFits
BY SendFitsHolds, Zenon DEF PathInv, WayInv, FitInv, LengthRestored, DropInv, Waiting,
                            OldestIsDropped
=============================================================================
