---------------------------- MODULE DeviceProofs ----------------------------
(***************************************************************************)
(* The device, for every set of keys and prefixes, every length of         *)
(* addresses, every capacity of the inbound queue and any number of calls. *)
(*                                                                         *)
(* PeersAgree and HandlesAreCurrent are not inductive. A route leads to a  *)
(* current handle only as long as the tunnel's registration of a peer      *)
(* changes together with the device's, and the two differ while add_peer   *)
(* waits; what cancelling that call leaves behind depends on whether the   *)
(* key had routes by then. IInv says how the two registries differ during  *)
(* a call, that only a peer of the device has routes, with the handle the  *)
(* device holds, and that the table holds a prefix once. Each call         *)
(* preserves it by what insert, retain and longest_match of allowed_ips.rs *)
(* are shown to do to a table of any length, as a set of entries and as a  *)
(* function from prefixes to owners; the refinement of CryptokeyRouting    *)
(* uses the same lemmas to follow the owner of each prefix.                *)
(*                                                                         *)
(* The code walks the vector; the model does so with recursive functions.  *)
(* What such a walk computes is shown by induction on the number of steps, *)
(* in set form: the set of numbers of steps after which the claim holds    *)
(* has 0 and the successor of each of its members, so it has them all.     *)
(***************************************************************************)
EXTENDS Device, WellFoundedInduction, TLAPS

-----------------------------------------------------------------------------
(* Induction in set form.                                                  *)

\* A set of numbers with 0 and the successor of each member has them all: the
\* least number outside it would be a successor.  Every loop of the code that
\* a recursive function models is reasoned about with it.
LEMMA SetInduction ==
  ASSUME NEW S \in SUBSET Nat, 0 \in S, \A n \in S : n + 1 \in S
  PROVE  S = Nat
<1> SUFFICES ASSUME Nat \ S # {} PROVE FALSE
  BY Zenon
<1> DEFINE R == OpToRel(<, Nat)
<1>1. IsWellFoundedOn(R, Nat)
  BY NatLessThanWellFounded, Zenon
<1>2. \A x, y \in Nat : x < y => <<x, y>> \in R
  BY DEF OpToRel
<1> HIDE DEF R
<1>3. Nat \ S \subseteq Nat
  OBVIOUS
<1>4. PICK m \in Nat \ S : \A x \in Nat \ S : ~(<<x, m>> \in R)
  BY <1>1, <1>3, WFMin, Zenon
<1>5. m # 0 /\ m - 1 \in Nat /\ (m - 1) + 1 = m /\ m - 1 < m
  OBVIOUS
<1>6. m - 1 \in Nat \ S
  BY <1>5, Zenon
<1> QED
  BY <1>2, <1>4, <1>5, <1>6, Zenon

\* The same up to a bound: what holds at 0 and passes on up to m holds at m.
LEMMA BoundedInduction ==
  ASSUME NEW m \in Nat, NEW S \in SUBSET (0 .. m), 0 \in S,
         \A n \in S : n < m => n + 1 \in S
  PROVE  S = 0 .. m
<1> DEFINE T == S \cup {n \in Nat : n > m}
<1>1. T \in SUBSET Nat /\ 0 \in T
  <2>1. 0 .. m \in SUBSET Nat
    OBVIOUS
  <2>2. S \in SUBSET Nat
    BY <2>1, Zenon
  <2> QED
    BY <2>2, Zenon
<1>2. ASSUME NEW n \in T PROVE n + 1 \in T
  <2>1. CASE n \in S /\ n < m
    BY <2>1, Zenon
  <2>2. CASE ~(n \in S /\ n < m)
    <3>1. n \in Nat /\ n + 1 > m
      BY <1>1, <2>2
    <3> QED
      BY <3>1
  <2> QED
    BY <2>1, <2>2, Zenon
<1>3. T = Nat
  <2> HIDE DEF T
  <2> QED
    BY <1>1, <1>2, SetInduction, Zenon
<1>4. ASSUME NEW n \in 0 .. m PROVE n \in S
  BY <1>3
<1> QED
  BY <1>4, Zenon

\* A nonempty set of numbers has a least one: find finds an element whenever
\* there is one.
LEMMA LeastExists ==
  ASSUME NEW I \in SUBSET Nat, I # {}
  PROVE  \E x \in I : \A y \in I : x <= y
<1> SUFFICES ASSUME \A x \in I : \E y \in I : ~(x <= y) PROVE FALSE
  OBVIOUS
<1> DEFINE L == {n \in Nat : \A y \in I : n <= y}
<1>1. L \in SUBSET Nat /\ 0 \in L
  OBVIOUS
<1>2. ASSUME NEW n \in L PROVE n + 1 \in L
  <2>1. n \notin I
    OBVIOUS
  <2>2. ASSUME NEW y \in I PROVE n + 1 <= y
    <3>1. n <= y /\ n # y /\ n \in Nat /\ y \in Nat
      BY <2>1, Zenon
    <3> QED
      BY <3>1
  <2> QED
    BY <2>2
<1>3. L = Nat
  <2> HIDE DEF L
  <2> QED
    BY <1>1, <1>2, SetInduction, Zenon
<1>4. PICK x : x \in I
  OBVIOUS
<1>5. x + 1 \in L
  BY <1>3, <1>4, Zenon
<1> QED
  BY <1>4, <1>5

\* A nonempty set of numbers up to m has a greatest one: max_by_key finds an
\* element whenever there is one.
LEMMA GreatestExists ==
  ASSUME NEW m \in Nat, NEW I \in SUBSET (0 .. m), I # {}
  PROVE  \E x \in I : \A y \in I : x >= y
<1> DEFINE J == {m - i : i \in I}
<1>1. J \in SUBSET Nat /\ J # {}
  <2>1. \A i \in 0 .. m : m - i \in Nat
    OBVIOUS
  <2>2. \A i \in I : m - i \in Nat
    BY <2>1, Zenon
  <2> QED
    BY <2>2, Zenon
<1>2. PICK a \in J : \A b \in J : a <= b
  <2> HIDE DEF J
  <2> QED
    BY <1>1, LeastExists, Zenon
<1>3. PICK x \in I : a = m - x
  OBVIOUS
<1>4. ASSUME NEW y \in I PROVE x >= y
  <2>1. m - x <= m - y
    BY <1>2, <1>3, Zenon
  <2>2. \A p, q \in 0 .. m : m - p <= m - q => p >= q
    OBVIOUS
  <2>3. x \in 0 .. m /\ y \in 0 .. m
    BY Zenon
  <2> QED
    BY <2>1, <2>2, <2>3, Zenon
<1> QED
  BY <1>4, Zenon

-----------------------------------------------------------------------------
(* The tables.                                                             *)

\* What an entry leads to: the handle of a registration of a peer.
Value == [key : Key, registration : Nat]

\* An element of the vector: a prefix that was named, and a handle.
Entry == [net : Named, value : Value]

\* The vectors that insert keeps: a prefix occurs once at most.
Table == {t \in Seq(Entry) : \A i, j \in 1 .. Len(t) : t[i].net = t[j].net => i = j}

-----------------------------------------------------------------------------
(* What the operations do to the entries.                                  *)

\* AllowedIps::insert looks for the prefix in the vector: it finds an entry
\* of that prefix, or there is none.
LEMMA InsertPlace ==
  ASSUME NEW t \in Seq(Entry), NEW n
  PROVE  LET found == {i \in DOMAIN t : t[i].net = n}
         IN  found # {} => Min(found) \in found
<1> DEFINE found == {i \in DOMAIN t : t[i].net = n}
<1> SUFFICES ASSUME found # {} PROVE Min(found) \in found
  BY Zenon
<1>1. found \in SUBSET Nat
  OBVIOUS
<1> HIDE DEF found
<1>2. \E x \in found : \A y \in found : x <= y
  BY <1>1, LeastExists, Zenon
<1> QED
  BY <1>2, Zenon DEF Min

\* Pushing an entry whose prefix is not in the table adds that entry, and
\* keeps prefixes unique.
LEMMA AppendEntry ==
  ASSUME NEW t \in Table, NEW x \in Entry, \A e \in Range(t) : e.net # x.net
  PROVE  /\ Append(t, x) \in Table
         /\ Range(Append(t, x)) = Range(t) \cup {x}
<1> DEFINE u == Append(t, x)
<1>1. t \in Seq(Entry) /\ DOMAIN t = 1 .. Len(t) /\ Len(t) \in Nat
  BY DEF Table
<1>2. \A j \in 1 .. Len(t) : t[j].net # x.net
  BY <1>1, Zenon DEF Range
<1>3. u \in Seq(Entry) /\ Len(u) = Len(t) + 1 /\ u[Len(t) + 1] = x
      /\ \A j \in 1 .. Len(t) : u[j] = t[j]
  BY <1>1
<1> HIDE DEF u
<1>4. u \in Table
  <2> SUFFICES ASSUME NEW a \in 1 .. Len(u), NEW b \in 1 .. Len(u), u[a].net = u[b].net
               PROVE  a = b
    BY <1>3, Zenon DEF Table
  <2>1. CASE a \in 1 .. Len(t) /\ b \in 1 .. Len(t)
    BY <2>1, <1>3, Zenon DEF Table
  <2>2. CASE a \in 1 .. Len(t) /\ b = Len(t) + 1
    BY <2>2, <1>2, <1>3, Zenon
  <2>3. CASE b \in 1 .. Len(t) /\ a = Len(t) + 1
    BY <2>3, <1>2, <1>3, Zenon
  <2> QED
    BY <2>1, <2>2, <2>3, <1>1, <1>3
<1>5. DOMAIN u = 1 .. Len(t) + 1
  BY <1>3
<1>6. ASSUME NEW e \in Range(u) PROVE e \in Range(t) \cup {x}
  BY <1>1, <1>3, <1>5 DEF Range
<1>7. x \in Range(u)
  BY <1>1, <1>3, <1>5 DEF Range
<1>8. ASSUME NEW e \in Range(t) PROVE e \in Range(u)
  <2>1. PICK j \in 1 .. Len(t) : e = t[j]
    BY <1>1, Zenon DEF Range
  <2> QED
    BY <2>1, <1>1, <1>3, <1>5 DEF Range
<1> QED
  BY <1>4, <1>6, <1>7, <1>8, Zenon DEF u

\* AllowedIps::insert puts the handle at the prefix without its host bits, in
\* place of the entry that was there; all other entries stay.
LEMMA InsertEntries ==
  ASSUME NEW t \in Table, NEW net \in Given, NEW v \in Value
  PROVE  /\ insert(t, net, v) \in Table
         /\ Range(insert(t, net, v)) =
              {e \in Range(t) : e.net # trunc(net)} \cup {[net |-> trunc(net), value |-> v]}
<1> DEFINE n == trunc(net)
           found == {j \in DOMAIN t : t[j].net = n}
           i == Min(found)
           x == [net |-> n, value |-> v]
<1>1. n \in Named /\ x \in Entry
  BY Zenon DEF Named, Entry
<1>2. t \in Seq(Entry) /\ DOMAIN t = 1 .. Len(t) /\ Len(t) \in Nat
  BY DEF Table
<1>3. found # {} => i \in 1 .. Len(t) /\ t[i].net = n
  <2> HIDE DEF n
  <2> QED
    BY <1>2, InsertPlace, Zenon
<1>4. insert(t, net, v) = IF found # {} THEN [t EXCEPT ![i].value = v] ELSE Append(t, x)
  BY Zenon DEF insert
<1>5. x.net = n /\ x.value = v
  OBVIOUS
<1>6. CASE found = {}
  <2> DEFINE u == Append(t, x)
  <2>1. insert(t, net, v) = u
    BY <1>4, <1>6, Zenon
  <2>2. \A j \in 1 .. Len(t) : t[j].net # n
    BY <1>2, <1>6
  <2> HIDE DEF i, found, n, x
  <2>3. \A e \in Range(t) : e.net # x.net
    BY <2>2, <1>2, <1>5, Zenon DEF Range
  <2>4. u \in Table /\ Range(u) = Range(t) \cup {x}
    BY <1>1, <2>3, AppendEntry, Zenon
  <2> HIDE DEF u
  <2>5. Range(t) = {e \in Range(t) : e.net # n}
    BY <2>2, <1>2, Zenon DEF Range
  <2> QED
    BY <2>1, <2>4, <2>5, Zenon DEF x, n
<1>7. CASE found # {}
  <2> DEFINE u == [t EXCEPT ![i].value = v]
  <2>1. insert(t, net, v) = u
    BY <1>4, <1>7, Zenon
  <2>2. i \in 1 .. Len(t) /\ t[i].net = n
    BY <1>2, <1>3, <1>7, Zenon
  <2> HIDE DEF i, found, n
  <2>3. [t[i] EXCEPT !.value = v] = x
    <3>1. t[i] \in Entry
      BY <2>2, <1>2
    <3> QED
      BY <3>1, <2>2 DEF Entry
  <2> HIDE DEF x
  <2>4. u = [t EXCEPT ![i] = x]
    BY <2>3, Zenon
  <2>5. u \in Seq(Entry) /\ Len(u) = Len(t) /\ u[i] = x
        /\ \A j \in 1 .. Len(t) : j # i => u[j] = t[j]
    BY <2>4, <1>1, <1>2, <2>2
  <2> HIDE DEF u
  <2>6. \A j \in 1 .. Len(t) : u[j].net = t[j].net
    BY <2>5, <2>2, <1>5, Zenon
  <2>7. u \in Table
    BY <2>5, <2>6, Zenon DEF Table
  <2>8. DOMAIN u = 1 .. Len(t)
    BY <2>5
  <2> DEFINE Rest == {e \in Range(t) : e.net # n}
  <2>9. ASSUME NEW e \in Range(u) PROVE e \in Rest \cup {x}
    <3> SUFFICES ASSUME e # x PROVE e \in Rest
      OBVIOUS
    <3>1. PICK j \in 1 .. Len(t) : e = u[j]
      BY <2>8, Zenon DEF Range
    <3>2. j # i /\ e = t[j]
      BY <3>1, <2>5, Zenon
    <3>3. t[j].net # t[i].net
      BY <3>1, <3>2, <2>2, Zenon DEF Table
    <3> QED
      BY <3>2, <3>3, <2>2, <1>2, Zenon DEF Range
  <2>10. x \in Range(u)
    BY <2>5, <2>8, <2>2, Zenon DEF Range
  <2>11. ASSUME NEW e \in Rest PROVE e \in Range(u)
    <3>1. PICK j \in 1 .. Len(t) : e = t[j]
      BY <1>2, Zenon DEF Range
    <3>2. j # i
      BY <3>1, <2>2, Zenon
    <3> QED
      BY <3>1, <3>2, <2>5, <2>8, Zenon DEF Range
  <2>12. Range(u) = Rest \cup {x}
    <3> HIDE DEF Rest
    <3> QED
      BY <2>9, <2>10, <2>11, Zenon
  <2> QED
    BY <2>1, <2>7, <2>12, Zenon DEF x, n
<1> QED
  BY <1>6, <1>7, Zenon

\* AllowedIps::retain is a walk along the vector that keeps the entries of
\* other keys.
LEMMA RetainSteps ==
  ASSUME NEW t \in Seq(Entry), NEW k
  PROVE  \E it : /\ it[0] = <<>>
                 /\ \A i \in 1 .. Len(t) :
                      it[i] = IF t[i].value.key # k THEN Append(it[i - 1], t[i]) ELSE it[i - 1]
                 /\ retain(t, k) = it[Len(t)]
<1> DEFINE Step(a, i) == IF t[i].value.key # k THEN Append(a, t[i]) ELSE a
           Fits(it, n) == /\ DOMAIN it = 0 .. n /\ it[0] = <<>>
                          /\ \A i \in 1 .. n : it[i] = Step(it[i - 1], i)
           G == {n \in Nat : \E it : it = [i \in DOMAIN it |-> it[i]] /\ Fits(it, n)}
<1> HIDE DEF Step
<1>1. 0 \in G
  <2> DEFINE it == [i \in 0 .. 0 |-> <<>>]
  <2>1. it = [i \in DOMAIN it |-> it[i]] /\ Fits(it, 0)
    OBVIOUS
  <2> QED
    BY <2>1, Zenon
<1>2. ASSUME NEW n \in G PROVE n + 1 \in G
  <2>1. PICK it : it = [i \in DOMAIN it |-> it[i]] /\ Fits(it, n)
    OBVIOUS
  <2> DEFINE jt == [i \in 0 .. n + 1 |-> IF i = n + 1 THEN Step(it[n], n + 1) ELSE it[i]]
  <2>2. jt = [i \in DOMAIN jt |-> jt[i]]
    OBVIOUS
  <2>3. Fits(jt, n + 1)
    BY <2>1
  <2> HIDE DEF jt, Fits
  <2> QED
    BY <2>2, <2>3
<1>3. G = Nat
  <2> HIDE DEF G
  <2>1. G \in SUBSET Nat
    BY Zenon DEF G
  <2> QED
    BY <1>1, <1>2, <2>1, SetInduction, Zenon
<1>4. Len(t) \in Nat
  OBVIOUS
<1>5. PICK it : it = [i \in DOMAIN it |-> it[i]] /\ Fits(it, Len(t))
  BY <1>3, <1>4, Zenon
<1>6. it = [i \in 0 .. Len(t) |-> IF i = 0 THEN <<>> ELSE Step(it[i - 1], i)]
  BY <1>4, <1>5
<1> HIDE DEF G, Fits
<1>7. PICK jt : /\ jt = [i \in 0 .. Len(t) |-> IF i = 0 THEN <<>> ELSE Step(jt[i - 1], i)]
                /\ retain(t, k) = jt[Len(t)]
  BY <1>6, Zenon DEF retain, Step
<1>8. jt[0] = <<>> /\ \A i \in 1 .. Len(t) : jt[i] = Step(jt[i - 1], i)
  BY <1>4, <1>7
<1> QED
  BY <1>7, <1>8, Zenon DEF Step

\* AllowedIps::retain drops the entries of the key and no others, and keeps
\* prefixes unique.
LEMMA RetainEntries ==
  ASSUME NEW t \in Table, NEW k
  PROVE  /\ retain(t, k) \in Table
         /\ Range(retain(t, k)) = {e \in Range(t) : e.value.key # k}
<1>1. t \in Seq(Entry) /\ DOMAIN t = 1 .. Len(t) /\ Len(t) \in Nat
  BY DEF Table
<1>2. PICK it : /\ it[0] = <<>>
                /\ \A i \in 1 .. Len(t) :
                     it[i] = IF t[i].value.key # k THEN Append(it[i - 1], t[i]) ELSE it[i - 1]
                /\ retain(t, k) = it[Len(t)]
  BY <1>1, RetainSteps, Zenon
<1> DEFINE Kept(n) == {t[j] : j \in {j \in 1 .. n : t[j].value.key # k}}
           G == {n \in 0 .. Len(t) : it[n] \in Table /\ Range(it[n]) = Kept(n)}
<1>3. 0 \in G
  <2>1. <<>> \in Table /\ Range(<<>>) = {}
    BY DEF Table, Range
  <2>2. Kept(0) = {} /\ 0 \in 0 .. Len(t)
    BY <1>1
  <2> QED
    BY <1>2, <2>1, <2>2, Zenon
<1>4. ASSUME NEW n \in G, n < Len(t) PROVE n + 1 \in G
  <2>1. n \in Nat /\ n + 1 \in 1 .. Len(t) /\ (n + 1) - 1 = n
    BY <1>1, <1>4
  <2>2. it[n + 1] = IF t[n + 1].value.key # k THEN Append(it[n], t[n + 1]) ELSE it[n]
    BY <1>2, <2>1, Zenon
  <2>3. CASE t[n + 1].value.key = k
    <3>1. Kept(n + 1) = Kept(n)
      BY <2>1, <2>3
    <3> QED
      BY <3>1, <2>1, <2>2, <2>3
  <2>4. CASE t[n + 1].value.key # k
    <3>1. Kept(n + 1) = Kept(n) \cup {t[n + 1]}
      BY <2>1, <2>4
    <3>2. \A e \in Kept(n) : e.net # t[n + 1].net
      BY <1>1, <2>1 DEF Table
    <3>3. t[n + 1] \in Entry
      BY <1>1, <2>1
    <3> HIDE DEF Kept
    <3>4. it[n + 1] \in Table /\ Range(it[n + 1]) = Range(it[n]) \cup {t[n + 1]}
      BY <2>2, <2>4, <3>2, <3>3, AppendEntry
    <3>5. n + 1 \in 0 .. Len(t)
      BY <2>1
    <3> QED
      BY <3>1, <3>4, <3>5, Zenon
  <2> QED
    BY <2>3, <2>4, Zenon
<1>5. G = 0 .. Len(t)
  <2>1. G \in SUBSET (0 .. Len(t))
    OBVIOUS
  <2> HIDE DEF G
  <2> QED
    BY <1>1, <1>3, <1>4, <2>1, BoundedInduction, Zenon
<1>6. Len(t) \in G
  <2> HIDE DEF G
  <2> QED
    BY <1>1, <1>5
<1>7. Kept(Len(t)) = {e \in Range(t) : e.value.key # k}
  BY <1>1, Zenon DEF Range
<1> QED
  BY <1>2, <1>6, <1>7, Zenon

\* The loop of add_peer and set_peer inserts one prefix after the other.
LEMMA InsertAllSteps ==
  ASSUME NEW t, NEW S, NEW nets \in Seq(S), NEW v
  PROVE  \E it : /\ it[0] = t
                 /\ \A i \in 1 .. Len(nets) : it[i] = insert(it[i - 1], nets[i], v)
                 /\ InsertAll(t, nets, v) = it[Len(nets)]
<1> DEFINE Fits(it, n) == /\ DOMAIN it = 0 .. n /\ it[0] = t
                          /\ \A i \in 1 .. n : it[i] = insert(it[i - 1], nets[i], v)
           G == {n \in Nat : \E it : it = [i \in DOMAIN it |-> it[i]] /\ Fits(it, n)}
<1>1. 0 \in G
  <2> DEFINE it == [i \in 0 .. 0 |-> t]
  <2>1. it = [i \in DOMAIN it |-> it[i]] /\ Fits(it, 0)
    OBVIOUS
  <2> QED
    BY <2>1, Zenon
<1>2. ASSUME NEW n \in G PROVE n + 1 \in G
  <2>1. PICK it : it = [i \in DOMAIN it |-> it[i]] /\ Fits(it, n)
    OBVIOUS
  <2> DEFINE jt == [i \in 0 .. n + 1 |->
                     IF i = n + 1 THEN insert(it[n], nets[n + 1], v) ELSE it[i]]
  <2>2. jt = [i \in DOMAIN jt |-> jt[i]]
    OBVIOUS
  <2>3. Fits(jt, n + 1)
    BY <2>1
  <2> HIDE DEF jt, Fits
  <2> QED
    BY <2>2, <2>3
<1>3. G = Nat
  <2> HIDE DEF G
  <2>1. G \in SUBSET Nat
    BY Zenon DEF G
  <2> QED
    BY <1>1, <1>2, <2>1, SetInduction, Zenon
<1>4. Len(nets) \in Nat
  OBVIOUS
<1>5. PICK it : it = [i \in DOMAIN it |-> it[i]] /\ Fits(it, Len(nets))
  BY <1>3, <1>4, Zenon
<1>6. it = [i \in 0 .. Len(nets) |-> IF i = 0 THEN t ELSE insert(it[i - 1], nets[i], v)]
  BY <1>4, <1>5
<1> HIDE DEF G, Fits
<1>7. PICK jt : /\ jt = [i \in 0 .. Len(nets) |->
                        IF i = 0 THEN t ELSE insert(jt[i - 1], nets[i], v)]
                /\ InsertAll(t, nets, v) = jt[Len(nets)]
  BY <1>6, Zenon DEF InsertAll
<1>8. jt[0] = t /\ \A i \in 1 .. Len(nets) : jt[i] = insert(jt[i - 1], nets[i], v)
  BY <1>4, <1>7
<1> QED
  BY <1>7, <1>8, Zenon

\* The prefixes that a configuration means.
Truncated(nets) == {trunc(net) : net \in Range(nets)}

\* After that loop every prefix of the configuration leads to the handle, and
\* all other entries are as before, whatever the order of the prefixes and
\* however often one occurs.
LEMMA InsertAllEntries ==
  ASSUME NEW t \in Table, NEW nets \in Seq(Given), NEW v \in Value
  PROVE  /\ InsertAll(t, nets, v) \in Table
         /\ Range(InsertAll(t, nets, v)) =
              {e \in Range(t) : e.net \notin Truncated(nets)}
                \cup {[net |-> n, value |-> v] : n \in Truncated(nets)}
<1>1. DOMAIN nets = 1 .. Len(nets) /\ Len(nets) \in Nat
  OBVIOUS
<1>2. PICK it : /\ it[0] = t
                /\ \A i \in 1 .. Len(nets) : it[i] = insert(it[i - 1], nets[i], v)
                /\ InsertAll(t, nets, v) = it[Len(nets)]
  BY InsertAllSteps
<1> DEFINE Claims(n) == {trunc(nets[j]) : j \in 1 .. n}
           After(C) == {e \in Range(t) : e.net \notin C} \cup {[net |-> n, value |-> v] : n \in C}
           G == {n \in 0 .. Len(nets) : it[n] \in Table /\ Range(it[n]) = After(Claims(n))}
<1>3. 0 \in G
  <2>1. Claims(0) = {} /\ 0 \in 0 .. Len(nets)
    BY <1>1
  <2>2. After({}) = Range(t)
    OBVIOUS
  <2> HIDE DEF After, Claims
  <2> QED
    BY <1>2, <2>1, <2>2, Zenon
<1>4. ASSUME NEW n \in G, n < Len(nets) PROVE n + 1 \in G
  <2>1. n \in Nat /\ n + 1 \in 1 .. Len(nets) /\ (n + 1) - 1 = n
    BY <1>1, <1>4
  <2>2. it[n + 1] = insert(it[n], nets[n + 1], v)
    BY <1>2, <2>1, Zenon
  <2> DEFINE c == trunc(nets[n + 1])
  <2>3. Claims(n + 1) = Claims(n) \cup {c}
    BY <2>1
  <2> HIDE DEF c, Claims
  <2>4. After(Claims(n) \cup {c}) =
          {e \in After(Claims(n)) : e.net # c} \cup {[net |-> c, value |-> v]}
    OBVIOUS
  <2> HIDE DEF After
  <2>5. it[n + 1] \in Table
        /\ Range(it[n + 1]) = {e \in Range(it[n]) : e.net # c} \cup {[net |-> c, value |-> v]}
    BY <1>1, <2>1, <2>2, InsertEntries DEF c
  <2>6. n + 1 \in 0 .. Len(nets)
    BY <2>1
  <2> QED
    BY <2>3, <2>4, <2>5, <2>6, Zenon
<1>5. G = 0 .. Len(nets)
  <2>1. G \in SUBSET (0 .. Len(nets))
    OBVIOUS
  <2> HIDE DEF G
  <2> QED
    BY <1>1, <1>3, <1>4, <2>1, BoundedInduction, Zenon
<1>6. Len(nets) \in G
  <2> HIDE DEF G
  <2> QED
    BY <1>1, <1>5
<1>7. Claims(Len(nets)) = Truncated(nets)
  BY <1>1, Zenon DEF Truncated, Range
<1> HIDE DEF Claims
<1> QED
  BY <1>2, <1>6, <1>7, Zenon

\* AllowedIps::longest_match finds the handle of an entry that contains the
\* address, and no entry that does is more specific.
LEMMA LongestMatch ==
  ASSUME NEW t \in Table, NEW addr, NEW handle \in longest_match(t, addr)
  PROVE  \E e \in Range(t) :
           /\ e.value = handle /\ contains(e.net, addr)
           /\ \A f \in Range(t) : contains(f.net, addr) => f.net.len <= e.net.len
<1> DEFINE Test(e) == /\ contains(e.net, addr)
                      /\ \A f \in Range(t) : contains(f.net, addr) => f.net.len <= e.net.len
           I == {j \in DOMAIN t : Test(t[j])}
<1>1. t \in Seq(Entry) /\ DOMAIN t = 1 .. Len(t) /\ Len(t) \in Nat
  BY DEF Table
<1>2. longest_match(t, addr) = IF I = {} THEN {} ELSE {t[Max(I)].value}
  BY Zenon DEF longest_match
<1> HIDE DEF Test
<1>3. I # {} /\ handle = t[Max(I)].value
  <2> HIDE DEF I
  <2> QED
    BY <1>2, Zenon
<1>4. Max(I) \in I
  <2>1. I \in SUBSET (0 .. Len(t))
    BY <1>1
  <2>2. \E x \in I : \A y \in I : x >= y
    <3> HIDE DEF I
    <3> QED
      BY <1>1, <1>3, <2>1, GreatestExists, Zenon
  <2> HIDE DEF I
  <2> QED
    BY <2>2, Zenon DEF Max
<1>5. PICK j \in 1 .. Len(t) : j = Max(I) /\ Test(t[j])
  BY <1>1, <1>4, Zenon
<1>6. t[j] \in Range(t)
  BY <1>1, Zenon DEF Range
<1> QED
  BY <1>3, <1>5, <1>6, Zenon DEF Test

\* AllowedIps::longest_match finds an entry whenever one contains the
\* address.
LEMMA MatchFound ==
  ASSUME NEW t \in Table, NEW addr, NEW e \in Range(t), contains(e.net, addr)
  PROVE  longest_match(t, addr) # {}
<1> DEFINE Test(x) == /\ contains(x.net, addr)
                      /\ \A f \in Range(t) : contains(f.net, addr) => f.net.len <= x.net.len
           I == {j \in DOMAIN t : Test(t[j])}
           L == {x.net.len : x \in {f \in Range(t) : contains(f.net, addr)}}
<1>1. t \in Seq(Entry) /\ DOMAIN t = 1 .. Len(t) /\ Len(t) \in Nat
  BY DEF Table
<1>2. L \in SUBSET (0 .. ADDR_BITS)
  <2>1. \A n \in Named : n.len \in 0 .. ADDR_BITS
    BY DeviceAssumption, Zenon DEF Named, IpNet, trunc
  <2>2. \A f \in Range(t) : f \in Entry
    BY <1>1 DEF Range
  <2> QED
    BY <2>1, <2>2, Zenon DEF Entry
<1>3. L # {}
  BY Zenon
<1>4. PICK m \in L : \A n \in L : m >= n
  <2> HIDE DEF L
  <2> QED
    BY <1>2, <1>3, GreatestExists, DeviceAssumption, Zenon
<1>5. PICK f \in Range(t) : contains(f.net, addr) /\ m = f.net.len
  OBVIOUS
<1>6. PICK j \in 1 .. Len(t) : f = t[j]
  BY <1>1, Zenon DEF Range
<1>7. Test(t[j])
  <2>1. ASSUME NEW g \in Range(t), contains(g.net, addr) PROVE g.net.len <= f.net.len
    <3>1. g.net.len \in L
      BY <2>1, Zenon
    <3> HIDE DEF L
    <3> QED
      BY <3>1, <1>2, <1>4, <1>5, Zenon
  <2> QED
    BY <2>1, <1>5, <1>6, Zenon
<1>8. longest_match(t, addr) = IF I = {} THEN {} ELSE {t[Max(I)].value}
  BY Zenon DEF longest_match
<1>9. j \in I
  BY <1>1, <1>7, Zenon
<1> HIDE DEF I
<1> QED
  BY <1>8, <1>9, Zenon

-----------------------------------------------------------------------------
(* The owner of a prefix.                                                  *)

\* Device!Owner for any table: the key that a prefix leads to.
OwnerIn(t, net) ==
  LET keys == {e.value.key : e \in {e \in Range(t) : e.net = net}}
  IN  IF keys = {} THEN None ELSE CHOOSE k \in keys : TRUE

\* The key of an entry owns its prefix: no other entry has the prefix.
LEMMA EntryOwns ==
  ASSUME NEW t \in Table, NEW e \in Range(t)
  PROVE  OwnerIn(t, e.net) = e.value.key
<1> DEFINE keys == {f.value.key : f \in {f \in Range(t) : f.net = e.net}}
<1>1. DOMAIN t = 1 .. Len(t)
  BY DEF Table
<1>2. \A f \in Range(t) : f.net = e.net => f = e
  BY <1>1, Zenon DEF Table, Range
<1>3. keys = {e.value.key}
  BY <1>2, Zenon
<1>4. OwnerIn(t, e.net) = IF keys = {} THEN None ELSE CHOOSE k \in keys : TRUE
  BY Zenon DEF OwnerIn
<1> HIDE DEF keys
<1> QED
  BY <1>3, <1>4, Zenon

\* A prefix without an entry has no owner.
LEMMA UnclaimedIsFree ==
  ASSUME NEW t, NEW net, \A e \in Range(t) : e.net # net
  PROVE  OwnerIn(t, net) = None
<1>1. {e.value.key : e \in {e \in Range(t) : e.net = net}} = {}
  OBVIOUS
<1> QED
  BY <1>1, Zenon DEF OwnerIn

\* Inserting the prefixes of a configuration makes its peer the owner of
\* these, and leaves the owners of the others (the last claim of a prefix
\* wins).
LEMMA ClaimOwner ==
  ASSUME NEW t \in Table, NEW nets \in Seq(Given), NEW v \in Value, NEW n \in Named
  PROVE  OwnerIn(InsertAll(t, nets, v), n) =
           IF n \in Truncated(nets) THEN v.key ELSE OwnerIn(t, n)
<1> DEFINE u == InsertAll(t, nets, v)
<1>1. /\ u \in Table
      /\ Range(u) = {e \in Range(t) : e.net \notin Truncated(nets)}
                       \cup {[net |-> c, value |-> v] : c \in Truncated(nets)}
  BY InsertAllEntries, Zenon
<1> HIDE DEF u
<1>2. CASE n \in Truncated(nets)
  <2> DEFINE x == [net |-> n, value |-> v]
  <2>1. x \in Range(u) /\ x.net = n /\ x.value = v
    BY <1>1, <1>2, Zenon
  <2> HIDE DEF x
  <2> QED
    BY <1>1, <1>2, <2>1, EntryOwns, Zenon DEF u
<1>3. CASE n \notin Truncated(nets)
  <2>1. \A e : e.net = n => (e \in Range(u) <=> e \in Range(t))
    BY <1>1, <1>3
  <2>2. CASE \E e \in Range(t) : e.net = n
    BY <1>1, <1>3, <2>1, <2>2, EntryOwns, Zenon DEF u
  <2>3. CASE \A e \in Range(t) : e.net # n
    <3>1. \A e \in Range(u) : e.net # n
      BY <2>1, <2>3, Zenon
    <3> QED
      BY <1>3, <2>3, <3>1, UnclaimedIsFree, Zenon DEF u
  <2> QED
    BY <2>2, <2>3, Zenon
<1> QED
  BY <1>2, <1>3, Zenon

\* Dropping the prefixes of a peer releases those it owns and no others.
LEMMA ReleaseOwner ==
  ASSUME NEW t \in Table, NEW k, NEW n \in Named
  PROVE  OwnerIn(retain(t, k), n) = IF OwnerIn(t, n) = k THEN None ELSE OwnerIn(t, n)
<1> DEFINE u == retain(t, k)
<1>1. u \in Table /\ Range(u) = {e \in Range(t) : e.value.key # k}
  BY RetainEntries, Zenon
<1> HIDE DEF u
<1>2. CASE \E e \in Range(t) : e.net = n
  <2>1. PICK e \in Range(t) : e.net = n
    BY <1>2, Zenon
  <2>2. OwnerIn(t, n) = e.value.key
    BY <2>1, EntryOwns, Zenon
  <2>3. CASE e.value.key # k
    <3>1. e \in Range(u)
      BY <1>1, <2>3, Zenon
    <3>2. OwnerIn(u, n) = e.value.key
      BY <1>1, <2>1, <3>1, EntryOwns, Zenon
    <3> QED
      BY <2>2, <2>3, <3>2, Zenon DEF u
  <2>4. CASE e.value.key = k
    <3>1. \A f \in Range(u) : f.net # n
      <4> SUFFICES ASSUME NEW f \in Range(u), f.net = n PROVE FALSE
        OBVIOUS
      <4>1. f \in Range(t) /\ f.value.key # k
        BY <1>1, Zenon
      <4>2. OwnerIn(t, n) = f.value.key
        BY <4>1, EntryOwns, Zenon
      <4> QED
        BY <2>2, <2>4, <4>1, <4>2, Zenon
    <3>2. OwnerIn(u, n) = None
      BY <3>1, UnclaimedIsFree, Zenon
    <3> QED
      BY <2>2, <2>4, <3>2, Zenon DEF u
  <2> QED
    BY <2>3, <2>4, Zenon
<1>3. CASE \A e \in Range(t) : e.net # n
  <2>1. \A e \in Range(u) : e.net # n
    BY <1>1, <1>3, Zenon
  <2>2. OwnerIn(u, n) = None /\ OwnerIn(t, n) = None
    BY <1>3, <2>1, UnclaimedIsFree, Zenon
  <2> QED
    BY <2>2, Zenon DEF u
<1> QED
  BY <1>2, <1>3, Zenon

-----------------------------------------------------------------------------
(* The device.                                                             *)

\* A packet of the inbound queue.
Packet == [key : Key, source : Address]

\* The inductive invariant: the types; a registration is a number of its key;
\* while add_peer waits the tunnel has registered the key and the device has
\* not, and otherwise the two registries agree; a route leads to the handle
\* that the device holds for a registered peer.
IInv ==
  /\ peers \in [Key -> Nat] /\ tunnel \in [Key -> Nat]
  /\ registrations \in Seq(Key)
  /\ waiting \in {Nothing} \cup [did : {"add", "set"}, key : Key]
  /\ allowed_ips \in Table
  /\ inbound \in Seq(Packet) /\ Len(inbound) <= INBOUND_QUEUE_CAPACITY
  /\ \A k \in Key : tunnel[k] # 0 =>
       tunnel[k] \in 1 .. Len(registrations) /\ registrations[tunnel[k]] = k
  /\ \A k \in Key : IF Waiting("add", k) THEN peers[k] = 0 /\ tunnel[k] # 0
                     ELSE tunnel[k] = peers[k]
  /\ \A k \in Key : Waiting("set", k) => peers[k] # 0
  /\ \A e \in Range(allowed_ips) :
       peers[e.value.key] # 0 /\ peers[e.value.key] = e.value.registration

\* What an entry of a table is made of.
LEMMA TableKeys ==
  ASSUME NEW t \in Table, NEW e \in Range(t)
  PROVE  e \in Entry /\ e.net \in Named /\ e.value \in Value /\ e.value.key \in Key
<1>1. e \in Entry
  BY DEF Table, Range
<1> QED
  BY <1>1, Zenon DEF Entry, Value

\* A device starts with no peers and no routes.
LEMMA InitInv == Init => IInv
<1> SUFFICES ASSUME Init PROVE IInv
  OBVIOUS
<1>1. <<>> \in Table /\ Range(<<>>) = {}
  BY DEF Table, Range
<1>2. ASSUME NEW k \in Key, NEW op \in {"add", "set"} PROVE ~Waiting(op, k)
  BY Zenon DEF Init, Waiting, Nothing, None
<1> QED
  BY <1>1, <1>2, DeviceAssumption DEF Init, IInv

\* Device::add_peer up to its wait preserves IInv: the new peer has no routes
\* before the wait is over.
LEMMA AddPeerInv == ASSUME IInv, NEW k \in Key, add_peer(k) PROVE IInv'
<1> USE DEF add_peer, Idle, Wait
<1>1. /\ registrations' = Append(registrations, k) /\ waiting' = [did |-> "add", key |-> k]
      /\ tunnel' = [tunnel EXCEPT ![k] = Len(registrations) + 1]
      /\ peers[k] = 0 /\ waiting = Nothing
      /\ UNCHANGED <<peers, allowed_ips, inbound>>
      /\ Len(registrations) \in Nat
  BY DEF IInv
<1>2. registrations' \in Seq(Key) /\ Len(registrations') = Len(registrations) + 1
      /\ registrations'[Len(registrations) + 1] = k
      /\ \A i \in 1 .. Len(registrations) : registrations'[i] = registrations[i]
  BY <1>1 DEF IInv
<1>3. tunnel' \in [Key -> Nat] /\ tunnel'[k] = Len(registrations) + 1
      /\ \A l \in Key \ {k} : tunnel'[l] = tunnel[l]
  BY <1>1 DEF IInv
<1>4. ASSUME NEW l \in Key, tunnel'[l] # 0
      PROVE  tunnel'[l] \in 1 .. Len(registrations') /\ registrations'[tunnel'[l]] = l
  BY <1>1, <1>2, <1>3, <1>4 DEF IInv
<1>5. \A l \in Key : ~Waiting("add", l) /\ ~Waiting("set", l)' /\ (Waiting("add", l)' <=> l = k)
  BY <1>1 DEF Waiting, Nothing, None
<1>6. waiting' \in {Nothing} \cup [did : {"add", "set"}, key : Key]
  BY <1>1
<1>7. ASSUME NEW l \in Key
      PROVE  IF l = k THEN peers'[l] = 0 /\ tunnel'[l] # 0 ELSE tunnel'[l] = peers'[l]
  BY <1>1, <1>3, <1>5 DEF IInv
<1> QED
  BY <1>1, <1>2, <1>3, <1>4, <1>5, <1>6, <1>7 DEF IInv

\* The AllowedIPs of a configuration are a list of prefixes.
LEMMA GivenPrefixes == ASSUME NEW nets \in Allowed PROVE nets \in Seq(Given)
  BY DeviceAssumption DEF Allowed

\* The rest of Device::add_peer preserves IInv: its routes lead to the
\* registration it waited for.
LEMMA AddDoneInv ==
  ASSUME IInv, NEW k \in Key, NEW nets \in Seq(Given), add_peer_done(k, nets)
  PROVE  IInv'
<1> DEFINE v == Handle(k)
<1>1. /\ Waiting("add", k) /\ waiting' = Nothing
      /\ peers' = [peers EXCEPT ![k] = tunnel[k]]
      /\ allowed_ips' = InsertAll(allowed_ips, nets, v)
      /\ UNCHANGED <<tunnel, registrations, inbound>>
  BY Zenon DEF add_peer_done
<1>2. v \in Value /\ v.key = k /\ v.registration = tunnel[k]
  BY Zenon DEF Handle, Value, IInv
<1> HIDE DEF v
<1>3. peers[k] = 0 /\ tunnel[k] # 0 /\ tunnel[k] \in Nat
  BY <1>1, Zenon DEF IInv
<1>4. peers' \in [Key -> Nat] /\ peers'[k] = tunnel[k] /\ \A l \in Key \ {k} : peers'[l] = peers[l]
  BY <1>1, <1>3, Zenon DEF IInv
<1>5. allowed_ips' \in Table
      /\ Range(allowed_ips') = {e \in Range(allowed_ips) : e.net \notin Truncated(nets)}
                                 \cup {[net |-> n, value |-> v] : n \in Truncated(nets)}
  BY <1>1, <1>2, InsertAllEntries DEF IInv
<1>6. ASSUME NEW l \in Key
      PROVE  /\ ~Waiting("add", l)' /\ ~Waiting("set", l)' /\ ~Waiting("set", l)
             /\ Waiting("add", l) => l = k
  BY <1>1, Zenon DEF Waiting, Nothing, None
<1>7. ASSUME NEW e \in Range(allowed_ips')
      PROVE  peers'[e.value.key] # 0 /\ peers'[e.value.key] = e.value.registration
  <2>1. CASE e \in Range(allowed_ips)
    <3>1. e.value.key \in Key /\ peers[e.value.key] # 0
          /\ peers[e.value.key] = e.value.registration
      BY <2>1, TableKeys, Zenon DEF IInv
    <3> QED
      BY <3>1, <1>3, <1>4, Zenon
  <2>2. CASE e.value = v
    BY <2>2, <1>2, <1>3, <1>4, Zenon
  <2> QED
    BY <1>5, <2>1, <2>2
<1>8. \A l \in Key : tunnel'[l] = peers'[l]
  BY <1>1, <1>4, <1>6, Zenon DEF IInv
<1> QED
  BY <1>1, <1>4, <1>5, <1>6, <1>7, <1>8, Zenon DEF IInv

\* Device::set_peer up to its wait preserves IInv.
LEMMA SetPeerInv == ASSUME IInv, NEW k \in Key, set_peer(k) PROVE IInv'
<1> USE DEF set_peer, Idle, Wait
<1>1. \A l \in Key : ~Waiting("add", l) /\ ~Waiting("add", l)' /\ (Waiting("set", l)' <=> l = k)
  BY Zenon DEF Waiting, Nothing, None
<1>2. waiting' \in {Nothing} \cup [did : {"add", "set"}, key : Key]
  OBVIOUS
<1> QED
  BY <1>1, <1>2, Zenon DEF IInv

\* The rest of Device::set_peer preserves IInv: the routes of the peer are
\* replaced by routes to the handle it has.
LEMMA SetDoneInv ==
  ASSUME IInv, NEW k \in Key, NEW nets \in Seq(Given), set_peer_done(k, nets)
  PROVE  IInv'
<1> DEFINE v == Handle(k)
           r == retain(allowed_ips, k)
<1>1. /\ Waiting("set", k) /\ waiting' = Nothing
      /\ allowed_ips' = InsertAll(r, nets, v)
      /\ UNCHANGED <<peers, tunnel, registrations, inbound>>
  BY Zenon DEF set_peer_done
<1>2. v \in Value /\ v.key = k /\ v.registration = tunnel[k]
  BY DEF Handle, Value, IInv
<1>3. r \in Table /\ Range(r) \subseteq Range(allowed_ips)
  BY RetainEntries DEF IInv
<1> HIDE DEF v, r
<1>4. ASSUME NEW l \in Key
      PROVE  ~Waiting("add", l)' /\ ~Waiting("set", l)' /\ ~Waiting("add", l)
  BY <1>1, Zenon DEF Waiting, Nothing, None
<1>5. peers[k] # 0 /\ tunnel[k] = peers[k]
  BY <1>1, <1>4, Zenon DEF IInv
<1>6. allowed_ips' \in Table
      /\ Range(allowed_ips') = {e \in Range(r) : e.net \notin Truncated(nets)}
                                 \cup {[net |-> n, value |-> v] : n \in Truncated(nets)}
  BY <1>1, <1>2, <1>3, InsertAllEntries, Zenon
<1>7. ASSUME NEW e \in Range(allowed_ips')
      PROVE  peers[e.value.key] # 0 /\ peers[e.value.key] = e.value.registration
  <2>1. CASE e \in Range(allowed_ips)
    BY <2>1, Zenon DEF IInv
  <2>2. CASE e.value = v
    BY <2>2, <1>2, <1>5, Zenon
  <2> QED
    BY <1>3, <1>6, <2>1, <2>2
<1> QED
  BY <1>1, <1>4, <1>6, <1>7, Zenon DEF IInv

\* Dropping the future of add_peer or set_peer preserves IInv: what goes with
\* it has no routes.
LEMMA CancelInv == ASSUME IInv, Cancel PROVE IInv'
<1>1. waiting' = Nothing /\ UNCHANGED <<peers, registrations, allowed_ips, inbound>>
  BY Zenon DEF Cancel
<1>2. PICK op \in {"add", "set"}, k \in Key : waiting = [did |-> op, key |-> k]
  BY Zenon DEF Cancel, Idle, IInv
<1>3. \A l \in Key : ~Waiting("add", l)' /\ ~Waiting("set", l)'
  BY <1>1, Zenon DEF Waiting, Nothing, None
<1>4. CASE op = "add"
  <2>1. tunnel' = [tunnel EXCEPT ![k] = 0]
    BY <1>2, <1>4, Zenon DEF Cancel
  <2>2. tunnel' \in [Key -> Nat] /\ tunnel'[k] = 0 /\ \A l \in Key \ {k} : tunnel'[l] = tunnel[l]
    BY <2>1, Zenon DEF IInv
  <2>3. \A l \in Key : Waiting("add", l) <=> l = k
    BY <1>2, <1>4, Zenon DEF Waiting
  <2>4. \A l \in Key : tunnel'[l] = peers'[l]
    BY <1>1, <2>2, <2>3, Zenon DEF IInv
  <2> QED
    BY <1>1, <1>3, <2>2, <2>4 DEF IInv
<1>5. CASE op = "set"
  <2>1. tunnel' = tunnel
    BY <1>2, <1>5, Zenon DEF Cancel
  <2>2. \A l \in Key : ~Waiting("add", l)
    BY <1>2, <1>5, Zenon DEF Waiting
  <2> QED
    BY <1>1, <1>3, <2>1, <2>2, Zenon DEF IInv
<1> QED
  BY <1>4, <1>5, Zenon

\* Device::remove_peer preserves IInv: the routes of the peer go with its
\* registration.
LEMMA RemovePeerInv == ASSUME IInv, NEW k \in Key, remove_peer(k) PROVE IInv'
<1>1. /\ waiting = Nothing
      /\ peers' = [peers EXCEPT ![k] = 0] /\ tunnel' = [tunnel EXCEPT ![k] = 0]
      /\ allowed_ips' = retain(allowed_ips, k)
      /\ UNCHANGED <<waiting, registrations, inbound>>
  BY Zenon DEF remove_peer, Idle
<1>2. \A l \in Key : /\ ~Waiting("add", l) /\ ~Waiting("set", l)
                     /\ ~Waiting("add", l)' /\ ~Waiting("set", l)'
  BY <1>1, Zenon DEF Waiting, Nothing, None
<1>3. /\ peers' \in [Key -> Nat] /\ tunnel' \in [Key -> Nat]
      /\ peers'[k] = 0 /\ tunnel'[k] = 0
      /\ \A l \in Key \ {k} : peers'[l] = peers[l] /\ tunnel'[l] = tunnel[l]
  BY <1>1, Zenon DEF IInv
<1>4. allowed_ips' \in Table
      /\ Range(allowed_ips') = {e \in Range(allowed_ips) : e.value.key # k}
  BY <1>1, RetainEntries DEF IInv
<1>5. ASSUME NEW e \in Range(allowed_ips')
      PROVE  peers'[e.value.key] # 0 /\ peers'[e.value.key] = e.value.registration
  <2>1. e \in Range(allowed_ips) /\ e.value.key # k
    BY <1>4, Zenon
  <2>2. e.value.key \in Key
    BY <2>1, TableKeys, Zenon DEF IInv
  <2> QED
    BY <1>3, <2>1, <2>2, Zenon DEF IInv
<1>6. \A l \in Key : tunnel'[l] = peers'[l]
  BY <1>2, <1>3, Zenon DEF IInv
<1>7. \A l \in Key : tunnel'[l] # 0 =>
        tunnel'[l] \in 1 .. Len(registrations) /\ registrations[tunnel'[l]] = l
  BY <1>3, Zenon DEF IInv
<1> QED
  BY <1>1, <1>2, <1>3, <1>4, <1>5, <1>6, <1>7, Zenon DEF IInv

\* Sending, receiving and the deliveries of the tunnel preserve IInv.
LEMMA PacketInv ==
  ASSUME IInv,
         \/ \E addr \in Address : send_packet(addr)
         \/ \E k \in Key, source \in Address : TunnelDelivers(k, source)
         \/ recv_packet
  PROVE  IInv'
<1>1. UNCHANGED <<peers, tunnel, waiting, registrations, allowed_ips>>
  BY Zenon DEF send_packet, TunnelDelivers, recv_packet
<1>2. inbound' \in Seq(Packet) /\ Len(inbound') <= INBOUND_QUEUE_CAPACITY
  <2>1. CASE \E addr \in Address : send_packet(addr)
    BY <2>1, Zenon DEF send_packet, IInv
  <2>2. CASE \E k \in Key, source \in Address : TunnelDelivers(k, source)
    <3>1. PICK k \in Key, source \in Address : TunnelDelivers(k, source)
      BY <2>2, Zenon
    <3> DEFINE p == [key |-> k, source |-> source]
    <3>2. p \in Packet
      BY Zenon DEF Packet
    <3>3. inbound' = Append(inbound, p) /\ Len(inbound) < INBOUND_QUEUE_CAPACITY
      BY <3>1, Zenon DEF TunnelDelivers
    <3> HIDE DEF p
    <3> QED
      BY <3>2, <3>3, DeviceAssumption DEF IInv
  <2>3. CASE recv_packet
    <3>1. inbound' = Tail(inbound) /\ inbound # <<>> /\ inbound \in Seq(Packet)
      BY <2>3, Zenon DEF recv_packet, IInv
    <3> QED
      BY <3>1, DeviceAssumption DEF IInv
  <2> QED
    BY <2>1, <2>2, <2>3, Zenon
<1> QED
  BY <1>1, <1>2, Zenon DEF IInv, Waiting

\* IInv is an invariant of the device (Device of tunstile/src/lib.rs).
THEOREM Inductive == Spec => []IInv
<1>1. IInv /\ [Next]_vars => IInv'
  <2> SUFFICES ASSUME IInv, [Next]_vars PROVE IInv'
    OBVIOUS
  <2>1. CASE \E k \in Key : add_peer(k) \/ set_peer(k) \/ remove_peer(k)
    BY <2>1, AddPeerInv, SetPeerInv, RemovePeerInv, Zenon
  <2>2. CASE \E k \in Key : \E nets \in Allowed :
               add_peer_done(k, nets) \/ set_peer_done(k, nets)
    BY <2>2, GivenPrefixes, AddDoneInv, SetDoneInv, Zenon
  <2>3. CASE \/ \E addr \in Address : send_packet(addr)
             \/ \E k \in Key : \E source \in Address : TunnelDelivers(k, source)
             \/ recv_packet
    BY <2>3, PacketInv, Zenon
  <2>4. CASE Cancel
    BY <2>4, CancelInv, Zenon
  <2>5. CASE UNCHANGED vars
    BY <2>5, Zenon DEF vars, IInv, Waiting
  <2> QED
    BY <2>1, <2>2, <2>3, <2>4, <2>5, Zenon DEF Next
<1> QED
  BY InitInv, <1>1, PTL DEF Spec

-----------------------------------------------------------------------------
(* What follows from IInv.                                                 *)

\* The state of the device is well typed, its table holds a prefix once at
\* most and the inbound queue keeps its bound.
THEOREM DeviceWellTyped == Spec => []TypeOK
<1>1. IInv => TypeOK
  <2> SUFFICES ASSUME IInv PROVE TypeOK
    OBVIOUS
  <2>1. Named \subseteq Prefix
    BY DeviceAssumption, Zenon DEF Named, Prefix
  <2>2. \A e \in Range(allowed_ips) : e.net \in Prefix /\ e.value.key \in Key
    BY <2>1, TableKeys, Zenon DEF IInv
  <2>3. DOMAIN allowed_ips = 1 .. Len(allowed_ips)
        /\ DOMAIN registrations = 1 .. Len(registrations)
    BY DEF IInv, Table
  <2>4. \A i, j \in DOMAIN allowed_ips : allowed_ips[i].net = allowed_ips[j].net => i = j
    BY <2>3, Zenon DEF IInv, Table
  <2> QED
    BY <2>2, <2>3, <2>4, Zenon DEF IInv, TypeOK, Packet
<1> QED
  BY <1>1, Inductive, PTL

\* Whenever no call is in progress the device and the tunnel have the same
\* peers under the same registrations, whichever calls of add_peer and
\* set_peer were cancelled.
THEOREM PeersAgreeWithTunnel == Spec => []PeersAgree
<1>1. IInv => PeersAgree
  <2> SUFFICES ASSUME IInv, Idle PROVE tunnel = peers
    BY Zenon DEF PeersAgree
  <2>1. \A k \in Key : ~Waiting("add", k)
    BY Zenon DEF Idle, Waiting, Nothing, None
  <2> QED
    BY <2>1 DEF IInv
<1> QED
  BY <1>1, Inductive, PTL

\* No route of the device leads to the handle of an earlier registration,
\* during a call too.
THEOREM RoutesLeadToCurrentHandles == Spec => []HandlesAreCurrent
<1>1. IInv => HandlesAreCurrent
  <2> SUFFICES ASSUME IInv, NEW e \in Range(allowed_ips)
               PROVE  tunnel[e.value.key] = e.value.registration
    BY Zenon DEF HandlesAreCurrent
  <2>1. e.value.key \in Key
    BY TableKeys, Zenon DEF IInv
  <2> QED
    BY <2>1, Zenon DEF IInv
<1> QED
  BY <1>1, Inductive, PTL

\* The handle that longest_match finds is that of the owner of the most
\* specific prefix of the address.
LEMMA MatchIsRouted ==
  ASSUME IInv, NEW addr \in Address, NEW handle \in longest_match(allowed_ips, addr)
  PROVE  handle \in Value /\ Routed(handle.key, addr)
<1>1. allowed_ips \in Table
  BY Zenon DEF IInv
<1>2. PICK e \in Range(allowed_ips) :
        /\ e.value = handle /\ contains(e.net, addr)
        /\ \A f \in Range(allowed_ips) : contains(f.net, addr) => f.net.len <= e.net.len
  BY <1>1, LongestMatch
<1>3. e.net \in Named /\ handle \in Value
  BY <1>1, <1>2, TableKeys, Zenon
<1>4. \A net : Owner(net) = OwnerIn(allowed_ips, net)
  BY Zenon DEF Owner, OwnerIn
<1>5. Owner(e.net) = handle.key
  BY <1>1, <1>2, <1>4, EntryOwns, Zenon
<1>6. ASSUME NEW other \in Named, contains(other, addr), other.len > e.net.len
      PROVE  Owner(other) = None
  <2>1. \A n \in Named : n.len \in Nat
    BY DeviceAssumption DEF Named, IpNet, trunc
  <2>2. \A f \in Range(allowed_ips) : f.net # other
    BY <1>2, <1>3, <1>6, <2>1
  <2> QED
    BY <1>4, <2>2, UnclaimedIsFree, Zenon
<1> QED
  BY <1>2, <1>3, <1>5, <1>6, Zenon DEF Routed

\* Device::send_packet hands a packet to, and Device::recv_packet accepts one
\* from, the owner of the most specific prefix of its address only, at the
\* time of that call.
THEOREM TrafficFollowsTheRoutes == Spec => TrafficFollowsRoutes
<1> DEFINE Follows == outcome' # outcome /\ outcome'.did \in {"send", "recv"} =>
                        Routed(outcome'.key, outcome'.addr)
<1>1. ASSUME IInv, [Next]_vars PROVE [Follows]_vars
  <2> SUFFICES ASSUME outcome' # outcome, outcome'.did \in {"send", "recv"}
               PROVE  Routed(outcome'.key, outcome'.addr)
    OBVIOUS
  <2>1. Nothing.did \notin {"send", "recv"}
    BY Zenon DEF Nothing, None
  <2>2. CASE \E addr \in Address : send_packet(addr)
    <3>1. PICK addr \in Address : send_packet(addr)
      BY <2>2, Zenon
    <3>2. PICK handle \in longest_match(allowed_ips, addr) :
            outcome' = IF tunnel[handle.key] = handle.registration
                       THEN [did |-> "send", key |-> handle.key, addr |-> addr]
                       ELSE [did |-> "fail"]
      BY <3>1, Zenon DEF send_packet
    <3>3. outcome' = [did |-> "send", key |-> handle.key, addr |-> addr]
      BY <3>2, Zenon
    <3> QED
      BY <1>1, <3>2, <3>3, MatchIsRouted
  <2>3. CASE recv_packet
    <3> DEFINE p == Head(inbound)
    <3>1. p \in Packet
      BY <1>1, <2>3 DEF recv_packet, IInv
    <3>2. outcome' = IF \E handle \in longest_match(allowed_ips, p.source) : handle.key = p.key
                     THEN [did |-> "recv", key |-> p.key, addr |-> p.source]
                     ELSE Nothing
      BY <2>3, Zenon DEF recv_packet
    <3>3. p.source \in Address
      BY <3>1, Zenon DEF Packet
    <3> HIDE DEF p
    <3>4. PICK handle \in longest_match(allowed_ips, p.source) : handle.key = p.key
      BY <2>1, <3>2, Zenon
    <3>5. outcome' = [did |-> "recv", key |-> p.key, addr |-> p.source]
      BY <3>2, <3>4, Zenon
    <3> QED
      BY <1>1, <3>3, <3>4, <3>5, MatchIsRouted, Zenon
  <2>4. CASE ~recv_packet /\ ~\E addr \in Address : send_packet(addr)
    BY <1>1, <2>1, <2>4, Zenon
       DEF Next, vars, add_peer, set_peer, remove_peer, add_peer_done, set_peer_done,
           TunnelDelivers, Cancel, Wait, Record
  <2> QED
    BY <2>2, <2>3, <2>4, Zenon
<1> QED
  BY <1>1, Inductive, PTL DEF Spec, TrafficFollowsRoutes

-----------------------------------------------------------------------------
(* The refinement of CryptokeyRouting.                                     *)

\* Owner of Device is the owner in its table, before a step and after it.
LEMMA OwnersAre ==
  /\ \A n : Owner(n) = OwnerIn(allowed_ips, n)
  /\ \A n : Owner(n)' = OwnerIn(allowed_ips', n)
  BY Zenon DEF Owner, OwnerIn

\* add_peer, once its wait is over, is the step Register of CryptokeyRouting.
LEMMA RegisterRefines ==
  ASSUME IInv, NEW k \in Key, NEW nets \in Seq(Given), add_peer_done(k, nets)
  PROVE  Routes!Register(k, Truncated(nets))
<1>1. /\ Waiting("add", k) /\ peers' = [peers EXCEPT ![k] = tunnel[k]]
      /\ allowed_ips' = InsertAll(allowed_ips, nets, Handle(k))
      /\ request' = [op |-> "add", key |-> k, nets |-> Truncated(nets)]
  BY Zenon DEF add_peer_done, Record, Truncated
<1>2. Handle(k) \in Value /\ Handle(k).key = k
  BY Zenon DEF Handle, Value, IInv
<1>3. peers[k] = 0 /\ tunnel[k] # 0
  BY <1>1, Zenon DEF IInv
<1>4. {l \in Key : peers'[l] # 0} = {l \in Key : peers[l] # 0} \cup {k}
  BY <1>1, <1>3 DEF IInv
<1>5. \A n \in Named : Owner(n)' = IF n \in Truncated(nets) THEN k ELSE Owner(n)
  BY <1>1, <1>2, ClaimOwner, OwnersAre DEF IInv
<1> QED
  BY <1>1, <1>3, <1>4, <1>5, Zenon DEF Routes!Register, Routes!Claimed

\* set_peer, once its wait is over, is the step Replace of CryptokeyRouting.
LEMMA ReplaceRefines ==
  ASSUME IInv, NEW k \in Key, NEW nets \in Seq(Given), set_peer_done(k, nets)
  PROVE  Routes!Replace(k, Truncated(nets))
<1> DEFINE r == retain(allowed_ips, k)
<1>1. /\ Waiting("set", k) /\ peers' = peers
      /\ allowed_ips' = InsertAll(r, nets, Handle(k))
      /\ request' = [op |-> "set", key |-> k, nets |-> Truncated(nets)]
  BY Zenon DEF set_peer_done, Record, Truncated
<1>2. Handle(k) \in Value /\ Handle(k).key = k
  BY DEF Handle, Value, IInv
<1>3. peers[k] # 0
  BY <1>1, Zenon DEF IInv
<1>4. r \in Table
  BY RetainEntries, Zenon DEF IInv
<1>5. \A n \in Named : OwnerIn(r, n) = IF Owner(n) = k THEN None ELSE Owner(n)
  BY ReleaseOwner, OwnersAre DEF IInv
<1> HIDE DEF r
<1>6. \A n \in Named : Owner(n)' = IF n \in Truncated(nets) THEN k ELSE OwnerIn(r, n)
  BY <1>1, <1>2, <1>4, ClaimOwner, OwnersAre, Zenon
<1> QED
  BY <1>1, <1>3, <1>5, <1>6, Zenon DEF Routes!Replace, Routes!Claimed, Routes!Released

\* remove_peer is the step Unregister of CryptokeyRouting.
LEMMA UnregisterRefines ==
  ASSUME IInv, NEW k \in Key, remove_peer(k)
  PROVE  Routes!Unregister(k)
<1>1. /\ peers[k] # 0 /\ peers' = [peers EXCEPT ![k] = 0]
      /\ allowed_ips' = retain(allowed_ips, k)
      /\ Record("remove", k, <<>>)
  BY Zenon DEF remove_peer
<1>2. request' = [op |-> "remove", key |-> k, nets |-> {}]
  <2>1. {trunc(net) : net \in Range(<<>>)} = {}
    BY DEF Range
  <2> QED
    BY <1>1, <2>1, Zenon DEF Record
<1>3. {l \in Key : peers'[l] # 0} = {l \in Key : peers[l] # 0} \ {k}
  BY <1>1, Zenon DEF IInv
<1>4. \A n \in Named : Owner(n)' = IF Owner(n) = k THEN None ELSE Owner(n)
  BY <1>1, ReleaseOwner, OwnersAre DEF IInv
<1> QED
  BY <1>1, <1>2, <1>3, <1>4, Zenon DEF Routes!Unregister, Routes!Released

\* Every step of the device is a step of CryptokeyRouting or changes no owner
\* and no registered peer: the first halves of the calls, cancelling them and
\* the packets are such stutters.
LEMMA StepRefines ==
  ASSUME IInv, [Next]_vars
  PROVE  [Routes!Next]_<<request, [net \in Named |-> Owner(net)], {k \in Key : peers[k] # 0}>>
<1>1. ASSUME UNCHANGED <<request, allowed_ips, peers>>
      PROVE  UNCHANGED <<request, [net \in Named |-> Owner(net)], {k \in Key : peers[k] # 0}>>
  <2>1. \A n \in Named : Owner(n)' = Owner(n)
    BY <1>1, OwnersAre, Zenon
  <2> QED
    BY <1>1, <2>1, Zenon
<1>2. ASSUME NEW nets \in Seq(Given) PROVE Truncated(nets) \in SUBSET Named
  BY DEF Truncated, Named, Range
<1>3. CASE \E k \in Key : \E nets \in Allowed :
             add_peer_done(k, nets) \/ set_peer_done(k, nets)
  <2>1. PICK k \in Key, nets \in Allowed :
          add_peer_done(k, nets) \/ set_peer_done(k, nets)
    BY <1>3, Zenon
  <2>2. nets \in Seq(Given) /\ Truncated(nets) \in SUBSET Named
    BY <1>2, GivenPrefixes, Zenon
  <2>3. Routes!Register(k, Truncated(nets)) \/ Routes!Replace(k, Truncated(nets))
    BY <2>1, <2>2, RegisterRefines, ReplaceRefines, Zenon
  <2> QED
    BY <2>2, <2>3, Zenon DEF Routes!Next
<1>4. CASE \E k \in Key : remove_peer(k)
  BY <1>4, UnregisterRefines, Zenon DEF Routes!Next
<1>5. CASE \/ \E k \in Key : add_peer(k) \/ set_peer(k)
           \/ \E k \in Key : \E source \in Address : TunnelDelivers(k, source)
           \/ \E addr \in Address : send_packet(addr)
           \/ recv_packet \/ Cancel \/ UNCHANGED vars
  <2>1. UNCHANGED <<request, allowed_ips, peers>>
    BY <1>5, Zenon DEF add_peer, set_peer, TunnelDelivers, send_packet, recv_packet, Cancel, vars
  <2> QED
    BY <1>1, <2>1, Zenon
<1> QED
  BY <1>3, <1>4, <1>5, Zenon DEF Next

\* The vector of the device implements cryptokey routing: the last claim of a
\* prefix wins, and replacing or removing a peer releases its prefixes and no
\* others.
THEOREM DeviceImplementsRouting == Spec => ImplementsRouting
<1>1. Init => Routes!Init
  <2> SUFFICES ASSUME Init PROVE Routes!Init
    OBVIOUS
  <2>1. Range(allowed_ips) = {}
    BY DEF Init, Range
  <2>2. \A n \in Named : Owner(n) = None
    BY <2>1, UnclaimedIsFree, OwnersAre, Zenon
  <2> QED
    BY <2>2, Zenon DEF Init, Routes!Init
<1> QED
  BY <1>1, Inductive, StepRefines, PTL DEF Spec, Routes!Spec, ImplementsRouting
=============================================================================
