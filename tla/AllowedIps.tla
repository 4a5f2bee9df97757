---------------------------- MODULE AllowedIps -----------------------------
(***************************************************************************)
(* The routing table of tunstile/src/allowed_ips.rs: a vector of prefixes  *)
(* with the handle each routes to, searched in order.  An address is a     *)
(* family and a number of ADDR_BITS bits; a prefix keeps the first `len`   *)
(* of them.                                                                *)
(***************************************************************************)
EXTENDS Integers, Sequences, Functions, FiniteSetsExt

CONSTANTS ADDR_BITS, Family

Address == [family : Family, bits : 0 .. 2^ADDR_BITS - 1]

\* What a caller may pass: host bits need not be zero.
IpNet == [family : Family, bits : 0 .. 2^ADDR_BITS - 1, len : 0 .. ADDR_BITS]

Block(len) == 2^(ADDR_BITS - len)

\* IpNet::trunc clears the host bits.
trunc(net) == [net EXCEPT !.bits = @ - (@ % Block(net.len))]

Prefix == {trunc(net) : net \in IpNet}

\* IpNet::contains
contains(net, addr) ==
  /\ net.family = addr.family
  /\ addr.bits \div Block(net.len) = net.bits \div Block(net.len)

insert(entries, net, value) ==
  LET t == trunc(net)
      found == {i \in DOMAIN entries : entries[i].net = t}
  IN  IF found # {} THEN [entries EXCEPT ![Min(found)].value = value]
      ELSE Append(entries, [net |-> t, value |-> value])

\* Mutant: nothing is dropped.
RetainAll(entries, key) == entries

\* retain, with the predicate its callers pass: drop the prefixes of key.
retain(entries, key) ==
  LET kept[i \in 0 .. Len(entries)] ==
        IF i = 0 THEN <<>>
        ELSE IF entries[i].value.key # key THEN Append(kept[i - 1], entries[i])
        ELSE kept[i - 1]
  IN  kept[Len(entries)]

\* Mutant: the prefix that was inserted first wins.
FirstMatch(entries, addr) ==
  LET found == {i \in DOMAIN entries : contains(entries[i].net, addr)}
  IN  IF found = {} THEN {} ELSE {entries[Min(found)].value}

\* max_by_key keeps the last of the longest.
longest_match(entries, addr) ==
  LET longest == {i \in DOMAIN entries :
                    /\ contains(entries[i].net, addr)
                    /\ \A f \in Range(entries) :
                         contains(f.net, addr) => f.net.len <= entries[i].net.len}
  IN  IF longest = {} THEN {} ELSE {entries[Max(longest)].value}
=============================================================================
