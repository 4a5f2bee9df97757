----------------------------- MODULE ConfigFile -----------------------------
(***************************************************************************)
(* The configuration file of tunstile/src/bin/tunstile.rs: parse_config as *)
(* a machine that reads one line at a time, against what a file means.     *)
(*                                                                         *)
(* A line is a record: "blank" (empty or a comment), "section" with its    *)
(* name, "pair" with its key and its value, or "text", a line without "=". *)
(* A value is the sequence of its comma-separated parts, each what its     *)
(* parser makes of it, Bad when it refuses it, and Empty.  An Option is a  *)
(* set of at most one element.                                             *)
(***************************************************************************)
EXTENDS Integers, Sequences, SequencesExt, FiniteSetsExt

CONSTANTS Bad, Empty, DEFAULT_PORT, DEFAULT_MTU

InterfaceKeys == {"privatekey", "address", "listenport", "mtu"}

PeerKeys == {"publickey", "presharedkey", "endpoint", "allowedips", "persistentkeepalive"}

NewPeer ==
  [publickey |-> {}, presharedkey |-> {}, endpoint |-> {},
   persistentkeepalive |-> {}, allowedips |-> <<>>]

NewParser ==
  [section |-> "", privatekey |-> {}, address |-> {}, listenport |-> {DEFAULT_PORT},
   mtu |-> {}, peers |-> <<>>, error |-> FALSE]

\* Whether the value of a known key is accepted.  Only AllowedIPs and Address
\* may be lists, and of an Address only the first part is looked at; for the
\* other keys the parser gets the whole value and refuses a comma.
Accepts(key, value) ==
  CASE key = "allowedips" -> \A i \in DOMAIN value : value[i] # Bad
    [] key = "address" -> Head(value) \notin {Bad, Empty}
    [] OTHER ->
         /\ Len(value) = 1 /\ Head(value) \notin {Bad, Empty}
         /\ key = "persistentkeepalive" => ~(Head(value) = 0 \/ Head(value) >= 65535)

NonEmpty(value) == SelectSeq(value, LAMBDA part : part # Empty)

\* Mutant: a second AllowedIPs line replaces the first.
PeerKeyReplaced(peer, key, value) ==
  IF key = "allowedips"
  THEN [peer EXCEPT !.allowedips = NonEmpty(value)]
  ELSE [peer EXCEPT ![key] = {Head(value)}]

PeerKey(peer, key, value) ==
  IF key = "allowedips"
  THEN [peer EXCEPT !.allowedips = @ \o NonEmpty(value)]
  ELSE [peer EXCEPT ![key] = {Head(value)}]

\* The keys a section knows; the others are skipped.
Known(section) ==
  CASE section = "interface" -> InterfaceKeys
    [] section = "peer"      -> PeerKeys
    [] OTHER                 -> {}

Pair(s, key, value) ==
  IF key \notin Known(s.section) THEN s
  ELSE IF ~Accepts(key, value) THEN [s EXCEPT !.error = TRUE]
  ELSE IF s.section = "interface" THEN [s EXCEPT ![key] = {Head(value)}]
  ELSE [s EXCEPT !.peers[Len(s.peers)] = PeerKey(@, key, value)]

Section(s, name) ==
  [s EXCEPT !.section = name,
            !.peers = IF name = "peer" THEN Append(@, NewPeer) ELSE @]

\* One iteration of parse_config.
ParseLine(s, l) ==
  CASE l.line = "blank"   -> s
    [] l.line = "section" -> Section(s, l.name)
    [] l.line = "text"    -> [s EXCEPT !.error = TRUE]
    [] l.line = "pair"    -> Pair(s, l.key, l.value)

\* After the last line: what parse_config returns, if anything.
Parsed(s) ==
  IF \/ s.error \/ s.privatekey = {} \/ s.address = {}
     \/ \E i \in DOMAIN s.peers : s.peers[i].publickey = {}
  THEN {}
  ELSE {[listenport |-> s.listenport, privatekey |-> s.privatekey,
         address |-> s.address,
         mtu |-> IF s.mtu = {} THEN {DEFAULT_MTU} ELSE s.mtu, peers |-> s.peers]}

-----------------------------------------------------------------------------
(* What a file means, without reading it in order.                         *)

\* The line that opens the section line i is in, 0 before the first.
Opens(file, i) ==
  Max({0} \cup {h \in 1 .. i : file[h].line = "section"})

SectionOf(file, i) ==
  IF Opens(file, i) = 0 THEN "" ELSE file[Opens(file, i)].name

\* The lines with `key` among those of a section.
Settings(file, lines, key) ==
  {i \in lines : file[i].line = "pair" /\ file[i].key = key}

\* The last of several values counts.
LastOf(file, lines, key) ==
  LET set == Settings(file, lines, key)
  IN  IF set = {} THEN {} ELSE {Head(file[Max(set)].value)}

\* All AllowedIPs of a section count, in the order of the file.
AllOf(file, lines) ==
  LET set == SetToSortSeq(Settings(file, lines, "allowedips"), LAMBDA i, j : i < j)
  IN  FoldLeft(LAMBDA acc, i : acc \o NonEmpty(file[i].value), <<>>, set)

\* The peer whose section is opened at line h.
MeantPeer(file, h) ==
  LET lines == {i \in DOMAIN file : Opens(file, i) = h}
  IN  [publickey |-> LastOf(file, lines, "publickey"),
       presharedkey |-> LastOf(file, lines, "presharedkey"),
       endpoint |-> LastOf(file, lines, "endpoint"),
       persistentkeepalive |-> LastOf(file, lines, "persistentkeepalive"),
       allowedips |-> AllOf(file, lines)]

\* A line that makes no sense where it stands.
Senseless(file, i) ==
  \/ file[i].line = "text"
  \/ /\ file[i].line = "pair" /\ file[i].key \in Known(SectionOf(file, i))
     /\ \/ \E j \in DOMAIN file[i].value :
             file[i].value[j] = Bad /\ (j = 1 \/ file[i].key # "address")
        \/ file[i].key # "allowedips" /\ file[i].value[1] = Empty
        \/ file[i].key \notin {"allowedips", "address"} /\ Len(file[i].value) > 1
        \/ file[i].key = "persistentkeepalive" /\ file[i].value[1] \notin 1 .. 65534

\* The configuration a file stands for, if any.
Meaning(file) ==
  LET interface == {i \in DOMAIN file : SectionOf(file, i) = "interface"}
      opened == {h \in DOMAIN file : file[h] = [line |-> "section", name |-> "peer"]}
      heads == SetToSortSeq(opened, LAMBDA i, j : i < j)
      or(set, default) == IF set = {} THEN {default} ELSE set
      meant == [listenport |-> or(LastOf(file, interface, "listenport"), DEFAULT_PORT),
                privatekey |-> LastOf(file, interface, "privatekey"),
                address |-> LastOf(file, interface, "address"),
                mtu |-> or(LastOf(file, interface, "mtu"), DEFAULT_MTU),
                peers |-> [p \in DOMAIN heads |-> MeantPeer(file, heads[p])]]
  IN  IF \/ \E i \in DOMAIN file : Senseless(file, i)
         \/ meant.privatekey = {} \/ meant.address = {}
         \/ \E p \in DOMAIN heads : meant.peers[p].publickey = {}
      THEN {} ELSE {meant}
=============================================================================
