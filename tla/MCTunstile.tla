----------------------------- MODULE MCTunstile -----------------------------
(***************************************************************************)
(* Instance of Tunstile: files of up to three sections, MTUs around the    *)
(* edges of the padding, single packets of every shape around those edges, *)
(* and sequences of plain ones.                                            *)
(***************************************************************************)
EXTENDS Tunstile

CONSTANTS P, Q, Net1, Net2, Secret, Addr, Host

Set(key, value) == [line |-> "pair", key |-> key, value |-> value]

Header1(name) == <<[line |-> "section", name |-> name]>>

\* Sections that make sense, though not each a whole configuration.
Sections ==
  {Header1("interface") \o body : body \in
     {<<Set("privatekey", <<Secret>>), Set("address", <<Addr, Bad>>), Set("mtu", <<31>>)>>,
      <<Set("privatekey", <<Secret>>), Set("address", <<Addr>>)>>,
      <<Set("listenport", <<0>>), [line |-> "blank"], Set("mtu", <<39>>)>>}}
  \cup
  {Header1("peer") \o body : body \in
     {<<Set("publickey", <<P>>), Set("allowedips", <<Net1, Empty>>)>>,
      <<Set("allowedips", <<Net1>>), Set("publickey", <<P>>), Set("allowedips", <<Net2, Net1>>),
        Set("publickey", <<Q>>)>>,
      <<Set("publickey", <<Q>>), Set("presharedkey", <<Secret>>), Set("endpoint", <<Host>>),
        Set("persistentkeepalive", <<65534>>), Set("mtu", <<Bad>>)>>,
      <<Set("endpoint", <<Host>>)>>}}
  \cup
  {Header1("other") \o <<Set("privatekey", <<Bad>>)>>,
   <<Set("publickey", <<P>>), Set("address", <<Addr>>)>>}

\* Sections with a line that does not.
Faulty ==
  {<<[line |-> "text"]>>, Header1("interface") \o <<Set("address", <<Bad>>)>>}
  \cup
  {Header1("peer") \o <<Set("publickey", <<P>>), line>> : line \in
     {Set("persistentkeepalive", <<0>>), Set("persistentkeepalive", <<65535>>),
      Set("persistentkeepalive", <<65537>>), Set("publickey", <<P, Q>>),
      Set("allowedips", <<Net1, Bad>>)}}

MCFiles ==
  {FlattenSeq(s) : s \in BoundedSeq(Sections, 3) \cup BoundedSeq(Sections \cup Faulty, 2)}

MCSizes == {0, 19, 20, 21, 31, 32, 39, 40, 41, 48, 49, 50}

MCOdd ==
  [version : {4}, ihl : {5}, declared : {19, 20, 31, 32, 33, 48, 49}, size : MCSizes]
  \cup [version : {4}, ihl : {4, 6}, declared : {20, 23, 24}, size : {20, 24, 31}]
  \cup [version : {6}, ihl : {5}, declared : {0, 7, 8, 9}, size : MCSizes]
  \cup [version : {0}, ihl : {5}, declared : {20}, size : MCSizes]

MCPlain ==
  {[version |-> 4, ihl |-> 5, declared |-> 20, size |-> 20],
   [version |-> 4, ihl |-> 5, declared |-> 40, size |-> 41]}

\* The destination of the odd packets of one size has no route.
MCRouted == MCPlain \cup {p \in MCOdd : p.size # 32}
=============================================================================
