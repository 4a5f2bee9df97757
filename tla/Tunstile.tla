------------------------------ MODULE Tunstile ------------------------------
(***************************************************************************)
(* The program of tunstile/src/bin/tunstile.rs: main reads the file,       *)
(* creates the device and the interface, adds the peers one by one, and    *)
(* then passes packets until it is interrupted or the interface fails.     *)
(* What the file says reaches the data path as the MTU.                    *)
(***************************************************************************)
EXTENDS ConfigFile, DataPath

CONSTANT Files

VARIABLES
  file,   \* the lines of the file
  phase,  \* how far main is
  config, \* what parse_config returned, as a set of at most one
  added   \* the peers added to the device

vars == <<file, phase, config, added, mtu, path>>

Init ==
  /\ file \in Files
  /\ phase = "start" /\ config = {} /\ added = <<>> /\ mtu = 0
  /\ PathInit

parse_config(text) == Parsed(FoldLeft(ParseLine, NewParser, text))

\* An MTU is a u16.
ASSUME FileAssumption ==
  \A text \in Files : \A c \in parse_config(text) : c.mtu \subseteq Nat

ReadConfig ==
  /\ phase = "start"
  /\ config' = parse_config(file)
  /\ phase' = IF config' = {} THEN "rejected" ELSE "parsed"
  /\ UNCHANGED <<file, added, mtu, path>>

\* Device::new and create_tun; each may fail.
CreateDevice ==
  /\ phase = "parsed"
  /\ \/ /\ phase' = "peers"
        /\ \E c \in config : mtu' \in c.mtu
     \/ phase' = "failed" /\ UNCHANGED mtu
  /\ UNCHANGED <<file, config, added, path>>

\* One iteration of main's loop: add_peer refuses a key it has, and
\* add_routes may fail.
AddNextPeer ==
  /\ phase = "peers"
  /\ \E c \in config :
       /\ Len(added) < Len(c.peers)
       /\ LET peer == c.peers[Len(added) + 1]
              present == \E i \in DOMAIN added : added[i].publickey = peer.publickey
          IN  \/ ~present /\ added' = Append(added, peer) /\ UNCHANGED phase
              \/ phase' = "failed" /\ UNCHANGED added
  /\ UNCHANGED <<file, config, mtu, path>>

Up ==
  /\ phase = "peers"
  /\ \E c \in config : Len(added) = Len(c.peers)
  /\ phase' = "up"
  /\ UNCHANGED <<file, config, added, mtu, path>>

\* run_packets.  The file and the peers play no role from here on and are
\* forgotten with the first step.
RunPackets ==
  /\ phase \in {"up", "running"}
  /\ phase' = "running" /\ file' = <<>> /\ config' = {} /\ added' = <<>>
  /\ PathNext
  /\ UNCHANGED mtu

\* The interrupt, or an error of the interface: the process ends.
Stop ==
  /\ phase = "running"
  /\ phase' = "stopped" /\ mtu' = 0
  /\ read' = <<>> /\ queue' = <<>> /\ credit' = 0 /\ staged' = <<>> /\ sending' = <<>>
  /\ wire' = <<>> /\ buffer' = NoBuffer
  /\ received' = <<>> /\ inbound' = <<>> /\ delivered' = <<>> /\ dropped' = {}
  /\ UNCHANGED <<file, config, added>>

Next == ReadConfig \/ CreateDevice \/ AddNextPeer \/ Up \/ RunPackets \/ Stop

Spec == Init /\ [][Next]_vars

-----------------------------------------------------------------------------
(* Properties.                                                             *)

\* parse_config accepts exactly the files that mean something and returns
\* what they mean, whatever the order of lines and sections; and a program
\* that is up has every peer of the file, each key once, and its MTU.
ConfigMeansFile ==
  /\ phase = "rejected" => Meaning(file) = {}
  /\ phase = "parsed" => config = Meaning(file)
  /\ phase = "up" =>
       \E c \in Meaning(file) :
         /\ added = c.peers /\ mtu \in c.mtu
         /\ \A i, j \in DOMAIN added :
              added[i].publickey = added[j].publickey => i = j
=============================================================================
