---------------------------- MODULE PeerPairNoise ---------------------------
(***************************************************************************)
(* PeerPair exchanges the handshakes of Handshake, which says what opens   *)
(* for whom.  Here each of its messages is built again the way             *)
(* handshake.rs builds it, as the terms of NoiseIK, and the two are        *)
(* compared in every state.                                                *)
(***************************************************************************)
EXTENDS PeerPair

Noise == INSTANCE NoiseIK

\* The initiation, and the response, that the code builds.
NoiseInit(hs, index) ==
  Noise!initiate(Noise!Static(hs.initiator), Noise!Static(hs.responder), index,
                 Noise!Ephemeral(hs.initiator, hs.eph), hs.timestamp)

NoiseResp(resp) ==
  LET hs == resp.key.hs
      received == CHOOSE s \in Noise!receive(Noise!Static(hs.responder),
                                             NoiseInit(hs, resp.receiver).msg) : TRUE
  IN  Noise!respond(received, resp.sender, Noise!Ephemeral(hs.responder, resp.key.eph),
                    resp.key.psk)

\* The chains of hashes and keys of handshake.rs do what Handshake says: an
\* initiation opens for the one it is meant for and shows its sender and its
\* timestamp; a response opens exactly for the initiation it answers
\* and with its pre-shared key, whatever either side changed in between;
\* then the two ends derive the same pair of keys, and no two responses
\* derive the same ones.
NoiseAgrees ==
  LET answers == [resp \in resps |-> NoiseResp(resp)]
  IN  /\ \A init \in inits :
           LET msg == NoiseInit(init.hs, init.sender).msg
           IN  \A n \in Node :
                 LET opened == Noise!receive(Noise!Static(n), msg)
                 IN  /\ opened # {} <=> receive(n, init)
                     /\ \A s \in opened :
                          /\ s.peer = Noise!Static(init.hs.initiator)
                          /\ s.timestamp = init.hs.timestamp /\ s.index = init.sender
      /\ \A n \in Node : \A pending \in peer[n].pending :
           LET state == NoiseInit(pending.hs, pending.index).state
           IN  \A resp \in resps :
                 LET opened == Noise!response_received(state, Noise!Static(n), peer[n].psk,
                                                       answers[resp].msg)
                     theirs == Noise!ResponderKeys(answers[resp].state)
                 IN  /\ opened # {} <=> response_received(pending, peer[n].psk, resp)
                     /\ \A s \in opened :
                          Noise!InitiatorKeys(s) = [send |-> theirs.recv, recv |-> theirs.send]
      /\ \A r, q \in resps :
           answers[r].state.constr = answers[q].state.constr => r.key = q.key
=============================================================================
