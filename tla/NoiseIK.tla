------------------------------ MODULE NoiseIK -------------------------------
(***************************************************************************)
(* The Noise IKpsk2 handshake of protocol/src/handshake.rs in terms of the *)
(* primitives of protocol/src/crypto.rs: chaining keys, transcript hashes, *)
(* key agreement and sealed fields, each a term that is equal to another   *)
(* only when it was built from equal parts.  Handshake keeps of all this   *)
(* what was mixed; PeerPairNoise checks that nothing is lost by that.      *)
(*                                                                         *)
(* A static key pair is named by its owner and an ephemeral one by its     *)
(* owner and a number.  `constr` is the chaining key and `h` the hash of   *)
(* the transcript.  An Option is a set of at most one element.             *)
(***************************************************************************)
EXTENDS Sequences

Static(n) == <<"static", n>>

Ephemeral(n, i) == <<"ephemeral", n, i>>

hash(h, input) == <<"hash", h, input>>

\* Output i of kdf.
kdf(key, input, i) == <<"kdf", key, input, i>>

\* The shared secret of a pair of keys, the same from both sides.
diffie_hellman(a, b) == {a, b}

aead_seal(key, auth, text) == [key |-> key, auth |-> auth, text |-> text]

aead_open(key, auth, sealed) ==
  IF sealed.key = key /\ sealed.auth = auth THEN {sealed.text} ELSE {}

INITIAL_CONSTR_HASH == <<"construction">>

INITIAL_IDENTIFIER_HASH == <<"identifier">>

-----------------------------------------------------------------------------
\* What both sides mix for the ephemeral key of an initiation to `responder`.
Opened(responder, eph) ==
  LET constr == kdf(INITIAL_CONSTR_HASH, eph, 1)
      h == hash(hash(INITIAL_IDENTIFIER_HASH, responder), eph)
      secret == diffie_hellman(eph, responder)
  IN  [constr |-> kdf(constr, secret, 1), key |-> kdf(constr, secret, 2), h |-> h]

\* Handshake<InitSent>::initiate
initiate(ours, theirs, index, eph, timestamp) ==
  LET o == Opened(theirs, eph)
      static == aead_seal(o.key, o.h, ours)
      h == hash(o.h, static)
      secret == diffie_hellman(ours, theirs)
      stamp == aead_seal(kdf(o.constr, secret, 2), h, timestamp)
  IN  [msg |-> [sender |-> index, eph |-> eph, static |-> static, stamp |-> stamp],
       state |-> [index |-> index, eph |-> eph,
                  constr |-> kdf(o.constr, secret, 1), h |-> hash(h, stamp)]]

\* Handshake<InitReceived>::receive
receive(ours, msg) ==
  LET o == Opened(ours, msg.eph)
      h == hash(o.h, msg.static)
      secret(peer) == diffie_hellman(ours, peer)
      received(peer, timestamp) ==
        [peer |-> peer, eph |-> msg.eph, index |-> msg.sender, timestamp |-> timestamp,
         constr |-> kdf(o.constr, secret(peer), 1), h |-> hash(h, msg.stamp)]
  IN  UNION {{received(peer, timestamp) :
                timestamp \in aead_open(kdf(o.constr, secret(peer), 2), h, msg.stamp)} :
             peer \in aead_open(o.key, o.h, msg.static)}

\* Mutant: the pre-shared key is left out.
AnswerUnkeyed(constr, h, eph, ee, se, psk) ==
  LET mixed == kdf(kdf(kdf(constr, eph, 1), ee, 1), se, 1)
  IN  [constr |-> kdf(mixed, <<>>, 1), key |-> kdf(mixed, <<>>, 3),
       h |-> hash(hash(h, eph), kdf(mixed, <<>>, 2))]

\* What both sides mix for a response.
Answer(constr, h, eph, ee, se, psk) ==
  LET mixed == kdf(kdf(kdf(constr, eph, 1), ee, 1), se, 1)
  IN  [constr |-> kdf(mixed, psk, 1), key |-> kdf(mixed, psk, 3),
       h |-> hash(hash(h, eph), kdf(mixed, psk, 2))]

\* Handshake<InitReceived>::respond
respond(s, index, eph, psk) ==
  LET ans == Answer(s.constr, s.h, eph, diffie_hellman(eph, s.eph),
                    diffie_hellman(eph, s.peer), psk)
  IN  [msg |-> [sender |-> index, receiver |-> s.index, eph |-> eph,
                empty |-> aead_seal(ans.key, ans.h, <<>>)],
       state |-> [constr |-> ans.constr, index |-> index, peer |-> s.index]]

\* Handshake<InitSent>::response_received
response_received(s, ours, psk, msg) ==
  LET ans == Answer(s.constr, s.h, msg.eph, diffie_hellman(s.eph, msg.eph),
                    diffie_hellman(ours, msg.eph), psk)
  IN  IF msg.receiver # s.index \/ aead_open(ans.key, ans.h, msg.empty) = {} THEN {}
      ELSE {[constr |-> ans.constr, index |-> s.index, peer |-> msg.sender]}

\* Handshake<ReceiverEstablished>::finish and its counterpart
ResponderKeys(s) == [recv |-> kdf(s.constr, <<>>, 1), send |-> kdf(s.constr, <<>>, 2)]

InitiatorKeys(s) == [send |-> kdf(s.constr, <<>>, 1), recv |-> kdf(s.constr, <<>>, 2)]
=============================================================================
