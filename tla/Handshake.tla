----------------------------- MODULE Handshake ------------------------------
(***************************************************************************)
(* The Noise IKpsk2 handshake of protocol/src/handshake.rs, with symbolic  *)
(* cryptography.  Hash chains are injective in what was mixed into them,   *)
(* so a chaining key is the record of its inputs, and a ciphertext opens   *)
(* exactly when both sides mixed the same inputs.  A static key is the     *)
(* name of its owner and an ephemeral key is a number its owner draws      *)
(* once.                                                                   *)
(*                                                                         *)
(*   hs   what an initiation mixes: both static keys, the initiator's      *)
(*        ephemeral and the timestamp.  The sender index is not mixed.     *)
(*   key  what a response adds: the responder's ephemeral and the          *)
(*        pre-shared key of its sender.                                    *)
(***************************************************************************)
EXTENDS Integers

\* Handshake<InitSent>::initiate
InitMessage(initiator, responder, index, eph, timestamp) ==
  [sender |-> index,
   hs |-> [initiator |-> initiator, responder |-> responder,
           eph |-> eph, timestamp |-> timestamp]]

\* Handshake<InitReceived>::receive opens only what was sealed to our key.
receive(ours, init) == init.hs.responder = ours

\* Handshake<InitReceived>::respond
RespMessage(init, index, eph, psk) ==
  [sender |-> index,
   receiver |-> init.sender,
   key |-> [hs |-> init.hs, eph |-> eph, psk |-> psk]]

\* Handshake<InitSent>::response_received
response_received(pending, psk, resp) ==
  /\ resp.receiver = pending.index
  /\ resp.key.hs = pending.hs
  /\ resp.key.psk = psk

\* The two transport keys: the first is the initiator's to send with.
Forward(key) == [key |-> key, dir |-> 1]

Backward(key) == [key |-> key, dir |-> 2]

\* Mutant: the responder does not swap the derived keys.
UnswappedTransport(index, init, key) ==
  [index |-> index, peer |-> init.sender,
   recv |-> Backward(key), send |-> Forward(key)]

\* Handshake<ReceiverEstablished>::finish
ResponderTransport(index, init, key) ==
  [index |-> index, peer |-> init.sender,
   recv |-> Forward(key), send |-> Backward(key)]

\* Handshake<InitiatorEstablished>::finish
InitiatorTransport(pending, psk, resp) ==
  LET key == [hs |-> pending.hs, eph |-> resp.key.eph, psk |-> psk]
  IN  [index |-> pending.index, peer |-> resp.sender,
       recv |-> Backward(key), send |-> Forward(key)]
=============================================================================
