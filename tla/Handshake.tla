------------------------------ MODULE Handshake ------------------------------
(***************************************************************************)
(* The mutually authenticated handshake of novachannel                     *)
(* (crates/core/src/handshake.rs, kex.rs, identity.rs): three messages     *)
(* between attempts of several peers.  The network loses, repeats and      *)
(* misroutes them and puts together fields of different messages.          *)
(*                                                                         *)
(* Abstractions.  An attempt names the ephemeral keys it generates, a peer *)
(* its two long-term ones.  Key agreement, signatures and key derivation   *)
(* are ideal terms: a Diffie-Hellman secret is the set of the two keys, a  *)
(* KEM secret its key and ciphertext, a signature its signer and text.     *)
(***************************************************************************)
EXTENDS Naturals

CONSTANTS
  Peers,
  Initiators, Responders,  \* handshake attempts
  Owner,                   \* Owner[a]: the peer that runs attempt a
  Failing,                 \* peers whose signing backend may fail
  SmallOrder               \* an X25519 public key of small order

ASSUME AttemptAssumption ==
  /\ Initiators \cap Responders = {} /\ Owner \in [Initiators \cup Responders -> Peers]
  /\ SmallOrder \notin Initiators \cup Responders /\ Failing \subseteq Peers

-----------------------------------------------------------------------------
\* Identity: an Ed25519 and an ML-DSA key.
Public(peer) == [ed25519 |-> peer, ml_dsa |-> peer]
Identities == [ed25519 : Peers, ml_dsa : Peers]
TrySign(peer, message) == [ed25519 |-> <<peer, message>>, ml_dsa |-> <<peer, message>>]

\* Whether sign returns: it panics if an external backend fails, and the attempt
\* that called it is gone.
Signs(peer) == IF peer \in Failing THEN BOOLEAN ELSE {TRUE}

\* PublicIdentity::verify: both legs.
VerifyIdentity(identity, message, sig) ==
  /\ sig.ed25519 = <<identity.ed25519, message>>
  /\ sig.ml_dsa = <<identity.ml_dsa, message>>

\* checked_dh accepts what this key yields.
Contributes(x25519_public) == x25519_public # SmallOrder
DiffieHellman(own, other) == {own, other}
Encapsulate(ml_kem_public, responder) == [key |-> ml_kem_public, by |-> responder]
KemSecret(ml_kem_key, ct) == <<ml_kem_key, ct>>

\* What the initiator's finish and the responder's exchange return.
InitiatorSecret(a, x25519_public, ct) == <<DiffieHellman(a, x25519_public), KemSecret(a, ct)>>
ResponderSecret(a, msg1, ct) == <<DiffieHellman(a, msg1.x25519), KemSecret(msg1.ml_kem, ct)>>

-----------------------------------------------------------------------------
Unsigned(msg2) == <<msg2.x25519, msg2.ct, msg2.identity>>
Transcript1(msg1, msg2) == <<msg1, Unsigned(msg2)>>

Transcript2_Unbound(msg1, msg2, identity) == <<msg1, identity>>  \* faulty variant: msg2 is left out

Transcript2(msg1, msg2, identity) == <<msg1, msg2, identity>>

Derive(prk, label) == <<label, prk>>

FinalizeKeys_OneLabel(secret, transcript, is_initiator) ==  \* faulty variant: the roles are not swapped
  LET prk == <<secret, transcript>>
  IN [sender |-> Derive(prk, "initiator->responder"), receiver |-> Derive(prk, "responder->initiator"),
      ratchet_root |-> Derive(prk, "ratchet root")]

FinalizeKeys(secret, transcript, is_initiator) ==
  LET prk == <<secret, transcript>>
      i2r == Derive(prk, "initiator->responder")
      r2i == Derive(prk, "responder->initiator")
  IN [sender |-> IF is_initiator THEN i2r ELSE r2i,
      receiver |-> IF is_initiator THEN r2i ELSE i2r,
      ratchet_root |-> Derive(prk, "ratchet root")]

Established(identity, keys) == [stage |-> "established", peer |-> identity, keys |-> keys]

\* The messages as they are sent.
Msg1(a) == [x25519 |-> a, ml_kem |-> a]
Msg2(a, msg1) ==
  LET unsigned == [x25519 |-> a, ct |-> Encapsulate(msg1.ml_kem, a), identity |-> Public(Owner[a])]
  IN [x25519 |-> unsigned.x25519, ct |-> unsigned.ct, identity |-> unsigned.identity,
      sig |-> TrySign(Owner[a], Transcript1(msg1, unsigned))]
Msg3(a, msg1, msg2) ==
  [identity |-> Public(Owner[a]),
   sig |-> TrySign(Owner[a], Transcript2(msg1, msg2, Public(Owner[a])))]

\* The checks on the identity and signature of a message, given the pinned identity.
Authentic(expected, identity, transcript, sig) ==
  (\A pinned \in expected : pinned = identity) /\ VerifyIdentity(identity, transcript, sig)

-----------------------------------------------------------------------------
VARIABLES
  attempts,  \* the state of each attempt so far
  msg1s, msg2s, msg3s  \* the messages sent so far

handshakeVars == <<attempts, msg1s, msg2s, msg3s>>

HandshakeInit == attempts = << >> /\ msg1s = {} /\ msg2s = {} /\ msg3s = {}

Known == DOMAIN attempts
Waiting(a, stage) == a \in Known /\ attempts[a].stage = stage
Becomes(a, state) == attempts' = [b \in Known \cup {a} |-> IF b = a THEN state ELSE attempts[b]]

\* Option<PublicIdentity>
Pins == {{}} \cup {{Public(peer)} : peer \in Peers}

\* The network may join fields of messages, and legs of identities and signatures.
Signatures(messages) ==
  [ed25519 : {m.sig.ed25519 : m \in messages}, ml_dsa : {m.sig.ml_dsa : m \in messages}]
JoinedMsg1s ==
  [x25519 : {m.x25519 : m \in msg1s} \cup {SmallOrder}, ml_kem : {m.ml_kem : m \in msg1s}]
JoinedMsg2s ==
  [x25519 : {m.x25519 : m \in msg2s} \cup {SmallOrder}, ct : {m.ct : m \in msg2s},
   identity : Identities, sig : Signatures(msg2s)]
JoinedMsg3s == [identity : Identities, sig : Signatures(msg3s)]

-----------------------------------------------------------------------------
\* initiator_start
InitiatorStart(a, expected) ==
  /\ a \notin Known
  /\ Becomes(a, [stage |-> "msg1", msg1 |-> Msg1(a), expected |-> expected])
  /\ msg1s' = msg1s \cup {Msg1(a)}
  /\ UNCHANGED <<msg2s, msg3s>>

\* responder_respond; a key that contributes nothing, or a backend that does not
\* sign, leaves no state.
ResponderRespond(a, expected, msg1) ==
  /\ a \notin Known /\ Contributes(msg1.x25519)
  /\ Becomes(a, [stage |-> "msg2", msg1 |-> msg1, msg2_full |-> Msg2(a, msg1),
                 shared_secret |-> ResponderSecret(a, msg1, Msg2(a, msg1).ct),
                 expected |-> expected])
  /\ msg2s' = msg2s \cup {Msg2(a, msg1)}
  /\ UNCHANGED <<msg1s, msg3s>>

\* What the initiator of a has once it has taken msg2 for the answer to its msg1.
Initiated(a, msg1, msg2) ==
  Established(msg2.identity,
    FinalizeKeys(InitiatorSecret(a, msg2.x25519, msg2.ct),
      <<Transcript2(msg1, msg2, Public(Owner[a])), Msg3(a, msg1, msg2).sig>>, TRUE))

\* InitiatorHandshakeState::complete consumes the state, whatever becomes of it.
InitiatorComplete(a, msg2) ==
  /\ Waiting(a, "msg1")
  /\ LET state == attempts[a]
     IN \E signs \in Signs(Owner[a]) :
        IF Authentic(state.expected, msg2.identity, Transcript1(state.msg1, msg2), msg2.sig)
           /\ Contributes(msg2.x25519) /\ signs
        THEN /\ Becomes(a, Initiated(a, state.msg1, msg2))
             /\ msg3s' = msg3s \cup {Msg3(a, state.msg1, msg2)}
        ELSE Becomes(a, [stage |-> "failed"]) /\ UNCHANGED msg3s
  /\ UNCHANGED <<msg1s, msg2s>>

\* What ResponderHandshakeState::complete makes of its state.
Completed(state, msg3) ==
  LET transcript_2 == Transcript2(state.msg1, state.msg2_full, msg3.identity)
  IN IF Authentic(state.expected, msg3.identity, transcript_2, msg3.sig)
     THEN Established(msg3.identity,
            FinalizeKeys(state.shared_secret, <<transcript_2, msg3.sig>>, FALSE))
     ELSE [stage |-> "failed"]

ResponderComplete(a, msg3) ==
  /\ Waiting(a, "msg2")
  /\ Becomes(a, Completed(attempts[a], msg3))
  /\ UNCHANGED <<msg1s, msg2s, msg3s>>

HandshakeNext ==
  \/ \E a \in Initiators : \E expected \in Pins : InitiatorStart(a, expected)
  \/ \E a \in Responders : \E expected \in Pins, msg1 \in JoinedMsg1s :
       ResponderRespond(a, expected, msg1)
  \/ \E a \in Initiators : \E msg2 \in JoinedMsg2s : InitiatorComplete(a, msg2)
  \/ \E a \in Responders : \E msg3 \in JoinedMsg3s : ResponderComplete(a, msg3)

-----------------------------------------------------------------------------
(***************************************************************************)
(* Properties.                                                             *)
(***************************************************************************)
Mirrored(keys, other) ==
  /\ keys.sender = other.receiver /\ keys.receiver = other.sender
  /\ keys.ratchet_root = other.ratchet_root

\* Whoever is established is so with an attempt of the very peer it names, which
\* has the same keys, or will have them on the initiator's last message unless it
\* expects somebody else; no fields of two handshakes join to a third (module
\* comment, "a handshake can't be spliced from two sessions").
PeersAgree ==
  /\ \A r \in Responders : Waiting(r, "established") =>
       \E i \in Initiators :
         /\ Waiting(i, "established") /\ Mirrored(attempts[r].keys, attempts[i].keys)
         /\ attempts[r].peer = Public(Owner[i]) /\ attempts[i].peer = Public(Owner[r])
  /\ \A i \in Initiators : Waiting(i, "established") =>
       \E r \in Responders \cap Known :
         /\ attempts[i].peer = Public(Owner[r])
         /\ Waiting(r, "established") => Mirrored(attempts[r].keys, attempts[i].keys)
         /\ Waiting(r, "msg2") /\ attempts[r].expected \subseteq {Public(Owner[i])} =>
              \E msg3 \in msg3s :
                LET done == Completed(attempts[r], msg3)
                IN done.stage = "established" /\ Mirrored(done.keys, attempts[i].keys)

\* A key has one Sender, so the record layer's sequence numbers, which start at
\* zero, never repeat under a key, and no key is used in both directions or for
\* two sessions (finalize_keys, Sender::new).
KeysSeparate ==
  LET Live == {a \in Known : Waiting(a, "established")}
      KeysOf(a) == attempts[a].keys
  IN /\ \A a, b \in Live : KeysOf(a).sender = KeysOf(b).sender => a = b
     /\ \A a, b \in Live : KeysOf(a).receiver = KeysOf(b).receiver => a = b
     /\ \A a, b \in Live : KeysOf(a).ratchet_root \notin {KeysOf(b).sender, KeysOf(b).receiver}
=============================================================================
