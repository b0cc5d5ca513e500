-------------------------------- MODULE X3dh --------------------------------
(***************************************************************************)
(* Asynchronous session establishment of novachannel                       *)
(* (crates/core/src/x3dh.rs and prekey.rs): what initiate and respond      *)
(* compute, and what respond does to the store of one-time prekeys.        *)
(*                                                                         *)
(* Abstractions.  An initiator is a sending device, which names its        *)
(* signing and its DH identity; a responder is a receiving device, which   *)
(* names its identity, DH identity and signed prekey.  The Diffie-Hellman  *)
(* and ML-KEM terms are ideal: the session secret is the terms they were   *)
(* computed from, and the payload opens under that secret and no other.    *)
(***************************************************************************)
EXTENDS Naturals

CONSTANTS
  Senders,    \* initiators
  Devices,    \* responders
  PreKeyIds,  \* ids of one-time prekeys, never used twice by one device
  NoPreKey    \* a bundle or a message without one

ASSUME NoPreKeyAssumption == NoPreKey \notin PreKeyIds

OptionalPreKey == PreKeyIds \cup {NoPreKey}

\* What can be wrong with a bundle: a signature that does not verify, or a
\* public key of small order, the unsigned one-time key included.
Faults == {"none", "bad_signature", "small_order"}

\* PreKeyBundle.
Bundles == [device : Devices, opk : OptionalPreKey, fault : Faults]

\* PreKeyBundle::verify.
Verifies(b) == b.fault # "bad_signature"

\* checked_dh accepts every term that initiate computes.
KeysContribute(b) == b.fault # "small_order"

\* The input keying material: DH1 is (ik, device's signed prekey), DH2 and
\* DH3 (ek, device's two keys), DH4 and the second KEM term (ek, opk).
Secret(ik, ek, device, opk) == [ik |-> ik, ek |-> ek, device |-> device, opk |-> opk]

\* initiate: the header names both keys of the initiator and the one-time
\* prekey; the payload is sealed under the secret.
InitMessage(ik, ek, b) ==
  [ik |-> ik, ek |-> ek, opk |-> b.opk, sealed |-> Secret(ik, ek, b.device, b.opk)]

\* OneTimePreKeyStore::peek, when the message names a key.
Found(store, m) == m.opk # NoPreKey => m.opk \in store

\* respond: the secret derived from the header and the device's own keys
\* opens the payload.
Genuine(d, m) == Secret(m.ik, m.ek, d, m.opk) = m.sealed

Remaining_Burnt(store, d, m) == store \ {m.opk}  \* faulty variant

Remaining_Kept(store, d, m) == store  \* faulty variant

\* respond: the named key is consumed once the payload has opened.
Remaining(store, d, m) == IF Genuine(d, m) THEN store \ {m.opk} ELSE store
=============================================================================
