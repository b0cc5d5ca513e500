---------------------------- MODULE ThresholdKem ----------------------------
(***************************************************************************)
(* Threshold decryption from a KEM (crates/mpc/src/threshold_kem.rs): the  *)
(* sender shares a fresh master secret, wraps each operator's share under  *)
(* that operator's key, and seals the payload under the master secret.     *)
(*                                                                         *)
(* Abstractions.  Decapsulation recovers the shared secret exactly with    *)
(* the key it was made for, so the secret is named by its operator and     *)
(* ciphertext.  A sealed text opens exactly under its own key; hkdf keeps  *)
(* its inputs apart.                                                       *)
(***************************************************************************)
EXTENDS Shamir, FiniteSets

CONSTANTS
  Keys,       \* encapsulation keys, each with its decapsulation key
  Plaintexts,
  KemError    \* Err of partial_decrypt and combine_and_decrypt

ASSUME KemAssumption == KemError \notin Plaintexts /\ KemError \notin Scalars

Hkdf(secret, info) == <<info, secret>>
AeadSeal(key, text) == [key |-> key, text |-> text]
AeadOpen(key, sealed) == IF sealed.key = key THEN sealed.text ELSE KemError

\* encrypt_to_group: operators maps valid ids to encapsulation keys; the first
\* coefficient is the master secret.
EncryptToGroup(operators, coefficients, plaintext) ==
  [shares |-> [id \in DOMAIN operators |->
     [ciphertext |-> operators[id],
      wrapped_share |-> AeadSeal(Hkdf(operators[id], "share-wrap"), Evaluate(coefficients, id))]],
   payload |-> AeadSeal(Hkdf(coefficients[1], "payload-key"), plaintext)]

\* partial_decrypt by the holder of key under the id it was generated with; a
\* ciphertext for another key decapsulates to an unrelated secret.
PartialDecryptKem(id, key, group_ciphertext) ==
  IF id \notin DOMAIN group_ciphertext.shares THEN KemError
  ELSE AeadOpen(Hkdf(IF group_ciphertext.shares[id].ciphertext = key THEN key ELSE KemError,
                     "share-wrap"),
                group_ciphertext.shares[id].wrapped_share)

CombineAndDecrypt_AllIds(partials, group_ciphertext) ==  \* faulty variant: weights of all ids
  LET ids == DOMAIN group_ciphertext.shares
      master_secret == SumOver([id \in DOMAIN partials |-> LagrangeAtZero(id, ids) * partials[id]])
  IN AeadOpen(Hkdf(master_secret, "payload-key"), group_ciphertext.payload)

\* combine_and_decrypt: partials by operator id.
CombineAndDecrypt(partials, group_ciphertext) ==
  LET ids == DOMAIN partials
      master_secret == SumOver([id \in ids |-> LagrangeAtZero(id, ids) * partials[id]])
  IN AeadOpen(Hkdf(master_secret, "payload-key"), group_ciphertext.payload)

-----------------------------------------------------------------------------
VARIABLES
  sealed,   \* the GroupCiphertext
  partials  \* partial decryptions so far, by operator id

kemVars == <<sealed, partials>>

KemIdle == sealed = KemError /\ partials = << >>

\* encrypt_to_group asserts that there are Threshold operators, none with id 0.
SealToGroup ==
  /\ sealed = KemError
  /\ \E ids \in SUBSET Participants, draw \in Polynomials, plaintext \in Plaintexts :
       /\ Cardinality(ids) >= Threshold
       /\ \E operators \in [ids -> Keys] :
            sealed' = EncryptToGroup(operators, draw, plaintext)
  /\ UNCHANGED partials

\* An operator answers, or somebody else under its id; an error is no answer.
AnswerPartially ==
  /\ sealed # KemError
  /\ \E id \in Participants \ DOMAIN partials, key \in Keys :
       LET share == PartialDecryptKem(id, key, sealed)
       IN share # KemError /\ partials' =
            [i \in DOMAIN partials \cup {id} |-> IF i = id THEN share ELSE partials[i]]
  /\ UNCHANGED sealed

KemNext == SealToGroup \/ AnswerPartially

KemSpec == KemIdle /\ [][KemNext]_kemVars

-----------------------------------------------------------------------------
\* Any Threshold answers open the payload, in whatever order and of whatever
\* operators; fewer leave the master secret open, even with every operator's id
\* and another key tried (encrypt_to_group, partial_decrypt, combine_and_decrypt).
KemQuorumOpens ==
  sealed # KemError =>
    IF Cardinality(DOMAIN partials) >= Threshold
    THEN CombineAndDecrypt(partials, sealed) = sealed.payload.text
    ELSE \A secret \in Scalars : \E f \in Polynomials :
           f[1] = secret /\ \A id \in DOMAIN partials : Evaluate(f, id) = partials[id]
=============================================================================
