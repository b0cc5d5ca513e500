-------------------------------- MODULE Frost --------------------------------
(***************************************************************************)
(* FROST signing (crates/mpc/src/frost.rs) with the keys of module Dkg.    *)
(* An aggregator asks a quorum for nonce commitments, then for signature   *)
(* shares over one package (signers, message, commitments); it checks each *)
(* share, names the signer of one that fails, and may start over: with new *)
(* commitments, or without the signers it named.  Shares may arrive late,  *)
(* for a later package than the one they were made for.                    *)
(*                                                                         *)
(* H1 and H2 are parameters: every property rests on the equations of the  *)
(* scheme, which hold whatever the hashes return.  They take the commit-   *)
(* ments as a set, since encode_commitment_list sorts them by signer.      *)
(***************************************************************************)
EXTENDS Dkg

CONSTANTS
  BindingFactor(_, _, _, _), \* of id, group key, message, commitments
  Challenge(_, _, _),        \* of group commitment, group key, message
  Messages,
  Nonces,        \* Nonces[p]: the pairs <<hiding, binding>> p's generator may draw
  FaultySigners, \* signers that may send any share
  Aggregator,    \* the participant that aggregates
  NoNonces,      \* a signer holds no SecretNonces
  MaxAttempts    \* bound on the packages

ASSUME SigningAssumption ==
  /\ Nonces \in [Participants -> SUBSET (Scalars \X Scalars)]
  /\ FaultySigners \subseteq Participants /\ Aggregator \in Participants
  /\ MaxAttempts \in Nat

VARIABLES
  attempt,  \* number of the current package, 0 before the first
  package,  \* signer_ids, message, commitments
  nonces,   \* nonces[p]: p's SecretNonces and the attempt they were drawn in
  sent,     \* signature shares made by round2_sign
  filed,    \* filed[p]: p's share that passed, in this attempt
  blamed    \* signers whose share failed in this attempt

signing == <<attempt, package, nonces, sent, filed, blamed>>
vars == <<dkgVars, signing>>

Package(signers, message, list) ==
  [signer_ids |-> signers, message |-> message, commitments |-> list]
NothingFiled == [p \in Participants |-> NoShare]

Init ==
  /\ DkgInit
  /\ attempt = 0 /\ package = Package({}, 0, {})
  /\ nonces = [p \in Participants |-> NoNonces]
  /\ sent = {} /\ filed = NothingFiled /\ blamed = {}

-----------------------------------------------------------------------------
Key(p) == keyshare[p].group_public_key
Committed == {c.participant_id : c \in package.commitments}
Rho(id, key) == BindingFactor(id, key, package.message, package.commitments)

\* group_commitment: the sum of hiding + rho * binding.
CommitmentOf(p) == CHOOSE c \in package.commitments : c.participant_id = p
GroupCommitment(key) ==
  SumOver([p \in Committed |->
             CommitmentOf(p).hiding + Rho(p, key) * CommitmentOf(p).binding])

SignatureChallenge(key) == Challenge(GroupCommitment(key), key, package.message)

\* round2_sign
SignatureShare(p) ==
  (nonces[p].hiding + Rho(p, Key(p)) * nonces[p].binding
     + LagrangeAtZero(p, package.signer_ids) * keyshare[p].secret_share
       * SignatureChallenge(Key(p))) % Q

\* Faulty variant: the binding factor is left out.
VerifySignatureShare_Unbound(p, z) ==
  LET key == Key(Aggregator)
      verification_share == PublicVerificationShare(p, Excluded(Aggregator))
  IN \E mine \in package.commitments :
       /\ mine.participant_id = p
       /\ z = (mine.hiding + mine.binding
                 + LagrangeAtZero(p, package.signer_ids) * SignatureChallenge(key)
                   * verification_share) % Q

VerifySignatureShare(p, z) ==
  LET key == Key(Aggregator)
      verification_share == PublicVerificationShare(p, Excluded(Aggregator))
  IN \E mine \in package.commitments :
       /\ mine.participant_id = p
       /\ z = (mine.hiding + Rho(p, key) * mine.binding
                 + LagrangeAtZero(p, package.signer_ids) * SignatureChallenge(key)
                   * verification_share) % Q

Aggregate ==
  [r |-> GroupCommitment(Key(Aggregator)),
   z |-> SumOver([p \in package.signer_ids |-> filed[p]])]

\* z * G = R + c * Y
Verify(signature, key, message) ==
  signature.z = (signature.r + Challenge(signature.r, key, message) * key) % Q

-----------------------------------------------------------------------------
Complete == package.signer_ids \subseteq Committed

\* The key generation is over and nothing reads its shares and broadcasts again:
\* they are dropped, to have fewer states; the keys, the commitments and who is
\* excluded stay.  (The code leaves them to the caller.)
Retire ==
  /\ received' = [p \in Participants |-> [d \in Participants |-> NoShare]]
  /\ complaints' = {} /\ disclosures' = {}
  /\ verdicts' = [p \in Participants |-> {v \in verdicts[p] : IsFaulty(v.verdict)}]
  /\ UNCHANGED <<dealings, keyshare>>

\* The aggregator asks a quorum to sign.
Begin ==
  /\ Finished
  /\ attempt < MaxAttempts
  /\ \E quorum \in SUBSET Participants, message \in Messages :
       /\ Cardinality(quorum) >= Threshold
       /\ package' = Package(quorum, message, {})
  /\ attempt' = attempt + 1 /\ filed' = NothingFiled /\ blamed' = {}
  /\ Retire
  /\ UNCHANGED <<nonces, sent>>

\* It drops the signers it named and goes on with the commitments of the others.
Repackage ==
  LET remaining == package.signer_ids \ blamed
  IN /\ blamed # {} /\ Cardinality(remaining) >= Threshold
     /\ attempt < MaxAttempts
     /\ package' = Package(remaining, package.message,
                   {c \in package.commitments : c.participant_id \in remaining})
     /\ attempt' = attempt + 1 /\ filed' = NothingFiled /\ blamed' = {}
     /\ UNCHANGED <<dkgVars, nonces, sent>>

\* round1_commit
Round1(p) ==
  /\ p \in package.signer_ids \ Committed
  /\ \E pair \in Nonces[p] :
       /\ nonces' = [nonces EXCEPT ![p] =
            [hiding |-> pair[1], binding |-> pair[2], drawn |-> attempt]]
       /\ package' = Package(package.signer_ids, package.message, package.commitments \cup
            {[participant_id |-> p, hiding |-> pair[1], binding |-> pair[2]]})
  /\ UNCHANGED <<dkgVars, attempt, sent, filed, blamed>>

\* Faulty variant: the caller keeps them.
Spent_Kept(p) == nonces

\* round2_sign takes the SecretNonces by value: they are gone afterwards.
Spent(p) == [nonces EXCEPT ![p] = NoNonces]

Round2(p) ==
  /\ p \in package.signer_ids /\ Complete
  /\ nonces[p] # NoNonces
  /\ sent' = sent \cup {[participant_id |-> p, attempt |-> attempt,
                         drawn |-> nonces[p].drawn, z |-> SignatureShare(p)]}
  /\ nonces' = Spent(p)
  /\ UNCHANGED <<dkgVars, attempt, package, filed, blamed>>

\* The aggregator checks a share before it uses it.
Receive(p, z) ==
  /\ p \in package.signer_ids \ blamed /\ Complete
  /\ filed[p] = NoShare
  /\ IF VerifySignatureShare(p, z)
     THEN filed' = [filed EXCEPT ![p] = z] /\ UNCHANGED blamed
     ELSE blamed' = blamed \cup {p} /\ UNCHANGED filed
  /\ UNCHANGED <<dkgVars, attempt, package, nonces, sent>>

Sign ==
  \/ Begin \/ Repackage
  \/ \E p \in Participants : Round1(p) \/ Round2(p)
  \/ \E s \in sent : Receive(s.participant_id, s.z)
  \/ \E p \in FaultySigners, z \in Scalars : Receive(p, z)

Next == (DkgNext /\ UNCHANGED signing) \/ Sign

Spec == Init /\ [][Next]_vars

-----------------------------------------------------------------------------
\* A share that round2_sign made for the current package passes the check, so a
\* signer that follows the protocol is not named (verify_signature_share).
GoodSharesPass ==
  \A s \in sent : s.attempt = attempt => VerifySignatureShare(s.participant_id, s.z)

\* Shares that passed aggregate to a valid Schnorr signature under the group key,
\* also when some arrived late or a signer sent something else (aggregate, verify).
SignatureVerifies ==
  package.signer_ids # {} /\ (\A p \in package.signer_ids : filed[p] # NoShare) =>
    Verify(Aggregate, Key(Aggregator), package.message)

\* The check on shares lets every good one through and nothing that spoils the sum.
SharesSign == GoodSharesPass /\ SignatureVerifies

\* No two shares are made from the same nonces, over however many packages the
\* aggregator asks for (round2_sign consumes SecretNonces).
NoncesServeOnce ==
  \A s, t \in sent : s.participant_id = t.participant_id /\ s.drawn = t.drawn => s = t
=============================================================================
