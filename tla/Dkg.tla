--------------------------------- MODULE Dkg ---------------------------------
(***************************************************************************)
(* Joint-Feldman key generation with complaints (crates/mpc/src/lib.rs):   *)
(* every participant deals a share of its own polynomial to every other,   *)
(* complains about shares that do not fit what the dealer broadcast, and   *)
(* sums the shares of the dealers that survive.                            *)
(*                                                                         *)
(* The crate does no networking.  As its docs ask of the caller, a         *)
(* broadcast reaches everyone and the rounds are synchronous; within a     *)
(* round, participants act in any order.  The dealer at index d is the     *)
(* participant d.  All dealers broadcast Threshold commitments, as         *)
(* Dealer::new makes them.                                                 *)
(***************************************************************************)
EXTENDS Shamir, FiniteSets

CONSTANTS
  Draws,        \* the polynomials, by dealer, that Dealer::new may draw
  Inconsistent, \* dealers that may broadcast commitments to another polynomial
  Garbled,      \* pairs <<dealer, participant>> whose share may arrive altered
  Unfounded,    \* complaints that may be broadcast without cause
  NoShare       \* None of share_for

ASSUME DealingAssumption ==
  /\ Draws \subseteq [Participants -> Polynomials]
  /\ Inconsistent \subseteq Participants
  /\ Garbled \subseteq Participants \X Participants
  /\ Unfounded \subseteq [accuser : Nat, dealer_index : Participants, received_share : Scalars]
  /\ NoShare \notin Scalars

VARIABLES
  coefficients,  \* coefficients[d]: d's Dealer
  commitments,   \* commitments[d]: what d broadcast, empty before
  received,      \* received[p][d]: the share p holds of dealer d
  complaints,    \* Complaints broadcast
  disclosures,   \* share_for answers broadcast
  verdicts,      \* verdicts[p]: complaints p has resolved, with the verdict
  keyshare       \* keyshare[p]: p's KeyShare, once p has finalized

dealings == <<coefficients, commitments>>
disputes == <<complaints, disclosures, verdicts>>
dkgVars == <<dealings, received, disputes, keyshare>>

Revealed == \A d \in Participants : commitments[d] # << >>
Unfinished == DOMAIN keyshare = {}
Finished == DOMAIN keyshare = Participants

DkgInit ==
  /\ coefficients \in Draws
  /\ commitments = [d \in Participants |-> << >>]
  /\ received = [p \in Participants |-> [d \in Participants |-> NoShare]]
  /\ complaints = {} /\ disclosures = {}
  /\ verdicts = [p \in Participants |-> {}]
  /\ keyshare = << >>

-----------------------------------------------------------------------------
\* reveal: broadcast commitments, and one share to each participant.
Reveal(d) ==
  /\ commitments[d] = << >>
  /\ \E broadcast \in {draw[d] : draw \in Draws}, shares \in [Participants -> Scalars] :
       /\ d \in Inconsistent \/ broadcast = coefficients[d]
       /\ \A p \in Participants :
            <<d, p>> \in Garbled \/ shares[p] = Evaluate(coefficients[d], p)
       /\ commitments' = [commitments EXCEPT ![d] = broadcast]
       /\ received' = [p \in Participants |-> [received[p] EXCEPT ![d] = shares[p]]]
  /\ UNCHANGED <<coefficients, disputes, keyshare>>

\* A participant whose share fails verify_share broadcasts it.
Complain(p, d) ==
  /\ Revealed /\ Unfinished
  /\ ~VerifyShare(commitments[d], p, received[p][d])
  /\ complaints' = complaints \cup
       {[accuser |-> p, dealer_index |-> d, received_share |-> received[p][d]]}
  /\ UNCHANGED <<dealings, received, disclosures, verdicts, keyshare>>

ComplainWithoutCause ==
  /\ Revealed /\ Unfinished
  /\ \E c \in Unfounded : complaints' = complaints \cup {c}
  /\ UNCHANGED <<dealings, received, disclosures, verdicts, keyshare>>

\* Faulty variant: an answer for any id, 0 included.
ShareFor_AnyId(d, id) == Evaluate(coefficients[d], id)

ShareFor(d, id) ==
  IF id \in Participants THEN Evaluate(coefficients[d], id) ELSE NoShare

\* The accused dealer answers, unless it never dealt to the accuser.
Disclose(c) ==
  /\ Unfinished
  /\ ShareFor(c.dealer_index, c.accuser) # NoShare
  /\ disclosures' = disclosures \cup
       {[dealer_index |-> c.dealer_index, accuser |-> c.accuser,
         disclosed |-> ShareFor(c.dealer_index, c.accuser)]}
  /\ UNCHANGED <<dealings, received, complaints, verdicts, keyshare>>

\* Faulty variant: a complaint nobody may answer counts as one not answered.
ResolveComplaint_AnyAccuser(dealer_commitments, c, disclosed) ==
  IF ~VerifyShare(dealer_commitments, c.accuser, disclosed)
  THEN "DealerCannotProduceAValidShare"
  ELSE IF disclosed # c.received_share
       THEN "DisclosureIsValidButContradictsTheAccusersClaim"
  ELSE "ComplaintWasUnfounded"

\* Faulty variant: an answer that repeats the claim settles the matter.
ResolveComplaint_ClaimFirst(dealer_commitments, c, disclosed) ==
  IF c.accuser = 0 THEN "MalformedComplaint"
  ELSE IF disclosed = c.received_share THEN "ComplaintWasUnfounded"
  ELSE IF ~VerifyShare(dealer_commitments, c.accuser, disclosed)
       THEN "DealerCannotProduceAValidShare"
  ELSE "DisclosureIsValidButContradictsTheAccusersClaim"

ResolveComplaint(dealer_commitments, c, disclosed) ==
  IF c.accuser = 0 THEN "MalformedComplaint"
  ELSE IF ~VerifyShare(dealer_commitments, c.accuser, disclosed)
       THEN "DealerCannotProduceAValidShare"
  ELSE IF disclosed # c.received_share
       THEN "DisclosureIsValidButContradictsTheAccusersClaim"
  ELSE "ComplaintWasUnfounded"

\* Faulty variant: the accuser's word counts.
IsFaulty_Contradicted(verdict) ==
  verdict \in {"DealerCannotProduceAValidShare",
               "DisclosureIsValidButContradictsTheAccusersClaim"}

IsFaulty(verdict) == verdict = "DealerCannotProduceAValidShare"

\* A participant resolves a complaint from the broadcasts.  The accuser whose
\* claim the disclosure contradicts adopts the disclosed share.
Resolve(p, c, m) ==
  LET verdict == ResolveComplaint(commitments[c.dealer_index], c, m.disclosed)
      repairs == /\ p = c.accuser
                 /\ verdict = "DisclosureIsValidButContradictsTheAccusersClaim"
  IN /\ m.dealer_index = c.dealer_index /\ m.accuser = c.accuser
     /\ \A v \in verdicts[p] : v.complaint # c
     /\ verdicts' = [verdicts EXCEPT ![p] = @ \cup {[complaint |-> c, verdict |-> verdict]}]
     /\ received' = [received EXCEPT ![p][c.dealer_index] = IF repairs THEN m.disclosed ELSE @]
     /\ UNCHANGED <<dealings, complaints, disclosures, keyshare>>

\* A complaint in the name of id 0 gets no answer and is resolved without one.
Dismiss(p, c) ==
  /\ c.accuser = 0
  /\ \A v \in verdicts[p] : v.complaint # c
  /\ verdicts' = [verdicts EXCEPT ![p] = @ \cup
       {[complaint |-> c, verdict |-> ResolveComplaint(commitments[c.dealer_index], c, 0)]}]
  /\ UNCHANGED <<dealings, received, complaints, disclosures, keyshare>>

Excluded(p) == {v.complaint.dealer_index : v \in {w \in verdicts[p] : IsFaulty(w.verdict)}}

-----------------------------------------------------------------------------
\* The complaint round is over for all: whoever holds an invalid share has
\* complained of it, and everyone has resolved each complaint that a dealer can
\* answer or that names id 0.
Settled ==
  /\ Revealed
  /\ \A p, d \in Participants : VerifyShare(commitments[d], p, received[p][d]) \/
       [accuser |-> p, dealer_index |-> d, received_share |-> received[p][d]] \in complaints
  /\ \A c \in complaints, p \in Participants : c.accuser \in Participants \cup {0} =>
       \E v \in verdicts[p] : v.complaint = c

\* Faulty variant: contributions of excluded dealers stay in.
SumOfC0_All(excluded) == SumOver([d \in Participants |-> commitments[d][1]])

SumOfShares(p, excluded) == SumOver([d \in Participants \ excluded |-> received[p][d]])
SumOfC0(excluded) == SumOver([d \in Participants \ excluded |-> commitments[d][1]])

\* finalize_key_share_excluding_faulty, after which p's Dealer is dropped.
Finalize(p) ==
  /\ Settled
  /\ p \notin DOMAIN keyshare
  /\ keyshare' = [q \in DOMAIN keyshare \cup {p} |->
       IF q \in DOMAIN keyshare THEN keyshare[q]
       ELSE [participant_id |-> p,
             secret_share |-> SumOfShares(p, Excluded(p)),
             group_public_key |-> SumOfC0(Excluded(p))]]
  /\ coefficients' = [coefficients EXCEPT ![p] = [k \in DOMAIN @ |-> 0]]
  /\ UNCHANGED <<commitments, received, disputes>>

DkgNext ==
  \/ ComplainWithoutCause
  \/ \E p \in Participants : Reveal(p) \/ Finalize(p)
  \/ \E p, d \in Participants : Complain(p, d)
  \/ \E c \in complaints : Disclose(c)
  \/ \E p \in Participants, c \in complaints : Dismiss(p, c)
  \/ \E p \in Participants, c \in complaints, m \in disclosures : Resolve(p, c, m)

DkgSpec == DkgInit /\ [][DkgNext]_dkgVars

-----------------------------------------------------------------------------
\* What the public commitments say a participant's share is.
PublicVerificationShare(p, excluded) ==
  SumOver([d \in Participants \ excluded |-> EvaluateCommitment(commitments[d], p)])

PartialDecrypt(p, r) == (keyshare[p].secret_share * r) % Q

-----------------------------------------------------------------------------
\* A dealer whose broadcast fits its polynomial is excluded by nobody, whatever
\* anyone claims to have received (ComplaintVerdict::is_faulty, resolve_complaint).
HonestDealersStay ==
  \A p \in Participants : Excluded(p) \subseteq Inconsistent

\* The shares participants end up with lie on the public polynomial of the
\* survivors, everyone's on the same one: an altered share is repaired or its
\* dealer is gone (finalize_key_share_excluding_faulty, public_verification_share).
KeysFit ==
  \A p, q \in DOMAIN keyshare :
    /\ keyshare[p].secret_share = PublicVerificationShare(p, Excluded(q))
    /\ keyshare[p].group_public_key = keyshare[q].group_public_key

\* Any Threshold participants decrypt what was encapsulated to the group key
\* (partial_decrypt, combine_partials, encapsulate).
QuorumDecrypts ==
  Finished => \A quorum \in SUBSET Participants, r \in Scalars :
    Cardinality(quorum) >= Threshold =>
      \A p \in Participants :
        CombinePartials([i \in quorum |-> PartialDecrypt(i, r)])
          = (r * keyshare[p].group_public_key) % Q

\* While fewer than Threshold of a dealer's shares are disclosed, they leave its
\* contribution to the key open (share_for refuses id 0, the contribution itself).
ContributionHidden ==
  \A d \in Participants :
    LET known == {m \in disclosures : m.dealer_index = d}
        fitting == {f \in Polynomials : \A m \in known : Evaluate(f, m.accuser) = m.disclosed}
    IN Cardinality(known) < Threshold => \E f, g \in fitting : f[1] # g[1]
=============================================================================
