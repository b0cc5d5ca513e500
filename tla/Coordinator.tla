----------------------------- MODULE Coordinator -----------------------------
(***************************************************************************)
(* The second way to the excluded dealers (crates/mpc/src/lib.rs,          *)
(* identify_faulty_dealers): a coordinator that sees every share computes  *)
(* them directly, "the outcome the complaint protocol reaches without the  *)
(* network round trip".                                                    *)
(*                                                                         *)
(* It runs beside the complaint round of module Dkg.  What it is given are *)
(* the shares as they were dealt out: a share that its holder later        *)
(* replaces by the disclosed one stays in dealer_shares as it came.        *)
(***************************************************************************)
EXTENDS Dkg

VARIABLE
  dealer_shares  \* dealer_shares[d][p]: the share of d that reached p, empty before

coordinatorVars == <<dkgVars, dealer_shares>>

CoordinatorInit ==
  /\ DkgInit
  /\ dealer_shares = [d \in Participants |-> << >>]

\* The coordinator sees what a dealer reveals, and forgets it when keys are made.
Observe ==
  dealer_shares' = [d \in Participants |->
    IF ~Unfinished' \/ commitments'[d] = << >> THEN << >>
    ELSE IF commitments'[d] = commitments[d] THEN dealer_shares[d]
    ELSE [p \in Participants |-> received'[p][d]]]

CoordinatorNext == DkgNext /\ Observe

CoordinatorSpec == CoordinatorInit /\ [][CoordinatorNext]_coordinatorVars

-----------------------------------------------------------------------------
\* Faulty variant: a dealer is faulty when none of its shares verifies.
IdentifyFaultyDealers_NoneValid ==
  {d \in Participants : \A p \in DOMAIN dealer_shares[d] :
     ~VerifyShare(commitments[d], p, dealer_shares[d][p])}

IdentifyFaultyDealers ==
  {d \in Participants : \E p \in DOMAIN dealer_shares[d] :
     ~VerifyShare(commitments[d], p, dealer_shares[d][p])}

\* What a dealer dealt out is what it discloses when asked.
DealtAsDisclosed(d) ==
  \A p \in DOMAIN dealer_shares[d] : dealer_shares[d][p] = ShareFor(d, p)

-----------------------------------------------------------------------------
\* Of a dealer whose shares all arrived as dealt, the complaint round and the
\* coordinator reach one verdict, whoever accuses it of what (the test
\* complaint_resolution_agrees_with_the_batch_identify_faulty_dealers_path).
OneOutcome ==
  Settled /\ Unfinished =>
    \A p, d \in Participants :
      DealtAsDisclosed(d) => (d \in Excluded(p) <=> d \in IdentifyFaultyDealers)

\* Nobody is left with a key of its own: keys fit one public polynomial, and where
\* shares arrived as dealt it does not matter which of the two paths one follows.
KeysAgree == KeysFit /\ OneOutcome

\* The coordinator computes the outcome that the complaint protocol reaches (the
\* module docs of crates/mpc/src/lib.rs, of identify_faulty_dealers).
PathsAgree ==
  Settled /\ Unfinished => \A p \in Participants : Excluded(p) = IdentifyFaultyDealers
=============================================================================
