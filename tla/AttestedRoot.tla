---------------------------- MODULE AttestedRoot ----------------------------
(***************************************************************************)
(* A committee signs the membership root with FROST, and a member proves   *)
(* its message against the root that was signed (MerkleTree::root_bytes;   *)
(* crates/mpc/tests/frost_signs_rln_root.rs).  The message is the number   *)
(* of members registered so far, which stands for the bytes of their root. *)
(***************************************************************************)
EXTENDS Frost, RlnAir, ThresholdKem

AllFiled == package.signer_ids # {} /\ \A p \in package.signer_ids : filed[p] # NoShare

\* What the relying party keeps is the root; the committee is set aside.
SetAside ==
  /\ coefficients' = CHOOSE draw \in Draws : TRUE
  /\ commitments' = [d \in Participants |-> << >>]
  /\ received' = [p \in Participants |-> [d \in Participants |-> NoShare]]
  /\ complaints' = {} /\ disclosures' = {} /\ verdicts' = [p \in Participants |-> {}]
  /\ keyshare' = << >>
  /\ attempt' = 0 /\ package' = Package({}, 0, {})
  /\ nonces' = [p \in Participants |-> NoNonces]
  /\ sent' = {} /\ filed' = NothingFiled /\ blamed' = {}

\* A member's proof is made for a root under a valid signature of the group.
Adopt ==
  /\ AllFiled /\ Verify(Aggregate, Key(Aggregator), package.message)
  /\ TakeRoot(Root(Tree(package.message), DEPTH))
  /\ SetAside

AttestedInit == Init /\ ProofIdle /\ KemIdle

\* Threshold decryption needs no key generation: it runs in its place.
AttestedNext ==
  \/ public.root = -1 /\ sealed = KemError /\ Next /\ UNCHANGED <<proofVars, kemVars>>
  \/ Adopt /\ UNCHANGED kemVars
  \/ (BeginTrace \/ ExtendTrace) /\ UNCHANGED <<vars, kemVars>>
  \/ (\A d \in Participants : commitments[d] = << >>)
     /\ public.root = -1 /\ KemNext /\ UNCHANGED <<vars, proofVars>>

AttestedSpec == AttestedInit /\ [][AttestedNext]_<<vars, proofVars, kemVars>>
=============================================================================
