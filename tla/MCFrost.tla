------------------------------- MODULE MCFrost -------------------------------
(***************************************************************************)
(* Key generation, signing, threshold decryption and membership proofs for *)
(* TLC, over the integers modulo 5: two of three participants decrypt or   *)
(* sign, and the tree has two leaves.                                      *)
(***************************************************************************)
EXTENDS AttestedRoot, MCCoordinator

NoncePairs == << {<<1, 2>>}, {<<3, 1>>, <<0, 4>>}, {<<2, 2>>} >>

Weighted(list) ==
  FoldSet(LAMBDA c, acc : (acc + c.participant_id * (c.hiding + 2 * c.binding)) % Q, 0, list)
SomeBindingFactor(id, key, message, list) ==
  (id * id + key + message + Weighted(list)) % Q
SomeChallenge(r, key, message) == (2 * r + key + message) % Q

\* A permutation of two full and four partial rounds; the diagonal is the source's.
SomeRow(k) == [i \in Lanes |-> (k * i + i * i + k) % P]
SomeInitial == [r \in 1 .. HALF_FULL_ROUNDS |-> SomeRow(r)]
SomeFinal == [r \in 1 .. HALF_FULL_ROUNDS |-> SomeRow(r + 2)]
SomeInternal == [r \in 1 .. PARTIAL_ROUNDS |-> (r * r + 1) % P]
Diagonal == [i \in Lanes |-> <<3, 1, 2, 3, 3, 2, 2, 1>>[i + 1]]
TwoSecrets == <<1, 4>>
ThreeTexts == {<< >>, <<1>>, <<0, 1, 1>>}

\* A complaint in the name of id 0 comes first, if it comes, and everyone dismisses it
\* before the round goes on: it has no part in anything else (to have fewer states).
Dismissed == \A c \in complaints : c.accuser = 0 =>
  \A p \in Participants : \E v \in verdicts[p] : v.complaint = c
ZeroFirst ==
  /\ ~Dismissed => \E p \in Participants, c \in complaints : Dismiss(p, c)
  /\ \A c \in complaints' \ complaints : c.accuser = 0 => complaints = {}

\* The coordinator looks on whenever keys are generated.
ObservedInit == AttestedInit /\ CoordinatorInit
ObservedNext == AttestedNext /\ Observe /\ ZeroFirst
ObservedSpec ==
  ObservedInit /\ [][ObservedNext]_<<vars, proofVars, kemVars, dealer_shares>>
=============================================================================
