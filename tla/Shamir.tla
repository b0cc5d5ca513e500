------------------------------- MODULE Shamir -------------------------------
(***************************************************************************)
(* The polynomial secret sharing that key generation, threshold decryption *)
(* and FROST share (crates/mpc/src/lib.rs).                                *)
(*                                                                         *)
(* A Scalar is a number modulo a prime Q.  A RistrettoPoint is represented *)
(* by its discrete logarithm: the group has prime order, so x * G = y * G  *)
(* exactly when x = y, and the code only adds, scales and compares points. *)
(***************************************************************************)
EXTENDS Integers, Sequences

CONSTANTS
  Q,                \* order of the group
  NumParticipants,  \* num_participants
  Threshold         \* threshold

\* Dealer::new's assertion; a prime order that keeps ids distinct and not 0.
ASSUME SharingAssumption ==
  /\ Threshold \in Nat \ {0} /\ NumParticipants \in Nat /\ Threshold <= NumParticipants
  /\ Q \in Nat /\ Q > NumParticipants
  /\ \A x, y \in 2 .. (Q - 1) : x * y # Q

Participants == 1 .. NumParticipants
Scalars == 0 .. (Q - 1)
Polynomials == [1 .. Threshold -> Scalars]

-----------------------------------------------------------------------------
\* Horner's rule, from the highest coefficient down.
Evaluate(coefficients, x) ==
  LET n == Len(coefficients)
      acc[k \in 0 .. n] == IF k = 0 THEN 0 ELSE (acc[k - 1] * x + coefficients[n - k + 1]) % Q
  IN acc[n]

\* evaluate_commitment: the sum of id^k * C_k, with a running power.
EvaluateCommitment(commitments, id) ==
  LET acc[k \in 0 .. Len(commitments)] ==
        IF k = 0 THEN [expected |-> 0, power |-> 1]
        ELSE [expected |-> (acc[k - 1].expected + acc[k - 1].power * commitments[k]) % Q,
              power |-> (acc[k - 1].power * id) % Q]
  IN acc[Len(commitments)].expected

VerifyShare(commitments, id, share) ==
  /\ id # 0
  /\ share = EvaluateCommitment(commitments, id)

Inverted(x) == CHOOSE y \in Scalars : (x * y) % Q = 1

\* The product over the other ids; the caller names each participant of a
\* reconstruction once.
LagrangeAtZero(id, ids) ==
  LET acc[j \in 0 .. NumParticipants] ==
        IF j = 0 THEN 1
        ELSE IF j \in ids \ {id} THEN (acc[j - 1] * j * Inverted((j - id) % Q)) % Q
        ELSE acc[j - 1]
  IN acc[NumParticipants]

\* A sum of what some participants contribute.
SumOver(f) ==
  LET acc[j \in 0 .. NumParticipants] ==
        IF j = 0 THEN 0
        ELSE IF j \in DOMAIN f THEN (acc[j - 1] + f[j]) % Q
        ELSE acc[j - 1]
  IN acc[NumParticipants]

\* The Lagrange sum of combine_partials, over points by participant.
CombinePartials(partials) ==
  SumOver([id \in DOMAIN partials |-> LagrangeAtZero(id, DOMAIN partials) * partials[id]])
=============================================================================
