-------------------------- MODULE AttestedRootProofs --------------------------
(***************************************************************************)
(* Proofs about the threshold cryptography and the membership proofs, for  *)
(* every prime order, number of participants, threshold, hash and bound,   *)
(* and for every field, permutation, depth and message.                    *)
(*                                                                         *)
(* First the algebra of the secret sharing in module Shamir: a dealer's    *)
(* shares verify against what it broadcasts, any Threshold shares give the *)
(* secret back, and fewer leave it open.  Each loop of the code is first   *)
(* restated as a sequence of values with one equation for each round.      *)
(* Then, from it, key generation, signing and threshold decryption.        *)
(*                                                                         *)
(* The second half is about membership proofs: the permutation, absorbing, *)
(* climbing, then the circuit's rows; and about AttestedRoot as a whole.   *)
(***************************************************************************)
EXTENDS AttestedRoot, Coordinator, NumberLemmas, FiniteSetTheorems, SequenceTheorems, TLAPS

-----------------------------------------------------------------------------
(***************************************************************************)
(* Numbers modulo Q.                                                       *)
(***************************************************************************)
Same(a, b) == SameModulo(a, b, Q)

LEMMA OrderFacts == Q \in Nat /\ Q > 1 /\ 0 \in Scalars /\ 1 \in Scalars
  BY SharingAssumption DEF Scalars

LEMMA SameSelf == ASSUME NEW a \in Int PROVE Same(a, a)
BY OrderFacts, SameModuloSelf DEF Same

LEMMA SameSwap == ASSUME NEW a \in Int, NEW b \in Int, Same(a, b) PROVE Same(b, a)
BY OrderFacts, SameModuloSwap DEF Same

LEMMA SameChain ==
  ASSUME NEW a \in Int, NEW b \in Int, NEW c \in Int, Same(a, b), Same(b, c) PROVE Same(a, c)
BY OrderFacts, SameModuloChain DEF Same

LEMMA SamePlus ==
  ASSUME NEW a \in Int, NEW b \in Int, NEW c \in Int, NEW d \in Int, Same(a, b), Same(c, d)
  PROVE  Same(a + c, b + d)
BY OrderFacts, SameModuloPlus DEF Same

LEMMA SameTimes ==
  ASSUME NEW a \in Int, NEW b \in Int, NEW c \in Int, NEW d \in Int, Same(a, b), Same(c, d)
  PROVE  Same(a * c, b * d)
BY OrderFacts, SameModuloTimes DEF Same

LEMMA ModSame == ASSUME NEW a \in Int PROVE a % Q \in Scalars /\ Same(a % Q, a)
BY OrderFacts, ModuloSame DEF Same, Scalars

\* A number modulo Q is equal to one it is the same as.
LEMMA SameEqual ==
  ASSUME NEW a \in Scalars, NEW b \in Scalars, Same(a, b) PROVE a = b
BY OrderFacts, SameModuloEqual DEF Same, Scalars

LEMMA SameMod ==
  ASSUME NEW a \in Int, NEW b \in Int, Same(a, b) PROVE a % Q = b % Q
BY OrderFacts, ModuloOfSame DEF Same

-----------------------------------------------------------------------------
(***************************************************************************)
(* The loops: what each has after k rounds.                                *)
(***************************************************************************)
\* Horner's rule: acc[k] is the value of the k highest coefficients.
Horner(acc, f, x) ==
  /\ acc \in [0 .. Len(f) -> Scalars] /\ acc[0] = 0
  /\ \A k \in 1 .. Len(f) : acc[k] = (acc[k - 1] * x + f[Len(f) - k + 1]) % Q

LEMMA EvaluateSteps ==
  ASSUME NEW f \in Seq(Scalars), NEW x \in Int
  PROVE  \E acc : Horner(acc, f, x) /\ Evaluate(f, x) = acc[Len(f)]
<1> DEFINE n == Len(f)
           step == [k \in 1 .. n |-> [t \in Scalars |-> (t * x + f[n - k + 1]) % Q]]
<1>1. n \in Nat
  OBVIOUS
<1>2. \A k \in 1 .. n : n - k + 1 \in 1 .. n /\ f[n - k + 1] \in Int
  BY OrderFacts DEF Scalars
<1>3. ASSUME NEW k \in 1 .. n, NEW t \in Scalars
      PROVE  step[k][t] \in Scalars /\ step[k][t] = (t * x + f[n - k + 1]) % Q
  <2>1. t * x + f[n - k + 1] \in Int
    BY <1>2, OrderFacts DEF Scalars
  <2>2. QED
    BY <2>1, ModSame
<1> DEFINE acc[k \in 0 .. n] == IF k = 0 THEN 0 ELSE (acc[k - 1] * x + f[n - k + 1]) % Q
<1>4. Evaluate(f, x) = acc[n]
  BY DEF Evaluate
<1> HIDE DEF step, n
<1>5. PICK h : Loop(h, n, Scalars, 0, step)
  <2>1. \A k \in 1 .. n : \A t \in Scalars : step[k][t] \in Scalars
    BY <1>3
  <2>2. QED
    BY <1>1, <2>1, Iterate, OrderFacts
<1>6. ASSUME NEW k \in 0 .. n
      PROVE  h[k] = IF k = 0 THEN 0 ELSE (h[k - 1] * x + f[n - k + 1]) % Q
  <2>1. CASE k = 0
    BY <1>5, <2>1 DEF Loop
  <2>2. CASE k # 0
    <3>1. k \in 1 .. n /\ k - 1 \in 0 .. n
      BY <1>1, <2>2
    <3>2. h[k] = step[k][h[k - 1]] /\ h[k - 1] \in Scalars
      BY <1>5, <3>1 DEF Loop
    <3>3. QED
      BY <1>3, <2>2, <3>1, <3>2
  <2>3. QED
    BY <2>1, <2>2
<1>7. h = [k \in 0 .. n |-> IF k = 0 THEN 0 ELSE (h[k - 1] * x + f[n - k + 1]) % Q]
  <2>1. h = [k \in 0 .. n |-> h[k]]
    BY <1>5 DEF Loop
  <2>2. QED
    BY <1>6, <2>1
<1>8. acc = [k \in 0 .. n |-> IF k = 0 THEN 0 ELSE (acc[k - 1] * x + f[n - k + 1]) % Q]
  BY <1>7, Zenon DEF acc
<1> HIDE DEF acc
<1>9. Loop(acc, n, Scalars, 0, step)
  <2>1. acc = [k \in 0 .. n |-> acc[k]] /\ acc[0] = 0
    BY <1>1, <1>8
  <2>2. ASSUME NEW k \in 1 .. n, acc[k - 1] \in Scalars
        PROVE  acc[k] = step[k][acc[k - 1]]
    <3>1. k \in 0 .. n /\ k # 0
      BY <1>1
    <3>2. acc[k] = (acc[k - 1] * x + f[n - k + 1]) % Q
      BY <1>8, <3>1
    <3>3. QED
      BY <1>3, <2>2, <3>2
  <2>3. \A k \in 1 .. n : \A t \in Scalars : step[k][t] \in Scalars
    BY <1>3
  <2>4. QED
    BY <1>1, <2>1, <2>2, <2>3, GoesOn, OrderFacts
<1>10. Horner(acc, f, x)
  BY <1>3, <1>9 DEF Horner, Loop, n
<1>11. QED
  BY <1>4, <1>10 DEF n

\* The verifier's: acc[k] is the sum of k terms and the next power.
Powers(acc, f, x) ==
  /\ acc \in [0 .. Len(f) -> [expected : Scalars, power : Scalars]]
  /\ acc[0] = [expected |-> 0, power |-> 1]
  /\ \A k \in 1 .. Len(f) :
       acc[k] = [expected |-> (acc[k - 1].expected + acc[k - 1].power * f[k]) % Q,
                 power |-> (acc[k - 1].power * x) % Q]

LEMMA CommitmentSteps ==
  ASSUME NEW f \in Seq(Scalars), NEW x \in Int
  PROVE  \E acc : Powers(acc, f, x) /\ EvaluateCommitment(f, x) = acc[Len(f)].expected
<1> DEFINE n == Len(f)
           T == [expected : Scalars, power : Scalars]
           base == [expected |-> 0, power |-> 1]
           step == [k \in 1 .. n |-> [t \in T |->
                      [expected |-> (t.expected + t.power * f[k]) % Q, power |-> (t.power * x) % Q]]]
<1>1. n \in Nat /\ base \in T
  BY OrderFacts
<1>2. \A k \in 1 .. n : f[k] \in Int
  BY OrderFacts DEF Scalars
<1>3. ASSUME NEW k \in 1 .. n, NEW t \in T
      PROVE  /\ step[k][t] \in T
             /\ step[k][t] = [expected |-> (t.expected + t.power * f[k]) % Q,
                              power |-> (t.power * x) % Q]
  <2>1. t.expected + t.power * f[k] \in Int /\ t.power * x \in Int
    BY <1>2, OrderFacts DEF Scalars
  <2>2. (t.expected + t.power * f[k]) % Q \in Scalars /\ (t.power * x) % Q \in Scalars
    BY <2>1, ModSame
  <2>3. QED
    BY <2>2
<1> DEFINE acc[k \in 0 .. n] ==
             IF k = 0 THEN [expected |-> 0, power |-> 1]
             ELSE [expected |-> (acc[k - 1].expected + acc[k - 1].power * f[k]) % Q,
                   power |-> (acc[k - 1].power * x) % Q]
<1>4. EvaluateCommitment(f, x) = acc[n].expected
  BY DEF EvaluateCommitment
<1> HIDE DEF step, n, T
<1>5. PICK h : Loop(h, n, T, base, step)
  <2>1. \A k \in 1 .. n : \A t \in T : step[k][t] \in T
    BY <1>3
  <2> HIDE DEF base
  <2>2. QED
    BY <1>1, <2>1, Iterate
<1>6. ASSUME NEW k \in 0 .. n
      PROVE  h[k] = IF k = 0 THEN [expected |-> 0, power |-> 1]
                    ELSE [expected |-> (h[k - 1].expected + h[k - 1].power * f[k]) % Q,
                          power |-> (h[k - 1].power * x) % Q]
  <2>1. k # 0 => k \in 1 .. n
    BY <1>1
  <2>2. QED
    BY <1>3, <1>5, <2>1 DEF Loop
<1>7. h = [k \in 0 .. n |->
             IF k = 0 THEN [expected |-> 0, power |-> 1]
             ELSE [expected |-> (h[k - 1].expected + h[k - 1].power * f[k]) % Q,
                   power |-> (h[k - 1].power * x) % Q]]
  <2>1. h = [k \in 0 .. n |-> h[k]]
    BY <1>5 DEF Loop
  <2>2. QED
    BY <1>6, <2>1
<1>8. acc = [k \in 0 .. n |->
               IF k = 0 THEN [expected |-> 0, power |-> 1]
               ELSE [expected |-> (acc[k - 1].expected + acc[k - 1].power * f[k]) % Q,
                     power |-> (acc[k - 1].power * x) % Q]]
  BY <1>7, Zenon DEF acc
<1> HIDE DEF acc
<1>9. Loop(acc, n, T, base, step)
  <2>1. acc = [k \in 0 .. n |-> acc[k]] /\ acc[0] = base
    BY <1>1, <1>8
  <2>2. ASSUME NEW k \in 1 .. n, acc[k - 1] \in T
        PROVE  acc[k] = step[k][acc[k - 1]]
    <3>1. k \in 0 .. n /\ k # 0
      BY <1>1
    <3>2. acc[k] = [expected |-> (acc[k - 1].expected + acc[k - 1].power * f[k]) % Q,
                    power |-> (acc[k - 1].power * x) % Q]
      BY <1>8, <3>1
    <3>3. QED
      BY <1>3, <2>2, <3>2
  <2>3. \A k \in 1 .. n : \A t \in T : step[k][t] \in T
    BY <1>3
  <2> HIDE DEF base
  <2>4. QED
    BY <1>1, <2>1, <2>2, <2>3, GoesOn
<1>10. Powers(acc, f, x)
  BY <1>3, <1>9 DEF Powers, Loop, n, T
<1>11. QED
  BY <1>4, <1>10 DEF n

(***************************************************************************)
(* Feldman: a dealer's share and the verifier's sum are the same number.   *)
(* After m terms of the sum, what is left of it is the running power times *)
(* what Horner's rule has made of the other coefficients.                  *)
(***************************************************************************)
LEMMA FeldmanStep ==
  ASSUME NEW s \in Int, NEW p \in Int, NEW h \in Int, NEW c \in Int, NEW x \in Int, NEW whole \in Int,
         Same(s + p * ((h * x + c) % Q), whole)
  PROVE  Same(((s + p * c) % Q) + ((p * x) % Q) * h, whole)
<1>1. /\ (h * x + c) % Q \in Int /\ Same((h * x + c) % Q, h * x + c)
      /\ (s + p * c) % Q \in Int /\ Same((s + p * c) % Q, s + p * c)
      /\ (p * x) % Q \in Int /\ Same((p * x) % Q, p * x)
  <2>1. h * x + c \in Int /\ s + p * c \in Int /\ p * x \in Int
    OBVIOUS
  <2>2. \A a \in Int : a % Q \in Int /\ Same(a % Q, a)
    BY ModSame, OrderFacts DEF Scalars
  <2>3. QED
    BY <2>1, <2>2
<1>2. PICK j \in Int : (h * x + c) % Q = h * x + c + j * Q
  BY <1>1 DEF Same, SameModulo
<1>3. PICK k \in Int : (s + p * c) % Q = s + p * c + k * Q
  BY <1>1 DEF Same, SameModulo
<1>4. PICK l \in Int : (p * x) % Q = p * x + l * Q
  BY <1>1 DEF Same, SameModulo
<1>5. PICK m \in Int : s + p * (h * x + c + j * Q) = whole + m * Q
  BY <1>2 DEF Same, SameModulo
<1>6. (s + p * c + k * Q) + (p * x + l * Q) * h = whole + (m + k + l * h - p * j) * Q
  BY <1>5, OrderFacts
<1>7. m + k + l * h - p * j \in Int
  OBVIOUS
<1>8. QED
  BY <1>3, <1>4, <1>6, <1>7 DEF Same, SameModulo

LEMMA Feldman ==
  ASSUME NEW f \in Seq(Scalars), NEW x \in Int
  PROVE  EvaluateCommitment(f, x) = Evaluate(f, x)
<1> DEFINE n == Len(f)
<1>1. PICK h : Horner(h, f, x) /\ Evaluate(f, x) = h[n]
  BY EvaluateSteps
<1>2. PICK g : Powers(g, f, x) /\ EvaluateCommitment(f, x) = g[n].expected
  BY CommitmentSteps
<1>3. n \in Nat /\ \A k \in 1 .. n : f[k] \in Int
  BY OrderFacts DEF Scalars
<1>4. \A k \in 0 .. n : h[k] \in Scalars /\ h[k] \in Int
  BY <1>1, OrderFacts DEF Horner, Scalars
<1>5. \A k \in 0 .. n : /\ g[k] \in [expected : Scalars, power : Scalars]
                        /\ g[k].expected \in Scalars /\ g[k].expected \in Int /\ g[k].power \in Int
  <2> SUFFICES ASSUME NEW k \in 0 .. n
               PROVE  /\ g[k] \in [expected : Scalars, power : Scalars]
                      /\ g[k].expected \in Scalars /\ g[k].expected \in Int /\ g[k].power \in Int
    OBVIOUS
  <2>1. g[k] \in [expected : Scalars, power : Scalars]
    BY <1>2 DEF Powers
  <2>2. \A a \in Scalars : a \in Int
    BY OrderFacts DEF Scalars
  <2> QED
    BY <2>1, <2>2
<1> DEFINE Left(m) == g[m].expected + g[m].power * h[n - m]
           S == {m \in Nat : m \in 0 .. n => Same(Left(m), h[n])}
<1>6. ASSUME NEW m \in Nat, \A l \in Nat : l < m => l \in S, m \in 0 .. n
      PROVE  Same(Left(m), h[n])
  <2>1. CASE m = 0
    <3>1. Left(0) = h[n]
      <4>1. g[0] = [expected |-> 0, power |-> 1]
        BY <1>2 DEF Powers
      <4>2. g[0].expected = 0 /\ g[0].power = 1 /\ n - 0 = n /\ h[n] \in Int
        BY <1>3, <1>4, <4>1
      <4>3. QED
        BY <4>2
    <3>2. QED
      BY <1>3, <1>4, <2>1, <3>1, SameSelf
  <2>2. CASE m # 0
    <3> DEFINE l == m - 1
    <3>1. l \in 0 .. n /\ m \in 1 .. n /\ n - m \in 0 .. n /\ n - l \in 1 .. n
          /\ n - l = (n - m) + 1 /\ n - (n - l) + 1 = m /\ (n - l) - 1 = n - m
      BY <1>3, <1>6, <2>2
    <3>2. l \in Nat /\ l < m
      BY <1>6, <2>2
    <3>3. Same(Left(l), h[n])
      BY <1>6, <3>1, <3>2
    <3>4. h[n - l] = (h[n - m] * x + f[m]) % Q
      BY <1>1, <3>1 DEF Horner
    <3>5. /\ g[m].expected = (g[l].expected + g[l].power * f[m]) % Q
          /\ g[m].power = (g[l].power * x) % Q
      <4>1. g[m] = [expected |-> (g[m - 1].expected + g[m - 1].power * f[m]) % Q,
                    power |-> (g[m - 1].power * x) % Q]
        BY <1>2, <3>1 DEF Powers
      <4>2. QED
        BY <4>1
    <3>6. Same(g[l].expected + g[l].power * ((h[n - m] * x + f[m]) % Q), h[n])
      BY <3>3, <3>4
    <3>7. /\ g[l].expected \in Int /\ g[l].power \in Int /\ h[n - m] \in Int /\ f[m] \in Int
          /\ h[n] \in Int
      BY <1>3, <1>4, <1>5, <3>1
    <3> HIDE DEF l, n
    <3>8. QED
      BY <3>5, <3>6, <3>7, FeldmanStep
  <2>3. QED
    BY <2>1, <2>2
<1>7. Same(Left(n), h[n])
  <2>1. \A m \in Nat : (\A l \in Nat : l < m => l \in S) => m \in S
    BY <1>6
  <2> HIDE DEF S
  <2>2. S \in SUBSET Nat
    BY DEF S
  <2>3. n \in S
    BY <1>3, <2>1, <2>2, Induction
  <2>4. n \in 0 .. n
    BY <1>3
  <2>5. QED
    BY <2>3, <2>4 DEF S
<1>8. Left(n) = g[n].expected
  <2>1. n - n = 0 /\ h[0] = 0 /\ n \in 0 .. n
    BY <1>1, <1>3 DEF Horner
  <2>2. QED
    BY <1>5, <2>1
<1>9. n \in 0 .. n
  BY <1>3
<1>10. g[n].expected \in Scalars /\ h[n] \in Scalars /\ Same(g[n].expected, h[n])
  BY <1>4, <1>5, <1>7, <1>8, <1>9
<1> HIDE DEF n
<1>11. QED
  BY <1>1, <1>2, <1>10, SameEqual

-----------------------------------------------------------------------------
(***************************************************************************)
(* Sums of what participants contribute: nothing counts as 0.              *)
(***************************************************************************)
Term(f, j) == IF j \in DOMAIN f THEN f[j] ELSE 0

Contributions == UNION {[D -> Int] : D \in SUBSET Participants}

\* acc[j] is the sum up to participant j.
Sums(acc, f) ==
  /\ acc \in [0 .. NumParticipants -> Scalars] /\ acc[0] = 0
  /\ \A j \in Participants : Same(acc[j], acc[j - 1] + Term(f, j))

LEMMA TermType ==
  ASSUME NEW f \in Contributions, NEW j PROVE Term(f, j) \in Int
  BY DEF Contributions, Term

LEMMA SumSteps ==
  ASSUME NEW f \in Contributions
  PROVE  \E acc : Sums(acc, f) /\ SumOver(f) = acc[NumParticipants]
<1> DEFINE n == NumParticipants
           step == [j \in 1 .. n |-> [t \in Scalars |->
                      IF j \in DOMAIN f THEN (t + f[j]) % Q ELSE t]]
<1>1. n \in Nat /\ 0 \in Scalars /\ \A t \in Scalars : t \in Int
  BY SharingAssumption, OrderFacts DEF Scalars
<1>2. \A j \in DOMAIN f : f[j] \in Int
  BY DEF Contributions
<1>3. ASSUME NEW j \in 1 .. n, NEW t \in Scalars
      PROVE  /\ step[j][t] \in Scalars /\ Same(step[j][t], t + Term(f, j))
             /\ step[j][t] = IF j \in DOMAIN f THEN (t + f[j]) % Q ELSE t
  <2>1. step[j][t] = IF j \in DOMAIN f THEN (t + f[j]) % Q ELSE t
    OBVIOUS
  <2>2. CASE j \in DOMAIN f
    <3>1. t + f[j] \in Int
      BY <1>1, <1>2, <2>2
    <3>2. QED
      BY <2>1, <2>2, <3>1, ModSame DEF Term
  <2>3. CASE j \notin DOMAIN f
    <3>1. t + 0 = t /\ t \in Int
      BY <1>1
    <3>2. QED
      BY <2>1, <2>3, <3>1, SameSelf DEF Term
  <2>4. QED
    BY <2>2, <2>3
<1> DEFINE acc[j \in 0 .. n] ==
             IF j = 0 THEN 0
             ELSE IF j \in DOMAIN f THEN (acc[j - 1] + f[j]) % Q
             ELSE acc[j - 1]
<1>4. SumOver(f) = acc[n]
  BY DEF SumOver
<1> HIDE DEF step, n
<1>5. PICK h : Loop(h, n, Scalars, 0, step)
  <2>1. \A j \in 1 .. n : \A t \in Scalars : step[j][t] \in Scalars
    BY <1>3
  <2>2. QED
    BY <1>1, <2>1, Iterate
<1>6. ASSUME NEW j \in 0 .. n
      PROVE  h[j] = IF j = 0 THEN 0
                    ELSE IF j \in DOMAIN f THEN (h[j - 1] + f[j]) % Q
                    ELSE h[j - 1]
  <2>1. j # 0 => j \in 1 .. n
    BY <1>1
  <2>2. QED
    BY <1>3, <1>5, <2>1 DEF Loop
<1>7. h = [j \in 0 .. n |-> IF j = 0 THEN 0
                            ELSE IF j \in DOMAIN f THEN (h[j - 1] + f[j]) % Q
                            ELSE h[j - 1]]
  <2>1. h = [j \in 0 .. n |-> h[j]]
    BY <1>5 DEF Loop
  <2>2. QED
    BY <1>6, <2>1
<1>8. acc = [j \in 0 .. n |-> IF j = 0 THEN 0
                              ELSE IF j \in DOMAIN f THEN (acc[j - 1] + f[j]) % Q
                              ELSE acc[j - 1]]
  BY <1>7, Zenon DEF acc
<1> HIDE DEF acc
<1>9. Loop(acc, n, Scalars, 0, step)
  <2>1. acc = [j \in 0 .. n |-> acc[j]] /\ acc[0] = 0
    BY <1>1, <1>8
  <2>2. ASSUME NEW j \in 1 .. n, acc[j - 1] \in Scalars
        PROVE  acc[j] = step[j][acc[j - 1]]
    <3>1. j \in 0 .. n /\ j # 0
      BY <1>1
    <3>2. QED
      BY <1>3, <1>8, <2>2, <3>1
  <2>3. \A j \in 1 .. n : \A t \in Scalars : step[j][t] \in Scalars
    BY <1>3
  <2>4. QED
    BY <1>1, <2>1, <2>2, <2>3, GoesOn
<1>10. Sums(acc, f)
  BY <1>3, <1>9 DEF Sums, Loop, Participants, n
<1>11. QED
  BY <1>4, <1>10 DEF n

LEMMA SumType == ASSUME NEW f \in Contributions PROVE SumOver(f) \in Scalars /\ SumOver(f) \in Int
<1>1. PICK acc : Sums(acc, f) /\ SumOver(f) = acc[NumParticipants]
  BY SumSteps
<1>2. NumParticipants \in 0 .. NumParticipants
  BY SharingAssumption
<1>3. SumOver(f) \in Scalars
  BY <1>1, <1>2 DEF Sums
<1>4. QED
  BY <1>3, OrderFacts DEF Scalars

\* A sum of combinations is the combination of the sums.
Combines(s, s1, s2, s3, a, b, c) == Same(s, a * s1 + b * s2 + c * s3)

LEMMA CombinedStep ==
  ASSUME NEW s \in Int, NEW s1 \in Int, NEW s2 \in Int, NEW s3 \in Int,
         NEW t \in Int, NEW t1 \in Int, NEW t2 \in Int, NEW t3 \in Int,
         NEW r \in Int, NEW r1 \in Int, NEW r2 \in Int, NEW r3 \in Int,
         NEW a \in Int, NEW b \in Int, NEW c \in Int,
         Combines(s, s1, s2, s3, a, b, c), Combines(t, t1, t2, t3, a, b, c),
         Same(r, s + t), Same(r1, s1 + t1), Same(r2, s2 + t2), Same(r3, s3 + t3)
  PROVE  Combines(r, r1, r2, r3, a, b, c)
<1>1. PICK k \in Int : s = a * s1 + b * s2 + c * s3 + k * Q
  BY DEF Same, SameModulo, Combines
<1>2. PICK l \in Int : t = a * t1 + b * t2 + c * t3 + l * Q
  BY DEF Same, SameModulo, Combines
<1>3. PICK m \in Int : r = s + t + m * Q
  BY DEF Same, SameModulo
<1>4. PICK m1 \in Int : r1 = s1 + t1 + m1 * Q
  BY DEF Same, SameModulo
<1>5. PICK m2 \in Int : r2 = s2 + t2 + m2 * Q
  BY DEF Same, SameModulo
<1>6. PICK m3 \in Int : r3 = s3 + t3 + m3 * Q
  BY DEF Same, SameModulo
<1>7. /\ a * r1 = a * s1 + a * t1 + (a * m1) * Q
      /\ b * r2 = b * s2 + b * t2 + (b * m2) * Q
      /\ c * r3 = c * s3 + c * t3 + (c * m3) * Q
  BY <1>4, <1>5, <1>6, OrderFacts
<1> DEFINE A1 == a * s1
           A2 == b * s2
           A3 == c * s3
           B1 == a * t1
           B2 == b * t2
           B3 == c * t3
           C1 == a * m1
           C2 == b * m2
           C3 == c * m3
           D1 == a * r1
           D2 == b * r2
           D3 == c * r3
<1>8. /\ A1 \in Int /\ A2 \in Int /\ A3 \in Int /\ B1 \in Int /\ B2 \in Int /\ B3 \in Int
      /\ C1 \in Int /\ C2 \in Int /\ C3 \in Int /\ D1 \in Int /\ D2 \in Int /\ D3 \in Int
  OBVIOUS
<1>9. /\ r = A1 + A2 + A3 + k * Q + (B1 + B2 + B3 + l * Q) + m * Q
      /\ D1 = A1 + B1 + C1 * Q /\ D2 = A2 + B2 + C2 * Q /\ D3 = A3 + B3 + C3 * Q
  BY <1>1, <1>2, <1>3, <1>7
<1> HIDE DEF A1, A2, A3, B1, B2, B3, C1, C2, C3, D1, D2, D3
<1>10. r = D1 + D2 + D3 + (k + l + m - C1 - C2 - C3) * Q
  BY <1>8, <1>9, OrderFacts
<1>11. k + l + m - C1 - C2 - C3 \in Int
  BY <1>8
<1>12. QED
  BY <1>10, <1>11 DEF Same, SameModulo, Combines, D1, D2, D3

LEMMA SumCombined ==
  ASSUME NEW f \in Contributions, NEW f1 \in Contributions, NEW f2 \in Contributions,
         NEW f3 \in Contributions, NEW a \in Int, NEW b \in Int, NEW c \in Int,
         \A j \in Participants :
           Same(Term(f, j), a * Term(f1, j) + b * Term(f2, j) + c * Term(f3, j))
  PROVE  Same(SumOver(f), a * SumOver(f1) + b * SumOver(f2) + c * SumOver(f3))
<1> DEFINE n == NumParticipants
<1>1. PICK s : Sums(s, f) /\ SumOver(f) = s[n]
  BY SumSteps
<1>2. PICK s1 : Sums(s1, f1) /\ SumOver(f1) = s1[n]
  BY SumSteps
<1>3. PICK s2 : Sums(s2, f2) /\ SumOver(f2) = s2[n]
  BY SumSteps
<1>4. PICK s3 : Sums(s3, f3) /\ SumOver(f3) = s3[n]
  BY SumSteps
<1>5. n \in Nat /\ n \in 0 .. n /\ \A t \in Scalars : t \in Int
  BY SharingAssumption, OrderFacts DEF Scalars
<1>6. \A j \in 0 .. n : s[j] \in Int /\ s1[j] \in Int /\ s2[j] \in Int /\ s3[j] \in Int
  BY <1>1, <1>2, <1>3, <1>4, <1>5 DEF Sums
<1> DEFINE Goal(j) == Combines(s[j], s1[j], s2[j], s3[j], a, b, c)
           S == {j \in Nat : j \in 0 .. n => Goal(j)}
<1>7. ASSUME NEW j \in Nat, \A l \in Nat : l < j => l \in S, j \in 0 .. n
      PROVE  Goal(j)
  <2>1. CASE j = 0
    <3>1. s[0] = 0 /\ s1[0] = 0 /\ s2[0] = 0 /\ s3[0] = 0
      BY <1>1, <1>2, <1>3, <1>4 DEF Sums
    <3>2. a * 0 + b * 0 + c * 0 = 0
      OBVIOUS
    <3>3. Same(0, 0)
      BY SameSelf
    <3>4. QED
      BY <2>1, <3>1, <3>2, <3>3 DEF Combines
  <2>2. CASE j # 0
    <3>1. j \in Participants /\ j - 1 \in 0 .. n /\ j - 1 \in Nat /\ j - 1 < j
      BY <1>5, <1>7, <2>2 DEF Participants
    <3>2. Goal(j - 1)
      BY <1>7, <3>1
    <3>3. /\ Same(s[j], s[j - 1] + Term(f, j)) /\ Same(s1[j], s1[j - 1] + Term(f1, j))
          /\ Same(s2[j], s2[j - 1] + Term(f2, j)) /\ Same(s3[j], s3[j - 1] + Term(f3, j))
      BY <1>1, <1>2, <1>3, <1>4, <3>1 DEF Sums
    <3>4. /\ s[j] \in Int /\ s1[j] \in Int /\ s2[j] \in Int /\ s3[j] \in Int
          /\ s[j - 1] \in Int /\ s1[j - 1] \in Int /\ s2[j - 1] \in Int /\ s3[j - 1] \in Int
      BY <1>6, <1>7, <3>1
    <3>5. Term(f, j) \in Int /\ Term(f1, j) \in Int /\ Term(f2, j) \in Int /\ Term(f3, j) \in Int
      BY TermType
    <3>6. Combines(Term(f, j), Term(f1, j), Term(f2, j), Term(f3, j), a, b, c)
      BY <3>1 DEF Combines
    <3> HIDE DEF n
    <3>7. QED
      BY <3>2, <3>3, <3>4, <3>5, <3>6, CombinedStep
  <2>3. QED
    BY <2>1, <2>2
<1>8. Goal(n)
  <2>1. \A j \in Nat : (\A l \in Nat : l < j => l \in S) => j \in S
    BY <1>7
  <2> HIDE DEF S
  <2>2. S \in SUBSET Nat
    BY DEF S
  <2>3. n \in S
    BY <1>5, <2>1, <2>2, Induction
  <2>4. QED
    BY <1>5, <2>3 DEF S
<1>9. QED
  BY <1>1, <1>2, <1>3, <1>4, <1>8 DEF Combines

\* A sum to which only one participant contributes.
LEMMA SumOfOne ==
  ASSUME NEW f \in Contributions, NEW a \in Participants,
         \A j \in Participants : j # a => Term(f, j) = 0
  PROVE  Same(SumOver(f), Term(f, a))
<1> DEFINE n == NumParticipants
           Upto(j) == IF j < a THEN 0 ELSE Term(f, a)
<1>1. PICK s : Sums(s, f) /\ SumOver(f) = s[n]
  BY SumSteps
<1>2. n \in Nat /\ n \in 0 .. n /\ a \in 1 .. n /\ \A t \in Scalars : t \in Int
  BY SharingAssumption, OrderFacts DEF Scalars, Participants
<1>3. (\A j \in 0 .. n : s[j] \in Int) /\ Term(f, a) \in Int
  BY <1>1, <1>2, TermType DEF Sums
<1> DEFINE S == {j \in Nat : j \in 0 .. n => Same(s[j], Upto(j))}
<1>4. ASSUME NEW j \in Nat, \A l \in Nat : l < j => l \in S, j \in 0 .. n
      PROVE  Same(s[j], Upto(j))
  <2>1. CASE j = 0
    <3>1. s[0] = 0 /\ Upto(0) = 0 /\ Same(0, 0)
      BY <1>1, <1>2, SameSelf DEF Sums
    <3>2. QED
      BY <2>1, <3>1
  <2>2. CASE j # 0
    <3>1. j \in Participants /\ j - 1 \in 0 .. n /\ j - 1 \in Nat /\ j - 1 < j
      BY <1>2, <1>4, <2>2 DEF Participants
    <3>2. Same(s[j - 1], Upto(j - 1)) /\ Same(s[j], s[j - 1] + Term(f, j))
      BY <1>1, <1>4, <3>1 DEF Sums
    <3>3. s[j] \in Int /\ s[j - 1] \in Int /\ Upto(j) \in Int /\ Upto(j - 1) \in Int
          /\ Term(f, j) \in Int
      BY <1>3, <1>4, <3>1, TermType
    <3>4. Upto(j) = Upto(j - 1) + Term(f, j)
      <4>1. CASE j < a
        BY <1>2, <3>1, <4>1 DEF Participants
      <4>2. CASE j = a
        BY <1>2, <1>3, <3>1, <4>2
      <4>3. CASE j > a
        BY <1>2, <1>3, <3>1, <4>3
      <4>4. QED
        BY <1>2, <3>1, <4>1, <4>2, <4>3
    <3> HIDE DEF Upto
    <3>5. Same(s[j - 1] + Term(f, j), Upto(j - 1) + Term(f, j))
      BY <3>2, <3>3, SamePlus, SameSelf
    <3>6. s[j - 1] + Term(f, j) \in Int /\ Upto(j - 1) + Term(f, j) \in Int
      BY <3>3
    <3>7. QED
      BY <3>2, <3>3, <3>4, <3>5, <3>6, SameChain
  <2>3. QED
    BY <2>1, <2>2
<1>5. Same(s[n], Upto(n))
  <2>1. \A j \in Nat : (\A l \in Nat : l < j => l \in S) => j \in S
    BY <1>4
  <2> HIDE DEF S
  <2>2. S \in SUBSET Nat
    BY DEF S
  <2>3. n \in S
    BY <1>2, <2>1, <2>2, Induction
  <2>4. QED
    BY <1>2, <2>3 DEF S
<1>6. Upto(n) = Term(f, a)
  BY <1>2
<1>7. QED
  BY <1>1, <1>5, <1>6

-----------------------------------------------------------------------------
(***************************************************************************)
(* Inverses, which exist since the order is prime.                         *)
(***************************************************************************)
LEMMA InverseExists ==
  ASSUME NEW x \in 1 .. (Q - 1)
  PROVE  \E y \in Scalars : (x * y) % Q = 1
BY OrderFacts, SharingAssumption, InverseModuloPrime DEF Scalars

\* The factor of the other participant's id i in a's coefficient.
LEMMA InverseOfDifference ==
  ASSUME NEW i \in Participants, NEW a \in Participants, i # a
  PROVE  /\ Inverted((a - i) % Q) \in Scalars
         /\ Same((a - i) * Inverted((a - i) % Q), 1)
<1> DEFINE x == (a - i) % Q
           y == Inverted(x)
<1>1. a \in Int /\ i \in Int /\ a - i \in Int /\ a - i # 0 /\ a - i < Q /\ - Q < a - i
  BY SharingAssumption DEF Participants
<1>2. x \in Scalars /\ Same(x, a - i)
  BY <1>1, ModSame
<1> HIDE DEF x
<1>3. x # 0
  <2> SUFFICES ASSUME x = 0 PROVE FALSE
    OBVIOUS
  <2>1. PICK k \in Int : 0 = (a - i) + k * Q
    BY <1>2 DEF Same, SameModulo
  <2>2. CASE k = 0
    BY <1>1, <2>1, <2>2, OrderFacts
  <2>3. CASE k >= 1
    <3>1. (k - 1) * Q >= 0 /\ k * Q = (k - 1) * Q + Q /\ (k - 1) * Q \in Int
      BY <2>3, OrderFacts
    <3>2. QED
      BY <1>1, <2>1, <3>1, OrderFacts
  <2>4. CASE k <= -1
    <3>1. (- k - 1) * Q >= 0 /\ k * Q = - ((- k - 1) * Q) - Q /\ (- k - 1) * Q \in Int
      BY <2>4, OrderFacts
    <3>2. QED
      BY <1>1, <2>1, <3>1, OrderFacts
  <2>5. QED
    BY <2>2, <2>3, <2>4
<1>4. x \in 1 .. (Q - 1)
  BY <1>2, <1>3, OrderFacts DEF Scalars
<1>5. y \in Scalars /\ (x * y) % Q = 1
  BY <1>4, InverseExists DEF Inverted
<1> HIDE DEF y
<1>6. x \in Int /\ y \in Int
  BY <1>2, <1>5, OrderFacts DEF Scalars
<1>7. Same(1, x * y)
  <2>1. x * y \in Int
    BY <1>6
  <2>2. Same((x * y) % Q, x * y)
    BY <2>1, ModSame
  <2>3. QED
    BY <1>5, <2>2
<1>8. Same((a - i) * y, x * y)
  <2>1. Same(a - i, x)
    BY <1>1, <1>2, <1>6, SameSwap
  <2>2. Same(y, y)
    BY <1>6, SameSelf
  <2>3. QED
    BY <1>1, <1>6, <2>1, <2>2, SameTimes
<1>9. Same((a - i) * y, 1)
  <2>1. x * y \in Int /\ (a - i) * y \in Int
    BY <1>1, <1>6
  <2>2. Same(x * y, 1)
    BY <1>7, <2>1, SameSwap
  <2>3. QED
    BY <1>8, <2>1, <2>2, SameChain
<1>10. QED
  BY <1>5, <1>9 DEF x, y

-----------------------------------------------------------------------------
(***************************************************************************)
(* Lagrange coefficients.                                                  *)
(***************************************************************************)
Factor(id, ids, j) == IF j \in ids \ {id} THEN j * Inverted((j - id) % Q) ELSE 1

\* acc[j] is the product over the ids up to j.
Products(acc, id, ids) ==
  /\ acc \in [0 .. NumParticipants -> Scalars] /\ acc[0] = 1
  /\ \A j \in Participants : Same(acc[j], acc[j - 1] * Factor(id, ids, j))

LEMMA FactorType ==
  ASSUME NEW id \in Participants, NEW ids, NEW j \in Participants
  PROVE  Factor(id, ids, j) \in Int
<1>1. CASE j \in ids \ {id}
  <2>1. Inverted((j - id) % Q) \in Scalars
    BY <1>1, InverseOfDifference
  <2>2. Inverted((j - id) % Q) \in Int /\ j \in Int
    BY <2>1, OrderFacts DEF Scalars, Participants
  <2>3. QED
    BY <1>1, <2>2 DEF Factor
<1>2. CASE j \notin ids \ {id}
  BY <1>2 DEF Factor
<1>3. QED
  BY <1>1, <1>2

LEMMA LagrangeSteps ==
  ASSUME NEW id \in Participants, NEW ids
  PROVE  \E acc : Products(acc, id, ids) /\ LagrangeAtZero(id, ids) = acc[NumParticipants]
<1> DEFINE n == NumParticipants
           step == [j \in 1 .. n |-> [t \in Scalars |->
                      IF j \in ids \ {id} THEN (t * j * Inverted((j - id) % Q)) % Q ELSE t]]
<1>1. n \in Nat /\ 1 \in Scalars /\ \A t \in Scalars : t \in Int
  BY SharingAssumption, OrderFacts DEF Scalars
<1>2. ASSUME NEW j \in 1 .. n, j \in ids \ {id}
      PROVE  Inverted((j - id) % Q) \in Int
  <2>1. j \in Participants /\ j # id
    BY <1>2 DEF Participants
  <2>2. QED
    BY <1>1, <2>1, InverseOfDifference
<1>3. ASSUME NEW j \in 1 .. n, NEW t \in Scalars
      PROVE  /\ step[j][t] \in Scalars /\ Same(step[j][t], t * Factor(id, ids, j))
             /\ step[j][t] = IF j \in ids \ {id} THEN (t * j * Inverted((j - id) % Q)) % Q ELSE t
  <2>1. step[j][t] = IF j \in ids \ {id} THEN (t * j * Inverted((j - id) % Q)) % Q ELSE t
    OBVIOUS
  <2>2. CASE j \in ids \ {id}
    <3> DEFINE y == Inverted((j - id) % Q)
    <3>1. y \in Int /\ t \in Int /\ j \in Int
      BY <1>1, <1>2, <2>2
    <3>2. step[j][t] = (t * j * y) % Q /\ Factor(id, ids, j) = j * y
      BY <2>1, <2>2 DEF Factor
    <3> HIDE DEF y
    <3>3. t * j * y \in Int /\ t * j * y = t * (j * y)
      BY <3>1
    <3>4. (t * j * y) % Q \in Scalars /\ Same((t * j * y) % Q, t * j * y)
      BY <3>3, ModSame
    <3>5. step[j][t] \in Scalars /\ Same(step[j][t], t * Factor(id, ids, j))
      BY <3>2, <3>3, <3>4
    <3>6. QED
      BY <2>1, <3>5
  <2>3. CASE j \notin ids \ {id}
    <3>1. t * 1 = t /\ t \in Int
      BY <1>1
    <3>2. QED
      BY <2>1, <2>3, <3>1, SameSelf DEF Factor
  <2>4. QED
    BY <2>2, <2>3
<1> DEFINE acc[j \in 0 .. n] ==
             IF j = 0 THEN 1
             ELSE IF j \in ids \ {id} THEN (acc[j - 1] * j * Inverted((j - id) % Q)) % Q
             ELSE acc[j - 1]
<1>4. LagrangeAtZero(id, ids) = acc[n]
  BY DEF LagrangeAtZero
<1> HIDE DEF step, n
<1>5. PICK h : Loop(h, n, Scalars, 1, step)
  <2>1. \A j \in 1 .. n : \A t \in Scalars : step[j][t] \in Scalars
    BY <1>3
  <2>2. QED
    BY <1>1, <2>1, Iterate
<1>6. ASSUME NEW j \in 0 .. n
      PROVE  h[j] = IF j = 0 THEN 1
                    ELSE IF j \in ids \ {id} THEN (h[j - 1] * j * Inverted((j - id) % Q)) % Q
                    ELSE h[j - 1]
  <2>1. j # 0 => j \in 1 .. n
    BY <1>1
  <2>2. QED
    BY <1>3, <1>5, <2>1 DEF Loop
<1>7. h = [j \in 0 .. n |->
             IF j = 0 THEN 1
             ELSE IF j \in ids \ {id} THEN (h[j - 1] * j * Inverted((j - id) % Q)) % Q
             ELSE h[j - 1]]
  <2>1. h = [j \in 0 .. n |-> h[j]]
    BY <1>5 DEF Loop
  <2>2. QED
    BY <1>6, <2>1
<1>8. acc = [j \in 0 .. n |->
               IF j = 0 THEN 1
               ELSE IF j \in ids \ {id} THEN (acc[j - 1] * j * Inverted((j - id) % Q)) % Q
               ELSE acc[j - 1]]
  BY <1>7, Zenon DEF acc
<1> HIDE DEF acc
<1>9. Loop(acc, n, Scalars, 1, step)
  <2>1. acc = [j \in 0 .. n |-> acc[j]] /\ acc[0] = 1
    BY <1>1, <1>8
  <2>2. ASSUME NEW j \in 1 .. n, acc[j - 1] \in Scalars
        PROVE  acc[j] = step[j][acc[j - 1]]
    <3>1. j \in 0 .. n /\ j # 0
      BY <1>1
    <3>2. QED
      BY <1>3, <1>8, <2>2, <3>1
  <2>3. \A j \in 1 .. n : \A t \in Scalars : step[j][t] \in Scalars
    BY <1>3
  <2>4. QED
    BY <1>1, <2>1, <2>2, <2>3, GoesOn
<1>10. Products(acc, id, ids)
  BY <1>3, <1>9 DEF Products, Loop, Participants, n
<1>11. QED
  BY <1>4, <1>10 DEF n

LEMMA LagrangeType ==
  ASSUME NEW id \in Participants, NEW ids
  PROVE  LagrangeAtZero(id, ids) \in Scalars /\ LagrangeAtZero(id, ids) \in Int
<1>1. PICK acc : Products(acc, id, ids) /\ LagrangeAtZero(id, ids) = acc[NumParticipants]
  BY LagrangeSteps
<1>2. NumParticipants \in 0 .. NumParticipants
  BY SharingAssumption
<1>3. LagrangeAtZero(id, ids) \in Scalars
  BY <1>1, <1>2 DEF Products
<1>4. QED
  BY <1>3, OrderFacts DEF Scalars

\* One participant alone has coefficient 1.
LEMMA LagrangeAlone ==
  ASSUME NEW a \in Participants
  PROVE  Same(LagrangeAtZero(a, {a}), 1)
<1> DEFINE n == NumParticipants
<1>1. PICK acc : Products(acc, a, {a}) /\ LagrangeAtZero(a, {a}) = acc[n]
  BY LagrangeSteps
<1>2. n \in Nat /\ n \in 0 .. n /\ \A t \in Scalars : t \in Int
  BY SharingAssumption, OrderFacts DEF Scalars
<1>3. \A j \in 0 .. n : acc[j] \in Int
  BY <1>1, <1>2 DEF Products
<1> DEFINE S == {j \in Nat : j \in 0 .. n => Same(acc[j], 1)}
<1>4. ASSUME NEW j \in Nat, \A l \in Nat : l < j => l \in S, j \in 0 .. n
      PROVE  Same(acc[j], 1)
  <2>1. CASE j = 0
    BY <1>1, <2>1, SameSelf DEF Products
  <2>2. CASE j # 0
    <3>1. j \in Participants /\ j - 1 \in 0 .. n /\ j - 1 \in Nat /\ j - 1 < j
      BY <1>2, <1>4, <2>2 DEF Participants
    <3>2. Same(acc[j - 1], 1) /\ Same(acc[j], acc[j - 1] * Factor(a, {a}, j))
      BY <1>1, <1>4, <3>1 DEF Products
    <3>3. Factor(a, {a}, j) = 1
      BY DEF Factor
    <3>4. acc[j] \in Int /\ acc[j - 1] \in Int /\ acc[j - 1] * 1 = acc[j - 1]
      BY <1>3, <1>4, <3>1
    <3>5. QED
      BY <3>2, <3>3, <3>4, SameChain
  <2>3. QED
    BY <2>1, <2>2
<1>5. Same(acc[n], 1)
  <2>1. \A j \in Nat : (\A l \in Nat : l < j => l \in S) => j \in S
    BY <1>4
  <2> HIDE DEF S
  <2>2. S \in SUBSET Nat
    BY DEF S
  <2>3. n \in S
    BY <1>2, <2>1, <2>2, Induction
  <2>4. QED
    BY <1>2, <2>3 DEF S
<1>6. QED
  BY <1>1, <1>5

\* Another participant's coefficient with a and without.
LEMMA LagrangeWithout ==
  ASSUME NEW ids, NEW a \in Participants, a \in ids, NEW i \in Participants, i # a
  PROVE  Same(LagrangeAtZero(i, ids) * (a - i), a * LagrangeAtZero(i, ids \ {a}))
<1> DEFINE n == NumParticipants
           D == a - i
<1>1. PICK p : Products(p, i, ids) /\ LagrangeAtZero(i, ids) = p[n]
  BY LagrangeSteps
<1>2. PICK q : Products(q, i, ids \ {a}) /\ LagrangeAtZero(i, ids \ {a}) = q[n]
  BY LagrangeSteps
<1>3. n \in Nat /\ n \in 0 .. n /\ a \in 1 .. n /\ i \in 1 .. n /\ D \in Int
      /\ \A t \in Scalars : t \in Int
  BY SharingAssumption, OrderFacts DEF Scalars, Participants
<1>4. \A j \in 0 .. n : p[j] \in Int /\ q[j] \in Int
  BY <1>1, <1>2, <1>3 DEF Products
<1> DEFINE Goal(j) == IF j < a THEN Same(p[j], q[j]) ELSE Same(p[j] * D, a * q[j])
           S == {j \in Nat : j \in 0 .. n => Goal(j)}
<1>5. ASSUME NEW j \in Nat, \A l \in Nat : l < j => l \in S, j \in 0 .. n
      PROVE  Goal(j)
  <2>1. CASE j = 0
    <3>1. p[0] = 1 /\ q[0] = 1 /\ 0 < a
      BY <1>1, <1>2, <1>3 DEF Products
    <3>2. QED
      BY <2>1, <3>1, SameSelf
  <2>2. CASE j # 0
    <3>1. j \in Participants /\ j - 1 \in 0 .. n /\ j - 1 \in Nat /\ j - 1 < j
      BY <1>3, <1>5, <2>2 DEF Participants
    <3>2. Goal(j - 1)
      BY <1>5, <3>1
    <3>3. /\ Same(p[j], p[j - 1] * Factor(i, ids, j))
          /\ Same(q[j], q[j - 1] * Factor(i, ids \ {a}, j))
      BY <1>1, <1>2, <3>1 DEF Products
    <3> DEFINE f == Factor(i, ids, j)
               h == Factor(i, ids \ {a}, j)
               p0 == p[j - 1]
               q0 == q[j - 1]
    <3>4. /\ p[j] \in Int /\ q[j] \in Int /\ p0 \in Int /\ q0 \in Int /\ f \in Int /\ h \in Int
      BY <1>4, <1>5, <3>1, FactorType
    <3>5. PICK k \in Int : p[j] = p0 * f + k * Q
      BY <3>3 DEF Same, SameModulo
    <3>6. PICK l \in Int : q[j] = q0 * h + l * Q
      BY <3>3 DEF Same, SameModulo
    <3>7. CASE j < a
      <4>1. f = h
        BY <1>3, <3>1, <3>7 DEF Factor
      <4>2. PICK m \in Int : p0 = q0 + m * Q
        BY <1>3, <3>1, <3>2, <3>7 DEF Same, SameModulo
      <4> HIDE DEF p0, q0, f, h
      <4>3. p0 * f = q0 * f + (m * f) * Q
        BY <3>4, <4>2, OrderFacts
      <4>4. p[j] = q[j] + (m * f + k - l) * Q
        <5>1. (m * f + k - l) * Q = (m * f) * Q + k * Q - l * Q
          BY <3>4, OrderFacts
        <5>2. p0 * f \in Int /\ q0 * f \in Int /\ (m * f) * Q \in Int /\ k * Q \in Int /\ l * Q \in Int
          BY <3>4, OrderFacts
        <5>3. QED
          BY <3>4, <3>5, <3>6, <4>1, <4>3, <5>1, <5>2
      <4>5. m * f + k - l \in Int
        BY <3>4
      <4>6. Same(p[j], q[j])
        BY <4>4, <4>5 DEF Same, SameModulo
      <4>7. QED
        BY <3>7, <4>6
    <3>8. CASE j = a
      <4> DEFINE y == Inverted((j - i) % Q)
      <4>1. f = a * y /\ h = 1
        BY <3>8 DEF Factor
      <4>2. y \in Int /\ Same(D * y, 1)
        BY <1>3, <3>8, InverseOfDifference
      <4>3. PICK m \in Int : p0 = q0 + m * Q
        BY <1>3, <3>1, <3>2, <3>8 DEF Same, SameModulo
      <4>4. PICK w \in Int : D * y = 1 + w * Q
        BY <4>2 DEF Same, SameModulo
      <4>5. a \in Int
        BY <1>3
      <4> HIDE DEF p0, q0, f, h, y, D
      <4>6. p[j] * D = (a * p0) * (D * y) + (k * D) * Q
        <5>1. p[j] * D = (p0 * (a * y)) * D + (k * Q) * D
          BY <1>3, <3>4, <3>5, <4>1, <4>2, <4>5, OrderFacts
        <5>2. (p0 * (a * y)) * D = (a * p0) * (D * y)
          BY <1>3, <3>4, <4>2, <4>5
        <5>3. (k * Q) * D = (k * D) * Q
          BY <1>3, OrderFacts
        <5>4. QED
          BY <5>1, <5>2, <5>3
      <4>7. (a * p0) * (D * y) = a * p0 + (a * p0 * w) * Q
        BY <3>4, <4>4, <4>5, OrderFacts
      <4>8. a * p0 = a * q0 + (a * m) * Q
        BY <3>4, <4>3, <4>5, OrderFacts
      <4>9. a * q[j] = a * q0 + (a * l) * Q
        BY <3>4, <3>6, <4>1, <4>5, OrderFacts
      <4>10. p[j] * D = a * q[j] + (a * p0 * w + a * m + k * D - a * l) * Q
        <5> DEFINE A == a * p0 * w
                   B == a * m
                   C == k * D
                   E == a * l
        <5>1. A \in Int /\ B \in Int /\ C \in Int /\ E \in Int /\ a * q0 \in Int /\ a * p0 \in Int
              /\ a * q[j] \in Int
          BY <1>3, <3>4, <4>5
        <5> HIDE DEF A, B, C, E
        <5>2. (A + B + C - E) * Q = A * Q + B * Q + C * Q - E * Q
          BY <5>1, OrderFacts
        <5>3. A * Q \in Int /\ B * Q \in Int /\ C * Q \in Int /\ E * Q \in Int
          BY <5>1, OrderFacts
        <5>4. /\ p[j] * D = a * p0 + A * Q + C * Q /\ a * p0 = a * q0 + B * Q
              /\ a * q[j] = a * q0 + E * Q
          BY <4>6, <4>7, <4>8, <4>9 DEF A, B, C, E
        <5>5. p[j] * D = a * q[j] + (A + B + C - E) * Q
          BY <5>1, <5>2, <5>3, <5>4
        <5>6. QED
          BY <5>5 DEF A, B, C, E
      <4>11. a * p0 * w + a * m + k * D - a * l \in Int
        BY <1>3, <3>4, <4>5
      <4>12. Same(p[j] * D, a * q[j])
        BY <4>10, <4>11 DEF Same, SameModulo
      <4>13. QED
        BY <1>3, <3>8, <4>12 DEF D
    <3>9. CASE j > a
      <4>1. f = h
        BY <1>3, <3>1, <3>9 DEF Factor
      <4>2. PICK m \in Int : p0 * D = a * q0 + m * Q
        BY <1>3, <3>1, <3>2, <3>9 DEF Same, SameModulo
      <4>3. a \in Int
        BY <1>3
      <4> HIDE DEF p0, q0, f, h, D
      <4>4. p[j] * D = (p0 * D) * f + (k * D) * Q
        BY <1>3, <3>4, <3>5, OrderFacts
      <4>5. (p0 * D) * f = a * (q0 * f) + (m * f) * Q
        BY <3>4, <4>2, <4>3, OrderFacts
      <4>6. a * q[j] = a * (q0 * f) + (a * l) * Q
        BY <3>4, <3>6, <4>1, <4>3, OrderFacts
      <4>7. p[j] * D = a * q[j] + (k * D + m * f - a * l) * Q
        <5> DEFINE A == k * D
                   B == m * f
                   C == a * l
                   E == a * (q0 * f)
        <5>1. A \in Int /\ B \in Int /\ C \in Int /\ E \in Int /\ p[j] * D \in Int
              /\ a * q[j] \in Int
          BY <1>3, <3>4, <4>3
        <5>2. p[j] * D = E + B * Q + A * Q /\ a * q[j] = E + C * Q
          BY <4>4, <4>5, <4>6
        <5> HIDE DEF A, B, C, E
        <5>3. (A + B - C) * Q = A * Q + B * Q - C * Q
              /\ A * Q \in Int /\ B * Q \in Int /\ C * Q \in Int
          BY <5>1, OrderFacts
        <5>4. p[j] * D = a * q[j] + (A + B - C) * Q
          BY <5>1, <5>2, <5>3
        <5>5. QED
          BY <5>4 DEF A, B, C
      <4>8. k * D + m * f - a * l \in Int
        BY <1>3, <3>4, <4>3
      <4>9. Same(p[j] * D, a * q[j])
        BY <4>7, <4>8 DEF Same, SameModulo
      <4>10. ~(j < a)
        BY <1>3, <3>1, <3>9
      <4>11. QED
        BY <4>9, <4>10 DEF D
    <3>10. QED
      BY <1>3, <3>1, <3>7, <3>8, <3>9
  <2>3. QED
    BY <2>1, <2>2
<1>6. Goal(n)
  <2>1. \A j \in Nat : (\A l \in Nat : l < j => l \in S) => j \in S
    BY <1>5
  <2> HIDE DEF S
  <2>2. S \in SUBSET Nat
    BY DEF S
  <2>3. n \in S
    BY <1>3, <2>1, <2>2, Induction
  <2>4. QED
    BY <1>3, <2>3 DEF S
<1>7. ~(n < a)
  BY <1>3
<1>8. QED
  BY <1>1, <1>2, <1>6, <1>7

-----------------------------------------------------------------------------
(***************************************************************************)
(* Interpolation: what the weighted values of a polynomial add up to.  The *)
(* weights of a set and those of the set without one participant differ by *)
(* a factor, so sums over a set come from sums over smaller ones.          *)
(***************************************************************************)
Weighed(ids, g) == [i \in ids |-> LagrangeAtZero(i, ids) * g[i]]
AtZero(ids, g) == SumOver(Weighed(ids, g))

Values == [Participants -> Int]

LEMMA AtZeroTerms ==
  ASSUME NEW ids \in SUBSET Participants, NEW g \in Values
  PROVE  /\ Weighed(ids, g) \in Contributions
         /\ \A j \in Participants : Term(Weighed(ids, g), j) =
              IF j \in ids THEN LagrangeAtZero(j, ids) * g[j] ELSE 0
<1>1. \A i \in ids : LagrangeAtZero(i, ids) * g[i] \in Int
  <2> SUFFICES ASSUME NEW i \in ids PROVE LagrangeAtZero(i, ids) * g[i] \in Int
    OBVIOUS
  <2>1. LagrangeAtZero(i, ids) \in Int /\ g[i] \in Int
    BY LagrangeType DEF Values
  <2>2. QED
    BY <2>1
<1>2. Weighed(ids, g) \in [ids -> Int]
  BY <1>1 DEF Weighed
<1>3. QED
  BY <1>2 DEF Contributions, Term, Weighed

LEMMA AtZeroType ==
  ASSUME NEW ids \in SUBSET Participants, NEW g \in Values
  PROVE  AtZero(ids, g) \in Scalars /\ AtZero(ids, g) \in Int
BY AtZeroTerms, SumType DEF AtZero

\* Weighing is linear.
LEMMA CombinedTerm ==
  ASSUME NEW l \in Int, NEW g \in Int, NEW g1 \in Int, NEW g2 \in Int, NEW g3 \in Int,
         NEW a \in Int, NEW b \in Int, NEW c \in Int, Combines(g, g1, g2, g3, a, b, c)
  PROVE  Combines(l * g, l * g1, l * g2, l * g3, a, b, c)
<1>1. PICK k \in Int : g = a * g1 + b * g2 + c * g3 + k * Q
  BY DEF Combines, Same, SameModulo
<1> DEFINE A1 == a * g1
           A2 == b * g2
           A3 == c * g3
           K == k * Q
<1>2. A1 \in Int /\ A2 \in Int /\ A3 \in Int /\ K \in Int /\ g = A1 + A2 + A3 + K
  BY <1>1, OrderFacts
<1>3. /\ l * A1 = a * (l * g1) /\ l * A2 = b * (l * g2) /\ l * A3 = c * (l * g3)
      /\ l * K = (l * k) * Q
  BY OrderFacts
<1> HIDE DEF A1, A2, A3, K
<1>4. l * g = l * A1 + l * A2 + l * A3 + l * K
  BY <1>2
<1>5. l * g = a * (l * g1) + b * (l * g2) + c * (l * g3) + (l * k) * Q /\ l * k \in Int
  BY <1>3, <1>4
<1>6. QED
  BY <1>5 DEF Combines, Same, SameModulo

LEMMA AtZeroCombined ==
  ASSUME NEW ids \in SUBSET Participants, NEW g \in Values, NEW g1 \in Values, NEW g2 \in Values,
         NEW g3 \in Values, NEW a \in Int, NEW b \in Int, NEW c \in Int,
         \A i \in ids : Combines(g[i], g1[i], g2[i], g3[i], a, b, c)
  PROVE  Combines(AtZero(ids, g), AtZero(ids, g1), AtZero(ids, g2), AtZero(ids, g3), a, b, c)
<1> DEFINE F(v) == Weighed(ids, v)
<1>1. /\ F(g) \in Contributions /\ F(g1) \in Contributions
      /\ F(g2) \in Contributions /\ F(g3) \in Contributions
  BY AtZeroTerms
<1>2. ASSUME NEW v \in Values, NEW j \in Participants
      PROVE  Term(F(v), j) = IF j \in ids THEN LagrangeAtZero(j, ids) * v[j] ELSE 0
  BY AtZeroTerms
<1>3. ASSUME NEW j \in Participants
      PROVE  Combines(Term(F(g), j), Term(F(g1), j), Term(F(g2), j), Term(F(g3), j), a, b, c)
  <2>1. CASE j \in ids
    <3>1. /\ g[j] \in Int /\ g1[j] \in Int /\ g2[j] \in Int /\ g3[j] \in Int
          /\ LagrangeAtZero(j, ids) \in Int
      BY LagrangeType DEF Values
    <3>2. Combines(g[j], g1[j], g2[j], g3[j], a, b, c)
      BY <2>1
    <3>3. LET l == LagrangeAtZero(j, ids) IN Combines(l * g[j], l * g1[j], l * g2[j], l * g3[j], a, b, c)
      BY <3>1, <3>2, CombinedTerm
    <3> HIDE DEF F
    <3>4. QED
      BY <1>2, <2>1, <3>3
  <2>2. CASE j \notin ids
    <3> HIDE DEF F
    <3>1. Term(F(g), j) = 0 /\ Term(F(g1), j) = 0 /\ Term(F(g2), j) = 0 /\ Term(F(g3), j) = 0
      BY <1>2, <2>2
    <3>2. a * 0 + b * 0 + c * 0 = 0 /\ Same(0, 0)
      BY SameSelf
    <3>3. QED
      BY <3>1, <3>2 DEF Combines
  <2>3. QED
    BY <2>1, <2>2
<1> HIDE DEF F
<1>4. Combines(SumOver(F(g)), SumOver(F(g1)), SumOver(F(g2)), SumOver(F(g3)), a, b, c)
  BY <1>1, <1>3, SumCombined DEF Combines
<1>5. QED
  BY <1>4 DEF F, AtZero

\* Weighed by the distance from one participant, its own value does not count.
Away(a, g) == [i \in Participants |-> (a - i) * g[i]]

LEMMA AwayType ==
  ASSUME NEW a \in Participants, NEW g \in Values PROVE Away(a, g) \in Values
<1>1. \A i \in Participants : i \in Int /\ a \in Int /\ g[i] \in Int
  BY SharingAssumption DEF Participants, Values
<1>2. \A i \in Participants : (a - i) * g[i] \in Int
  BY <1>1
<1>3. QED
  BY <1>2 DEF Away, Values

LEMMA AtZeroAway ==
  ASSUME NEW ids \in SUBSET Participants, NEW a \in ids, NEW g \in Values
  PROVE  Same(AtZero(ids, Away(a, g)), a * AtZero(ids \ {a}, g))
<1> DEFINE others == ids \ {a}
           f == Weighed(ids, Away(a, g))
           f1 == Weighed(others, g)
           zero == 0
<1>1. a \in Participants /\ a \in Int /\ Away(a, g) \in Values /\ others \in SUBSET Participants
  BY AwayType, SharingAssumption DEF Participants
<1>2. /\ f \in Contributions /\ f1 \in Contributions
      /\ \A j \in Participants :
           Term(f, j) = IF j \in ids THEN LagrangeAtZero(j, ids) * Away(a, g)[j] ELSE 0
      /\ \A j \in Participants :
           Term(f1, j) = IF j \in others THEN LagrangeAtZero(j, others) * g[j] ELSE 0
  <2> HIDE DEF others
  <2> QED BY <1>1, AtZeroTerms
<1> HIDE DEF f, f1
<1>3. ASSUME NEW j \in Participants
      PROVE  Same(Term(f, j), a * Term(f1, j) + zero * Term(f1, j) + zero * Term(f1, j))
  <2>1. /\ g[j] \in Int /\ j \in Int /\ Term(f1, j) \in Int
        /\ LagrangeAtZero(j, ids) \in Int /\ LagrangeAtZero(j, others) \in Int
    BY <1>2, LagrangeType, TermType, SharingAssumption DEF Values, Participants
  <2>2. a * Term(f1, j) + 0 * Term(f1, j) + 0 * Term(f1, j) = a * Term(f1, j)
    BY <1>1, <2>1
  <2>3. CASE j \in ids /\ j # a
    <3> DEFINE l == LagrangeAtZero(j, ids)
               l1 == LagrangeAtZero(j, others)
    <3>1. Same(l * (a - j), a * l1)
      BY <1>1, <2>3, LagrangeWithout
    <3>2. Term(f, j) = l * ((a - j) * g[j]) /\ Term(f1, j) = l1 * g[j]
      BY <1>2, <2>3 DEF Away
    <3> HIDE DEF l, l1
    <3>3. l \in Int /\ l1 \in Int
      BY <2>1 DEF l, l1
    <3>4. Same((l * (a - j)) * g[j], (a * l1) * g[j])
      <4>1. l * (a - j) \in Int /\ a * l1 \in Int
        BY <1>1, <2>1, <3>3
      <4>2. Same(g[j], g[j])
        BY <2>1, SameSelf
      <4>3. QED
        BY <2>1, <3>1, <4>1, <4>2, SameTimes
    <3>5. (l * (a - j)) * g[j] = l * ((a - j) * g[j]) /\ (a * l1) * g[j] = a * (l1 * g[j])
      BY <1>1, <2>1, <3>3
    <3>6. QED
      BY <2>2, <3>2, <3>4, <3>5
  <2>4. CASE ~(j \in ids /\ j # a)
    <3>1. Term(f1, j) = 0
      BY <1>2, <2>4
    <3>2. Term(f, j) = 0
      <4>1. CASE j = a
        <5>1. Away(a, g)[j] = 0
          BY <1>1, <2>1, <4>1 DEF Away
        <5>2. Term(f, j) = LagrangeAtZero(j, ids) * 0
          BY <1>2, <4>1, <5>1
        <5>3. QED
          BY <2>1, <5>2
      <4>2. CASE j \notin ids
        BY <1>2, <4>2
      <4>3. QED
        BY <2>4, <4>1, <4>2
    <3>3. a * 0 = 0 /\ Same(0, 0)
      BY <1>1, SameSelf
    <3>4. QED
      BY <2>2, <3>1, <3>2, <3>3
  <2>5. QED
    BY <2>3, <2>4
<1>4. Same(SumOver(f), a * SumOver(f1) + zero * SumOver(f1) + zero * SumOver(f1))
  <2>1. zero \in Int
    OBVIOUS
  <2> HIDE DEF zero
  <2>2. QED
    BY <1>1, <1>2, <1>3, <2>1, SumCombined
<1>5. a * SumOver(f1) + zero * SumOver(f1) + zero * SumOver(f1) = a * SumOver(f1)
  BY <1>1, <1>2, SumType
<1>6. QED
  BY <1>4, <1>5 DEF f, f1, others, AtZero

LEMMA ParticipantSets ==
  ASSUME NEW ids \in SUBSET Participants
  PROVE  /\ IsFiniteSet(ids) /\ Cardinality(ids) \in Nat
         /\ \A a \in ids : /\ Cardinality(ids \ {a}) = Cardinality(ids) - 1
                           /\ ids \ {a} \in SUBSET Participants
         /\ Cardinality(ids) # 0 => \E a : a \in ids
<1>1. IsFiniteSet(Participants)
  BY FS_Interval, SharingAssumption DEF Participants
<1>2. IsFiniteSet(ids)
  BY <1>1, FS_Subset
<1>3. Cardinality(ids) \in Nat
  BY <1>2, FS_CardinalityType
<1>4. \A a \in ids : Cardinality(ids \ {a}) = Cardinality(ids) - 1
  BY <1>2, FS_RemoveElement
<1>5. Cardinality(ids) # 0 => ids # {}
  BY FS_EmptySet
<1>6. QED
  BY <1>2, <1>3, <1>4, <1>5

One == [i \in Participants |-> 1]
Zero == [i \in Participants |-> 0]

LEMMA OneType == One \in Values /\ Zero \in Values
  BY DEF One, Zero, Values

LEMMA ZeroAtZero ==
  ASSUME NEW ids \in SUBSET Participants, NEW g \in Values, \A i \in ids : g[i] = 0
  PROVE  Same(AtZero(ids, g), 0)
<1> DEFINE z == 0
<1>1. \A i \in ids : Combines(g[i], g[i], g[i], g[i], z, z, z)
  <2>1. z * 0 + z * 0 + z * 0 = 0 /\ Same(0, 0)
    BY SameSelf
  <2>2. QED
    BY <2>1 DEF Combines
<1>2. z \in Int
  OBVIOUS
<1>3. AtZero(ids, g) \in Int /\ z * AtZero(ids, g) = 0
  BY AtZeroType
<1> HIDE DEF z
<1>4. Combines(AtZero(ids, g), AtZero(ids, g), AtZero(ids, g), AtZero(ids, g), z, z, z)
  BY <1>1, <1>2, AtZeroCombined
<1>5. QED
  BY <1>3, <1>4 DEF Combines

\* a * M = a - b * 1 + ...: what remains when the difference has an inverse.
LEMMA Cancelled ==
  ASSUME NEW d \in Int, NEW y \in Int, NEW m \in Int, Same(d * y, 1), Same(d * m, d)
  PROVE  Same(m, 1)
<1>1. PICK k \in Int : d * y = 1 + k * Q
  BY DEF Same, SameModulo
<1>2. PICK l \in Int : d * m = d + l * Q
  BY DEF Same, SameModulo
<1>3. (d * y) * m = y * (d * m)
  OBVIOUS
<1>4. (1 + k * Q) * m = y * (d + l * Q)
  BY <1>1, <1>2, <1>3
<1>5. (1 + k * Q) * m = m + (k * m) * Q /\ y * (d + l * Q) = d * y + (y * l) * Q
  BY OrderFacts
<1> DEFINE K == k * m
           L == y * l
<1>6. K \in Int /\ L \in Int /\ m + K * Q = 1 + k * Q + L * Q
  BY <1>1, <1>4, <1>5
<1> HIDE DEF K, L
<1>7. m = 1 + (k + L - K) * Q /\ k + L - K \in Int
  BY <1>6, OrderFacts
<1>8. QED
  BY <1>7 DEF Same, SameModulo

\* The weights of a set of participants add up to 1.
LEMMA WeightsOfOne ==
  ASSUME NEW ids \in SUBSET Participants, Cardinality(ids) # 0
  PROVE  Same(AtZero(ids, One), 1)
<1> DEFINE S == {n \in Nat : \A js \in SUBSET Participants :
                   Cardinality(js) = n /\ n # 0 => Same(AtZero(js, One), 1)}
<1>1. ASSUME NEW n \in Nat, \A m \in Nat : m < n => m \in S, NEW js \in SUBSET Participants,
             Cardinality(js) = n, n # 0
      PROVE  Same(AtZero(js, One), 1)
  <2>1. PICK a : a \in js
    BY <1>1, ParticipantSets
  <2>2. AtZero(js, One) \in Int /\ \A b \in js : AtZero(js \ {b}, One) \in Int
    BY AtZeroType, OneType
  <2>3. CASE js = {a}
    <3>1. a \in Participants /\ LagrangeAtZero(a, js) \in Int
      BY <2>1, LagrangeType
    <3>2. LagrangeAtZero(a, js) * 1 = LagrangeAtZero(a, js)
      BY <3>1
    <3>3. /\ Weighed(js, One) \in Contributions
          /\ \A j \in Participants : Term(Weighed(js, One), j) =
               IF j \in js THEN LagrangeAtZero(j, js) * 1 ELSE 0
      BY AtZeroTerms, OneType DEF One
    <3>4. Same(AtZero(js, One), LagrangeAtZero(a, js))
      <4>1. \A j \in Participants : j # a => Term(Weighed(js, One), j) = 0
        BY <2>3, <3>3
      <4>2. Term(Weighed(js, One), a) = LagrangeAtZero(a, js)
        BY <2>1, <3>1, <3>2, <3>3
      <4>3. QED
        BY <3>1, <3>3, <4>1, <4>2, SumOfOne DEF AtZero
    <3>5. Same(LagrangeAtZero(a, js), 1)
      BY <2>3, <3>1, LagrangeAlone
    <3>6. QED
      BY <2>2, <3>1, <3>4, <3>5, SameChain
  <2>4. CASE js # {a}
    <3>1. PICK b : b \in js /\ b # a
      BY <2>1, <2>4
    <3>2. /\ a \in Participants /\ b \in Participants /\ a \in Int /\ b \in Int
          /\ js \ {a} \in SUBSET Participants /\ js \ {b} \in SUBSET Participants
          /\ Cardinality(js \ {a}) = n - 1 /\ Cardinality(js \ {b}) = n - 1
      BY <1>1, <2>1, <3>1, ParticipantSets, SharingAssumption DEF Participants
    <3>3. n - 1 \in Nat /\ n - 1 < n
      BY <1>1
    <3>4. n - 1 # 0
      <4>1. IsFiniteSet(js \ {a}) /\ b \in js \ {a}
        BY <3>1, <3>2, ParticipantSets
      <4>2. Cardinality(js \ {a}) # 0
        BY <4>1, FS_EmptySet
      <4>3. QED
        BY <3>2, <4>2
    <3>5. Same(AtZero(js \ {a}, One), 1) /\ Same(AtZero(js \ {b}, One), 1)
      <4>1. n - 1 \in S
        BY <1>1, <3>3
      <4>2. QED
        BY <3>2, <3>4, <4>1
    <3> DEFINE m == AtZero(js, One)
               ma == AtZero(js \ {a}, One)
               mb == AtZero(js \ {b}, One)
               wa == AtZero(js, Away(a, One))
               wb == AtZero(js, Away(b, One))
               d == a - b
    <3>6. Same(wa, a * ma) /\ Same(wb, b * mb)
      BY <2>1, <3>1, AtZeroAway, OneType
    <3>7. /\ m \in Int /\ ma \in Int /\ mb \in Int /\ wa \in Int /\ wb \in Int /\ d \in Int
      BY <2>1, <2>2, <3>1, <3>2, AtZeroType, AwayType, OneType
    \* (a - i) - (b - i) = a - b for each participant i.
    <3>8. Combines(wa, wb, m, m, 1, d, 0)
      <4> DEFINE e1 == 1
                 e0 == 0
      <4>1. ASSUME NEW i \in js
            PROVE  Combines(Away(a, One)[i], Away(b, One)[i], One[i], One[i], e1, d, e0)
        <5>1. i \in Int /\ One[i] = 1 /\ Away(a, One)[i] = (a - i) * 1 /\ Away(b, One)[i] = (b - i) * 1
          BY SharingAssumption DEF Participants, One, Away
        <5>2. (a - i) * 1 = e1 * ((b - i) * 1) + d * 1 + e0 * 1 /\ (a - i) * 1 \in Int
          BY <3>2, <5>1
        <5>3. Same((a - i) * 1, (a - i) * 1)
          BY <5>2, SameSelf
        <5>4. Same(Away(a, One)[i], e1 * Away(b, One)[i] + d * One[i] + e0 * One[i])
          BY <5>1, <5>2, <5>3
        <5>5. QED
          BY <5>4 DEF Combines
      <4>2. e1 \in Int /\ e0 \in Int /\ e1 = 1 /\ e0 = 0
        OBVIOUS
      <4>3. Away(a, One) \in Values /\ Away(b, One) \in Values /\ One \in Values
        BY <3>2, AwayType, OneType
      <4> HIDE DEF e1, e0, d
      <4>4. Combines(AtZero(js, Away(a, One)), AtZero(js, Away(b, One)), AtZero(js, One),
                     AtZero(js, One), e1, d, e0)
        BY <3>7, <4>1, <4>2, <4>3, AtZeroCombined
      <4>5. QED
        BY <4>2, <4>4
    <3>9. Same(d * m, d)
      <4> HIDE DEF m, ma, mb, wa, wb
      <4>1. PICK k \in Int : wa = 1 * wb + d * m + 0 * m + k * Q
        BY <3>8 DEF Combines, Same, SameModulo
      <4>2. PICK k1 \in Int : wa = a * ma + k1 * Q
        BY <3>6 DEF Same, SameModulo
      <4>3. PICK k2 \in Int : wb = b * mb + k2 * Q
        BY <3>6 DEF Same, SameModulo
      <4>4. PICK k3 \in Int : ma = 1 + k3 * Q
        BY <3>5 DEF Same, SameModulo, ma
      <4>5. PICK k4 \in Int : mb = 1 + k4 * Q
        BY <3>5 DEF Same, SameModulo, mb
      <4> DEFINE A == a * k3
                 B == b * k4
                 M == d * m
      <4>6. a * ma = a + A * Q /\ b * mb = b + B * Q /\ A \in Int /\ B \in Int /\ M \in Int
        BY <3>2, <3>7, <4>4, <4>5, OrderFacts
      <4>7. wa = wb + M + k * Q
        BY <3>7, <4>1, OrderFacts
      <4>8. wa = a + A * Q + k1 * Q /\ wb = b + B * Q + k2 * Q
        BY <4>2, <4>3, <4>6
      <4> HIDE DEF A, B, M
      <4>9. M = (a - b) + (A + k1 - B - k2 - k) * Q /\ A + k1 - B - k2 - k \in Int
        BY <3>2, <3>7, <4>6, <4>7, <4>8, OrderFacts
      <4>10. QED
        BY <4>9 DEF Same, SameModulo, M, d
    <3>10. Inverted((a - b) % Q) \in Int /\ Same(d * Inverted((a - b) % Q), 1)
      BY <3>1, <3>2, InverseOfDifference, OrderFacts DEF Scalars
    <3> HIDE DEF m, d
    <3>11. Same(m, 1)
      BY <3>7, <3>9, <3>10, Cancelled
    <3>12. QED
      BY <3>11 DEF m
  <2>5. QED
    BY <2>3, <2>4
<1>2. S = Nat
  <2>1. \A n \in Nat : (\A m \in Nat : m < n => m \in S) => n \in S
    BY <1>1
  <2> HIDE DEF S
  <2>2. S \in SUBSET Nat
    BY DEF S
  <2>3. QED
    BY <2>1, <2>2, Induction
<1>3. Cardinality(ids) \in S
  BY <1>2, ParticipantSets
<1>4. QED
  BY <1>3

\* One round of Horner's rule at every participant, weighed.
LEMMA InterpolationStep ==
  ASSUME NEW ids \in SUBSET Participants, NEW a \in ids, NEW g \in Values, NEW h \in Values,
         NEW c \in Int, NEW v \in Int,
         \A i \in Participants : Same(h[i], g[i] * i + c),
         Same(AtZero(ids, g), v), Same(AtZero(ids \ {a}, g), v)
  PROVE  Same(AtZero(ids, h), c)
<1>1. /\ a \in Participants /\ a \in Int /\ ids \ {a} \in SUBSET Participants
      /\ Cardinality(ids) # 0
  <2>1. IsFiniteSet(ids)
    BY ParticipantSets
  <2>2. Cardinality(ids) # 0
    BY <2>1, FS_EmptySet
  <2>3. QED
    BY <2>2, SharingAssumption DEF Participants
<1> DEFINE m == AtZero(ids, h)
           mg == AtZero(ids, g)
           mw == AtZero(ids, Away(a, g))
           mo == AtZero(ids, One)
           mr == AtZero(ids \ {a}, g)
           minus == -1
<1>2. /\ m \in Int /\ mg \in Int /\ mw \in Int /\ mo \in Int /\ mr \in Int
      /\ Away(a, g) \in Values /\ One \in Values
  BY <1>1, AtZeroType, AwayType, OneType
<1>3. Same(mo, 1) /\ Same(mw, a * mr)
  BY <1>1, WeightsOfOne, AtZeroAway
<1>4. minus \in Int /\ minus = -1
  OBVIOUS
\* g * i + c = a * g - (a - i) * g + c * 1.
<1>5. ASSUME NEW i \in ids
      PROVE  Combines(h[i], g[i], Away(a, g)[i], One[i], a, minus, c)
  <2>1. i \in Int /\ g[i] \in Int /\ One[i] = 1 /\ Away(a, g)[i] = (a - i) * g[i]
    BY SharingAssumption DEF Participants, Values, One, Away
  <2>2. g[i] * i + c = a * g[i] + minus * ((a - i) * g[i]) + c * 1
    <3>1. (a - i) * g[i] = a * g[i] - g[i] * i
      BY <1>1, <2>1
    <3>2. a * g[i] \in Int /\ g[i] * i \in Int
      BY <1>1, <2>1
    <3>3. QED
      BY <3>1, <3>2
  <2>3. Same(h[i], g[i] * i + c)
    OBVIOUS
  <2>4. Same(h[i], a * g[i] + minus * Away(a, g)[i] + c * One[i])
    BY <2>1, <2>2, <2>3
  <2>5. QED
    BY <2>4 DEF Combines
<1>6. Combines(m, mg, mw, mo, a, minus, c)
  <2> HIDE DEF minus
  <2>1. QED
    BY <1>1, <1>2, <1>4, <1>5, AtZeroCombined
<1> HIDE DEF m, mg, mw, mo, mr
<1>7. PICK k \in Int : m = a * mg + minus * mw + c * mo + k * Q
  BY <1>6 DEF Combines, Same, SameModulo
<1>8. PICK k1 \in Int : mo = 1 + k1 * Q
  BY <1>3 DEF Same, SameModulo
<1>9. PICK k2 \in Int : mw = a * mr + k2 * Q
  BY <1>3 DEF Same, SameModulo
<1>10. PICK k3 \in Int : mg = v + k3 * Q
  BY DEF mg, Same, SameModulo
<1>11. PICK k4 \in Int : mr = v + k4 * Q
  BY DEF mr, Same, SameModulo
<1> DEFINE A == a * v
           B == a * k3
           C == a * k4
           D == c * k1
<1>12. /\ A \in Int /\ B \in Int /\ C \in Int /\ D \in Int
       /\ a * mg = A + B * Q /\ a * mr = A + C * Q /\ c * mo = c + D * Q
  BY <1>1, <1>8, <1>10, <1>11, OrderFacts
<1>13. m = a * mg - mw + c * mo + k * Q
  BY <1>1, <1>2, <1>7
<1> HIDE DEF A, B, C, D
<1>14. m = c + (B + D + k - C - k2) * Q /\ B + D + k - C - k2 \in Int
  BY <1>2, <1>9, <1>12, <1>13, OrderFacts
<1>15. QED
  BY <1>14 DEF Same, SameModulo, m

\* Any participants, as many as there are coefficients or more, have the value at
\* 0: the Lagrange sum of combine_partials.
LEMMA Interpolation ==
  ASSUME NEW f \in Seq(Scalars), NEW ids \in SUBSET Participants, Cardinality(ids) >= Len(f)
  PROVE  Same(AtZero(ids, [i \in Participants |-> Evaluate(f, i)]), Evaluate(f, 0))
<1> DEFINE n == Len(f)
           acc(x) == CHOOSE h : Horner(h, f, x) /\ Evaluate(f, x) = h[n]
           value(k) == [i \in Participants |-> acc(i)[k]]
           S == {k \in Nat : \A js \in SUBSET Participants :
                   k <= n /\ Cardinality(js) >= k => Same(AtZero(js, value(k)), acc(0)[k])}
<1>1. ASSUME NEW x \in Int
      PROVE  Horner(acc(x), f, x) /\ Evaluate(f, x) = acc(x)[n]
  BY EvaluateSteps
<1>2. n \in Nat /\ (\A k \in 1 .. n : n - k + 1 \in 1 .. n /\ f[n - k + 1] \in Int)
      /\ \A i \in Participants : i \in Int
  BY OrderFacts, SharingAssumption DEF Scalars, Participants
<1> HIDE DEF acc, n
<1>3. ASSUME NEW x \in Int, NEW k \in 0 .. n
      PROVE  acc(x)[k] \in Int
  <2>1. acc(x)[k] \in Scalars
    BY <1>1 DEF Horner, n
  <2>2. QED
    BY <2>1, OrderFacts DEF Scalars
<1>4. ASSUME NEW x \in Int, NEW k \in 1 .. n
      PROVE  Same(acc(x)[k], acc(x)[k - 1] * x + f[n - k + 1])
  <2>1. acc(x)[k] = (acc(x)[k - 1] * x + f[n - k + 1]) % Q
    BY <1>1 DEF Horner, n
  <2>2. k - 1 \in 0 .. n
    BY <1>2
  <2>3. acc(x)[k - 1] \in Int /\ f[n - k + 1] \in Int
    BY <1>2, <1>3, <2>2
  <2>4. acc(x)[k - 1] * x + f[n - k + 1] \in Int
    BY <2>3
  <2>5. QED
    BY <2>1, <2>4, ModSame
<1>5. ASSUME NEW k \in 0 .. n
      PROVE  value(k) \in Values
  BY <1>2, <1>3 DEF Values
<1>6. ASSUME NEW k \in Nat, \A l \in Nat : l < k => l \in S, NEW js \in SUBSET Participants,
             k <= n, Cardinality(js) >= k
      PROVE  Same(AtZero(js, value(k)), acc(0)[k])
  <2>1. k \in 0 .. n /\ Cardinality(js) \in Nat
    BY <1>2, <1>6, ParticipantSets
  <2>2. CASE k = 0
    <3>1. \A x \in Int : acc(x)[0] = 0
      BY <1>1 DEF Horner
    <3>2. \A i \in js : value(0)[i] = 0
      BY <1>2, <3>1
    <3>3. value(0) \in Values
      BY <1>5, <2>1, <2>2
    <3> HIDE DEF value
    <3>4. QED
      BY <2>2, <3>1, <3>2, <3>3, ZeroAtZero
  <2>3. CASE k # 0
    <3>1. k - 1 \in Nat /\ k - 1 < k /\ k - 1 <= n /\ k - 1 \in 0 .. n /\ k \in 1 .. n
      BY <1>2, <1>6, <2>3
    <3>2. PICK a : a \in js
      BY <1>6, <2>1, <2>3, ParticipantSets
    <3>3. /\ Cardinality(js) >= k - 1 /\ Cardinality(js \ {a}) >= k - 1
          /\ js \ {a} \in SUBSET Participants
      BY <1>6, <2>1, <3>1, <3>2, ParticipantSets
    <3> DEFINE v == acc(0)[k - 1]
               c == f[n - k + 1]
    <3>4. Same(AtZero(js, value(k - 1)), v) /\ Same(AtZero(js \ {a}, value(k - 1)), v)
      <4>1. k - 1 \in S
        BY <1>6, <3>1
      <4>2. QED
        BY <3>1, <3>3, <4>1
    <3>5. v \in Int /\ c \in Int /\ value(k - 1) \in Values /\ value(k) \in Values
      BY <1>2, <1>3, <1>5, <2>1, <3>1
    <3>6. \A i \in Participants : Same(value(k)[i], value(k - 1)[i] * i + c)
      BY <1>2, <1>4, <3>1
    <3>7. Same(acc(0)[k], c)
      <4>1. Same(acc(0)[k], acc(0)[k - 1] * 0 + f[n - k + 1])
        BY <1>4, <3>1
      <4>2. acc(0)[k - 1] * 0 + f[n - k + 1] = c
        BY <3>5
      <4>3. QED
        BY <4>1, <4>2
    <3>8. acc(0)[k] \in Int
      BY <1>3, <2>1
    <3> HIDE DEF value, v, c
    <3>9. Same(AtZero(js, value(k)), c)
      BY <3>2, <3>4, <3>5, <3>6, InterpolationStep
    <3>10. AtZero(js, value(k)) \in Int
      BY <3>5, AtZeroType
    <3>11. Same(c, acc(0)[k])
      BY <3>5, <3>7, <3>8, SameSwap
    <3>12. QED
      BY <3>5, <3>8, <3>9, <3>10, <3>11, SameChain
  <2>4. QED
    BY <2>2, <2>3
<1>7. S = Nat
  <2>1. \A k \in Nat : (\A l \in Nat : l < k => l \in S) => k \in S
    BY <1>6
  <2> HIDE DEF S
  <2>2. S \in SUBSET Nat
    BY DEF S
  <2>3. QED
    BY <2>1, <2>2, Induction
<1>8. Same(AtZero(ids, value(n)), acc(0)[n])
  <2>1. n \in S /\ n <= n /\ Cardinality(ids) >= n
    BY <1>2, <1>7 DEF n
  <2>2. QED
    BY <2>1
<1>9. acc(0)[n] = Evaluate(f, 0)
  BY <1>1
<1>10. value(n) = [i \in Participants |-> Evaluate(f, i)]
  BY <1>1, <1>2
<1>11. QED
  BY <1>8, <1>9, <1>10

\* The value at 0 is the lowest coefficient: the secret.
LEMMA SecretAtZero ==
  ASSUME NEW f \in Seq(Scalars), Len(f) # 0
  PROVE  Evaluate(f, 0) = f[1]
<1> DEFINE n == Len(f)
<1>1. PICK acc : Horner(acc, f, 0) /\ Evaluate(f, 0) = acc[n]
  BY EvaluateSteps
<1>2. n \in Nat /\ n \in 1 .. n /\ n - n + 1 = 1 /\ n - 1 \in 0 .. n /\ f[1] \in Scalars
  OBVIOUS
<1>3. acc[n] = (acc[n - 1] * 0 + f[1]) % Q
  BY <1>1, <1>2 DEF Horner
<1>4. acc[n - 1] \in Int /\ f[1] \in Int
  <2>1. acc[n - 1] \in Scalars
    BY <1>1, <1>2 DEF Horner
  <2> HIDE DEF n
  <2>2. QED
    BY <1>2, <2>1, OrderFacts DEF Scalars
<1>5. acc[n - 1] * 0 + f[1] = f[1]
  BY <1>4
<1>6. f[1] % Q = f[1]
  BY <1>2, <1>4, ModSame, SameEqual
<1>7. QED
  BY <1>1, <1>3, <1>5, <1>6

\* A sum without one participant's part.
LEMMA SumWithout ==
  ASSUME NEW f \in Contributions, NEW e \in DOMAIN f
  PROVE  /\ [d \in DOMAIN f \ {e} |-> f[d]] \in Contributions
         /\ Same(SumOver(f), SumOver([d \in DOMAIN f \ {e} |-> f[d]]) + f[e])
<1> DEFINE f1 == [d \in DOMAIN f \ {e} |-> f[d]]
           f2 == [d \in {e} |-> f[e]]
           u == 1
           z == 0
<1>1. PICK D \in SUBSET Participants : f \in [D -> Int]
  BY DEF Contributions
<1>2. e \in D /\ e \in Participants /\ f[e] \in Int
  BY <1>1
<1>3. f1 \in [D \ {e} -> Int] /\ f2 \in [{e} -> Int]
  BY <1>1, <1>2
<1>4. f1 \in Contributions /\ f2 \in Contributions
  <2>1. D \ {e} \in SUBSET Participants /\ {e} \in SUBSET Participants
    BY <1>2
  <2> HIDE DEF f1, f2
  <2>2. QED
    BY <1>3, <2>1 DEF Contributions
<1>5. ASSUME NEW j \in Participants
      PROVE  Same(Term(f, j), u * Term(f1, j) + u * Term(f2, j) + z * Term(f2, j))
  <2>1. Term(f, j) \in Int /\ Term(f1, j) \in Int /\ Term(f2, j) \in Int
    BY <1>4, TermType
  <2>2. Term(f, j) = Term(f1, j) + Term(f2, j)
    <3>1. CASE j = e
      <4>1. Term(f, j) = f[e] /\ Term(f1, j) = 0 /\ Term(f2, j) = f[e]
        BY <3>1 DEF Term
      <4>2. QED
        BY <1>2, <4>1
    <3>2. CASE j # e
      <4>1. Term(f1, j) = Term(f, j) /\ Term(f2, j) = 0
        BY <3>2 DEF Term
      <4>2. QED
        BY <2>1, <4>1
    <3>3. QED
      BY <3>1, <3>2
  <2>3. Term(f, j) = u * Term(f1, j) + u * Term(f2, j) + z * Term(f2, j)
    BY <2>1, <2>2
  <2>4. QED
    BY <2>1, <2>3, SameSelf
<1>6. Same(SumOver(f), u * SumOver(f1) + u * SumOver(f2) + z * SumOver(f2))
  <2>1. u \in Int /\ z \in Int
    OBVIOUS
  <2> HIDE DEF u, z, f1, f2
  <2>2. QED
    BY <1>4, <1>5, <2>1, SumCombined
<1>7. SumOver(f) \in Int /\ SumOver(f1) \in Int /\ SumOver(f2) \in Int
  BY <1>4, SumType
<1>8. Same(SumOver(f2), f[e])
  <2>1. Term(f2, e) = f[e] /\ \A j \in Participants : j # e => Term(f2, j) = 0
    BY DEF Term
  <2> HIDE DEF f2
  <2>2. QED
    BY <1>2, <1>4, <2>1, SumOfOne
<1>9. Same(SumOver(f), SumOver(f1) + SumOver(f2))
  BY <1>6, <1>7
<1>10. Same(SumOver(f1) + SumOver(f2), SumOver(f1) + f[e])
  BY <1>2, <1>7, <1>8, SameSelf, SamePlus
<1>11. Same(SumOver(f), SumOver(f1) + f[e])
  BY <1>2, <1>7, <1>9, <1>10, SameChain
<1>12. QED
  BY <1>4, <1>11

\* Nobody contributes.
LEMMA SumOfNone ==
  ASSUME NEW f \in Contributions, DOMAIN f = {}
  PROVE  Same(SumOver(f), 0)
<1> DEFINE z == 0
<1>1. z \in Int /\ \A j \in Participants : Term(f, j) = 0
  BY DEF Term
<1>2. SumOver(f) \in Int
  BY SumType
<1>3. \A j \in Participants : Same(Term(f, j), z * Term(f, j) + z * Term(f, j) + z * Term(f, j))
  <2>1. z * 0 + z * 0 + z * 0 = 0
    OBVIOUS
  <2>2. QED
    BY <1>1, <2>1, SameSelf
<1>4. z * SumOver(f) + z * SumOver(f) + z * SumOver(f) = 0
  BY <1>2
<1> HIDE DEF z
<1>5. Same(SumOver(f), z * SumOver(f) + z * SumOver(f) + z * SumOver(f))
  BY <1>1, <1>3, SumCombined
<1>6. QED
  BY <1>4, <1>5

-----------------------------------------------------------------------------
(***************************************************************************)
(* The dealers' polynomials together: what a participant's share is, and   *)
(* what a quorum of the shares interpolates to.                            *)
(***************************************************************************)
\* The share at x of the key that the dealers in ds deal, and that key.
Joint(ds, F, x) == SumOver([d \in ds |-> Evaluate(F[d], x)])
JointSecret(ds, F) == SumOver([d \in ds |-> F[d][1]])
Shares(ds, F) == [i \in Participants |-> Joint(ds, F, i)]

LEMMA EvaluateType ==
  ASSUME NEW f \in Seq(Scalars), NEW x \in Int
  PROVE  Evaluate(f, x) \in Scalars /\ Evaluate(f, x) \in Int
<1>1. PICK acc : Horner(acc, f, x) /\ Evaluate(f, x) = acc[Len(f)]
  BY EvaluateSteps
<1>2. Len(f) \in 0 .. Len(f)
  OBVIOUS
<1>3. Evaluate(f, x) \in Scalars
  BY <1>1, <1>2 DEF Horner
<1>4. QED
  BY <1>3, OrderFacts DEF Scalars

LEMMA PolynomialType ==
  ASSUME NEW f \in Polynomials
  PROVE  f \in Seq(Scalars) /\ Len(f) = Threshold /\ f[1] \in Scalars /\ f[1] \in Int
<1>1. Threshold \in Nat /\ 1 \in 1 .. Threshold
  BY SharingAssumption
<1>2. f \in Seq(Scalars) /\ Len(f) = Threshold /\ f[1] \in Scalars
  BY <1>1 DEF Polynomials
<1>3. QED
  BY <1>2, OrderFacts DEF Scalars

LEMMA JointTypes ==
  ASSUME NEW F \in [Participants -> Polynomials], NEW ds \in SUBSET Participants
  PROVE  /\ \A x \in Int : /\ [d \in ds |-> Evaluate(F[d], x)] \in Contributions
                           /\ Joint(ds, F, x) \in Int /\ Joint(ds, F, x) \in Scalars
         /\ [d \in ds |-> F[d][1]] \in Contributions
         /\ JointSecret(ds, F) \in Int /\ JointSecret(ds, F) \in Scalars
         /\ Shares(ds, F) \in Values
<1>1. \A d \in ds : F[d][1] \in Int /\ F[d] \in Seq(Scalars)
  BY PolynomialType
<1>2. ASSUME NEW x \in Int
      PROVE  /\ [d \in ds |-> Evaluate(F[d], x)] \in Contributions
             /\ Joint(ds, F, x) \in Int /\ Joint(ds, F, x) \in Scalars
  <2>1. \A d \in ds : Evaluate(F[d], x) \in Int
    BY <1>1, EvaluateType
  <2>2. [d \in ds |-> Evaluate(F[d], x)] \in Contributions
    BY <2>1 DEF Contributions
  <2>3. QED
    BY <2>2, SumType DEF Joint
<1>3. [d \in ds |-> F[d][1]] \in Contributions
  BY <1>1 DEF Contributions
<1>4. JointSecret(ds, F) \in Int /\ JointSecret(ds, F) \in Scalars
  BY <1>3, SumType DEF JointSecret
<1>5. \A i \in Participants : i \in Int
  BY SharingAssumption DEF Participants
<1>6. Shares(ds, F) \in Values
  BY <1>2, <1>5 DEF Shares, Values
<1>7. QED
  BY <1>2, <1>3, <1>4, <1>6

\* Any Threshold shares of what several dealers dealt together have the sum of
\* their secrets.
LEMMA JointInterpolation ==
  ASSUME NEW F \in [Participants -> Polynomials], NEW ids \in SUBSET Participants,
         Cardinality(ids) >= Threshold, NEW ds \in SUBSET Participants
  PROVE  Same(AtZero(ids, Shares(ds, F)), JointSecret(ds, F))
<1> DEFINE S == {n \in Nat : \A es \in SUBSET Participants : Cardinality(es) = n =>
                   Same(AtZero(ids, Shares(es, F)), JointSecret(es, F))}
<1>1. ASSUME NEW n \in Nat, \A m \in Nat : m < n => m \in S, NEW es \in SUBSET Participants,
             Cardinality(es) = n
      PROVE  Same(AtZero(ids, Shares(es, F)), JointSecret(es, F))
  <2>1. IsFiniteSet(es) /\ Shares(es, F) \in Values /\ \A i \in Participants : i \in Int
    <3>1. IsFiniteSet(es) /\ Shares(es, F) \in Values
      BY ParticipantSets, JointTypes
    <3>2. \A i \in Participants : i \in Int
      BY SharingAssumption DEF Participants
    <3>3. QED
      BY <3>1, <3>2
  <2>2. CASE n = 0
    <3>1. es = {}
      BY <1>1, <2>1, <2>2, FS_EmptySet
    <3>2. \A x \in Int : Same(Joint(es, F, x), 0) /\ Joint(es, F, x) \in Scalars
      BY <3>1, JointTypes, SumOfNone DEF Joint
    <3>3. 0 \in Scalars /\ 0 \in Int
      BY OrderFacts
    <3>4. \A x \in Int : Joint(es, F, x) = 0
      BY <3>2, <3>3, SameEqual
    <3>5. \A i \in ids : Shares(es, F)[i] = 0
      BY <2>1, <3>4 DEF Shares
    <3>6. Same(AtZero(ids, Shares(es, F)), 0)
      BY <2>1, <3>5, ZeroAtZero
    <3>7. Same(JointSecret(es, F), 0)
      BY <3>1, JointTypes, SumOfNone DEF JointSecret
    <3>8. AtZero(ids, Shares(es, F)) \in Int /\ JointSecret(es, F) \in Int
      BY <2>1, AtZeroType, JointTypes
    <3>9. Same(0, JointSecret(es, F))
      BY <3>3, <3>7, <3>8, SameSwap
    <3>10. QED
      BY <3>3, <3>6, <3>8, <3>9, SameChain
  <2>3. CASE n # 0
    <3>1. PICK e : e \in es
      BY <1>1, <2>3, ParticipantSets
    <3> DEFINE rest == es \ {e}
               own == [i \in Participants |-> Evaluate(F[e], i)]
    <3>2. /\ rest \in SUBSET Participants /\ Cardinality(rest) = n - 1 /\ n - 1 \in Nat /\ n - 1 < n
          /\ F[e] \in Seq(Scalars) /\ Len(F[e]) = Threshold /\ F[e][1] \in Int
          /\ Threshold # 0
      BY <1>1, <2>3, <3>1, ParticipantSets, PolynomialType, SharingAssumption
    <3>3. Same(AtZero(ids, Shares(rest, F)), JointSecret(rest, F))
      <4>1. n - 1 \in S
        BY <1>1, <3>2
      <4>2. QED
        BY <3>2, <4>1
    <3>4. Same(AtZero(ids, own), F[e][1])
      BY <3>2, Interpolation, SecretAtZero
    <3>5. own \in Values
      BY <2>1, <3>2, EvaluateType DEF Values
    <3>6. ASSUME NEW x \in Int
          PROVE  Same(Joint(es, F, x), Joint(rest, F, x) + Evaluate(F[e], x))
      <4> DEFINE f == [d \in es |-> Evaluate(F[d], x)]
      <4>1. f \in Contributions
        BY JointTypes
      <4>2. e \in DOMAIN f /\ f[e] = Evaluate(F[e], x)
            /\ [d \in DOMAIN f \ {e} |-> f[d]] = [d \in rest |-> Evaluate(F[d], x)]
        BY <3>1
      <4> HIDE DEF f, rest
      <4>3. Same(SumOver(f), SumOver([d \in DOMAIN f \ {e} |-> f[d]]) + f[e])
        BY <4>1, <4>2, SumWithout
      <4>4. QED
        BY <4>2, <4>3 DEF Joint, f
    <3>7. Same(JointSecret(es, F), JointSecret(rest, F) + F[e][1])
      <4> DEFINE f == [d \in es |-> F[d][1]]
      <4>1. f \in Contributions
        BY JointTypes
      <4>2. e \in DOMAIN f /\ f[e] = F[e][1]
            /\ [d \in DOMAIN f \ {e} |-> f[d]] = [d \in rest |-> F[d][1]]
        BY <3>1
      <4> HIDE DEF f, rest
      <4>3. Same(SumOver(f), SumOver([d \in DOMAIN f \ {e} |-> f[d]]) + f[e])
        BY <4>1, <4>2, SumWithout
      <4>4. QED
        BY <4>2, <4>3 DEF JointSecret, f
    <3> DEFINE g == Shares(es, F)
               g1 == Shares(rest, F)
               m == AtZero(ids, g)
               m1 == AtZero(ids, g1)
               m2 == AtZero(ids, own)
               s == JointSecret(es, F)
               s1 == JointSecret(rest, F)
    <3>8. /\ g \in Values /\ g1 \in Values /\ m \in Int /\ m1 \in Int /\ m2 \in Int
          /\ s \in Int /\ s1 \in Int
      BY <2>1, <3>2, <3>5, AtZeroType, JointTypes
    <3>9. Same(m, m1 + m2)
      <4> DEFINE u == 1
                 z == 0
      <4>1. ASSUME NEW i \in ids
            PROVE  Combines(g[i], g1[i], own[i], own[i], u, u, z)
        <5>1. g[i] = Joint(es, F, i) /\ g1[i] = Joint(rest, F, i) /\ own[i] = Evaluate(F[e], i)
              /\ i \in Int
          BY <2>1 DEF Shares
        <5>2. Same(g[i], g1[i] + own[i])
          BY <3>6, <5>1
        <5>3. g1[i] \in Int /\ own[i] \in Int
          BY <3>5, <3>8 DEF Values
        <5> HIDE DEF g, g1, own
        <5>4. g1[i] + own[i] = u * g1[i] + u * own[i] + z * own[i]
          BY <5>3
        <5>5. Same(g[i], u * g1[i] + u * own[i] + z * own[i])
          BY <5>2, <5>4
        <5>6. QED
          BY <5>5 DEF Combines
      <4>2. u \in Int /\ z \in Int
        OBVIOUS
      <4>3. u * m1 + u * m2 + z * m2 = m1 + m2
        BY <3>8
      <4> HIDE DEF u, z, g, g1, own
      <4>4. Combines(AtZero(ids, g), AtZero(ids, g1), AtZero(ids, own), AtZero(ids, own), u, u, z)
        BY <3>5, <3>8, <4>1, <4>2, AtZeroCombined
      <4>5. QED
        BY <4>3, <4>4 DEF Combines
    <3>10. Same(m1, s1) /\ Same(m2, F[e][1]) /\ Same(s, s1 + F[e][1])
      BY <3>3, <3>4, <3>7
    <3> HIDE DEF g, g1, own, m, m1, m2, s, s1
    <3>11. Same(m1 + m2, s1 + F[e][1]) /\ Same(s1 + F[e][1], s)
      <4> DEFINE c == F[e][1]
      <4>1. c \in Int /\ Same(m2, c) /\ Same(s, s1 + c)
        BY <3>2, <3>10
      <4> HIDE DEF c
      <4>2. s1 + c \in Int
        BY <3>8, <4>1
      <4>3. Same(m1 + m2, s1 + c)
        BY <3>8, <3>10, <4>1, SamePlus
      <4>4. Same(s1 + c, s)
        BY <3>8, <4>1, <4>2, SameSwap
      <4>5. QED
        BY <4>3, <4>4 DEF c
    <3>12. Same(m, s)
      BY <3>2, <3>8, <3>9, <3>11, SameChain
    <3>13. QED
      BY <3>12 DEF m, s, g
  <2>4. QED
    BY <2>2, <2>3
<1>2. S = Nat
  <2>1. \A n \in Nat : (\A m \in Nat : m < n => m \in S) => n \in S
    BY <1>1
  <2> HIDE DEF S
  <2>2. S \in SUBSET Nat
    BY DEF S
  <2>3. QED
    BY <2>1, <2>2, Induction
<1>3. Cardinality(ds) \in S
  BY <1>2, ParticipantSets
<1>4. QED
  BY <1>3

-----------------------------------------------------------------------------
(***************************************************************************)
(* Hiding: fewer than Threshold values fit every secret.  The polynomial   *)
(* that is 1 at 0 and vanishes at some participants grows by the factor    *)
(* 1 - x / a for each participant a; multiples of it change the secret and *)
(* nothing those participants see.                                         *)
(***************************************************************************)
LEMMA HornerOf ==
  ASSUME NEW f \in Polynomials, NEW x \in Int
  PROVE  \E acc : /\ Evaluate(f, x) = acc[Threshold] /\ acc[0] = 0
                  /\ \A k \in 0 .. Threshold : acc[k] \in Int
                  /\ \A k \in 1 .. Threshold :
                       Same(acc[k], acc[k - 1] * x + f[Threshold - k + 1])
<1>1. f \in Seq(Scalars) /\ Len(f) = Threshold /\ Threshold \in Nat
  BY PolynomialType, SharingAssumption
<1>2. PICK acc : Horner(acc, f, x) /\ Evaluate(f, x) = acc[Len(f)]
  BY <1>1, EvaluateSteps
<1>3. \A k \in 0 .. Threshold : acc[k] \in Int
  <2>1. \A k \in 0 .. Threshold : acc[k] \in Scalars
    BY <1>1, <1>2 DEF Horner
  <2>2. QED
    BY <2>1, OrderFacts DEF Scalars
<1>4. ASSUME NEW k \in 1 .. Threshold
      PROVE  Same(acc[k], acc[k - 1] * x + f[Threshold - k + 1])
  <2>1. acc[k] = (acc[k - 1] * x + f[Threshold - k + 1]) % Q
    BY <1>1, <1>2 DEF Horner
  <2>2. k - 1 \in 0 .. Threshold /\ Threshold - k + 1 \in 1 .. Threshold
    BY <1>1
  <2>3. acc[k - 1] \in Int /\ f[Threshold - k + 1] \in Int
    <3>1. f[Threshold - k + 1] \in Scalars
      BY <2>2 DEF Polynomials
    <3>2. QED
      BY <1>3, <2>2, <3>1, OrderFacts DEF Scalars
  <2>4. acc[k - 1] * x + f[Threshold - k + 1] \in Int
    BY <2>3
  <2>5. QED
    BY <2>1, <2>4, ModSame
<1>5. acc[0] = 0
  BY <1>2 DEF Horner
<1>6. QED
  BY <1>1, <1>2, <1>3, <1>4, <1>5

LEMMA CoefficientType ==
  ASSUME NEW f \in Polynomials, NEW k \in 1 .. Threshold PROVE f[k] \in Scalars /\ f[k] \in Int
<1>1. f[k] \in Scalars
  BY DEF Polynomials
<1>2. QED
  BY <1>1, OrderFacts DEF Scalars

Adds(r, p, q, c) == Same(r, p + c * q)
Appends(r1, r, x, h) == Same(r1, r * x + h)

\* Evaluation is linear in the coefficients.
LEMMA CombinedHorner ==
  ASSUME NEW r \in Int, NEW p \in Int, NEW q \in Int, NEW r1 \in Int, NEW p1 \in Int,
         NEW q1 \in Int, NEW h \in Int, NEW f \in Int, NEW g \in Int, NEW c \in Int, NEW x \in Int,
         Adds(r, p, q, c), Adds(h, f, g, c),
         Appends(r1, r, x, h), Appends(p1, p, x, f), Appends(q1, q, x, g)
  PROVE  Adds(r1, p1, q1, c)
<1>1. PICK k \in Int : r = p + c * q + k * Q
  BY DEF Same, SameModulo, Adds
<1>2. PICK k1 \in Int : h = f + c * g + k1 * Q
  BY DEF Same, SameModulo, Adds
<1>3. PICK k2 \in Int : r1 = r * x + h + k2 * Q
  BY DEF Same, SameModulo, Appends
<1>4. PICK k3 \in Int : p1 = p * x + f + k3 * Q
  BY DEF Same, SameModulo, Appends
<1>5. PICK k4 \in Int : q1 = q * x + g + k4 * Q
  BY DEF Same, SameModulo, Appends
<1> DEFINE A == p * x
           B == c * (q * x)
           C == c * g
           D == k * x
           E == c * k4
<1>6. r * x = A + B + D * Q
  BY <1>1, OrderFacts
<1>7. c * q1 = B + C + E * Q
  BY <1>5, OrderFacts
<1>8. A \in Int /\ B \in Int /\ C \in Int /\ D \in Int /\ E \in Int
  OBVIOUS
<1>9. r1 = r * x + h + k2 * Q /\ h = f + C + k1 * Q /\ p1 = A + f + k3 * Q
  BY <1>2, <1>3, <1>4
<1> DEFINE X == r * x
           Y == c * q1
<1>10. X \in Int /\ Y \in Int
  OBVIOUS
<1>11. r1 = X + h + k2 * Q /\ X = A + B + D * Q /\ Y = B + C + E * Q
  BY <1>3, <1>6, <1>7
<1> HIDE DEF A, B, C, D, E, X, Y
<1>12. r1 = p1 + Y + (D + k1 + k2 - k3 - E) * Q /\ D + k1 + k2 - k3 - E \in Int
  BY <1>8, <1>9, <1>10, <1>11, OrderFacts
<1>13. QED
  BY <1>12 DEF Same, SameModulo, Adds, Y

LEMMA EvaluateCombined ==
  ASSUME NEW f \in Polynomials, NEW g \in Polynomials, NEW h \in Polynomials, NEW c \in Int,
         \A k \in 1 .. Threshold : Same(h[k], f[k] + c * g[k]), NEW x \in Int
  PROVE  Same(Evaluate(h, x), Evaluate(f, x) + c * Evaluate(g, x))
<1> DEFINE n == Threshold
<1>1. PICK r : /\ Evaluate(h, x) = r[n] /\ r[0] = 0 /\ \A k \in 0 .. n : r[k] \in Int
               /\ \A k \in 1 .. n : Same(r[k], r[k - 1] * x + h[n - k + 1])
  BY HornerOf
<1>2. PICK p : /\ Evaluate(f, x) = p[n] /\ p[0] = 0 /\ \A k \in 0 .. n : p[k] \in Int
               /\ \A k \in 1 .. n : Same(p[k], p[k - 1] * x + f[n - k + 1])
  BY HornerOf
<1>3. PICK q : /\ Evaluate(g, x) = q[n] /\ q[0] = 0 /\ \A k \in 0 .. n : q[k] \in Int
               /\ \A k \in 1 .. n : Same(q[k], q[k - 1] * x + g[n - k + 1])
  BY HornerOf
<1>4. n \in Nat
  BY SharingAssumption
<1> DEFINE S == {k \in Nat : k <= n => Same(r[k], p[k] + c * q[k])}
<1>5. ASSUME NEW k \in Nat, \A l \in Nat : l < k => l \in S, k <= n
      PROVE  Same(r[k], p[k] + c * q[k])
  <2>1. CASE k = 0
    <3>1. 0 + c * 0 = 0 /\ Same(0, 0)
      BY SameSelf
    <3>2. QED
      BY <1>1, <1>2, <1>3, <2>1, <3>1
  <2>2. CASE k # 0
    <3>1. /\ k - 1 \in Nat /\ k - 1 < k /\ k - 1 <= n /\ k - 1 \in 0 .. n /\ k \in 0 .. n
          /\ k \in 1 .. n /\ n - k + 1 \in 1 .. n
      BY <1>4, <1>5, <2>2
    <3>2. Same(r[k - 1], p[k - 1] + c * q[k - 1])
      BY <1>5, <3>1
    <3>3. h[n - k + 1] \in Int /\ f[n - k + 1] \in Int /\ g[n - k + 1] \in Int
      BY <3>1, CoefficientType
    <3>4. /\ r[k] \in Int /\ p[k] \in Int /\ q[k] \in Int
          /\ r[k - 1] \in Int /\ p[k - 1] \in Int /\ q[k - 1] \in Int
      BY <1>1, <1>2, <1>3, <3>1
    <3>5. /\ Appends(r[k], r[k - 1], x, h[n - k + 1]) /\ Appends(p[k], p[k - 1], x, f[n - k + 1])
          /\ Appends(q[k], q[k - 1], x, g[n - k + 1])
      BY <1>1, <1>2, <1>3, <3>1 DEF Appends
    <3>6. Adds(h[n - k + 1], f[n - k + 1], g[n - k + 1], c) /\ Adds(r[k - 1], p[k - 1], q[k - 1], c)
      BY <3>1, <3>2 DEF Adds
    <3> HIDE DEF n
    <3>7. Adds(r[k], p[k], q[k], c)
      BY <3>3, <3>4, <3>5, <3>6, CombinedHorner
    <3>8. QED
      BY <3>7 DEF Adds
  <2>3. QED
    BY <2>1, <2>2
<1>6. S = Nat
  <2>1. \A k \in Nat : (\A l \in Nat : l < k => l \in S) => k \in S
    BY <1>5
  <2> HIDE DEF S
  <2>2. S \in SUBSET Nat
    BY DEF S
  <2>3. QED
    BY <2>1, <2>2, Induction
<1>7. QED
  BY <1>1, <1>2, <1>3, <1>4, <1>6

\* Multiplied by 1 + c * x.
LEMMA StretchedEnd ==
  ASSUME NEW r \in Int, NEW p \in Int, NEW p1 \in Int, NEW r1 \in Int,
         NEW h \in Int, NEW c \in Int, NEW x \in Int,
         Same(r, p + c * p1), Same(r1, r * x + h), Same(p1, p * x + h)
  PROVE  Same(r1, p1 * (1 + c * x))
<1>1. PICK k \in Int : r = p + c * p1 + k * Q
  BY DEF Same, SameModulo
<1>2. PICK k1 \in Int : r1 = r * x + h + k1 * Q
  BY DEF Same, SameModulo
<1>3. PICK k2 \in Int : p1 = p * x + h + k2 * Q
  BY DEF Same, SameModulo
<1> DEFINE A == p * x
           B == (c * p1) * x
           C == k * x
           X == r * x
<1>4. X = A + B + C * Q /\ A \in Int /\ B \in Int /\ C \in Int /\ X \in Int
  BY <1>1, OrderFacts
<1>5. p1 * (1 + c * x) = p1 + B
  OBVIOUS
<1>6. r1 = X + h + k1 * Q /\ p1 = A + h + k2 * Q
  BY <1>2, <1>3
<1> HIDE DEF A, B, C, X
<1>7. r1 = p1 + B + (C + k1 - k2) * Q /\ C + k1 - k2 \in Int
  BY <1>4, <1>6, OrderFacts
<1>8. QED
  BY <1>5, <1>7 DEF Same, SameModulo

LEMMA EvaluateStretched ==
  ASSUME NEW g \in Polynomials, NEW h \in Polynomials, NEW c \in Int, g[Threshold] = 0,
         h[1] = g[1], \A k \in 2 .. Threshold : Same(h[k], g[k] + c * g[k - 1]), NEW x \in Int
  PROVE  Same(Evaluate(h, x), Evaluate(g, x) * (1 + c * x))
<1> DEFINE n == Threshold
<1>1. PICK r : /\ Evaluate(h, x) = r[n] /\ r[0] = 0 /\ \A k \in 0 .. n : r[k] \in Int
               /\ \A k \in 1 .. n : Same(r[k], r[k - 1] * x + h[n - k + 1])
  BY HornerOf
<1>2. PICK p : /\ Evaluate(g, x) = p[n] /\ p[0] = 0 /\ \A k \in 0 .. n : p[k] \in Int
               /\ \A k \in 1 .. n : Same(p[k], p[k - 1] * x + g[n - k + 1])
  BY HornerOf
<1>3. n \in Nat /\ n >= 1 /\ n - 1 \in Nat
  BY SharingAssumption
<1> DEFINE S == {k \in Nat : k < n => Same(r[k], p[k] + c * p[k + 1])}
<1>4. ASSUME NEW k \in Nat, \A l \in Nat : l < k => l \in S, k < n
      PROVE  Same(r[k], p[k] + c * p[k + 1])
  <2>1. CASE k = 0
    <3>1. 1 \in 1 .. n /\ n - 1 + 1 = n /\ 1 \in 0 .. n /\ 1 - 1 = 0 /\ 0 + 1 = 1
      BY <1>3
    <3>2. Same(p[1], 0 * x + 0)
      BY <1>2, <3>1
    <3>3. 0 * x + 0 = 0
      OBVIOUS
    <3>4. p[1] \in Int /\ Same(p[1], 0)
      BY <1>2, <3>1, <3>2, <3>3
    <3> DEFINE z == 0
    <3>5. Same(c, c) /\ z \in Int /\ Same(p[1], z)
      BY <3>4, SameSelf
    <3>6. Same(c * p[1], c * 0)
      <4> HIDE DEF z
      <4>1. Same(c * p[1], c * z)
        BY <3>4, <3>5, SameTimes
      <4>2. QED
        BY <4>1 DEF z
    <3>7. c * p[1] \in Int /\ c * 0 = 0
      BY <3>4
    <3>8. Same(0, c * p[1])
      BY <3>6, <3>7, SameSwap
    <3>9. 0 + c * p[1] = c * p[1]
      BY <3>7
    <3>10. QED
      BY <1>1, <1>2, <2>1, <3>1, <3>8, <3>9
  <2>2. CASE k # 0
    <3>1. /\ k - 1 \in Nat /\ k - 1 < k /\ k - 1 < n /\ k - 1 \in 0 .. n /\ k \in 0 .. n
          /\ k + 1 \in 0 .. n /\ k \in 1 .. n /\ k + 1 \in 1 .. n /\ n - k + 1 \in 2 .. n
          /\ n - k + 1 \in 1 .. n /\ n - (k + 1) + 1 \in 1 .. n
          /\ n - (k + 1) + 1 = n - k + 1 - 1 /\ k + 1 - 1 = k /\ k - 1 + 1 = k
      BY <1>3, <1>4, <2>2
    <3>2. Same(r[k - 1], p[k - 1] + c * p[k])
      <4>1. Same(r[k - 1], p[k - 1] + c * p[k - 1 + 1])
        BY <1>4, <3>1
      <4>2. QED
        BY <3>1, <4>1
    <3> DEFINE g1 == g[n - k + 1]
               g2 == g[n - k + 1 - 1]
               h1 == h[n - k + 1]
    <3>3. h1 \in Int /\ g1 \in Int /\ g2 \in Int
      <4>1. n - k + 1 - 1 \in 1 .. n
        BY <3>1
      <4>2. QED
        BY <3>1, <4>1, CoefficientType
    <3>4. /\ r[k] \in Int /\ p[k] \in Int /\ p[k + 1] \in Int
          /\ r[k - 1] \in Int /\ p[k - 1] \in Int
      BY <1>1, <1>2, <3>1
    <3>5. Appends(r[k], r[k - 1], x, h1) /\ Appends(p[k], p[k - 1], x, g1)
      BY <1>1, <1>2, <3>1 DEF Appends
    <3>6. Appends(p[k + 1], p[k], x, g2)
      <4>1. Same(p[k + 1], p[k + 1 - 1] * x + g[n - (k + 1) + 1])
        BY <1>2, <3>1
      <4>2. QED
        BY <3>1, <4>1 DEF Appends
    <3>7. Adds(h1, g1, g2, c) /\ Adds(r[k - 1], p[k - 1], p[k], c)
      <4>1. \A l \in 2 .. n : Same(h[l], g[l] + c * g[l - 1])
        OBVIOUS
      <4> DEFINE l == n - k + 1
      <4>2. l \in 2 .. n /\ h1 = h[l] /\ g1 = g[l] /\ g2 = g[l - 1]
        <5>1. h1 = h[l] /\ g1 = g[l] /\ g2 = g[l - 1]
          BY <1>3
        <5>2. QED
          BY <3>1, <5>1
      <4> HIDE DEF n, l, g1, g2, h1
      <4>3. Same(h[l], g[l] + c * g[l - 1])
        BY <4>1, <4>2
      <4>4. Same(h1, g1 + c * g2)
        BY <4>2, <4>3
      <4>5. QED
        BY <3>2, <4>4 DEF Adds
    <3> HIDE DEF n, g1, g2, h1
    <3>8. Adds(r[k], p[k], p[k + 1], c)
      BY <3>3, <3>4, <3>5, <3>6, <3>7, CombinedHorner
    <3>9. QED
      BY <3>8 DEF Adds
  <2>3. QED
    BY <2>1, <2>2
<1>5. S = Nat
  <2>1. \A k \in Nat : (\A l \in Nat : l < k => l \in S) => k \in S
    BY <1>4
  <2> HIDE DEF S
  <2>2. S \in SUBSET Nat
    BY DEF S
  <2>3. QED
    BY <2>1, <2>2, Induction
<1>6. Same(r[n - 1], p[n - 1] + c * p[n])
  <2>1. n - 1 \in S /\ n - 1 < n /\ n - 1 + 1 = n
    BY <1>3, <1>5
  <2>2. Same(r[n - 1], p[n - 1] + c * p[n - 1 + 1])
    BY <2>1
  <2>3. QED
    BY <2>1, <2>2
<1>7. n \in 1 .. n /\ n - n + 1 = 1 /\ n \in 0 .. n /\ n - 1 \in 0 .. n /\ 1 \in 1 .. n
  BY <1>3
<1>8. /\ Same(r[n], r[n - 1] * x + g[1]) /\ Same(p[n], p[n - 1] * x + g[1])
      /\ r[n] \in Int /\ r[n - 1] \in Int /\ p[n] \in Int /\ p[n - 1] \in Int /\ g[1] \in Int
  <2>1. Same(r[n], r[n - 1] * x + h[n - n + 1]) /\ Same(p[n], p[n - 1] * x + g[n - n + 1])
    BY <1>1, <1>2, <1>7
  <2>2. r[n] \in Int /\ r[n - 1] \in Int /\ p[n] \in Int /\ p[n - 1] \in Int
    BY <1>1, <1>2, <1>7
  <2>3. g[1] \in Int
    BY <1>7, CoefficientType
  <2>4. QED
    BY <1>7, <2>1, <2>2, <2>3
<1> HIDE DEF n
<1>9. Same(r[n], p[n] * (1 + c * x))
  BY <1>6, <1>8, StretchedEnd
<1>10. QED
  BY <1>1, <1>2, <1>9

\* A polynomial that is 1 at 0, vanishes at the participants in ids, and has no
\* coefficients beyond the k lowest.
Vanishes(g, ids, k) ==
  /\ g \in Polynomials /\ g[1] = 1
  /\ \A i \in ids : Evaluate(g, i) = 0
  /\ \A l \in 1 .. Threshold : l > k => g[l] = 0

LEMMA VanishingOne ==
  /\ [k \in 1 .. Threshold |-> IF k = 1 THEN 1 ELSE 0] \in Polynomials
  /\ Vanishes([k \in 1 .. Threshold |-> IF k = 1 THEN 1 ELSE 0], {}, 1)
<1>1. 1 \in 1 .. Threshold
  BY SharingAssumption
<1>2. QED
  BY <1>1, OrderFacts DEF Vanishes, Polynomials

LEMMA VanishingStep ==
  ASSUME NEW ids \in SUBSET Participants, NEW a \in ids, NEW k \in Nat, k >= 1, k < Threshold,
         NEW g, Vanishes(g, ids \ {a}, k)
  PROVE  \E h : Vanishes(h, ids, k + 1)
<1>1. a \in Participants /\ a \in Int /\ a \in 1 .. (Q - 1) /\ \A i \in Participants : i \in Int
  BY SharingAssumption DEF Participants
<1>2. PICK y \in Scalars : (a * y) % Q = 1
  BY <1>1, InverseExists
<1>3. y \in Int /\ Threshold \in Nat /\ g \in Polynomials
  BY <1>2, OrderFacts, SharingAssumption DEF Scalars, Vanishes
<1> DEFINE c == - y
           h == [l \in 1 .. Threshold |-> IF l = 1 THEN g[1] ELSE (g[l] + c * g[l - 1]) % Q]
<1>4. c \in Int
  BY <1>3
<1>5. \A l \in 1 .. Threshold : g[l] \in Scalars /\ g[l] \in Int
  BY <1>3, CoefficientType
<1>6. ASSUME NEW l \in 2 .. Threshold
      PROVE  h[l] = (g[l] + c * g[l - 1]) % Q /\ h[l] \in Scalars /\ Same(h[l], g[l] + c * g[l - 1])
  <2>1. l \in 1 .. Threshold /\ l # 1 /\ l - 1 \in 1 .. Threshold
    BY <1>3
  <2>2. h[l] = (g[l] + c * g[l - 1]) % Q
    BY <2>1
  <2> HIDE DEF h, c
  <2>3. g[l] + c * g[l - 1] \in Int
    BY <1>4, <1>5, <2>1
  <2>4. QED
    BY <2>2, <2>3, ModSame
<1>7. 1 \in 1 .. Threshold /\ h[1] = g[1]
  BY SharingAssumption
<1>8. h \in Polynomials
  <2>1. ASSUME NEW l \in 1 .. Threshold PROVE h[l] \in Scalars
    <3>1. CASE l = 1
      BY <1>5, <1>7, <3>1
    <3>2. CASE l # 1
      <4>1. l \in 2 .. Threshold
        BY <1>3, <3>2
      <4> HIDE DEF h
      <4>2. QED
        BY <1>6, <4>1
    <3>3. QED
      BY <3>1, <3>2
  <2>2. h = [l \in 1 .. Threshold |-> h[l]]
    OBVIOUS
  <2> HIDE DEF h
  <2>3. QED
    BY <2>1, <2>2 DEF Polynomials
<1>9. g[Threshold] = 0 /\ g[1] = 1
  <2>1. Threshold \in 1 .. Threshold
    BY SharingAssumption
  <2>2. QED
    BY <2>1 DEF Vanishes
<1> HIDE DEF h
<1>10. ASSUME NEW x \in Int
       PROVE  Same(Evaluate(h, x), Evaluate(g, x) * (1 + c * x))
  <2> HIDE DEF c
  <2>1. \A l \in 2 .. Threshold : Same(h[l], g[l] + c * g[l - 1])
    BY <1>6
  <2>2. QED
    BY <1>3, <1>4, <1>7, <1>8, <1>9, <2>1, EvaluateStretched
<1>11. /\ \A x \in Int : Evaluate(h, x) \in Scalars /\ Evaluate(h, x) \in Int
       /\ \A x \in Int : Evaluate(g, x) \in Scalars /\ Evaluate(g, x) \in Int
  BY <1>3, <1>8, EvaluateType, PolynomialType
<1>12. ASSUME NEW i \in ids
       PROVE  Evaluate(h, i) = 0
  <2>1. i \in Int /\ 0 \in Scalars /\ 0 \in Int
    BY <1>1, OrderFacts
  <2>2. Same(Evaluate(g, i) * (1 + c * i), 0)
    <3>1. CASE i = a
      <4>1. Same(1 + c * a, 0)
        <5>1. a * y \in Int
          BY <1>1, <1>3
        <5>2. Same((a * y) % Q, a * y)
          BY <5>1, ModSame
        <5>3. PICK k1 \in Int : 1 = a * y + k1 * Q
          BY <1>2, <5>2 DEF Same, SameModulo
        <5>4. 1 + c * a = 0 + k1 * Q
          <6>1. c * a = - (a * y)
            BY <1>1, <1>3
          <6>2. QED
            BY <5>1, <5>3, <6>1, OrderFacts
        <5>5. QED
          BY <5>4 DEF Same, SameModulo
      <4> DEFINE e == Evaluate(g, a)
                 w == 1 + c * a
                 z == 0
      <4>2. e \in Int /\ w \in Int /\ z \in Int /\ Same(e, e) /\ Same(w, z) /\ e * z = 0
        BY <1>1, <1>4, <1>11, <4>1, SameSelf
      <4> HIDE DEF e, w, z
      <4>3. Same(e * w, e * z)
        BY <4>2, SameTimes
      <4>4. QED
        BY <3>1, <4>2, <4>3 DEF e, w
    <3>2. CASE i # a
      <4>1. Evaluate(g, i) = 0
        BY <3>2 DEF Vanishes
      <4>2. 1 + c * i \in Int
        BY <1>4, <2>1
      <4> DEFINE w == 1 + c * i
      <4> HIDE DEF w
      <4>3. 0 * w = 0 /\ Same(0, 0)
        BY <4>2, SameSelf DEF w
      <4>4. QED
        BY <4>1, <4>3 DEF w
    <3>3. QED
      BY <3>1, <3>2
  <2>3. Same(Evaluate(h, i), Evaluate(g, i) * (1 + c * i))
    BY <1>10, <2>1
  <2>4. Evaluate(g, i) * (1 + c * i) \in Int /\ Evaluate(h, i) \in Int /\ Evaluate(h, i) \in Scalars
    BY <1>4, <1>11, <2>1
  <2>5. Same(Evaluate(h, i), 0)
    BY <2>1, <2>2, <2>3, <2>4, SameChain
  <2>6. QED
    BY <2>1, <2>4, <2>5, SameEqual
<1>13. ASSUME NEW l \in 1 .. Threshold, l > k + 1
       PROVE  h[l] = 0
  <2>1. l \in 2 .. Threshold /\ l - 1 \in 1 .. Threshold /\ l > k /\ l - 1 > k
    BY <1>3, <1>13
  <2>2. g[l] = 0 /\ g[l - 1] = 0
    BY <2>1 DEF Vanishes
  <2>3. h[l] = (0 + c * 0) % Q
    BY <1>6, <2>1, <2>2
  <2>4. 0 + c * 0 = 0 /\ 0 % Q = 0
    BY <1>4, OrderFacts
  <2>5. QED
    BY <2>3, <2>4
<1>14. Vanishes(h, ids, k + 1)
  BY <1>7, <1>8, <1>9, <1>12, <1>13 DEF Vanishes
<1>15. QED
  BY <1>14

LEMMA Vanishing ==
  ASSUME NEW ids \in SUBSET Participants, Cardinality(ids) < Threshold
  PROVE  \E g \in Polynomials : g[1] = 1 /\ \A i \in ids : Evaluate(g, i) = 0
<1> DEFINE S == {n \in Nat : \A js \in SUBSET Participants :
                   Cardinality(js) = n /\ n < Threshold => \E g : Vanishes(g, js, n + 1)}
<1>1. ASSUME NEW n \in Nat, \A m \in Nat : m < n => m \in S, NEW js \in SUBSET Participants,
             Cardinality(js) = n, n < Threshold
      PROVE  \E g : Vanishes(g, js, n + 1)
  <2>1. CASE n = 0
    <3>1. js = {}
      <4>1. IsFiniteSet(js)
        BY ParticipantSets
      <4>2. QED
        BY <1>1, <2>1, <4>1, FS_EmptySet
    <3>2. 0 + 1 = 1
      OBVIOUS
    <3>3. QED
      BY <2>1, <3>1, <3>2, VanishingOne
  <2>2. CASE n # 0
    <3>1. PICK a : a \in js
      BY <1>1, <2>2, ParticipantSets
    <3>2. /\ js \ {a} \in SUBSET Participants /\ Cardinality(js \ {a}) = n - 1
          /\ n - 1 \in Nat /\ n - 1 < n /\ n - 1 < Threshold /\ n - 1 + 1 = n /\ n >= 1
      BY <1>1, <2>2, <3>1, ParticipantSets, SharingAssumption
    <3>3. \E g : Vanishes(g, js \ {a}, n - 1 + 1)
      <4>1. n - 1 \in S
        BY <1>1, <3>2
      <4>2. QED
        BY <3>2, <4>1
    <3>4. PICK g : Vanishes(g, js \ {a}, n)
      BY <3>2, <3>3
    <3>5. QED
      BY <1>1, <3>1, <3>2, <3>4, VanishingStep
  <2>3. QED
    BY <2>1, <2>2
<1>2. S = Nat
  <2>1. \A n \in Nat : (\A m \in Nat : m < n => m \in S) => n \in S
    BY <1>1
  <2> HIDE DEF S
  <2>2. S \in SUBSET Nat
    BY DEF S
  <2>3. QED
    BY <2>1, <2>2, Induction
<1>3. Cardinality(ids) \in S
  BY <1>2, ParticipantSets
<1>4. PICK g : Vanishes(g, ids, Cardinality(ids) + 1)
  BY <1>3
<1>5. QED
  BY <1>4 DEF Vanishes

\* Fewer than Threshold values of a polynomial are those of one with any secret.
LEMMA AnySecretFits ==
  ASSUME NEW f \in Polynomials, NEW ids \in SUBSET Participants, Cardinality(ids) < Threshold,
         NEW secret \in Scalars
  PROVE  \E h \in Polynomials : h[1] = secret /\ \A i \in ids : Evaluate(h, i) = Evaluate(f, i)
<1>1. PICK g \in Polynomials : g[1] = 1 /\ \A i \in ids : Evaluate(g, i) = 0
  BY Vanishing
<1> DEFINE c == secret - f[1]
           h == [k \in 1 .. Threshold |-> (f[k] + c * g[k]) % Q]
<1>2. \A k \in 1 .. Threshold : f[k] \in Int /\ g[k] \in Int
  BY CoefficientType
<1>3. 1 \in 1 .. Threshold /\ f[1] \in Int /\ secret \in Int /\ c \in Int
  BY <1>2, SharingAssumption, OrderFacts DEF Scalars
<1>4. ASSUME NEW k \in 1 .. Threshold
      PROVE  h[k] = (f[k] + c * g[k]) % Q /\ h[k] \in Scalars /\ Same(h[k], f[k] + c * g[k])
  <2>1. h[k] = (f[k] + c * g[k]) % Q
    OBVIOUS
  <2> HIDE DEF h, c
  <2>2. f[k] + c * g[k] \in Int
    BY <1>2, <1>3
  <2>3. QED
    BY <2>1, <2>2, ModSame
<1>5. h \in Polynomials
  <2>1. h = [k \in 1 .. Threshold |-> h[k]]
    OBVIOUS
  <2> HIDE DEF h
  <2>2. QED
    BY <1>4, <2>1 DEF Polynomials
<1>6. h[1] = secret
  <2>1. Same(h[1], f[1] + c * g[1]) /\ h[1] \in Scalars
    BY <1>3, <1>4
  <2>2. f[1] + c * g[1] = secret
    BY <1>1, <1>3
  <2> HIDE DEF h
  <2>3. QED
    BY <2>1, <2>2, SameEqual
<1> HIDE DEF h, c
<1>7. ASSUME NEW i \in ids
      PROVE  Evaluate(h, i) = Evaluate(f, i)
  <2>1. i \in Int
    BY SharingAssumption DEF Participants
  <2>2. /\ Evaluate(h, i) \in Scalars /\ Evaluate(f, i) \in Scalars /\ Evaluate(f, i) \in Int
        /\ Evaluate(g, i) = 0
    BY <1>1, <1>5, <2>1, EvaluateType, PolynomialType
  <2>3. Same(Evaluate(h, i), Evaluate(f, i) + c * Evaluate(g, i))
    BY <1>1, <1>3, <1>4, <1>5, <2>1, EvaluateCombined
  <2>4. Evaluate(f, i) + c * 0 = Evaluate(f, i)
    BY <1>3, <2>2
  <2>5. Same(Evaluate(h, i), Evaluate(f, i))
    BY <2>2, <2>3, <2>4
  <2>6. QED
    BY <2>2, <2>5, SameEqual
<1>8. QED
  BY <1>5, <1>6, <1>7
-----------------------------------------------------------------------------
(* Nonces.  Those a signer holds are younger than any it has signed with.  *)

Drawn == {s.drawn : s \in sent}

NonceTypes ==
  /\ attempt \in Nat 
  /\ nonces \in [Participants -> [hiding : Scalars, binding : Scalars, drawn : Nat] \cup {NoNonces}]
  /\ \A s \in sent : s.drawn \in Nat /\ s.participant_id \in Participants

\* What was drawn in the current attempt is committed to in the package.
DrawnCommitted ==
  /\ \A p \in Participants : nonces[p] # NoNonces =>
       nonces[p].drawn <= attempt /\ (nonces[p].drawn = attempt => p \in Committed)
  /\ \A s \in sent :
       s.drawn <= attempt /\ (s.drawn = attempt => s.participant_id \in Committed)

HeldUnused ==
  \A s \in sent : nonces[s.participant_id] # NoNonces =>
    s.drawn # nonces[s.participant_id].drawn

NonceInv == NonceTypes /\ DrawnCommitted /\ HeldUnused /\ NoncesServeOnce

\* Key generation and the aggregator's bookkeeping touch neither nonces nor shares.
LEMMA NonceInvKept ==
  ASSUME NonceInv, UNCHANGED <<attempt, package, nonces, sent>>
  PROVE  NonceInv'
BY DEF NonceInv, NonceTypes, DrawnCommitted, HeldUnused, NoncesServeOnce, Committed

\* A new attempt: nothing was drawn in it yet.
LEMMA NonceInvNewAttempt ==
  ASSUME NonceInv, attempt' = attempt + 1, UNCHANGED <<nonces, sent>>
  PROVE  NonceInv'
BY DEF NonceInv, NonceTypes, DrawnCommitted, HeldUnused, NoncesServeOnce

LEMMA NonceInvRound1 ==
  ASSUME NonceInv, NEW p \in Participants, Round1(p)
  PROVE  NonceInv'
<1>1. PICK pair \in Nonces[p] :
        /\ nonces' = [nonces EXCEPT ![p] =
             [hiding |-> pair[1], binding |-> pair[2], drawn |-> attempt]]
        /\ package' = Package(package.signer_ids, package.message, package.commitments \cup
             {[participant_id |-> p, hiding |-> pair[1], binding |-> pair[2]]})
  BY DEF Round1
<1>2. p \notin Committed /\ UNCHANGED <<attempt, sent>>
  BY DEF Round1
<1>3. pair[1] \in Scalars /\ pair[2] \in Scalars
  BY SigningAssumption
<1>4. NonceTypes'
  BY <1>1, <1>2, <1>3 DEF NonceInv, NonceTypes
<1>5. \A q \in Participants \ {p} : nonces'[q] = nonces[q]
  BY <1>1 DEF NonceInv, NonceTypes
<1>6. nonces'[p].drawn = attempt
  BY <1>1 DEF NonceInv, NonceTypes
<1>7. Committed \cup {p} \subseteq Committed'
  <2> DEFINE mine == [participant_id |-> p, hiding |-> pair[1], binding |-> pair[2]]
  <2>1. package'.commitments = package.commitments \cup {mine}
    BY <1>1 DEF Package
  <2>2. mine.participant_id = p
    OBVIOUS
  <2> HIDE DEF mine
  <2> QED BY <2>1, <2>2 DEF Committed
<1>8. DrawnCommitted'
  BY <1>2, <1>5, <1>6, <1>7 DEF NonceInv, NonceTypes, DrawnCommitted
<1>9. \A s \in sent : s.participant_id = p => s.drawn # attempt
  BY <1>2 DEF NonceInv, DrawnCommitted
<1>10. HeldUnused'
  BY <1>2, <1>5, <1>6, <1>9 DEF NonceInv, NonceTypes, HeldUnused
<1>11. NoncesServeOnce'
  BY <1>2 DEF NonceInv, NoncesServeOnce
<1> QED BY <1>4, <1>8, <1>10, <1>11 DEF NonceInv

LEMMA NonceInvRound2 ==
  ASSUME NonceInv, NEW p \in Participants, Round2(p)
  PROVE  NonceInv'
<1> DEFINE share == [participant_id |-> p, attempt |-> attempt,
                     drawn |-> nonces[p].drawn, z |-> SignatureShare(p)]
<1>1. /\ nonces[p] # NoNonces /\ sent' = sent \cup {share}
      /\ nonces' = [nonces EXCEPT ![p] = NoNonces] /\ UNCHANGED <<attempt, package>>
  BY DEF Round2, Spent
<1>2. /\ share.participant_id = p /\ share.drawn = nonces[p].drawn
      /\ nonces[p].drawn \in Nat
  BY <1>1 DEF NonceInv, NonceTypes
<1> HIDE DEF share
<1>3. NonceTypes'
  BY <1>1, <1>2 DEF NonceInv, NonceTypes
<1>4. nonces'[p] = NoNonces /\ \A q \in Participants \ {p} : nonces'[q] = nonces[q]
  BY <1>1 DEF NonceInv, NonceTypes
<1>5. Committed' = Committed
  BY <1>1 DEF Committed
<1>6. DrawnCommitted'
  BY <1>1, <1>2, <1>4, <1>5 DEF NonceInv, NonceTypes, DrawnCommitted
<1>7. HeldUnused'
  BY <1>1, <1>2, <1>4 DEF NonceInv, NonceTypes, HeldUnused
<1>8. NoncesServeOnce'
  BY <1>1, <1>2 DEF NonceInv, NonceTypes, HeldUnused, NoncesServeOnce
<1> QED BY <1>3, <1>6, <1>7, <1>8 DEF NonceInv

LEMMA NoncesStart == Init => NonceInv
BY DEF Init, NonceInv, NonceTypes, DrawnCommitted, HeldUnused, NoncesServeOnce

LEMMA NonceInvNext == NonceInv /\ [Next]_vars => NonceInv'
<1> SUFFICES ASSUME NonceInv, [Next]_vars PROVE NonceInv'
  OBVIOUS
<1>1. CASE UNCHANGED vars
  BY <1>1, NonceInvKept DEF vars, signing
<1>2. CASE DkgNext /\ UNCHANGED signing
  BY <1>2, NonceInvKept DEF signing
<1>3. CASE Begin \/ Repackage
  BY <1>3, NonceInvNewAttempt DEF Begin, Repackage
<1>4. ASSUME NEW p \in Participants, Round1(p) PROVE NonceInv'
  BY <1>4, NonceInvRound1
<1>5. ASSUME NEW p \in Participants, Round2(p) PROVE NonceInv'
  BY <1>5, NonceInvRound2
<1>6. ASSUME NEW p, NEW z, Receive(p, z) PROVE NonceInv'
  BY <1>6, NonceInvKept DEF Receive
<1> QED BY <1>1, <1>2, <1>3, <1>4, <1>5, <1>6 DEF Next, Sign

LEMMA NonceInvAlways == Spec => []NonceInv
BY NoncesStart, NonceInvNext, PTL DEF Spec

\* No nonce pair makes two signature shares, however often the aggregator starts
\* over and whichever signers it drops (round2_sign takes SecretNonces by value).
THEOREM NoncesNeverReused == Spec => []NoncesServeOnce
<1>1. NonceInv => NoncesServeOnce
  BY DEF NonceInv
<1> QED BY <1>1, NonceInvAlways, PTL

-----------------------------------------------------------------------------
(* Honest dealers.  A dealer's own shares verify, by the algebra of the    *)
(* two evaluation rules (Feldman), so its answers do.                      *)

LEMMA ParticipantType == \A p \in Participants : p \in Int /\ p # 0
  BY SharingAssumption DEF Participants

DealerTypes ==
  /\ DOMAIN commitments = Participants /\ DOMAIN verdicts = Participants
  /\ Unfinished => coefficients \in [Participants -> Polynomials]
  /\ \A c \in complaints : c.dealer_index \in Participants
  /\ complaints \cup disclosures # {} => Revealed

\* Honest dealers broadcast their own polynomial, and answer with valid shares.
Consistent ==
  \A d \in Participants \ Inconsistent :
    Unfinished => commitments[d] = << >> \/ commitments[d] = coefficients[d]
ValidAnswers ==
  \A m \in disclosures : m.dealer_index \in Inconsistent \/
    VerifyShare(commitments[m.dealer_index], m.accuser, m.disclosed)

DealerInv == DealerTypes /\ Consistent /\ ValidAnswers /\ HonestDealersStay

LEMMA RevealKeeps ==
  ASSUME DealerInv, NEW d \in Participants, Reveal(d)
  PROVE  DealerInv'
<1>1. PICK broadcast \in {draw[d] : draw \in Draws} :
        /\ d \in Inconsistent \/ broadcast = coefficients[d]
        /\ commitments' = [commitments EXCEPT ![d] = broadcast]
  BY DEF Reveal
<1>2. /\ commitments[d] = << >>
      /\ UNCHANGED <<coefficients, complaints, disclosures, verdicts, keyshare>>
  BY DEF Reveal, disputes
<1>3. complaints = {} /\ disclosures = {}
  BY <1>2 DEF DealerInv, DealerTypes, Revealed
<1>4. DealerTypes'
  BY <1>1, <1>2, <1>3 DEF DealerInv, DealerTypes, Unfinished
<1>5. Consistent'
  BY <1>1, <1>2 DEF DealerInv, DealerTypes, Consistent, Unfinished
<1>6. ValidAnswers' /\ HonestDealersStay'
  BY <1>2, <1>3 DEF DealerInv, ValidAnswers, HonestDealersStay, Excluded
<1> QED BY <1>4, <1>5, <1>6 DEF DealerInv

LEMMA ComplaintsKeep ==
  ASSUME DealerInv, ComplainWithoutCause \/ \E p, d \in Participants : Complain(p, d)
  PROVE  DealerInv'
<1>1. /\ Revealed
      /\ UNCHANGED <<coefficients, commitments, disclosures, verdicts, keyshare>>
  BY DEF ComplainWithoutCause, Complain, dealings
<1>2. PICK c : c.dealer_index \in Participants /\ complaints' = complaints \cup {c}
  <2>1. CASE ComplainWithoutCause
    BY <2>1, DealingAssumption DEF ComplainWithoutCause
  <2>2. CASE \E p, d \in Participants : Complain(p, d)
    BY <2>2 DEF Complain
  <2> QED BY <2>1, <2>2
<1>3. DealerTypes'
  BY <1>1, <1>2 DEF DealerInv, DealerTypes, Unfinished, Revealed
<1>4. Consistent' /\ ValidAnswers' /\ HonestDealersStay'
  BY <1>1 DEF DealerInv, Consistent, Unfinished, ValidAnswers, HonestDealersStay, Excluded
<1> QED BY <1>3, <1>4 DEF DealerInv

LEMMA DiscloseKeeps ==
  ASSUME DealerInv, NEW c \in complaints, Disclose(c)
  PROVE  DealerInv'
<1> DEFINE d == c.dealer_index
           m == [dealer_index |-> d, accuser |-> c.accuser,
                 disclosed |-> ShareFor(d, c.accuser)]
<1>1. /\ Unfinished /\ ShareFor(d, c.accuser) # NoShare
      /\ disclosures' = disclosures \cup {m}
      /\ UNCHANGED <<coefficients, commitments, complaints, verdicts, keyshare>>
  BY DEF Disclose, dealings
<1>2. d \in Participants /\ Revealed
  BY DEF DealerInv, DealerTypes
<1>3. c.accuser \in Participants /\ ShareFor(d, c.accuser) = Evaluate(coefficients[d], c.accuser)
  BY <1>1 DEF ShareFor
<1>4. ASSUME d \notin Inconsistent
      PROVE  VerifyShare(commitments[d], c.accuser, ShareFor(d, c.accuser))
  <2>1. commitments[d] = coefficients[d] /\ coefficients[d] \in Polynomials
    BY <1>1, <1>2, <1>4 DEF DealerInv, DealerTypes, Consistent, Revealed
  <2>2. EvaluateCommitment(commitments[d], c.accuser) = Evaluate(coefficients[d], c.accuser)
    BY <2>1, <1>3, Feldman, PolynomialType, ParticipantType
  <2>3. c.accuser # 0
    BY <1>3, ParticipantType
  <2> QED BY <2>2, <2>3, <1>3 DEF VerifyShare
<1>5. m.dealer_index = d /\ m.accuser = c.accuser /\ m.disclosed = ShareFor(d, c.accuser)
  OBVIOUS
<1> HIDE DEF m
<1>6. ValidAnswers'
  BY <1>1, <1>4, <1>5 DEF DealerInv, ValidAnswers, VerifyShare
<1>7. DealerTypes'
  BY <1>1, <1>2 DEF DealerInv, DealerTypes, Unfinished, Revealed
<1>8. Consistent' /\ HonestDealersStay'
  BY <1>1 DEF DealerInv, Consistent, Unfinished, HonestDealersStay, Excluded
<1> QED BY <1>6, <1>7, <1>8 DEF DealerInv

LEMMA ResolveKeeps ==
  ASSUME DealerInv, NEW p \in Participants, NEW c \in complaints, NEW m \in disclosures,
         Resolve(p, c, m)
  PROVE  DealerInv'
<1> DEFINE d == c.dealer_index
           verdict == ResolveComplaint(commitments[d], c, m.disclosed)
           v == [complaint |-> c, verdict |-> verdict]
<1>1. /\ m.dealer_index = d /\ m.accuser = c.accuser
      /\ verdicts' = [verdicts EXCEPT ![p] = @ \cup {v}]
      /\ UNCHANGED <<coefficients, commitments, complaints, disclosures, keyshare>>
  BY DEF Resolve, dealings
<1>2. IsFaulty(verdict) => d \in Inconsistent
  <2>1. SUFFICES ASSUME d \notin Inconsistent PROVE ~IsFaulty(verdict)
    OBVIOUS
  <2>2. VerifyShare(commitments[d], c.accuser, m.disclosed)
    BY <1>1, <2>1 DEF DealerInv, ValidAnswers
  <2> QED BY <2>2 DEF ResolveComplaint, IsFaulty
<1>3. v.complaint.dealer_index = d /\ v.verdict = verdict
  OBVIOUS
<1> HIDE DEF v, verdict, d
<1>4. \A q \in Participants : Excluded(q)' \subseteq Excluded(q) \cup Inconsistent
  <2> TAKE q \in Participants
  <2>1. \A w \in verdicts'[q] : w \in verdicts[q] \/ w = v
    BY <1>1 DEF DealerInv, DealerTypes
  <2> QED BY <2>1, <1>2, <1>3 DEF Excluded
<1>5. HonestDealersStay'
  BY <1>4 DEF DealerInv, HonestDealersStay
<1>6. DealerTypes' /\ Consistent' /\ ValidAnswers'
  BY <1>1 DEF DealerInv, DealerTypes, Consistent, ValidAnswers, Unfinished, Revealed
<1> QED BY <1>5, <1>6 DEF DealerInv

LEMMA DismissKeeps ==
  ASSUME DealerInv, NEW p \in Participants, NEW c \in complaints, Dismiss(p, c)
  PROVE  DealerInv'
<1> DEFINE verdict == ResolveComplaint(commitments[c.dealer_index], c, 0)
           v == [complaint |-> c, verdict |-> verdict]
<1>1. /\ c.accuser = 0 /\ verdicts' = [verdicts EXCEPT ![p] = @ \cup {v}]
      /\ UNCHANGED <<coefficients, commitments, complaints, disclosures, keyshare>>
  BY DEF Dismiss, dealings
<1>2. ~IsFaulty(v.verdict)
  BY <1>1 DEF ResolveComplaint, IsFaulty
<1> HIDE DEF v
<1>3. \A q \in Participants : \A w \in verdicts'[q] : w \in verdicts[q] \/ w = v
  BY <1>1 DEF DealerInv, DealerTypes
<1>4. HonestDealersStay'
  BY <1>2, <1>3 DEF DealerInv, HonestDealersStay, Excluded
<1>5. DealerTypes' /\ Consistent' /\ ValidAnswers'
  BY <1>1 DEF DealerInv, DealerTypes, Consistent, ValidAnswers, Unfinished, Revealed
<1> QED BY <1>4, <1>5 DEF DealerInv

LEMMA FinalizeKeeps ==
  ASSUME DealerInv, NEW p \in Participants, Finalize(p)
  PROVE  DealerInv'
<1>1. ~Unfinished' /\ UNCHANGED <<commitments, complaints, disclosures, verdicts>>
  BY DEF Finalize, Unfinished, disputes
<1> QED
  BY <1>1 DEF DealerInv, DealerTypes, Consistent, ValidAnswers, HonestDealersStay, Excluded,
              Revealed

\* Signing begins with the dealings and the exclusions there are.
LEMMA BeginKeeps ==
  ASSUME DealerInv, Begin
  PROVE  DealerInv'
<1>1. /\ complaints' = {} /\ disclosures' = {}
      /\ verdicts' = [p \in Participants |-> {v \in verdicts[p] : IsFaulty(v.verdict)}]
      /\ UNCHANGED <<coefficients, commitments, keyshare>>
  BY DEF Begin, Retire, dealings
<1>2. HonestDealersStay'
  BY <1>1 DEF DealerInv, HonestDealersStay, Excluded
<1>3. DealerTypes' /\ Consistent' /\ ValidAnswers'
  BY <1>1 DEF DealerInv, DealerTypes, Consistent, ValidAnswers, Unfinished
<1> QED BY <1>2, <1>3 DEF DealerInv

LEMMA DealersStart == Init => DealerInv
BY DealingAssumption
DEF Init, DkgInit, DealerInv, DealerTypes, Consistent, ValidAnswers, HonestDealersStay,
    Excluded

LEMMA DealerInvNext == DealerInv /\ [Next]_vars => DealerInv'
<1> SUFFICES ASSUME DealerInv, [Next]_vars PROVE DealerInv'
  OBVIOUS
<1>1. CASE UNCHANGED dkgVars
  BY <1>1 DEF dkgVars, dealings, disputes, DealerInv, DealerTypes, Consistent, ValidAnswers,
              HonestDealersStay, Excluded, Unfinished, Revealed
<1>2. CASE DkgNext
  BY <1>2, RevealKeeps, ComplaintsKeep, DiscloseKeeps, ResolveKeeps, DismissKeeps,
     FinalizeKeeps DEF DkgNext
<1>3. CASE Begin
  BY <1>3, BeginKeeps
<1>4. CASE Sign /\ ~Begin
  BY <1>4, <1>1 DEF Sign, Repackage, Round1, Round2, Receive
<1> QED BY <1>1, <1>2, <1>3, <1>4 DEF Next, vars

\* Nobody excludes a dealer that broadcast the commitments of its own polynomial,
\* for any number of mistaken or untrue complaints (resolve_complaint, is_faulty).
THEOREM NoHonestDealerExcluded == Spec => []HonestDealersStay
<1>1. DealerInv => HonestDealersStay
  BY DEF DealerInv
<1> QED BY <1>1, DealersStart, DealerInvNext, PTL DEF Spec

-----------------------------------------------------------------------------
(***************************************************************************)
(* The keys.  Until the first participant finalizes, the verdicts of       *)
(* different participants come from the same answers; from then on the     *)
(* complaint round is settled and none changes.  A participant finalizes   *)
(* with shares that verify, or has excluded the dealer.                    *)
(***************************************************************************)
Answers(m, c) == m.dealer_index = c.dealer_index /\ m.accuser = c.accuser

RoundTypes ==
  /\ Unfinished => coefficients \in [Participants -> Polynomials]
  /\ DOMAIN received = Participants /\ \A p \in Participants : DOMAIN received[p] = Participants
  /\ \A c \in complaints : c.dealer_index \in Participants
  /\ complaints # {} => Revealed

OneAnswer ==
  /\ \A m \in disclosures : m.accuser \in Participants
  /\ Unfinished => \A m \in disclosures : m.disclosed = ShareFor(m.dealer_index, m.accuser)
  /\ \A m, n \in disclosures : Answers(m, n) => m.disclosed = n.disclosed

VerdictsAnswered ==
  \A p \in Participants : \A v \in verdicts[p] :
    /\ v.complaint \in complaints
    /\ \/ v.complaint.accuser = 0 /\ v.verdict = "MalformedComplaint"
       \/ \E m \in disclosures :
            /\ Answers(m, v.complaint)
            /\ v.verdict = ResolveComplaint(commitments[v.complaint.dealer_index], v.complaint,
                                            m.disclosed)

\* A share arrives as it was dealt, or it may be altered.
SharesArrive ==
  Unfinished => \A p, d \in Participants :
    \/ commitments[d] = << >> \/ <<d, p>> \in Garbled
    \/ received[p][d] = Evaluate(coefficients[d], p)

\* An accuser whose claim the dealer disproved holds a valid share.
Repaired ==
  \A p \in Participants : \A v \in verdicts[p] :
    v.complaint.accuser = p
      /\ v.verdict = "DisclosureIsValidButContradictsTheAccusersClaim" =>
    VerifyShare(commitments[v.complaint.dealer_index], p, received[p][v.complaint.dealer_index])

RoundInv ==
  /\ RoundTypes /\ OneAnswer /\ VerdictsAnswered /\ SharesArrive /\ Repaired
  /\ ~Unfinished => Settled

KeyTypes ==
  /\ DOMAIN keyshare \subseteq Participants /\ DOMAIN verdicts = Participants
  /\ commitments \in [Participants -> {<< >>} \cup Polynomials]

\* What a finalized key is made of.
KeysDealt ==
  \A p \in DOMAIN keyshare :
    /\ keyshare[p].secret_share = PublicVerificationShare(p, Excluded(p))
    /\ keyshare[p].group_public_key = SumOfC0(Excluded(p))

OneExclusion == \A p, q \in Participants : Excluded(p) = Excluded(q)

DealingInv ==
  /\ KeyTypes /\ KeysDealt /\ RoundInv
  /\ ~Unfinished => Revealed /\ OneExclusion

KeyInv ==
  /\ KeyTypes /\ KeysDealt
  /\ ~Unfinished => Revealed /\ OneExclusion
  /\ attempt \in Nat
  /\ attempt = 0 => RoundInv /\ package.signer_ids = {}
  /\ attempt # 0 => Finished /\ complaints = {}

\* Once the round is settled, everyone excludes the same dealers.
LEMMA SameExclusions ==
  ASSUME OneAnswer, VerdictsAnswered, Settled, NEW p \in Participants, NEW q \in Participants
  PROVE  Excluded(p) \subseteq Excluded(q)
<1> SUFFICES ASSUME NEW v \in verdicts[p], IsFaulty(v.verdict)
             PROVE  v.complaint.dealer_index \in Excluded(q)
  BY DEF Excluded
<1> DEFINE c == v.complaint
<1>1. PICK m \in disclosures :
        /\ Answers(m, c)
        /\ v.verdict = ResolveComplaint(commitments[c.dealer_index], c, m.disclosed)
  BY DEF VerdictsAnswered, IsFaulty
<1>2. c \in complaints /\ c.accuser \in Participants /\ c.accuser # 0
  BY <1>1, ParticipantType DEF VerdictsAnswered, OneAnswer, Answers
<1>3. PICK w \in verdicts[q] : w.complaint = c
  BY <1>2 DEF Settled
<1>4. PICK n \in disclosures :
        /\ Answers(n, c)
        /\ w.verdict = ResolveComplaint(commitments[c.dealer_index], c, n.disclosed)
  BY <1>2, <1>3 DEF VerdictsAnswered
<1>5. m.disclosed = n.disclosed
  BY <1>1, <1>4 DEF OneAnswer, Answers
<1>6. IsFaulty(w.verdict)
  BY <1>1, <1>4, <1>5
<1> QED BY <1>3, <1>6 DEF Excluded

\* Once the round is settled, the shares of the dealers that stay are valid.
LEMMA SharesVerify ==
  ASSUME OneAnswer, VerdictsAnswered, Repaired, Settled,
         NEW p \in Participants, NEW d \in Participants \ Excluded(p)
  PROVE  VerifyShare(commitments[d], p, received[p][d])
<1> SUFFICES ASSUME ~VerifyShare(commitments[d], p, received[p][d]) PROVE FALSE
  OBVIOUS
<1> DEFINE c == [accuser |-> p, dealer_index |-> d, received_share |-> received[p][d]]
<1>1. c \in complaints
  BY DEF Settled
<1>2. c.accuser = p /\ c.dealer_index = d /\ c.received_share = received[p][d]
  OBVIOUS
<1> HIDE DEF c
<1>3. PICK v \in verdicts[p] : v.complaint = c
  BY <1>1, <1>2 DEF Settled
<1>4. PICK m \in disclosures : v.verdict = ResolveComplaint(commitments[d], c, m.disclosed)
  BY <1>2, <1>3, ParticipantType DEF VerdictsAnswered
<1>5. p # 0
  BY ParticipantType
<1>6. ~IsFaulty(v.verdict)
  BY <1>2, <1>3 DEF Excluded
<1>7. VerifyShare(commitments[d], p, m.disclosed)
  BY <1>2, <1>4, <1>5, <1>6 DEF ResolveComplaint, IsFaulty
<1>8. m.disclosed # c.received_share
  BY <1>2, <1>7
<1>9. v.verdict = "DisclosureIsValidButContradictsTheAccusersClaim"
  BY <1>2, <1>4, <1>5, <1>7, <1>8 DEF ResolveComplaint
<1> QED BY <1>2, <1>3, <1>9 DEF Repaired

LEMMA RoundStarts == DkgInit => DealingInv
<1> SUFFICES ASSUME DkgInit PROVE DealingInv
  OBVIOUS
<1>1. /\ coefficients \in Draws /\ commitments = [d \in Participants |-> << >>]
      /\ received = [p \in Participants |-> [d \in Participants |-> NoShare]]
      /\ complaints = {} /\ disclosures = {} /\ verdicts = [p \in Participants |-> {}]
      /\ keyshare = << >>
  BY DEF DkgInit
<1>2. DOMAIN keyshare = {} /\ Unfinished
  BY <1>1 DEF Unfinished
<1>3. RoundTypes /\ OneAnswer /\ VerdictsAnswered /\ SharesArrive /\ Repaired
  BY <1>1, <1>2, DealingAssumption
  DEF RoundTypes, OneAnswer, VerdictsAnswered, SharesArrive, Repaired
<1>4. KeyTypes /\ KeysDealt
  BY <1>1, <1>2 DEF KeyTypes, KeysDealt
<1> QED BY <1>2, <1>3, <1>4 DEF DealingInv, RoundInv

LEMMA KeysStart == Init => KeyInv
BY RoundStarts DEF Init, DealingInv, KeyInv, Package

\* What the operators of key generation read.
LEMMA SameRound ==
  ASSUME UNCHANGED <<commitments, verdicts, keyshare>>
  PROVE  /\ KeyTypes => KeyTypes'
         /\ KeysDealt => KeysDealt'
         /\ OneExclusion => OneExclusion'
         /\ Unfinished' = Unfinished /\ Revealed' = Revealed
BY DEF KeyTypes, KeysDealt, OneExclusion, Unfinished, Revealed, Excluded,
       PublicVerificationShare, SumOfC0

\* A round without complaints has no answers and no verdicts yet.
LEMMA RevealInRound ==
  ASSUME DealingInv, NEW d \in Participants, Reveal(d)
  PROVE  RoundInv' /\ KeyTypes' /\ KeysDealt' /\ Unfinished'
<1>1. /\ commitments[d] = << >>
      /\ UNCHANGED <<coefficients, complaints, disclosures, verdicts, keyshare>>
  BY DEF Reveal, disputes
<1>2. PICK broadcast \in {draw[d] : draw \in Draws}, shares \in [Participants -> Scalars] :
        /\ \A p \in Participants :
             <<d, p>> \in Garbled \/ shares[p] = Evaluate(coefficients[d], p)
        /\ commitments' = [commitments EXCEPT ![d] = broadcast]
        /\ received' = [p \in Participants |-> [received[p] EXCEPT ![d] = shares[p]]]
  BY DEF Reveal
<1>3. RoundInv
  BY DEF DealingInv
<1>4. complaints = {} /\ ~Settled
  BY <1>1, <1>3 DEF RoundInv, RoundTypes, Settled, Revealed
<1>5. Unfinished /\ \A p \in Participants : verdicts[p] = {}
  BY <1>3, <1>4 DEF RoundInv, VerdictsAnswered
<1>6. Unfinished' /\ DOMAIN keyshare = {}
  BY <1>1, <1>5 DEF Unfinished
<1>7. broadcast \in Polynomials
  BY <1>2, DealingAssumption
<1>8. /\ \A e \in Participants \ {d} : commitments'[e] = commitments[e]
      /\ commitments'[d] = broadcast /\ DOMAIN commitments' = Participants
  BY <1>2 DEF DealingInv, KeyTypes
<1>9. KeyTypes' /\ KeysDealt'
  BY <1>1, <1>2, <1>6, <1>7 DEF DealingInv, KeyTypes, KeysDealt
<1>10. /\ DOMAIN received' = Participants /\ \A p \in Participants : DOMAIN received'[p] = Participants
       /\ \A p \in Participants : received'[p][d] = shares[p]
       /\ \A p \in Participants : \A e \in Participants \ {d} : received'[p][e] = received[p][e]
  BY <1>2, <1>3 DEF RoundInv, RoundTypes
<1>11. RoundTypes' /\ OneAnswer'
  BY <1>1, <1>3, <1>4, <1>5, <1>6, <1>10 DEF RoundInv, RoundTypes, OneAnswer, ShareFor
<1>12. SharesArrive'
  <2> SUFFICES ASSUME NEW p \in Participants, NEW e \in Participants
               PROVE  commitments'[e] = << >> \/ <<e, p>> \in Garbled
                        \/ received'[p][e] = Evaluate(coefficients[e], p)
    BY <1>1 DEF SharesArrive
  <2>1. CASE e = d
    BY <1>2, <1>10, <2>1
  <2>2. CASE e # d
    BY <1>3, <1>5, <1>8, <1>10, <2>2 DEF RoundInv, SharesArrive
  <2> QED BY <2>1, <2>2
<1>13. VerdictsAnswered' /\ Repaired'
  BY <1>1, <1>5 DEF VerdictsAnswered, Repaired
<1> QED BY <1>6, <1>9, <1>11, <1>12, <1>13 DEF RoundInv

LEMMA ComplaintsInRound ==
  ASSUME RoundInv, ComplainWithoutCause \/ \E p, d \in Participants : Complain(p, d)
  PROVE  RoundInv'
<1>1. /\ Revealed /\ Unfinished /\ complaints \subseteq complaints'
      /\ UNCHANGED <<coefficients, commitments, received, disclosures, verdicts, keyshare>>
  BY DEF ComplainWithoutCause, Complain, dealings
<1>2. \A c \in complaints' : c.dealer_index \in Participants
  <2>1. CASE ComplainWithoutCause
    BY <2>1, DealingAssumption DEF ComplainWithoutCause, RoundInv, RoundTypes
  <2>2. CASE \E p, d \in Participants : Complain(p, d)
    BY <2>2 DEF Complain, RoundInv, RoundTypes
  <2> QED BY <2>1, <2>2
<1>3. RoundTypes' /\ Unfinished'
  BY <1>1, <1>2 DEF RoundInv, RoundTypes, Unfinished, Revealed
<1>4. OneAnswer' /\ VerdictsAnswered'
  BY <1>1 DEF RoundInv, OneAnswer, VerdictsAnswered, Unfinished, ShareFor
<1>5. SharesArrive' /\ Repaired'
  BY <1>1 DEF RoundInv, SharesArrive, Repaired, Unfinished
<1> QED BY <1>3, <1>4, <1>5 DEF RoundInv

LEMMA DiscloseInRound ==
  ASSUME RoundInv, NEW c \in complaints, Disclose(c)
  PROVE  RoundInv'
<1> DEFINE m == [dealer_index |-> c.dealer_index, accuser |-> c.accuser,
                 disclosed |-> ShareFor(c.dealer_index, c.accuser)]
<1>1. /\ Unfinished /\ ShareFor(c.dealer_index, c.accuser) # NoShare
      /\ disclosures' = disclosures \cup {m}
      /\ UNCHANGED <<coefficients, commitments, received, complaints, verdicts, keyshare>>
  BY DEF Disclose, dealings
<1>2. m.disclosed = ShareFor(m.dealer_index, m.accuser) /\ m.accuser \in Participants
  BY <1>1 DEF ShareFor
<1> HIDE DEF m
<1>3. \A n \in disclosures' : n.disclosed = ShareFor(n.dealer_index, n.accuser)
                               /\ n.accuser \in Participants
  BY <1>1, <1>2 DEF RoundInv, OneAnswer
<1>4. OneAnswer'
  BY <1>1, <1>3 DEF OneAnswer, Answers, ShareFor
<1>5. RoundTypes' /\ VerdictsAnswered' /\ Unfinished'
  BY <1>1 DEF RoundInv, RoundTypes, VerdictsAnswered, Revealed, Unfinished
<1>6. SharesArrive' /\ Repaired'
  BY <1>1 DEF RoundInv, SharesArrive, Repaired, Unfinished
<1> QED BY <1>4, <1>5, <1>6 DEF RoundInv

LEMMA ResolveInRound ==
  ASSUME DealingInv, NEW p \in Participants, NEW c \in complaints,
         NEW m \in disclosures, Resolve(p, c, m)
  PROVE  RoundInv' /\ KeyTypes' /\ KeysDealt' /\ Unfinished'
<1> DEFINE d == c.dealer_index
           verdict == ResolveComplaint(commitments[d], c, m.disclosed)
           v == [complaint |-> c, verdict |-> verdict]
           repairs == p = c.accuser /\ verdict = "DisclosureIsValidButContradictsTheAccusersClaim"
<1>1. /\ Answers(m, c) /\ \A w \in verdicts[p] : w.complaint # c
      /\ verdicts' = [verdicts EXCEPT ![p] = @ \cup {v}]
      /\ received' = [received EXCEPT ![p][d] = IF repairs THEN m.disclosed ELSE @]
      /\ UNCHANGED <<coefficients, commitments, complaints, disclosures, keyshare>>
  BY DEF Resolve, dealings, Answers
<1>2. RoundInv /\ KeyTypes
  BY DEF DealingInv
<1>3. c.accuser \in Participants /\ d \in Participants
  BY <1>1, <1>2 DEF RoundInv, RoundTypes, OneAnswer, Answers
<1>4. Unfinished /\ DOMAIN keyshare = {}
  <2>1. ~Settled
    BY <1>1, <1>3 DEF Settled
  <2> QED BY <1>2, <2>1 DEF RoundInv, Unfinished
<1>5. v.complaint = c /\ v.verdict = verdict
  OBVIOUS
<1>6. c.accuser # 0 /\ (verdict = "DisclosureIsValidButContradictsTheAccusersClaim" =>
                          VerifyShare(commitments[d], c.accuser, m.disclosed))
  BY <1>3, ParticipantType DEF ResolveComplaint
<1>7. m.disclosed = Evaluate(coefficients[d], c.accuser)
  BY <1>1, <1>2, <1>3, <1>4 DEF RoundInv, OneAnswer, Answers, ShareFor
<1> HIDE DEF v, verdict
<1>8. /\ DOMAIN received' = Participants /\ \A q \in Participants : DOMAIN received'[q] = Participants
      /\ received'[p][d] = IF repairs THEN m.disclosed ELSE received[p][d]
      /\ \A q, e \in Participants : <<q, e>> # <<p, d>> => received'[q][e] = received[q][e]
  <2>1. DOMAIN received = Participants /\ \A q \in Participants : DOMAIN received[q] = Participants
    BY <1>2 DEF RoundInv, RoundTypes
  <2>2. received' = [received EXCEPT ![p] = [received[p] EXCEPT ![d] =
                       IF repairs THEN m.disclosed ELSE received[p][d]]]
    BY <1>1
  <2> HIDE DEF repairs, d
  <2>3. /\ received'[p] = [received[p] EXCEPT ![d] = IF repairs THEN m.disclosed ELSE received[p][d]]
        /\ \A q \in Participants \ {p} : received'[q] = received[q]
        /\ DOMAIN received' = Participants
    BY <2>1, <2>2
  <2>4. /\ received'[p][d] = IF repairs THEN m.disclosed ELSE received[p][d]
        /\ \A e \in Participants \ {d} : received'[p][e] = received[p][e]
        /\ DOMAIN received'[p] = Participants
    BY <1>3, <2>1, <2>3 DEF d
  <2> QED BY <2>1, <2>3, <2>4
<1>9. \A q \in Participants : \A w \in verdicts'[q] : w \in verdicts[q] \/ (q = p /\ w = v)
  BY <1>1, <1>2 DEF KeyTypes
<1>10. VerdictsAnswered'
  BY <1>1, <1>2, <1>5, <1>9 DEF RoundInv, VerdictsAnswered, verdict
<1>11. Repaired'
  <2> SUFFICES ASSUME NEW q \in Participants, NEW w \in verdicts'[q], w.complaint.accuser = q,
                      w.verdict = "DisclosureIsValidButContradictsTheAccusersClaim"
               PROVE  VerifyShare(commitments[w.complaint.dealer_index], q,
                                  received'[q][w.complaint.dealer_index])
    BY <1>1 DEF Repaired, VerifyShare
  <2>1. CASE q = p /\ w = v
    BY <1>5, <1>6, <1>8, <2>1
  <2>2. CASE w \in verdicts[q]
    <3> DEFINE e == w.complaint.dealer_index
    <3>1. VerifyShare(commitments[e], q, received[q][e])
      BY <1>2, <2>2 DEF RoundInv, Repaired
    <3>2. e \in Participants
      BY <1>2, <2>2 DEF RoundInv, RoundTypes, VerdictsAnswered
    <3>3. CASE <<q, e>> = <<p, d>> /\ repairs
      BY <1>6, <1>8, <3>3
    <3>4. CASE ~(<<q, e>> = <<p, d>> /\ repairs)
      BY <1>8, <3>1, <3>2, <3>4
    <3> QED BY <3>3, <3>4
  <2> QED BY <1>9, <2>1, <2>2
<1>12. SharesArrive'
  <2> SUFFICES ASSUME NEW q \in Participants, NEW e \in Participants, commitments[e] # << >>,
                      <<e, q>> \notin Garbled
               PROVE  received'[q][e] = Evaluate(coefficients[e], q)
    BY <1>1 DEF SharesArrive
  <2>1. received[q][e] = Evaluate(coefficients[e], q)
    BY <1>2, <1>4 DEF RoundInv, SharesArrive
  <2> QED BY <1>7, <1>8, <2>1
<1>13. RoundTypes' /\ OneAnswer' /\ Unfinished'
  BY <1>1, <1>2, <1>4, <1>8 DEF RoundInv, RoundTypes, OneAnswer, Unfinished, Revealed, ShareFor
<1>14. KeyTypes' /\ KeysDealt'
  BY <1>1, <1>2, <1>4 DEF KeyTypes, KeysDealt
<1> QED BY <1>10, <1>11, <1>12, <1>13, <1>14 DEF RoundInv

LEMMA DismissInRound ==
  ASSUME DealingInv, NEW p \in Participants, NEW c \in complaints, Dismiss(p, c)
  PROVE  RoundInv' /\ KeyTypes' /\ KeysDealt' /\ Unfinished'
<1> DEFINE verdict == ResolveComplaint(commitments[c.dealer_index], c, 0)
           v == [complaint |-> c, verdict |-> verdict]
<1>1. /\ c.accuser = 0 /\ \A w \in verdicts[p] : w.complaint # c
      /\ verdicts' = [verdicts EXCEPT ![p] = @ \cup {v}]
      /\ UNCHANGED <<coefficients, commitments, received, complaints, disclosures, keyshare>>
  BY DEF Dismiss, dealings
<1>2. RoundInv /\ KeyTypes
  BY DEF DealingInv
<1>3. Unfinished /\ DOMAIN keyshare = {}
  <2>1. ~Settled
    BY <1>1 DEF Settled
  <2> QED BY <1>2, <2>1 DEF RoundInv, Unfinished
<1>4. v.complaint = c /\ v.verdict = "MalformedComplaint"
  BY <1>1 DEF ResolveComplaint
<1> HIDE DEF v
<1>5. \A q \in Participants : \A w \in verdicts'[q] : w \in verdicts[q] \/ w = v
  BY <1>1, <1>2 DEF KeyTypes
<1>6. VerdictsAnswered'
  BY <1>1, <1>2, <1>4, <1>5 DEF RoundInv, VerdictsAnswered
<1>7. Repaired'
  BY <1>1, <1>2, <1>4, <1>5 DEF RoundInv, Repaired
<1>8. RoundTypes' /\ OneAnswer' /\ Unfinished' /\ SharesArrive'
  BY <1>1, <1>2, <1>3
  DEF RoundInv, RoundTypes, OneAnswer, SharesArrive, Unfinished, Revealed, ShareFor
<1>9. KeyTypes' /\ KeysDealt'
  BY <1>1, <1>2, <1>3 DEF KeyTypes, KeysDealt
<1> QED BY <1>6, <1>7, <1>8, <1>9 DEF RoundInv

LEMMA FinalizeInRound ==
  ASSUME DealingInv, NEW p \in Participants, Finalize(p)
  PROVE  RoundInv' /\ KeyTypes' /\ KeysDealt' /\ ~Unfinished' /\ Revealed' /\ OneExclusion'
<1>1. /\ Settled
      /\ DOMAIN keyshare' = DOMAIN keyshare \cup {p} /\ p \notin DOMAIN keyshare
      /\ \A q \in DOMAIN keyshare : keyshare'[q] = keyshare[q]
      /\ keyshare'[p].secret_share = SumOfShares(p, Excluded(p))
      /\ keyshare'[p].group_public_key = SumOfC0(Excluded(p))
      /\ UNCHANGED <<commitments, received, complaints, disclosures, verdicts>>
  BY DEF Finalize, disputes
<1>2. RoundInv /\ KeyTypes /\ KeysDealt
  BY DEF DealingInv
<1>3. /\ ~Unfinished' /\ Settled' /\ Revealed' /\ Revealed
      /\ \A q \in Participants : Excluded(q)' = Excluded(q)
  BY <1>1 DEF Unfinished, Settled, Revealed, Excluded
<1>4. SumOfShares(p, Excluded(p)) = PublicVerificationShare(p, Excluded(p))
  <2>1. \A d \in Participants \ Excluded(p) :
          received[p][d] = EvaluateCommitment(commitments[d], p)
    BY <1>1, <1>2, SharesVerify DEF RoundInv, VerifyShare
  <2>2. [d \in Participants \ Excluded(p) |-> received[p][d]]
          = [d \in Participants \ Excluded(p) |-> EvaluateCommitment(commitments[d], p)]
    BY <2>1
  <2> QED BY <2>2 DEF SumOfShares, PublicVerificationShare
<1>5. \A q \in Participants : /\ PublicVerificationShare(q, Excluded(q))' = PublicVerificationShare(q, Excluded(q))
                              /\ SumOfC0(Excluded(q))' = SumOfC0(Excluded(q))
  BY <1>1, <1>3 DEF PublicVerificationShare, SumOfC0
<1>6. KeysDealt'
  <2> SUFFICES ASSUME NEW q \in DOMAIN keyshare'
               PROVE  /\ keyshare'[q].secret_share = PublicVerificationShare(q, Excluded(q))
                      /\ keyshare'[q].group_public_key = SumOfC0(Excluded(q))
    BY <1>1, <1>2, <1>5 DEF KeysDealt, KeyTypes
  <2> QED BY <1>1, <1>2, <1>4 DEF KeysDealt
<1>7. KeyTypes'
  BY <1>1, <1>2 DEF KeyTypes
<1>8. OneExclusion'
  <2>1. \A q, r \in Participants : Excluded(q) \subseteq Excluded(r)
    BY <1>1, <1>2, SameExclusions DEF RoundInv
  <2> QED BY <1>3, <2>1 DEF OneExclusion
<1>9. RoundTypes' /\ OneAnswer' /\ VerdictsAnswered'
  BY <1>1, <1>2, <1>3 DEF RoundInv, RoundTypes, OneAnswer, VerdictsAnswered
<1>10. SharesArrive' /\ Repaired'
  BY <1>1, <1>2, <1>3 DEF RoundInv, SharesArrive, Repaired
<1> QED BY <1>3, <1>6, <1>7, <1>8, <1>9, <1>10 DEF RoundInv

LEMMA DealingInvNext == DealingInv /\ [DkgNext]_dkgVars => DealingInv'
<1> SUFFICES ASSUME DealingInv, [DkgNext]_dkgVars PROVE DealingInv'
  OBVIOUS
<1>1. ASSUME RoundInv', UNCHANGED <<commitments, verdicts, keyshare>> PROVE DealingInv'
  BY <1>1, SameRound DEF DealingInv
<1>2. ASSUME RoundInv', KeyTypes', KeysDealt', Unfinished' \/ (Revealed' /\ OneExclusion')
      PROVE  DealingInv'
  BY <1>2 DEF DealingInv
<1>3. CASE UNCHANGED dkgVars
  <2>1. UNCHANGED <<coefficients, commitments, received, complaints, disclosures, verdicts, keyshare>>
    BY <1>3 DEF dkgVars, dealings, disputes
  <2>2. RoundInv'
    BY <2>1 DEF DealingInv, RoundInv, RoundTypes, OneAnswer, VerdictsAnswered, SharesArrive,
                Repaired, Settled, Unfinished, Revealed, ShareFor
  <2> QED BY <1>1, <2>1, <2>2
<1>4. ASSUME NEW d \in Participants, Reveal(d) PROVE DealingInv'
  BY <1>2, <1>4, RevealInRound
<1>5. ASSUME ComplainWithoutCause \/ \E p, d \in Participants : Complain(p, d) PROVE DealingInv'
  <2>1. UNCHANGED <<commitments, verdicts, keyshare>>
    BY <1>5 DEF ComplainWithoutCause, Complain, dealings
  <2> QED BY <1>1, <1>5, <2>1, ComplaintsInRound DEF DealingInv
<1>6. ASSUME NEW c \in complaints, Disclose(c) PROVE DealingInv'
  <2>1. UNCHANGED <<commitments, verdicts, keyshare>>
    BY <1>6 DEF Disclose, dealings
  <2> QED BY <1>1, <1>6, <2>1, DiscloseInRound DEF DealingInv
<1>7. ASSUME NEW p \in Participants, NEW c \in complaints, NEW m \in disclosures, Resolve(p, c, m)
      PROVE  DealingInv'
  BY <1>2, <1>7, ResolveInRound
<1>8. ASSUME NEW p \in Participants, NEW c \in complaints, Dismiss(p, c) PROVE DealingInv'
  BY <1>2, <1>8, DismissInRound
<1>9. ASSUME NEW p \in Participants, Finalize(p) PROVE DealingInv'
  BY <1>2, <1>9, FinalizeInRound
<1> QED BY <1>3, <1>4, <1>5, <1>6, <1>7, <1>8, <1>9 DEF DkgNext

\* After the key generation nothing of it is left to do.
LEMMA DkgOver ==
  ASSUME KeyInv, attempt # 0
  PROVE  ~DkgNext
<1>1. Finished /\ complaints = {} /\ ~Unfinished
  <2>1. \E p : p \in Participants
    BY SharingAssumption DEF Participants
  <2> QED BY <2>1 DEF KeyInv, Finished, Unfinished
<1>2. Revealed
  BY <1>1 DEF KeyInv
<1> QED
  BY <1>1, <1>2 DEF DkgNext, ComplainWithoutCause, Reveal, Finalize, Complain, Disclose, Resolve,
                    Dismiss, Finished, Revealed

LEMMA KeysKept ==
  ASSUME KeyInv, UNCHANGED <<dkgVars, attempt>>, attempt = 0 => package'.signer_ids = {}
  PROVE  KeyInv'
<1>1. UNCHANGED <<coefficients, commitments, received, complaints, disclosures, verdicts, keyshare>>
  BY DEF dkgVars, dealings, disputes
<1>2. /\ KeyTypes' /\ KeysDealt' /\ Unfinished' = Unfinished /\ Revealed' = Revealed
      /\ OneExclusion => OneExclusion'
  BY <1>1, SameRound DEF KeyInv
<1>3. RoundInv => RoundInv'
  BY <1>1 DEF RoundInv, RoundTypes, OneAnswer, VerdictsAnswered, SharesArrive, Repaired, Settled,
              Unfinished, Revealed, ShareFor
<1>4. Finished' = Finished
  BY <1>1 DEF Finished
<1> QED BY <1>1, <1>2, <1>3, <1>4 DEF KeyInv

LEMMA BeginKeepsKeys ==
  ASSUME KeyInv, Begin
  PROVE  KeyInv'
<1>1. /\ complaints' = {} /\ Finished /\ attempt' = attempt + 1
      /\ verdicts' = [p \in Participants |-> {v \in verdicts[p] : IsFaulty(v.verdict)}]
      /\ UNCHANGED <<commitments, keyshare>>
  BY DEF Begin, Retire, dealings
<1>2. \A p \in Participants : Excluded(p)' = Excluded(p)
  BY <1>1 DEF Excluded
<1>3. Finished' /\ Unfinished' = Unfinished /\ Revealed' = Revealed
  BY <1>1 DEF Finished, Unfinished, Revealed
<1>4. KeyTypes' /\ (OneExclusion => OneExclusion')
  BY <1>1, <1>2 DEF KeyInv, KeyTypes, OneExclusion
<1>5. KeysDealt'
  <2>1. \A p \in Participants :
          /\ PublicVerificationShare(p, Excluded(p))' = PublicVerificationShare(p, Excluded(p))
          /\ SumOfC0(Excluded(p))' = SumOfC0(Excluded(p))
    BY <1>1, <1>2 DEF PublicVerificationShare, SumOfC0
  <2> QED BY <1>1, <2>1 DEF KeyInv, KeyTypes, KeysDealt
<1> QED BY <1>1, <1>3, <1>4, <1>5 DEF KeyInv

LEMMA KeyInvNext == KeyInv /\ [Next]_vars => KeyInv'
<1> SUFFICES ASSUME KeyInv, [Next]_vars PROVE KeyInv'
  OBVIOUS
<1>1. CASE UNCHANGED vars
  BY <1>1, KeysKept DEF vars, signing, KeyInv
<1>2. CASE DkgNext /\ UNCHANGED signing
  <2>1. attempt = 0 /\ attempt' = 0 /\ package'.signer_ids = {}
    BY <1>2, DkgOver DEF KeyInv, signing
  <2>2. DealingInv'
    BY <1>2, <2>1, DealingInvNext DEF KeyInv, DealingInv
  <2> QED BY <2>1, <2>2 DEF KeyInv, DealingInv
<1>3. CASE Begin
  BY <1>3, BeginKeepsKeys
<1>4. CASE Repackage
  <2>1. attempt # 0
    <3>1. attempt = 0 => package.signer_ids \ blamed = {}
      BY DEF KeyInv
    <3>2. Cardinality({}) = 0
      BY FS_EmptySet
    <3>3. Cardinality(package.signer_ids \ blamed) >= Threshold
      BY <1>4 DEF Repackage
    <3> QED BY <3>1, <3>2, <3>3, SharingAssumption
  <2>2. UNCHANGED dkgVars /\ attempt' = attempt + 1
    BY <1>4 DEF Repackage
  <2>3. UNCHANGED <<commitments, verdicts, keyshare, complaints>>
    BY <2>2 DEF dkgVars, dealings, disputes
  <2>4. KeyTypes' /\ KeysDealt' /\ (~Unfinished' => Revealed' /\ OneExclusion')
    BY <2>3, SameRound DEF KeyInv
  <2> QED BY <2>1, <2>2, <2>3, <2>4 DEF KeyInv, Finished
<1>5. CASE Sign /\ ~Begin /\ ~Repackage
  <2>1. UNCHANGED <<dkgVars, attempt>> /\ (attempt = 0 => package'.signer_ids = {})
    BY <1>5 DEF Sign, Round1, Round2, Receive, KeyInv
  <2> QED BY <2>1, KeysKept
<1> QED BY <1>1, <1>2, <1>3, <1>4, <1>5 DEF Next

LEMMA KeyInvAlways == Spec => []KeyInv
BY KeysStart, KeyInvNext, PTL DEF Spec

LEMMA KeysFitDealt ==
  ASSUME KeyTypes, KeysDealt, ~Unfinished => OneExclusion
  PROVE  KeysFit
<1> SUFFICES ASSUME NEW p \in DOMAIN keyshare, NEW q \in DOMAIN keyshare
             PROVE  /\ keyshare[p].secret_share = PublicVerificationShare(p, Excluded(q))
                    /\ keyshare[p].group_public_key = keyshare[q].group_public_key
  BY DEF KeysFit
<1>1. ~Unfinished /\ p \in Participants /\ q \in Participants
  BY DEF KeyTypes, Unfinished
<1>2. Excluded(p) = Excluded(q)
  BY <1>1 DEF OneExclusion
<1> QED BY <1>2 DEF KeysDealt

\* Whoever has finalized holds a share of one key, the same for all: an altered
\* share was repaired, or its dealer is excluded, by everyone
\* (finalize_key_share_excluding_faulty: "so honest participants converge on the
\* same smaller but sound key").
THEOREM ParticipantsShareTheKey == Spec => []KeysFit
<1>1. KeyInv => KeysFit
  BY KeysFitDealt DEF KeyInv
<1> QED BY <1>1, KeyInvAlways, PTL

-----------------------------------------------------------------------------
(* The coordinator.  Until the keys are made, a participant holds of a     *)
(* dealer the share that was dealt to it or the one the dealer disclosed.  *)

Overseen ==
  Unfinished => \A d \in Participants : commitments[d] # << >> =>
    /\ DOMAIN dealer_shares[d] = Participants
    /\ \A p \in Participants : received[p][d] \in {dealer_shares[d][p], ShareFor(d, p)}

CoordinatorInv == DealingInv /\ Overseen

LEMMA CoordinatorStarts == CoordinatorInit => CoordinatorInv
<1> SUFFICES ASSUME CoordinatorInit PROVE CoordinatorInv
  OBVIOUS
<1>1. DealingInv
  BY RoundStarts DEF CoordinatorInit
<1>2. Overseen
  BY DEF CoordinatorInit, DkgInit, Overseen
<1> QED BY <1>1, <1>2 DEF CoordinatorInv

LEMMA RevealOverseen ==
  ASSUME CoordinatorInv, CoordinatorNext, NEW d \in Participants, Reveal(d)
  PROVE  Overseen'
<1>1. /\ commitments[d] = << >> /\ UNCHANGED <<coefficients, keyshare>>
      /\ Observe
  BY DEF Reveal, CoordinatorNext
<1>2. PICK broadcast \in {draw[d] : draw \in Draws}, shares \in [Participants -> Scalars] :
        /\ commitments' = [commitments EXCEPT ![d] = broadcast]
        /\ received' = [p \in Participants |-> [received[p] EXCEPT ![d] = shares[p]]]
  BY DEF Reveal
<1>3. DealingInv /\ Overseen /\ RoundTypes /\ KeyTypes
  BY DEF CoordinatorInv, DealingInv, RoundInv
<1>4. broadcast # << >>
  BY <1>2, DealingAssumption, SharingAssumption DEF Polynomials
<1>5. commitments'[d] = broadcast /\ \A e \in Participants \ {d} : commitments'[e] = commitments[e]
  BY <1>2, <1>3 DEF KeyTypes
<1>6. \A p \in Participants, e \in Participants \ {d} : received'[p][e] = received[p][e]
  BY <1>2, <1>3 DEF RoundTypes
<1> SUFFICES ASSUME Unfinished', NEW e \in Participants, commitments'[e] # << >>
             PROVE  /\ DOMAIN dealer_shares'[e] = Participants
                    /\ \A p \in Participants :
                         received'[p][e] \in {dealer_shares'[e][p], ShareFor(e, p)'}
  BY DEF Overseen
<1>7. CASE e = d
  BY <1>1, <1>4, <1>5, <1>7 DEF Observe
<1>8. CASE e # d
  BY <1>1, <1>3, <1>5, <1>6, <1>8 DEF Observe, Overseen, Unfinished, ShareFor
<1> QED BY <1>7, <1>8

LEMMA ResolveOverseen ==
  ASSUME CoordinatorInv, CoordinatorNext, NEW p \in Participants, NEW c \in complaints,
         NEW m \in disclosures, Resolve(p, c, m)
  PROVE  Overseen'
<1> DEFINE d == c.dealer_index
<1>1. /\ Answers(m, c) /\ UNCHANGED <<coefficients, commitments, keyshare>>
      /\ received' = [received EXCEPT ![p][d] = received'[p][d]]
      /\ received'[p][d] \in {m.disclosed, received[p][d]}
  <2>1. RoundTypes /\ d \in Participants
    BY DEF CoordinatorInv, DealingInv, RoundInv, RoundTypes
  <2>2. PICK share \in {m.disclosed, received[p][d]} : received' = [received EXCEPT ![p][d] = share]
    BY DEF Resolve
  <2>3. received'[p][d] = share
    BY <2>1, <2>2 DEF RoundTypes
  <2> QED BY <2>2, <2>3 DEF Resolve, dealings, Answers
<1>2. /\ RoundTypes /\ OneAnswer /\ Overseen
  BY DEF CoordinatorInv, DealingInv, RoundInv
<1> SUFFICES ASSUME Unfinished, NEW e \in Participants, commitments[e] # << >>
             PROVE  /\ DOMAIN dealer_shares[e] = Participants
                    /\ \A q \in Participants :
                         received'[q][e] \in {dealer_shares[e][q], ShareFor(e, q)}
  <2>1. Unfinished => \A e \in Participants :
          commitments[e] # << >> => dealer_shares'[e] = dealer_shares[e]
    BY <1>1 DEF CoordinatorNext, Observe, Unfinished
  <2> QED BY <1>1, <2>1 DEF Overseen, Unfinished, ShareFor
<1>3. m.disclosed = ShareFor(d, c.accuser)
  BY <1>1, <1>2 DEF OneAnswer, Answers
<1>4. received'[p][d] = received[p][d] \/ (p = c.accuser /\ received'[p][d] = ShareFor(d, p))
  BY <1>1, <1>3 DEF Resolve
<1>5. \A q \in Participants : received'[q][e] = received[q][e] \/ (q = p /\ e = d)
  BY <1>1, <1>2 DEF RoundTypes
<1> QED BY <1>2, <1>4, <1>5 DEF Overseen

LEMMA CoordinatorKeeps == CoordinatorInv /\ [CoordinatorNext]_coordinatorVars => CoordinatorInv'
<1> SUFFICES ASSUME CoordinatorInv, [CoordinatorNext]_coordinatorVars PROVE CoordinatorInv'
  OBVIOUS
<1>1. DealingInv'
  BY DealingInvNext DEF CoordinatorInv, CoordinatorNext, coordinatorVars
<1>2. ASSUME UNCHANGED <<coefficients, commitments, received, keyshare>> PROVE Overseen'
  <2>1. Unfinished => \A d \in Participants :
          commitments[d] # << >> => dealer_shares'[d] = dealer_shares[d]
    BY <1>2 DEF CoordinatorNext, Observe, Unfinished, coordinatorVars
  <2> QED BY <1>2, <2>1 DEF CoordinatorInv, Overseen, Unfinished, ShareFor
<1>3. ASSUME UNCHANGED coordinatorVars PROVE Overseen'
  BY <1>2, <1>3 DEF coordinatorVars, dkgVars, dealings, disputes
<1>4. ASSUME CoordinatorNext PROVE Overseen'
  <2>1. ASSUME NEW d \in Participants, Reveal(d) PROVE Overseen'
    BY <1>4, <2>1, RevealOverseen
  <2>2. ASSUME NEW p \in Participants, Finalize(p) PROVE Overseen'
    BY <2>2 DEF Finalize, Overseen, Unfinished
  <2>3. ASSUME NEW p \in Participants, NEW c \in complaints, NEW m \in disclosures,
               Resolve(p, c, m)
        PROVE  Overseen'
    BY <1>4, <2>3, ResolveOverseen
  <2>4. ASSUME \/ ComplainWithoutCause \/ \E p, d \in Participants : Complain(p, d)
               \/ \E c \in complaints : Disclose(c)
               \/ \E p \in Participants, c \in complaints : Dismiss(p, c)
        PROVE  Overseen'
    <3>1. UNCHANGED <<coefficients, commitments, received, keyshare>>
      BY <2>4 DEF ComplainWithoutCause, Complain, Disclose, Dismiss, dealings
    <3> QED BY <1>2, <3>1
  <2>5. DkgNext
    BY <1>4 DEF CoordinatorNext
  <2> QED BY <2>1, <2>2, <2>3, <2>4, <2>5 DEF DkgNext
<1> QED BY <1>1, <1>3, <1>4 DEF CoordinatorInv

\* A dealer fails both tests on the same share: the one it dealt and discloses.
LEMMA OutcomesMeet ==
  ASSUME CoordinatorInv, Settled, Unfinished,
         NEW p \in Participants, NEW d \in Participants, DealtAsDisclosed(d)
  PROVE  d \in Excluded(p) <=> d \in IdentifyFaultyDealers
<1>1. /\ RoundTypes /\ OneAnswer /\ VerdictsAnswered
      /\ commitments[d] # << >>
      /\ DOMAIN dealer_shares[d] = Participants
      /\ \A q \in Participants :
           /\ received[q][d] = ShareFor(d, q) /\ dealer_shares[d][q] = ShareFor(d, q)
  BY DEF CoordinatorInv, DealingInv, RoundInv, Settled, Revealed, Overseen, DealtAsDisclosed
<1>2. ASSUME d \in Excluded(p)
      PROVE  d \in IdentifyFaultyDealers
  <2>1. PICK v \in verdicts[p] : IsFaulty(v.verdict) /\ d = v.complaint.dealer_index
    BY <1>2 DEF Excluded
  <2> DEFINE c == v.complaint
  <2>2. PICK m \in disclosures : /\ Answers(m, c)
                                 /\ v.verdict = ResolveComplaint(commitments[d], c, m.disclosed)
    BY <1>1, <2>1 DEF VerdictsAnswered, IsFaulty
  <2>3. c.accuser \in Participants /\ m.disclosed = ShareFor(d, c.accuser)
    BY <1>1, <2>1, <2>2 DEF OneAnswer, Answers
  <2>4. ~VerifyShare(commitments[d], c.accuser, m.disclosed)
    BY <2>1, <2>2 DEF ResolveComplaint, IsFaulty
  <2> QED BY <1>1, <2>3, <2>4 DEF IdentifyFaultyDealers
<1>3. ASSUME d \in IdentifyFaultyDealers
      PROVE  d \in Excluded(p)
  <2>1. PICK q \in Participants : ~VerifyShare(commitments[d], q, ShareFor(d, q))
    BY <1>1, <1>3 DEF IdentifyFaultyDealers
  <2> DEFINE c == [accuser |-> q, dealer_index |-> d, received_share |-> received[q][d]]
  <2>2. c \in complaints
    BY <1>1, <2>1 DEF Settled
  <2>3. c.accuser = q /\ c.dealer_index = d /\ q # 0
    BY ParticipantType
  <2> HIDE DEF c
  <2>4. PICK v \in verdicts[p] : v.complaint = c
    BY <2>2, <2>3 DEF Settled
  <2>5. PICK m \in disclosures : /\ Answers(m, c)
                                 /\ v.verdict = ResolveComplaint(commitments[d], c, m.disclosed)
    BY <1>1, <2>3, <2>4 DEF VerdictsAnswered
  <2>6. m.disclosed = ShareFor(d, q)
    BY <1>1, <2>3, <2>5 DEF OneAnswer, Answers
  <2>7. IsFaulty(v.verdict)
    BY <2>1, <2>3, <2>5, <2>6 DEF ResolveComplaint, IsFaulty
  <2> QED BY <2>3, <2>4, <2>7 DEF Excluded
<1> QED BY <1>2, <1>3

\* Everyone ends with a share of one key; and of a dealer whose shares all arrived as
\* dealt, the complaint round and identify_faulty_dealers reach the same verdict, for
\* any number of altered shares of others and of mistaken or untrue complaints.
\* Nothing is said of the verdict on a dealer with an altered share: there the two
\* ways differ.
THEOREM EveryoneAgrees == CoordinatorSpec => []KeysAgree
<1>1. CoordinatorInv => OneOutcome
  BY OutcomesMeet DEF OneOutcome
<1>2. CoordinatorInv => KeysFit
  BY KeysFitDealt DEF CoordinatorInv, DealingInv
<1>3. CoordinatorInv => KeysAgree
  BY <1>1, <1>2 DEF KeysAgree
<1> QED BY <1>3, CoordinatorStarts, CoordinatorKeeps, PTL DEF CoordinatorSpec
-----------------------------------------------------------------------------
(* Quorums.  The keys interpolate at the participants' ids (Shamir's       *)
(* scheme summed over the dealers that stay).                              *)

Surviving == Participants \ Excluded(Aggregator)

LEMMA KeysAreJoint ==
  ASSUME KeyInv, Finished
  PROVE  /\ commitments \in [Participants -> Polynomials] /\ Surviving \in SUBSET Participants
         /\ \A p \in Participants :
              /\ PublicVerificationShare(p, Excluded(Aggregator)) = Joint(Surviving, commitments, p)
              /\ keyshare[p].secret_share = Joint(Surviving, commitments, p)
              /\ keyshare[p].group_public_key = JointSecret(Surviving, commitments)
<1>1. ~Unfinished /\ Aggregator \in Participants
  BY SharingAssumption, SigningAssumption DEF Finished, Unfinished, Participants
<1>2. commitments \in [Participants -> Polynomials] /\ Surviving \in SUBSET Participants
  BY <1>1 DEF KeyInv, KeyTypes, Revealed, Surviving
<1>3. ASSUME NEW p \in Participants
      PROVE  /\ Excluded(p) = Excluded(Aggregator)
             /\ PublicVerificationShare(p, Excluded(Aggregator)) = Joint(Surviving, commitments, p)
  <2>1. \A d \in Surviving : EvaluateCommitment(commitments[d], p) = Evaluate(commitments[d], p)
    BY <1>2, Feldman, PolynomialType, ParticipantType
  <2>2. [d \in Surviving |-> EvaluateCommitment(commitments[d], p)]
          = [d \in Surviving |-> Evaluate(commitments[d], p)]
    BY <2>1
  <2>3. Excluded(p) = Excluded(Aggregator)
    BY <1>1 DEF KeyInv, OneExclusion
  <2> QED BY <2>2, <2>3 DEF PublicVerificationShare, Joint, Surviving
<1>4. ASSUME NEW p \in Participants
      PROVE  /\ keyshare[p].secret_share = PublicVerificationShare(p, Excluded(p))
             /\ keyshare[p].group_public_key = SumOfC0(Excluded(p))
  BY DEF KeyInv, KeysDealt, Finished
<1>5. SumOfC0(Excluded(Aggregator)) = JointSecret(Surviving, commitments)
  BY DEF SumOfC0, JointSecret, Surviving
<1> QED BY <1>2, <1>3, <1>4, <1>5

\* What participant i computes of the encapsulated point r, in discrete logarithms.
Decryptions(r) == [i \in Participants |-> PartialDecrypt(i, r)]

LEMMA QuorumCombines ==
  ASSUME KeyInv, Finished, NEW quorum \in SUBSET Participants, Cardinality(quorum) >= Threshold,
         NEW r \in Scalars, NEW p \in Participants
  PROVE  CombinePartials([i \in quorum |-> PartialDecrypt(i, r)])
           = (r * keyshare[p].group_public_key) % Q
<1> DEFINE S == Shares(Surviving, commitments)
           secret == JointSecret(Surviving, commitments)
           g == Decryptions(r)
           zero == 0
<1>1. /\ r \in Int /\ zero \in Int /\ S \in Values /\ secret \in Int
      /\ keyshare[p].group_public_key = secret
      /\ Same(AtZero(quorum, S), secret)
  <2>1. r \in Int /\ zero \in Int
    BY OrderFacts DEF Scalars
  <2>2. /\ commitments \in [Participants -> Polynomials] /\ Surviving \in SUBSET Participants
        /\ keyshare[p].group_public_key = secret
    BY KeysAreJoint
  <2>3. S \in Values /\ secret \in Int
    BY <2>2, JointTypes
  <2>4. Same(AtZero(quorum, S), secret)
    BY <2>2, JointInterpolation
  <2> QED BY <2>1, <2>2, <2>3, <2>4
<1>2. ASSUME NEW i \in Participants
      PROVE  g[i] = (S[i] * r) % Q /\ S[i] \in Int
  BY <1>1, KeysAreJoint DEF Decryptions, PartialDecrypt, Shares, Values
<1>3. \A i \in quorum : g[i] = PartialDecrypt(i, r)
  BY DEF Decryptions
<1>4. CombinePartials([i \in quorum |-> PartialDecrypt(i, r)]) = AtZero(quorum, g)
  <2> DEFINE w == [i \in quorum |-> PartialDecrypt(i, r)]
  <2>1. [i \in DOMAIN w |-> LagrangeAtZero(i, DOMAIN w) * w[i]] = Weighed(quorum, g)
    BY <1>3 DEF Weighed
  <2> QED BY <2>1 DEF CombinePartials, AtZero
<1> HIDE DEF S, secret
<1>5. ASSUME NEW i \in Participants
      PROVE  g[i] \in Int /\ Combines(g[i], S[i], S[i], S[i], r, zero, zero)
  <2> DEFINE x == S[i] * r
  <2>1. x \in Int /\ g[i] = x % Q
    BY <1>1, <1>2
  <2>2. r * S[i] + zero * S[i] + zero * S[i] = x
    BY <1>1, <1>2
  <2> HIDE DEF x
  <2>3. g[i] \in Int /\ Same(g[i], x)
    BY <2>1, ModSame, OrderFacts DEF Scalars
  <2> QED BY <2>2, <2>3 DEF Combines
<1>6. g \in Values
  BY <1>5 DEF Decryptions, Values
<1> HIDE DEF g
<1> DEFINE a == AtZero(quorum, g)
           b == AtZero(quorum, S)
<1>7. a \in Scalars /\ a \in Int /\ b \in Int
  BY <1>1, <1>6, AtZeroType
<1>8. Same(a, r * secret)
  <2> HIDE DEF zero
  <2>1. Combines(a, b, b, b, r, zero, zero)
    BY <1>1, <1>5, <1>6, AtZeroCombined
  <2>2. r * b \in Int /\ r * b + zero * b + zero * b = r * b /\ r * secret \in Int
    BY <1>1, <1>7 DEF zero
  <2>3. Same(r * b, r * secret)
    BY <1>1, <1>7, SameSelf, SameTimes
  <2> QED BY <1>7, <2>1, <2>2, <2>3, SameChain DEF Combines
<1> HIDE DEF a, b
<1>9. a = (r * secret) % Q
  <2> DEFINE x == r * secret
  <2>1. x \in Int
    BY <1>1
  <2> HIDE DEF x
  <2>2. x % Q \in Scalars /\ x % Q \in Int /\ Same(x, x % Q)
    BY <2>1, ModSame, SameSwap, OrderFacts DEF Scalars
  <2>3. Same(a, x)
    BY <1>8 DEF x
  <2>4. Same(a, x % Q)
    BY <1>7, <2>1, <2>2, <2>3, SameChain
  <2>5. a = x % Q
    BY <1>7, <2>2, <2>4, SameEqual
  <2> QED BY <2>5 DEF x
<1> QED BY <1>1, <1>4, <1>9 DEF a

\* Whatever happened in key generation, any Threshold participants that hold keys
\* decrypt what is encapsulated to the group key, and their choice does not matter
\* (finalize_key_share_excluding_faulty, partial_decrypt, combine_partials).
THEOREM EveryQuorumDecrypts == Spec => []QuorumDecrypts
<1>1. KeyInv => QuorumDecrypts
  BY QuorumCombines DEF QuorumDecrypts
<1> QED BY <1>1, KeyInvAlways, PTL
-----------------------------------------------------------------------------
(* Disclosures.  What is disclosed of a dealer are values of its           *)
(* polynomial; the others through fewer than Threshold of them have every  *)
(* secret there is.                                                        *)

AnswersFit ==
  /\ IsFiniteSet(disclosures)
  /\ \A d \in Participants : \E f \in Polynomials : \A m \in disclosures :
       m.dealer_index = d => m.accuser \in Participants /\ m.disclosed = Evaluate(f, m.accuser)

LEMMA DiscloseFits ==
  ASSUME KeyInv, AnswersFit, NEW c \in complaints, Disclose(c)
  PROVE  AnswersFit'
<1> DEFINE m == [dealer_index |-> c.dealer_index, accuser |-> c.accuser,
                 disclosed |-> ShareFor(c.dealer_index, c.accuser)]
<1>1. /\ Unfinished /\ disclosures' = disclosures \cup {m}
      /\ ShareFor(c.dealer_index, c.accuser) # NoShare
  BY DEF Disclose
<1>2. m.dealer_index = c.dealer_index /\ m.accuser = c.accuser
      /\ m.disclosed = ShareFor(m.dealer_index, m.accuser)
  OBVIOUS
<1>3. RoundInv
  BY <1>1, SharingAssumption DEF KeyInv, Finished, Unfinished, Participants
<1>4. coefficients \in [Participants -> Polynomials]
  BY <1>1, <1>3 DEF RoundInv, RoundTypes
<1>5. m.accuser \in Participants
  BY <1>1, <1>2 DEF ShareFor
<1> HIDE DEF m
<1>6. \A n \in disclosures' :
        n.accuser \in Participants /\ n.disclosed = ShareFor(n.dealer_index, n.accuser)
  BY <1>1, <1>2, <1>3, <1>5 DEF RoundInv, OneAnswer
<1>7. \A n \in disclosures' :
        n.accuser \in Participants /\ n.disclosed = Evaluate(coefficients[n.dealer_index], n.accuser)
  BY <1>6 DEF ShareFor
<1>8. IsFiniteSet(disclosures')
  BY <1>1, FS_AddElement DEF AnswersFit
<1> QED BY <1>4, <1>7, <1>8 DEF AnswersFit

LEMMA AnswersFitNext == KeyInv /\ AnswersFit /\ [Next]_vars => AnswersFit'
<1> SUFFICES ASSUME KeyInv, AnswersFit, [Next]_vars PROVE AnswersFit'
  OBVIOUS
<1>1. CASE UNCHANGED disclosures
  BY <1>1 DEF AnswersFit
<1>2. CASE \E c \in complaints : Disclose(c)
  BY <1>2, DiscloseFits
<1>3. CASE Begin
  <2>1. disclosures' = {}
    BY <1>3 DEF Begin, Retire
  <2>2. [k \in 1 .. Threshold |-> 0] \in Polynomials
    BY OrderFacts DEF Polynomials
  <2> QED BY <2>1, <2>2, FS_EmptySet DEF AnswersFit
<1>4. CASE DkgNext /\ ~\E c \in complaints : Disclose(c)
  BY <1>1, <1>4 DEF DkgNext, ComplainWithoutCause, Reveal, Finalize, Complain, Resolve, Dismiss,
                         disputes
<1>5. CASE UNCHANGED vars \/ (Sign /\ ~Begin)
  BY <1>1, <1>5 DEF Sign, Repackage, Round1, Round2, Receive, vars, dkgVars, disputes
<1> QED BY <1>2, <1>3, <1>4, <1>5 DEF Next

LEMMA FewAnswersHide ==
  ASSUME AnswersFit, NEW d \in Participants,
         Cardinality({m \in disclosures : m.dealer_index = d}) < Threshold
  PROVE  \E f, g \in {h \in Polynomials : \A m \in {n \in disclosures : n.dealer_index = d} :
                        Evaluate(h, m.accuser) = m.disclosed} : f[1] # g[1]
<1> DEFINE known == {m \in disclosures : m.dealer_index = d}
           ids == {m.accuser : m \in known}
<1>1. PICK f \in Polynomials : \A m \in known :
        m.accuser \in Participants /\ m.disclosed = Evaluate(f, m.accuser)
  BY DEF AnswersFit
<1>2. IsFiniteSet(known) /\ Cardinality(known) \in Nat /\ Cardinality(known) < Threshold
  BY FS_Subset, FS_CardinalityType DEF AnswersFit
<1>3. ids \in SUBSET Participants /\ \A m \in known : m.accuser \in ids
  BY <1>1
<1>4. Cardinality(ids) < Threshold
  <2> DEFINE who == [m \in known |-> m.accuser]
  <2>1. who \in Surjection(known, ids)
    BY DEF Surjection
  <2> HIDE DEF known, ids, who
  <2>2. Cardinality(ids) <= Cardinality(known) /\ IsFiniteSet(ids)
    BY <1>2, <2>1, FS_Surjection
  <2>3. Cardinality(ids) \in Nat /\ Threshold \in Nat
    BY <2>2, FS_CardinalityType, SharingAssumption
  <2> QED BY <1>2, <2>2, <2>3
<1> DEFINE other == (f[1] + 1) % Q
<1>5. other \in Scalars /\ other # f[1]
  <2>1. f[1] \in Scalars /\ f[1] \in Int
    BY PolynomialType
  <2>2. f[1] + 1 \in Int
    BY <2>1
  <2>3. other \in Scalars
    BY <2>2, ModSame
  <2>4. f[1] + 1 < Q => other = f[1] + 1
    BY <2>1, OrderFacts DEF Scalars
  <2>5. f[1] + 1 = Q => other = 0
    BY OrderFacts
  <2> QED BY <2>1, <2>3, <2>4, <2>5, OrderFacts DEF Scalars
<1> HIDE DEF ids, other
<1>6. PICK g \in Polynomials : g[1] = other /\ \A i \in ids : Evaluate(g, i) = Evaluate(f, i)
  BY <1>3, <1>4, <1>5, AnySecretFits
<1>7. \A m \in known : Evaluate(f, m.accuser) = m.disclosed /\ Evaluate(g, m.accuser) = m.disclosed
  BY <1>1, <1>3, <1>6
<1> QED BY <1>5, <1>6, <1>7

LEMMA AnswersStart == Init => AnswersFit
<1>1. [k \in 1 .. Threshold |-> 0] \in Polynomials
  BY OrderFacts DEF Polynomials
<1> QED BY <1>1, FS_EmptySet DEF Init, DkgInit, AnswersFit

\* While fewer than Threshold of its shares are disclosed, a dealer's contribution
\* may still be anything, to whoever has seen all disclosures (share_for refuses id
\* 0, where the polynomial's value is the contribution).
THEOREM FewDisclosuresTellNothing == Spec => []ContributionHidden
<1>1. AnswersFit => ContributionHidden
  BY FewAnswersHide DEF ContributionHidden
<1> QED BY <1>1, AnswersStart, AnswersFitNext, KeyInvAlways, PTL DEF Spec
-----------------------------------------------------------------------------
(***************************************************************************)
(* Signatures.  A package names each signer's commitments once, and the    *)
(* nonces a signer still holds are those it is committed to.  What passed  *)
(* the check adds up, by interpolation, to a signature under the group key.*)
(***************************************************************************)
CommitmentRecords == [participant_id : Participants, hiding : Scalars, binding : Scalars]

\* H1 and H2 return a Scalar.
HashesToScalars ==
  /\ \A id \in Participants, key \in Scalars, message \in Messages, list \in SUBSET CommitmentRecords :
       BindingFactor(id, key, message, list) \in Scalars
  /\ \A r \in Scalars, key \in Scalars, message \in Messages : Challenge(r, key, message) \in Scalars

PackageTypes ==
  /\ package.signer_ids \in SUBSET Participants
  /\ package.commitments \in SUBSET CommitmentRecords
  /\ Committed \subseteq package.signer_ids
  /\ \A c, e \in package.commitments : c.participant_id = e.participant_id => c = e
  /\ attempt # 0 =>
       Cardinality(package.signer_ids) >= Threshold /\ package.message \in Messages

\* Nonces not yet signed with are those of the signer's commitment.
NoncesMatch ==
  \A c \in package.commitments : nonces[c.participant_id] # NoNonces =>
    nonces[c.participant_id].hiding = c.hiding /\ nonces[c.participant_id].binding = c.binding

SharesPass ==
  \A s \in sent :
    /\ s.attempt \in Nat /\ s.attempt # 0 /\ s.attempt <= attempt
    /\ s.attempt = attempt => Complete /\ VerifySignatureShare(s.participant_id, s.z)

FiledPass ==
  /\ filed = [p \in Participants |-> filed[p]]
  /\ \A p \in Participants : filed[p] # NoShare =>
       /\ attempt # 0 /\ p \in package.signer_ids /\ Complete
       /\ \E z \in Scalars : z = filed[p] /\ VerifySignatureShare(p, z)

SignInv == PackageTypes /\ NoncesMatch /\ SharesPass /\ FiledPass

NonceTerm(p, key) == CommitmentOf(p).hiding + Rho(p, key) * CommitmentOf(p).binding

LEMMA CommitmentFacts ==
  ASSUME PackageTypes, NEW c \in package.commitments
  PROVE  /\ CommitmentOf(c.participant_id) = c /\ c.participant_id \in Participants
         /\ c.hiding \in Scalars /\ c.binding \in Scalars
<1>1. c \in CommitmentRecords
  BY DEF PackageTypes
<1>2. \E e \in package.commitments : e.participant_id = c.participant_id
  OBVIOUS
<1>3. CommitmentOf(c.participant_id) \in package.commitments
      /\ CommitmentOf(c.participant_id).participant_id = c.participant_id
  BY <1>2 DEF CommitmentOf
<1> QED BY <1>1, <1>3 DEF PackageTypes, CommitmentRecords

\* The parts of the signing equation are scalars.
LEMMA SigningTypes ==
  ASSUME HashesToScalars, PackageTypes, KeyInv, attempt # 0
  PROVE  /\ Key(Aggregator) \in Scalars
         /\ \A p \in Committed : /\ NonceTerm(p, Key(Aggregator)) \in Int
                                 /\ Rho(p, Key(Aggregator)) \in Int
         /\ [p \in Committed |-> NonceTerm(p, Key(Aggregator))] \in Contributions
         /\ GroupCommitment(Key(Aggregator)) \in Scalars
         /\ SignatureChallenge(Key(Aggregator)) \in Scalars
<1> DEFINE key == Key(Aggregator)
<1>1. Finished /\ Aggregator \in Participants
  BY SigningAssumption DEF KeyInv
<1>2. key \in Scalars
  BY <1>1, KeysAreJoint, JointTypes DEF Key
<1> HIDE DEF key
<1>3. package.message \in Messages /\ \A x \in Scalars : x \in Int
  BY DEF PackageTypes, Scalars
<1>4. ASSUME NEW p \in Committed
      PROVE  NonceTerm(p, key) \in Int /\ Rho(p, key) \in Int /\ p \in Participants
  <2>1. PICK c \in package.commitments : c.participant_id = p
    BY DEF Committed
  <2>2. CommitmentOf(p) = c /\ p \in Participants /\ c.hiding \in Int /\ c.binding \in Int
    BY <1>3, <2>1, CommitmentFacts
  <2>3. Rho(p, key) \in Int
    BY <1>2, <1>3, <2>2 DEF HashesToScalars, Rho, PackageTypes
  <2> QED BY <2>2, <2>3 DEF NonceTerm
<1>5. [p \in Committed |-> NonceTerm(p, key)] \in Contributions
  BY <1>4 DEF Contributions
<1>6. GroupCommitment(key) = SumOver([p \in Committed |-> NonceTerm(p, key)])
  BY DEF GroupCommitment, NonceTerm
<1>7. GroupCommitment(key) \in Scalars
  BY <1>5, <1>6, SumType
<1>8. SignatureChallenge(key) \in Scalars
  BY <1>2, <1>3, <1>7 DEF SignatureChallenge, HashesToScalars
<1> QED BY <1>2, <1>4, <1>5, <1>7, <1>8 DEF key

\* What the check demands of a share: its part of the nonces, and its part of the
\* key at the challenge.
LEMMA CheckedShare ==
  ASSUME HashesToScalars, PackageTypes, KeyInv, attempt # 0,
         NEW p \in Participants, NEW z, VerifySignatureShare(p, z)
  PROVE  /\ z \in Scalars /\ p \in Committed
         /\ Same(z, NonceTerm(p, Key(Aggregator))
                      + SignatureChallenge(Key(Aggregator))
                          * (LagrangeAtZero(p, package.signer_ids) * Joint(Surviving, commitments, p)))
<1> DEFINE key == Key(Aggregator)
           V == PublicVerificationShare(p, Excluded(Aggregator))
           L == LagrangeAtZero(p, package.signer_ids)
           challenge == SignatureChallenge(key)
           R == Rho(p, key)
<1>1. PICK mine \in package.commitments :
        /\ mine.participant_id = p
        /\ z = (mine.hiding + R * mine.binding + L * challenge * V) % Q
  BY DEF VerifySignatureShare
<1>2. p \in Committed /\ NonceTerm(p, key) = mine.hiding + R * mine.binding
  BY <1>1, CommitmentFacts DEF Committed, NonceTerm
<1>3. NonceTerm(p, key) \in Int /\ challenge \in Int /\ L \in Int
  BY <1>2, SigningTypes, LagrangeType, OrderFacts DEF Scalars
<1>4. V \in Int /\ V = Joint(Surviving, commitments, p)
  BY KeysAreJoint, JointTypes, ParticipantType DEF KeyInv
<1> HIDE DEF key, V, L, challenge, R
<1> DEFINE N == NonceTerm(p, key)
<1>5. challenge * (L * V) = L * challenge * V
  BY <1>3, <1>4
<1> DEFINE y == N + challenge * (L * V)
<1>6. y \in Int /\ z = y % Q
  BY <1>1, <1>2, <1>3, <1>4, <1>5
<1> HIDE DEF y
<1>7. z \in Scalars /\ Same(z, y)
  BY <1>6, ModSame
<1> QED BY <1>2, <1>4, <1>7 DEF y, key, V, L, challenge

LEMMA AggregateVerifies ==
  ASSUME HashesToScalars, SignInv, KeyInv, package.signer_ids # {},
         \A p \in package.signer_ids : filed[p] # NoShare
  PROVE  Verify(Aggregate, Key(Aggregator), package.message)
<1> DEFINE ids == package.signer_ids
           key == Key(Aggregator)
           r == GroupCommitment(key)
           challenge == SignatureChallenge(key)
           f == [p \in ids |-> filed[p]]
           f1 == [p \in Committed |-> NonceTerm(p, key)]
           S == Shares(Surviving, commitments)
           f2 == Weighed(ids, S)
           u == 1
           zero == 0
<1>1. attempt # 0 /\ Complete /\ ids \in SUBSET Participants
  BY DEF SignInv, PackageTypes, FiledPass
<1>2. Committed = ids /\ Cardinality(ids) >= Threshold
  BY <1>1 DEF SignInv, PackageTypes, Complete
<1>3. ASSUME NEW p \in ids
      PROVE  /\ f[p] \in Int /\ p \in Participants
             /\ Same(f[p], f1[p] + challenge
                             * (LagrangeAtZero(p, ids) * Joint(Surviving, commitments, p)))
  <2>1. f[p] \in Scalars /\ p \in Participants /\ VerifySignatureShare(p, f[p])
    BY <1>1 DEF SignInv, FiledPass
  <2>2. f1[p] = NonceTerm(p, key)
    BY <1>2
  <2>3. f[p] \in Int
    BY <2>1 DEF Scalars
  <2> HIDE DEF f, f1
  <2> QED BY <1>1, <2>1, <2>2, <2>3, CheckedShare DEF SignInv
<1>4. /\ commitments \in [Participants -> Polynomials] /\ Surviving \in SUBSET Participants
      /\ key = JointSecret(Surviving, commitments)
  BY <1>1, KeysAreJoint, SigningAssumption DEF KeyInv, Key
<1>5. S \in Values /\ key \in Int /\ \A p \in Participants : S[p] = Joint(Surviving, commitments, p)
  BY <1>4, JointTypes DEF Shares
<1>6. Same(AtZero(ids, S), key)
  BY <1>1, <1>2, <1>4, JointInterpolation
<1>7. /\ f1 \in Contributions /\ challenge \in Int /\ r \in Int /\ r \in Scalars
      /\ \A p \in Committed : f1[p] \in Int
  BY <1>1, SigningTypes DEF SignInv, Scalars
<1>8. f \in Contributions
  <2>1. f \in [ids -> Int]
    BY <1>3
  <2> HIDE DEF f, ids
  <2> QED BY <1>1, <2>1 DEF Contributions
<1>9. /\ f2 \in Contributions /\ AtZero(ids, S) = SumOver(f2)
      /\ \A j \in Participants : Term(f2, j) = IF j \in ids THEN LagrangeAtZero(j, ids) * S[j] ELSE 0
  BY <1>1, <1>5, AtZeroTerms DEF AtZero
<1>10. r = SumOver(f1)
  BY DEF GroupCommitment, NonceTerm
<1>11. DOMAIN f = ids /\ DOMAIN f1 = ids
  BY <1>2
<1> HIDE DEF ids, f, f1, f2, S, key, challenge, r
<1>12. ASSUME NEW j \in Participants
       PROVE  Same(Term(f, j), u * Term(f1, j) + challenge * Term(f2, j) + zero * Term(f2, j))
  <2>1. CASE j \in ids
    <3> DEFINE w == LagrangeAtZero(j, ids) * S[j]
    <3>1. /\ Term(f, j) = f[j] /\ Term(f1, j) = f1[j] /\ Term(f2, j) = w
          /\ f1[j] \in Int
      BY <1>2, <1>7, <1>9, <1>11, <2>1 DEF Term
    <3>2. w \in Int
      BY <1>5, LagrangeType DEF Values
    <3>3. Same(f[j], f1[j] + challenge * w)
      BY <1>3, <1>5, <2>1
    <3> HIDE DEF w
    <3>4. u * f1[j] + challenge * w + zero * w = f1[j] + challenge * w
      BY <1>7, <3>1, <3>2
    <3> QED BY <3>1, <3>3, <3>4
  <2>2. CASE j \notin ids
    <3>1. Term(f, j) = 0 /\ Term(f1, j) = 0 /\ Term(f2, j) = 0
      BY <1>9, <1>11, <2>2 DEF Term
    <3>2. u * 0 + challenge * 0 + zero * 0 = 0
      BY <1>7
    <3> QED BY <3>1, <3>2, SameSelf
  <2> QED BY <2>1, <2>2
<1> DEFINE z == SumOver(f)
           s2 == SumOver(f2)
<1>13. z \in Scalars /\ z \in Int /\ s2 \in Int /\ u \in Int /\ zero \in Int
  BY <1>8, <1>9, SumType
<1> HIDE DEF u, zero
<1>14. Same(z, u * r + challenge * s2 + zero * s2)
  BY <1>7, <1>8, <1>9, <1>10, <1>12, <1>13, SumCombined
<1> HIDE DEF z, s2
<1>15. u * r + challenge * s2 + zero * s2 = r + challenge * s2
  BY <1>7, <1>13 DEF u, zero
<1>16. Same(s2, key)
  BY <1>6, <1>9 DEF s2
<1>17. Same(r + challenge * s2, r + challenge * key)
  <2>1. Same(challenge * s2, challenge * key)
    BY <1>5, <1>7, <1>13, <1>16, SameSelf, SameTimes
  <2>2. challenge * s2 \in Int /\ challenge * key \in Int
    BY <1>5, <1>7, <1>13
  <2> DEFINE x == challenge * s2
             y == challenge * key
  <2> HIDE DEF x, y
  <2>3. Same(r + x, r + y)
    BY <1>7, <2>1, <2>2, SameSelf, SamePlus DEF x, y
  <2> QED BY <2>3 DEF x, y
<1>18. z = (r + challenge * key) % Q
  <2> DEFINE x == r + challenge * s2
             y == r + challenge * key
  <2>1. x \in Int /\ y \in Int
    BY <1>5, <1>7, <1>13
  <2>2. Same(z, x) /\ Same(x, y)
    BY <1>14, <1>15, <1>17
  <2> HIDE DEF x, y
  <2>3. y % Q \in Scalars /\ y % Q \in Int /\ Same(y, y % Q)
    BY <2>1, ModSame, SameSwap, OrderFacts DEF Scalars
  <2>4. Same(z, y)
    BY <1>13, <2>1, <2>2, SameChain
  <2>5. Same(z, y % Q)
    BY <1>13, <2>1, <2>3, <2>4, SameChain
  <2>6. z = y % Q
    BY <1>13, <2>3, <2>5, SameEqual
  <2> QED BY <2>6 DEF y
<1>19. Aggregate.z = z /\ Aggregate.r = r
  BY DEF Aggregate, z, f, ids, r, key
<1>20. challenge = Challenge(r, key, package.message)
  BY DEF challenge, SignatureChallenge, r
<1> QED BY <1>18, <1>19, <1>20 DEF Verify, key

\* A check gives the same answer while the package and the keys are the same.
LEMMA SameCheck ==
  ASSUME UNCHANGED <<package, commitments, verdicts, keyshare>>, NEW p, NEW z,
         VerifySignatureShare(p, z)
  PROVE  VerifySignatureShare(p, z)'
<1>1. Key(Aggregator)' = Key(Aggregator) /\ Excluded(Aggregator)' = Excluded(Aggregator)
      /\ Committed' = Committed
  BY DEF Key, Excluded, Committed
<1>2. PublicVerificationShare(p, Excluded(Aggregator))' = PublicVerificationShare(p, Excluded(Aggregator))
  BY <1>1 DEF PublicVerificationShare
<1>3. GroupCommitment(Key(Aggregator))' = GroupCommitment(Key(Aggregator))
  BY <1>1 DEF GroupCommitment, CommitmentOf, Rho
<1>4. SignatureChallenge(Key(Aggregator))' = SignatureChallenge(Key(Aggregator))
  BY <1>1, <1>3 DEF SignatureChallenge
<1>5. Rho(p, Key(Aggregator))' = Rho(p, Key(Aggregator))
  BY <1>1 DEF Rho
<1> QED BY <1>2, <1>4, <1>5 DEF VerifySignatureShare

LEMMA OwnSharePasses ==
  ASSUME HashesToScalars, KeyInv, SignInv, NEW p \in Participants, p \in package.signer_ids,
         Complete, nonces[p] # NoNonces
  PROVE  VerifySignatureShare(p, SignatureShare(p))
<1> DEFINE key == Key(Aggregator)
           V == PublicVerificationShare(p, Excluded(Aggregator))
           L == LagrangeAtZero(p, package.signer_ids)
           challenge == SignatureChallenge(key)
<1>1. attempt # 0 /\ Finished /\ Aggregator \in Participants
  BY SigningAssumption DEF KeyInv
<1>2. PICK mine \in package.commitments : mine.participant_id = p
  BY DEF Complete, Committed
<1>3. nonces[p].hiding = mine.hiding /\ nonces[p].binding = mine.binding
  BY <1>2 DEF SignInv, NoncesMatch
<1>4. Key(p) = key /\ keyshare[p].secret_share = V /\ V \in Int
  BY <1>1, KeysAreJoint, JointTypes, ParticipantType DEF Key
<1>5. challenge \in Int /\ L \in Int
  BY <1>1, SigningTypes, LagrangeType, OrderFacts DEF Scalars, SignInv
<1> HIDE DEF key, V, L, challenge
<1>6. L * challenge * V = L * V * challenge
  BY <1>4, <1>5
<1>7. SignatureShare(p) = (mine.hiding + Rho(p, key) * mine.binding + L * V * challenge) % Q
  BY <1>3, <1>4 DEF SignatureShare, L, challenge
<1>8. SignatureShare(p) = (mine.hiding + Rho(p, key) * mine.binding + L * challenge * V) % Q
  BY <1>6, <1>7
<1> QED BY <1>2, <1>8 DEF VerifySignatureShare, key, V, L, challenge

LEMMA SignInvUnchanged ==
  ASSUME SignInv, UNCHANGED <<signing, commitments, verdicts, keyshare>>
  PROVE  SignInv'
<1>1. UNCHANGED <<attempt, package, nonces, sent, filed>>
  BY DEF signing
<1>2. PackageTypes' /\ NoncesMatch' /\ Complete' = Complete
  BY <1>1 DEF SignInv, PackageTypes, NoncesMatch, Committed, Complete
<1>3. SharesPass'
  BY <1>1, <1>2, SameCheck DEF SignInv, SharesPass
<1>4. FiledPass'
  BY <1>1, <1>2, SameCheck DEF SignInv, FiledPass
<1> QED BY <1>2, <1>3, <1>4 DEF SignInv

\* During key generation nothing is sent or filed.
LEMMA SignInvBefore ==
  ASSUME SignInv, attempt = 0, UNCHANGED signing
  PROVE  SignInv'
<1>1. UNCHANGED <<attempt, package, nonces, sent, filed>>
  BY DEF signing
<1>2. sent = {}
  BY DEF SignInv, SharesPass
<1>3. \A p \in Participants : filed[p] = NoShare
  BY DEF SignInv, FiledPass
<1>4. PackageTypes' /\ NoncesMatch'
  BY <1>1 DEF SignInv, PackageTypes, NoncesMatch, Committed
<1>5. SharesPass' /\ FiledPass'
  BY <1>1, <1>2, <1>3 DEF SignInv, SharesPass, FiledPass
<1> QED BY <1>4, <1>5 DEF SignInv

\* A new package: no share has been made for it.
LEMMA NewPackage ==
  ASSUME KeyInv, SignInv, attempt' = attempt + 1, filed' = NothingFiled, UNCHANGED sent
  PROVE  SharesPass' /\ FiledPass'
<1>1. attempt \in Nat
  BY DEF KeyInv
<1>2. SharesPass'
  BY <1>1 DEF SignInv, SharesPass
<1>3. FiledPass'
  BY DEF FiledPass, NothingFiled
<1> QED BY <1>2, <1>3

LEMMA BeginSigns ==
  ASSUME KeyInv, SignInv, Begin
  PROVE  SignInv'
<1>1. PICK quorum \in SUBSET Participants, message \in Messages :
        Cardinality(quorum) >= Threshold /\ package' = Package(quorum, message, {})
  BY DEF Begin
<1>2. /\ package'.signer_ids = quorum /\ package'.message = message
      /\ package'.commitments = {}
  BY <1>1 DEF Package
<1>3. PackageTypes' /\ NoncesMatch'
  BY <1>1, <1>2 DEF PackageTypes, NoncesMatch, Committed
<1>4. SharesPass' /\ FiledPass'
  BY NewPackage DEF Begin
<1> QED BY <1>3, <1>4 DEF SignInv

LEMMA RepackageSigns ==
  ASSUME KeyInv, SignInv, Repackage
  PROVE  SignInv'
<1> DEFINE remaining == package.signer_ids \ blamed
<1>1. /\ Cardinality(remaining) >= Threshold /\ UNCHANGED nonces
      /\ package'.signer_ids = remaining /\ package'.message = package.message
      /\ package'.commitments = {c \in package.commitments : c.participant_id \in remaining}
  BY DEF Repackage, Package
<1>2. attempt # 0
  <2>1. attempt = 0 => remaining = {}
    BY DEF KeyInv
  <2>2. Cardinality({}) = 0
    BY FS_EmptySet
  <2> QED BY <1>1, <2>1, <2>2, SharingAssumption
<1>3. PackageTypes' /\ NoncesMatch'
  BY <1>1, <1>2 DEF SignInv, PackageTypes, NoncesMatch, Committed
<1>4. SharesPass' /\ FiledPass'
  BY NewPackage DEF Repackage
<1> QED BY <1>3, <1>4 DEF SignInv

\* While a commitment is missing, no share is made for the package or checked.
LEMMA Round1Signs ==
  ASSUME NonceInv, SignInv, NEW p \in Participants, Round1(p)
  PROVE  SignInv'
<1>1. PICK pair \in Nonces[p] :
        /\ nonces' = [nonces EXCEPT ![p] =
             [hiding |-> pair[1], binding |-> pair[2], drawn |-> attempt]]
        /\ package' = Package(package.signer_ids, package.message, package.commitments \cup
             {[participant_id |-> p, hiding |-> pair[1], binding |-> pair[2]]})
  BY DEF Round1
<1> DEFINE mine == [participant_id |-> p, hiding |-> pair[1], binding |-> pair[2]]
<1>2. /\ p \in package.signer_ids /\ p \notin Committed /\ UNCHANGED <<attempt, sent, filed>>
      /\ package'.signer_ids = package.signer_ids /\ package'.message = package.message
      /\ package'.commitments = package.commitments \cup {mine}
  BY <1>1 DEF Round1, Package
<1>3. pair[1] \in Scalars /\ pair[2] \in Scalars
  BY SigningAssumption
<1>4. mine \in CommitmentRecords /\ mine.participant_id = p
      /\ mine.hiding = pair[1] /\ mine.binding = pair[2]
  BY <1>3 DEF CommitmentRecords
<1>5. /\ nonces'[p].hiding = pair[1] /\ nonces'[p].binding = pair[2]
      /\ \A q \in Participants \ {p} : nonces'[q] = nonces[q]
  BY <1>1 DEF NonceInv, NonceTypes
<1> HIDE DEF mine
<1>6. \A c \in package.commitments : c.participant_id # p /\ c.participant_id \in Participants
  BY <1>2, CommitmentFacts DEF Committed, SignInv
<1>7. Committed' = Committed \cup {p}
  BY <1>2, <1>4 DEF Committed
<1>8. PackageTypes'
  BY <1>2, <1>4, <1>6, <1>7 DEF SignInv, PackageTypes
<1>9. NoncesMatch'
  BY <1>2, <1>4, <1>5, <1>6 DEF SignInv, NoncesMatch
<1>10. ~Complete
  BY <1>2 DEF Complete
<1>11. SharesPass' /\ FiledPass'
  BY <1>2, <1>10 DEF SignInv, SharesPass, FiledPass
<1> QED BY <1>8, <1>9, <1>11 DEF SignInv

LEMMA Round2Signs ==
  ASSUME HashesToScalars, NonceInv, KeyInv, SignInv, NEW p \in Participants, Round2(p)
  PROVE  SignInv'
<1> DEFINE share == [participant_id |-> p, attempt |-> attempt,
                     drawn |-> nonces[p].drawn, z |-> SignatureShare(p)]
<1>1. /\ p \in package.signer_ids /\ Complete /\ nonces[p] # NoNonces
      /\ sent' = sent \cup {share} /\ nonces' = [nonces EXCEPT ![p] = NoNonces]
      /\ UNCHANGED <<dkgVars, attempt, package, filed>>
  BY DEF Round2, Spent
<1>2. share.participant_id = p /\ share.attempt = attempt /\ share.z = SignatureShare(p)
  OBVIOUS
<1> HIDE DEF share
<1>3. UNCHANGED <<commitments, verdicts, keyshare>>
  BY <1>1 DEF dkgVars, dealings, disputes
<1>4. PackageTypes' /\ Complete' = Complete
  BY <1>1 DEF SignInv, PackageTypes, Committed, Complete
<1>5. NoncesMatch'
  <2>1. \A q \in Participants : nonces'[q] = NoNonces \/ nonces'[q] = nonces[q]
    BY <1>1 DEF NonceInv, NonceTypes
  <2>2. \A c \in package.commitments : c.participant_id \in Participants
    BY CommitmentFacts DEF SignInv
  <2> QED BY <1>1, <2>1, <2>2 DEF SignInv, NoncesMatch
<1>6. VerifySignatureShare(p, SignatureShare(p)) /\ attempt \in Nat /\ attempt # 0
  BY <1>1, OwnSharePasses DEF KeyInv
<1>7. SharesPass'
  <2> SUFFICES ASSUME NEW s \in sent'
               PROVE  /\ s.attempt \in Nat /\ s.attempt # 0 /\ s.attempt <= attempt
                      /\ s.attempt = attempt =>
                           Complete /\ VerifySignatureShare(s.participant_id, s.z)'
    BY <1>1, <1>4 DEF SharesPass
  <2>1. CASE s \in sent
    BY <1>1, <1>3, <2>1, SameCheck DEF SignInv, SharesPass
  <2>2. CASE s = share
    <3>1. VerifySignatureShare(s.participant_id, s.z)
      BY <1>2, <1>6, <2>2
    <3> QED BY <1>1, <1>2, <1>3, <1>6, <2>2, <3>1, SameCheck
  <2> QED BY <1>1, <2>1, <2>2
<1>8. FiledPass'
  BY <1>1, <1>3, <1>4, SameCheck DEF SignInv, FiledPass
<1> QED BY <1>4, <1>5, <1>7, <1>8 DEF SignInv

LEMMA ReceiveSigns ==
  ASSUME HashesToScalars, KeyInv, SignInv, NEW p, NEW z, Receive(p, z)
  PROVE  SignInv'
<1>1. /\ p \in package.signer_ids /\ Complete
      /\ UNCHANGED <<dkgVars, attempt, package, nonces, sent>>
      /\ \/ VerifySignatureShare(p, z) /\ filed' = [filed EXCEPT ![p] = z]
         \/ UNCHANGED filed
  BY DEF Receive
<1>2. UNCHANGED <<commitments, verdicts, keyshare>>
  BY <1>1 DEF dkgVars, dealings, disputes
<1>3. /\ PackageTypes' /\ NoncesMatch' /\ Complete' = Complete
  BY <1>1 DEF SignInv, PackageTypes, NoncesMatch, Committed, Complete
<1>4. SharesPass'
  BY <1>1, <1>2, <1>3, SameCheck DEF SignInv, SharesPass
<1>5. p \in Participants /\ attempt # 0
  BY <1>1 DEF SignInv, PackageTypes, KeyInv
<1>6. FiledPass'
  <2>1. CASE UNCHANGED filed
    BY <1>1, <1>2, <1>3, <2>1, SameCheck DEF SignInv, FiledPass
  <2>2. CASE VerifySignatureShare(p, z) /\ filed' = [filed EXCEPT ![p] = z]
    <3>1. z \in Scalars /\ VerifySignatureShare(p, z)'
      <4>1. z \in Scalars
        BY <1>5, <2>2, CheckedShare DEF SignInv
      <4>2. VerifySignatureShare(p, z)'
        BY <1>1, <1>2, <2>2, SameCheck
      <4> QED BY <4>1, <4>2
    <3>2. /\ filed' = [q \in Participants |-> filed'[q]] /\ filed'[p] = z
          /\ \A q \in Participants \ {p} : filed'[q] = filed[q]
      BY <1>5, <2>2 DEF SignInv, FiledPass
    <3>3. ASSUME NEW q \in Participants, filed'[q] # NoShare
          PROVE  /\ q \in package.signer_ids
                 /\ \E y \in Scalars : y = filed'[q] /\ VerifySignatureShare(q, y)'
      <4>1. CASE q = p
        BY <1>1, <3>1, <3>2, <4>1
      <4>2. CASE q # p
        <5>1. PICK y \in Scalars : y = filed[q] /\ VerifySignatureShare(q, y)
          BY <3>2, <3>3, <4>2 DEF SignInv, FiledPass
        <5>2. VerifySignatureShare(q, y)'
          BY <1>1, <1>2, <5>1, SameCheck
        <5> QED BY <3>2, <3>3, <4>2, <5>1, <5>2 DEF SignInv, FiledPass
      <4> QED BY <4>1, <4>2
    <3> QED BY <1>1, <1>3, <1>5, <3>2, <3>3 DEF FiledPass
  <2> QED BY <1>1, <2>1, <2>2
<1> QED BY <1>3, <1>4, <1>6 DEF SignInv

LEMMA SignInvNext ==
  ASSUME HashesToScalars
  PROVE  NonceInv /\ KeyInv /\ SignInv /\ [Next]_vars => SignInv'
<1> SUFFICES ASSUME NonceInv, KeyInv, SignInv, [Next]_vars PROVE SignInv'
  OBVIOUS
<1>1. CASE UNCHANGED vars
  BY <1>1, SignInvUnchanged DEF vars, dkgVars, dealings, disputes
<1>2. CASE DkgNext /\ UNCHANGED signing
  BY <1>2, DkgOver, SignInvBefore
<1>3. CASE Begin
  BY <1>3, BeginSigns
<1>4. CASE Repackage
  BY <1>4, RepackageSigns
<1>5. ASSUME NEW p \in Participants, Round1(p) PROVE SignInv'
  BY <1>5, Round1Signs
<1>6. ASSUME NEW p \in Participants, Round2(p) PROVE SignInv'
  BY <1>6, Round2Signs
<1>7. ASSUME NEW p, NEW z, Receive(p, z) PROVE SignInv'
  BY <1>7, ReceiveSigns
<1> QED BY <1>1, <1>2, <1>3, <1>4, <1>5, <1>6, <1>7 DEF Next, Sign

LEMMA SigningStarts == Init => SignInv
<1> SUFFICES ASSUME Init PROVE SignInv
  OBVIOUS
<1>1. package.signer_ids = {} /\ package.commitments = {} /\ attempt = 0 /\ sent = {}
  BY DEF Init, Package
<1>2. PackageTypes /\ NoncesMatch /\ SharesPass
  BY <1>1 DEF PackageTypes, NoncesMatch, SharesPass, Committed
<1>3. FiledPass
  BY DEF Init, FiledPass, NothingFiled
<1> QED BY <1>2, <1>3 DEF SignInv

LEMMA SharesAddUp == ASSUME HashesToScalars PROVE KeyInv /\ SignInv => SharesSign
<1> SUFFICES ASSUME KeyInv, SignInv PROVE GoodSharesPass /\ SignatureVerifies
  BY DEF SharesSign
<1>1. GoodSharesPass
  BY DEF SignInv, SharesPass, GoodSharesPass
<1>2. SignatureVerifies
  BY AggregateVerifies DEF SignatureVerifies
<1> QED BY <1>1, <1>2

\* A signer that follows the protocol is never named, and shares that passed the
\* check add up to a valid signature, with late shares, faulty signers and new
\* packages (verify_signature_share, aggregate), whatever scalars H1 and H2 return.
THEOREM CheckedSharesSign ==
  ASSUME HashesToScalars
  PROVE  Spec => []SharesSign
BY SigningStarts, SharesAddUp, NonceInvAlways, SignInvNext, KeyInvAlways, PTL DEF Spec
-----------------------------------------------------------------------------
(* Decryption from a KEM.  Every answer given is a value of the sender's   *)
(* polynomial, whoever gave it and whatever keys were tried.               *)

MasterShares(draw) == [i \in Participants |-> Evaluate(draw, i)]

AnswersTrue ==
  /\ sealed = KemError => partials = << >>
  /\ sealed # KemError => \E draw \in Polynomials, plaintext \in Plaintexts, ids \in SUBSET Participants :
       /\ \E operators \in [ids -> Keys] : sealed = EncryptToGroup(operators, draw, plaintext)
       /\ DOMAIN partials \subseteq ids
       /\ \A id \in DOMAIN partials : partials[id] = Evaluate(draw, id)

LEMMA AnswerIsTrue ==
  ASSUME AnswersTrue, AnswerPartially
  PROVE  AnswersTrue'
<1>1. sealed # KemError /\ UNCHANGED sealed
  BY DEF AnswerPartially
<1>2. PICK id \in Participants \ DOMAIN partials, key \in Keys :
        /\ PartialDecryptKem(id, key, sealed) # KemError
        /\ partials' = [i \in DOMAIN partials \cup {id} |->
             IF i = id THEN PartialDecryptKem(id, key, sealed) ELSE partials[i]]
  BY DEF AnswerPartially
<1>3. PICK draw \in Polynomials, plaintext \in Plaintexts, ids \in SUBSET Participants :
        /\ \E operators \in [ids -> Keys] : sealed = EncryptToGroup(operators, draw, plaintext)
        /\ DOMAIN partials \subseteq ids
        /\ \A i \in DOMAIN partials : partials[i] = Evaluate(draw, i)
  BY <1>1 DEF AnswersTrue
<1>4. PICK operators \in [ids -> Keys] : sealed = EncryptToGroup(operators, draw, plaintext)
  BY <1>3
<1>5. id \in ids /\ PartialDecryptKem(id, key, sealed) = Evaluate(draw, id)
  <2>1. /\ DOMAIN sealed.shares = ids
        /\ \A i \in ids : sealed.shares[i].wrapped_share
                            = AeadSeal(Hkdf(operators[i], "share-wrap"), Evaluate(draw, i))
    BY <1>4 DEF EncryptToGroup
  <2>2. id \in ids
    BY <1>2, <2>1 DEF PartialDecryptKem
  <2>3. sealed.shares[id].wrapped_share.text = Evaluate(draw, id)
    <3>1. sealed.shares[id].wrapped_share
            = AeadSeal(Hkdf(operators[id], "share-wrap"), Evaluate(draw, id))
      BY <2>1, <2>2
    <3>2. \A k, data : AeadSeal(k, data).text = data
      BY DEF AeadSeal
    <3> QED BY <3>1, <3>2
  <2>4. PartialDecryptKem(id, key, sealed) \in {KemError, sealed.shares[id].wrapped_share.text}
    BY <2>1, <2>2 DEF PartialDecryptKem, AeadOpen
  <2> QED BY <1>2, <2>2, <2>3, <2>4
<1>6. /\ DOMAIN partials' = DOMAIN partials \cup {id}
      /\ partials'[id] = Evaluate(draw, id)
      /\ \A i \in DOMAIN partials : partials'[i] = partials[i]
  BY <1>2, <1>5
<1> QED BY <1>1, <1>3, <1>4, <1>5, <1>6 DEF AnswersTrue

LEMMA AnswersOpen ==
  ASSUME AnswersTrue, sealed # KemError
  PROVE  IF Cardinality(DOMAIN partials) >= Threshold
         THEN CombineAndDecrypt(partials, sealed) = sealed.payload.text
         ELSE \A secret \in Scalars : \E f \in Polynomials :
                f[1] = secret /\ \A id \in DOMAIN partials : Evaluate(f, id) = partials[id]
<1>1. PICK draw \in Polynomials, plaintext \in Plaintexts, ids \in SUBSET Participants :
        /\ \E operators \in [ids -> Keys] : sealed = EncryptToGroup(operators, draw, plaintext)
        /\ DOMAIN partials \subseteq ids
        /\ \A i \in DOMAIN partials : partials[i] = Evaluate(draw, i)
  BY DEF AnswersTrue
<1> DEFINE who == DOMAIN partials
           g == MasterShares(draw)
<1>2. who \in SUBSET Participants /\ Cardinality(who) \in Nat
  BY <1>1, ParticipantSets
<1>3. ASSUME Cardinality(who) >= Threshold
      PROVE  CombineAndDecrypt(partials, sealed) = sealed.payload.text
  <2> DEFINE master_secret == SumOver([id \in who |-> LagrangeAtZero(id, who) * partials[id]])
  <2>1. draw \in Seq(Scalars) /\ Len(draw) = Threshold /\ Threshold # 0 /\ draw[1] \in Scalars
    BY PolynomialType, SharingAssumption
  <2>2. \A i \in who : g[i] = partials[i]
    BY <1>1, <1>2 DEF MasterShares
  <2>3. master_secret = AtZero(who, g)
    <3>1. [id \in who |-> LagrangeAtZero(id, who) * partials[id]] = Weighed(who, g)
      BY <2>2 DEF Weighed
    <3> QED BY <3>1 DEF AtZero
  <2>4. Same(AtZero(who, g), draw[1])
    BY <1>2, <1>3, <2>1, Interpolation, SecretAtZero DEF MasterShares
  <2>5. g \in Values
    BY <2>1, EvaluateType, ParticipantType DEF Values, MasterShares
  <2> HIDE DEF who, g, master_secret
  <2>6. master_secret \in Scalars
    BY <1>2, <2>3, <2>5, AtZeroType
  <2>7. master_secret = draw[1]
    BY <2>1, <2>3, <2>4, <2>6, SameEqual
  <2>8. sealed.payload = AeadSeal(Hkdf(draw[1], "payload-key"), plaintext)
    BY <1>1 DEF EncryptToGroup
  <2>9. CombineAndDecrypt(partials, sealed)
          = AeadOpen(Hkdf(master_secret, "payload-key"), sealed.payload)
    BY DEF CombineAndDecrypt, master_secret, who
  <2> QED BY <2>7, <2>8, <2>9 DEF AeadOpen, AeadSeal
<1>4. ASSUME ~(Cardinality(who) >= Threshold), NEW secret \in Scalars
      PROVE  \E f \in Polynomials :
               f[1] = secret /\ \A id \in who : Evaluate(f, id) = partials[id]
  <2>1. Cardinality(who) < Threshold
    BY <1>2, <1>4, SharingAssumption
  <2> HIDE DEF who
  <2>2. PICK f \in Polynomials :
          f[1] = secret /\ \A i \in who : Evaluate(f, i) = Evaluate(draw, i)
    BY <1>2, <2>1, AnySecretFits
  <2> QED BY <1>1, <2>2 DEF who
<1> QED BY <1>3, <1>4

LEMMA OpeningStarts == KemIdle => AnswersTrue
BY DEF KemIdle, AnswersTrue

LEMMA AnswersTrueNext == AnswersTrue /\ [KemNext]_kemVars => AnswersTrue'
<1> SUFFICES ASSUME AnswersTrue, [KemNext]_kemVars PROVE AnswersTrue'
  OBVIOUS
<1>1. CASE SealToGroup
  <2>1. partials' = << >> /\ DOMAIN partials' = {}
    BY <1>1 DEF SealToGroup, AnswersTrue
  <2>2. \E draw \in Polynomials, plaintext \in Plaintexts, ids \in SUBSET Participants :
          \E operators \in [ids -> Keys] : sealed' = EncryptToGroup(operators, draw, plaintext)
    BY <1>1 DEF SealToGroup
  <2> QED BY <2>1, <2>2 DEF AnswersTrue
<1>2. CASE AnswerPartially
  BY <1>2, AnswerIsTrue
<1>3. CASE UNCHANGED kemVars
  BY <1>3 DEF kemVars, AnswersTrue
<1> QED BY <1>1, <1>2, <1>3 DEF KemNext

\* Any Threshold operators open what was sealed to the group, in whatever order
\* their answers come and whoever else tries; to fewer, every master secret is as
\* possible as any other (encrypt_to_group, partial_decrypt, combine_and_decrypt).
THEOREM OperatorsOpenTogether == KemSpec => []KemQuorumOpens
<1>1. AnswersTrue => KemQuorumOpens
  BY AnswersOpen DEF KemQuorumOpens
<1> QED BY <1>1, OpeningStarts, AnswersTrueNext, PTL DEF KemSpec
-----------------------------------------------------------------------------
(***************************************************************************)
(* The permutation of the nullifiers: every step maps states to states.    *)
(***************************************************************************)
States == [Lanes -> Field]

LEMMA FieldFacts ==
  /\ P \in Nat /\ P > 1 /\ 0 \in Field /\ 1 \in Field
  /\ \A v \in Field : v \in Int
  /\ \A a, b \in 2 .. (P - 1) : a * b # P
BY FieldAssumption DEF Field

LEMMA InField == ASSUME NEW a \in Int PROVE a % P \in Field
BY FieldFacts, ModuloSame DEF Field

LEMMA LaneFacts ==
  /\ Lanes = 0 .. 7 /\ \A i \in Lanes : i \in Int
  /\ 0 \in Lanes /\ 1 \in Lanes /\ 2 \in Lanes /\ 3 \in Lanes
  /\ 4 \in Lanes /\ 5 \in Lanes /\ 6 \in Lanes /\ 7 \in Lanes
BY DEF Lanes, WIDTH

LEMMA SboxType == ASSUME NEW x \in Int PROVE Sbox(x) \in Field
<1> DEFINE x2 == (x * x) % P
           x4 == (x2 * x2) % P
           x6 == (x4 * x2) % P
<1>1. x2 \in Int
  BY InField, FieldFacts
<1>2. x4 \in Int
  BY <1>1, InField, FieldFacts
<1>3. x6 \in Int
  BY <1>1, <1>2, InField, FieldFacts
<1>4. x6 * x \in Int
  BY <1>3
<1> HIDE DEF x2, x4, x6
<1>5. (x6 * x) % P \in Field
  BY <1>4, InField
<1>6. QED
  BY <1>5 DEF Sbox, x2, x4, x6

LEMMA HalfType ==
  ASSUME NEW state \in States, NEW first \in {0, 4}, NEW k \in 0 .. 3
  PROVE  Mds4(state, first)[k] \in Field
<1>1. \A i \in Lanes : state[i] \in Int
  BY FieldFacts DEF States
<1>2. /\ first + k \in Lanes /\ first + ((k + 1) % 4) \in Lanes
      /\ first + ((k + 2) % 4) \in Lanes /\ first + ((k + 3) % 4) \in Lanes
  BY LaneFacts
<1>3. 2 * state[first + k] + 3 * state[first + ((k + 1) % 4)]
        + state[first + ((k + 2) % 4)] + state[first + ((k + 3) % 4)] \in Int
  BY <1>1, <1>2
<1>4. QED
  BY <1>3, InField DEF Mds4

LEMMA MdsType == ASSUME NEW state \in States PROVE MdsLight(state) \in States
<1> DEFINE lo == Mds4(state, 0)
           hi == Mds4(state, 4)
<1>1. \A k \in 0 .. 3 : lo[k] \in Int /\ hi[k] \in Int
  BY HalfType, FieldFacts
<1> HIDE DEF lo, hi
<1>2. ASSUME NEW i \in Lanes
      PROVE  ((IF i < 4 THEN lo[i] ELSE hi[i - 4]) + lo[i % 4] + hi[i % 4]) % P \in Field
  <2>1. i % 4 \in 0 .. 3 /\ (i < 4 => i \in 0 .. 3) /\ (~(i < 4) => i - 4 \in 0 .. 3)
    BY LaneFacts
  <2>2. (IF i < 4 THEN lo[i] ELSE hi[i - 4]) \in Int
    BY <1>1, <2>1
  <2>3. (IF i < 4 THEN lo[i] ELSE hi[i - 4]) + lo[i % 4] + hi[i % 4] \in Int
    BY <1>1, <2>1, <2>2
  <2>4. QED
    BY <2>3, InField
<1>3. QED
  BY <1>2 DEF MdsLight, States, lo, hi

LEMMA DiffuseType == ASSUME NEW state \in States PROVE InternalDiffuse(state) \in States
<1> DEFINE sum == state[0] + state[1] + state[2] + state[3] + state[4] + state[5] + state[6] + state[7]
<1>1. \A i \in Lanes : state[i] \in Int /\ INTERNAL_DIAG[i] \in Int
  BY FieldFacts, FieldAssumption DEF States
<1>2. sum \in Int
  BY <1>1, LaneFacts
<1> HIDE DEF sum
<1>3. ASSUME NEW i \in Lanes
      PROVE  (sum + INTERNAL_DIAG[i] * state[i]) % P \in Field
  <2>1. sum + INTERNAL_DIAG[i] * state[i] \in Int
    BY <1>1, <1>2
  <2>2. QED
    BY <2>1, InField
<1>4. QED
  BY <1>3 DEF InternalDiffuse, States, sum

LEMMA StepType ==
  ASSUME NEW state \in States, NEW i \in 0 .. (ROUNDS - 1)
  PROVE  ApplyStep(state, i) \in States
<1>1. HALF_FULL_ROUNDS \in Nat /\ PARTIAL_ROUNDS \in Nat
  BY FieldAssumption
<1>2. i \in Int /\ i <= 2 * HALF_FULL_ROUNDS + PARTIAL_ROUNDS
  BY <1>1 DEF ROUNDS
<1>3. StepKind(i) \in {"LinearOnly", "Full", "Partial"}
  BY DEF StepKind
<1>4. CASE StepKind(i) = "LinearOnly"
  BY <1>4, MdsType DEF ApplyStep
<1>5. CASE StepKind(i) = "Full"
  <2>1. RoundConstants(i) \in [Lanes -> Field]
    <3>1. CASE i <= HALF_FULL_ROUNDS
      <4>1. i \in 1 .. HALF_FULL_ROUNDS
        BY <1>1, <1>2, <1>5, <3>1 DEF StepKind
      <4>2. RoundConstants(i) = EXTERNAL_INITIAL[i]
        BY <1>1, <1>2, <1>5, <3>1 DEF RoundConstants
      <4>3. QED
        BY <4>1, <4>2, FieldAssumption
    <3>2. CASE i > HALF_FULL_ROUNDS
      <4>1. i - HALF_FULL_ROUNDS - PARTIAL_ROUNDS \in 1 .. HALF_FULL_ROUNDS
        <5>1. i \notin (HALF_FULL_ROUNDS + 1) .. (HALF_FULL_ROUNDS + PARTIAL_ROUNDS)
          BY <1>1, <1>2, <1>5, <3>2 DEF StepKind
        <5>2. QED
          BY <1>1, <1>2, <3>2, <5>1
      <4>2. RoundConstants(i) = EXTERNAL_FINAL[i - HALF_FULL_ROUNDS - PARTIAL_ROUNDS]
        BY <1>1, <1>2, <1>5, <3>2 DEF RoundConstants
      <4>3. QED
        BY <4>1, <4>2, FieldAssumption
    <3>3. QED
      BY <1>1, <1>2, <3>1, <3>2
  <2> DEFINE rc == RoundConstants(i)
             boxed == [lane \in Lanes |-> Sbox((state[lane] + rc[lane]) % P)]
  <2>2. ASSUME NEW lane \in Lanes
        PROVE  Sbox((state[lane] + rc[lane]) % P) \in Field
    <3>1. state[lane] + rc[lane] \in Int
      BY <2>1, FieldFacts DEF States
    <3> HIDE DEF rc
    <3>2. QED
      BY <3>1, InField, FieldFacts, SboxType
  <2>3. boxed \in States
    BY <2>2 DEF States
  <2>4. ApplyStep(state, i) = MdsLight(boxed)
    BY <1>5 DEF ApplyStep, FullRound
  <2> HIDE DEF boxed
  <2>5. QED
    BY <2>3, <2>4, MdsType
<1>6. CASE StepKind(i) = "Partial"
  <2>1. i - HALF_FULL_ROUNDS \in 1 .. PARTIAL_ROUNDS
    <3>1. i # 0 /\ i \notin 1 .. HALF_FULL_ROUNDS
      BY <1>1, <1>2, <1>6 DEF StepKind
    <3>2. i \in (HALF_FULL_ROUNDS + 1) .. (HALF_FULL_ROUNDS + PARTIAL_ROUNDS)
      BY <1>6, <3>1 DEF StepKind
    <3>3. QED
      BY <1>1, <1>2, <3>2
  <2>2. RoundConstants(i)[0] = INTERNAL[i - HALF_FULL_ROUNDS]
    BY <1>6, LaneFacts DEF RoundConstants
  <2>3. RoundConstants(i)[0] \in Int
    BY <2>1, <2>2, FieldAssumption, FieldFacts
  <2> DEFINE rc == RoundConstants(i)[0]
             boxed == [state EXCEPT ![0] = Sbox((state[0] + rc) % P)]
  <2>4. Sbox((state[0] + rc) % P) \in Field
    <3>1. state[0] + rc \in Int
      BY <2>3, FieldFacts, LaneFacts DEF States
    <3> HIDE DEF rc
    <3>2. QED
      BY <3>1, InField, FieldFacts, SboxType
  <2>5. boxed \in States
    BY <2>4 DEF States
  <2>6. ApplyStep(state, i) = InternalDiffuse(boxed)
    BY <1>6 DEF ApplyStep, PartialRound
  <2> HIDE DEF boxed
  <2>7. QED
    BY <2>5, <2>6, DiffuseType
<1>7. QED
  BY <1>3, <1>4, <1>5, <1>6

LEMMA RoundFacts == ROUNDS \in Nat /\ ROUNDS >= 1 /\ BLOCK_LEN = ROUNDS + 1
BY FieldAssumption DEF ROUNDS, BLOCK_LEN

\* The states before and after each step of the schedule.
LEMMA PermutationSteps ==
  ASSUME NEW input \in States
  PROVE  /\ TracePermutation(input) \in [0 .. ROUNDS -> States]
         /\ TracePermutation(input)[0] = input
         /\ \A r \in 0 .. (ROUNDS - 1) :
              TracePermutation(input)[r + 1] = ApplyStep(TracePermutation(input)[r], r)
<1> DEFINE n == ROUNDS
           step == [r \in 1 .. n |-> [t \in States |-> ApplyStep(t, r - 1)]]
<1>1. n \in Nat
  BY RoundFacts
<1>2. ASSUME NEW r \in 1 .. n, NEW t \in States
      PROVE  step[r][t] \in States /\ step[r][t] = ApplyStep(t, r - 1)
  <2>1. r - 1 \in 0 .. (ROUNDS - 1)
    BY <1>1
  <2>2. QED
    BY <2>1, StepType
<1> DEFINE states[r \in 0 .. ROUNDS] == IF r = 0 THEN input ELSE ApplyStep(states[r - 1], r - 1)
<1>3. TracePermutation(input) = states
  BY DEF TracePermutation
<1> HIDE DEF step
<1>4. \A r \in 1 .. n : \A t \in States : step[r][t] \in States
  BY <1>2
<1>5. PICK h : Loop(h, n, States, input, step)
  BY <1>1, <1>4, Iterate
<1>6. h = [r \in 0 .. ROUNDS |-> IF r = 0 THEN input ELSE ApplyStep(h[r - 1], r - 1)]
  <2>1. ASSUME NEW r \in 0 .. n
        PROVE  h[r] = IF r = 0 THEN input ELSE ApplyStep(h[r - 1], r - 1)
    <3>1. CASE r = 0
      BY <1>5, <3>1 DEF Loop
    <3>2. CASE r # 0
      <4>1. r \in 1 .. n
        BY <1>1, <3>2
      <4>2. h[r] = step[r][h[r - 1]] /\ h[r - 1] \in States
        BY <1>5, <4>1 DEF Loop
      <4>3. QED
        BY <1>2, <3>2, <4>1, <4>2
    <3>3. QED
      BY <3>1, <3>2
  <2>2. h = [r \in 0 .. n |-> h[r]]
    BY <1>5 DEF Loop
  <2>3. QED
    BY <2>1, <2>2
<1>7. states = [r \in 0 .. ROUNDS |-> IF r = 0 THEN input ELSE ApplyStep(states[r - 1], r - 1)]
  BY <1>6, Zenon DEF states
<1> HIDE DEF states
<1>8. Loop(states, n, States, input, step)
  <2>1. states = [r \in 0 .. n |-> states[r]] /\ states[0] = input
    BY <1>1, <1>7
  <2>2. ASSUME NEW r \in 1 .. n, states[r - 1] \in States
        PROVE  states[r] = step[r][states[r - 1]]
    <3>1. r \in 0 .. n /\ r # 0
      BY <1>1
    <3>2. states[r] = ApplyStep(states[r - 1], r - 1)
      BY <1>7, <3>1
    <3>3. QED
      BY <1>2, <2>2, <3>2
  <2> HIDE DEF n
  <2>3. QED
    BY <1>1, <1>4, <2>1, <2>2, GoesOn
<1>9. states \in [0 .. ROUNDS -> States] /\ states[0] = input
  BY <1>8 DEF Loop
<1>10. ASSUME NEW r \in 0 .. (ROUNDS - 1)
       PROVE  states[r + 1] = ApplyStep(states[r], r)
  <2>1. r + 1 \in 0 .. ROUNDS /\ r + 1 # 0 /\ (r + 1) - 1 = r
    BY <1>1
  <2>2. QED
    BY <1>7, <2>1
<1>11. QED
  BY <1>3, <1>9, <1>10

LEMMA PermutationType ==
  ASSUME NEW input \in States
  PROVE  TracePermutation(input)[ROUNDS] \in States
<1>1. ROUNDS \in 0 .. ROUNDS
  BY RoundFacts
<1>2. QED
  BY <1>1, PermutationSteps

LEMMA PaddedType ==
  ASSUME NEW left \in Field, NEW right \in Field
  PROVE  Padded(left, right) \in States
BY FieldFacts DEF Padded, States

LEMMA CompressType ==
  ASSUME NEW left \in Field, NEW right \in Field
  PROVE  Compress2(left, right) \in Field
BY PaddedType, PermutationType, LaneFacts DEF Compress2, States

-----------------------------------------------------------------------------
(***************************************************************************)
(* Absorbing a message: bytes_to_field returns an element of the field.    *)
(***************************************************************************)
\* acc[k] is the number that the k last bytes of a chunk spell.
Spelled(acc, chunk) ==
  /\ acc \in [0 .. Len(chunk) -> Nat] /\ acc[0] = 0
  /\ \A k \in 1 .. Len(chunk) : acc[k] = acc[k - 1] * Cardinality(Byte) + chunk[Len(chunk) - k + 1]

LEMMA ByteFacts ==
  /\ Cardinality(Byte) \in Nat /\ Cardinality(Byte) >= 1
  /\ \A b \in Byte : b \in Nat /\ b < Cardinality(Byte)
  /\ BYTES_PER_ELEMENT \in Nat /\ BYTES_PER_ELEMENT >= 1
<1>1. /\ BYTES_PER_ELEMENT \in Nat \ {0} /\ Byte = 0 .. (Cardinality(Byte) - 1)
      /\ Cardinality(Byte) \in Nat \ {0}
  BY FieldAssumption
<1>2. QED
  BY <1>1

LEMMA PackedSteps ==
  ASSUME NEW chunk \in Seq(Byte)
  PROVE  \E acc : Spelled(acc, chunk) /\ Packed(chunk) = acc[Len(chunk)] % P
<1> DEFINE n == Len(chunk)
           c == Cardinality(Byte)
           step == [k \in 1 .. n |-> [t \in Nat |-> t * c + chunk[n - k + 1]]]
<1>1. n \in Nat /\ c \in Nat
  BY ByteFacts
<1> HIDE DEF c
<1>2. \A k \in 1 .. n : n - k + 1 \in 1 .. n /\ chunk[n - k + 1] \in Nat
  BY ByteFacts
<1>3. ASSUME NEW k \in 1 .. n, NEW t \in Nat
      PROVE  step[k][t] \in Nat /\ step[k][t] = t * c + chunk[n - k + 1]
  <2>1. t * c \in Nat
    BY <1>1
  <2>2. QED
    BY <1>2, <2>1
<1> DEFINE acc[k \in 0 .. n] == IF k = 0 THEN 0 ELSE acc[k - 1] * c + chunk[n - k + 1]
<1>4. Packed(chunk) = acc[n] % P
  BY DEF Packed, c
<1> HIDE DEF step, n
<1>5. \A k \in 1 .. n : \A t \in Nat : step[k][t] \in Nat
  BY <1>3
<1>6. PICK h : Loop(h, n, Nat, 0, step)
  BY <1>1, <1>5, Iterate
<1>7. h = [k \in 0 .. n |-> IF k = 0 THEN 0 ELSE h[k - 1] * c + chunk[n - k + 1]]
  <2>1. ASSUME NEW k \in 0 .. n
        PROVE  h[k] = IF k = 0 THEN 0 ELSE h[k - 1] * c + chunk[n - k + 1]
    <3>1. CASE k = 0
      BY <1>6, <3>1 DEF Loop
    <3>2. CASE k # 0
      <4>1. k \in 1 .. n
        BY <1>1, <3>2
      <4>2. h[k] = step[k][h[k - 1]] /\ h[k - 1] \in Nat
        BY <1>6, <4>1 DEF Loop
      <4>3. QED
        BY <1>3, <3>2, <4>1, <4>2
    <3>3. QED
      BY <3>1, <3>2
  <2>2. h = [k \in 0 .. n |-> h[k]]
    BY <1>6 DEF Loop
  <2>3. QED
    BY <2>1, <2>2
<1>8. acc = [k \in 0 .. n |-> IF k = 0 THEN 0 ELSE acc[k - 1] * c + chunk[n - k + 1]]
  BY <1>7, Zenon DEF acc
<1> HIDE DEF acc
<1>9. Loop(acc, n, Nat, 0, step)
  <2>1. acc = [k \in 0 .. n |-> acc[k]] /\ acc[0] = 0
    BY <1>1, <1>8
  <2>2. ASSUME NEW k \in 1 .. n, acc[k - 1] \in Nat
        PROVE  acc[k] = step[k][acc[k - 1]]
    <3>1. k \in 0 .. n /\ k # 0
      BY <1>1
    <3>2. acc[k] = acc[k - 1] * c + chunk[n - k + 1]
      BY <1>8, <3>1
    <3>3. QED
      BY <1>3, <2>2, <3>2
  <2>3. QED
    BY <1>1, <1>5, <2>1, <2>2, GoesOn
<1>10. ASSUME NEW k \in 1 .. n
       PROVE  acc[k] = acc[k - 1] * c + chunk[n - k + 1]
  BY <1>3, <1>9 DEF Loop
<1>11. Spelled(acc, chunk)
  BY <1>9, <1>10 DEF Spelled, Loop, n, c
<1>12. QED
  BY <1>4, <1>11 DEF n

LEMMA PackedType == ASSUME NEW chunk \in Seq(Byte) PROVE Packed(chunk) \in Field
<1>1. PICK acc : Spelled(acc, chunk) /\ Packed(chunk) = acc[Len(chunk)] % P
  BY PackedSteps
<1>2. acc[Len(chunk)] \in Int
  <2>1. Len(chunk) \in 0 .. Len(chunk)
    OBVIOUS
  <2>2. QED
    BY <1>1, <2>1 DEF Spelled
<1>3. QED
  BY <1>1, <1>2, InField

\* The bounds of the k-th chunk.
ChunkStart(k) == (k - 1) * BYTES_PER_ELEMENT + 1
ChunkEnd(k, n) == IF k * BYTES_PER_ELEMENT <= n THEN k * BYTES_PER_ELEMENT ELSE n
NumChunks(n) == (n + BYTES_PER_ELEMENT - 1) \div BYTES_PER_ELEMENT

LEMMA LesserOfTwo ==
  ASSUME NEW a \in Int, NEW b \in Int
  PROVE  Min({a, b}) = IF a <= b THEN a ELSE b
<1> DEFINE m == IF a <= b THEN a ELSE b
<1>1. m \in {a, b} /\ \A y \in {a, b} : m <= y
  OBVIOUS
<1>2. \A x \in {a, b} : (\A y \in {a, b} : x <= y) => x = m
  OBVIOUS
<1>3. QED
  BY <1>1, <1>2 DEF Min

LEMMA ChunkFacts ==
  ASSUME NEW bytes \in Seq(Byte)
  PROVE  /\ NumChunks(Len(bytes)) \in Nat
         /\ Chunks(bytes) = [k \in 1 .. NumChunks(Len(bytes)) |->
                               SubSeq(bytes, ChunkStart(k), ChunkEnd(k, Len(bytes)))]
         /\ \A k \in 1 .. NumChunks(Len(bytes)) :
              /\ ChunkStart(k) \in Nat \ {0} /\ ChunkEnd(k, Len(bytes)) \in 0 .. Len(bytes)
              /\ Chunks(bytes)[k] \in Seq(Byte)
<1> DEFINE n == Len(bytes)
           e == BYTES_PER_ELEMENT
<1>1. n \in Nat /\ e \in Nat /\ e >= 1
  BY ByteFacts
<1>2. NumChunks(n) \in Nat
  <2>1. n + e - 1 \in Nat /\ e \in Nat \ {0}
    BY <1>1
  <2>2. (n + e - 1) \div e \in Nat
    BY <2>1
  <2>3. QED
    BY <2>2 DEF NumChunks
<1> HIDE DEF n
<1>3. ASSUME NEW k \in 1 .. NumChunks(n)
      PROVE  /\ ChunkStart(k) \in Nat \ {0} /\ ChunkEnd(k, n) \in 0 .. n
             /\ Min({k * e, n}) = ChunkEnd(k, n)
  <2>1. k \in Nat /\ k - 1 \in Nat
    BY <1>2
  <2>2. k * e \in Nat /\ (k - 1) * e \in Nat
    BY <1>1, <2>1
  <2>3. Min({k * e, n}) = ChunkEnd(k, n)
    BY <1>1, <2>2, LesserOfTwo DEF ChunkEnd
  <2>4. ChunkStart(k) \in Nat \ {0}
    BY <2>2 DEF ChunkStart
  <2>5. ChunkEnd(k, n) \in 0 .. n
    BY <1>1, <2>2 DEF ChunkEnd
  <2>6. QED
    BY <2>3, <2>4, <2>5
<1>4. Chunks(bytes) = [k \in 1 .. NumChunks(n) |-> SubSeq(bytes, ChunkStart(k), ChunkEnd(k, n))]
  BY <1>3 DEF Chunks, NumChunks, ChunkStart, n
<1>5. ASSUME NEW k \in 1 .. NumChunks(n)
      PROVE  SubSeq(bytes, ChunkStart(k), ChunkEnd(k, n)) \in Seq(Byte)
  <2>1. ChunkStart(k) \in Nat \ {0} /\ ChunkEnd(k, n) \in 0 .. n
    BY <1>3
  <2>2. ChunkStart(k) \in Int /\ ChunkEnd(k, n) \in Int
    BY <1>1, <2>1
  <2>3. \A i \in ChunkStart(k) .. ChunkEnd(k, n) : i \in 1 .. n
    BY <1>1, <2>1, <2>2
  <2>4. \A i \in 1 .. n : bytes[i] \in Byte
    BY DEF n
  <2>5. QED
    BY <2>2, <2>3, <2>4, SubSeqProperties
<1>6. QED
  BY <1>2, <1>3, <1>4, <1>5 DEF n

LEMMA AbsorbedType ==
  ASSUME NEW bytes \in Seq(Byte)
  PROVE  Absorbed(bytes) \in Seq(Field) /\ Len(Absorbed(bytes)) >= 1
<1> DEFINE n == NumChunks(Len(bytes))
           rest == [k \in DOMAIN Chunks(bytes) |-> Packed(Chunks(bytes)[k])]
<1>1. n \in Nat /\ DOMAIN Chunks(bytes) = 1 .. n
  BY ChunkFacts
<1>2. \A k \in 1 .. n : Packed(Chunks(bytes)[k]) \in Field
  BY ChunkFacts, PackedType
<1>3. rest \in [1 .. n -> Field]
  BY <1>1, <1>2
<1>4. rest \in Seq(Field)
  BY <1>1, <1>3
<1> HIDE DEF rest, n
<1>5. Len(bytes) % P \in Field
  BY InField
<1>6. <<Len(bytes) % P>> \o rest \in Seq(Field) /\ Len(<<Len(bytes) % P>> \o rest) >= 1
  BY <1>4, <1>5
<1>7. QED
  BY <1>6 DEF Absorbed, rest

LEMMA BytesToFieldType ==
  ASSUME NEW bytes \in Seq(Byte)
  PROVE  BytesToField(bytes) \in Field
<1> DEFINE elements == Absorbed(bytes)
           n == Len(elements) - 1
           step == [k \in 1 .. n |-> [t \in Field |-> Compress2(t, elements[k + 1])]]
<1>1. elements \in Seq(Field) /\ n \in Nat
  BY AbsorbedType
<1> HIDE DEF elements
<1>2. elements[1] \in Field /\ \A k \in 1 .. n : elements[k + 1] \in Field
  BY <1>1
<1>3. ASSUME NEW k \in 1 .. n, NEW t \in Field
      PROVE  step[k][t] \in Field /\ step[k][t] = Compress2(t, elements[k + 1])
  BY <1>2, CompressType
<1> DEFINE acc[k \in 0 .. n] == IF k = 0 THEN elements[1] ELSE Compress2(acc[k - 1], elements[k + 1])
<1>4. BytesToField(bytes) = acc[n]
  BY DEF BytesToField, elements
<1> HIDE DEF step, n
<1>5. \A k \in 1 .. n : \A t \in Field : step[k][t] \in Field
  BY <1>3
<1>6. PICK h : Loop(h, n, Field, elements[1], step)
  BY <1>1, <1>2, <1>5, Iterate
<1>7. h = [k \in 0 .. n |-> IF k = 0 THEN elements[1] ELSE Compress2(h[k - 1], elements[k + 1])]
  <2>1. ASSUME NEW k \in 0 .. n
        PROVE  h[k] = IF k = 0 THEN elements[1] ELSE Compress2(h[k - 1], elements[k + 1])
    <3>1. CASE k = 0
      BY <1>6, <3>1 DEF Loop
    <3>2. CASE k # 0
      <4>1. k \in 1 .. n
        BY <1>1, <3>2
      <4>2. h[k] = step[k][h[k - 1]] /\ h[k - 1] \in Field
        BY <1>6, <4>1 DEF Loop
      <4>3. QED
        BY <1>3, <3>2, <4>1, <4>2
    <3>3. QED
      BY <3>1, <3>2
  <2>2. h = [k \in 0 .. n |-> h[k]]
    BY <1>6 DEF Loop
  <2>3. QED
    BY <2>1, <2>2
<1>8. acc = [k \in 0 .. n |-> IF k = 0 THEN elements[1] ELSE Compress2(acc[k - 1], elements[k + 1])]
  BY <1>7, Zenon DEF acc
<1> HIDE DEF acc
<1>9. Loop(acc, n, Field, elements[1], step)
  <2>1. acc = [k \in 0 .. n |-> acc[k]] /\ acc[0] = elements[1]
    BY <1>1, <1>8
  <2>2. ASSUME NEW k \in 1 .. n, acc[k - 1] \in Field
        PROVE  acc[k] = step[k][acc[k - 1]]
    <3>1. k \in 0 .. n /\ k # 0
      BY <1>1
    <3>2. acc[k] = Compress2(acc[k - 1], elements[k + 1])
      BY <1>8, <3>1
    <3>3. QED
      BY <1>3, <2>2, <3>2
  <2>3. QED
    BY <1>1, <1>2, <1>5, <2>1, <2>2, GoesOn
<1>10. n \in 0 .. n
  BY <1>1
<1>11. QED
  BY <1>4, <1>9, <1>10 DEF Loop

-----------------------------------------------------------------------------
(***************************************************************************)
(* The path: what is climbed after one step more.                          *)
(***************************************************************************)
Steps == [sibling : Field, side : {"Left", "Right"}]

ClimbsTo(cur, leaf, steps) ==
  /\ cur \in [0 .. Len(steps) -> Field] /\ cur[0] = leaf
  /\ \A k \in 1 .. Len(steps) : cur[k] = Climb(cur[k - 1], steps[k])

LEMMA ClimbType ==
  ASSUME NEW cur \in Field, NEW step \in Steps
  PROVE  Climb(cur, step) \in Field
BY CompressType DEF Climb, Steps

LEMMA ClimbSteps ==
  ASSUME NEW leaf \in Field, NEW steps \in Seq(Steps)
  PROVE  \E cur : ClimbsTo(cur, leaf, steps) /\ Climbed(leaf, steps) = cur[Len(steps)]
<1> DEFINE n == Len(steps)
           step == [k \in 1 .. n |-> [t \in Field |-> Climb(t, steps[k])]]
<1>1. n \in Nat /\ \A k \in 1 .. n : steps[k] \in Steps
  OBVIOUS
<1>2. ASSUME NEW k \in 1 .. n, NEW t \in Field
      PROVE  step[k][t] \in Field /\ step[k][t] = Climb(t, steps[k])
  BY <1>1, ClimbType
<1> DEFINE cur[k \in 0 .. n] == IF k = 0 THEN leaf ELSE Climb(cur[k - 1], steps[k])
<1>3. Climbed(leaf, steps) = cur[n]
  BY DEF Climbed
<1> HIDE DEF step, n
<1>4. \A k \in 1 .. n : \A t \in Field : step[k][t] \in Field
  BY <1>2
<1>5. PICK h : Loop(h, n, Field, leaf, step)
  BY <1>1, <1>4, Iterate
<1>6. h = [k \in 0 .. n |-> IF k = 0 THEN leaf ELSE Climb(h[k - 1], steps[k])]
  <2>1. ASSUME NEW k \in 0 .. n
        PROVE  h[k] = IF k = 0 THEN leaf ELSE Climb(h[k - 1], steps[k])
    <3>1. CASE k = 0
      BY <1>5, <3>1 DEF Loop
    <3>2. CASE k # 0
      <4>1. k \in 1 .. n
        BY <1>1, <3>2
      <4>2. h[k] = step[k][h[k - 1]] /\ h[k - 1] \in Field
        BY <1>5, <4>1 DEF Loop
      <4>3. QED
        BY <1>2, <3>2, <4>1, <4>2
    <3>3. QED
      BY <3>1, <3>2
  <2>2. h = [k \in 0 .. n |-> h[k]]
    BY <1>5 DEF Loop
  <2>3. QED
    BY <2>1, <2>2
<1>7. cur = [k \in 0 .. n |-> IF k = 0 THEN leaf ELSE Climb(cur[k - 1], steps[k])]
  BY <1>6, Zenon DEF cur
<1> HIDE DEF cur
<1>8. Loop(cur, n, Field, leaf, step)
  <2>1. cur = [k \in 0 .. n |-> cur[k]] /\ cur[0] = leaf
    BY <1>1, <1>7
  <2>2. ASSUME NEW k \in 1 .. n, cur[k - 1] \in Field
        PROVE  cur[k] = step[k][cur[k - 1]]
    <3>1. k \in 0 .. n /\ k # 0
      BY <1>1
    <3>2. cur[k] = Climb(cur[k - 1], steps[k])
      BY <1>7, <3>1
    <3>3. QED
      BY <1>2, <2>2, <3>2
  <2>3. QED
    BY <1>1, <1>4, <2>1, <2>2, GoesOn
<1>9. ClimbsTo(cur, leaf, steps)
  BY <1>2, <1>8 DEF ClimbsTo, Loop, n
<1>10. QED
  BY <1>3, <1>9 DEF n

LEMMA ClimbedType ==
  ASSUME NEW leaf \in Field, NEW steps \in Seq(Steps)
  PROVE  Climbed(leaf, steps) \in Field
<1>1. PICK cur : ClimbsTo(cur, leaf, steps) /\ Climbed(leaf, steps) = cur[Len(steps)]
  BY ClimbSteps
<1>2. Len(steps) \in 0 .. Len(steps)
  OBVIOUS
<1>3. QED
  BY <1>1, <1>2 DEF ClimbsTo

LEMMA ClimbedNothing == ASSUME NEW leaf \in Field PROVE Climbed(leaf, <<>>) = leaf
<1>1. <<>> \in Seq(Steps) /\ Len(<<>>) = 0
  OBVIOUS
<1>2. QED
  BY <1>1, ClimbSteps DEF ClimbsTo

LEMMA ClimbedFurther ==
  ASSUME NEW leaf \in Field, NEW steps \in Seq(Steps), NEW step \in Steps
  PROVE  Climbed(leaf, Append(steps, step)) = Climb(Climbed(leaf, steps), step)
<1> DEFINE n == Len(steps)
           longer == Append(steps, step)
<1>1. /\ n \in Nat /\ longer \in Seq(Steps) /\ Len(longer) = n + 1 /\ longer[n + 1] = step
      /\ \A k \in 1 .. n : longer[k] = steps[k]
  OBVIOUS
<1>2. PICK f : ClimbsTo(f, leaf, steps) /\ Climbed(leaf, steps) = f[n]
  BY ClimbSteps
<1> HIDE DEF longer
<1>3. PICK g : ClimbsTo(g, leaf, longer) /\ Climbed(leaf, longer) = g[n + 1]
  BY <1>1, ClimbSteps
<1> DEFINE S == {k \in Nat : k <= n => f[k] = g[k]}
<1>4. ASSUME NEW k \in Nat, \A m \in Nat : m < k => m \in S, k <= n
      PROVE  f[k] = g[k]
  <2>1. CASE k = 0
    BY <1>2, <1>3, <2>1 DEF ClimbsTo
  <2>2. CASE k # 0
    <3>1. k \in 1 .. n /\ k \in 1 .. (n + 1) /\ k - 1 \in Nat /\ k - 1 < k /\ k - 1 <= n
      BY <1>1, <1>4, <2>2
    <3>2. f[k - 1] = g[k - 1]
      BY <1>4, <3>1
    <3>3. f[k] = Climb(f[k - 1], steps[k]) /\ g[k] = Climb(g[k - 1], longer[k])
      BY <1>1, <1>2, <1>3, <3>1 DEF ClimbsTo
    <3>4. QED
      BY <1>1, <3>1, <3>2, <3>3
  <2>3. QED
    BY <2>1, <2>2
<1>5. S = Nat
  <2>1. S \in SUBSET Nat /\ \A k \in Nat : (\A m \in Nat : m < k => m \in S) => k \in S
    BY <1>4
  <2> HIDE DEF S
  <2>2. QED
    BY <2>1, Induction
<1>6. f[n] = g[n]
  BY <1>1, <1>5
<1>7. g[n + 1] = Climb(g[n], step)
  <2>1. n + 1 \in 1 .. (n + 1) /\ (n + 1) - 1 = n
    BY <1>1
  <2>2. g[n + 1] = Climb(g[(n + 1) - 1], longer[n + 1])
    BY <1>1, <1>3, <2>1 DEF ClimbsTo
  <2>3. QED
    BY <1>1, <2>1, <2>2
<1>8. QED
  BY <1>2, <1>3, <1>6, <1>7 DEF longer
-----------------------------------------------------------------------------
(***************************************************************************)
(* The circuit: whatever rows a prover fills in, the first lane climbs the *)
(* path from the commitment of the secret the trace carries.               *)
(***************************************************************************)
\* The row with the output of block b; BlockRow(b) has its input.
OutputRow(b) == BlockRow(b) + ROUNDS

\* What block b makes of its input, if its side constraints hold.
BlockOutput == TracePermutation(cells.state)[ROUNDS][0]

Leaf == Commitment(cells.sk)

AtInput(b) ==
  /\ row = BlockRow(b)
  /\ b <= DEPTH =>
       /\ Len(path) = b
       /\ cells.selector \in {0, 1} /\ (b = 0 => cells.state[0] = cells.sk)
          => BlockOutput = Climbed(Leaf, path)
  /\ b > DEPTH => VerifyPath(Leaf, path, public.root)
  /\ b = DEPTH + 1 => cells.state = Padded(cells.sk, public.epoch)
  /\ b = DEPTH + 2 => Statement(cells.sk, path, public)

AtOutput(b) ==
  /\ row = OutputRow(b)
  /\ b <= DEPTH => Len(path) = b /\ cells.state[0] = Climbed(Leaf, path)
  /\ b >= DEPTH => VerifyPath(Leaf, path, public.root)
  /\ b = DEPTH + 1 =>
       cells.state[0] = Compress2(cells.sk, public.epoch) /\ public.nullifier = cells.state[0]

PublicShape ==
  public = [root |-> public.root, epoch |-> public.epoch, x |-> public.x,
            y |-> public.y, nullifier |-> public.nullifier]

TraceTypes ==
  /\ cells \in [state : States, sk : Field, sibling : Field, selector : Field]
  /\ path \in Seq(Steps)
  /\ public.root # -1 /\ public.epoch \in Field /\ public.x \in Field
  /\ text \in Texts

TraceInv ==
  /\ PublicShape
  /\ row = -1 => path = <<>>
  /\ row # -1 =>
       /\ TraceTypes
       /\ \/ \E b \in 0 .. (DEPTH + 2) : AtInput(b)
          \/ \E b \in 0 .. (DEPTH + 1) : AtOutput(b)

\* What the prover, or the relying party, may do next.
TraceNext == (\E root : TakeRoot(root)) \/ BeginTrace \/ ExtendTrace

-----------------------------------------------------------------------------
\* Rows and blocks.
LEMMA DepthFacts == DEPTH \in Nat
BY DepthAssumption

LEMMA BlockFacts ==
  /\ BLOCK_LEN \in Nat /\ BLOCK_LEN >= 2 /\ BLOCK_LEN = ROUNDS + 1
  /\ ROUNDS \in Nat /\ ROUNDS >= 1
BY RoundFacts

LEMMA InputRow ==
  ASSUME NEW b \in Nat
  PROVE  /\ BlockRow(b) \in Nat /\ BlockRow(b) % BLOCK_LEN = 0
         /\ OutputRow(b) \in Nat /\ OutputRow(b) % BLOCK_LEN = ROUNDS
         /\ OutputRow(b) + 1 = BlockRow(b + 1)
<1> DEFINE l == BLOCK_LEN
           m == b * l
<1>1. l \in Nat /\ l >= 2 /\ ROUNDS \in 0 .. (l - 1) /\ l = ROUNDS + 1
  BY BlockFacts
<1> HIDE DEF l
<1>2. m \in Nat
  BY <1>1
<1>3. ASSUME NEW r \in 0 .. (l - 1)
      PROVE  (m + r) % l = r
  <2>1. m + r = l * b + r
    BY <1>1
  <2>2. (l * b + r) % l = r
    <3>1. l * b + r \in Int /\ l > 0
      BY <1>1
    <3>2. \E k \in Int : l * b + r = r + k * l
      BY <1>1
    <3>3. SameModulo(l * b + r, r, l)
      BY <3>2 DEF SameModulo
    <3>4. (l * b + r) % l = r % l
      BY <1>1, <3>1, <3>3, ModuloOfSame
    <3>5. r % l = r
      BY <1>1
    <3>6. QED
      BY <3>4, <3>5
  <2>3. QED
    BY <2>1, <2>2
<1>4. m % l = 0
  <2>1. 0 \in 0 .. (l - 1) /\ m + 0 = m
    BY <1>1, <1>2
  <2>2. QED
    BY <1>3, <2>1
<1>5. (m + ROUNDS) % l = ROUNDS /\ m + ROUNDS \in Nat
  BY <1>1, <1>2, <1>3
<1>6. m + ROUNDS + 1 = (b + 1) * l
  <2>1. (b + 1) * l = m + l
    BY <1>1
  <2>2. QED
    BY <1>1, <1>2, <2>1
<1>7. QED
  BY <1>2, <1>4, <1>5, <1>6 DEF BlockRow, OutputRow, l

LEMMA RowsGrow ==
  ASSUME NEW a \in Nat, NEW b \in Nat
  PROVE  (BlockRow(a) < BlockRow(b) <=> a < b) /\ (BlockRow(a) = BlockRow(b) <=> a = b)
<1>1. BLOCK_LEN \in Nat /\ BLOCK_LEN >= 2
  BY BlockFacts
<1>2. ASSUME NEW c \in Nat, NEW d \in Nat, c < d
      PROVE  BlockRow(c) < BlockRow(d)
  <2>1. d - c - 1 \in Nat /\ (d - c - 1) * BLOCK_LEN >= 0
    BY <1>1, <1>2
  <2>2. d * BLOCK_LEN = c * BLOCK_LEN + BLOCK_LEN + (d - c - 1) * BLOCK_LEN
    BY <1>1
  <2>3. c * BLOCK_LEN \in Int /\ (d - c - 1) * BLOCK_LEN \in Int
    BY <1>1
  <2>4. QED
    BY <1>1, <2>1, <2>2, <2>3 DEF BlockRow
<1>3. BlockRow(a) \in Nat /\ BlockRow(b) \in Nat
  BY InputRow
<1>4. CASE a < b
  BY <1>2, <1>3, <1>4
<1>5. CASE b < a
  BY <1>2, <1>3, <1>5
<1>6. CASE a = b
  BY <1>3, <1>6
<1>7. QED
  BY <1>4, <1>5, <1>6

\* Where the named rows are.
LEMMA NamedRows ==
  ASSUME NEW b \in 0 .. (DEPTH + 1)
  PROVE  /\ OutputRow(b) = RootRow(DEPTH) <=> b = DEPTH
         /\ OutputRow(b) < RootRow(DEPTH) <=> b < DEPTH
         /\ OutputRow(b) = A1OutputRow(DEPTH) <=> b = DEPTH + 1
         /\ BlockRow(b + 1) = A1InputRow(DEPTH) <=> b = DEPTH
         /\ BlockRow(b + 1) = YRow(DEPTH) <=> b = DEPTH + 1
<1>1. b \in Nat /\ b + 1 \in Nat /\ DEPTH + 1 \in Nat /\ DEPTH + 2 \in Nat /\ (DEPTH + 1) + 1 = DEPTH + 2
  BY DepthFacts
<1>2. RootRow(DEPTH) = BlockRow(DEPTH + 1) - 1 /\ A1OutputRow(DEPTH) = BlockRow(DEPTH + 2) - 1
  BY <1>1 DEF RootRow, A1OutputRow, NumMerkleBlocks, BlockRow
<1>3. /\ BlockRow(b + 1) \in Nat /\ BlockRow(DEPTH + 1) \in Nat /\ BlockRow(DEPTH + 2) \in Nat
      /\ OutputRow(b) \in Nat /\ OutputRow(b) + 1 = BlockRow(b + 1)
  BY <1>1, InputRow
<1>4. A1InputRow(DEPTH) = BlockRow(DEPTH + 1) /\ YRow(DEPTH) = BlockRow(DEPTH + 2)
  BY <1>2, <1>3 DEF A1InputRow, YRow
<1>5. /\ BlockRow(b + 1) = BlockRow(DEPTH + 1) <=> b + 1 = DEPTH + 1
      /\ BlockRow(b + 1) < BlockRow(DEPTH + 1) <=> b + 1 < DEPTH + 1
      /\ BlockRow(b + 1) = BlockRow(DEPTH + 2) <=> b + 1 = DEPTH + 2
  BY <1>1, RowsGrow
<1>6. QED
  BY <1>1, <1>2, <1>3, <1>4, <1>5, DepthFacts

-----------------------------------------------------------------------------
\* The steps.
LEMMA TraceStart == ProofIdle => TraceInv
BY DEF ProofIdle, TraceInv, PublicShape

LEMMA RootTaken ==
  ASSUME TraceInv, NEW root, TakeRoot(root)
  PROVE  TraceInv'
<1>1. public.root = -1 /\ public' = [public EXCEPT !.root = root] /\ UNCHANGED <<row, cells, path, text>>
  BY DEF TakeRoot
<1>2. row = -1
  BY <1>1 DEF TraceInv, TraceTypes
<1>3. PublicShape'
  BY <1>1 DEF TraceInv, PublicShape
<1>4. QED
  BY <1>1, <1>2, <1>3 DEF TraceInv

LEMMA TraceBegun ==
  ASSUME TraceInv, BeginTrace
  PROVE  TraceInv'
<1>1. /\ row = -1 /\ public.root # -1 /\ row' = 0 /\ path' = path /\ path = <<>>
      /\ text' \in Texts
  BY DEF BeginTrace, TraceInv
<1>2. PICK sk \in Field, first \in Field :
        cells' = [state |-> Padded(first, 0), sk |-> sk, sibling |-> 0, selector |-> 0]
  BY DEF BeginTrace
<1>3. PICK epoch \in Epochs : public' = [public EXCEPT !.epoch = epoch, !.x = BytesToField(text')]
  BY DEF BeginTrace
<1>4. epoch \in Field /\ BytesToField(text') \in Field
  BY <1>1, CircuitAssumption, BytesToFieldType
<1>5. /\ PublicShape' /\ public'.root = public.root /\ public'.epoch = epoch
      /\ public'.x = BytesToField(text')
  BY <1>3 DEF TraceInv, PublicShape
<1>6. TraceTypes'
  <2>1. Padded(first, 0) \in States
    BY PaddedType, FieldFacts
  <2>2. <<>> \in Seq(Steps)
    OBVIOUS
  <2>3. QED
    BY <1>1, <1>2, <1>4, <1>5, <2>1, <2>2, FieldFacts DEF TraceTypes
<1>7. AtInput(0)'
  <2>1. row' = BlockRow(0) /\ Len(path') = 0
    BY <1>1, BlockFacts DEF BlockRow
  <2>2. cells'.state[0] = first /\ cells'.sk = sk
    BY <1>2, LaneFacts DEF Padded
  <2>3. cells'.state[0] = cells'.sk => BlockOutput' = Climbed(Leaf, path)'
    <3>1. SUFFICES ASSUME first = sk PROVE BlockOutput' = Climbed(Leaf, path)'
      BY <2>2
    <3>2. BlockOutput' = Commitment(sk)
      BY <1>2, <3>1 DEF BlockOutput, Commitment, Compress2
    <3>3. Commitment(sk) \in Field
      BY CompressType, FieldFacts DEF Commitment
    <3>4. Climbed(Commitment(sk), <<>>) = Commitment(sk)
      BY <3>3, ClimbedNothing
    <3>5. QED
      BY <1>1, <2>2, <3>2, <3>4 DEF Leaf
  <2>4. 0 <= DEPTH /\ ~(0 > DEPTH) /\ 0 # DEPTH + 1 /\ 0 # DEPTH + 2
    BY DepthFacts
  <2>5. QED
    BY <2>1, <2>3, <2>4 DEF AtInput
<1>8. 0 \in 0 .. (DEPTH + 2) /\ row' # -1
  BY <1>1, DepthFacts
<1>9. QED
  BY <1>5, <1>6, <1>7, <1>8 DEF TraceInv

LEMMA BlockRun ==
  ASSUME TraceInv, RunBlock
  PROVE  TraceInv'
<1>1. /\ row >= 0 /\ row % BLOCK_LEN = 0 /\ row < YRow(DEPTH) /\ row' = row + ROUNDS
      /\ cells' = [cells EXCEPT !.state = TracePermutation(cells.state)[ROUNDS], !.sibling = 0, !.selector = 0]
      /\ SideConstraints(cells, cells', row)
      /\ public' = IF row' = A1OutputRow(DEPTH) THEN [public EXCEPT !.nullifier = cells'.state[0]]
                   ELSE public
      /\ Asserted(cells', row', public')
      /\ UNCHANGED <<path, text>>
  BY DEF RunBlock
<1>2. row # -1 /\ TraceTypes /\ PublicShape
  BY <1>1 DEF TraceInv
<1>3. PICK b \in 0 .. (DEPTH + 1) : AtInput(b)
  <2>1. CASE \E b \in 0 .. (DEPTH + 1) : AtOutput(b)
    <3>1. PICK b \in 0 .. (DEPTH + 1) : row = OutputRow(b)
      BY <2>1 DEF AtOutput
    <3>2. row % BLOCK_LEN = ROUNDS
      BY <3>1, InputRow, DepthFacts
    <3>3. QED
      BY <1>1, <3>2, BlockFacts
  <2>2. CASE \E b \in 0 .. (DEPTH + 2) : AtInput(b)
    <3>1. PICK b \in 0 .. (DEPTH + 2) : AtInput(b)
      BY <2>2
    <3>2. YRow(DEPTH) = BlockRow(DEPTH + 2)
      <4>1. DEPTH + 1 \in 0 .. (DEPTH + 1) /\ (DEPTH + 1) + 1 = DEPTH + 2
        BY DepthFacts
      <4>2. QED
        BY <4>1, NamedRows
    <3>3. b # DEPTH + 2
      <4>1. BlockRow(DEPTH + 2) \in Nat
        BY DepthFacts, InputRow
      <4>2. QED
        BY <1>1, <3>1, <3>2, <4>1 DEF AtInput
    <3>4. QED
      BY <3>1, <3>3, DepthFacts
  <2>3. QED
    BY <1>2, <2>1, <2>2 DEF TraceInv
<1>4. b \in Nat /\ DEPTH \in Nat
  BY DepthFacts
<1>5. row = BlockRow(b) /\ row' = OutputRow(b)
  BY <1>1, <1>3 DEF AtInput, OutputRow
<1>6. /\ cells.state \in States /\ TracePermutation(cells.state)[ROUNDS] \in States
      /\ cells'.state = TracePermutation(cells.state)[ROUNDS]
      /\ cells'.sk = cells.sk /\ Leaf' = Leaf /\ cells'.state[0] = BlockOutput
      /\ cells' \in [state : States, sk : Field, sibling : Field, selector : Field]
  <2>1. cells \in [state : States, sk : Field, sibling : Field, selector : Field]
    BY <1>2 DEF TraceTypes
  <2>2. cells.state \in States /\ TracePermutation(cells.state)[ROUNDS] \in States
    BY <2>1, PermutationType
  <2>3. QED
    BY <1>1, <2>1, <2>2, FieldFacts DEF BlockOutput, Leaf
<1>7. /\ PublicShape' /\ public'.root = public.root /\ public'.epoch = public.epoch
      /\ public'.x = public.x
      /\ b = DEPTH + 1 => public'.nullifier = cells'.state[0]
  <2>1. row' = A1OutputRow(DEPTH) <=> b = DEPTH + 1
    BY <1>5, NamedRows
  <2>2. QED
    BY <1>1, <1>2, <2>1 DEF PublicShape
<1>8. TraceTypes'
  BY <1>1, <1>2, <1>6, <1>7 DEF TraceTypes
<1>9. b <= DEPTH => Len(path') = b /\ cells'.state[0] = Climbed(Leaf, path)'
  <2>1. SUFFICES ASSUME b <= DEPTH PROVE Len(path) = b /\ BlockOutput = Climbed(Leaf, path)
    BY <1>1, <1>6
  <2>2. cells.selector \in {0, 1} /\ (row = 0 => cells.state[0] = cells.sk)
    BY <1>1 DEF SideConstraints
  <2>3. b = 0 => row = 0
    BY <1>5, BlockFacts DEF BlockRow
  <2>4. QED
    BY <1>3, <2>1, <2>2, <2>3 DEF AtInput
<1>10. b = DEPTH => VerifyPath(Leaf, path, public.root)'
  <2>1. SUFFICES ASSUME b = DEPTH PROVE VerifyPath(Leaf, path, public.root)'
    OBVIOUS
  <2>2. row' = RootRow(DEPTH)
    BY <1>5, <2>1, NamedRows
  <2>3. cells'.state[0] = public'.root
    BY <1>1, <2>2 DEF Asserted
  <2>4. QED
    BY <1>4, <1>9, <2>1, <2>3 DEF VerifyPath
<1>11. b > DEPTH => VerifyPath(Leaf, path, public.root)'
  BY <1>1, <1>3, <1>6, <1>7 DEF AtInput
<1>12. b = DEPTH + 1 => cells'.state[0] = Compress2(cells'.sk, public'.epoch)
  BY <1>3, <1>6, <1>7 DEF AtInput, BlockOutput, Compress2
<1>13. AtOutput(b)'
  BY <1>4, <1>5, <1>7, <1>9, <1>10, <1>11, <1>12 DEF AtOutput
<1>14. row' # -1
  BY <1>4, <1>5, InputRow
<1>15. QED
  BY <1>7, <1>8, <1>13, <1>14 DEF TraceInv

\* What the first row of the next block holds.
LEMMA Crossed ==
  ASSUME TraceTypes, CrossBlock
  PROVE  /\ cells'.sk = cells.sk
         /\ cells' \in [state : States, sk : Field, sibling : Field, selector : Field]
         /\ cells'.state = Padded(cells'.state[0], cells'.state[1])
         /\ AdmitsLane0(cells'.state[0], cells, cells'.sibling, cells'.selector, row, public.x)
         /\ AdmitsLane(1, cells'.state[1], cells, cells'.sibling, cells'.selector)
<1>1. PICK sibling \in Field, selector \in Field :
        LET lanes == Admitted(cells, sibling, selector, row, public.x)
        IN \E v0 \in lanes[0], v1 \in lanes[1], v2 \in lanes[2], v3 \in lanes[3],
              v4 \in lanes[4], v5 \in lanes[5], v6 \in lanes[6], v7 \in lanes[7] :
             cells' = [state |-> [i \in Lanes |-> <<v0, v1, v2, v3, v4, v5, v6, v7>>[i + 1]],
                       sk |-> cells.sk, sibling |-> sibling, selector |-> selector]
  BY DEF CrossBlock
<1> DEFINE lanes == Admitted(cells, sibling, selector, row, public.x)
<1>2. lanes = [i \in Lanes |-> {v \in Field :
                 IF i = 0 THEN AdmitsLane0(v, cells, sibling, selector, row, public.x)
                 ELSE AdmitsLane(i, v, cells, sibling, selector)}]
  BY DEF CrossBlock, Admitted
<1>3. PICK v0 \in lanes[0], v1 \in lanes[1], v2 \in lanes[2], v3 \in lanes[3],
           v4 \in lanes[4], v5 \in lanes[5], v6 \in lanes[6], v7 \in lanes[7] :
        cells' = [state |-> [i \in Lanes |-> <<v0, v1, v2, v3, v4, v5, v6, v7>>[i + 1]],
                  sk |-> cells.sk, sibling |-> sibling, selector |-> selector]
  BY <1>1
<1> HIDE DEF lanes
<1>4. /\ v0 \in Field /\ AdmitsLane0(v0, cells, sibling, selector, row, public.x)
      /\ v1 \in Field /\ AdmitsLane(1, v1, cells, sibling, selector)
  BY <1>2, <1>3, LaneFacts
<1>5. \A i \in Lanes : i > 1 => \A v \in lanes[i] : v = 0
  <2>1. \A i \in Lanes : i > 1 => i # 0
    BY LaneFacts
  <2>2. QED
    BY <1>2, <2>1 DEF AdmitsLane
<1>6. v2 = 0 /\ v3 = 0 /\ v4 = 0 /\ v5 = 0 /\ v6 = 0 /\ v7 = 0
  BY <1>3, <1>5, LaneFacts
<1>7. cells'.state = Padded(v0, v1)
  <2>1. cells'.state = [i \in Lanes |-> <<v0, v1, 0, 0, 0, 0, 0, 0>>[i + 1]]
    BY <1>3, <1>6
  <2>2. \A i \in Lanes : <<v0, v1, 0, 0, 0, 0, 0, 0>>[i + 1] =
          CASE i = 0 -> v0 [] i = 1 -> v1 [] OTHER -> 0
    BY LaneFacts
  <2>3. QED
    BY <2>1, <2>2 DEF Padded
<1>8. cells'.state[0] = v0 /\ cells'.state[1] = v1
  BY <1>7, LaneFacts DEF Padded
<1>9. cells.sk \in Field /\ Padded(v0, v1) \in States
  BY <1>4, PaddedType DEF TraceTypes
<1>10. cells'.sk = cells.sk /\ cells'.sibling = sibling /\ cells'.selector = selector
  BY <1>3
<1>11. cells' \in [state : States, sk : Field, sibling : Field, selector : Field]
  BY <1>3, <1>7, <1>9
<1>12. QED
  BY <1>4, <1>7, <1>8, <1>10, <1>11

\* The lanes of a selected input.
LEMMA Selected ==
  ASSUME NEW current \in Field, NEW sibling \in Field
  PROVE  /\ (0 * sibling + (1 - 0) * current) % P = current
         /\ (0 * current + (1 - 0) * sibling) % P = sibling
         /\ (1 * sibling + (1 - 1) * current) % P = sibling
         /\ (1 * current + (1 - 1) * sibling) % P = current
<1>1. current \in Int /\ sibling \in Int
  BY FieldFacts
<1>2. /\ 0 * sibling + (1 - 0) * current = current /\ 0 * current + (1 - 0) * sibling = sibling
      /\ 1 * sibling + (1 - 1) * current = sibling /\ 1 * current + (1 - 1) * sibling = current
  BY <1>1
<1>3. current % P = current /\ sibling % P = sibling
  BY FieldFacts DEF Field
<1>4. QED
  BY <1>2, <1>3

LEMMA BlockCrossed ==
  ASSUME TraceInv, CrossBlock
  PROVE  TraceInv'
<1>1. /\ row >= 0 /\ IsLastInBlock(row) /\ row' = row + 1
      /\ SideConstraints(cells, cells', row)
      /\ public' = IF row' = YRow(DEPTH) THEN [public EXCEPT !.y = cells'.state[0]] ELSE public
      /\ Asserted(cells', row', public')
      /\ path' = IF row < RootRow(DEPTH)
                 THEN Append(path, [sibling |-> cells'.sibling,
                                    side |-> IF cells'.selector = 1 THEN "Right" ELSE "Left"])
                 ELSE path
  BY DEF CrossBlock
<1>2. row # -1 /\ TraceTypes /\ PublicShape
  BY <1>1 DEF TraceInv
<1>3. PICK b \in 0 .. (DEPTH + 1) : AtOutput(b)
  <2>1. CASE \E b \in 0 .. (DEPTH + 2) : AtInput(b)
    <3>1. PICK b \in 0 .. (DEPTH + 2) : row = BlockRow(b)
      BY <2>1 DEF AtInput
    <3>2. row % BLOCK_LEN = 0
      BY <3>1, InputRow, DepthFacts
    <3>3. QED
      BY <1>1, <3>2, BlockFacts DEF IsLastInBlock
  <2>2. QED
    BY <1>2, <2>1 DEF TraceInv
<1>4. b \in Nat /\ DEPTH \in Nat /\ b + 1 \in 0 .. (DEPTH + 2)
  BY DepthFacts
<1>5. row = OutputRow(b) /\ row' = BlockRow(b + 1)
  BY <1>1, <1>3, <1>4, InputRow DEF AtOutput
<1>6. /\ cells'.sk = cells.sk /\ Leaf' = Leaf
      /\ cells' \in [state : States, sk : Field, sibling : Field, selector : Field]
      /\ cells'.state = Padded(cells'.state[0], cells'.state[1])
      /\ AdmitsLane0(cells'.state[0], cells, cells'.sibling, cells'.selector, row, public.x)
      /\ AdmitsLane(1, cells'.state[1], cells, cells'.sibling, cells'.selector)
  BY <1>2, Crossed DEF Leaf
<1>7. /\ cells \in [state : States, sk : Field, sibling : Field, selector : Field]
      /\ cells.state[0] \in Field /\ cells'.sibling \in Field /\ Leaf \in Field
      /\ path \in Seq(Steps)
  <2>1. cells \in [state : States, sk : Field, sibling : Field, selector : Field] /\ path \in Seq(Steps)
    BY <1>2 DEF TraceTypes
  <2>2. cells.state[0] \in Field
    BY <2>1, LaneFacts DEF States
  <2>3. Leaf \in Field
    BY <2>1, CompressType, FieldFacts DEF Leaf, Commitment
  <2>4. QED
    BY <1>6, <2>1, <2>2, <2>3
<1>8. /\ IsA1Transition(row) <=> b = DEPTH
      /\ IsLinearcheckTransition(row) <=> b = DEPTH + 1
      /\ row < RootRow(DEPTH) <=> b < DEPTH
      /\ row' = A1InputRow(DEPTH) <=> b = DEPTH
      /\ row' = YRow(DEPTH) <=> b = DEPTH + 1
  BY <1>5, NamedRows DEF IsA1Transition, IsLinearcheckTransition
<1>9. /\ PublicShape' /\ public'.root = public.root /\ public'.epoch = public.epoch
      /\ public'.x = public.x /\ public'.nullifier = public.nullifier
      /\ b = DEPTH + 1 => public'.y = cells'.state[0]
  BY <1>1, <1>2, <1>8 DEF PublicShape
<1> DEFINE step == [sibling |-> cells'.sibling,
                    side |-> IF cells'.selector = 1 THEN "Right" ELSE "Left"]
<1>10. step \in Steps /\ path' = IF b < DEPTH THEN Append(path, step) ELSE path
  BY <1>1, <1>7, <1>8 DEF Steps
<1>11. path' \in Seq(Steps)
  BY <1>7, <1>10
<1>12. TraceTypes'
  <2>1. text' = text /\ text \in Texts
    BY <1>1, <1>2 DEF CrossBlock, TraceTypes
  <2>2. QED
    BY <1>2, <1>6, <1>9, <1>11, <2>1 DEF TraceTypes
<1>13. ASSUME AtInput(b + 1)' PROVE TraceInv'
  <2>1. row' # -1
    BY <1>4, <1>5, InputRow
  <2>2. (\E c \in 0 .. (DEPTH + 2) : AtInput(c))'
    BY <1>4, <1>13
  <2>3. QED
    BY <1>9, <1>12, <2>1, <2>2 DEF TraceInv
<1>14. CASE b < DEPTH
  <2>1. Len(path) = b /\ cells.state[0] = Climbed(Leaf, path)
    BY <1>3, <1>4, <1>14 DEF AtOutput
  <2>2. Len(path') = b + 1
    BY <1>7, <1>10, <1>14, <2>1
  <2>3. Climbed(Leaf, path') = Climb(cells.state[0], step)
    BY <1>7, <1>10, <1>14, <2>1, ClimbedFurther
  <2>4. /\ cells'.state[0] = (cells'.selector * cells'.sibling + (1 - cells'.selector) * cells.state[0]) % P
        /\ cells'.state[1] = (cells'.selector * cells.state[0] + (1 - cells'.selector) * cells'.sibling) % P
    BY <1>4, <1>6, <1>8, <1>14 DEF AdmitsLane0, AdmitsLane
  <2>5. cells'.selector \in {0, 1} => BlockOutput' = Climb(cells.state[0], step)
    <3>1. CASE cells'.selector = 0
      <4>1. cells'.state = Padded(cells.state[0], cells'.sibling)
        BY <1>6, <1>7, <2>4, <3>1, Selected
      <4>2. step.side = "Left" /\ step.sibling = cells'.sibling
        BY <3>1
      <4>3. QED
        BY <4>1, <4>2 DEF BlockOutput, Climb, Compress2
    <3>2. CASE cells'.selector = 1
      <4>1. cells'.state = Padded(cells'.sibling, cells.state[0])
        BY <1>6, <1>7, <2>4, <3>2, Selected
      <4>2. step.side = "Right" /\ step.sibling = cells'.sibling
        BY <3>2
      <4>3. QED
        BY <4>1, <4>2 DEF BlockOutput, Climb, Compress2
    <3>3. QED
      BY <3>1, <3>2
  <2>6. AtInput(b + 1)'
    <3>1. b + 1 # 0 /\ ~(b + 1 > DEPTH) /\ b + 1 # DEPTH + 1 /\ b + 1 # DEPTH + 2
      BY <1>4, <1>14
    <3>2. cells'.selector \in {0, 1} => BlockOutput' = Climbed(Leaf, path)'
      BY <1>6, <2>3, <2>5
    <3>3. QED
      BY <1>5, <2>2, <3>1, <3>2 DEF AtInput
  <2>7. QED
    BY <1>13, <2>6
<1>15. CASE b = DEPTH
  <2>1. path' = path /\ VerifyPath(Leaf, path, public.root)'
    BY <1>3, <1>4, <1>6, <1>9, <1>10, <1>15 DEF AtOutput
  <2>2. cells'.sibling = public'.epoch /\ cells'.selector = 0
    BY <1>1, <1>8, <1>15 DEF Asserted
  <2>3. cells'.state[0] = cells.sk
    BY <1>6, <1>8, <1>15 DEF AdmitsLane0
  <2>4. cells'.state[1] = public'.epoch
    <3>1. cells'.state[1] = (0 * cells.state[0] + (1 - 0) * cells'.sibling) % P
      BY <1>6, <2>2 DEF AdmitsLane
    <3>2. QED
      BY <1>7, <2>2, <3>1, Selected
  <2>5. cells'.state = Padded(cells'.sk, public'.epoch)
    BY <1>6, <2>3, <2>4
  <2>6. AtInput(b + 1)'
    <3>1. ~(b + 1 <= DEPTH) /\ b + 1 # DEPTH + 2
      BY <1>4, <1>15
    <3>2. QED
      BY <1>5, <2>1, <2>5, <3>1 DEF AtInput
  <2>7. QED
    BY <1>13, <2>6
<1>16. CASE b = DEPTH + 1
  <2>1. path' = path /\ VerifyPath(Leaf, path, public.root)'
    BY <1>3, <1>4, <1>6, <1>9, <1>10, <1>16 DEF AtOutput
  <2>2. cells.state[0] = Compress2(cells.sk, public.epoch) /\ public.nullifier = cells.state[0]
    BY <1>3, <1>16 DEF AtOutput
  <2>3. cells'.state[0] = (cells.sk + cells.state[0] * public.x) % P
    BY <1>6, <1>8, <1>16 DEF AdmitsLane0
  <2>4. Statement(cells.sk, path, public)'
    BY <1>6, <1>9, <1>16, <2>1, <2>2, <2>3 DEF Statement, Leaf
  <2>5. AtInput(b + 1)'
    <3>1. ~(b + 1 <= DEPTH) /\ b + 1 # DEPTH + 1
      BY <1>4, <1>16
    <3>2. QED
      BY <1>5, <2>1, <2>4, <3>1 DEF AtInput
  <2>6. QED
    BY <1>13, <2>5
<1>17. QED
  BY <1>4, <1>14, <1>15, <1>16

LEMMA TraceNextInv == TraceInv /\ (TraceNext \/ UNCHANGED proofVars) => TraceInv'
<1>1. SUFFICES ASSUME TraceInv, TraceNext \/ UNCHANGED proofVars PROVE TraceInv'
  OBVIOUS
<1>2. CASE UNCHANGED proofVars
  BY <1>1, <1>2 DEF proofVars, TraceInv, PublicShape, TraceTypes, AtInput, AtOutput, BlockOutput,
     Leaf
<1>3. CASE TraceNext
  BY <1>1, <1>3, RootTaken, TraceBegun, BlockRun, BlockCrossed DEF TraceNext, ExtendTrace
<1>4. QED
  BY <1>1, <1>2, <1>3

LEMMA InvMember == TraceInv => AcceptedIsMember
<1>1. SUFFICES ASSUME TraceInv, row = YRow(DEPTH) PROVE Statement(cells.sk, path, public)
  BY DEF AcceptedIsMember, Accepted
<1>2. DEPTH \in Nat /\ DEPTH + 2 \in Nat /\ YRow(DEPTH) = BlockRow(DEPTH + 2)
  <2>1. DEPTH + 1 \in 0 .. (DEPTH + 1) /\ (DEPTH + 1) + 1 = DEPTH + 2
    BY DepthFacts
  <2>2. QED
    BY <2>1, NamedRows, DepthFacts
<1>3. row \in Nat /\ row % BLOCK_LEN = 0
  BY <1>1, <1>2, InputRow
<1>4. ~ \E b \in 0 .. (DEPTH + 1) : AtOutput(b)
  <2>1. SUFFICES ASSUME NEW b \in 0 .. (DEPTH + 1), row = OutputRow(b) PROVE FALSE
    BY DEF AtOutput
  <2>2. row % BLOCK_LEN = ROUNDS
    BY <1>2, <2>1, InputRow
  <2>3. QED
    BY <1>3, <2>2, BlockFacts
<1>5. PICK b \in 0 .. (DEPTH + 2) : AtInput(b)
  BY <1>1, <1>3, <1>4 DEF TraceInv
<1>6. b = DEPTH + 2
  BY <1>1, <1>2, <1>5, RowsGrow DEF AtInput
<1>7. QED
  BY <1>5, <1>6 DEF AtInput
-----------------------------------------------------------------------------
(***************************************************************************)
(* Two shares of one line give it away.                                    *)
(***************************************************************************)
LEMMA AtAccepted ==
  ASSUME TraceInv, Accepted
  PROVE  /\ Statement(cells.sk, path, public)
         /\ cells.sk \in Field /\ public.epoch \in Field /\ public.x \in Field
<1>1. Statement(cells.sk, path, public)
  BY InvMember DEF AcceptedIsMember
<1>2. YRow(DEPTH) \in Nat
  <2>1. DEPTH + 1 \in 0 .. (DEPTH + 1) /\ (DEPTH + 1) + 1 = DEPTH + 2 /\ DEPTH + 2 \in Nat
    BY DepthFacts
  <2>2. YRow(DEPTH) = BlockRow(DEPTH + 2)
    BY <2>1, NamedRows
  <2>3. QED
    BY <2>1, <2>2, InputRow
<1>3. row # -1
  BY <1>2 DEF Accepted
<1>4. QED
  BY <1>1, <1>3 DEF TraceInv, TraceTypes

\* The slope of the line through two of its points.
LEMMA SlopeFound ==
  ASSUME NEW s \in Field, NEW a \in Field, NEW x1 \in Field, NEW x2 \in Field, x1 # x2
  PROVE  Divided((((s + a * x1) % P) - ((s + a * x2) % P)) % P, (x1 - x2) % P) = a
<1> DEFINE y1 == (s + a * x1) % P
           y2 == (s + a * x2) % P
           d == (x1 - x2) % P
           e == (y1 - y2) % P
           c == CHOOSE v \in Field : (d * v) % P = 1
<1>1. P \in Nat /\ P > 1 /\ s \in Int /\ a \in Int /\ x1 \in Int /\ x2 \in Int
  BY FieldFacts
<1>2. s + a * x1 \in Int /\ s + a * x2 \in Int /\ x1 - x2 \in Int
  BY <1>1
<1>3. /\ y1 \in Int /\ SameModulo(y1, s + a * x1, P)
      /\ y2 \in Int /\ SameModulo(y2, s + a * x2, P)
      /\ d \in 0 .. (P - 1) /\ d \in Int /\ SameModulo(d, x1 - x2, P)
  <2>1. y1 \in 0 .. (P - 1) /\ SameModulo(y1, s + a * x1, P)
    BY <1>1, <1>2, ModuloSame
  <2>2. y2 \in 0 .. (P - 1) /\ SameModulo(y2, s + a * x2, P)
    BY <1>1, <1>2, ModuloSame
  <2>3. d \in 0 .. (P - 1) /\ SameModulo(d, x1 - x2, P)
    BY <1>1, <1>2, ModuloSame
  <2> HIDE DEF y1, y2, d
  <2>4. QED
    BY <1>1, <2>1, <2>2, <2>3
<1> HIDE DEF y1, y2, d
<1>4. e \in Int /\ SameModulo(e, y1 - y2, P)
  BY <1>1, <1>3, ModuloSame
<1> HIDE DEF e
<1>5. d # 0
  <2> SUFFICES ASSUME d = 0 PROVE FALSE
    OBVIOUS
  <2>1. PICK k \in Int : 0 = (x1 - x2) + k * P
    BY <1>3 DEF SameModulo
  <2>2. x1 = x2 + (- k) * P /\ - k \in Int
    BY <1>1, <2>1
  <2>3. SameModulo(x1, x2, P)
    BY <2>2 DEF SameModulo
  <2>4. QED
    BY <1>1, <2>3, SameModuloEqual DEF Field
<1>6. c \in Field /\ (d * c) % P = 1
  <2>1. d \in 1 .. (P - 1)
    BY <1>1, <1>3, <1>5
  <2>2. \E v \in 0 .. (P - 1) : (d * v) % P = 1
    BY <1>1, <2>1, FieldFacts, InverseModuloPrime
  <2>3. QED
    BY <2>2 DEF Field
<1> HIDE DEF c
<1>7. c \in Int
  BY <1>6, FieldFacts
<1>8. PICK i \in Int : d * c = 1 + i * P
  <2>1. d * c \in Int
    BY <1>3, <1>7
  <2>2. SameModulo((d * c) % P, d * c, P) /\ (d * c) % P \in Int
    BY <1>1, <2>1, ModuloSame
  <2>3. SameModulo(d * c, 1, P)
    BY <1>1, <1>6, <2>1, <2>2, SameModuloSwap
  <2>4. QED
    BY <2>3 DEF SameModulo
<1>9. PICK j \in Int : e = a * d + j * P
  <2>1. PICK k1 \in Int : y1 = (s + a * x1) + k1 * P
    BY <1>3 DEF SameModulo
  <2>2. PICK k2 \in Int : y2 = (s + a * x2) + k2 * P
    BY <1>3 DEF SameModulo
  <2>3. PICK k3 \in Int : d = (x1 - x2) + k3 * P
    BY <1>3 DEF SameModulo
  <2>4. PICK k4 \in Int : e = (y1 - y2) + k4 * P
    BY <1>4 DEF SameModulo
  <2>5. e = a * x1 - a * x2 + (k1 - k2 + k4) * P
    BY <1>1, <2>1, <2>2, <2>4
  <2>6. a * d = a * x1 - a * x2 + (a * k3) * P
    BY <1>1, <2>3
  <2>7. e = a * d + (k1 - k2 + k4 - a * k3) * P
    <3>1. (k1 - k2 + k4 - a * k3) * P = (k1 - k2 + k4) * P - (a * k3) * P
      BY <1>1
    <3>2. a * x1 - a * x2 \in Int /\ (k1 - k2 + k4) * P \in Int /\ (a * k3) * P \in Int
      BY <1>1
    <3>3. QED
      BY <2>5, <2>6, <3>1, <3>2
  <2>8. k1 - k2 + k4 - a * k3 \in Int
    BY <1>1
  <2>9. QED
    BY <2>7, <2>8
<1>10. e * c = a + (a * i + j * c) * P
  <2>1. e * c = a * (d * c) + (j * c) * P
    BY <1>1, <1>3, <1>7, <1>9
  <2>2. a * (d * c) = a + (a * i) * P
    BY <1>1, <1>8
  <2>3. (a * i + j * c) * P = (a * i) * P + (j * c) * P
    BY <1>1, <1>7
  <2>4. (a * i) * P \in Int /\ (j * c) * P \in Int
    BY <1>1, <1>7
  <2>5. QED
    BY <1>1, <2>1, <2>2, <2>3, <2>4
<1>11. (e * c) % P = a
  <2>1. e * c \in Int /\ a * i + j * c \in Int
    BY <1>1, <1>4, <1>7
  <2>2. SameModulo(e * c, a, P)
    BY <1>10, <2>1 DEF SameModulo
  <2>3. (e * c) % P = a % P
    BY <1>1, <2>1, <2>2, ModuloOfSame
  <2>4. a % P = a
    BY FieldFacts DEF Field
  <2>5. QED
    BY <2>3, <2>4
<1>12. Divided(e, d) = a
  BY <1>11 DEF Divided, c
<1>13. QED
  BY <1>12 DEF e, d, y1, y2

LEMMA InterceptFound ==
  ASSUME NEW s \in Field, NEW a \in Field, NEW x \in Field
  PROVE  (((s + a * x) % P) - a * x) % P = s
<1>1. P \in Nat /\ P > 1 /\ s \in Int /\ a \in Int /\ x \in Int /\ a * x \in Int /\ s + a * x \in Int
  BY FieldFacts
<1>2. (s + a * x) % P \in Int /\ SameModulo((s + a * x) % P, s + a * x, P)
  BY <1>1, ModuloSame
<1>3. PICK k \in Int : (s + a * x) % P = (s + a * x) + k * P
  BY <1>2 DEF SameModulo
<1>4. ((s + a * x) % P) - a * x = s + k * P
  BY <1>1, <1>3
<1>5. SameModulo(((s + a * x) % P) - a * x, s, P)
  BY <1>4 DEF SameModulo
<1>6. (((s + a * x) % P) - a * x) % P = s % P
  <2>1. ((s + a * x) % P) - a * x \in Int
    BY <1>1, <1>2
  <2>2. QED
    BY <1>1, <1>5, <2>1, ModuloOfSame
<1>7. QED
  BY <1>6, FieldFacts DEF Field

LEMMA InvExposes == TraceInv => SecondMessageExposes
<1> DEFINE other(epoch, x) == PublicInputs(cells.sk, public.root, epoch, x)
           recovered(epoch, x) == RecoverSecret(ShareOf(public), ShareOf(other(epoch, x)))
<1>1. SUFFICES ASSUME TraceInv, Accepted, NEW epoch \in Field, NEW x \in Field
               PROVE  /\ epoch = public.epoch /\ x # public.x => recovered(epoch, x) = {cells.sk}
                      /\ other(epoch, x).nullifier # public.nullifier \/ x = public.x
                         => recovered(epoch, x) = {}
  BY DEF SecondMessageExposes
<1>2. /\ Statement(cells.sk, path, public)
      /\ cells.sk \in Field /\ public.epoch \in Field /\ public.x \in Field
  BY <1>1, AtAccepted
<1> DEFINE sk == cells.sk
           a1 == Compress2(sk, epoch)
<1>3. a1 \in Field
  BY <1>2, CompressType
<1>4. ShareOf(public) = [nullifier |-> public.nullifier, x |-> public.x, y |-> public.y]
  BY DEF ShareOf
<1>5. ShareOf(other(epoch, x)) = [nullifier |-> a1, x |-> x, y |-> (sk + a1 * x) % P]
  BY DEF ShareOf, PublicInputs
<1>6. other(epoch, x).nullifier = a1
  BY DEF PublicInputs
<1>7. ASSUME epoch = public.epoch, x # public.x
      PROVE  recovered(epoch, x) = {sk}
  <2>1. public.nullifier = a1 /\ public.y = (sk + a1 * public.x) % P
    BY <1>2, <1>7 DEF Statement
  <2> HIDE DEF a1, sk
  <2>2. Divided((public.y - ((sk + a1 * x) % P)) % P, (public.x - x) % P) = a1
    BY <1>2, <1>3, <1>7, <2>1, SlopeFound DEF sk
  <2>3. (public.y - a1 * public.x) % P = sk
    BY <1>2, <1>3, <2>1, InterceptFound DEF sk
  <2> DEFINE a == ShareOf(public)
             b == ShareOf(other(epoch, x))
  <2>4. a.nullifier = b.nullifier /\ a.x = public.x /\ b.x = x /\ a.y = public.y /\ b.y = (sk + a1 * x) % P
    BY <1>4, <1>5, <2>1
  <2> HIDE DEF a, b
  <2>5. RecoverSecret(a, b) = {(a.y - Divided((a.y - b.y) % P, (a.x - b.x) % P) * a.x) % P}
    BY <1>7, <2>4 DEF RecoverSecret
  <2>6. RecoverSecret(a, b) = {sk}
    BY <2>2, <2>3, <2>4, <2>5
  <2>7. QED
    BY <2>6 DEF a, b
<1>8. ASSUME a1 # public.nullifier \/ x = public.x
      PROVE  recovered(epoch, x) = {}
  BY <1>4, <1>5, <1>8 DEF RecoverSecret
<1>9. QED
  BY <1>6, <1>7, <1>8
-----------------------------------------------------------------------------
(***************************************************************************)
(* No two messages are absorbed as the same elements.                      *)
(***************************************************************************)
LEMMA ValuesSteps ==
  /\ ChunkValues \in [0 .. BYTES_PER_ELEMENT -> Nat] /\ ChunkValues[0] = 1
  /\ \A k \in 1 .. BYTES_PER_ELEMENT : ChunkValues[k] = ChunkValues[k - 1] * Cardinality(Byte)
<1> DEFINE n == BYTES_PER_ELEMENT
           c == Cardinality(Byte)
           step == [k \in 1 .. n |-> [t \in Nat |-> t * c]]
<1>1. n \in Nat /\ c \in Nat
  BY ByteFacts
<1> HIDE DEF n, c
<1>2. ASSUME NEW k \in 1 .. n, NEW t \in Nat
      PROVE  step[k][t] \in Nat /\ step[k][t] = t * c
  BY <1>1
<1> HIDE DEF step
<1>3. PICK h : Loop(h, n, Nat, 1, step)
  BY <1>1, <1>2, Iterate
<1>4. h = [k \in 0 .. n |-> IF k = 0 THEN 1 ELSE h[k - 1] * c]
  <2>1. ASSUME NEW k \in 0 .. n
        PROVE  h[k] = IF k = 0 THEN 1 ELSE h[k - 1] * c
    <3>1. CASE k = 0
      BY <1>3, <3>1 DEF Loop
    <3>2. CASE k # 0
      <4>1. k \in 1 .. n
        BY <1>1, <3>2
      <4>2. h[k] = step[k][h[k - 1]] /\ h[k - 1] \in Nat
        BY <1>3, <4>1 DEF Loop
      <4>3. QED
        BY <1>2, <3>2, <4>1, <4>2
    <3>3. QED
      BY <3>1, <3>2
  <2>2. h = [k \in 0 .. n |-> h[k]]
    BY <1>3 DEF Loop
  <2>3. QED
    BY <2>1, <2>2
<1>5. ChunkValues = [k \in 0 .. n |-> IF k = 0 THEN 1 ELSE ChunkValues[k - 1] * c]
  BY <1>4, Zenon DEF ChunkValues, n, c
<1>6. Loop(ChunkValues, n, Nat, 1, step)
  <2>1. ChunkValues = [k \in 0 .. n |-> ChunkValues[k]] /\ ChunkValues[0] = 1
    BY <1>1, <1>5
  <2>2. ASSUME NEW k \in 1 .. n, ChunkValues[k - 1] \in Nat
        PROVE  ChunkValues[k] = step[k][ChunkValues[k - 1]]
    <3>1. k \in 0 .. n /\ k # 0
      BY <1>1
    <3>2. ChunkValues[k] = ChunkValues[k - 1] * c
      BY <1>5, <3>1
    <3>3. QED
      BY <1>2, <2>2, <3>2
  <2>3. QED
    BY <1>1, <1>2, <2>1, <2>2, GoesOn
<1>7. \A k \in 1 .. n : ChunkValues[k] = ChunkValues[k - 1] * c
  BY <1>2, <1>6 DEF Loop
<1>8. QED
  BY <1>6, <1>7 DEF Loop, n, c

\* k bytes spell less than ChunkValues[k], and that is at most P.
LEMMA ValuesBelow ==
  ASSUME NEW k \in 0 .. BYTES_PER_ELEMENT
  PROVE  ChunkValues[k] <= P
<1> DEFINE e == BYTES_PER_ELEMENT
           c == Cardinality(Byte)
           S == {j \in Nat : j <= e => ChunkValues[e - j] <= P}
<1>1. e \in Nat /\ c \in Nat /\ c >= 1 /\ P \in Nat
  BY ByteFacts, FieldFacts
<1>2. ASSUME NEW j \in Nat, \A i \in Nat : i < j => i \in S, j <= e
      PROVE  ChunkValues[e - j] <= P
  <2>1. CASE j = 0
    <3>1. e - j = BYTES_PER_ELEMENT
      BY <1>1, <2>1
    <3>2. QED
      BY <3>1, PackingAssumption
  <2>2. CASE j # 0
    <3>1. j - 1 \in Nat /\ j - 1 < j /\ j - 1 <= e /\ e - (j - 1) \in 1 .. e /\ (e - (j - 1)) - 1 = e - j
          /\ e - j \in 0 .. e /\ e - (j - 1) \in 0 .. e
      BY <1>1, <1>2, <2>2
    <3>2. ChunkValues[e - (j - 1)] <= P
      BY <1>2, <3>1
    <3>3. ChunkValues[e - (j - 1)] = ChunkValues[e - j] * c
      BY <3>1, ValuesSteps
    <3>4. ChunkValues[e - j] \in Nat
      BY <3>1, ValuesSteps
    <3> DEFINE v == ChunkValues[e - j]
    <3> HIDE DEF v
    <3>5. v * c >= v
      <4>1. v \in Nat /\ (c - 1) \in Nat /\ v * c = v + v * (c - 1) /\ v * (c - 1) >= 0
        BY <1>1, <3>4 DEF v
      <4>2. v * (c - 1) \in Int
        BY <4>1
      <4>3. QED
        BY <4>1, <4>2
    <3>6. v \in Nat /\ v * c <= P /\ v * c \in Nat
      BY <1>1, <3>2, <3>3, <3>4 DEF v
    <3>7. v <= P
      BY <1>1, <3>5, <3>6
    <3>8. QED
      BY <3>7 DEF v
  <2>3. QED
    BY <2>1, <2>2
<1>3. S = Nat
  <2>1. S \in SUBSET Nat /\ \A j \in Nat : (\A i \in Nat : i < j => i \in S) => j \in S
    BY <1>2
  <2> HIDE DEF S
  <2>2. QED
    BY <2>1, Induction
<1>4. e - k \in Nat /\ e - k <= e /\ e - (e - k) = k
  BY <1>1
<1>5. e - k \in S
  BY <1>3, <1>4
<1>6. QED
  BY <1>4, <1>5

LEMMA SpelledBelow ==
  ASSUME NEW chunk \in Seq(Byte), Len(chunk) <= BYTES_PER_ELEMENT, NEW acc, Spelled(acc, chunk)
  PROVE  acc[Len(chunk)] < P
<1> DEFINE n == Len(chunk)
           c == Cardinality(Byte)
           S == {k \in Nat : k <= n => acc[k] < ChunkValues[k]}
<1>1. n \in Nat /\ c \in Nat /\ n <= BYTES_PER_ELEMENT /\ BYTES_PER_ELEMENT \in Nat /\ P \in Nat
  BY ByteFacts, FieldFacts
<1>2. ASSUME NEW k \in Nat, \A i \in Nat : i < k => i \in S, k <= n
      PROVE  acc[k] < ChunkValues[k]
  <2>1. CASE k = 0
    BY <2>1, ValuesSteps DEF Spelled
  <2>2. CASE k # 0
    <3>1. /\ k - 1 \in Nat /\ k - 1 < k /\ k - 1 <= n /\ k \in 1 .. n
          /\ k \in 1 .. BYTES_PER_ELEMENT /\ k - 1 \in 0 .. BYTES_PER_ELEMENT /\ k - 1 \in 0 .. n
          /\ n - k + 1 \in 1 .. n
      BY <1>1, <1>2, <2>2
    <3>2. acc[k - 1] < ChunkValues[k - 1]
      BY <1>2, <3>1
    <3> DEFINE a == acc[k - 1]
               v == ChunkValues[k - 1]
               d == chunk[n - k + 1]
    <3>3. acc[k] = a * c + d /\ ChunkValues[k] = v * c
      BY <3>1, ValuesSteps DEF Spelled
    <3>4. a \in Nat /\ v \in Nat /\ d \in Nat /\ d < c
      <4>1. a \in Nat
        BY <3>1 DEF Spelled
      <4>2. v \in Nat
        BY <3>1, ValuesSteps
      <4>3. d \in Byte
        BY <3>1
      <4>4. QED
        BY <4>1, <4>2, <4>3, ByteFacts
    <3>5. a < v
      BY <3>2
    <3> HIDE DEF a, v, d, c, n
    <3>6. a * c + d < v * c
      <4>1. v - a - 1 \in Nat /\ v * c = a * c + c + (v - a - 1) * c
        BY <1>1, <3>4, <3>5
      <4>2. (v - a - 1) * c >= 0 /\ (v - a - 1) * c \in Int /\ a * c \in Int
        BY <1>1, <3>4, <4>1
      <4>3. QED
        BY <1>1, <3>4, <4>1, <4>2
    <3>7. QED
      BY <3>3, <3>6
  <2>3. QED
    BY <2>1, <2>2
<1>3. S = Nat
  <2>1. S \in SUBSET Nat /\ \A k \in Nat : (\A i \in Nat : i < k => i \in S) => k \in S
    BY <1>2
  <2> HIDE DEF S
  <2>2. QED
    BY <2>1, Induction
<1>4. acc[n] < ChunkValues[n]
  BY <1>1, <1>3
<1>5. n \in 0 .. BYTES_PER_ELEMENT
  BY <1>1
<1>6. ChunkValues[n] <= P /\ ChunkValues[n] \in Nat
  BY <1>5, ValuesBelow, ValuesSteps
<1>7. acc[n] \in Nat
  <2>1. n \in 0 .. n
    BY <1>1
  <2>2. QED
    BY <2>1 DEF Spelled
<1>8. QED
  BY <1>1, <1>4, <1>6, <1>7

\* Two chunks of one length that are packed alike are one.
LEMMA PackedApart ==
  ASSUME NEW one \in Seq(Byte), NEW two \in Seq(Byte), Len(one) = Len(two),
         Len(one) <= BYTES_PER_ELEMENT, Packed(one) = Packed(two)
  PROVE  one = two
<1> DEFINE n == Len(one)
           c == Cardinality(Byte)
<1>1. PICK f : Spelled(f, one) /\ Packed(one) = f[n] % P
  BY PackedSteps
<1>2. PICK g : Spelled(g, two) /\ Packed(two) = g[n] % P
  BY PackedSteps
<1>3. n \in Nat /\ n \in 0 .. n /\ c \in Nat /\ Len(two) = n
  BY ByteFacts
<1>4. f[n] \in Nat /\ g[n] \in Nat /\ f[n] < P /\ g[n] < P
  <2>1. f[n] < P
    BY <1>1, SpelledBelow
  <2>2. g[n] < P
    BY <1>2, <1>3, SpelledBelow
  <2>3. f[n] \in Nat /\ g[n] \in Nat
    BY <1>1, <1>2, <1>3 DEF Spelled
  <2>4. QED
    BY <2>1, <2>2, <2>3
<1>5. f[n] = g[n]
  <2>1. \A i \in Nat : i < P => i % P = i
    BY FieldFacts
  <2>2. f[n] % P = f[n] /\ g[n] % P = g[n]
    BY <1>4, <2>1
  <2>3. QED
    BY <1>1, <1>2, <2>2
<1> HIDE DEF n
<1>6. ASSUME NEW k \in 1 .. n, f[k] = g[k]
      PROVE  f[k - 1] = g[k - 1] /\ one[n - k + 1] = two[n - k + 1]
  <2>1. n - k + 1 \in 1 .. n /\ k - 1 \in 0 .. n
    BY <1>3
  <2> DEFINE a == f[k - 1]
             b == g[k - 1]
             x == one[n - k + 1]
             y == two[n - k + 1]
  <2>2. a \in Nat /\ b \in Nat /\ x \in Nat /\ x < c /\ y \in Nat /\ y < c
    <3>1. a \in Nat /\ b \in Nat
      BY <1>1, <1>2, <1>3, <2>1 DEF Spelled, n
    <3>2. x \in Byte /\ y \in Byte
      BY <1>3, <2>1 DEF n
    <3>3. QED
      BY <3>1, <3>2, ByteFacts
  <2>3. a * c + x = b * c + y
    BY <1>1, <1>2, <1>3, <1>6 DEF Spelled, n
  <2> HIDE DEF a, b, x, y, c
  <2>4. ~(a < b)
    <3> SUFFICES ASSUME a < b PROVE FALSE
      OBVIOUS
    <3>1. b - a - 1 \in Nat /\ b * c = a * c + c + (b - a - 1) * c
      BY <1>3, <2>2
    <3>2. (b - a - 1) * c >= 0 /\ (b - a - 1) * c \in Int /\ a * c \in Int
      BY <1>3, <2>2, <3>1
    <3>3. QED
      BY <1>3, <2>2, <2>3, <3>1, <3>2
  <2>5. ~(b < a)
    <3> SUFFICES ASSUME b < a PROVE FALSE
      OBVIOUS
    <3>1. a - b - 1 \in Nat /\ a * c = b * c + c + (a - b - 1) * c
      BY <1>3, <2>2
    <3>2. (a - b - 1) * c >= 0 /\ (a - b - 1) * c \in Int /\ b * c \in Int
      BY <1>3, <2>2, <3>1
    <3>3. QED
      BY <1>3, <2>2, <2>3, <3>1, <3>2
  <2>6. a = b
    BY <2>2, <2>4, <2>5
  <2>7. x = y
    <3>1. a * c \in Int
      BY <1>3, <2>2
    <3>2. QED
      BY <2>2, <2>3, <2>6, <3>1
  <2>8. QED
    BY <2>6, <2>7 DEF a, b, x, y
<1> DEFINE S == {j \in Nat : j <= n => f[n - j] = g[n - j]}
<1>7. ASSUME NEW j \in Nat, \A i \in Nat : i < j => i \in S, j <= n
      PROVE  f[n - j] = g[n - j]
  <2>1. CASE j = 0
    <3>1. n - j = n
      BY <1>3, <2>1
    <3>2. QED
      BY <1>5, <3>1
  <2>2. CASE j # 0
    <3>1. j - 1 \in Nat /\ j - 1 < j /\ j - 1 <= n /\ n - (j - 1) \in 1 .. n /\ (n - (j - 1)) - 1 = n - j
      BY <1>3, <1>7, <2>2
    <3>2. f[n - (j - 1)] = g[n - (j - 1)]
      BY <1>7, <3>1
    <3>3. f[(n - (j - 1)) - 1] = g[(n - (j - 1)) - 1]
      BY <1>6, <3>1, <3>2
    <3>4. QED
      BY <3>1, <3>3
  <2>3. QED
    BY <2>1, <2>2
<1>8. S = Nat
  <2>1. S \in SUBSET Nat /\ \A j \in Nat : (\A i \in Nat : i < j => i \in S) => j \in S
    BY <1>7
  <2> HIDE DEF S
  <2>2. QED
    BY <2>1, Induction
<1>9. ASSUME NEW i \in 1 .. n
      PROVE  one[i] = two[i]
  <2>1. i - 1 \in Nat /\ i - 1 <= n /\ n - (i - 1) \in 1 .. n /\ n - (n - (i - 1)) + 1 = i
    BY <1>3
  <2>2. f[n - (i - 1)] = g[n - (i - 1)]
    BY <1>8, <2>1
  <2>3. one[n - (n - (i - 1)) + 1] = two[n - (n - (i - 1)) + 1]
    BY <1>6, <2>1, <2>2
  <2>4. QED
    BY <2>1, <2>3
<1>10. QED
  BY <1>3, <1>9 DEF n

LEMMA AbsorbedApart ==
  ASSUME NEW one \in Seq(Byte), NEW two \in Seq(Byte), Len(one) < P, Len(two) < P,
         Absorbed(one) = Absorbed(two)
  PROVE  one = two
<1> DEFINE n == Len(one)
           e == BYTES_PER_ELEMENT
           packed(s) == [k \in DOMAIN Chunks(s) |-> Packed(Chunks(s)[k])]
           m == NumChunks(n)
<1>1. n \in Nat /\ e \in Nat /\ e >= 1 /\ P \in Nat /\ P > 1
  BY ByteFacts, FieldFacts
<1>2. ASSUME NEW s \in Seq(Byte)
      PROVE  /\ packed(s) \in Seq(Field) /\ Len(packed(s)) = NumChunks(Len(s))
             /\ Absorbed(s) = <<Len(s) % P>> \o packed(s)
             /\ \A k \in 1 .. NumChunks(Len(s)) : packed(s)[k] = Packed(Chunks(s)[k])
  <2>1. NumChunks(Len(s)) \in Nat /\ DOMAIN Chunks(s) = 1 .. NumChunks(Len(s))
    BY ChunkFacts
  <2>2. \A k \in 1 .. NumChunks(Len(s)) : Packed(Chunks(s)[k]) \in Field
    BY ChunkFacts, PackedType
  <2>3. packed(s) \in [1 .. NumChunks(Len(s)) -> Field]
    BY <2>1, <2>2
  <2>4. packed(s) \in Seq(Field) /\ Len(packed(s)) = NumChunks(Len(s))
    <3> DEFINE p == packed(s)
               q == NumChunks(Len(s))
    <3>1. p \in [1 .. q -> Field] /\ q \in Nat
      BY <2>1, <2>3
    <3> HIDE DEF p, q
    <3>2. p \in Seq(Field) /\ Len(p) = q
      BY <3>1
    <3>3. QED
      BY <3>2 DEF p, q
  <2>5. Absorbed(s) = <<Len(s) % P>> \o packed(s)
    BY DEF Absorbed
  <2>6. \A k \in 1 .. NumChunks(Len(s)) : packed(s)[k] = Packed(Chunks(s)[k])
    BY <2>1
  <2> HIDE DEF packed
  <2>7. QED
    BY <2>4, <2>5, <2>6
<1> HIDE DEF packed
<1>3. /\ Absorbed(one)[1] = Len(one) % P /\ Absorbed(two)[1] = Len(two) % P
      /\ \A k \in 1 .. NumChunks(Len(one)) : Absorbed(one)[k + 1] = packed(one)[k]
      /\ \A k \in 1 .. NumChunks(Len(two)) : Absorbed(two)[k + 1] = packed(two)[k]
  <2>1. ASSUME NEW s \in Seq(Byte)
        PROVE  /\ Absorbed(s)[1] = Len(s) % P
               /\ \A k \in 1 .. NumChunks(Len(s)) : Absorbed(s)[k + 1] = packed(s)[k]
    <3> DEFINE l == Len(s) % P
               p == packed(s)
               q == NumChunks(Len(s))
    <3>1. l \in Field
      BY InField
    <3>2. p \in Seq(Field) /\ Len(p) = q /\ q \in Nat /\ Absorbed(s) = <<l>> \o p
      BY <1>2, ChunkFacts
    <3> HIDE DEF l, p, q
    <3>3. <<l>> \in Seq(Field) /\ Len(<<l>>) = 1 /\ <<l>>[1] = l
      BY <3>1
    <3>4. \A i \in 1 .. (1 + q) : (<<l>> \o p)[i] = IF i <= 1 THEN <<l>>[i] ELSE p[i - 1]
      BY <3>2, <3>3, ConcatProperties
    <3>5. Absorbed(s)[1] = l
      BY <3>2, <3>3, <3>4
    <3>6. ASSUME NEW k \in 1 .. q
          PROVE  Absorbed(s)[k + 1] = p[k]
      <4>1. k + 1 \in 1 .. (1 + q) /\ ~(k + 1 <= 1) /\ (k + 1) - 1 = k
        BY <3>2
      <4>2. QED
        BY <3>2, <3>4, <4>1
    <3>7. QED
      BY <3>5, <3>6 DEF l, p, q
  <2>2. QED
    BY <2>1
<1>4. Len(two) = n
  <2>1. Len(one) % P = Len(one) /\ Len(two) % P = Len(two)
    BY <1>1
  <2>2. QED
    BY <1>3, <2>1
<1>5. m \in Nat
  BY ChunkFacts
<1>6. ASSUME NEW k \in 1 .. m
      PROVE  /\ ChunkStart(k) \in Nat \ {0} /\ ChunkEnd(k, n) \in 0 .. n
             /\ Chunks(one)[k] = SubSeq(one, ChunkStart(k), ChunkEnd(k, n))
             /\ Chunks(two)[k] = SubSeq(two, ChunkStart(k), ChunkEnd(k, n))
             /\ Chunks(one)[k] \in Seq(Byte) /\ Chunks(two)[k] \in Seq(Byte)
  <2>1. /\ ChunkStart(k) \in Nat \ {0} /\ ChunkEnd(k, n) \in 0 .. n
        /\ Chunks(one)[k] = SubSeq(one, ChunkStart(k), ChunkEnd(k, n))
        /\ Chunks(one)[k] \in Seq(Byte)
    BY ChunkFacts
  <2>2. /\ Chunks(two)[k] = SubSeq(two, ChunkStart(k), ChunkEnd(k, n))
        /\ Chunks(two)[k] \in Seq(Byte)
    <3>1. k \in 1 .. NumChunks(Len(two))
      BY <1>4
    <3>2. /\ Chunks(two)[k] = SubSeq(two, ChunkStart(k), ChunkEnd(k, Len(two)))
          /\ Chunks(two)[k] \in Seq(Byte)
      BY <3>1, ChunkFacts
    <3>3. QED
      BY <1>4, <3>2
  <2>3. QED
    BY <2>1, <2>2
<1>7. ASSUME NEW k \in 1 .. m
      PROVE  Chunks(one)[k] = Chunks(two)[k]
  <2>1. Packed(Chunks(one)[k]) = Packed(Chunks(two)[k])
    <3>1. Absorbed(one)[k + 1] = packed(one)[k] /\ Absorbed(two)[k + 1] = packed(two)[k]
      BY <1>3, <1>4
    <3>2. packed(one)[k] = Packed(Chunks(one)[k]) /\ packed(two)[k] = Packed(Chunks(two)[k])
      BY <1>2, <1>4
    <3>3. QED
      BY <3>1, <3>2
  <2> DEFINE a == ChunkStart(k)
             b == ChunkEnd(k, n)
  <2>2. a \in Int /\ b \in Int /\ b - a + 1 <= e
    <3>1. k \in Nat /\ (k - 1) * e \in Int /\ k * e = (k - 1) * e + e /\ k * e \in Int
      BY <1>1, <1>5
    <3>2. a = (k - 1) * e + 1 /\ b <= k * e
      BY <1>1, <3>1 DEF ChunkStart, ChunkEnd
    <3>3. b \in Int
      BY <1>1, <1>6
    <3> HIDE DEF a, b
    <3>4. QED
      BY <1>1, <3>1, <3>2, <3>3
  <2>3. /\ Len(SubSeq(one, a, b)) = (IF a <= b THEN b - a + 1 ELSE 0)
        /\ Len(SubSeq(two, a, b)) = (IF a <= b THEN b - a + 1 ELSE 0)
    <3>1. \A i \in a .. b : i \in 1 .. n
      <4>1. a \in Nat \ {0} /\ b \in 0 .. n
        BY <1>6
      <4> HIDE DEF a, b
      <4>2. QED
        BY <1>1, <2>2, <4>1
    <3>2. \A i \in 1 .. n : one[i] \in Byte /\ two[i] \in Byte
      BY <1>4
    <3> HIDE DEF a, b
    <3>3. QED
      BY <2>2, <3>1, <3>2, SubSeqProperties
  <2>4. Len(Chunks(one)[k]) = Len(Chunks(two)[k]) /\ Len(Chunks(one)[k]) <= e
    <3>1. Chunks(one)[k] = SubSeq(one, a, b) /\ Chunks(two)[k] = SubSeq(two, a, b)
      BY <1>6
    <3> HIDE DEF a, b
    <3>2. QED
      BY <1>1, <2>2, <2>3, <3>1
  <2>5. Chunks(one)[k] \in Seq(Byte) /\ Chunks(two)[k] \in Seq(Byte)
    BY <1>6
  <2>6. QED
    BY <2>1, <2>4, <2>5, PackedApart
<1>8. ASSUME NEW i \in 1 .. n
      PROVE  one[i] = two[i]
  <2> DEFINE q == (i - 1) \div e
             k == q + 1
  <2>1. i \in Nat /\ i - 1 \in Nat /\ q \in Nat /\ q * e <= i - 1 /\ i - 1 < q * e + e
    <3>1. i \in Nat /\ i - 1 \in Nat /\ e \in Nat \ {0}
      BY <1>1
    <3>2. i - 1 = e * ((i - 1) \div e) + ((i - 1) % e) /\ (i - 1) % e \in 0 .. (e - 1) /\ (i - 1) \div e \in Nat
      BY <3>1
    <3>3. e * ((i - 1) \div e) = ((i - 1) \div e) * e /\ ((i - 1) \div e) * e \in Nat
      BY <3>1, <3>2
    <3>4. QED
      BY <3>1, <3>2, <3>3
  <2> HIDE DEF q
  <2>2. q * e \in Nat /\ k * e = q * e + e /\ k \in Nat /\ k - 1 = q
    BY <1>1, <2>1
  <2>3. k \in 1 .. m
    <3> DEFINE d == n + e - 1
    <3>1. d \in Nat /\ e \in Nat \ {0}
      BY <1>1
    <3>2. d = e * (d \div e) + (d % e) /\ d % e \in 0 .. (e - 1) /\ d \div e \in Nat
      BY <3>1
    <3>3. m = d \div e
      BY DEF NumChunks
    <3>4. m * e + e > d
      BY <1>1, <1>5, <3>1, <3>2, <3>3
    <3>5. d >= q * e + e
      BY <1>1, <2>1, <2>2
    <3> HIDE DEF d, m
    <3>6. ~(m < k)
      <4> SUFFICES ASSUME m < k PROVE FALSE
        OBVIOUS
      <4>1. q - m \in Nat /\ q * e = m * e + (q - m) * e
        BY <1>1, <1>5, <2>1
      <4>2. (q - m) * e >= 0 /\ (q - m) * e \in Int /\ m * e \in Int
        BY <1>1, <1>5, <4>1
      <4>3. QED
        BY <1>1, <3>1, <3>4, <3>5, <4>1, <4>2
    <3>7. QED
      BY <1>5, <2>1, <3>6
  <2> DEFINE a == ChunkStart(k)
             b == ChunkEnd(k, n)
  <2>4. a = q * e + 1 /\ a <= i /\ i <= b /\ a \in Int /\ b \in Int
    <3>1. a = q * e + 1
      BY <2>2 DEF ChunkStart
    <3>2. b = IF k * e <= n THEN k * e ELSE n
      BY DEF ChunkEnd
    <3> HIDE DEF a, b, k
    <3>3. QED
      BY <1>1, <2>1, <2>2, <3>1, <3>2
  <2>5. a \in Nat \ {0} /\ b \in 0 .. n
    BY <1>6, <2>3
  <2>6. SubSeq(one, a, b) = SubSeq(two, a, b)
    BY <1>6, <1>7, <2>3
  <2> HIDE DEF a, b, k
  <2>7. \A j \in a .. b : j \in 1 .. n
    BY <1>1, <2>5
  <2>8. i - a + 1 \in 1 .. (b - a + 1) /\ a + (i - a + 1) - 1 = i
    BY <2>1, <2>4
  <2>9. /\ SubSeq(one, a, b)[i - a + 1] = one[a + (i - a + 1) - 1]
        /\ SubSeq(two, a, b)[i - a + 1] = two[a + (i - a + 1) - 1]
    <3>1. \A j \in 1 .. n : one[j] \in Byte /\ two[j] \in Byte
      BY <1>4
    <3>2. \A j \in a .. b : one[j] \in Byte /\ two[j] \in Byte
      BY <2>7, <3>1
    <3>3. \A j \in 1 .. (b - a + 1) : SubSeq(one, a, b)[j] = one[a + j - 1]
      BY <2>4, <3>2, SubSeqProperties
    <3>4. \A j \in 1 .. (b - a + 1) : SubSeq(two, a, b)[j] = two[a + j - 1]
      BY <2>4, <3>2, SubSeqProperties
    <3>5. QED
      BY <2>8, <3>3, <3>4
  <2>10. QED
    BY <2>6, <2>8, <2>9
<1>9. QED
  BY <1>1, <1>4, <1>8

LEMMA InvApart == TraceInv => NoTrivialCollision
<1>1. SUFFICES ASSUME TraceInv, row = 0, NEW n \in 0 .. (P - 1), NEW other \in [1 .. n -> Byte],
                      Absorbed(other) = Absorbed(text)
               PROVE  other = text
  BY DEF NoTrivialCollision
<1>2. text \in Seq(Byte) /\ Len(text) < P
  BY <1>1, CircuitAssumption DEF TraceInv, TraceTypes
<1>3. other \in Seq(Byte) /\ Len(other) < P
  BY FieldFacts
<1>4. QED
  BY <1>1, <1>2, <1>3, AbsorbedApart
-----------------------------------------------------------------------------
(***************************************************************************)
(* The tree: a level has half the nodes of the one below, and a node and   *)
(* its sibling on the path hash to the next node of the path.              *)
(***************************************************************************)
LEMMA CapacityFacts ==
  /\ Capacity[0] = 1
  /\ \A n \in Nat : Capacity[n] \in Nat /\ Capacity[n] >= 1 /\ Capacity[n + 1] = 2 * Capacity[n]
<1> DEFINE h == [n \in Nat |-> n - 1]
           step == [n \in Nat |-> [t \in Nat |-> 2 * t]]
<1>1. \A n \in Nat \ {0} : h[n] \in Nat /\ h[n] < n
  OBVIOUS
<1>2. \A n \in Nat \ {0} : \A t \in Nat : step[n][t] \in Nat
  OBVIOUS
<1> HIDE DEF h, step
<1>3. PICK f : Defined(f, Nat, 1, h, step)
  <2>1. 1 \in Nat
    OBVIOUS
  <2>2. QED
    BY <1>1, <1>2, <2>1, Recursion
<1>4. \A n \in Nat \ {0} : step[n][f[h[n]]] = 2 * f[n - 1]
  <2> SUFFICES ASSUME NEW n \in Nat \ {0}
               PROVE  step[n][f[h[n]]] = 2 * f[n - 1]
    OBVIOUS
  <2>1. h[n] = n - 1 /\ n - 1 \in Nat /\ f[n - 1] \in Nat
    BY <1>3 DEF h, Defined
  <2>2. QED
    BY <2>1 DEF step
<1>5. f = [n \in Nat |-> IF n = 0 THEN 1 ELSE 2 * f[n - 1]]
  BY <1>3, <1>4 DEF Defined
<1>6. Capacity = [n \in Nat |-> IF n = 0 THEN 1 ELSE 2 * Capacity[n - 1]]
  BY <1>5, Zenon DEF Capacity
<1> HIDE DEF h, step
<1>7. \A n \in Nat : Capacity[n + 1] = 2 * Capacity[n]
  <2> SUFFICES ASSUME NEW n \in Nat PROVE Capacity[n + 1] = 2 * Capacity[n]
    OBVIOUS
  <2>1. n + 1 \in Nat /\ n + 1 # 0 /\ (n + 1) - 1 = n
    OBVIOUS
  <2>2. QED
    BY <1>6, <2>1
<1>8. Capacity[0] = 1
  BY <1>6
<1> DEFINE S == {n \in Nat : Capacity[n] \in Nat /\ Capacity[n] >= 1}
<1>9. ASSUME NEW n \in Nat, \A m \in Nat : m < n => m \in S
      PROVE  n \in S
  <2>1. CASE n = 0
    BY <1>8, <2>1
  <2>2. CASE n # 0
    <3>1. n - 1 \in Nat /\ n - 1 < n /\ (n - 1) + 1 = n
      BY <2>2
    <3>2. Capacity[n] = 2 * Capacity[n - 1] /\ n - 1 \in S
      BY <1>7, <1>9, <3>1
    <3>3. QED
      BY <3>2
  <2>3. QED
    BY <2>1, <2>2
<1>10. S = Nat
  <2>1. S \in SUBSET Nat /\ \A n \in Nat : (\A m \in Nat : m < n => m \in S) => n \in S
    BY <1>9
  <2> HIDE DEF S
  <2>2. QED
    BY <2>1, Induction
<1>11. QED
  BY <1>7, <1>8, <1>10

\* The nodes of a level.
Level(depth, l) == [0 .. (Capacity[depth - l] - 1) -> Field]

\* The level above a level of a tree.
LEMMA LevelAbove ==
  ASSUME NEW depth \in Nat, NEW l \in 1 .. depth, NEW below \in Level(depth, l - 1)
  PROVE  /\ [k \in 0 .. (Capacity[depth - l] - 1) |-> Compress2(below[2 * k], below[2 * k + 1])]
              \in Level(depth, l)
         /\ \A k \in 0 .. (Capacity[depth - l] - 1) :
              2 * k \in DOMAIN below /\ 2 * k + 1 \in DOMAIN below
<1>1. depth - l \in Nat /\ depth - (l - 1) = (depth - l) + 1
  OBVIOUS
<1> DEFINE c == Capacity[depth - l]
<1>2. c \in Nat /\ Capacity[depth - (l - 1)] = 2 * c
  BY <1>1, CapacityFacts
<1>3. below \in [0 .. (2 * c - 1) -> Field]
  BY <1>2 DEF Level
<1> HIDE DEF c
<1>4. \A k \in 0 .. (c - 1) : 2 * k \in 0 .. (2 * c - 1) /\ 2 * k + 1 \in 0 .. (2 * c - 1)
  BY <1>2
<1>5. \A k \in 0 .. (c - 1) : Compress2(below[2 * k], below[2 * k + 1]) \in Field
  BY <1>3, <1>4, CompressType
<1>6. QED
  BY <1>3, <1>4, <1>5 DEF Level, c

\* What MerkleTree::new makes of its leaves, node by node.
IsTree(tree, depth, leaves) ==
  /\ \A l \in 0 .. depth : tree[l] \in Level(depth, l)
  /\ \A k \in 0 .. (Capacity[depth] - 1) : tree[0][k] = IF k < Len(leaves) THEN leaves[k + 1] ELSE 0
  /\ \A l \in 1 .. depth : \A k \in 0 .. (Capacity[depth - l] - 1) :
       tree[l][k] = Compress2(tree[l - 1][2 * k], tree[l - 1][2 * k + 1])

LEMMA TreeSteps ==
  ASSUME NEW depth \in Nat, NEW leaves \in Seq(Field)
  PROVE  IsTree(MerkleTree(depth, leaves), depth, leaves)
<1> DEFINE size(l) == Capacity[depth - l] - 1
           Shapes == UNION {Level(depth, l) : l \in 0 .. depth}
           base == [k \in 0 .. size(0) |-> IF k < Len(leaves) THEN leaves[k + 1] ELSE 0]
           above(l, t) == [k \in 0 .. size(l) |-> Compress2(t[2 * k], t[2 * k + 1])]
           step == [l \in 1 .. depth |-> [t \in Shapes |->
                      IF t \in Level(depth, l - 1) THEN above(l, t) ELSE t]]
<1>1. ASSUME NEW l \in 0 .. depth
      PROVE  depth - l \in Nat /\ Capacity[depth - l] \in Nat
  <2>1. depth - l \in Nat
    OBVIOUS
  <2>2. QED
    BY <2>1, CapacityFacts
<1>2. base \in Level(depth, 0)
  <2>1. size(0) \in Int
    <3>1. 0 \in 0 .. depth
      OBVIOUS
    <3>2. Capacity[depth - 0] \in Nat
      BY <1>1, <3>1
    <3>3. QED
      BY <3>2
  <2>2. \A k \in 0 .. size(0) : (IF k < Len(leaves) THEN leaves[k + 1] ELSE 0) \in Field
    <3>1. ASSUME NEW k \in 0 .. size(0), k < Len(leaves)
          PROVE  leaves[k + 1] \in Field
      <4>1. k + 1 \in 1 .. Len(leaves)
        BY <2>1, <3>1
      <4>2. QED
        BY <4>1
    <3>2. QED
      BY <3>1, FieldFacts
  <2>3. QED
    BY <2>2 DEF Level
<1>3. base \in Shapes
  <2>1. 0 \in 0 .. depth
    OBVIOUS
  <2> HIDE DEF base
  <2>2. QED
    BY <1>2, <2>1
<1>4. ASSUME NEW l \in 1 .. depth, NEW t \in Level(depth, l - 1)
      PROVE  above(l, t) \in Level(depth, l)
  BY <1>4, LevelAbove
<1>5. ASSUME NEW l \in 1 .. depth, NEW t \in Shapes
      PROVE  /\ step[l][t] \in Shapes
             /\ t \in Level(depth, l - 1) => step[l][t] = above(l, t)
  <2>1. step[l][t] = IF t \in Level(depth, l - 1) THEN above(l, t) ELSE t
    BY <1>5
  <2>2. l \in 0 .. depth
    OBVIOUS
  <2> HIDE DEF step
  <2>3. t \in Level(depth, l - 1) => above(l, t) \in Level(depth, l)
    BY <1>4
  <2> HIDE DEF above
  <2>4. QED
    BY <2>1, <2>2, <2>3
<1> HIDE DEF step, base
<1>6. \A l \in 1 .. depth : \A t \in Shapes : step[l][t] \in Shapes
  BY <1>5
<1> HIDE DEF Shapes
<1>7. PICK h : Loop(h, depth, Shapes, base, step)
  BY <1>3, <1>6, Iterate
<1> DEFINE S == {l \in Nat : l <= depth => h[l] \in Level(depth, l)}
<1>8. ASSUME NEW l \in 1 .. depth, h[l - 1] \in Level(depth, l - 1)
      PROVE  h[l] = above(l, h[l - 1])
  <2>1. h[l] = step[l][h[l - 1]] /\ h[l - 1] \in Shapes
    BY <1>7 DEF Loop
  <2> HIDE DEF above
  <2>2. QED
    BY <1>5, <1>8, <2>1
<1>9. ASSUME NEW l \in Nat, \A m \in Nat : m < l => m \in S, l <= depth
      PROVE  h[l] \in Level(depth, l)
  <2>1. CASE l = 0
    BY <1>2, <1>7, <2>1 DEF Loop
  <2>2. CASE l # 0
    <3>1. l \in 1 .. depth /\ l - 1 \in Nat /\ l - 1 < l /\ l - 1 <= depth
      BY <1>9, <2>2
    <3>2. h[l - 1] \in Level(depth, l - 1)
      BY <1>9, <3>1
    <3>3. h[l] = above(l, h[l - 1])
      BY <1>8, <3>1, <3>2
    <3> HIDE DEF above
    <3>4. QED
      BY <1>4, <3>1, <3>2, <3>3
  <2>3. QED
    BY <2>1, <2>2
<1>10. S = Nat
  <2>1. S \in SUBSET Nat /\ \A l \in Nat : (\A m \in Nat : m < l => m \in S) => l \in S
    BY <1>9
  <2> HIDE DEF S
  <2>2. QED
    BY <2>1, Induction
<1> DEFINE level(f, l) ==
             [k \in 0 .. (Capacity[depth - l] - 1) |->
                IF l > 0 THEN Compress2(f[l - 1][2 * k], f[l - 1][2 * k + 1])
                ELSE IF k < Len(leaves) THEN leaves[k + 1] ELSE 0]
<1>11. h = [l \in 0 .. depth |-> level(h, l)]
  <2>1. ASSUME NEW l \in 0 .. depth
        PROVE  h[l] = level(h, l)
    <3>1. CASE l = 0
      <4>1. h[l] = base
        BY <1>7, <3>1 DEF Loop
      <4>2. level(h, l) = base
        BY <3>1 DEF base
      <4>3. QED
        BY <4>1, <4>2
    <3>2. CASE l # 0
      <4>1. l \in 1 .. depth /\ l - 1 \in Nat /\ l - 1 <= depth /\ l > 0
        BY <3>2
      <4>2. h[l - 1] \in Level(depth, l - 1)
        BY <1>10, <4>1
      <4>3. h[l] = above(l, h[l - 1])
        BY <1>8, <4>1, <4>2
      <4>4. level(h, l) = above(l, h[l - 1])
        BY <4>1
      <4>5. QED
        BY <4>3, <4>4
    <3>3. QED
      BY <3>1, <3>2
  <2>2. h = [l \in 0 .. depth |-> h[l]]
    BY <1>7 DEF Loop
  <2>3. QED
    BY <2>1, <2>2
<1> DEFINE levels[l \in 0 .. depth] ==
             [k \in 0 .. (Capacity[depth - l] - 1) |->
                IF l > 0 THEN Compress2(levels[l - 1][2 * k], levels[l - 1][2 * k + 1])
                ELSE IF k < Len(leaves) THEN leaves[k + 1] ELSE 0]
<1>12. levels = [l \in 0 .. depth |-> level(levels, l)]
  BY <1>11, Zenon DEF levels
<1>13. MerkleTree(depth, leaves) = levels
  BY DEF MerkleTree
<1> HIDE DEF levels, S
<1>14. \A l \in 0 .. depth : levels[l] = level(levels, l)
  BY <1>12
<1>15. levels[0] = base
  <2>1. 0 \in 0 .. depth
    OBVIOUS
  <2>2. QED
    BY <1>14, <2>1 DEF base
<1>16. ASSUME NEW l \in 1 .. depth
       PROVE  levels[l] = above(l, levels[l - 1])
  <2>1. l \in 0 .. depth /\ l > 0
    OBVIOUS
  <2>2. QED
    BY <1>14, <2>1
<1> DEFINE T == {l \in Nat : l <= depth => levels[l] \in Level(depth, l)}
<1>17. ASSUME NEW l \in Nat, \A m \in Nat : m < l => m \in T, l <= depth
       PROVE  levels[l] \in Level(depth, l)
  <2>1. CASE l = 0
    BY <1>2, <1>15, <2>1
  <2>2. CASE l # 0
    <3>1. l \in 1 .. depth /\ l - 1 \in Nat /\ l - 1 < l /\ l - 1 <= depth
      BY <1>17, <2>2
    <3>2. levels[l - 1] \in Level(depth, l - 1)
      BY <1>17, <3>1
    <3>3. levels[l] = above(l, levels[l - 1])
      BY <1>16, <3>1
    <3> HIDE DEF above
    <3>4. QED
      BY <1>4, <3>1, <3>2, <3>3
  <2>3. QED
    BY <2>1, <2>2
<1>18. T = Nat
  <2>1. T \in SUBSET Nat /\ \A l \in Nat : (\A m \in Nat : m < l => m \in T) => l \in T
    BY <1>17
  <2> HIDE DEF T
  <2>2. QED
    BY <2>1, Induction
<1>19. \A l \in 0 .. depth : levels[l] \in Level(depth, l)
  BY <1>18
<1>20. \A k \in 0 .. (Capacity[depth] - 1) :
         levels[0][k] = IF k < Len(leaves) THEN leaves[k + 1] ELSE 0
  <2>1. depth - 0 = depth
    OBVIOUS
  <2>2. QED
    BY <1>15, <2>1 DEF base
<1>21. \A l \in 1 .. depth : \A k \in 0 .. (Capacity[depth - l] - 1) :
         levels[l][k] = Compress2(levels[l - 1][2 * k], levels[l - 1][2 * k + 1])
  BY <1>16
<1>22. QED
  BY <1>13, <1>19, <1>20, <1>21 DEF IsTree

-----------------------------------------------------------------------------
\* A step of the path is the permutation of the next block's input.
LEMMA ClimbInjects ==
  ASSUME NEW cur, NEW step
  PROVE  Climb(cur, step) = TracePermutation(Injected(cur, step))[ROUNDS][0]
BY DEF Climb, Injected, Compress2

\* Halves[k] is the number of the path's node on level k.
IsHalving(halves, depth, index) ==
  /\ halves \in [0 .. depth -> Nat] /\ halves[0] = index
  /\ \A k \in 1 .. depth : halves[k] = halves[k - 1] \div 2

StepOf(tree, halves, k) ==
  LET i == halves[k - 1]
  IN [sibling |-> tree[k - 1][IF i % 2 = 1 THEN i - 1 ELSE i + 1],
      side |-> IF i % 2 = 1 THEN "Right" ELSE "Left"]

LEMMA HalfFacts ==
  ASSUME NEW i \in Nat
  PROVE  /\ i \div 2 \in Nat /\ i % 2 \in {0, 1}
         /\ i % 2 = 0 => i = 2 * (i \div 2)
         /\ i % 2 = 1 => i = 2 * (i \div 2) + 1
OBVIOUS

\* Path goes by the halves of the index.
LEMMA PathSteps ==
  ASSUME NEW depth \in Nat, NEW tree, NEW index \in Nat
  PROVE  \E halves : /\ IsHalving(halves, depth, index)
                     /\ Path(tree, depth, index) = [k \in 1 .. depth |-> StepOf(tree, halves, k)]
<1> DEFINE step == [k \in 1 .. depth |-> [t \in Nat |-> t \div 2]]
<1>1. ASSUME NEW k \in 1 .. depth, NEW t \in Nat
      PROVE  step[k][t] \in Nat /\ step[k][t] = t \div 2
  <2>1. step[k][t] = t \div 2
    OBVIOUS
  <2>2. QED
    BY <2>1, HalfFacts
<1> HIDE DEF step
<1>2. PICK h : Loop(h, depth, Nat, index, step)
  BY <1>1, Iterate
<1>3. h = [k \in 0 .. depth |-> IF k = 0 THEN index ELSE h[k - 1] \div 2]
  <2>1. ASSUME NEW k \in 0 .. depth
        PROVE  h[k] = IF k = 0 THEN index ELSE h[k - 1] \div 2
    <3>1. CASE k = 0
      BY <1>2, <3>1 DEF Loop
    <3>2. CASE k # 0
      <4>1. k \in 1 .. depth
        BY <3>2
      <4>2. h[k] = step[k][h[k - 1]] /\ h[k - 1] \in Nat
        BY <1>2, <4>1 DEF Loop
      <4>3. QED
        BY <1>1, <3>2, <4>1, <4>2
    <3>3. QED
      BY <3>1, <3>2
  <2>2. h = [k \in 0 .. depth |-> h[k]]
    BY <1>2 DEF Loop
  <2>3. QED
    BY <2>1, <2>2
<1> DEFINE idx[k \in 0 .. depth] == IF k = 0 THEN index ELSE idx[k - 1] \div 2
<1>4. idx = [k \in 0 .. depth |-> IF k = 0 THEN index ELSE idx[k - 1] \div 2]
  BY <1>3, Zenon DEF idx
<1>5. Path(tree, depth, index) = [k \in 1 .. depth |-> StepOf(tree, idx, k)]
  BY DEF Path, StepOf
<1> HIDE DEF idx
<1>6. Loop(idx, depth, Nat, index, step)
  <2>1. idx = [k \in 0 .. depth |-> idx[k]] /\ idx[0] = index
    BY <1>4
  <2>2. ASSUME NEW k \in 1 .. depth, idx[k - 1] \in Nat
        PROVE  idx[k] = step[k][idx[k - 1]]
    <3>1. k \in 0 .. depth /\ k # 0
      OBVIOUS
    <3>2. idx[k] = idx[k - 1] \div 2
      BY <1>4, <3>1
    <3>3. QED
      BY <1>1, <2>2, <3>2
  <2>3. \A k \in 1 .. depth : \A t \in Nat : step[k][t] \in Nat
    BY <1>1
  <2>4. QED
    BY <2>1, <2>2, <2>3, GoesOn
<1>7. IsHalving(idx, depth, index)
  BY <1>1, <1>6 DEF IsHalving, Loop
<1>8. QED
  BY <1>5, <1>7

\* A node and its sibling hash to the next node of the path, up to the root.
LEMMA PathClimbs ==
  ASSUME NEW depth \in Nat, NEW leaves \in Seq(Field), NEW tree, IsTree(tree, depth, leaves),
         NEW index \in 0 .. (Capacity[depth] - 1), NEW halves, IsHalving(halves, depth, index)
  PROVE  /\ halves[depth] = 0
         /\ \A k \in 1 .. depth :
              /\ StepOf(tree, halves, k) \in Steps
              /\ tree[k][halves[k]] = Climb(tree[k - 1][halves[k - 1]], StepOf(tree, halves, k))
<1>1. index \in Nat
  OBVIOUS
<1> DEFINE S == {k \in Nat : k <= depth => halves[k] \in 0 .. (Capacity[depth - k] - 1)}
<1>2. ASSUME NEW k \in 1 .. depth
      PROVE  /\ halves[k - 1] \in Nat /\ halves[k] = halves[k - 1] \div 2
             /\ depth - k \in Nat /\ Capacity[depth - k] \in Nat
             /\ Capacity[depth - (k - 1)] = 2 * Capacity[depth - k]
  <2>1. depth - k \in Nat /\ depth - (k - 1) = (depth - k) + 1 /\ k - 1 \in 0 .. depth
    OBVIOUS
  <2>2. QED
    BY <2>1, CapacityFacts DEF IsHalving
<1>3. ASSUME NEW k \in Nat, \A m \in Nat : m < k => m \in S, k <= depth
      PROVE  halves[k] \in 0 .. (Capacity[depth - k] - 1)
  <2>1. CASE k = 0
    <3>1. depth - k = depth /\ halves[k] = index
      BY <2>1 DEF IsHalving
    <3>2. QED
      BY <3>1
  <2>2. CASE k # 0
    <3>1. k \in 1 .. depth /\ k - 1 \in Nat /\ k - 1 < k /\ k - 1 <= depth
      BY <1>3, <2>2
    <3> DEFINE i == halves[k - 1]
               c == Capacity[depth - k]
    <3>2. i \in Nat /\ halves[k] = i \div 2 /\ c \in Nat /\ Capacity[depth - (k - 1)] = 2 * c
      BY <1>2, <3>1
    <3>3. i \in 0 .. (Capacity[depth - (k - 1)] - 1)
      BY <1>3, <3>1
    <3>4. i < 2 * c
      BY <3>2, <3>3
    <3>5. i \div 2 \in Nat /\ (i = 2 * (i \div 2) \/ i = 2 * (i \div 2) + 1)
      BY <3>2, HalfFacts
    <3> HIDE DEF i, c
    <3>6. i \div 2 \in 0 .. (c - 1)
      BY <3>2, <3>4, <3>5
    <3>7. QED
      BY <3>2, <3>6 DEF c
  <2>3. QED
    BY <2>1, <2>2
<1>4. S = Nat
  <2>1. S \in SUBSET Nat /\ \A k \in Nat : (\A m \in Nat : m < k => m \in S) => k \in S
    BY <1>3
  <2> HIDE DEF S
  <2>2. QED
    BY <2>1, Induction
<1>5. \A k \in 0 .. depth : halves[k] \in 0 .. (Capacity[depth - k] - 1)
  BY <1>4
<1>6. halves[depth] = 0
  <2>1. depth \in 0 .. depth /\ depth - depth = 0
    OBVIOUS
  <2>2. halves[depth] \in 0 .. (Capacity[0] - 1)
    BY <1>5, <2>1
  <2>3. QED
    BY <2>2, CapacityFacts
<1>7. ASSUME NEW k \in 1 .. depth
      PROVE  /\ StepOf(tree, halves, k) \in Steps
             /\ tree[k][halves[k]] = Climb(tree[k - 1][halves[k - 1]], StepOf(tree, halves, k))
  <2> DEFINE i == halves[k - 1]
             j == halves[k]
             c == Capacity[depth - k]
             below == tree[k - 1]
             s == StepOf(tree, halves, k)
  <2>1. i \in Nat /\ j = i \div 2 /\ c \in Nat
    BY <1>2
  <2>2. j \in 0 .. (c - 1)
    <3>1. k \in 0 .. depth
      OBVIOUS
    <3>2. QED
      BY <1>5, <3>1
  <2>3. tree[k][j] = Compress2(below[2 * j], below[2 * j + 1])
    BY <2>2 DEF IsTree
  <2>4. below \in [0 .. (2 * c - 1) -> Field]
    <3>1. k - 1 \in 0 .. depth
      OBVIOUS
    <3>2. below \in Level(depth, k - 1)
      BY <3>1 DEF IsTree
    <3>3. QED
      BY <1>2, <3>2 DEF Level
  <2>5. s = [sibling |-> below[IF i % 2 = 1 THEN i - 1 ELSE i + 1],
             side |-> IF i % 2 = 1 THEN "Right" ELSE "Left"]
    BY DEF StepOf
  <2>6. /\ i % 2 \in {0, 1}
        /\ i % 2 = 0 => i = 2 * j
        /\ i % 2 = 1 => i = 2 * j + 1
    BY <2>1, HalfFacts
  <2> HIDE DEF i, j, c, below, s
  <2>7. 2 * j \in 0 .. (2 * c - 1) /\ 2 * j + 1 \in 0 .. (2 * c - 1) /\ j \in Nat
    BY <2>1, <2>2
  <2>8. CASE i % 2 = 0
    <3>1. s = [sibling |-> below[2 * j + 1], side |-> "Left"] /\ i = 2 * j
      BY <2>5, <2>6, <2>8
    <3>2. s \in Steps
      BY <2>4, <2>7, <3>1 DEF Steps
    <3>3. Climb(below[i], s) = Compress2(below[2 * j], below[2 * j + 1])
      BY <3>1 DEF Climb
    <3>4. QED
      BY <2>3, <3>2, <3>3 DEF i, j, below, s
  <2>9. CASE i % 2 = 1
    <3>1. i = 2 * j + 1 /\ i - 1 = 2 * j
      BY <2>6, <2>7, <2>9
    <3>2. s = [sibling |-> below[2 * j], side |-> "Right"]
      BY <2>5, <2>9, <3>1
    <3>3. s \in Steps
      BY <2>4, <2>7, <3>2 DEF Steps
    <3>4. Climb(below[i], s) = Compress2(below[2 * j], below[2 * j + 1])
      BY <3>1, <3>2 DEF Climb
    <3>5. QED
      BY <2>3, <3>3, <3>4 DEF i, j, below, s
  <2>10. QED
    BY <2>6, <2>8, <2>9
<1>8. QED
  BY <1>6, <1>7

-----------------------------------------------------------------------------
(***************************************************************************)
(* The table of build_trace.                                               *)
(***************************************************************************)
\* Lane 0 of a block's last row.
OutputOf(input) == TracePermutation(input)[ROUNDS][0]

LEMMA InjectedType ==
  ASSUME NEW cur \in Field, NEW step \in Steps
  PROVE  Injected(cur, step) \in States
BY PaddedType DEF Injected, Steps

LEMMA OutputType == ASSUME NEW input \in States PROVE OutputOf(input) \in Field
BY PermutationType, LaneFacts DEF OutputOf, States

\* The inputs of the n + 3 blocks, each from the output of the block before.
Holds(input, n, sk, steps, epoch, x) ==
  /\ \A b \in 0 .. (n + 2) : input[b] \in States
  /\ input[0] = Padded(sk, 0)
  /\ \A b \in 1 .. n : input[b] = Injected(OutputOf(input[b - 1]), steps[b])
  /\ input[n + 1] = Padded(sk, epoch)
  /\ input[n + 2] = Padded((sk + Compress2(sk, epoch) * x) % P, 0)

LEMMA InputSteps ==
  ASSUME NEW sk \in Field, NEW n \in Nat, NEW steps \in [1 .. n -> Steps],
         NEW epoch \in Field, NEW x \in Field
  PROVE  Holds(BlockInputs(sk, steps, epoch, x), n, sk, steps, epoch, x)
<1> DEFINE last == Padded((sk + Compress2(sk, epoch) * x) % P, 0)
           next(b, t) == BlockInput(b, OutputOf(t), sk, steps, epoch, x)
           step == [b \in 1 .. (n + 2) |-> [t \in States |-> next(b, t)]]
<1>1. steps \in Seq(Steps) /\ Len(steps) = n
  OBVIOUS
<1>2. Padded(sk, 0) \in States /\ Padded(sk, epoch) \in States
  BY PaddedType, FieldFacts
<1>3. last \in States
  <2>1. Compress2(sk, epoch) \in Field
    BY CompressType
  <2>2. sk + Compress2(sk, epoch) * x \in Int
    BY <2>1, FieldFacts
  <2>3. (sk + Compress2(sk, epoch) * x) % P \in Field
    BY <2>2, InField
  <2>4. QED
    BY <2>3, PaddedType, FieldFacts
<1> HIDE DEF last
<1>4. /\ \A t : next(0, t) = Padded(sk, 0)
      /\ \A b \in 1 .. n : \A t : next(b, t) = Injected(OutputOf(t), steps[b])
      /\ \A t : next(n + 1, t) = Padded(sk, epoch)
      /\ \A t : next(n + 2, t) = last
  <2>1. /\ 0 # n + 1 /\ 0 # n + 2 /\ n + 1 # n + 2
        /\ n + 1 \notin 1 .. n /\ n + 2 \notin 1 .. n /\ 0 \notin 1 .. n
        /\ \A b \in 1 .. n : b # 0
    OBVIOUS
  <2>2. QED
    BY <1>1, <2>1 DEF BlockInput, last
<1>5. ASSUME NEW b \in 1 .. (n + 2), NEW t \in States
      PROVE  next(b, t) \in States
  <2>1. CASE b \in 1 .. n
    <3>1. next(b, t) = Injected(OutputOf(t), steps[b])
      BY <1>4, <2>1
    <3>2. OutputOf(t) \in Field /\ steps[b] \in Steps
      BY <2>1, OutputType
    <3> HIDE DEF next
    <3>3. QED
      BY <3>1, <3>2, InjectedType
  <2>2. CASE b \notin 1 .. n
    <3>1. b = n + 1 \/ b = n + 2
      BY <2>2
    <3>2. next(n + 1, t) \in States /\ next(n + 2, t) \in States
      BY <1>2, <1>3, <1>4
    <3> HIDE DEF next
    <3>3. QED
      BY <3>1, <3>2
  <2>3. QED
    BY <2>1, <2>2
<1> HIDE DEF next
<1>6. \A b \in 1 .. (n + 2) : \A t \in States : step[b][t] = next(b, t) /\ step[b][t] \in States
  BY <1>5
<1> HIDE DEF step
<1>7. PICK h : Loop(h, n + 2, States, Padded(sk, 0), step)
  <2>1. n + 2 \in Nat
    OBVIOUS
  <2>2. QED
    BY <1>2, <1>6, <2>1, Iterate
<1>8. \A b \in 0 .. (n + 2) : h[b] = next(b, h[b - 1])
  <2>1. ASSUME NEW b \in 0 .. (n + 2)
        PROVE  h[b] = next(b, h[b - 1])
    <3>1. CASE b = 0
      BY <1>4, <1>7, <3>1 DEF Loop
    <3>2. CASE b # 0
      <4>1. b \in 1 .. (n + 2)
        BY <3>2
      <4>2. h[b] = step[b][h[b - 1]] /\ h[b - 1] \in States
        BY <1>7, <4>1 DEF Loop
      <4>3. QED
        BY <1>6, <4>1, <4>2
    <3>3. QED
      BY <3>1, <3>2
  <2>2. QED
    BY <2>1
<1>9. h = [b \in 0 .. (n + 2) |-> next(b, h[b - 1])]
  <2>1. h = [b \in 0 .. (n + 2) |-> h[b]]
    BY <1>7 DEF Loop
  <2>2. QED
    BY <1>8, <2>1
<1> DEFINE input[b \in 0 .. (Len(steps) + 2)] ==
             BlockInput(b, TracePermutation(input[b - 1])[ROUNDS][0], sk, steps, epoch, x)
<1>10. BlockInputs(sk, steps, epoch, x) = input
  BY DEF BlockInputs
<1>11. \A f, b : next(b, f[b - 1])
                  = BlockInput(b, TracePermutation(f[b - 1])[ROUNDS][0], sk, steps, epoch, x)
  BY DEF next, OutputOf
<1>12. input = [b \in 0 .. (Len(steps) + 2) |->
                  BlockInput(b, TracePermutation(input[b - 1])[ROUNDS][0], sk, steps, epoch, x)]
  <2>1. h = [b \in 0 .. (Len(steps) + 2) |->
               BlockInput(b, TracePermutation(h[b - 1])[ROUNDS][0], sk, steps, epoch, x)]
    BY <1>1, <1>9, <1>11
  <2>2. QED
    BY <2>1, Zenon DEF input
<1> HIDE DEF input
<1>13. input = [b \in 0 .. (n + 2) |-> next(b, input[b - 1])]
  BY <1>1, <1>11, <1>12
<1>14. Loop(input, n + 2, States, Padded(sk, 0), step)
  <2>1. input = [b \in 0 .. (n + 2) |-> input[b]] /\ input[0] = Padded(sk, 0)
    BY <1>4, <1>13
  <2>2. ASSUME NEW b \in 1 .. (n + 2), input[b - 1] \in States
        PROVE  input[b] = step[b][input[b - 1]]
    BY <1>6, <1>13, <2>2
  <2>3. n + 2 \in Nat
    OBVIOUS
  <2>4. QED
    BY <1>2, <1>6, <2>1, <2>2, <2>3, GoesOn
<1>15. \A b \in 0 .. (n + 2) : input[b] \in States
  BY <1>14 DEF Loop
<1>16. \A b \in 0 .. (n + 2) : input[b] = next(b, input[b - 1])
  BY <1>13
<1>17. /\ input[0] = Padded(sk, 0)
       /\ \A b \in 1 .. n : input[b] = Injected(OutputOf(input[b - 1]), steps[b])
       /\ input[n + 1] = Padded(sk, epoch) /\ input[n + 2] = last
  <2>1. /\ 0 \in 0 .. (n + 2) /\ n + 1 \in 0 .. (n + 2) /\ n + 2 \in 0 .. (n + 2)
        /\ \A b \in 1 .. n : b \in 0 .. (n + 2)
    OBVIOUS
  <2>2. QED
    BY <1>4, <1>16, <2>1
<1>18. QED
  BY <1>10, <1>15, <1>17 DEF Holds, last

-----------------------------------------------------------------------------
\* Every row is one of a block's, and the block and the place in it are told apart.
LEMMA RowParts ==
  ASSUME NEW n \in Nat
  PROVE  \E b \in Nat, r \in 0 .. ROUNDS : n = BlockRow(b) + r
<1> DEFINE l == BLOCK_LEN
           q == n \div l
           r == n % l
<1>1. l \in Nat /\ l >= 2 /\ ROUNDS = l - 1
  BY BlockFacts
<1> HIDE DEF l
<1>2. r \in 0 .. (l - 1) /\ n = l * q + r /\ q \in Int
  BY <1>1
<1> HIDE DEF q, r
<1>3. q \in Nat
  <2>1. CASE q >= 0
    BY <1>2, <2>1
  <2>2. CASE q <= -1
    <3>1. l * (- q) >= l
      <4>1. (- q) - 1 \in Nat /\ l * ((- q) - 1) >= 0
        BY <1>1, <1>2, <2>2
      <4>2. l * ((- q) - 1) = l * (- q) - l /\ l * (- q) \in Int
        BY <1>1, <1>2
      <4>3. QED
        BY <1>1, <4>1, <4>2
    <3>2. l * (- q) = - (l * q) /\ l * q \in Int
      BY <1>1, <1>2
    <3>3. QED
      BY <1>1, <1>2, <3>1, <3>2
  <2>3. QED
    BY <1>2, <2>1, <2>2
<1>4. n = q * l + r
  BY <1>1, <1>2, <1>3
<1>5. QED
  BY <1>1, <1>2, <1>3, <1>4 DEF BlockRow, l

LEMMA RowsApart ==
  ASSUME NEW b \in Nat, NEW c \in Nat, NEW r \in 0 .. ROUNDS, NEW s \in 0 .. ROUNDS
  PROVE  /\ BlockRow(b) + r = BlockRow(c) + s <=> b = c /\ r = s
         /\ BlockRow(b) + r < BlockRow(c) <=> b < c
<1>1. ASSUME NEW d \in Nat, NEW e \in Nat, NEW t \in 0 .. ROUNDS, d < e
      PROVE  BlockRow(d) + t < BlockRow(e)
  <2>1. BlockRow(d) \in Nat /\ BlockRow(e) \in Nat /\ BlockRow(d + 1) \in Nat
        /\ BlockRow(d) + ROUNDS + 1 = BlockRow(d + 1)
    BY InputRow DEF OutputRow
  <2>2. BlockRow(d + 1) < BlockRow(e) \/ BlockRow(d + 1) = BlockRow(e)
    <3>1. d + 1 \in Nat /\ (d + 1 < e \/ d + 1 = e)
      BY <1>1
    <3>2. QED
      BY <3>1, RowsGrow
  <2>3. QED
    BY <2>1, <2>2, BlockFacts
<1>2. BlockRow(b) \in Nat /\ BlockRow(c) \in Nat
  BY InputRow
<1>3. r \in Nat /\ s \in Nat
  BY BlockFacts
<1>4. CASE b < c
  BY <1>1, <1>2, <1>3, <1>4
<1>5. CASE c < b
  BY <1>1, <1>2, <1>3, <1>5
<1>6. CASE b = c
  BY <1>2, <1>3, <1>6
<1>7. QED
  BY <1>4, <1>5, <1>6

LEMMA RowDivided ==
  ASSUME NEW b \in Nat, NEW r \in 0 .. ROUNDS
  PROVE  (BlockRow(b) + r) \div BLOCK_LEN = b /\ (BlockRow(b) + r) % BLOCK_LEN = r
<1> DEFINE l == BLOCK_LEN
           n == BlockRow(b) + r
           q == n \div l
           s == n % l
<1>1. l \in Nat /\ l >= 2 /\ ROUNDS = l - 1 /\ n \in Nat
  BY BlockFacts, InputRow
<1> HIDE DEF n
<1>2. s \in 0 .. (l - 1) /\ n = l * q + s /\ q \in Nat
  <2> HIDE DEF l
  <2>1. n >= 0 /\ l > 0
    BY <1>1
  <2>2. QED
    BY <1>1, <2>1
<1> HIDE DEF q, s
<1>3. n = BlockRow(q) + s
  BY <1>1, <1>2 DEF BlockRow
<1>4. QED
  BY <1>1, <1>2, <1>3, RowsApart DEF n, q, s

-----------------------------------------------------------------------------
\* Whether a table is the one of build_trace, cell by cell.
IsTrace(t, inputs, steps, sk, epoch) ==
  /\ DOMAIN t = 0 .. (TraceLength(DEPTH) - 1)
  /\ \A b \in 0 .. (DEPTH + 2), r \in 0 .. ROUNDS :
       t[BlockRow(b) + r] = [state |-> TracePermutation(inputs[b])[r], sk |-> sk,
                             sibling |-> Sibling(steps, epoch, BlockRow(b) + r),
                             selector |-> Selector(steps, BlockRow(b) + r)]

LEMMA RowsOfTrace ==
  /\ TraceLength(DEPTH) \in Nat
  /\ \A b \in 0 .. (DEPTH + 2), r \in 0 .. ROUNDS : BlockRow(b) + r \in 0 .. (TraceLength(DEPTH) - 1)
  /\ \A n \in 0 .. (TraceLength(DEPTH) - 1) :
       \E b \in 0 .. (DEPTH + 2), r \in 0 .. ROUNDS : n = BlockRow(b) + r
  /\ TraceLength(DEPTH) - 1 = BlockRow(DEPTH + 2) + ROUNDS
<1>1. DEPTH + 3 \in Nat /\ DEPTH + 2 \in Nat /\ DEPTH \in Nat /\ (DEPTH + 2) + 1 = DEPTH + 3
  BY DepthFacts
<1>2. TraceLength(DEPTH) = BlockRow(DEPTH + 3) /\ BlockRow(DEPTH + 3) \in Nat
  <2>1. NumBlocks(DEPTH) = DEPTH + 3
    BY <1>1 DEF NumBlocks, NumMerkleBlocks
  <2>2. QED
    BY <1>1, <2>1, InputRow DEF TraceLength, BlockRow
<1>3. ASSUME NEW b \in 0 .. (DEPTH + 2), NEW r \in 0 .. ROUNDS
      PROVE  BlockRow(b) + r \in 0 .. (TraceLength(DEPTH) - 1)
  <2>1. b \in Nat /\ b < DEPTH + 3 /\ BlockRow(b) \in Nat /\ r \in Nat
    BY <1>1, InputRow, BlockFacts
  <2>2. BlockRow(b) + r < BlockRow(DEPTH + 3)
    BY <1>1, <2>1, RowsApart, BlockFacts
  <2>3. QED
    BY <1>2, <2>1, <2>2
<1>4. ASSUME NEW n \in 0 .. (TraceLength(DEPTH) - 1)
      PROVE  \E b \in 0 .. (DEPTH + 2), r \in 0 .. ROUNDS : n = BlockRow(b) + r
  <2>1. n \in Nat /\ n < BlockRow(DEPTH + 3)
    BY <1>2
  <2>2. PICK b \in Nat, r \in 0 .. ROUNDS : n = BlockRow(b) + r
    BY <2>1, RowParts
  <2>3. b < DEPTH + 3
    BY <1>1, <2>1, <2>2, RowsApart, BlockFacts
  <2>4. QED
    BY <1>1, <2>2, <2>3
<1>5. TraceLength(DEPTH) - 1 = BlockRow(DEPTH + 2) + ROUNDS
  <2>1. BlockRow(DEPTH + 2) + ROUNDS + 1 = BlockRow(DEPTH + 3) /\ BlockRow(DEPTH + 2) \in Nat
    BY <1>1, InputRow DEF OutputRow
  <2>2. QED
    BY <1>2, <2>1, BlockFacts
<1>6. QED
  BY <1>2, <1>3, <1>4, <1>5

LEMMA TraceBuilt ==
  ASSUME NEW sk, NEW epoch, NEW x, NEW steps \in [1 .. DEPTH -> Steps]
  PROVE  IsTrace(BuildTrace(sk, steps, epoch, x), BlockInputs(sk, steps, epoch, x), steps, sk, epoch)
<1> DEFINE inputs == BlockInputs(sk, steps, epoch, x)
           blocks == [b \in 0 .. (Len(steps) + 2) |-> TracePermutation(inputs[b])]
           t == BuildTrace(sk, steps, epoch, x)
<1>1. Len(steps) = DEPTH
  BY DepthFacts
<1>2. t = [n \in 0 .. (TraceLength(Len(steps)) - 1) |->
            [state |-> blocks[n \div BLOCK_LEN][n % BLOCK_LEN], sk |-> sk,
             sibling |-> Sibling(steps, epoch, n), selector |-> Selector(steps, n)]]
  BY DEF BuildTrace
<1>3. \A b \in 0 .. (DEPTH + 2) : blocks[b] = TracePermutation(inputs[b])
  BY <1>1
<1> HIDE DEF t, blocks, inputs
<1>4. ASSUME NEW b \in 0 .. (DEPTH + 2), NEW r \in 0 .. ROUNDS
      PROVE  t[BlockRow(b) + r] = [state |-> TracePermutation(inputs[b])[r], sk |-> sk,
                                   sibling |-> Sibling(steps, epoch, BlockRow(b) + r),
                                   selector |-> Selector(steps, BlockRow(b) + r)]
  <2>1. b \in Nat
    BY DepthFacts
  <2>2. (BlockRow(b) + r) \div BLOCK_LEN = b /\ (BlockRow(b) + r) % BLOCK_LEN = r
    BY <2>1, RowDivided
  <2>3. BlockRow(b) + r \in 0 .. (TraceLength(Len(steps)) - 1)
    BY <1>1, RowsOfTrace
  <2>4. QED
    BY <1>2, <1>3, <2>2, <2>3
<1>5. DOMAIN t = 0 .. (TraceLength(DEPTH) - 1)
  BY <1>1, <1>2
<1>6. QED
  BY <1>4, <1>5 DEF IsTrace, t, inputs

\* The columns beside the state: filled in at the first row of a block only.
LEMMA SideCells ==
  ASSUME NEW epoch \in Field, NEW steps \in [1 .. DEPTH -> Steps],
         NEW b \in 0 .. (DEPTH + 2), NEW r \in 0 .. ROUNDS, NEW n, n = BlockRow(b) + r
  PROVE  /\ b \in 1 .. DEPTH /\ r = 0 =>
              /\ Sibling(steps, epoch, n) = steps[b].sibling
              /\ Selector(steps, n) = IF steps[b].side = "Right" THEN 1 ELSE 0
         /\ b = DEPTH + 1 /\ r = 0 => Sibling(steps, epoch, n) = epoch /\ Selector(steps, n) = 0
         /\ b = DEPTH + 2 => Sibling(steps, epoch, n) = 0 /\ Selector(steps, n) = 0
         /\ Selector(steps, n) \in {0, 1}
<1>1. Len(steps) = DEPTH /\ DEPTH \in Nat /\ b \in Nat /\ DEPTH + 1 \in Nat
  BY DepthFacts
<1>2. \A c \in Nat : BlockRow(c) + 0 = BlockRow(c) /\ 0 \in 0 .. ROUNDS
  BY InputRow, BlockFacts
<1>3. \A c \in Nat : n = BlockRow(c) <=> b = c /\ r = 0
  BY <1>1, <1>2, RowsApart
<1>4. A1InputRow(DEPTH) = BlockRow(DEPTH + 1)
  BY <1>1, NamedRows
<1>5. n \div BLOCK_LEN = b
  BY <1>1, RowDivided
<1>6. b \in 1 .. DEPTH /\ r = 0 =>
        /\ Sibling(steps, epoch, n) = steps[b].sibling
        /\ Selector(steps, n) = IF steps[b].side = "Right" THEN 1 ELSE 0
  <2> SUFFICES ASSUME b \in 1 .. DEPTH, r = 0
               PROVE  /\ Sibling(steps, epoch, n) = steps[b].sibling
                      /\ Selector(steps, n) = IF steps[b].side = "Right" THEN 1 ELSE 0
    OBVIOUS
  <2>1. b \in 1 .. Len(steps) /\ n = BlockRow(b)
    BY <1>1, <1>3
  <2>2. n # A1InputRow(Len(steps))
    BY <1>1, <1>3, <1>4
  <2>3. Sibling(steps, epoch, n) = steps[b].sibling
    BY <1>5, <2>1, <2>2 DEF Sibling
  <2>4. \A c \in 1 .. Len(steps) : n = BlockRow(c) => c = b
    BY <1>1, <1>3
  <2>5. Selector(steps, n) = IF steps[b].side = "Right" THEN 1 ELSE 0
    BY <2>1, <2>4 DEF Selector
  <2>6. QED
    BY <2>3, <2>5
<1>7. ASSUME b > DEPTH
      PROVE  Selector(steps, n) = 0 /\ ~(\E c \in 1 .. Len(steps) : n = BlockRow(c))
  <2>1. ~(\E c \in 1 .. Len(steps) : n = BlockRow(c))
    BY <1>1, <1>3, <1>7
  <2>2. QED
    BY <2>1 DEF Selector
<1>8. b = DEPTH + 1 /\ r = 0 => Sibling(steps, epoch, n) = epoch /\ Selector(steps, n) = 0
  <2> SUFFICES ASSUME b = DEPTH + 1, r = 0
               PROVE  Sibling(steps, epoch, n) = epoch /\ Selector(steps, n) = 0
    OBVIOUS
  <2>1. b > DEPTH /\ n = A1InputRow(Len(steps))
    BY <1>1, <1>3, <1>4
  <2>2. QED
    BY <1>7, <2>1 DEF Sibling
<1>9. b = DEPTH + 2 => Sibling(steps, epoch, n) = 0 /\ Selector(steps, n) = 0
  <2> SUFFICES ASSUME b = DEPTH + 2
               PROVE  Sibling(steps, epoch, n) = 0 /\ Selector(steps, n) = 0
    OBVIOUS
  <2>1. b > DEPTH /\ n # A1InputRow(Len(steps))
    BY <1>1, <1>3, <1>4
  <2>2. QED
    BY <1>7, <2>1 DEF Sibling
<1>10. Selector(steps, n) \in {0, 1}
  BY DEF Selector
<1>11. QED
  BY <1>6, <1>8, <1>9, <1>10

-----------------------------------------------------------------------------
\* The constraints at a boundary admit a padded input whose two lanes they admit.
LEMMA PaddedAdmitted ==
  ASSUME NEW left \in Field, NEW right \in Field, NEW current, NEW sibling, NEW selector,
         NEW n, NEW x, IsLastInBlock(n),
         AdmitsLane0(left, current, sibling, selector, n, x),
         AdmitsLane(1, right, current, sibling, selector)
  PROVE  \A i \in Lanes : Padded(left, right)[i] \in Admitted(current, sibling, selector, n, x)[i]
<1> SUFFICES ASSUME NEW i \in Lanes
             PROVE  Padded(left, right)[i] \in Admitted(current, sibling, selector, n, x)[i]
  OBVIOUS
<1> DEFINE v == Padded(left, right)[i]
<1>1. v = (CASE i = 0 -> left [] i = 1 -> right [] OTHER -> 0)
  BY DEF Padded
<1>2. Admitted(current, sibling, selector, n, x)[i] =
        {w \in Field : IF i = 0 THEN AdmitsLane0(w, current, sibling, selector, n, x)
                       ELSE AdmitsLane(i, w, current, sibling, selector)}
  BY DEF Admitted
<1>3. i \in Int /\ i >= 0
  BY DEF Lanes, WIDTH
<1> HIDE DEF v
<1>4. CASE i = 0
  BY <1>1, <1>2, <1>4 DEF v
<1>5. CASE i = 1
  BY <1>1, <1>2, <1>5 DEF v
<1>6. CASE i > 1
  <2>1. v = 0 /\ i # 0 /\ i # 1
    BY <1>1, <1>6
  <2>2. AdmitsLane(i, v, current, sibling, selector)
    BY <2>1 DEF AdmitsLane
  <2>3. QED
    BY <1>2, <2>1, <2>2, FieldFacts DEF v
<1>7. QED
  BY <1>3, <1>4, <1>5, <1>6

\* Within a block.
LEMMA HonestRound ==
  ASSUME NEW sk \in Field, NEW epoch \in Field, NEW x \in Field, NEW steps \in [1 .. DEPTH -> Steps],
         NEW inputs, Holds(inputs, DEPTH, sk, steps, epoch, x),
         NEW t, IsTrace(t, inputs, steps, sk, epoch),
         NEW b \in 0 .. (DEPTH + 2), NEW r \in 0 .. (ROUNDS - 1)
  PROVE  Transition(t[BlockRow(b) + r], t[BlockRow(b) + r + 1], BlockRow(b) + r, x)
<1> DEFINE n == BlockRow(b) + r
           now == t[n]
           next == t[n + 1]
<1>1. /\ b \in Nat /\ r \in 0 .. ROUNDS /\ r + 1 \in 0 .. ROUNDS /\ r # ROUNDS
      /\ BlockRow(b) \in Nat /\ n + 1 = BlockRow(b) + (r + 1) /\ r \in Nat
  <2>1. b \in Nat /\ r \in Nat /\ r \in 0 .. ROUNDS /\ r + 1 \in 0 .. ROUNDS /\ r # ROUNDS
    BY DepthFacts, BlockFacts
  <2>2. BlockRow(b) \in Nat
    BY <2>1, InputRow
  <2>3. QED
    BY <2>1, <2>2
<1>2. /\ now = [state |-> TracePermutation(inputs[b])[r], sk |-> sk,
                sibling |-> Sibling(steps, epoch, n), selector |-> Selector(steps, n)]
      /\ next = [state |-> TracePermutation(inputs[b])[r + 1], sk |-> sk,
                 sibling |-> Sibling(steps, epoch, n + 1), selector |-> Selector(steps, n + 1)]
  BY <1>1 DEF IsTrace
<1>3. n % BLOCK_LEN = r /\ ~IsLastInBlock(n)
  <2>1. n % BLOCK_LEN = r
    BY <1>1, RowDivided
  <2>2. QED
    BY <1>1, <2>1, BlockFacts DEF IsLastInBlock
<1>4. inputs[b] \in States
  BY DEF Holds
<1>5. TracePermutation(inputs[b])[r + 1] = ApplyStep(TracePermutation(inputs[b])[r], r)
  BY <1>4, PermutationSteps
<1>6. Selector(steps, n) \in {0, 1}
  BY <1>1, SideCells
<1>7. n = 0 => now.state[0] = now.sk
  <2> SUFFICES ASSUME n = 0 PROVE now.state[0] = sk
    BY <1>2
  <2>1. b = 0 /\ r = 0
    <3>1. BlockRow(0) = 0 /\ 0 \in 0 .. ROUNDS /\ BlockRow(0) + 0 = 0
      BY BlockFacts DEF BlockRow
    <3>2. BlockRow(b) + r = BlockRow(0) + 0
      BY <3>1
    <3> HIDE DEF n
    <3>3. QED
      BY <1>1, <3>1, <3>2, RowsApart
  <2>2. TracePermutation(inputs[b])[0] = Padded(sk, 0)
    BY <1>4, <2>1, PermutationSteps DEF Holds
  <2>3. QED
    BY <1>2, <2>1, <2>2, LaneFacts DEF Padded
<1> HIDE DEF n
<1>8. \A i \in Lanes : next.state[i] \in Admitted(now, next.sibling, next.selector, n, x)[i]
  <2> DEFINE out == ApplyStep(now.state, n % BLOCK_LEN)
  <2>1. Admitted(now, next.sibling, next.selector, n, x) = [i \in Lanes |-> {out[i]}]
    BY <1>3 DEF Admitted
  <2>2. next.state = out
    BY <1>2, <1>3, <1>5
  <2> HIDE DEF out, next, now
  <2>3. QED
    BY <2>1, <2>2
<1>9. SideConstraints(now, next, n)
  BY <1>2, <1>6, <1>7 DEF SideConstraints
<1>10. QED
  BY <1>1, <1>8, <1>9 DEF Transition, n

\* From a block to the next.
LEMMA HonestBoundary ==
  ASSUME NEW sk \in Field, NEW epoch \in Field, NEW x \in Field, NEW steps \in [1 .. DEPTH -> Steps],
         NEW inputs, Holds(inputs, DEPTH, sk, steps, epoch, x),
         NEW t, IsTrace(t, inputs, steps, sk, epoch),
         NEW b \in 0 .. (DEPTH + 1)
  PROVE  Transition(t[OutputRow(b)], t[OutputRow(b) + 1], OutputRow(b), x)
<1> DEFINE n == OutputRow(b)
           now == t[n]
           next == t[n + 1]
           out == OutputOf(inputs[b])
<1>1. /\ b \in Nat /\ b + 1 \in 0 .. (DEPTH + 2) /\ b \in 0 .. (DEPTH + 2)
      /\ 0 \in 0 .. ROUNDS /\ ROUNDS \in 0 .. ROUNDS
      /\ n \in Nat /\ n + 1 = BlockRow(b + 1) /\ BlockRow(b + 1) \in Nat /\ n = BlockRow(b) + ROUNDS
      /\ n + 1 = BlockRow(b + 1) + 0 /\ BlockRow(b) \in Nat
  <2>1. /\ b \in Nat /\ b + 1 \in Nat /\ b + 1 \in 0 .. (DEPTH + 2) /\ b \in 0 .. (DEPTH + 2)
        /\ 0 \in 0 .. ROUNDS /\ ROUNDS \in 0 .. ROUNDS
    BY DepthFacts, BlockFacts
  <2>2. n \in Nat /\ n + 1 = BlockRow(b + 1) /\ BlockRow(b) \in Nat
    BY <2>1, InputRow
  <2>3. BlockRow(b + 1) \in Nat
    BY <2>1, InputRow
  <2>4. n = BlockRow(b) + ROUNDS
    BY DEF OutputRow
  <2> HIDE DEF n
  <2>5. QED
    BY <2>1, <2>2, <2>3, <2>4
<1>2. inputs[b] \in States /\ inputs[b + 1] \in States /\ out \in Field
  BY <1>1, OutputType DEF Holds
<1>3. now = [state |-> TracePermutation(inputs[b])[ROUNDS], sk |-> sk,
             sibling |-> Sibling(steps, epoch, n), selector |-> Selector(steps, n)]
  BY <1>1 DEF IsTrace
<1>4. next = [state |-> inputs[b + 1], sk |-> sk,
              sibling |-> Sibling(steps, epoch, n + 1), selector |-> Selector(steps, n + 1)]
  <2>1. TracePermutation(inputs[b + 1])[0] = inputs[b + 1]
    BY <1>2, PermutationSteps
  <2> HIDE DEF n
  <2>2. QED
    BY <1>1, <2>1 DEF IsTrace
<1>5. IsLastInBlock(n) /\ (IsA1Transition(n) <=> b = DEPTH) /\ (IsLinearcheckTransition(n) <=> b = DEPTH + 1)
  <2>1. n % BLOCK_LEN = ROUNDS
    BY <1>1, InputRow
  <2>2. n = RootRow(DEPTH) <=> b = DEPTH
    BY NamedRows
  <2>3. n = A1OutputRow(DEPTH) <=> b = DEPTH + 1
    BY NamedRows
  <2> HIDE DEF n
  <2>4. QED
    BY <2>1, <2>2, <2>3, BlockFacts DEF IsLastInBlock, IsA1Transition, IsLinearcheckTransition
<1>6. now.state[0] = out /\ now.sk = sk
  BY <1>3 DEF OutputOf
<1>7. SideConstraints(now, next, n)
  <2>1. n # 0
    <3> HIDE DEF n
    <3>1. QED
      BY <1>1, BlockFacts
  <2>2. Selector(steps, n) \in {0, 1}
    BY <1>1, SideCells
  <2> HIDE DEF n
  <2>3. QED
    BY <1>3, <1>4, <2>1, <2>2 DEF SideConstraints
<1>8. \E left \in Field, right \in Field :
        /\ inputs[b + 1] = Padded(left, right)
        /\ AdmitsLane0(left, now, next.sibling, next.selector, n, x)
        /\ AdmitsLane(1, right, now, next.sibling, next.selector)
  <2>1. CASE b < DEPTH
    <3> DEFINE step == steps[b + 1]
    <3>1. b + 1 \in 1 .. DEPTH /\ (b + 1) - 1 = b /\ b # DEPTH /\ b # DEPTH + 1
      BY <1>1, <2>1, DepthFacts
    <3>2. step \in Steps /\ step.sibling \in Field /\ step.side \in {"Left", "Right"}
      BY <3>1 DEF Steps
    <3>3. next.sibling = step.sibling /\ next.selector = IF step.side = "Right" THEN 1 ELSE 0
      <4>1. /\ Sibling(steps, epoch, n + 1) = step.sibling
            /\ Selector(steps, n + 1) = IF step.side = "Right" THEN 1 ELSE 0
        <5> HIDE DEF n, step
        <5>a. b + 1 \in 0 .. (DEPTH + 2) /\ 0 \in 0 .. ROUNDS /\ n + 1 = BlockRow(b + 1) + 0
          BY <1>1
        <5>b. Sibling(steps, epoch, n + 1) = steps[b + 1].sibling
          BY <3>1, <5>a, SideCells, DepthFacts
        <5>c. Selector(steps, n + 1) \in {0, 1}
          BY <3>1, <5>a, SideCells, DepthFacts
        <5>d. Selector(steps, n + 1) = IF steps[b + 1].side = "Right" THEN 1 ELSE 0
          BY <3>1, <5>a, SideCells, DepthFacts
        <5>1. QED
          BY <5>b, <5>d DEF step
      <4>2. QED
        BY <1>4, <4>1
    <3>4. inputs[b + 1] = Injected(out, step)
      <4>1. inputs[b + 1] = Injected(OutputOf(inputs[(b + 1) - 1]), steps[b + 1])
        BY <3>1 DEF Holds
      <4>2. QED
        BY <3>1, <4>1
    <3> HIDE DEF step, next, now, out, n
    <3>5. CASE step.side = "Left"
      <4>1. inputs[b + 1] = Padded(out, step.sibling) /\ next.selector = 0
        BY <3>3, <3>4, <3>5 DEF Injected
      <4>2. /\ (0 * step.sibling + (1 - 0) * out) % P = out
            /\ (0 * out + (1 - 0) * step.sibling) % P = step.sibling
        BY <1>2, <3>2, Selected
      <4>3. AdmitsLane0(out, now, next.sibling, next.selector, n, x)
        BY <1>5, <1>6, <3>1, <3>3, <4>1, <4>2 DEF AdmitsLane0
      <4>4. AdmitsLane(1, step.sibling, now, next.sibling, next.selector)
        BY <1>6, <3>3, <4>1, <4>2 DEF AdmitsLane
      <4>5. QED
        BY <1>2, <3>2, <4>1, <4>3, <4>4
    <3>6. CASE step.side = "Right"
      <4>1. inputs[b + 1] = Padded(step.sibling, out) /\ next.selector = 1
        BY <3>3, <3>4, <3>6 DEF Injected
      <4>2. /\ (1 * step.sibling + (1 - 1) * out) % P = step.sibling
            /\ (1 * out + (1 - 1) * step.sibling) % P = out
        BY <1>2, <3>2, Selected
      <4>3. AdmitsLane0(step.sibling, now, next.sibling, next.selector, n, x)
        BY <1>5, <1>6, <3>1, <3>3, <4>1, <4>2 DEF AdmitsLane0
      <4>4. AdmitsLane(1, out, now, next.sibling, next.selector)
        BY <1>6, <3>3, <4>1, <4>2 DEF AdmitsLane
      <4>5. QED
        BY <1>2, <3>2, <4>1, <4>3, <4>4
    <3>7. QED
      BY <3>2, <3>5, <3>6
  <2>2. CASE b = DEPTH
    <3>1. b + 1 = DEPTH + 1 /\ b # DEPTH + 1
      BY <2>2, DepthFacts
    <3>2. next.sibling = epoch /\ next.selector = 0
      <4>1. Sibling(steps, epoch, n + 1) = epoch /\ Selector(steps, n + 1) = 0
        <5> HIDE DEF n
        <5>1. QED
          BY <1>1, <3>1, SideCells
      <4>2. QED
        BY <1>4, <4>1
    <3>3. inputs[b + 1] = Padded(sk, epoch)
      BY <3>1 DEF Holds
    <3> HIDE DEF next, now, out, n
    <3>4. AdmitsLane0(sk, now, next.sibling, next.selector, n, x)
      BY <1>5, <1>6, <2>2, <3>1 DEF AdmitsLane0
    <3>5. (0 * out + (1 - 0) * epoch) % P = epoch
      BY <1>2, Selected
    <3>6. AdmitsLane(1, epoch, now, next.sibling, next.selector)
      BY <1>6, <3>2, <3>5 DEF AdmitsLane
    <3>7. QED
      BY <3>3, <3>4, <3>6
  <2>3. CASE b = DEPTH + 1
    <3>1. b + 1 = DEPTH + 2 /\ b # DEPTH
      BY <2>3, DepthFacts
    <3>2. next.sibling = 0 /\ next.selector = 0
      <4>1. Sibling(steps, epoch, n + 1) = 0 /\ Selector(steps, n + 1) = 0
        <5> HIDE DEF n
        <5>1. QED
          BY <1>1, <3>1, SideCells
      <4>2. QED
        BY <1>4, <4>1
    <3> DEFINE y == (sk + Compress2(sk, epoch) * x) % P
    <3>3. inputs[b + 1] = Padded(y, 0)
      BY <3>1 DEF Holds
    <3>4. out = Compress2(sk, epoch)
      BY <2>3 DEF Holds, OutputOf, Compress2
    <3>5. y \in Field /\ 0 \in Field
      <4>1. sk + Compress2(sk, epoch) * x \in Int
        BY CompressType, FieldFacts
      <4>2. QED
        BY <4>1, InField, FieldFacts
    <3>6. y = (sk + out * x) % P
      BY <3>4
    <3> HIDE DEF next, now, out, n, y
    <3>7. AdmitsLane0(y, now, next.sibling, next.selector, n, x)
      BY <1>5, <1>6, <2>3, <3>1, <3>6 DEF AdmitsLane0
    <3>8. (0 * out + (1 - 0) * 0) % P = 0
      BY <1>2, <3>5, Selected
    <3>9. AdmitsLane(1, 0, now, next.sibling, next.selector)
      BY <1>6, <3>2, <3>8 DEF AdmitsLane
    <3>10. QED
      BY <3>3, <3>5, <3>7, <3>9
  <2>4. QED
    BY <1>1, <2>1, <2>2, <2>3, DepthFacts
<1>9. \A i \in Lanes : next.state[i] \in Admitted(now, next.sibling, next.selector, n, x)[i]
  <2>1. PICK left \in Field, right \in Field :
          /\ inputs[b + 1] = Padded(left, right)
          /\ AdmitsLane0(left, now, next.sibling, next.selector, n, x)
          /\ AdmitsLane(1, right, now, next.sibling, next.selector)
    BY <1>8
  <2>2. next.state = Padded(left, right)
    BY <1>4, <2>1
  <2> HIDE DEF n, now, next
  <2>3. QED
    BY <1>5, <2>1, <2>2, PaddedAdmitted
<1>10. QED
  BY <1>7, <1>9 DEF Transition

-----------------------------------------------------------------------------
\* The cells that hold the public inputs.
LEMMA HonestAsserted ==
  ASSUME NEW sk \in Field, NEW epoch \in Field, NEW x \in Field, NEW steps \in [1 .. DEPTH -> Steps],
         NEW inputs, Holds(inputs, DEPTH, sk, steps, epoch, x),
         NEW t, IsTrace(t, inputs, steps, sk, epoch),
         NEW root, OutputOf(inputs[DEPTH]) = root,
         NEW b \in 0 .. (DEPTH + 2), NEW r \in 0 .. ROUNDS, NEW n, n = BlockRow(b) + r
  PROVE  Asserted(t[n], n, PublicInputs(sk, root, epoch, x))
<1> DEFINE given == PublicInputs(sk, root, epoch, x)
           now == t[n]
<1>1. /\ b \in Nat /\ 0 \in Nat /\ DEPTH \in Nat /\ DEPTH + 1 \in Nat /\ DEPTH + 2 \in Nat
      /\ 0 \in 0 .. ROUNDS /\ ROUNDS \in 0 .. ROUNDS
  BY DepthFacts, BlockFacts
<1>2. now = [state |-> TracePermutation(inputs[b])[r], sk |-> sk,
             sibling |-> Sibling(steps, epoch, n), selector |-> Selector(steps, n)]
  BY DEF IsTrace
<1>3. /\ n = 0 <=> b = 0 /\ r = 0
      /\ n = RootRow(DEPTH) <=> b = DEPTH /\ r = ROUNDS
      /\ n = A1OutputRow(DEPTH) <=> b = DEPTH + 1 /\ r = ROUNDS
      /\ n = A1InputRow(DEPTH) <=> b = DEPTH + 1 /\ r = 0
      /\ n = YRow(DEPTH) <=> b = DEPTH + 2 /\ r = 0
  <2>1. 0 = BlockRow(0) + 0
    BY BlockFacts DEF BlockRow
  <2>2. DEPTH \in 0 .. (DEPTH + 1) /\ DEPTH + 1 \in 0 .. (DEPTH + 1) /\ (DEPTH + 1) + 1 = DEPTH + 2
    BY <1>1
  <2>3. /\ RootRow(DEPTH) = BlockRow(DEPTH) + ROUNDS
        /\ A1OutputRow(DEPTH) = BlockRow(DEPTH + 1) + ROUNDS
    BY <2>2, NamedRows DEF OutputRow
  <2>4. /\ A1InputRow(DEPTH) = BlockRow(DEPTH + 1) /\ YRow(DEPTH) = BlockRow(DEPTH + 2)
    BY <2>2, NamedRows
  <2>5. BlockRow(DEPTH + 1) + 0 = BlockRow(DEPTH + 1) /\ BlockRow(DEPTH + 2) + 0 = BlockRow(DEPTH + 2)
    <3>1. BlockRow(DEPTH + 1) \in Nat /\ BlockRow(DEPTH + 2) \in Nat
      BY <1>1, InputRow
    <3>2. QED
      BY <3>1
  <2>6. n = 0 <=> b = 0 /\ r = 0
    BY <1>1, <2>1, RowsApart
  <2>7. n = RootRow(DEPTH) <=> b = DEPTH /\ r = ROUNDS
    BY <1>1, <2>3, RowsApart
  <2>8. n = A1OutputRow(DEPTH) <=> b = DEPTH + 1 /\ r = ROUNDS
    BY <1>1, <2>3, RowsApart
  <2>9. n = A1InputRow(DEPTH) <=> b = DEPTH + 1 /\ r = 0
    BY <1>1, <2>4, <2>5, RowsApart
  <2>10. n = YRow(DEPTH) <=> b = DEPTH + 2 /\ r = 0
    BY <1>1, <2>4, <2>5, RowsApart
  <2>11. QED
    BY <2>6, <2>7, <2>8, <2>9, <2>10
<1>4. inputs[b] \in States /\ TracePermutation(inputs[b])[0] = inputs[b]
  BY PermutationSteps DEF Holds
<1>5. n = 0 => \A i \in Lanes \ {0} : now.state[i] = 0
  <2> SUFFICES ASSUME n = 0, NEW i \in Lanes \ {0} PROVE now.state[i] = 0
    OBVIOUS
  <2>1. now.state = Padded(sk, 0)
    BY <1>2, <1>3, <1>4 DEF Holds
  <2>2. Padded(sk, 0)[i] = 0
    BY DEF Padded
  <2>3. QED
    BY <2>1, <2>2
<1>6. n = RootRow(DEPTH) => now.state[0] = given.root
  BY <1>2, <1>3 DEF OutputOf, PublicInputs
<1>7. n = A1OutputRow(DEPTH) => now.state[0] = given.nullifier
  BY <1>2, <1>3 DEF Holds, Compress2, PublicInputs
<1>8. n = YRow(DEPTH) => now.state[0] = given.y
  <2> SUFFICES ASSUME n = YRow(DEPTH) PROVE now.state[0] = given.y
    OBVIOUS
  <2>1. now.state = Padded((sk + Compress2(sk, epoch) * x) % P, 0)
    BY <1>2, <1>3, <1>4 DEF Holds
  <2>2. \A y : Padded(y, 0)[0] = y
    BY LaneFacts DEF Padded
  <2>3. now.state[0] = (sk + Compress2(sk, epoch) * x) % P
    BY <2>1, <2>2
  <2>4. QED
    BY <2>3 DEF PublicInputs
<1>9. n = A1InputRow(DEPTH) => now.sibling = given.epoch /\ now.selector = 0
  BY <1>2, <1>3, SideCells DEF PublicInputs
<1>10. QED
  BY <1>5, <1>6, <1>7, <1>8, <1>9 DEF Asserted

\* The blocks climb the path: the output of block b is the path's node on level b.
LEMMA RootReached ==
  ASSUME NEW sk \in Field, NEW epoch \in Field, NEW x \in Field,
         NEW leaves \in Seq(Field), NEW tree, IsTree(tree, DEPTH, leaves),
         NEW index \in 0 .. (Capacity[DEPTH] - 1), index < Len(leaves), leaves[index + 1] = Commitment(sk),
         NEW halves, IsHalving(halves, DEPTH, index),
         NEW steps, steps = [k \in 1 .. DEPTH |-> StepOf(tree, halves, k)],
         NEW inputs, Holds(inputs, DEPTH, sk, steps, epoch, x)
  PROVE  OutputOf(inputs[DEPTH]) = Root(tree, DEPTH)
<1>1. DEPTH \in Nat
  BY DepthFacts
<1>2. /\ halves[DEPTH] = 0
      /\ \A k \in 1 .. DEPTH : tree[k][halves[k]] = Climb(tree[k - 1][halves[k - 1]], steps[k])
  BY <1>1, PathClimbs
<1> DEFINE S == {k \in Nat : k <= DEPTH => OutputOf(inputs[k]) = tree[k][halves[k]]}
<1>3. ASSUME NEW k \in Nat, \A m \in Nat : m < k => m \in S, k <= DEPTH
      PROVE  OutputOf(inputs[k]) = tree[k][halves[k]]
  <2>1. CASE k = 0
    <3>1. OutputOf(inputs[0]) = Commitment(sk)
      BY DEF Holds, OutputOf, Commitment, Compress2
    <3>2. halves[0] = index /\ tree[0][index] = leaves[index + 1]
      BY DEF IsHalving, IsTree
    <3>3. QED
      BY <2>1, <3>1, <3>2
  <2>2. CASE k # 0
    <3>1. k \in 1 .. DEPTH /\ k - 1 \in Nat /\ k - 1 < k /\ k - 1 <= DEPTH
      BY <1>1, <1>3, <2>2
    <3>2. OutputOf(inputs[k - 1]) = tree[k - 1][halves[k - 1]]
      BY <1>3, <3>1
    <3>3. inputs[k] = Injected(OutputOf(inputs[k - 1]), steps[k])
      BY <3>1 DEF Holds
    <3>4. OutputOf(inputs[k]) = Climb(OutputOf(inputs[k - 1]), steps[k])
      BY <3>3, ClimbInjects DEF OutputOf
    <3>5. QED
      BY <1>2, <3>1, <3>2, <3>4
  <2>3. QED
    BY <2>1, <2>2
<1>4. S = Nat
  <2>1. S \in SUBSET Nat /\ \A k \in Nat : (\A m \in Nat : m < k => m \in S) => k \in S
    BY <1>3
  <2> HIDE DEF S
  <2>2. QED
    BY <2>1, Induction
<1>5. OutputOf(inputs[DEPTH]) = tree[DEPTH][halves[DEPTH]]
  BY <1>1, <1>4
<1>6. QED
  BY <1>2, <1>5 DEF Root

\* The trace of a member of the tree, against the tree's root.
LEMMA HonestAccepted ==
  ASSUME NEW sk \in Field, NEW epoch \in Field, NEW x \in Field,
         NEW leaves \in Seq(Field), NEW index \in 0 .. (Capacity[DEPTH] - 1),
         index < Len(leaves), leaves[index + 1] = Commitment(sk),
         NEW tree, tree = MerkleTree(DEPTH, leaves)
  PROVE  Accepts(BuildTrace(sk, Path(tree, DEPTH, index), epoch, x),
                 PublicInputs(sk, Root(tree, DEPTH), epoch, x))
<1> DEFINE steps == Path(tree, DEPTH, index)
           inputs == BlockInputs(sk, steps, epoch, x)
           t == BuildTrace(sk, steps, epoch, x)
           given == PublicInputs(sk, Root(tree, DEPTH), epoch, x)
<1>1. DEPTH \in Nat /\ index \in Nat
  BY DepthFacts
<1>2. IsTree(tree, DEPTH, leaves)
  BY <1>1, TreeSteps
<1>3. PICK halves : /\ IsHalving(halves, DEPTH, index)
                    /\ steps = [k \in 1 .. DEPTH |-> StepOf(tree, halves, k)]
  <2>1. ASSUME NEW some
        PROVE  \E halves : /\ IsHalving(halves, DEPTH, index)
                           /\ Path(some, DEPTH, index) = [k \in 1 .. DEPTH |-> StepOf(some, halves, k)]
    BY <1>1, PathSteps, Zenon
  <2>2. QED
    BY <2>1
<1>4. steps \in [1 .. DEPTH -> Steps]
  <2>1. \A k \in 1 .. DEPTH : StepOf(tree, halves, k) \in Steps
    BY <1>1, <1>2, <1>3, PathClimbs
  <2>2. QED
    BY <1>3, <2>1
<1> HIDE DEF steps
<1>5. Holds(inputs, DEPTH, sk, steps, epoch, x)
  BY <1>1, <1>4, InputSteps
<1>6. IsTrace(t, inputs, steps, sk, epoch)
  BY <1>4, TraceBuilt
<1> HIDE DEF inputs, t
<1>7. OutputOf(inputs[DEPTH]) = Root(tree, DEPTH)
  BY <1>2, <1>3, <1>5, RootReached
<1>8. given.x = x
  BY DEF PublicInputs
<1>9. ASSUME NEW n \in DOMAIN t
      PROVE  Asserted(t[n], n, given)
  <2>1. PICK b \in 0 .. (DEPTH + 2), r \in 0 .. ROUNDS : n = BlockRow(b) + r
    BY <1>6, RowsOfTrace DEF IsTrace
  <2>2. QED
    BY <1>4, <1>5, <1>6, <1>7, <2>1, HonestAsserted
<1>10. ASSUME NEW n \in DOMAIN t \ {TraceLength(DEPTH) - 1}
       PROVE  Transition(t[n], t[n + 1], n, x)
  <2>1. PICK b \in 0 .. (DEPTH + 2), r \in 0 .. ROUNDS : n = BlockRow(b) + r
    BY <1>6, RowsOfTrace DEF IsTrace
  <2>2. CASE r = ROUNDS
    <3>1. b # DEPTH + 2
      BY <2>1, <2>2, RowsOfTrace
    <3>2. b \in 0 .. (DEPTH + 1)
      BY <1>1, <3>1
    <3>3. n = OutputRow(b)
      BY <2>1, <2>2 DEF OutputRow
    <3>4. QED
      BY <1>4, <1>5, <1>6, <3>2, <3>3, HonestBoundary
  <2>3. CASE r # ROUNDS
    <3>1. r \in 0 .. (ROUNDS - 1)
      BY <2>3, BlockFacts
    <3>2. QED
      BY <1>4, <1>5, <1>6, <2>1, <3>1, HonestRound
  <2>4. QED
    BY <2>2, <2>3
<1>11. QED
  BY <1>8, <1>9, <1>10 DEF Accepts, steps, t

LEMMA InvHonest == TraceInv => HonestProofAccepted
<1> SUFFICES ASSUME TraceInv, NEW m \in DOMAIN MemberSecrets, NEW k \in 1 .. m,
                    row = 0, cells.sk = MemberSecrets[k], public.root = Root(Tree(m), DEPTH)
             PROVE  Accepts(BuildTrace(cells.sk, Path(Tree(m), DEPTH, k - 1), public.epoch, public.x),
                            PublicInputs(cells.sk, public.root, public.epoch, public.x))
  BY DEF HonestProofAccepted
<1> DEFINE leaves == [j \in 1 .. m |-> Commitment(MemberSecrets[j])]
<1>1. cells.sk \in Field /\ public.epoch \in Field /\ public.x \in Field
  BY DEF TraceInv, TraceTypes
<1>2. /\ MemberSecrets \in Seq(Field) /\ m \in Nat /\ m <= Len(MemberSecrets)
      /\ Len(MemberSecrets) <= Capacity[DEPTH] /\ Capacity[DEPTH] \in Nat
  <2>1. MemberSecrets \in Seq(Field) /\ Len(MemberSecrets) <= Capacity[DEPTH]
    BY CircuitAssumption
  <2>2. m \in Nat /\ m <= Len(MemberSecrets)
    BY <2>1
  <2>3. Capacity[DEPTH] \in Nat
    BY DepthFacts, CapacityFacts
  <2>4. QED
    BY <2>1, <2>2, <2>3
<1>3. \A j \in 1 .. m : MemberSecrets[j] \in Field /\ Commitment(MemberSecrets[j]) \in Field
  <2>1. \A j \in 1 .. m : MemberSecrets[j] \in Field
    BY <1>2
  <2>2. QED
    BY <2>1, CompressType, FieldFacts DEF Commitment
<1>4. leaves \in Seq(Field) /\ Len(leaves) = m
  BY <1>2, <1>3
<1>5. k - 1 \in 0 .. (Capacity[DEPTH] - 1) /\ k - 1 < m /\ (k - 1) + 1 = k
  BY <1>2
<1>6. leaves[(k - 1) + 1] = Commitment(cells.sk)
  BY <1>5
<1>7. Tree(m) = MerkleTree(DEPTH, leaves)
  BY DEF Tree
<1> HIDE DEF leaves
<1>8. QED
  BY <1>1, <1>4, <1>5, <1>6, <1>7, HonestAccepted

-----------------------------------------------------------------------------
(***************************************************************************)
(* The composition.  What the committee's invariants say outlives the      *)
(* proofs made against the root it signed: it is set aside as it started.  *)
(***************************************************************************)
LEMMA BackAtStart == Draws # {} /\ SetAside => Init'
BY DEF SetAside, Init, DkgInit

LEMMA AttestedSteps ==
  ASSUME [AttestedNext]_<<vars, proofVars, kemVars>>
  PROVE  /\ [Next]_vars \/ SetAside
         /\ TraceNext \/ UNCHANGED proofVars
         /\ [KemNext]_kemVars
BY DEF AttestedNext, Adopt, TraceNext

CommitteeInv == NonceInv /\ DealerInv /\ KeyInv /\ AnswersFit

LEMMA CommitteeStarts == Init => CommitteeInv
BY NoncesStart, DealersStart, KeysStart, AnswersStart DEF CommitteeInv

LEMMA CommitteeStartsAgain == Init' => CommitteeInv'
BY CommitteeStarts, PTL

LEMMA SigningStartsAgain == Init' => SignInv'
BY SigningStarts, PTL

AttestedInv == Draws # {} /\ CommitteeInv /\ AnswersTrue /\ TraceInv

LEMMA AttestedStart == AttestedInit => AttestedInv
<1>1. Init => Draws # {}
  BY DEF Init, DkgInit
<1> QED BY <1>1, CommitteeStarts, OpeningStarts, TraceStart DEF AttestedInit, AttestedInv

LEMMA AttestedKeeps ==
  AttestedInv /\ [AttestedNext]_<<vars, proofVars, kemVars>> => AttestedInv'
<1> SUFFICES ASSUME AttestedInv, [AttestedNext]_<<vars, proofVars, kemVars>>
             PROVE  AttestedInv'
  OBVIOUS
<1>1. CommitteeInv'
  <2>1. CASE [Next]_vars
    BY <2>1, NonceInvNext, DealerInvNext, KeyInvNext, AnswersFitNext DEF AttestedInv, CommitteeInv
  <2>2. CASE SetAside
    BY <2>2, BackAtStart, CommitteeStartsAgain DEF AttestedInv
  <2> QED BY <2>1, <2>2, AttestedSteps
<1>2. AnswersTrue'
  BY AttestedSteps, AnswersTrueNext DEF AttestedInv
<1>3. TraceInv'
  BY AttestedSteps, TraceNextInv DEF AttestedInv
<1> QED BY <1>1, <1>2, <1>3 DEF AttestedInv

LEMMA AttestedAlways == AttestedSpec => []AttestedInv
BY AttestedStart, AttestedKeeps, PTL DEF AttestedSpec

\* The committee and the operators promise beside the proofs what they promise
\* alone, and after the root is adopted and the committee starts over
\* (crates/mpc/tests/frost_signs_rln_root.rs).
THEOREM CommitteeKeepsItsPromises ==
  AttestedSpec => [](/\ NoncesServeOnce /\ HonestDealersStay /\ KeysFit
                     /\ QuorumDecrypts /\ ContributionHidden /\ KemQuorumOpens)
<1>1. AttestedInv => /\ NoncesServeOnce /\ HonestDealersStay /\ KeysFit
                     /\ QuorumDecrypts /\ ContributionHidden /\ KemQuorumOpens
  <2> SUFFICES ASSUME AttestedInv
               PROVE  /\ NoncesServeOnce /\ HonestDealersStay /\ KeysFit
                      /\ QuorumDecrypts /\ ContributionHidden /\ KemQuorumOpens
    OBVIOUS
  <2>1. NonceInv /\ DealerInv /\ KeyInv /\ AnswersFit /\ AnswersTrue
    BY DEF AttestedInv, CommitteeInv
  <2>2. NoncesServeOnce /\ HonestDealersStay
    BY <2>1 DEF NonceInv, DealerInv
  <2>3. KeysFit
    BY <2>1, KeysFitDealt DEF KeyInv
  <2>4. QuorumDecrypts
    BY <2>1, QuorumCombines DEF QuorumDecrypts
  <2>5. ContributionHidden
    BY <2>1, FewAnswersHide DEF ContributionHidden
  <2>6. KemQuorumOpens
    BY <2>1, AnswersOpen DEF KemQuorumOpens
  <2> QED BY <2>2, <2>3, <2>4, <2>5, <2>6
<1> QED BY <1>1, AttestedAlways, PTL

\* So is every root it adopts under a signature that verifies (aggregate, verify).
THEOREM RootsAreSigned ==
  ASSUME HashesToScalars
  PROVE  AttestedSpec => []SharesSign
<1>1. AttestedInit => SignInv
  BY SigningStarts DEF AttestedInit
<1>2. AttestedInv /\ SignInv /\ [AttestedNext]_<<vars, proofVars, kemVars>> => SignInv'
  <2> SUFFICES ASSUME AttestedInv, SignInv, [AttestedNext]_<<vars, proofVars, kemVars>>
               PROVE  SignInv'
    OBVIOUS
  <2>1. CASE [Next]_vars
    BY <2>1, SignInvNext DEF AttestedInv, CommitteeInv
  <2>2. CASE SetAside
    BY <2>2, BackAtStart, SigningStartsAgain DEF AttestedInv
  <2> QED BY <2>1, <2>2, AttestedSteps
<1>3. AttestedInv /\ SignInv => SharesSign
  BY SharesAddUp DEF AttestedInv, CommitteeInv
<1> QED BY <1>1, <1>2, <1>3, AttestedAlways, PTL DEF AttestedSpec

\* Whatever rows a prover fills in, an accepted trace climbs from the commitment of
\* the secret it carries to the root, and its nullifier and share are that secret's
\* (evaluate_transition, get_assertions).
THEOREM AcceptedTracesAreMembers == AttestedSpec => []AcceptedIsMember
<1>1. AttestedInv => AcceptedIsMember
  BY InvMember DEF AttestedInv
<1> QED BY <1>1, AttestedAlways, PTL

\* Two messages of one epoch give the secret away, and nothing else does
\* (recover_secret).
THEOREM TwoMessagesExposeTheSecret == AttestedSpec => []SecondMessageExposes
<1>1. AttestedInv => SecondMessageExposes
  BY InvExposes DEF AttestedInv
<1> QED BY <1>1, AttestedAlways, PTL

\* Messages that differ, if only by their length, are absorbed as different
\* elements (bytes_to_field).
THEOREM MessagesAreAbsorbedApart == AttestedSpec => []NoTrivialCollision
<1>1. AttestedInv => NoTrivialCollision
  BY InvApart DEF AttestedInv
<1> QED BY <1>1, AttestedAlways, PTL

\* Every member's own trace is accepted, at every leaf, epoch and message: the rows
\* build_trace writes are the rows the constraints read (build_trace, prove_message).
THEOREM HonestTracesAreAccepted == AttestedSpec => []HonestProofAccepted
<1>1. AttestedInv => HonestProofAccepted
  BY InvHonest DEF AttestedInv
<1> QED BY <1>1, AttestedAlways, PTL
=============================================================================
