---------------------------- MODULE NumberLemmas ----------------------------
(***************************************************************************)
(* Induction over the naturals, the functions defined by recursion over    *)
(* them, and numbers modulo a prime: what the proofs about trees, paths    *)
(* and secret sharing rest on.  A property of naturals is the set of those *)
(* that have it, and a recursive definition is given by its value at 0,    *)
(* the smaller argument h[n] it goes back to, and the step from the value  *)
(* there; so every lemma is first order.                                   *)
(***************************************************************************)
EXTENDS Integers, WellFoundedInduction, TLAPS

\* A set of naturals that is not empty has a least element.
LEMMA LeastElement ==
  ASSUME NEW S \in SUBSET Nat, S # {}
  PROVE  \E n \in S : \A m \in S : n <= m
<1> DEFINE R == {ss \in Nat \X Nat : ss[1] < ss[2]}
<1>1. IsWellFoundedOn(R, Nat)
  BY NatLessThanWellFounded DEF OpToRel
<1> HIDE DEF R
<1>2. PICK n \in S : \A m \in S : <<m, n>> \notin R
  BY <1>1, WFMin
<1>3. ASSUME NEW m \in S
      PROVE  n <= m
  <2>1. m \in Nat /\ n \in Nat
    OBVIOUS
  <2>2. <<m, n>> \in Nat \X Nat
    BY <2>1
  <2>3. ~(m < n)
    BY <1>2, <2>2 DEF R
  <2>4. QED
    BY <2>1, <2>3
<1>4. QED
  BY <1>3

\* A property of naturals as the set of those that have it.
LEMMA Induction ==
  ASSUME NEW S \in SUBSET Nat,
         \A n \in Nat : (\A m \in Nat : m < n => m \in S) => n \in S
  PROVE  S = Nat
<1> SUFFICES ASSUME S # Nat PROVE FALSE
  OBVIOUS
<1>1. PICK n \in Nat \ S : \A m \in Nat \ S : n <= m
  BY LeastElement
<1>2. \A m \in Nat : m < n => m \in S
  BY <1>1
<1>3. QED
  BY <1>1, <1>2

\* f is defined up to n by its value at 0 and a step from a smaller argument.
Partial(f, n, T, base, h, step) ==
  /\ f \in [0 .. n -> T]
  /\ \A i \in 0 .. n : f[i] = IF i = 0 THEN base ELSE step[i][f[h[i]]]

LEMMA PartialUnique ==
  ASSUME NEW T, NEW base, NEW h, \A n \in Nat \ {0} : h[n] \in Nat /\ h[n] < n, NEW step,
         NEW m \in Nat, NEW n \in Nat, NEW f, NEW g,
         Partial(f, m, T, base, h, step), Partial(g, n, T, base, h, step)
  PROVE  \A i \in Nat : i <= m /\ i <= n => f[i] = g[i]
<1> DEFINE S == {i \in Nat : i <= m /\ i <= n => f[i] = g[i]}
<1>1. ASSUME NEW i \in Nat, \A j \in Nat : j < i => j \in S, i <= m, i <= n
      PROVE  f[i] = g[i]
  <2>1. i \in 0 .. m /\ i \in 0 .. n
    BY <1>1
  <2>2. CASE i = 0
    BY <2>1, <2>2 DEF Partial
  <2>3. CASE i # 0
    <3>1. h[i] \in Nat /\ h[i] < i
      BY <2>3
    <3>2. f[h[i]] = g[h[i]]
      BY <1>1, <3>1
    <3>3. f[i] = step[i][f[h[i]]] /\ g[i] = step[i][g[h[i]]]
      BY <2>1, <2>3 DEF Partial
    <3>4. QED
      BY <3>2, <3>3
  <2>4. QED
    BY <2>2, <2>3
<1>2. S = Nat
  <2>1. \A i \in Nat : (\A j \in Nat : j < i => j \in S) => i \in S
    BY <1>1
  <2> HIDE DEF S
  <2>2. S \in SUBSET Nat
    BY DEF S
  <2>3. QED
    BY <2>1, <2>2, Induction
<1>3. QED
  BY <1>2

LEMMA PartialExists ==
  ASSUME NEW T, NEW base \in T, NEW h, \A n \in Nat \ {0} : h[n] \in Nat /\ h[n] < n, NEW step,
         \A n \in Nat \ {0} : \A t \in T : step[n][t] \in T
  PROVE  \A n \in Nat : \E f : Partial(f, n, T, base, h, step)
<1> DEFINE S == {n \in Nat : \E f : Partial(f, n, T, base, h, step)}
<1>1. ASSUME NEW n \in Nat, \A m \in Nat : m < n => m \in S
      PROVE  \E f : Partial(f, n, T, base, h, step)
  <2>1. CASE n = 0
    <3> DEFINE f == [i \in 0 .. 0 |-> base]
    <3>1. Partial(f, 0, T, base, h, step)
      BY DEF Partial
    <3>2. QED
      BY <2>1, <3>1
  <2>2. CASE n # 0
    <3>1. n - 1 \in Nat /\ n - 1 < n
      BY <2>2
    <3>2. PICK g : Partial(g, n - 1, T, base, h, step)
      BY <1>1, <3>1
    <3> DEFINE f == [i \in 0 .. n |-> IF i = n THEN step[n][g[h[n]]] ELSE g[i]]
    <3>3. h[n] \in 0 .. (n - 1)
      BY <2>2
    <3>4. step[n][g[h[n]]] \in T
      BY <2>2, <3>2, <3>3 DEF Partial
    <3>5. \A i \in 0 .. (n - 1) : i \in 0 .. n /\ i # n /\ g[i] \in T
      BY <3>1, <3>2 DEF Partial
    <3>6. f \in [0 .. n -> T]
      BY <3>4, <3>5
    <3>7. ASSUME NEW i \in 0 .. n
          PROVE  f[i] = IF i = 0 THEN base ELSE step[i][f[h[i]]]
      <4>1. CASE i = n
        <5>1. f[n] = step[n][g[h[n]]] /\ f[h[n]] = g[h[n]]
          BY <3>3, <3>5
        <5> HIDE DEF f
        <5>2. QED
          BY <2>2, <4>1, <5>1
      <4>2. CASE i # n
        <5>1. i \in 0 .. (n - 1)
          BY <4>2
        <5>2. g[i] = IF i = 0 THEN base ELSE step[i][g[h[i]]]
          BY <3>2, <5>1 DEF Partial
        <5>3. i # 0 => h[i] \in 0 .. (n - 1)
          BY <5>1
        <5>4. f[i] = g[i] /\ (i # 0 => f[h[i]] = g[h[i]])
          BY <3>5, <5>1, <5>3
        <5> HIDE DEF f
        <5>5. QED
          BY <5>2, <5>4
      <4>3. QED
        BY <4>1, <4>2
    <3> HIDE DEF f
    <3>8. Partial(f, n, T, base, h, step)
      BY <3>6, <3>7 DEF Partial
    <3>9. QED
      BY <3>8
  <2>3. QED
    BY <2>1, <2>2
<1>2. \A n \in Nat : (\A m \in Nat : m < n => m \in S) => n \in S
  BY <1>1
<1> HIDE DEF S
<1>3. S \in SUBSET Nat
  BY DEF S
<1>4. S = Nat
  BY <1>2, <1>3, Induction
<1>5. QED
  BY <1>4 DEF S

\* f is defined by its value at 0 and a step from a smaller argument.
Defined(f, T, base, h, step) ==
  /\ f \in [Nat -> T]
  /\ f = [n \in Nat |-> IF n = 0 THEN base ELSE step[n][f[h[n]]]]

LEMMA Recursion ==
  ASSUME NEW T, NEW base \in T, NEW h, \A n \in Nat \ {0} : h[n] \in Nat /\ h[n] < n, NEW step,
         \A n \in Nat \ {0} : \A t \in T : step[n][t] \in T
  PROVE  \E f : Defined(f, T, base, h, step)
<1> DEFINE Upto(n) == CHOOSE f : Partial(f, n, T, base, h, step)
           f == [n \in Nat |-> Upto(n)[n]]
<1>1. \A n \in Nat : Partial(Upto(n), n, T, base, h, step)
  BY PartialExists
<1> HIDE DEF Upto
<1>2. ASSUME NEW n \in Nat
      PROVE  f[n] \in T /\ f[n] = IF n = 0 THEN base ELSE step[n][f[h[n]]]
  <2>1. n \in 0 .. n
    OBVIOUS
  <2>2. Upto(n)[n] \in T /\ Upto(n)[n] = IF n = 0 THEN base ELSE step[n][Upto(n)[h[n]]]
    BY <1>1, <2>1 DEF Partial
  <2>3. ASSUME n # 0
        PROVE  h[n] \in Nat /\ Upto(n)[h[n]] = Upto(h[n])[h[n]]
    <3>1. h[n] \in Nat /\ h[n] <= n /\ h[n] <= h[n]
      BY <2>3
    <3>2. Partial(Upto(n), n, T, base, h, step) /\ Partial(Upto(h[n]), h[n], T, base, h, step)
      BY <1>1, <3>1
    <3>3. QED
      BY <3>1, <3>2, PartialUnique
  <2>4. QED
    BY <2>2, <2>3
<1> HIDE DEF f
<1>3. f \in [Nat -> T] /\ f = [n \in Nat |-> IF n = 0 THEN base ELSE step[n][f[h[n]]]]
  <2>1. f = [n \in Nat |-> f[n]]
    BY DEF f
  <2>2. QED
    BY <1>2, <2>1
<1>4. QED
  BY <1>3 DEF Defined

-----------------------------------------------------------------------------
(***************************************************************************)
(* Loops: what each has after k rounds.                                    *)
(***************************************************************************)
Loop(f, n, T, base, step) ==
  /\ f \in [0 .. n -> T] /\ f[0] = base
  /\ \A k \in 1 .. n : k - 1 \in 0 .. n /\ f[k - 1] \in T /\ f[k] = step[k][f[k - 1]]

LEMMA Iterate ==
  ASSUME NEW n \in Nat, NEW T, NEW base \in T, NEW step,
         \A k \in 1 .. n : \A t \in T : step[k][t] \in T
  PROVE  \E f : Loop(f, n, T, base, step)
<1> DEFINE h == [k \in Nat |-> IF k = 0 THEN 0 ELSE k - 1]
           all == [k \in Nat |-> IF k \in 1 .. n THEN step[k] ELSE [t \in T |-> base]]
<1>1. \A k \in Nat \ {0} : h[k] \in Nat /\ h[k] < k /\ h[k] = k - 1
  OBVIOUS
<1>2. \A k \in Nat \ {0} : \A t \in T : all[k][t] \in T
  OBVIOUS
<1>3. \A k \in 1 .. n : all[k] = step[k]
  OBVIOUS
<1> HIDE DEF h, all
<1>4. PICK f : Partial(f, n, T, base, h, all)
  BY <1>1, <1>2, PartialExists
<1>5. f \in [0 .. n -> T] /\ \A k \in 0 .. n : f[k] = IF k = 0 THEN base ELSE all[k][f[h[k]]]
  BY <1>4 DEF Partial
<1>6. 0 \in 0 .. n /\ f[0] = base
  BY <1>5
<1>7. ASSUME NEW k \in 1 .. n
      PROVE  k - 1 \in 0 .. n /\ f[k - 1] \in T /\ f[k] = step[k][f[k - 1]]
  <2>1. k \in 0 .. n /\ k # 0 /\ k \in Nat \ {0} /\ k - 1 \in 0 .. n
    OBVIOUS
  <2>2. f[k] = all[k][f[h[k]]]
    BY <1>5, <2>1
  <2>3. h[k] = k - 1 /\ all[k] = step[k]
    BY <1>1, <1>3, <2>1
  <2>4. QED
    BY <1>5, <2>1, <2>2, <2>3
<1>8. QED
  BY <1>5, <1>6, <1>7 DEF Loop

\* What goes on as a loop of this kind does is one.
LEMMA GoesOn ==
  ASSUME NEW n \in Nat, NEW T, NEW base \in T, NEW step,
         \A k \in 1 .. n : \A t \in T : step[k][t] \in T,
         NEW acc, acc = [k \in 0 .. n |-> acc[k]], acc[0] = base,
         \A k \in 1 .. n : acc[k - 1] \in T => acc[k] = step[k][acc[k - 1]]
  PROVE  Loop(acc, n, T, base, step)
<1> DEFINE S == {k \in Nat : k \in 0 .. n => acc[k] \in T}
<1>1. S = Nat
  <2>1. ASSUME NEW k \in Nat, \A m \in Nat : m < k => m \in S, k \in 0 .. n
        PROVE  acc[k] \in T
    <3>1. CASE k = 0
      BY <3>1
    <3>2. CASE k # 0
      <4>1. k - 1 \in Nat /\ k - 1 < k /\ k - 1 \in 0 .. n /\ k \in 1 .. n
        BY <2>1, <3>2
      <4>2. acc[k - 1] \in T
        BY <2>1, <4>1
      <4>3. QED
        BY <4>1, <4>2
    <3>3. QED
      BY <3>1, <3>2
  <2>2. \A k \in Nat : (\A m \in Nat : m < k => m \in S) => k \in S
    BY <2>1
  <2> HIDE DEF S
  <2>3. S \in SUBSET Nat
    BY DEF S
  <2>4. QED
    BY <2>2, <2>3, Induction
<1>2. \A k \in 0 .. n : acc[k] \in T
  BY <1>1
<1>3. acc \in [0 .. n -> T]
  BY <1>2
<1>4. \A k \in 1 .. n : k - 1 \in 0 .. n
  OBVIOUS
<1>5. QED
  BY <1>2, <1>3, <1>4 DEF Loop

-----------------------------------------------------------------------------
(***************************************************************************)
(* Numbers modulo q.                                                       *)
(***************************************************************************)
SameModulo(a, b, q) == \E k \in Int : a = b + k * q

LEMMA SameModuloSelf ==
  ASSUME NEW q \in Nat, q > 1, NEW a \in Int
  PROVE  SameModulo(a, a, q)
<1>1. a = a + 0 * q /\ 0 \in Int
  OBVIOUS
<1>2. QED
  BY <1>1 DEF SameModulo

LEMMA SameModuloSwap ==
  ASSUME NEW q \in Nat, q > 1, NEW a \in Int, NEW b \in Int, SameModulo(a, b, q)
  PROVE  SameModulo(b, a, q)
<1>1. PICK k \in Int : a = b + k * q
  BY DEF SameModulo
<1>2. b = a + (- k) * q /\ (- k) \in Int
  BY <1>1
<1>3. QED
  BY <1>2 DEF SameModulo

LEMMA SameModuloChain ==
  ASSUME NEW q \in Nat, q > 1, NEW a \in Int, NEW b \in Int, NEW c \in Int,
         SameModulo(a, b, q), SameModulo(b, c, q)
  PROVE  SameModulo(a, c, q)
<1>1. PICK k \in Int : a = b + k * q
  BY DEF SameModulo
<1>2. PICK l \in Int : b = c + l * q
  BY DEF SameModulo
<1>3. a = c + (k + l) * q /\ k + l \in Int
  BY <1>1, <1>2
<1>4. QED
  BY <1>3 DEF SameModulo

LEMMA SameModuloPlus ==
  ASSUME NEW q \in Nat, q > 1, NEW a \in Int, NEW b \in Int, NEW c \in Int, NEW d \in Int,
         SameModulo(a, b, q), SameModulo(c, d, q)
  PROVE  SameModulo(a + c, b + d, q)
<1>1. PICK k \in Int : a = b + k * q
  BY DEF SameModulo
<1>2. PICK l \in Int : c = d + l * q
  BY DEF SameModulo
<1>3. a + c = (b + d) + (k + l) * q /\ k + l \in Int
  BY <1>1, <1>2
<1>4. QED
  BY <1>3 DEF SameModulo

LEMMA SameModuloTimes ==
  ASSUME NEW q \in Nat, q > 1, NEW a \in Int, NEW b \in Int, NEW c \in Int, NEW d \in Int,
         SameModulo(a, b, q), SameModulo(c, d, q)
  PROVE  SameModulo(a * c, b * d, q)
<1>1. PICK k \in Int : a = b + k * q
  BY DEF SameModulo
<1>2. PICK l \in Int : c = d + l * q
  BY DEF SameModulo
<1>3. /\ a * c = (b * d) + (k * d + b * l + k * l * q) * q
      /\ k * d + b * l + k * l * q \in Int
  BY <1>1, <1>2
<1>4. QED
  BY <1>3 DEF SameModulo

LEMMA ModuloSame ==
  ASSUME NEW q \in Nat, q > 1, NEW a \in Int
  PROVE  a % q \in 0 .. (q - 1) /\ SameModulo(a % q, a, q)
<1>1. a % q \in 0 .. (q - 1) /\ a = q * (a \div q) + (a % q) /\ a \div q \in Int
  OBVIOUS
<1>2. a % q = a + (- (a \div q)) * q /\ - (a \div q) \in Int
  BY <1>1
<1>3. QED
  BY <1>1, <1>2 DEF SameModulo

\* A number modulo q is equal to one it is the same as.
LEMMA SameModuloEqual ==
  ASSUME NEW q \in Nat, q > 1, NEW a \in 0 .. (q - 1), NEW b \in 0 .. (q - 1),
         SameModulo(a, b, q)
  PROVE  a = b
<1>1. PICK k \in Int : a = b + k * q
  BY DEF SameModulo
<1>2. a \in Int /\ b \in Int /\ 0 <= a /\ a < q /\ 0 <= b /\ b < q
  OBVIOUS
<1>3. CASE k = 0
  BY <1>1, <1>2, <1>3
<1>4. CASE k >= 1
  <2>1. k * q >= q
    <3>1. k - 1 \in Nat /\ (k - 1) * q >= 0 /\ k * q = (k - 1) * q + q
      BY <1>4
    <3>2. QED
      BY <3>1
  <2>2. QED
    BY <1>1, <1>2, <2>1
<1>5. CASE k <= -1
  <2>1. k * q <= - q
    <3>1. - k - 1 \in Nat /\ (- k - 1) * q >= 0 /\ k * q = - ((- k - 1) * q) - q
      BY <1>5
    <3>2. QED
      BY <3>1
  <2>2. QED
    BY <1>1, <1>2, <2>1
<1>6. QED
  BY <1>3, <1>4, <1>5

LEMMA ModuloOfSame ==
  ASSUME NEW q \in Nat, q > 1, NEW a \in Int, NEW b \in Int, SameModulo(a, b, q)
  PROVE  a % q = b % q
<1>1. a % q \in 0 .. (q - 1) /\ SameModulo(a % q, a, q) /\ b % q \in 0 .. (q - 1) /\ SameModulo(b % q, b, q)
  BY ModuloSame
<1>2. a % q \in Int /\ b % q \in Int
  BY <1>1
<1>3. SameModulo(a % q, b, q) /\ SameModulo(b, b % q, q)
  BY <1>1, <1>2, SameModuloChain, SameModuloSwap
<1>4. SameModulo(a % q, b % q, q)
  BY <1>2, <1>3, SameModuloChain
<1>5. QED
  BY <1>1, <1>4, SameModuloEqual

\* If q is prime, 1 is a combination of it and any number that is not 0: the least
\* combination above 0 divides q.
LEMMA InverseModuloPrime ==
  ASSUME NEW q \in Nat, q > 1, \A a, b \in 2 .. (q - 1) : a * b # q,
         NEW x \in 1 .. (q - 1)
  PROVE  \E y \in 0 .. (q - 1) : (x * y) % q = 1
<1> DEFINE S == {m \in Nat \ {0} : \E k \in Int : SameModulo(k * x, m, q)}
<1>1. x \in S
  <2>1. x \in Int /\ 1 * x = x /\ SameModulo(x, x, q) /\ x \in Nat \ {0} /\ 1 \in Int
    BY SameModuloSelf
  <2>2. QED
    BY <2>1
<1>2. S \in SUBSET Nat /\ S # {}
  BY <1>1
<1> HIDE DEF S
<1>3. PICK m \in S : \A l \in S : m <= l
  BY <1>2, LeastElement
<1>4. m \in Nat \ {0} /\ m <= x /\ x < q
  <2>1. m \in Nat \ {0}
    BY DEF S
  <2>2. m <= x
    BY <1>1, <1>3
  <2>3. QED
    BY <2>1, <2>2
<1>5. PICK k \in Int : SameModulo(k * x, m, q)
  BY <1>3 DEF S
<1>6. PICK l \in Int : k * x = m + l * q
  BY <1>5 DEF SameModulo
<1> DEFINE d == q \div m
           r == q % m
<1>7. d \in Nat /\ r \in 0 .. (m - 1) /\ q = m * d + r
  <2>1. q \in Nat /\ m \in Nat \ {0}
    BY <1>4
  <2>2. d \in Int /\ r \in 0 .. (m - 1) /\ q = m * d + r
    BY <2>1
  <2>3. d >= 0
    <3>1. ASSUME d < 0 PROVE FALSE
      <4>1. - d - 1 \in Nat
        BY <2>2, <3>1
      <4>2. m * (- d - 1) >= 0
        BY <2>1, <4>1
      <4>3. m * (- d - 1) = - (m * d) - m
        BY <2>1, <2>2
      <4>4. m * d \in Int
        BY <2>1, <2>2
      <4>5. QED
        BY <2>1, <2>2, <4>2, <4>3, <4>4
    <3>2. QED
      BY <2>2, <3>1
  <2>4. QED
    BY <2>2, <2>3
<1> HIDE DEF d, r
<1>8. r = 0
  <2> SUFFICES ASSUME r # 0 PROVE FALSE
    OBVIOUS
  <2>1. r \in Nat \ {0} /\ r < m
    BY <1>4, <1>7
  <2>2. (- d * k) * x = r + (- 1 - d * l) * q
    <3>1. (- d * k) * x = - d * (m + l * q)
      BY <1>4, <1>6, <1>7
    <3>2. - d * (m + l * q) = - (m * d) - d * l * q
      BY <1>4, <1>6, <1>7
    <3>3. - (m * d) = r - q
      BY <1>4, <1>7
    <3>4. r + (- 1 - d * l) * q = (r - q) - d * l * q
      BY <1>4, <1>6, <1>7
    <3>5. QED
      BY <3>1, <3>2, <3>3, <3>4
  <2>3. - d * k \in Int /\ - 1 - d * l \in Int
    BY <1>6, <1>7
  <2>4. r \in S
    BY <2>1, <2>2, <2>3 DEF S, SameModulo
  <2>5. QED
    BY <1>3, <1>4, <2>1, <2>4
<1>9. m = 1
  <2> SUFFICES ASSUME m # 1 PROVE FALSE
    OBVIOUS
  <2>1. q = m * d
    BY <1>4, <1>7, <1>8
  <2>2. m \in 2 .. (q - 1)
    BY <1>4
  <2>3. d \in 2 .. (q - 1)
    <3>1. d # 0 /\ d # 1
      BY <1>4, <1>7, <2>1
    <3>2. d >= 2
      BY <1>7, <3>1
    <3>3. m * d >= 2 * d
      <4>1. m - 2 \in Nat /\ (m - 2) * d >= 0 /\ m * d = (m - 2) * d + 2 * d
        BY <1>4, <1>7, <2>2
      <4>2. (m - 2) * d \in Int
        BY <1>7, <2>2
      <4>3. QED
        BY <1>7, <4>1, <4>2
    <3>4. QED
      BY <1>7, <2>1, <3>2, <3>3
  <2>4. QED
    BY <2>1, <2>2, <2>3
<1> DEFINE y == k % q
<1>10. y \in 0 .. (q - 1) /\ SameModulo(y, k, q) /\ y \in Int
  BY ModuloSame
<1> HIDE DEF y
<1>11. SameModulo(x * y, 1, q)
  <2>1. PICK j \in Int : y = k + j * q
    BY <1>10 DEF SameModulo
  <2>2. x * y = k * x + (x * j) * q
    BY <1>4, <2>1
  <2>3. x * y = 1 + (l + x * j) * q
    <3>1. k * x = 1 + l * q
      BY <1>6, <1>9
    <3>2. (l + x * j) * q = l * q + (x * j) * q
      BY <2>1
    <3>3. l * q \in Int /\ (x * j) * q \in Int
      BY <2>1
    <3>4. QED
      BY <2>2, <3>1, <3>2, <3>3
  <2>4. l + x * j \in Int
    BY <2>1
  <2>5. QED
    BY <2>3, <2>4 DEF SameModulo
<1>12. (x * y) % q = 1
  <2>1. x * y \in Int /\ 1 \in Int
    BY <1>10
  <2>2. (x * y) % q = 1 % q
    BY <1>11, <2>1, ModuloOfSame
  <2>3. 1 % q = 1
    OBVIOUS
  <2>4. QED
    BY <2>2, <2>3
<1>13. QED
  BY <1>10, <1>12
=============================================================================
