----------------------------- MODULE OramProofs -----------------------------
(***************************************************************************)
(* Proofs about Oram: for every set of ids and values, every depth and     *)
(* every bucket capacity, the client is a map.  The argument: a block's    *)
(* bucket is on the path of its leaf, so an access meets the only copy     *)
(* there is, and the buckets it does not read hold no block of that id.    *)
(***************************************************************************)
EXTENDS Oram, NumberLemmas, FiniteSetTheorems, TLAPS

-----------------------------------------------------------------------------
(***************************************************************************)
(* The tree: what the definitions of Pow2 and Ancestors compute, and that  *)
(* the ancestors of a node are a chain of its nodes, from 1.               *)
(***************************************************************************)
\* Pow2 is what its definition says.
LEMMA Pow2Facts ==
  /\ Pow2 \in [Nat -> Nat]
  /\ Pow2[0] = 1 /\ \A n \in Nat : Pow2[n + 1] = 2 * Pow2[n]
<1> DEFINE h == [n \in Nat |-> n - 1]
           step == [n \in Nat |-> [t \in Nat |-> 2 * t]]
<1>1. \A n \in Nat \ {0} : h[n] \in Nat /\ h[n] < n
  OBVIOUS
<1>2. \A n \in Nat \ {0} : \A t \in Nat : step[n][t] \in Nat
  OBVIOUS
<1> HIDE DEF h, step
<1>3. PICK f : Defined(f, Nat, 1, h, step)
  <2>1. 1 \in Nat
    OBVIOUS
  <2>2. QED
    BY <1>1, <1>2, <2>1, Recursion
<1>4. \A n \in Nat \ {0} : step[n][f[h[n]]] = 2 * f[n - 1]
  <2> SUFFICES ASSUME NEW n \in Nat \ {0}
               PROVE  step[n][f[h[n]]] = 2 * f[n - 1]
    OBVIOUS
  <2>1. h[n] = n - 1 /\ n - 1 \in Nat /\ f[n - 1] \in Nat
    BY <1>3 DEF h, Defined
  <2>2. QED
    BY <2>1 DEF step
<1>5. f = [n \in Nat |-> IF n = 0 THEN 1 ELSE 2 * f[n - 1]]
  BY <1>3, <1>4 DEF Defined
<1>6. Pow2 = [n \in Nat |-> IF n = 0 THEN 1 ELSE 2 * Pow2[n - 1]]
  BY <1>5, Zenon DEF Pow2
<1> HIDE DEF h, step
<1>7. \A n \in Nat : Pow2[n + 1] = 2 * Pow2[n]
  <2> SUFFICES ASSUME NEW n \in Nat PROVE Pow2[n + 1] = 2 * Pow2[n]
    OBVIOUS
  <2>1. n + 1 \in Nat /\ n + 1 # 0 /\ (n + 1) - 1 = n
    OBVIOUS
  <2>2. QED
    BY <1>6, <2>1
<1>8. Pow2[0] = 1
  BY <1>6
<1> DEFINE S == {n \in Nat : Pow2[n] \in Nat}
<1>9. \A n \in Nat : (\A m \in Nat : m < n => m \in S) => n \in S
  <2> SUFFICES ASSUME NEW n \in Nat, \A m \in Nat : m < n => m \in S
               PROVE  Pow2[n] \in Nat
    OBVIOUS
  <2>1. CASE n = 0
    BY <1>8, <2>1
  <2>2. CASE n # 0
    <3>1. n - 1 \in Nat /\ n - 1 < n
      BY <2>2
    <3>2. Pow2[n - 1] \in Nat /\ Pow2[n] = 2 * Pow2[n - 1]
      BY <1>6, <2>2, <3>1
    <3>3. QED
      BY <3>2
  <2>3. QED
    BY <2>1, <2>2
<1>10. \A n \in Nat : Pow2[n] \in Nat
  <2>1. S \in SUBSET Nat
    OBVIOUS
  <2> HIDE DEF S
  <2>2. S = Nat
    BY <1>9, <2>1, Induction
  <2>3. QED
    BY <2>2 DEF S
<1>11. QED
  BY <1>6, <1>7, <1>8, <1>10

\* Ancestors is what its definition says.
LEMMA AncestorsFacts ==
  /\ Ancestors \in [Nat -> SUBSET Nat]
  /\ Ancestors[0] = {}
  /\ \A n \in Nat \ {0} : Ancestors[n] = {n} \cup Ancestors[n \div 2]
<1> DEFINE h == [n \in Nat |-> n \div 2]
           step == [n \in Nat |-> [t \in SUBSET Nat |-> {n} \cup t]]
<1>0. \A n \in Nat \ {0} : n \div 2 \in Nat /\ n \div 2 < n
  OBVIOUS
<1>1. \A n \in Nat \ {0} : h[n] \in Nat /\ h[n] < n
  BY <1>0
<1>2. \A n \in Nat \ {0} : \A t \in SUBSET Nat : step[n][t] \in SUBSET Nat
  OBVIOUS
<1> HIDE DEF h, step
<1>3. PICK f : Defined(f, SUBSET Nat, {}, h, step)
  <2>1. {} \in SUBSET Nat
    OBVIOUS
  <2>2. QED
    BY <1>1, <1>2, <2>1, Recursion
<1>4. \A n \in Nat \ {0} : step[n][f[h[n]]] = {n} \cup f[n \div 2]
  <2> SUFFICES ASSUME NEW n \in Nat \ {0}
               PROVE  step[n][f[h[n]]] = {n} \cup f[n \div 2]
    OBVIOUS
  <2>1. h[n] = n \div 2 /\ n \div 2 \in Nat
    BY <1>0 DEF h
  <2>2. f[n \div 2] \in SUBSET Nat
    BY <1>3, <2>1 DEF Defined
  <2>3. QED
    BY <2>1, <2>2 DEF step
<1>5. f = [n \in Nat |-> IF n = 0 THEN {} ELSE {n} \cup f[n \div 2]]
  BY <1>3, <1>4 DEF Defined
<1>6. Ancestors = [n \in Nat |-> IF n = 0 THEN {} ELSE {n} \cup Ancestors[n \div 2]]
  BY <1>5, Zenon DEF Ancestors
<1> DEFINE S == {n \in Nat : Ancestors[n] \subseteq Nat}
<1>7. \A n \in Nat : (\A m \in Nat : m < n => m \in S) => n \in S
  <2> SUFFICES ASSUME NEW n \in Nat, \A m \in Nat : m < n => m \in S
               PROVE  Ancestors[n] \subseteq Nat
    OBVIOUS
  <2>1. CASE n = 0
    BY <1>6, <2>1
  <2>2. CASE n # 0
    <3>1. n \div 2 \in Nat /\ n \div 2 < n
      BY <1>0, <2>2
    <3>2. Ancestors[n \div 2] \subseteq Nat
      BY <3>1
    <3>3. Ancestors[n] = {n} \cup Ancestors[n \div 2]
      BY <1>6, <2>2
    <3>4. QED
      BY <3>2, <3>3
  <2>3. QED
    BY <2>1, <2>2
<1>8. \A n \in Nat : Ancestors[n] \subseteq Nat
  <2>1. S \in SUBSET Nat
    OBVIOUS
  <2> HIDE DEF S
  <2>2. S = Nat
    BY <1>7, <2>1, Induction
  <2>3. QED
    BY <2>2 DEF S
<1>9. QED
  BY <1>6, <1>8

\* No power of two is zero.
LEMMA Pow2Positive == \A k \in Nat : Pow2[k] >= 1
<1> DEFINE S == {k \in Nat : Pow2[k] >= 1}
<1>1. ASSUME NEW k \in Nat, \A j \in Nat : j < k => j \in S
      PROVE  Pow2[k] >= 1
  <2>1. CASE k = 0
    BY <2>1, Pow2Facts
  <2>2. CASE k # 0
    <3>1. k - 1 \in Nat /\ k - 1 < k /\ (k - 1) + 1 = k
      BY <2>2
    <3>2. Pow2[k - 1] >= 1 /\ Pow2[k - 1] \in Nat /\ Pow2[k] = 2 * Pow2[k - 1]
      BY <1>1, <3>1, Pow2Facts
    <3>3. QED
      BY <3>2
  <2>3. QED
    BY <2>1, <2>2
<1>2. \A k \in Nat : (\A j \in Nat : j < k => j \in S) => k \in S
  BY <1>1
<1>3. S \in SUBSET Nat
  OBVIOUS
<1> HIDE DEF S
<1>4. S = Nat
  BY <1>2, <1>3, Induction
<1>5. QED
  BY <1>4 DEF S

\* There is a leaf.
LEMMA LeavesFacts == NumLeaves \in Nat /\ NumLeaves >= 1
  BY Pow2Facts, Pow2Positive, SizesAssumption DEF NumLeaves

\* What holds at 1 and passes from a node to its children holds at every node.
LEMMA TreeInduction ==
  ASSUME NEW S,
         \A n \in Nat \ {0} : (n > 1 => n \div 2 \in S) => n \in S
  PROVE  \A n \in Nat \ {0} : n \in S
<1> DEFINE G == {n \in Nat : n # 0 => n \in S}
<1>1. ASSUME NEW n \in Nat, \A m \in Nat : m < n => m \in G, n # 0
      PROVE  n \in S
  <2>1. n > 1 => n \div 2 \in Nat /\ n \div 2 < n /\ n \div 2 # 0
    OBVIOUS
  <2>2. n > 1 => n \div 2 \in S
    BY <1>1, <2>1
  <2>3. QED
    BY <1>1, <2>2
<1>2. \A n \in Nat : (\A m \in Nat : m < n => m \in G) => n \in G
  BY <1>1
<1>3. G \in SUBSET Nat
  OBVIOUS
<1> HIDE DEF G
<1>4. G = Nat
  BY <1>2, <1>3, Induction
<1>5. QED
  BY <1>4 DEF G

\* The parent of a node.
LEMMA HalfFacts ==
  ASSUME NEW n \in Nat \ {0}
  PROVE  /\ n = 1 => n \div 2 = 0
         /\ n > 1 => n \div 2 \in Nat \ {0} /\ n \div 2 < n
  OBVIOUS

\* The ancestors of a node are the node, and those of its parent.
LEMMA AncestorsOf ==
  /\ Ancestors[1] = {1}
  /\ \A n \in Nat \ {0} : n > 1 => Ancestors[n] = {n} \cup Ancestors[n \div 2]
<1>1. 1 \div 2 = 0
  OBVIOUS
<1>2. QED
  BY <1>1, AncestorsFacts

\* An ancestor of a node has a number from 1 to its own.
LEMMA AncestorsBounds ==
  \A n \in Nat \ {0} :
    /\ \A m \in Ancestors[n] : m \in Nat \ {0} /\ m <= n
    /\ n \in Ancestors[n] /\ 1 \in Ancestors[n]
<1> DEFINE S == {n \in Nat \ {0} :
                   /\ \A m \in Ancestors[n] : m \in Nat \ {0} /\ m <= n
                   /\ n \in Ancestors[n] /\ 1 \in Ancestors[n]}
<1>1. ASSUME NEW n \in Nat \ {0}, n > 1 => n \div 2 \in S
      PROVE  n \in S
  <2>1. CASE n = 1
    BY <2>1, AncestorsOf
  <2>2. CASE n > 1
    <3>1. n \div 2 \in Nat \ {0} /\ n \div 2 < n
      BY <2>2, HalfFacts
    <3>2. Ancestors[n] = {n} \cup Ancestors[n \div 2]
      BY <2>2, AncestorsOf
    <3> DEFINE h == n \div 2
    <3> HIDE DEF h
    <3>3. /\ h \in Nat \ {0} /\ h < n /\ h \in S
          /\ Ancestors[n] = {n} \cup Ancestors[h]
      BY <1>1, <2>2, <3>1, <3>2 DEF h
    <3>4. QED
      BY <3>3
  <2>3. QED
    BY <2>1, <2>2
<1>2. \A n \in Nat \ {0} : (n > 1 => n \div 2 \in S) => n \in S
  BY <1>1
<1> HIDE DEF S
<1>3. \A n \in Nat \ {0} : n \in S
  BY <1>2, TreeInduction
<1>4. QED
  BY <1>3 DEF S

\* An ancestor's ancestors are ancestors.
LEMMA AncestorsTrans ==
  ASSUME NEW b \in Nat \ {0}, NEW c \in Nat \ {0}, b \in Ancestors[c]
  PROVE  Ancestors[b] \subseteq Ancestors[c]
<1> DEFINE S == {n \in Nat \ {0} : b \in Ancestors[n] => Ancestors[b] \subseteq Ancestors[n]}
<1>1. ASSUME NEW n \in Nat \ {0}, n > 1 => n \div 2 \in S, b \in Ancestors[n]
      PROVE  Ancestors[b] \subseteq Ancestors[n]
  <2>1. CASE n = 1
    BY <1>1, <2>1, AncestorsOf
  <2>2. CASE n > 1
    <3>1. Ancestors[n] = {n} \cup Ancestors[n \div 2] /\ n \div 2 \in S
      BY <1>1, <2>2, AncestorsOf
    <3>2. QED
      BY <1>1, <3>1
  <2>3. QED
    BY <2>1, <2>2
<1>2. \A n \in Nat \ {0} : (n > 1 => n \div 2 \in S) => n \in S
  BY <1>1
<1> HIDE DEF S
<1>3. \A n \in Nat \ {0} : n \in S
  BY <1>2, TreeInduction
<1>4. QED
  BY <1>3 DEF S

\* The ancestors of a node are a chain.
LEMMA AncestorsChain ==
  ASSUME NEW n \in Nat \ {0}, NEW a \in Ancestors[n], NEW b \in Ancestors[n], a <= b
  PROVE  a \in Ancestors[b]
<1> DEFINE S == {k \in Nat \ {0} : a \in Ancestors[k] /\ b \in Ancestors[k] => a \in Ancestors[b]}
<1>1. ASSUME NEW k \in Nat \ {0}, k > 1 => k \div 2 \in S, a \in Ancestors[k], b \in Ancestors[k]
      PROVE  a \in Ancestors[b]
  <2>1. CASE b = k
    BY <1>1, <2>1
  <2>2. CASE b # k
    <3>1. a \in Nat \ {0} /\ b \in Nat \ {0} /\ b <= k
      BY <1>1, AncestorsBounds
    <3>2. a # k /\ k > 1
      BY <2>2, <3>1
    <3>3. Ancestors[k] = {k} \cup Ancestors[k \div 2] /\ k \div 2 \in S
      BY <1>1, <3>2, AncestorsOf
    <3>4. QED
      BY <1>1, <2>2, <3>2, <3>3
  <2>3. QED
    BY <2>1, <2>2
<1>2. \A k \in Nat \ {0} : (k > 1 => k \div 2 \in S) => k \in S
  BY <1>1
<1> HIDE DEF S
<1>3. \A k \in Nat \ {0} : k \in S
  BY <1>2, TreeInduction
<1>4. QED
  BY <1>3 DEF S

\* Below an ancestor there is one of its children.
LEMMA ChildOnPath ==
  ASSUME NEW n \in Nat \ {0}, NEW a \in Ancestors[n], a # n
  PROVE  \E w \in Ancestors[n] : w > 1 /\ w \div 2 = a
<1> DEFINE S == {k \in Nat \ {0} : a \in Ancestors[k] /\ a # k =>
                   \E w \in Ancestors[k] : w > 1 /\ w \div 2 = a}
<1>1. ASSUME NEW k \in Nat \ {0}, k > 1 => k \div 2 \in S, a \in Ancestors[k], a # k
      PROVE  \E w \in Ancestors[k] : w > 1 /\ w \div 2 = a
  <2>1. k > 1
    BY <1>1, AncestorsOf
  <2>2. Ancestors[k] = {k} \cup Ancestors[k \div 2] /\ k \div 2 \in S
    BY <1>1, <2>1, AncestorsOf
  <2>3. CASE a = k \div 2
    BY <2>1, <2>2, <2>3
  <2>4. CASE a # k \div 2
    BY <1>1, <2>2, <2>4
  <2>5. QED
    BY <2>3, <2>4
<1>2. \A k \in Nat \ {0} : (k > 1 => k \div 2 \in S) => k \in S
  BY <1>1
<1> HIDE DEF S
<1>3. \A k \in Nat \ {0} : k \in S
  BY <1>2, TreeInduction
<1>4. QED
  BY <1>3 DEF S

\* A path is in the tree, and goes up to its root.
LEMMA PathFacts ==
  ASSUME NEW leaf \in Leaves
  PROVE  /\ NumLeaves + leaf \in Nat \ {0} /\ Path[leaf] = Ancestors[NumLeaves + leaf]
         /\ Path[leaf] \subseteq Nodes /\ 0 \notin Path[leaf] /\ 1 \in Path[leaf]
<1>1. NumLeaves + leaf \in Nat \ {0} /\ NumLeaves + leaf <= 2 * NumLeaves - 1
  BY LeavesFacts DEF Leaves
<1>2. Path[leaf] = Ancestors[NumLeaves + leaf]
  BY DEF Path
<1>3. \A m \in Path[leaf] : m \in Nat \ {0} /\ m <= NumLeaves + leaf
  BY <1>1, <1>2, AncestorsBounds
<1>4. \A m \in Path[leaf] : m \in Nodes
  BY <1>1, <1>3, LeavesFacts DEF Nodes
<1>5. 1 \in Path[leaf]
  BY <1>1, <1>2, AncestorsBounds
<1>6. QED
  BY <1>1, <1>2, <1>3, <1>4, <1>5

\* What is above a node is in the tree.
LEMMA NodesFacts ==
  /\ \A n \in Nodes : n \in Nat \ {0} /\ Ancestors[n] \subseteq Nodes
  /\ 1 \in Nodes
<1>1. \A n \in Nodes : n \in Nat \ {0}
  BY DEF Nodes
<1>2. ASSUME NEW n \in Nodes, NEW m \in Ancestors[n]
      PROVE  m \in Nodes
  <2>1. m \in Nat \ {0} /\ m <= n
    BY <1>1, AncestorsBounds
  <2>2. QED
    BY <2>1, LeavesFacts DEF Nodes
<1>3. 1 \in Nodes
  BY LeavesFacts DEF Nodes
<1>4. QED
  BY <1>1, <1>2, <1>3

-----------------------------------------------------------------------------
(***************************************************************************)
(* The client.                                                             *)
(***************************************************************************)

\* OneCopy and OnItsPath need each other, and a position for stashed blocks.
Inv ==
  /\ TypeOK
  /\ OnItsPath
  /\ OneCopy
  /\ \A b \in stash : b.id \in DOMAIN position_map

\* What a step of the client changes.
Off(leaf) == UNION {buckets[n] : n \in Nodes \ Path[leaf]}

\* The path of the old leaf holds every block of the id.
LEMMA MeetsBlock ==
  ASSUME Inv, NEW id \in Ids, NEW leaf \in OldLeaves(id)
  PROVE  /\ leaf \in Leaves
         /\ Blocks = ReadPath(leaf) \cup Off(leaf)
         /\ \A b \in Blocks : b.id = id => b \in ReadPath(leaf)
         /\ \A n \in Nodes \ Path[leaf] : \A b \in buckets[n] : b.id # id
<1>1. leaf \in Leaves
  BY DEF Inv, TypeOK, OldLeaves
<1>2. Path[leaf] \subseteq Nodes
  BY <1>1, PathFacts
<1>3. Blocks = ReadPath(leaf) \cup Off(leaf)
  BY <1>2 DEF Blocks, ReadPath, Off
<1>4. ASSUME NEW n \in Nodes \ Path[leaf], NEW b \in buckets[n]
      PROVE  b.id # id
  BY <1>4 DEF Inv, OnItsPath, OldLeaves
<1>5. \A b \in Off(leaf) : b.id # id
  BY <1>4 DEF Off
<1>6. QED
  BY <1>1, <1>3, <1>4, <1>5

\* The block the client finds is all there is of the id.
LEMMA FindsBlock ==
  ASSUME Inv, NEW id \in Ids, NEW leaf \in OldLeaves(id),
         NEW existing \in Existing(ReadPath(leaf), id)
  PROVE  existing = {b \in Blocks : b.id = id} /\ existing \subseteq ReadPath(leaf)
<1> DEFINE found == {b \in ReadPath(leaf) : b.id = id}
<1>1. found = {b \in Blocks : b.id = id}
  BY MeetsBlock
<1>2. \A b, c \in found : b = c
  BY <1>1 DEF Inv, OneCopy
<1>3. existing = found
  <2>1. CASE found = {}
    BY <2>1 DEF Existing
  <2>2. CASE found # {}
    <3>1. PICK b \in found : existing = {b}
      BY <2>2 DEF Existing
    <3>2. QED
      BY <3>1, <1>2
  <2>3. QED
    BY <2>1, <2>2
<1>4. QED
  BY <1>1, <1>3

\* An eviction leaves every block somewhere, once.
LEMMA Evicted ==
  ASSUME NEW leaf \in Leaves, NEW blocks, NEW pos, NEW at \in Evictions(blocks, leaf, pos)
  PROVE  /\ \A n : InBucket(at, n) \subseteq blocks
         /\ \A b \in blocks : at[b] \in Path[leaf] \cup {0} /\ b \in InBucket(at, at[b])
         /\ \A m, n : m # n => InBucket(at, m) \cap InBucket(at, n) = {}
         /\ \A n \in Path[leaf] : \A b \in InBucket(at, n) : n \in Path[pos[b.id]]
<1>1. /\ DOMAIN at = blocks
      /\ \A b \in blocks : at[b] \in Path[leaf] \cup {0}
      /\ \A b \in blocks : at[b] # 0 => at[b] \in Path[pos[b.id]]
  BY DEF Evictions
<1>2. \A n : InBucket(at, n) = {b \in blocks : at[b] = n}
  BY <1>1 DEF InBucket
<1>3. 0 \notin Path[leaf]
  BY PathFacts
<1>4. QED
  BY <1>1, <1>2, <1>3

\* One access: the parts of the invariant, and what it does to the map.
LEMMA AccessStep ==
  ASSUME Inv, NEW id \in Ids, NEW new \in SUBSET Values,
         new = {} \/ \E v \in Values : new = {v},
         Access(id, new)
  PROVE  Inv' /\ Map!Access(id, new)
<1>1. PICK leaf \in OldLeaves(id), new_leaf \in Leaves : AccessOn(id, new, leaf, new_leaf)
  BY DEF Access
<1>2. PICK existing \in Existing(ReadPath(leaf), id) :
        LET blocks == Update(ReadPath(leaf), existing, id, new)
        IN /\ position_map' = Remap(id, new_leaf)
           /\ \E at \in Evictions(blocks, leaf, position_map') :
                stash' = InBucket(at, 0) /\ buckets' = WriteBack(leaf, at)
           /\ reply' = <<id, {b.value : b \in existing}>>
  BY <1>1 DEF AccessOn, AccessFrom
<1> DEFINE read == ReadPath(leaf)
           blocks == Update(read, existing, id, new)
<1>3. PICK at \in Evictions(blocks, leaf, position_map') :
        stash' = InBucket(at, 0) /\ buckets' = WriteBack(leaf, at)
  BY <1>2
<1>4. /\ leaf \in Leaves
      /\ Blocks = read \cup Off(leaf)
      /\ \A n \in Nodes \ Path[leaf] : \A b \in buckets[n] : b.id # id
      /\ existing = {b \in Blocks : b.id = id}
      /\ existing \subseteq read
  BY <1>1, <1>2, MeetsBlock, FindsBlock
<1>5. Path[leaf] \subseteq Nodes /\ 0 \notin Path[leaf]
  BY <1>4, PathFacts
<1>6. \A n \in Nodes : buckets'[n] = IF n \in Path[leaf] THEN InBucket(at, n) ELSE buckets[n]
  BY <1>3 DEF WriteBack
\* The blocks the client holds between reading and evicting.
<1>7. /\ new = {} => blocks = read
      /\ \A v : new = {v} =>
           blocks = (read \ existing) \cup {[id |-> id, value |-> v]}
  BY DEF Update
<1>8. \A b \in blocks : b \in read \/ (b.id = id /\ \E v \in new : b = [id |-> id, value |-> v])
  BY <1>7
<1>9. \A b \in blocks : b.id = id => \A c \in blocks : c.id = id => b = c
  <2>1. CASE new = {}
    BY <2>1, <1>4, <1>7 DEF Inv, OneCopy
  <2>2. CASE \E v \in Values : new = {v}
    BY <2>2, <1>4, <1>7
  <2>3. QED
    BY <2>1, <2>2
<1>10. read \subseteq Block /\ Blocks \subseteq Block /\ Off(leaf) \subseteq Block
  BY <1>5 DEF Inv, TypeOK, Blocks, ReadPath, Off
<1>11. blocks \subseteq Block
  BY <1>8, <1>10 DEF Block
<1>12. Blocks' = blocks \cup Off(leaf)
  <2>1. Blocks' \subseteq blocks \cup Off(leaf)
    <3>1. SUFFICES ASSUME NEW b \in Blocks' PROVE b \in blocks \cup Off(leaf)
      OBVIOUS
    <3>2. CASE b \in stash'
      BY <1>3, <1>4, <3>2, Evicted
    <3>3. ASSUME NEW n \in Nodes, b \in buckets'[n]
          PROVE  b \in blocks \cup Off(leaf)
      <4>1. CASE n \in Path[leaf]
        BY <1>3, <1>4, <1>6, <3>3, <4>1, Evicted
      <4>2. CASE n \notin Path[leaf]
        BY <1>6, <3>3, <4>2 DEF Off
      <4>3. QED
        BY <4>1, <4>2
    <3>4. QED
      BY <3>1, <3>2, <3>3 DEF Blocks
  <2>2. blocks \subseteq Blocks'
    <3>1. SUFFICES ASSUME NEW b \in blocks PROVE b \in Blocks'
      OBVIOUS
    <3>2. at[b] \in Path[leaf] \cup {0} /\ b \in InBucket(at, at[b])
      BY <1>3, <1>4, Evicted
    <3>3. CASE at[b] = 0
      BY <1>3, <3>2, <3>3 DEF Blocks
    <3>4. CASE at[b] \in Path[leaf]
      BY <1>5, <1>6, <3>2, <3>4 DEF Blocks
    <3>5. QED
      BY <3>2, <3>3, <3>4
  <2>3. Off(leaf) \subseteq Blocks'
    BY <1>6 DEF Off, Blocks
  <2>4. QED
    BY <2>1, <2>2, <2>3
<1>13. \A b \in Off(leaf) : b.id # id
  BY <1>4 DEF Off
<1>14. /\ DOMAIN position_map' = DOMAIN position_map \cup {id}
       /\ position_map'[id] = new_leaf
       /\ \A i \in DOMAIN position_map : i # id => position_map'[i] = position_map[i]
  BY <1>2 DEF Remap
<1>15. \A b \in Blocks : b.id \in DOMAIN position_map
  BY DEF Inv, OnItsPath, Blocks
<1> HIDE DEF read, blocks
<1>16. TypeOK'
  <2>1. /\ DOMAIN position_map' \subseteq Ids
        /\ \A i \in DOMAIN position_map' : position_map'[i] \in Leaves
    BY <1>14 DEF Inv, TypeOK
  <2>2. stash' \subseteq Block
    BY <1>3, <1>4, <1>11, Evicted
  <2>3. \A n \in Nodes : buckets'[n] \subseteq Block
    BY <1>3, <1>4, <1>6, <1>11, Evicted DEF Inv, TypeOK
  <2>4. buckets' \in [Nodes -> SUBSET Block]
    BY <1>3, <2>3 DEF WriteBack
  <2>5. reply' \in Ids \X SUBSET Values
    BY <1>2, <1>4, <1>10 DEF Block
  <2>6. QED
    BY <2>1, <2>2, <2>4, <2>5 DEF TypeOK
<1>17. OnItsPath'
  <2>1. SUFFICES ASSUME NEW n \in Nodes, NEW b \in buckets'[n]
                 PROVE  b.id \in DOMAIN position_map' /\ n \in Path[position_map'[b.id]]
    BY DEF OnItsPath
  <2>2. CASE n \in Path[leaf]
    <3>1. b \in InBucket(at, n) /\ b \in blocks
      BY <1>3, <1>4, <1>6, <2>2, Evicted
    <3>2. n \in Path[position_map'[b.id]]
      BY <1>3, <1>4, <2>2, <3>1, Evicted
    <3>3. b.id \in DOMAIN position_map'
      BY <3>1, <1>4, <1>8, <1>14, <1>15
    <3>4. QED
      BY <3>2, <3>3
  <2>3. CASE n \notin Path[leaf]
    BY <1>4, <1>6, <1>14, <2>3 DEF Inv, OnItsPath
  <2>4. QED
    BY <2>2, <2>3
<1>18. OneCopy'
  <2>1. ASSUME NEW b \in Blocks', NEW c \in Blocks', b.id = c.id
        PROVE  b = c
    <3>1. CASE b.id = id
      BY <1>9, <1>12, <1>13, <2>1, <3>1
    <3>2. CASE b.id # id
      <4>1. b \in Blocks /\ c \in Blocks
        BY <1>4, <1>8, <1>12, <2>1, <3>2
      <4>2. QED
        BY <2>1, <4>1 DEF Inv, OneCopy
    <3>3. QED
      BY <3>1, <3>2
  \* A bucket off the path shares no block with what the client held.
  <2>2. ASSUME NEW n \in Nodes \ Path[leaf]
        PROVE  blocks \cap buckets[n] = {}
    <3>1. stash \cap buckets[n] = {} /\ \A m \in Path[leaf] : buckets[m] \cap buckets[n] = {}
      BY <1>5 DEF Inv, OneCopy
    <3>2. read \cap buckets[n] = {}
      BY <3>1 DEF read, ReadPath
    <3>3. QED
      BY <1>4, <1>8, <3>2
  <2>3. ASSUME NEW n \in Nodes
        PROVE  stash' \cap buckets'[n] = {}
    <3>1. CASE n \in Path[leaf]
      BY <1>3, <1>4, <1>5, <1>6, <3>1, Evicted
    <3>2. CASE n \notin Path[leaf]
      BY <1>3, <1>4, <1>6, <2>2, <3>2, Evicted
    <3>3. QED
      BY <3>1, <3>2
  <2>4. ASSUME NEW m \in Nodes, NEW n \in Nodes, m # n
        PROVE  buckets'[m] \cap buckets'[n] = {}
    <3>1. CASE m \in Path[leaf] /\ n \in Path[leaf]
      BY <1>3, <1>4, <1>6, <2>4, <3>1, Evicted
    <3>2. CASE m \in Path[leaf] /\ n \notin Path[leaf]
      BY <1>3, <1>4, <1>6, <2>2, <3>2, Evicted
    <3>3. CASE m \notin Path[leaf] /\ n \in Path[leaf]
      BY <1>3, <1>4, <1>6, <2>2, <3>3, Evicted
    <3>4. CASE m \notin Path[leaf] /\ n \notin Path[leaf]
      BY <1>6, <2>4, <3>4 DEF Inv, OneCopy
    <3>5. QED
      BY <3>1, <3>2, <3>3, <3>4
  <2>5. QED
    BY <2>1, <2>3, <2>4 DEF OneCopy
<1>19. \A b \in stash' : b.id \in DOMAIN position_map'
  BY <1>3, <1>4, <1>8, <1>14, <1>15, Evicted
<1>20. Map!Access(id, new)
  <2> DEFINE value(i) == {b.value : b \in {c \in Blocks : c.id = i}}
  <2>1. reply' = <<id, value(id)>>
    BY <1>2, <1>4
  <2>2. \A i \in Ids : i # id => value(i)' = value(i)
    <3>1. ASSUME NEW i \in Ids, i # id
          PROVE  {c \in Blocks' : c.id = i} = {c \in Blocks : c.id = i}
      <4>1. \A c \in blocks : c.id = i => c \in read
        BY <1>8, <3>1
      <4>2. \A c \in read : c.id = i => c \in blocks
        BY <1>4, <1>7, <3>1
      <4>3. QED
        BY <1>4, <1>12, <4>1, <4>2
    <3>2. QED
      BY <3>1
  <2>3. CASE new = {}
    <3>1. Blocks' = Blocks
      BY <1>4, <1>7, <1>12, <2>3
    <3>2. QED
      BY <2>1, <2>3, <3>1 DEF Map!Access
  <2>4. CASE \E v \in Values : new = {v}
    <3>1. PICK v \in Values : new = {v}
      BY <2>4
    <3>2. blocks = (read \ existing) \cup {[id |-> id, value |-> v]}
      BY <1>7, <3>1
    <3>3. {c \in Blocks' : c.id = id} = {[id |-> id, value |-> v]}
      BY <1>4, <1>12, <1>13, <3>2
    <3>4. value(id)' = new
      <4>1. {b.value : b \in {[id |-> id, value |-> v]}} = {v}
        OBVIOUS
      <4>2. value(id)' = {b.value : b \in {[id |-> id, value |-> v]}}
        BY <3>3
      <4>3. QED
        BY <3>1, <4>1, <4>2
    <3>5. [i \in Ids |-> value(i)'] = [[i \in Ids |-> value(i)] EXCEPT ![id] = new]
      BY <2>2, <3>4
    <3>6. QED
      BY <2>1, <3>1, <3>5 DEF Map!Access
  <2>5. QED
    BY <2>3, <2>4
<1>21. QED
  BY <1>16, <1>17, <1>18, <1>19, <1>20 DEF Inv

LEMMA InvInit == Init => Inv /\ Map!Init
<1>1. SUFFICES ASSUME Init PROVE Inv /\ Map!Init
  OBVIOUS
<1>2. Blocks = {}
  BY <1>1 DEF Init, Blocks
<1>3. TypeOK
  BY <1>1 DEF Init, TypeOK
<1>4. OnItsPath
  BY <1>1 DEF Init, OnItsPath
<1>5. OneCopy
  BY <1>1, <1>2 DEF Init, OneCopy
<1>6. Map!Init
  BY <1>1, <1>2 DEF Init, Map!Init
<1>7. QED
  BY <1>1, <1>3, <1>4, <1>5, <1>6 DEF Init, Inv


LEMMA InvNext == Inv /\ [Next]_vars => Inv' /\ [Map!Next]_(Map!vars)
<1>1. SUFFICES ASSUME Inv, [Next]_vars PROVE Inv' /\ [Map!Next]_(Map!vars)
  OBVIOUS
<1>2. CASE UNCHANGED vars
  <2>1. Blocks' = Blocks /\ reply' = reply
    BY <1>2 DEF vars, Blocks
  <2>2. Inv'
    BY <1>1, <1>2 DEF Inv, TypeOK, OnItsPath, OneCopy, Blocks, vars
  <2>3. UNCHANGED Map!vars
    BY <2>1 DEF Map!vars
  <2>4. QED
    BY <2>2, <2>3
<1>3. ASSUME NEW id \in Ids, Read(id)
      PROVE  Inv' /\ Map!Next
  <2>1. Inv' /\ Map!Access(id, {})
    BY <1>1, <1>3, AccessStep DEF Read
  <2>2. QED
    BY <2>1 DEF Map!Next
<1>4. ASSUME NEW id \in Ids, NEW v \in Values, Write(id, v)
      PROVE  Inv' /\ Map!Next
  <2>1. Inv' /\ Map!Access(id, {v})
    BY <1>1, <1>4, AccessStep DEF Write
  <2>2. QED
    BY <2>1 DEF Map!Next
<1>5. QED
  BY <1>1, <1>2, <1>3, <1>4 DEF Next

(***************************************************************************)
(* Every block in a bucket is on the path of its current leaf: the next    *)
(* access to it reads it (access remaps a block only while it is in the    *)
(* stash, and evict_path respects is_ancestor_of_leaf).                    *)
(***************************************************************************)
THEOREM BlocksOnTheirPaths == Spec => []OnItsPath
<1>1. Inv => OnItsPath
  BY DEF Inv
<1>2. QED
  BY <1>1, InvInit, InvNext, PTL DEF Spec

(***************************************************************************)
(* A block never has two copies, wherever reads, writes and evictions put  *)
(* it.                                                                     *)
(***************************************************************************)
THEOREM NoSecondCopy == Spec => []OneCopy
<1>1. Inv => OneCopy
  BY DEF Inv
<1>2. QED
  BY <1>1, InvInit, InvNext, PTL DEF Spec

(***************************************************************************)
(* The client implements a map: read and write answer what the last write  *)
(* of that id left, and no access disturbs another id.                     *)
(***************************************************************************)
THEOREM ClientIsMap == Spec => IsMap
<1>1. QED
  BY InvInit, InvNext, PTL DEF Spec, IsMap, Map!Spec

\* No bucket outgrows Z: those on the path are bounded by evict_path's loop, the
\* others stay.
Fits == \A n \in Nodes : Cardinality(buckets[n]) <= Z

LEMMA FitsInit == Init => Fits
<1>1. SUFFICES ASSUME Init PROVE Fits
  OBVIOUS
<1>2. \A n \in Nodes : buckets[n] = {}
  BY <1>1 DEF Init
<1>3. Cardinality({}) = 0
  BY FS_EmptySet
<1>4. QED
  BY <1>2, <1>3, SizesAssumption DEF Fits

LEMMA FitsNext == Inv /\ Fits /\ [Next]_vars => Fits'
<1>1. SUFFICES ASSUME Inv, Fits, [Next]_vars PROVE Fits'
  OBVIOUS
<1>2. CASE UNCHANGED vars
  BY <1>1, <1>2 DEF vars, Fits
<1>3. ASSUME NEW id \in Ids, NEW new, Access(id, new)
      PROVE  Fits'
  <2>1. PICK leaf \in OldLeaves(id), new_leaf \in Leaves : AccessOn(id, new, leaf, new_leaf)
    BY <1>3 DEF Access
  <2>2. \E blocks : \E at \in Evictions(blocks, leaf, position_map') :
          buckets' = WriteBack(leaf, at)
    BY <2>1 DEF AccessOn, AccessFrom
  <2>3. PICK blocks : \E at \in Evictions(blocks, leaf, position_map') :
           buckets' = WriteBack(leaf, at)
    BY <2>2
  <2>4. PICK at \in Evictions(blocks, leaf, position_map') : buckets' = WriteBack(leaf, at)
    BY <2>3
  <2>5. \A n \in Path[leaf] : Cardinality(InBucket(at, n)) <= Z
    BY <2>4 DEF Evictions
  <2>6. \A n \in Nodes :
          buckets'[n] = IF n \in Path[leaf] THEN InBucket(at, n) ELSE buckets[n]
    BY <2>4 DEF WriteBack
  <2>7. QED
    BY <1>1, <2>5, <2>6 DEF Fits
<1>4. QED
  BY <1>1, <1>2, <1>3 DEF Next, Read, Write

(***************************************************************************)
(* Neither panic of the client happens: evict_path finds a position for    *)
(* every stashed block, and writes no bucket beyond its capacity.          *)
(***************************************************************************)
THEOREM ClientNeverPanics == Spec => []NeverPanics
<1>1. Init => Fits
  BY FitsInit
<1>2. Inv /\ Fits => NeverPanics
  BY DEF Inv, Fits, NeverPanics
<1>3. QED
  BY <1>1, <1>2, InvInit, InvNext, FitsNext, PTL DEF Spec

(***************************************************************************)
(* Every variable of the client and its server keeps its type.             *)
(***************************************************************************)
THEOREM OramTypeCorrect == Spec => []TypeOK
<1>1. Inv => TypeOK
  BY DEF Inv
<1>2. QED
  BY <1>1, InvInit, InvNext, PTL DEF Spec
=============================================================================
