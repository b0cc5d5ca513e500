----------------------------- MODULE GroupProofs -----------------------------
(***************************************************************************)
(* Proofs about Group: for every capacity and any members, members of one  *)
(* epoch agree, a member holds the secrets of its path and can follow the  *)
(* next commit, a removed member learns nothing more, and every record is  *)
(* read in its turn.  All rest on one history: the tree of each epoch.     *)
(***************************************************************************)
EXTENDS Group, NumberLemmas, FiniteSetTheorems, SequenceTheorems, TLAPS

-----------------------------------------------------------------------------
(***************************************************************************)
(* The tree: the nodes above a node are a chain from its parent to 0.      *)
(***************************************************************************)
LEMMA ParentFacts ==
  \A n \in Nat \ {0} :
    /\ Parent(n) \in Nat /\ Parent(n) < n
    /\ n = 2 * Parent(n) + 1 \/ n = 2 * Parent(n) + 2
  BY DEF Parent

\* Above is what its definition says.
LEMMA AboveFacts ==
  /\ Above \in [Nat -> SUBSET Nat]
  /\ Above[0] = {}
  /\ \A n \in Nat \ {0} : Above[n] = {Parent(n)} \cup Above[Parent(n)]
<1> DEFINE h == [n \in Nat |-> Parent(n)]
           step == [n \in Nat |-> [t \in SUBSET Nat |-> {Parent(n)} \cup t]]
<1>1. \A n \in Nat \ {0} : h[n] \in Nat /\ h[n] < n
  BY ParentFacts
<1>2. \A n \in Nat \ {0} : \A t \in SUBSET Nat : step[n][t] \in SUBSET Nat
  BY ParentFacts
<1> HIDE DEF h, step
<1>3. PICK f : Defined(f, SUBSET Nat, {}, h, step)
  <2>1. {} \in SUBSET Nat
    OBVIOUS
  <2>2. QED
    BY <1>1, <1>2, <2>1, Recursion
<1>4. \A n \in Nat \ {0} : step[n][f[h[n]]] = {Parent(n)} \cup f[Parent(n)]
  <2> SUFFICES ASSUME NEW n \in Nat \ {0}
               PROVE  step[n][f[h[n]]] = {Parent(n)} \cup f[Parent(n)]
    OBVIOUS
  <2>1. h[n] = Parent(n) /\ Parent(n) \in Nat
    BY ParentFacts DEF h
  <2>2. f[Parent(n)] \in SUBSET Nat
    BY <1>3, <2>1 DEF Defined
  <2>3. QED
    BY <2>1, <2>2 DEF step
<1>5. f = [n \in Nat |-> IF n = 0 THEN {} ELSE {Parent(n)} \cup f[Parent(n)]]
  BY <1>3, <1>4 DEF Defined
<1>6. Above = [n \in Nat |-> IF n = 0 THEN {} ELSE {Parent(n)} \cup Above[Parent(n)]]
  BY <1>5, Zenon DEF Above
<1> DEFINE S == {n \in Nat : Above[n] \subseteq Nat}
<1>7. \A n \in Nat : (\A m \in Nat : m < n => m \in S) => n \in S
  <2> SUFFICES ASSUME NEW n \in Nat, \A m \in Nat : m < n => m \in S
               PROVE  Above[n] \subseteq Nat
    OBVIOUS
  <2>1. CASE n = 0
    BY <1>6, <2>1
  <2>2. CASE n # 0
    <3>1. Parent(n) \in Nat /\ Parent(n) < n
      BY <2>2, ParentFacts
    <3>2. Above[Parent(n)] \subseteq Nat
      BY <3>1
    <3>3. Above[n] = {Parent(n)} \cup Above[Parent(n)]
      BY <1>6, <2>2
    <3>4. QED
      BY <3>1, <3>2, <3>3
  <2>3. QED
    BY <2>1, <2>2
<1>8. \A n \in Nat : Above[n] \subseteq Nat
  <2>1. S \in SUBSET Nat
    OBVIOUS
  <2> HIDE DEF S
  <2>2. S = Nat
    BY <1>7, <2>1, Induction
  <2>3. QED
    BY <2>2 DEF S
<1>9. QED
  BY <1>6, <1>8

\* What holds at the root and passes from a node to its children holds at every
\* node.
LEMMA DownTheTree ==
  ASSUME NEW S, 0 \in S, \A n \in Nat \ {0} : Parent(n) \in S => n \in S
  PROVE  \A n \in Nat : n \in S
<1> DEFINE G == {n \in Nat : n \in S}
<1>1. ASSUME NEW n \in Nat, \A m \in Nat : m < n => m \in G
      PROVE  n \in S
  <2>1. n # 0 => Parent(n) \in S
    BY <1>1, ParentFacts
  <2>2. QED
    BY <2>1
<1>2. \A n \in Nat : (\A m \in Nat : m < n => m \in G) => n \in G
  BY <1>1
<1>3. G \in SUBSET Nat
  OBVIOUS
<1> HIDE DEF G
<1>4. G = Nat
  BY <1>2, <1>3, Induction
<1>5. QED
  BY <1>4 DEF G

\* What is above a node has a smaller number, and the root is above all others.
LEMMA AboveBounds ==
  \A n \in Nat : (\A m \in Above[n] : m \in Nat /\ m < n) /\ (n # 0 => 0 \in Above[n])
<1> DEFINE S == {n \in Nat : (\A m \in Above[n] : m \in Nat /\ m < n)
                             /\ (n # 0 => 0 \in Above[n])}
<1>1. 0 \in S
  BY AboveFacts
<1>2. ASSUME NEW n \in Nat \ {0}, Parent(n) \in S
      PROVE  n \in S
  <2>1. Parent(n) \in Nat /\ Parent(n) < n /\ Above[n] = {Parent(n)} \cup Above[Parent(n)]
    BY ParentFacts, AboveFacts
  <2>2. \A m \in Above[n] : m \in Nat /\ m < n
    BY <1>2, <2>1
  <2>3. 0 \in Above[n]
    BY <1>2, <2>1
  <2>4. QED
    BY <2>2, <2>3
<1> HIDE DEF S
<1>3. \A n \in Nat : n \in S
  BY <1>1, <1>2, DownTheTree
<1>4. QED
  BY <1>3 DEF S

\* What is above something above a node is above the node.
LEMMA AboveTrans ==
  \A n \in Nat : \A m \in Above[n] : Above[m] \subseteq Above[n]
<1> DEFINE S == {n \in Nat : \A m \in Above[n] : Above[m] \subseteq Above[n]}
<1>1. 0 \in S
  BY AboveFacts
<1>2. ASSUME NEW n \in Nat \ {0}, Parent(n) \in S
      PROVE  n \in S
  <2>1. Above[n] = {Parent(n)} \cup Above[Parent(n)]
    BY AboveFacts
  <2>2. QED
    BY <1>2, <2>1
<1> HIDE DEF S
<1>3. \A n \in Nat : n \in S
  BY <1>1, <1>2, DownTheTree
<1>4. QED
  BY <1>3 DEF S

\* Of two nodes above a third, the one with the smaller number is above the other.
LEMMA AboveChain ==
  \A n \in Nat : \A k, m \in Above[n] : k < m => k \in Above[m]
<1> DEFINE S == {n \in Nat : \A k, m \in Above[n] : k < m => k \in Above[m]}
<1>1. 0 \in S
  BY AboveFacts
<1>2. ASSUME NEW n \in Nat \ {0}, Parent(n) \in S
      PROVE  n \in S
  <2> SUFFICES ASSUME NEW k \in Above[n], NEW m \in Above[n], k < m
               PROVE  k \in Above[m]
    OBVIOUS
  <2>1. Parent(n) \in Nat /\ Above[n] = {Parent(n)} \cup Above[Parent(n)]
    BY ParentFacts, AboveFacts
  <2>2. \A j \in Above[Parent(n)] : j \in Nat /\ j < Parent(n)
    BY <2>1, AboveBounds
  <2>3. k # Parent(n)
    BY <2>1, <2>2
  <2>4. QED
    BY <1>2, <2>1, <2>3
<1> HIDE DEF S
<1>3. \A n \in Nat : n \in S
  BY <1>1, <1>2, DownTheTree
<1>4. QED
  BY <1>3 DEF S

\* Below an inner node on the way to a node lies one of its two children.
LEMMA ChildOnWay ==
  \A n \in Nat : \A d \in Above[n] :
    \E c \in {2 * d + 1, 2 * d + 2} : c = n \/ c \in Above[n]
<1> DEFINE S == {n \in Nat : \A d \in Above[n] :
                   \E c \in {2 * d + 1, 2 * d + 2} : c = n \/ c \in Above[n]}
<1>1. 0 \in S
  BY AboveFacts
<1>2. ASSUME NEW n \in Nat \ {0}, Parent(n) \in S
      PROVE  n \in S
  <2> SUFFICES ASSUME NEW d \in Above[n]
               PROVE  \E c \in {2 * d + 1, 2 * d + 2} : c = n \/ c \in Above[n]
    OBVIOUS
  <2>1. Above[n] = {Parent(n)} \cup Above[Parent(n)]
    BY AboveFacts
  <2>2. CASE d = Parent(n)
    BY <2>2, ParentFacts
  <2>3. CASE d \in Above[Parent(n)]
    <3>1. PICK c \in {2 * d + 1, 2 * d + 2} : c = Parent(n) \/ c \in Above[Parent(n)]
      BY <1>2, <2>3
    <3>2. QED
      BY <2>1, <3>1
  <2>4. QED
    BY <2>1, <2>2, <2>3
<1> HIDE DEF S
<1>3. \A n \in Nat : n \in S
  BY <1>1, <1>2, DownTheTree
<1>4. QED
  BY <1>3 DEF S
\* Nodes are naturals; leaves are different nodes, and none is above another node.
LEMMA NodesFacts ==
  /\ Capacity \in Nat /\ Capacity >= 2
  /\ Nodes \subseteq Nat /\ 0 \in Nodes /\ 0 \in Leaves
  /\ \A n \in Nodes : \A m \in Above[n] : m \in Nodes /\ m <= Capacity - 2
<1>1. Capacity \in Nat /\ Capacity >= 2
  BY GroupAssumption
<1>2. ASSUME NEW n \in Nodes, NEW m \in Above[n]
      PROVE  m \in Nodes /\ m <= Capacity - 2
  <2>1. n \in Nat /\ n <= 2 * Capacity - 2
    BY <1>1 DEF Nodes
  <2>2. m \in Nat /\ m < n
    BY <2>1, AboveBounds
  <2>3. PICK c \in {2 * m + 1, 2 * m + 2} : c = n \/ c \in Above[n]
    BY <2>1, ChildOnWay
  <2>4. c <= n
    BY <2>1, <2>3, AboveBounds
  <2>5. QED
    BY <1>1, <2>1, <2>2, <2>3, <2>4 DEF Nodes
<1>3. QED
  BY <1>1, <1>2 DEF Nodes, Leaves

LEMMA LeavesFacts ==
  /\ \A l \in Leaves :
       /\ l \in Nat /\ LeafNode(l) \in Nodes /\ LeafNode(l) \in Nat /\ LeafNode(l) # 0
       /\ DirectPath[l] = Above[LeafNode(l)]
       /\ 0 \in DirectPath[l]
       /\ \A n \in DirectPath[l] : n \in Nodes /\ n \in Nat /\ n <= Capacity - 2
       /\ \A n \in Nodes : LeafNode(l) \notin Above[n]
  /\ \A l, m \in Leaves : LeafNode(l) = LeafNode(m) => l = m
<1>1. ASSUME NEW l \in Leaves
      PROVE  l \in Nat /\ LeafNode(l) \in Nodes /\ LeafNode(l) \in Nat
             /\ LeafNode(l) > Capacity - 2 /\ LeafNode(l) # 0
  BY NodesFacts DEF Leaves, LeafNode, Nodes
<1>2. ASSUME NEW l \in Leaves
      PROVE  /\ DirectPath[l] = Above[LeafNode(l)]
             /\ 0 \in DirectPath[l]
             /\ \A n \in DirectPath[l] : n \in Nodes /\ n \in Nat /\ n <= Capacity - 2
  BY <1>1, NodesFacts, AboveBounds DEF DirectPath
<1>3. ASSUME NEW l \in Leaves, NEW n \in Nodes, LeafNode(l) \in Above[n]
      PROVE  FALSE
  <2>1. LeafNode(l) <= Capacity - 2
    BY <1>3, NodesFacts
  <2>2. QED
    BY <1>1, <2>1, NodesFacts
<1>4. ASSUME NEW l \in Leaves, NEW m \in Leaves, LeafNode(l) = LeafNode(m)
      PROVE  l = m
  BY <1>1, <1>4, NodesFacts DEF LeafNode
<1>5. QED
  BY <1>1, <1>2, <1>3, <1>4

\* Of an inner node's children, only one is on the way to a leaf; the other one is
\* the top of the subtree next to the path.
LEMMA CoPathFacts ==
  ASSUME NEW l \in Leaves, NEW d \in DirectPath[l]
  PROVE  /\ CoPath(l, d) \in {2 * d + 1, 2 * d + 2} /\ CoPath(l, d) \in Nodes
         /\ LeafNode(l) \notin Under[CoPath(l, d)]
         /\ Above[CoPath(l, d)] = {d} \cup Above[d]
<1>1. d \in Nat /\ d <= Capacity - 2 /\ d \in Nodes
  BY LeavesFacts
<1>2. ASSUME NEW c \in {2 * d + 1, 2 * d + 2}
      PROVE  c \in Nodes /\ c \in Nat \ {0} /\ Above[c] = {d} \cup Above[d] /\ c > d
  <2>1. c \in Nodes /\ c \in Nat \ {0} /\ c > d
    BY <1>1, NodesFacts DEF Nodes
  <2>2. Parent(c) = d
    BY <1>1 DEF Parent
  <2>3. QED
    BY <2>1, <2>2, AboveFacts
<1>3. ~(LeafNode(l) \in Under[2 * d + 1] /\ LeafNode(l) \in Under[2 * d + 2])
  <2> SUFFICES ASSUME LeafNode(l) \in Under[2 * d + 1], LeafNode(l) \in Under[2 * d + 2]
               PROVE  FALSE
    OBVIOUS
  <2> DEFINE a == 2 * d + 1
             b == 2 * d + 2
  <2>1. a \in Nodes /\ a \in Nat /\ b \in Nodes /\ b \in Nat /\ a < b /\ a > d
    BY <1>1, <1>2
  <2>2. LeafNode(l) = a \/ a \in Above[LeafNode(l)]
    BY <2>1 DEF Under
  <2>3. LeafNode(l) = b \/ b \in Above[LeafNode(l)]
    BY <2>1 DEF Under
  <2>4. Above[b] = {d} \cup Above[d] /\ \A k \in Above[d] : k < d
    BY <1>1, <1>2, AboveBounds
  <2> HIDE DEF a, b
  <2>5. a \notin Above[b]
    BY <1>1, <2>1, <2>4
  <2>6. \A k \in Above[LeafNode(l)] : k \in Nat /\ k < LeafNode(l)
    BY LeavesFacts, AboveBounds
  <2>7. CASE LeafNode(l) = b
    BY <2>1, <2>2, <2>5, <2>7
  <2>8. CASE b \in Above[LeafNode(l)]
    <3>1. a \in Above[LeafNode(l)]
      BY <2>1, <2>2, <2>6, <2>8
    <3>2. QED
      BY <2>1, <2>5, <2>8, <3>1, LeavesFacts, AboveChain
  <2>9. QED
    BY <2>3, <2>7, <2>8
<1>4. CoPath(l, d) \in {2 * d + 1, 2 * d + 2} /\ LeafNode(l) \notin Under[CoPath(l, d)]
  BY <1>3 DEF CoPath
<1>5. QED
  BY <1>2, <1>4

\* Where a leaf below the node next to the path joins the path, the two paths
\* become one.
LEMMA PathsMeet ==
  ASSUME NEW l \in Leaves, NEW d \in DirectPath[l],
         NEW m \in Leaves, LeafNode(m) \in Under[CoPath(l, d)]
  PROVE  /\ d \in DirectPath[m]
         /\ \A e \in DirectPath[l] : e <= d <=> e \in DirectPath[m]
         /\ \A e \in DirectPath[m] : e <= d \/ e \in Under[CoPath(l, d)]
<1> DEFINE k == CoPath(l, d)
<1>1. /\ k \in Nodes /\ k \in Nat /\ d \in Nat /\ d < k
      /\ LeafNode(l) \notin Under[k] /\ Above[k] = {d} \cup Above[d]
  BY CoPathFacts, LeavesFacts, NodesFacts
<1>2. LeafNode(m) = k \/ k \in Above[LeafNode(m)]
  BY <1>1 DEF Under
<1> HIDE DEF k
<1>3. Above[k] \subseteq Above[LeafNode(m)]
  BY <1>2, LeavesFacts, AboveTrans
<1>4. d \in DirectPath[m] /\ Above[d] \subseteq DirectPath[m]
  BY <1>1, <1>3, LeavesFacts
<1>5. \A e \in Above[d] : e < d
  BY <1>1, AboveBounds
<1>6. ASSUME NEW e \in DirectPath[m]
      PROVE  e <= d \/ e \in Under[k]
  <2>1. e \in Above[LeafNode(m)] /\ e \in Nat /\ e \in Nodes
    BY LeavesFacts
  <2>2. CASE LeafNode(m) = k
    BY <1>1, <1>5, <2>1, <2>2
  <2>3. CASE k \in Above[LeafNode(m)]
    <3>1. e < k => e \in Above[k]
      BY <2>1, <2>3, LeavesFacts, AboveChain
    <3>2. k < e => k \in Above[e]
      BY <2>1, <2>3, LeavesFacts, AboveChain
    <3>3. CASE e < k
      BY <1>1, <1>5, <2>1, <3>1, <3>3
    <3>4. CASE k < e
      BY <1>1, <2>1, <3>2, <3>4 DEF Under
    <3>5. CASE e = k
      BY <1>1, <2>1, <3>5 DEF Under
    <3>6. QED
      BY <1>1, <2>1, <3>3, <3>4, <3>5
  <2>4. QED
    BY <1>2, <2>2, <2>3
<1>7. ASSUME NEW e \in DirectPath[l]
      PROVE  e <= d <=> e \in DirectPath[m]
  <2>1. e \in Above[LeafNode(l)] /\ d \in Above[LeafNode(l)] /\ e \in Nat /\ e \in Nodes
    BY LeavesFacts
  <2>2. ASSUME e <= d PROVE e \in DirectPath[m]
    <3>1. e < d => e \in Above[d]
      BY <2>1, LeavesFacts, AboveChain
    <3>2. QED
      BY <1>1, <1>4, <2>1, <2>2, <3>1
  <2>3. ASSUME e \in DirectPath[m], ~(e <= d) PROVE FALSE
    <3>1. e \in Under[k]
      BY <1>6, <2>3
    <3>2. e = k \/ k \in Above[e]
      BY <1>1, <3>1 DEF Under
    <3>3. k \in Above[LeafNode(l)]
      BY <2>1, <3>2, LeavesFacts, AboveTrans
    <3>4. QED
      BY <1>1, <3>3, LeavesFacts DEF Under
  <2>4. QED
    BY <2>2, <2>3
<1>8. QED
  BY <1>4, <1>6, <1>7 DEF k

\* Every other leaf is below the node next to the path somewhere.
LEMMA PathsDoMeet ==
  ASSUME NEW l \in Leaves, NEW m \in Leaves, l # m
  PROVE  \E d \in DirectPath[l] : LeafNode(m) \in Under[CoPath(l, d)]
<1> DEFINE S == {i \in Nat : \E e \in DirectPath[l] \cap DirectPath[m] : i = Capacity - e}
<1>1. S # {} /\ S \in SUBSET Nat
  <2>1. 0 \in DirectPath[l] \cap DirectPath[m] /\ Capacity - 0 \in Nat
    BY LeavesFacts, NodesFacts
  <2>2. QED
    BY <2>1
<1>2. PICK i \in S : \A j \in S : i <= j
  <2> HIDE DEF S
  <2>1. QED
    BY <1>1, LeastElement
<1>3. PICK d \in DirectPath[l] \cap DirectPath[m] : i = Capacity - d
  BY <1>2
<1>4. ASSUME NEW e \in DirectPath[l] \cap DirectPath[m]
      PROVE  e <= d
  <2>1. e \in Nat /\ e <= Capacity - 2 /\ d \in Nat /\ d <= Capacity - 2
    BY LeavesFacts
  <2>2. Capacity - e \in S
    BY <2>1, NodesFacts
  <2>3. QED
    BY <1>2, <1>3, <2>1, <2>2, NodesFacts
<1> HIDE DEF S
<1>5. d \in Nat /\ d \in Above[LeafNode(l)] /\ d \in Above[LeafNode(m)]
  BY LeavesFacts
<1>6. PICK c \in {2 * d + 1, 2 * d + 2} : c = LeafNode(m) \/ c \in Above[LeafNode(m)]
  BY <1>5, LeavesFacts, ChildOnWay
<1>7. PICK b \in {2 * d + 1, 2 * d + 2} : b = LeafNode(l) \/ b \in Above[LeafNode(l)]
  BY <1>5, LeavesFacts, ChildOnWay
<1>8. c > d /\ c \in Nodes /\ b \in Nodes
  BY <1>5, <1>6, <1>7, LeavesFacts
<1>9. b # c
  <2> SUFFICES ASSUME b = c PROVE FALSE
    OBVIOUS
  <2>1. ~(c = LeafNode(m) /\ c = LeafNode(l))
    BY LeavesFacts
  <2>2. ~(c = LeafNode(m) /\ c \in Above[LeafNode(l)])
    BY LeavesFacts
  <2>3. ~(c = LeafNode(l) /\ c \in Above[LeafNode(m)])
    BY LeavesFacts
  <2>4. ~(c \in Above[LeafNode(l)] /\ c \in Above[LeafNode(m)])
    <3>1. c \in Above[LeafNode(l)] /\ c \in Above[LeafNode(m)] => c <= d
      BY <1>4, LeavesFacts
    <3>2. QED
      BY <1>5, <1>8, <3>1, NodesFacts
  <2>5. QED
    BY <1>6, <1>7, <2>1, <2>2, <2>3, <2>4
<1>10. LeafNode(l) \in Under[b]
  BY <1>7, <1>8, LeavesFacts DEF Under
<1>11. CoPath(l, d) = c
  BY <1>5, <1>6, <1>7, <1>9, <1>10, CoPathFacts
<1>12. LeafNode(m) \in Under[c]
  BY <1>6, <1>8, LeavesFacts DEF Under
<1>13. QED
  BY <1>11, <1>12

\* The resolution of a subtree covers its populated nodes from above.
LEMMA Covered ==
  ASSUME NEW nodes, NEW n \in Nodes, NEW x \in Under[n], nodes[x] # {}
  PROVE  \E t \in Resolution(nodes, n) : t = x \/ t \in Above[x]
<1> DEFINE S == {t \in Nat : t \in Under[n] /\ nodes[t] # {} /\ (t = x \/ t \in Above[x])}
<1>1. Under[n] \subseteq Nodes /\ x \in Nodes /\ x \in Nat /\ S \in SUBSET Nat
  BY NodesFacts DEF Under
<1>2. x \in S
  BY <1>1
<1>3. PICK t \in S : \A j \in S : t <= j
  <2> HIDE DEF S
  <2>1. QED
    BY <1>1, <1>2, LeastElement
<1>4. ASSUME NEW p \in Under[n], p \in Above[t]
      PROVE  nodes[p] = {}
  <2>1. p \in Nat /\ p < t
    BY <1>4, AboveBounds
  <2>2. p \in Above[x]
    BY <1>1, <1>4, AboveTrans
  <2>3. p \notin S
    BY <1>3, <2>1
  <2>4. QED
    BY <1>4, <2>1, <2>2, <2>3
<1>5. t \in Resolution(nodes, n)
  BY <1>4 DEF Resolution
<1>6. QED
  BY <1>5

-----------------------------------------------------------------------------
(***************************************************************************)
(* What the operations on one Group return.                                *)
(***************************************************************************)
LEMMA SplicedType ==
  ASSUME NEW tree \in Trees, NEW op \in Ops
  PROVE  /\ Spliced(tree, op) \in Trees
         /\ \A n \in Nodes :
              \/ Spliced(tree, op)[n] = tree[n]
              \/ Spliced(tree, op)[n] = {}
              \/ op.kind = "add" /\ n = LeafNode(op.leaf) /\ Spliced(tree, op)[n] = op.member
<1>1. tree \in [Nodes -> SUBSET Keys] /\ op.member \in SUBSET Keys /\ LeafNode(op.leaf) \in Nodes
  BY LeavesFacts DEF Trees, Ops, Keys
<1>2. CASE op.kind = "add"
  <2>1. Spliced(tree, op) = [tree EXCEPT ![LeafNode(op.leaf)] = op.member]
    BY <1>2 DEF Spliced
  <2>2. QED
    BY <1>1, <1>2, <2>1 DEF Trees
<1>3. CASE op.kind = "remove"
  <2>1. Spliced(tree, op) =
          [n \in Nodes |-> IF n = LeafNode(op.leaf) \/ n \in DirectPath[op.leaf] THEN {}
                           ELSE tree[n]]
    BY <1>3 DEF Spliced
  <2>2. QED
    BY <1>1, <2>1 DEF Trees
<1>4. CASE op.kind = "update"
  BY <1>1, <1>4 DEF Spliced
<1>5. QED
  BY <1>2, <1>3, <1>4 DEF Ops

LEMMA UpdatePathType ==
  ASSUME NEW tree \in Trees, NEW leaf \in Leaves, NEW id \in Nat
  PROVE  /\ UpdatePath(tree, leaf, id) \in [DirectPath[leaf] -> PathNodes]
         /\ UpdatePath(tree, leaf, id) \in Paths
         /\ \A d \in DirectPath[leaf] :
              /\ UpdatePath(tree, leaf, id)[d].secret = [commit |-> id, node |-> d]
              /\ UpdatePath(tree, leaf, id)[d].to =
                   UNION {tree[m] : m \in Resolution(tree, CoPath(leaf, d))}
<1>1. ASSUME NEW d \in DirectPath[leaf]
      PROVE  /\ [commit |-> id, node |-> d] \in Secrets
             /\ UNION {tree[m] : m \in Resolution(tree, CoPath(leaf, d))} \in SUBSET Keys
  <2>1. Resolution(tree, CoPath(leaf, d)) \subseteq Nodes
    BY CoPathFacts DEF Resolution, Under
  <2>2. \A m \in Nodes : tree[m] \subseteq Keys
    BY DEF Trees
  <2>3. d \in Nat
    BY LeavesFacts
  <2>4. QED
    BY <2>1, <2>2, <2>3 DEF Secrets
<1>2. UpdatePath(tree, leaf, id) \in [DirectPath[leaf] -> PathNodes]
  BY <1>1 DEF UpdatePath, PathNodes
<1>3. QED
  BY <1>2 DEF UpdatePath, Paths

\* after is g in the epoch that tree and path begin, with what is known of the path.
Began(g, after, tree, leaf, path, known) ==
  /\ after.nodes =
       [n \in Nodes |-> IF n \in DirectPath[leaf] THEN {path[n].secret} ELSE tree[n]]
  /\ after.epoch = g.epoch + 1
  /\ after.epoch_secret = Append(g.epoch_secret, path[0].secret)
  /\ after.my_leaf = g.my_leaf
  /\ after.send_chain = SenderChain(Append(g.epoch_secret, path[0].secret), g.my_leaf)
  /\ after.recv_chains = [l \in Leaves |-> {}]
  /\ after.known_secrets =
       [n \in Nodes |-> IF n \in known THEN {path[n].secret} ELSE g.known_secrets[n]]

LEMMA ApplyType ==
  ASSUME NEW g \in Groups, NEW tree \in Trees, NEW leaf \in Leaves,
         NEW path \in [DirectPath[leaf] -> PathNodes], NEW known \in SUBSET DOMAIN path
  PROVE  /\ Apply(g, tree, path, known) \in Groups
         /\ Began(g, Apply(g, tree, path, known), tree, leaf, path, known)
<1> DEFINE secret == Append(g.epoch_secret, path[0].secret)
           nodes == [n \in Nodes |-> IF n \in DOMAIN path THEN {path[n].secret} ELSE tree[n]]
           secrets == [n \in Nodes |-> IF n \in known THEN {path[n].secret}
                                       ELSE g.known_secrets[n]]
           chain == SenderChain(secret, g.my_leaf)
<1>1. DOMAIN path = DirectPath[leaf] /\ 0 \in DirectPath[leaf]
      /\ \A d \in DirectPath[leaf] : path[d].secret \in Secrets
  BY LeavesFacts DEF PathNodes
<1>2. secret \in Seq(Secrets)
  BY <1>1 DEF Groups
<1>3. nodes \in Trees
  BY <1>1 DEF Trees, Keys
<1>4. secrets \in [Nodes -> SUBSET Secrets]
  BY <1>1 DEF Groups
<1>5. chain \in Chains
  BY <1>2 DEF SenderChain, Chains, Groups
<1>6. Apply(g, tree, path, known) =
        [g EXCEPT !.nodes = nodes, !.epoch = @ + 1, !.epoch_secret = secret,
                  !.send_chain = chain, !.recv_chains = [l \in Leaves |-> {}],
                  !.known_secrets = [n \in Nodes |-> IF n \in known THEN {path[n].secret}
                                                     ELSE @[n]]]
  BY DEF Apply
<1>7. nodes = [n \in Nodes |-> IF n \in DirectPath[leaf] THEN {path[n].secret} ELSE tree[n]]
  BY <1>1
<1> HIDE DEF nodes, secret, chain
<1>8. Apply(g, tree, path, known) =
        [nodes |-> nodes, epoch |-> g.epoch + 1, epoch_secret |-> secret,
         my_leaf |-> g.my_leaf, known_secrets |-> secrets, send_chain |-> chain,
         recv_chains |-> [l \in Leaves |-> {}]]
  BY <1>6 DEF Groups
<1> HIDE DEF secrets
<1>9. Apply(g, tree, path, known) \in Groups
  BY <1>2, <1>3, <1>4, <1>5, <1>8 DEF Groups
<1>10. QED
  BY <1>7, <1>8, <1>9 DEF secret, chain, secrets, Began

\* A new Group knows nothing but its tree, its epoch and its leaf.
Fresh(g, tree, epoch, secret, leaf) ==
  /\ g \in Groups
  /\ g.nodes = tree /\ g.epoch = epoch /\ g.epoch_secret = secret /\ g.my_leaf = leaf
  /\ g.known_secrets = [n \in Nodes |-> {}]
  /\ g.send_chain = SenderChain(secret, leaf) /\ g.recv_chains = [l \in Leaves |-> {}]

LEMMA NewGroupType ==
  ASSUME NEW tree \in Trees, NEW epoch \in Nat, NEW secret \in Seq(Secrets), NEW leaf \in Leaves
  PROVE  Fresh(NewGroup(tree, epoch, secret, leaf), tree, epoch, secret, leaf)
<1>1. SenderChain(secret, leaf) \in Chains
  BY DEF SenderChain, Chains
<1>2. QED
  BY <1>1 DEF NewGroup, Groups, Fresh

\* What a member derives are nodes of the path.
LEMMA DerivableType ==
  ASSUME NEW u, NEW g, NEW c
  PROVE  Derivable(c, Unseals(u, g, c)) \in SUBSET DOMAIN c.path
  BY DEF Derivable

LEMMA CommitType ==
  ASSUME NEW c \in Commits
  PROVE  \E l \in Leaves : c.path \in [DirectPath[l] -> PathNodes] /\ DOMAIN c.path = DirectPath[l]
  BY DEF Commits, Paths

LEMMA AppliedType ==
  ASSUME NEW u, NEW g \in Groups, NEW c \in Commits
  PROVE  Applied(u, g, c) \in Groups
<1>1. PICK l \in Leaves : c.path \in [DirectPath[l] -> PathNodes]
  BY CommitType
<1>2. Spliced(g.nodes, c.op) \in Trees
  <2>1. g.nodes \in Trees /\ c.op \in Ops
    BY DEF Groups, Commits
  <2>2. QED
    BY <2>1, SplicedType
<1>3. QED
  BY <1>1, <1>2, DerivableType, ApplyType DEF Applied

LEMMA HeldByType ==
  ASSUME NEW g \in Groups
  PROVE  HeldBy(g) \in SUBSET Secrets
  BY DEF HeldBy, Groups

LEMMA RecvChainType ==
  ASSUME NEW g \in Groups, NEW leaf \in Leaves
  PROVE  RecvChain(g, leaf) \in Chains
<1>1. g.recv_chains[leaf] \in SUBSET Chains /\ g.epoch_secret \in Seq(Secrets)
  BY DEF Groups
<1>2. SenderChain(g.epoch_secret, leaf) \in Chains
  BY <1>1 DEF SenderChain, Chains
<1>3. QED
  BY <1>1, <1>2 DEF RecvChain

LEMMA OpenedType ==
  ASSUME NEW g \in Groups, NEW leaf \in Leaves
  PROVE  /\ Opened(g, leaf) \in Groups
         /\ Opened(g, leaf) =
              [g EXCEPT !.recv_chains =
                 [g.recv_chains EXCEPT ![leaf] = {[RecvChain(g, leaf) EXCEPT !.pos = @ + 1]}]]
         /\ Opened(g, leaf).recv_chains =
              [g.recv_chains EXCEPT ![leaf] = {[RecvChain(g, leaf) EXCEPT !.pos = @ + 1]}]
<1> DEFINE chain == [RecvChain(g, leaf) EXCEPT !.pos = @ + 1]
           chains == [g.recv_chains EXCEPT ![leaf] = {chain}]
<1>1. chain \in Chains
  BY RecvChainType DEF Chains
<1> HIDE DEF chain
<1>2. chains \in [Leaves -> SUBSET Chains]
  BY <1>1 DEF Groups
<1>3. Opened(g, leaf) = [g EXCEPT !.recv_chains = chains]
  BY DEF Opened, chains, chain
<1> HIDE DEF chains
<1>4. Opened(g, leaf) \in Groups /\ Opened(g, leaf).recv_chains = chains
  BY <1>2, <1>3 DEF Groups
<1>5. QED
  BY <1>3, <1>4 DEF chains, chain

LEMMA SealedType ==
  ASSUME NEW g \in Groups
  PROVE  /\ [g EXCEPT !.send_chain.pos = @ + 1] \in Groups
         /\ [g EXCEPT !.send_chain.pos = @ + 1] =
              [g EXCEPT !.send_chain = [g.send_chain EXCEPT !.pos = @ + 1]]
<1>1. [g.send_chain EXCEPT !.pos = @ + 1] \in Chains
  BY DEF Groups, Chains
<1>2. QED
  BY <1>1 DEF Groups

-----------------------------------------------------------------------------
(***************************************************************************)
(* Types.                                                                  *)
(***************************************************************************)
\* A member that commits: its own group after the call, and the commit.
LEMMA CommitTypes ==
  ASSUME TypeOK, NEW u \in Members, NEW g \in group[u], NEW op \in Ops, Commit(u, g, op)
  PROVE  /\ group' \in [Members -> SUBSET Groups]
         /\ commits' \in Seq(Commits)
         /\ held' \in [Members -> SUBSET Secrets]
<1> DEFINE pre == Spliced(g.nodes, op)
           path == UpdatePath(pre, g.my_leaf, Len(commits) + 1)
           after == Apply(g, pre, path, DOMAIN path)
<1>1. g \in Groups /\ g.nodes \in Trees /\ g.my_leaf \in Leaves /\ g.epoch \in Nat
      /\ Len(commits) + 1 \in Nat
  BY DEF TypeOK, Groups
<1>2. pre \in Trees
  BY <1>1, SplicedType
<1> HIDE DEF pre
<1>3. path \in [DirectPath[g.my_leaf] -> PathNodes] /\ path \in Paths
  BY <1>1, <1>2, UpdatePathType
<1> HIDE DEF path
<1>4. after \in Groups
  BY <1>1, <1>2, <1>3, ApplyType
<1>5. CommitOf(u, g, op, path) \in Commits
  BY <1>1, <1>3 DEF CommitOf, Commits
<1>6. group' = [group EXCEPT ![u] = {after}] /\ held' = [held EXCEPT ![u] = @ \cup HeldBy(after)]
      /\ commits' = Append(commits, CommitOf(u, g, op, path))
  BY DEF Commit, pre, path, after
<1> HIDE DEF after
<1>7. HeldBy(after) \in SUBSET Secrets
  BY <1>4, HeldByType
<1>8. QED
  BY <1>4, <1>5, <1>6, <1>7 DEF TypeOK

LEMMA TypeInit == Init => TypeOK
<1> SUFFICES ASSUME Init PROVE TypeOK
  OBVIOUS
<1> DEFINE tree == [n \in Nodes |-> IF n = LeafNode(0) THEN {Founder} ELSE {}]
<1>1. tree \in Trees
  BY GroupAssumption DEF Trees, Keys
<1>2. NewGroup(tree, 0, <<>>, 0) \in Groups
  <2>1. <<>> \in Seq(Secrets) /\ 0 \in Nat /\ 0 \in Leaves
    BY NodesFacts
  <2> HIDE DEF tree
  <2>2. QED
    BY <1>1, <2>1, NewGroupType DEF Fresh
<1>3. group \in [Members -> SUBSET Groups]
  BY <1>2 DEF Init
<1>4. QED
  BY <1>3 DEF Init, TypeOK

LEMMA TypeNext == TypeOK /\ [Next]_vars => TypeOK'
<1> SUFFICES ASSUME TypeOK, [Next]_vars PROVE TypeOK'
  OBVIOUS
<1>1. ASSUME NEW u \in Members, NEW new \in Members, ProposeAdd(u, new)
      PROVE  TypeOK'
  <2>1. PICK g \in group[u], leaf \in Leaves :
          /\ Commit(u, g, [kind |-> "add", leaf |-> leaf, member |-> {new}])
          /\ welcome' = [welcome EXCEPT ![new] =
               {[nodes |-> g.nodes, epoch |-> g.epoch, epoch_secret |-> g.epoch_secret,
                 target_leaf |-> leaf]}]
    BY <1>1 DEF ProposeAdd
  <2>2. [kind |-> "add", leaf |-> leaf, member |-> {new}] \in Ops
    BY DEF Ops
  <2>3. [nodes |-> g.nodes, epoch |-> g.epoch, epoch_secret |-> g.epoch_secret,
         target_leaf |-> leaf] \in Snapshots
    BY DEF TypeOK, Groups, Snapshots
  <2>4. welcome' \in [Members -> SUBSET Snapshots]
    BY <2>1, <2>3 DEF TypeOK
  <2>5. QED
    BY <1>1, <2>1, <2>2, <2>4, CommitTypes DEF ProposeAdd, TypeOK
<1>2. ASSUME NEW u \in Members, NEW leaf \in Leaves, ProposeRemove(u, leaf)
      PROVE  TypeOK'
  <2>1. [kind |-> "remove", leaf |-> leaf, member |-> {}] \in Ops
    BY DEF Ops
  <2>2. QED
    BY <1>2, <2>1, CommitTypes DEF ProposeRemove, TypeOK
<1>3. ASSUME NEW u \in Members, ProposeUpdate(u)
      PROVE  TypeOK'
  <2>1. PICK g \in group[u] :
          Commit(u, g, [kind |-> "update", leaf |-> g.my_leaf, member |-> {}])
    BY <1>3 DEF ProposeUpdate
  <2>2. [kind |-> "update", leaf |-> g.my_leaf, member |-> {}] \in Ops
    BY DEF Ops, TypeOK, Groups
  <2>3. QED
    BY <1>3, <2>1, <2>2, CommitTypes DEF ProposeUpdate, TypeOK
<1>4. ASSUME NEW u \in Members, NEW i \in DOMAIN commits, ApplyCommit(u, commits[i])
      PROVE  TypeOK'
  <2>1. PICK g \in group[u] :
          /\ group' = [group EXCEPT ![u] = {Applied(u, g, commits[i])}]
          /\ held' = [held EXCEPT ![u] = @ \cup HeldBy(Applied(u, g, commits[i]))]
    BY <1>4 DEF ApplyCommit
  <2>2. Applied(u, g, commits[i]) \in Groups
    BY AppliedType DEF TypeOK
  <2>3. HeldBy(Applied(u, g, commits[i])) \in SUBSET Secrets
    BY <2>2, HeldByType
  <2>4. QED
    BY <1>4, <2>1, <2>2, <2>3 DEF ApplyCommit, TypeOK
<1>5. ASSUME NEW u \in Members, NEW i \in DOMAIN commits, Join(u, commits[i])
      PROVE  TypeOK'
  <2>1. PICK s \in welcome[u] :
          /\ group' = [group EXCEPT ![u] = {Applied(u, Joining(s), commits[i])}]
          /\ held' = [held EXCEPT ![u] = @ \cup HeldBy(Applied(u, Joining(s), commits[i]))]
    BY <1>5 DEF Join
  <2>2. Joining(s) \in Groups
    <3>1. s \in Snapshots
      BY DEF TypeOK
    <3>2. QED
      BY <3>1, NewGroupType DEF Joining, Snapshots, Fresh
  <2>3. Applied(u, Joining(s), commits[i]) \in Groups
    BY <2>2, AppliedType DEF TypeOK
  <2>4. HeldBy(Applied(u, Joining(s), commits[i])) \in SUBSET Secrets
    BY <2>3, HeldByType
  <2>5. QED
    BY <1>5, <2>1, <2>3, <2>4 DEF Join, TypeOK
<1>6. ASSUME NEW u \in Members, Seal(u)
      PROVE  TypeOK'
  <2>1. PICK g \in group[u] :
          /\ records' = records \cup
               {[epoch |-> g.epoch, leaf |-> g.my_leaf, key |-> g.send_chain, from |-> u]}
          /\ group' = [group EXCEPT ![u] = {[g EXCEPT !.send_chain.pos = @ + 1]}]
    BY <1>6 DEF Seal
  <2>2. g \in Groups
    BY DEF TypeOK
  <2>3. [epoch |-> g.epoch, leaf |-> g.my_leaf, key |-> g.send_chain, from |-> u] \in Records
    BY <2>2 DEF Groups, Records
  <2>4. [g EXCEPT !.send_chain.pos = @ + 1] \in Groups
    BY <2>2, SealedType
  <2>5. QED
    BY <1>6, <2>1, <2>3, <2>4 DEF Seal, TypeOK
<1>7. ASSUME NEW u \in Members, NEW r \in records, Open(u, r)
      PROVE  TypeOK'
  <2>1. PICK g \in group[u] :
          /\ group' = [group EXCEPT ![u] = {Opened(g, r.leaf)}]
          /\ opened' = [opened EXCEPT
               ![u] = Append(@, [record |-> r, sender |-> g.nodes[LeafNode(r.leaf)]])]
    BY <1>7 DEF Open
  <2>2. g \in Groups /\ r \in Records /\ r.leaf \in Leaves
    BY DEF TypeOK, Records
  <2>3. [record |-> r, sender |-> g.nodes[LeafNode(r.leaf)]] \in Readings
    BY <2>2, LeavesFacts DEF Groups, Trees, Readings
  <2>4. Opened(g, r.leaf) \in Groups
    BY <2>2, OpenedType
  <2>5. opened' \in [Members -> Seq(Readings)]
    <3>1. opened[u] \in Seq(Readings)
      BY DEF TypeOK
    <3>2. Append(opened[u], [record |-> r, sender |-> g.nodes[LeafNode(r.leaf)]])
            \in Seq(Readings)
      BY <2>3, <3>1
    <3>3. QED
      BY <2>1, <3>2 DEF TypeOK
  <2>6. QED
    BY <1>7, <2>1, <2>4, <2>5 DEF Open, TypeOK
<1>8. CASE UNCHANGED vars
  BY <1>8 DEF vars, TypeOK
<1>9. QED
  BY <1>1, <1>2, <1>3, <1>4, <1>5, <1>6, <1>7, <1>8 DEF Next, Propose

(***************************************************************************)
(* Every variable keeps its type, for any capacity and members: trees,     *)
(* chains and path secrets come out of the operations of a Group as they   *)
(* went in, and a commit's path is the direct path of a leaf.              *)
(***************************************************************************)
THEOREM GroupTypeCorrect == Spec => []TypeOK
  BY TypeInit, TypeNext, PTL DEF Spec

-----------------------------------------------------------------------------
(***************************************************************************)
(* The history: T[i] is the tree of epoch i.  Every commit was made on the *)
(* tree of its epoch, and whoever is in an epoch has its tree and secret.  *)
(***************************************************************************)
\* The secret of node n that commit i made, and that of epoch e.
Secret(i, n) == [commit |-> i, node |-> n]
EpochSecret(e) == [k \in 1 .. e |-> Secret(k, 0)]

\* u's leaf, and the epoch that put it there, by the welcomes w.
Home(w, u, leaf, e) ==
  \/ u = Founder /\ leaf = 0 /\ e = 0
  \/ u # Founder /\ \E s \in w[u] : leaf = s.target_leaf /\ e = s.epoch + 1

\* Leaves hold members at home, inner nodes secrets of their own.
Populated(w, tree, i) ==
  /\ tree \in Trees
  /\ \A l \in Leaves : tree[LeafNode(l)] # {} =>
       \E u \in Members, e \in 0 .. i : tree[LeafNode(l)] = {u} /\ Home(w, u, l, e)
  /\ \A n \in Nodes : n <= Capacity - 2 /\ tree[n] # {} =>
       \E k \in 1 .. i : tree[n] = {Secret(k, n)}

\* c is commit i, made on tree.
MadeOn(tree, c, i) ==
  /\ c \in Commits
  /\ c.from_epoch = i - 1
  /\ tree[LeafNode(c.sender_leaf)] = {c.signer}
  /\ SpliceFits(tree, c.op)
  /\ c.path = UpdatePath(Spliced(tree, c.op), c.sender_leaf, i)

\* The tree after it.
Post(tree, c, i) ==
  [n \in Nodes |-> IF n \in DirectPath[c.sender_leaf] THEN {Secret(i, n)}
                   ELSE Spliced(tree, c.op)[n]]

History(T) ==
  /\ \A i \in 0 .. Len(commits) : Populated(welcome, T[i], i)
  /\ \A i \in 1 .. Len(commits) :
       /\ MadeOn(T[i - 1], commits[i], i) /\ T[i] = Post(T[i - 1], commits[i], i)
       /\ commits[i].op.kind = "add" =>
            \E v \in Members :
              commits[i].op.member = {v} /\ Home(welcome, v, commits[i].op.leaf, i)

\* Who made a commit is in its epoch already.
CommittersAhead ==
  \A i \in 1 .. Len(commits) :
    /\ group[commits[i].signer] # {}
    /\ \A g \in group[commits[i].signer] : g.epoch >= i

Invited(T) ==
  \A u \in Members : \A s \in welcome[u] :
    /\ u # Founder /\ s.epoch < Len(commits) /\ \A t \in welcome[u] : t = s
    /\ s.nodes = T[s.epoch] /\ s.epoch_secret = EpochSecret(s.epoch)
    /\ commits[s.epoch + 1].op = [kind |-> "add", leaf |-> s.target_leaf, member |-> {u}]

\* g is of the epoch it says.
InEpoch(g, T) ==
  /\ g.epoch <= Len(commits) /\ g.nodes = T[g.epoch]
  /\ g.epoch_secret = EpochSecret(g.epoch)
  /\ g.send_chain.secret = g.epoch_secret /\ g.send_chain.leaf = g.my_leaf

Synced(T) ==
  \A u \in Members : \A g \in group[u] :
    /\ group[u] = {g} /\ InEpoch(g, T)
    /\ \E e \in 0 .. g.epoch : Home(welcome, u, g.my_leaf, e)

\* after is the group g once it has applied commit i, having learned known.
Advanced(g, after, tree, c, i, known) ==
  /\ after \in Groups
  /\ after.nodes = Post(tree, c, i) /\ after.epoch = i /\ after.epoch_secret = EpochSecret(i)
  /\ after.my_leaf = g.my_leaf
  /\ after.send_chain = SenderChain(EpochSecret(i), g.my_leaf)
  /\ after.recv_chains = [l \in Leaves |-> {}]
  /\ after.known_secrets =
       [n \in Nodes |-> IF n \in known THEN {Secret(i, n)} ELSE g.known_secrets[n]]

LEMMA EpochSecretFacts ==
  \A e \in Nat : /\ EpochSecret(e) \in Seq(Secrets)
                 /\ EpochSecret(e + 1) = Append(EpochSecret(e), Secret(e + 1, 0))
<1> SUFFICES ASSUME NEW e \in Nat
             PROVE  /\ EpochSecret(e) \in Seq(Secrets)
                    /\ EpochSecret(e + 1) = Append(EpochSecret(e), Secret(e + 1, 0))
  OBVIOUS
<1>1. \A k \in Nat : Secret(k, 0) \in Secrets
  BY DEF Secret, Secrets
<1>2. EpochSecret(e) \in [1 .. e -> Secrets]
  BY <1>1 DEF EpochSecret
<1>3. EpochSecret(e) \in Seq(Secrets) /\ Len(EpochSecret(e)) = e
  BY <1>2, LenProperties, SeqDef
<1>4. Append(EpochSecret(e), Secret(e + 1, 0)) =
        [k \in 1 .. (e + 1) |-> IF k = e + 1 THEN Secret(e + 1, 0) ELSE EpochSecret(e)[k]]
  BY <1>1, <1>3
<1>5. \A k \in 1 .. (e + 1) : (IF k = e + 1 THEN Secret(e + 1, 0) ELSE EpochSecret(e)[k])
                              = Secret(k, 0)
  BY DEF EpochSecret
<1>6. QED
  BY <1>3, <1>4, <1>5 DEF EpochSecret

\* What a commit's path is sealed to.
LEMMA MadePath ==
  ASSUME NEW tree \in Trees, NEW i \in Nat, NEW c, MadeOn(tree, c, i)
  PROVE  /\ DOMAIN c.path = DirectPath[c.sender_leaf]
         /\ \A d \in DirectPath[c.sender_leaf] :
              c.path[d].to =
                UNION {Spliced(tree, c.op)[m] :
                         m \in Resolution(Spliced(tree, c.op), CoPath(c.sender_leaf, d))}
<1> DEFINE pre == Spliced(tree, c.op)
           leaf == c.sender_leaf
           path == c.path
<1>1. c.op \in Ops /\ leaf \in Leaves /\ path = UpdatePath(pre, leaf, i)
  BY DEF MadeOn, Commits
<1>2. pre \in Trees
  BY <1>1, SplicedType
<1> HIDE DEF pre, leaf, path
<1>3. path \in [DirectPath[leaf] -> PathNodes]
  BY <1>1, <1>2, UpdatePathType
<1>4. ASSUME NEW d \in DirectPath[leaf]
      PROVE  path[d].to = UNION {pre[m] : m \in Resolution(pre, CoPath(leaf, d))}
  BY <1>1 DEF UpdatePath
<1>5. DOMAIN path = DirectPath[leaf]
  BY <1>3
<1>6. QED
  BY <1>4, <1>5 DEF pre, leaf, path

\* Applying a commit to the tree it was made on.
LEMMA AdvancedBy ==
  ASSUME NEW g \in Groups, NEW i \in Nat \ {0}, NEW c, NEW known,
         g.epoch = i - 1, g.epoch_secret = EpochSecret(i - 1),
         MadeOn(g.nodes, c, i), known \in SUBSET DOMAIN c.path
  PROVE  /\ Advanced(g, Apply(g, Spliced(g.nodes, c.op), c.path, known), g.nodes, c, i, known)
         /\ DOMAIN c.path = DirectPath[c.sender_leaf]
<1> DEFINE pre == Spliced(g.nodes, c.op)
           leaf == c.sender_leaf
           path == c.path
           after == Apply(g, pre, path, known)
<1>1. g.nodes \in Trees /\ c.op \in Ops /\ c.sender_leaf \in Leaves /\ i - 1 \in Nat
  BY DEF Groups, MadeOn, Commits
<1>2. pre \in Trees
  BY <1>1, SplicedType
<1>3. c.path = UpdatePath(pre, c.sender_leaf, i)
  BY DEF MadeOn
<1> HIDE DEF pre
<1>4. /\ c.path \in [DirectPath[c.sender_leaf] -> PathNodes]
      /\ DOMAIN c.path = DirectPath[c.sender_leaf]
      /\ \A d \in DirectPath[c.sender_leaf] : c.path[d].secret = Secret(i, d)
  BY <1>1, <1>2, <1>3, UpdatePathType DEF Secret
<1>5. 0 \in DirectPath[c.sender_leaf]
  BY <1>1, LeavesFacts
<1> HIDE DEF leaf, path
<1>6. /\ after \in Groups
      /\ after.nodes = [n \in Nodes |-> IF n \in DirectPath[leaf] THEN {path[n].secret}
                                        ELSE pre[n]]
      /\ after.epoch = g.epoch + 1
      /\ after.epoch_secret = Append(g.epoch_secret, path[0].secret)
      /\ after.my_leaf = g.my_leaf
      /\ after.send_chain = SenderChain(Append(g.epoch_secret, path[0].secret), g.my_leaf)
      /\ after.recv_chains = [l \in Leaves |-> {}]
      /\ after.known_secrets =
           [n \in Nodes |-> IF n \in known THEN {path[n].secret} ELSE g.known_secrets[n]]
  <2>1. /\ leaf \in Leaves /\ path \in [DirectPath[leaf] -> PathNodes]
        /\ known \in SUBSET DOMAIN path
    BY <1>1, <1>4 DEF leaf, path
  <2>2. after \in Groups /\ Began(g, after, pre, leaf, path, known)
    BY <1>2, <2>1, ApplyType
  <2>3. QED
    BY <2>2 DEF Began
<1>7. Append(g.epoch_secret, path[0].secret) = EpochSecret(i)
  <2>1. (i - 1) + 1 = i
    OBVIOUS
  <2>2. EpochSecret((i - 1) + 1) = Append(EpochSecret(i - 1), Secret((i - 1) + 1, 0))
    BY <1>1, EpochSecretFacts
  <2>3. QED
    BY <1>4, <1>5, <2>1, <2>2 DEF path
<1>8. [n \in Nodes |-> IF n \in DirectPath[leaf] THEN {path[n].secret} ELSE pre[n]]
        = Post(g.nodes, c, i)
  BY <1>4 DEF Post, pre, leaf, path
<1>9. [n \in Nodes |-> IF n \in known THEN {path[n].secret} ELSE g.known_secrets[n]]
        = [n \in Nodes |-> IF n \in known THEN {Secret(i, n)} ELSE g.known_secrets[n]]
  BY <1>4 DEF path
<1> HIDE DEF after
<1>10. Advanced(g, after, g.nodes, c, i, known)
  <2>1. g.epoch + 1 = i
    OBVIOUS
  <2>2. QED
    BY <1>6, <1>7, <1>8, <1>9, <2>1, Zenon DEF Advanced
<1>11. QED
  BY <1>4, <1>10 DEF after, pre, path

\* A member has one home.
LEMMA OneHome ==
  ASSUME NEW w, NEW u, \A s, t \in w[u] : s = t,
         NEW l, NEW m, NEW e, NEW f, Home(w, u, l, e), Home(w, u, m, f)
  PROVE  l = m /\ e = f
  BY DEF Home

\* More welcomes do not move anybody.
LEMMA HomeStays ==
  ASSUME NEW w, NEW x, NEW u, w[u] # {} => x[u] = w[u],
         NEW l, NEW e, Home(w, u, l, e)
  PROVE  Home(x, u, l, e)
  BY DEF Home

LEMMA PopulatedStays ==
  ASSUME NEW w, NEW x, \A u \in Members : w[u] # {} => x[u] = w[u],
         NEW tree, NEW i \in Nat, Populated(w, tree, i)
  PROVE  Populated(x, tree, i)
<1>1. \A l \in Leaves : tree[LeafNode(l)] # {} =>
        \E u \in Members, e \in 0 .. i : tree[LeafNode(l)] = {u} /\ Home(x, u, l, e)
  <2> SUFFICES ASSUME NEW l \in Leaves, tree[LeafNode(l)] # {}
               PROVE  \E u \in Members, e \in 0 .. i :
                        tree[LeafNode(l)] = {u} /\ Home(x, u, l, e)
    OBVIOUS
  <2>1. PICK u \in Members, e \in 0 .. i : tree[LeafNode(l)] = {u} /\ Home(w, u, l, e)
    BY DEF Populated
  <2>2. Home(x, u, l, e)
    BY <2>1, HomeStays
  <2>3. QED
    BY <2>1, <2>2
<1>2. QED
  BY <1>1 DEF Populated

\* A commit's splice and path leave a populated tree of the next epoch.
LEMMA PopulatedPost ==
  ASSUME NEW w, NEW tree, NEW i \in Nat \ {0}, NEW c,
         Populated(w, tree, i - 1), MadeOn(tree, c, i),
         c.op.kind = "add" =>
           \E v \in Members : c.op.member = {v} /\ Home(w, v, c.op.leaf, i)
  PROVE  Populated(w, Post(tree, c, i), i)
<1> DEFINE pre == Spliced(tree, c.op)
           post == Post(tree, c, i)
<1>1. tree \in Trees /\ c.op \in Ops /\ c.sender_leaf \in Leaves /\ c.op.leaf \in Leaves
  BY DEF Populated, MadeOn, Commits, Ops
<1>2. /\ pre \in Trees
      /\ \A n \in Nodes :
           \/ pre[n] = tree[n]
           \/ pre[n] = {}
           \/ c.op.kind = "add" /\ n = LeafNode(c.op.leaf) /\ pre[n] = c.op.member
  BY <1>1, SplicedType
<1> HIDE DEF pre
<1>3. post = [n \in Nodes |-> IF n \in DirectPath[c.sender_leaf] THEN {Secret(i, n)} ELSE pre[n]]
  BY DEF Post, pre
<1> HIDE DEF post
<1>4. post \in Trees
  <2>1. \A n \in Nodes : Secret(i, n) \in Keys
    BY NodesFacts DEF Secret, Keys, Secrets
  <2>2. QED
    BY <1>2, <1>3, <2>1 DEF Trees
<1>5. ASSUME NEW l \in Leaves, post[LeafNode(l)] # {}
      PROVE  \E u \in Members, e \in 0 .. i : post[LeafNode(l)] = {u} /\ Home(w, u, l, e)
  <2>1. LeafNode(l) \in Nodes /\ LeafNode(l) \notin DirectPath[c.sender_leaf]
    BY <1>1, LeavesFacts
  <2>2. post[LeafNode(l)] = pre[LeafNode(l)]
    BY <1>3, <2>1
  <2>3. CASE pre[LeafNode(l)] = tree[LeafNode(l)]
    <3>1. PICK u \in Members, e \in 0 .. (i - 1) : tree[LeafNode(l)] = {u} /\ Home(w, u, l, e)
      BY <1>5, <2>2, <2>3 DEF Populated
    <3>2. e \in 0 .. i
      OBVIOUS
    <3>3. QED
      BY <2>2, <2>3, <3>1, <3>2
  <2>4. CASE c.op.kind = "add" /\ LeafNode(l) = LeafNode(c.op.leaf)
             /\ pre[LeafNode(l)] = c.op.member
    <3>1. l = c.op.leaf
      BY <1>1, <2>4, LeavesFacts
    <3>2. PICK v \in Members : c.op.member = {v} /\ Home(w, v, c.op.leaf, i)
      BY <2>4
    <3>3. i \in 0 .. i
      OBVIOUS
    <3>4. QED
      BY <2>2, <2>4, <3>1, <3>2, <3>3
  <2>5. QED
    BY <1>2, <1>5, <2>1, <2>2, <2>3, <2>4
<1>6. ASSUME NEW n \in Nodes, n <= Capacity - 2, post[n] # {}
      PROVE  \E k \in 1 .. i : post[n] = {Secret(k, n)}
  <2>1. CASE n \in DirectPath[c.sender_leaf]
    <3>1. post[n] = {Secret(i, n)} /\ i \in 1 .. i
      BY <1>3, <2>1
    <3>2. QED
      BY <3>1
  <2>2. CASE n \notin DirectPath[c.sender_leaf]
    <3>1. post[n] = pre[n]
      BY <1>3, <2>2
    <3>2. n # LeafNode(c.op.leaf)
      BY <1>1, <1>6, NodesFacts DEF LeafNode, Leaves, Nodes
    <3>3. pre[n] = tree[n]
      BY <1>2, <1>6, <3>1, <3>2
    <3>4. PICK k \in 1 .. (i - 1) : tree[n] = {Secret(k, n)}
      BY <1>6, <3>1, <3>3 DEF Populated
    <3>5. k \in 1 .. i
      OBVIOUS
    <3>6. QED
      BY <3>1, <3>3, <3>4, <3>5
  <2>3. QED
    BY <2>1, <2>2
<1>7. QED
  BY <1>4, <1>5, <1>6 DEF Populated, post

\* What a member that commits does: commit c, which takes it from g to after.
Committed(u, g, op, T, c, after) ==
  LET N == Len(commits)
  IN /\ g.epoch = N /\ InGroup(u, g)
     /\ MadeOn(T[N], c, N + 1) /\ c.sender_leaf = g.my_leaf /\ c.signer = u /\ c.op = op
     /\ Advanced(g, after, T[N], c, N + 1, DirectPath[g.my_leaf])
     /\ commits' = Append(commits, c)
     /\ group' = [group EXCEPT ![u] = {after}]
     /\ held' = [held EXCEPT ![u] = @ \cup HeldBy(after)]

LEMMA CommitEffect ==
  ASSUME TypeOK, NEW T, Synced(T),
         NEW u \in Members, NEW g \in group[u], NEW op \in Ops, Commit(u, g, op)
  PROVE  \E c, after : Committed(u, g, op, T, c, after)
<1> DEFINE N == Len(commits)
           pre == Spliced(g.nodes, op)
           path == UpdatePath(pre, g.my_leaf, N + 1)
           c == CommitOf(u, g, op, path)
           after == Apply(g, pre, path, DOMAIN path)
<1>1. g \in Groups /\ g.nodes \in Trees /\ g.my_leaf \in Leaves /\ N \in Nat /\ N + 1 \in Nat \ {0}
  BY DEF TypeOK, Groups
<1>2. g.epoch = N /\ InGroup(u, g) /\ SpliceFits(g.nodes, op)
  BY DEF Commit, UpToDate
<1>3. g.nodes = T[N] /\ g.epoch_secret = EpochSecret(N)
  BY <1>2 DEF Synced, InEpoch
<1>4. pre \in Trees
  BY <1>1, SplicedType
<1>5. path \in Paths /\ path \in [DirectPath[g.my_leaf] -> PathNodes]
  <2> HIDE DEF pre
  <2>1. QED
    BY <1>1, <1>4, UpdatePathType
<1>6. /\ c.from_epoch = g.epoch /\ c.sender_leaf = g.my_leaf /\ c.signer = u /\ c.op = op
      /\ c.path = path
  BY DEF CommitOf
<1>7. c \in Commits
  <2> HIDE DEF path
  <2>1. QED
    BY <1>1, <1>5 DEF CommitOf, Commits, Groups
<1>8. /\ commits' = Append(commits, c) /\ group' = [group EXCEPT ![u] = {after}]
      /\ held' = [held EXCEPT ![u] = @ \cup HeldBy(after)]
  BY DEF Commit
<1>9. c.path = UpdatePath(Spliced(g.nodes, c.op), c.sender_leaf, N + 1)
  BY <1>6
<1>10. after = Apply(g, Spliced(g.nodes, c.op), c.path, DOMAIN c.path)
  BY <1>6
<1>11. DOMAIN c.path = DirectPath[g.my_leaf]
  BY <1>5, <1>6
<1> HIDE DEF c, after, path, pre
<1>12. MadeOn(g.nodes, c, N + 1)
  BY <1>1, <1>2, <1>6, <1>7, <1>9 DEF MadeOn, InGroup
<1>13. Advanced(g, after, g.nodes, c, N + 1, DirectPath[g.my_leaf])
  <2>1. g.epoch = (N + 1) - 1 /\ g.epoch_secret = EpochSecret((N + 1) - 1)
    BY <1>1, <1>2, <1>3
  <2>2. DirectPath[g.my_leaf] \in SUBSET DOMAIN c.path
    BY <1>11
  <2>3. QED
    BY <1>1, <1>10, <1>11, <1>12, <2>1, <2>2, AdvancedBy
<1>14. Committed(u, g, op, T, c, after)
  BY <1>2, <1>3, <1>6, <1>8, <1>12, <1>13 DEF Committed
<1>15. QED
  BY <1>14

-----------------------------------------------------------------------------
(***************************************************************************)
(* The steps, told by the history.                                         *)
(***************************************************************************)
\* The history with the tree of one more epoch.
Grown(T, c, N) == [i \in 0 .. (N + 1) |-> IF i = N + 1 THEN Post(T[N], c, N + 1) ELSE T[i]]

\* The welcome that goes with an operation.
Welcomed(g, op) ==
  \/ op.kind # "add" /\ welcome' = welcome
  \/ \E new \in Members, leaf \in Leaves :
       /\ new # Founder /\ welcome[new] = {}
       /\ op = [kind |-> "add", leaf |-> leaf, member |-> {new}]
       /\ welcome' = [welcome EXCEPT ![new] =
            {[nodes |-> g.nodes, epoch |-> g.epoch, epoch_secret |-> g.epoch_secret,
              target_leaf |-> leaf]}]

\* A member commits: ProposeAdd, ProposeRemove, ProposeUpdate.
Makes(T, u, g, op, c, after) ==
  /\ Committed(u, g, op, T, c, after) /\ Welcomed(g, op)
  /\ UNCHANGED <<records, opened>>

\* What u applies commit i to: its group, or the one it joins with.
Ready(u, g, i) ==
  \/ g \in group[u] /\ Uses(u, g)
  \/ /\ group[u] = {}
     /\ \E s \in welcome[u] :
          g = Joining(s)
          /\ commits[i].op = [kind |-> "add", leaf |-> s.target_leaf, member |-> {u}]

\* A member takes commit i: ApplyCommit, Join.
Takes(T, u, g, i, after) ==
  /\ Ready(u, g, i)
  /\ g \in Groups /\ g.epoch = i - 1 /\ g.nodes = T[i - 1]
  /\ CanApply(u, g, commits[i])
  /\ Advanced(g, after, T[i - 1], commits[i], i, Derivable(commits[i], Unseals(u, g, commits[i])))
  /\ group' = [group EXCEPT ![u] = {after}]
  /\ held' = [held EXCEPT ![u] = @ \cup HeldBy(after)]
  /\ UNCHANGED <<commits, welcome, records, opened>>

Hist(T) == CommittersAhead /\ History(T) /\ Invited(T) /\ Synced(T)

HistoryInv == TypeOK /\ \E T : Hist(T)

LEMMA CommitSteps ==
  ASSUME TypeOK, NEW T, Hist(T), NEW u \in Members, Propose(u)
  PROVE  \E g \in group[u], op \in Ops : \E c, after : Makes(T, u, g, op, c, after)
<1>0. Synced(T)
  BY DEF Hist
<1>1. ASSUME NEW new \in Members, ProposeAdd(u, new)
      PROVE  \E g \in group[u], op \in Ops : \E c, after : Makes(T, u, g, op, c, after)
  <2> DEFINE op(leaf) == [kind |-> "add", leaf |-> leaf, member |-> {new}]
  <2>1. PICK g \in group[u], leaf \in Leaves :
          /\ Commit(u, g, op(leaf))
          /\ welcome' = [welcome EXCEPT ![new] =
               {[nodes |-> g.nodes, epoch |-> g.epoch, epoch_secret |-> g.epoch_secret,
                 target_leaf |-> leaf]}]
    BY <1>1 DEF ProposeAdd
  <2>2. op(leaf) \in Ops
    BY DEF Ops
  <2>3. Welcomed(g, op(leaf)) /\ UNCHANGED <<records, opened>>
    BY <1>1, <2>1 DEF Welcomed, ProposeAdd
  <2> HIDE DEF op
  <2>4. \E c, after : Committed(u, g, op(leaf), T, c, after)
    BY <1>0, <2>1, <2>2, CommitEffect
  <2>5. QED
    BY <2>2, <2>3, <2>4 DEF Makes
<1>2. ASSUME NEW leaf \in Leaves, ProposeRemove(u, leaf)
      PROVE  \E g \in group[u], op \in Ops : \E c, after : Makes(T, u, g, op, c, after)
  <2> DEFINE op == [kind |-> "remove", leaf |-> leaf, member |-> {}]
  <2>1. PICK g \in group[u] : Commit(u, g, op)
    BY <1>2 DEF ProposeRemove
  <2>2. op \in Ops
    BY DEF Ops
  <2>3. Welcomed(g, op) /\ UNCHANGED <<records, opened>>
    BY <1>2 DEF Welcomed, ProposeRemove
  <2> HIDE DEF op
  <2>4. \E c, after : Committed(u, g, op, T, c, after)
    BY <1>0, <2>1, <2>2, CommitEffect
  <2>5. QED
    BY <2>2, <2>3, <2>4 DEF Makes
<1>3. ASSUME ProposeUpdate(u)
      PROVE  \E g \in group[u], op \in Ops : \E c, after : Makes(T, u, g, op, c, after)
  <2> DEFINE op(g) == [kind |-> "update", leaf |-> g.my_leaf, member |-> {}]
  <2>1. PICK g \in group[u] : Commit(u, g, op(g))
    BY <1>3 DEF ProposeUpdate
  <2>2. op(g) \in Ops
    BY DEF Ops, TypeOK, Groups
  <2>3. Welcomed(g, op(g)) /\ UNCHANGED <<records, opened>>
    BY <1>3 DEF Welcomed, ProposeUpdate
  <2> HIDE DEF op
  <2>4. \E c, after : Committed(u, g, op(g), T, c, after)
    BY <1>0, <2>1, <2>2, CommitEffect
  <2>5. QED
    BY <2>2, <2>3, <2>4 DEF Makes
<1>4. QED
  BY <1>1, <1>2, <1>3 DEF Propose

\* Applying a commit that fits, to a group of the history.
LEMMA TakeEffect ==
  ASSUME TypeOK, NEW T, Hist(T), NEW u \in Members, NEW i \in DOMAIN commits,
         NEW g \in Groups, InEpoch(g, T), Ready(u, g, i), CanApply(u, g, commits[i]),
         group' = [group EXCEPT ![u] = {Applied(u, g, commits[i])}],
         held' = [held EXCEPT ![u] = @ \cup HeldBy(Applied(u, g, commits[i]))],
         UNCHANGED <<commits, welcome, records, opened>>
  PROVE  Takes(T, u, g, i, Applied(u, g, commits[i]))
<1> DEFINE c == commits[i]
           known == Derivable(c, Unseals(u, g, c))
           after == Applied(u, g, c)
<1>1. i \in Nat \ {0} /\ i \in 1 .. Len(commits) /\ c \in Commits
  BY DEF TypeOK
<1>2. MadeOn(T[i - 1], c, i)
  BY <1>1 DEF Hist, History
<1>3. g.epoch = i - 1
  BY <1>1, <1>2 DEF CanApply, MadeOn, Commits, Groups
<1>4. g.nodes = T[i - 1] /\ g.epoch_secret = EpochSecret(i - 1)
  BY <1>3 DEF InEpoch
<1>5. known \in SUBSET DOMAIN c.path
  BY DerivableType
<1>6. after = Apply(g, Spliced(g.nodes, c.op), c.path, known)
  BY DEF Applied
<1> HIDE DEF known, after, c
<1>7. Advanced(g, after, g.nodes, c, i, known)
  BY <1>1, <1>2, <1>3, <1>4, <1>5, <1>6, AdvancedBy
<1>8. QED
  BY <1>3, <1>4, <1>7 DEF Takes, known, after, c

\* What join starts from is of the epoch before the commit that adds the joiner.
LEMMA JoiningFacts ==
  ASSUME TypeOK, NEW T, Hist(T), NEW u \in Members, NEW s \in welcome[u]
  PROVE  /\ s \in Snapshots /\ Joining(s) \in Groups /\ InEpoch(Joining(s), T)
         /\ Joining(s).my_leaf = s.target_leaf /\ Joining(s).epoch = s.epoch
         /\ Joining(s).known_secrets = [n \in Nodes |-> {}]
         /\ Joining(s).recv_chains = [l \in Leaves |-> {}]
<1>1. s \in Snapshots
  BY DEF TypeOK
<1>2. /\ s.nodes \in Trees /\ s.epoch \in Nat /\ s.epoch_secret \in Seq(Secrets)
      /\ s.target_leaf \in Leaves
  BY <1>1 DEF Snapshots
<1>3. s.nodes = T[s.epoch] /\ s.epoch_secret = EpochSecret(s.epoch) /\ s.epoch < Len(commits)
  BY DEF Hist, Invited
<1> DEFINE tree == s.nodes
           epoch == s.epoch
           secret == s.epoch_secret
           leaf == s.target_leaf
<1>4. /\ Joining(s) \in Groups /\ Joining(s).nodes = tree /\ Joining(s).epoch = epoch
      /\ Joining(s).epoch_secret = secret /\ Joining(s).my_leaf = leaf
      /\ Joining(s).known_secrets = [n \in Nodes |-> {}]
      /\ Joining(s).send_chain = SenderChain(secret, leaf)
      /\ Joining(s).recv_chains = [l \in Leaves |-> {}]
  <2>1. Joining(s) = NewGroup(tree, epoch, secret, leaf)
    BY DEF Joining
  <2>2. tree \in Trees /\ epoch \in Nat /\ secret \in Seq(Secrets) /\ leaf \in Leaves
    BY <1>2
  <2> HIDE DEF tree, epoch, secret, leaf
  <2>3. Fresh(NewGroup(tree, epoch, secret, leaf), tree, epoch, secret, leaf)
    BY <2>2, NewGroupType
  <2>4. QED
    BY <2>1, <2>3 DEF Fresh
<1>5. Len(commits) \in Nat
  BY DEF TypeOK
<1>6. InEpoch(Joining(s), T)
  BY <1>2, <1>3, <1>4, <1>5 DEF InEpoch, SenderChain
<1>7. QED
  BY <1>1, <1>4, <1>6

LEMMA TakeSteps ==
  ASSUME TypeOK, NEW T, Hist(T), NEW u \in Members, NEW i \in DOMAIN commits,
         ApplyCommit(u, commits[i]) \/ Join(u, commits[i])
  PROVE  \E g, after : Takes(T, u, g, i, after)
<1>1. CASE ApplyCommit(u, commits[i])
  <2>1. PICK g \in group[u] :
          /\ Uses(u, g) /\ CanApply(u, g, commits[i])
          /\ group' = [group EXCEPT ![u] = {Applied(u, g, commits[i])}]
          /\ held' = [held EXCEPT ![u] = @ \cup HeldBy(Applied(u, g, commits[i]))]
    BY <1>1 DEF ApplyCommit
  <2>2. g \in Groups /\ InEpoch(g, T)
    BY DEF TypeOK, Hist, Synced
  <2>3. Ready(u, g, i) /\ UNCHANGED <<commits, welcome, records, opened>>
    BY <1>1, <2>1 DEF Ready, ApplyCommit
  <2>4. QED
    BY <2>1, <2>2, <2>3, TakeEffect
<1>2. CASE Join(u, commits[i])
  <2>1. PICK s \in welcome[u] :
          /\ CanJoin(u, s, commits[i])
          /\ group' = [group EXCEPT ![u] = {Applied(u, Joining(s), commits[i])}]
          /\ held' = [held EXCEPT ![u] = @ \cup HeldBy(Applied(u, Joining(s), commits[i]))]
    BY <1>2 DEF Join
  <2>2. Joining(s) \in Groups /\ InEpoch(Joining(s), T)
    BY JoiningFacts
  <2>3. /\ Ready(u, Joining(s), i) /\ UNCHANGED <<commits, welcome, records, opened>>
        /\ CanApply(u, Joining(s), commits[i])
    BY <1>2, <2>1 DEF Ready, Join, CanJoin
  <2>4. QED
    BY <2>1, <2>2, <2>3, TakeEffect
<1>3. QED
  BY <1>1, <1>2

\* An operation's welcome is the only new one.
LEMMA WelcomedFacts ==
  ASSUME TypeOK, NEW T, Hist(T), NEW u \in Members, NEW g \in group[u], NEW op \in Ops,
         NEW c, NEW after, Makes(T, u, g, op, c, after)
  PROVE  /\ \A v \in Members : welcome[v] # {} => welcome'[v] = welcome[v]
         /\ op.kind = "add" =>
              \E v \in Members :
                op.member = {v} /\ Home(welcome', v, op.leaf, Len(commits) + 1)
         /\ \A v \in Members : \A s \in welcome'[v] :
              \/ s \in welcome[v] /\ welcome'[v] = welcome[v]
              \/ /\ v # Founder /\ welcome'[v] = {s} /\ s.target_leaf = op.leaf
                 /\ s.epoch = g.epoch /\ s.nodes = g.nodes /\ s.epoch_secret = g.epoch_secret
                 /\ op = [kind |-> "add", leaf |-> s.target_leaf, member |-> {v}]
                 /\ welcome[v] = {}
<1>1. g.epoch = Len(commits) /\ welcome \in [Members -> SUBSET Snapshots]
  BY DEF Makes, Committed, TypeOK
<1>2. CASE op.kind # "add" /\ welcome' = welcome
  BY <1>2
<1>3. CASE \E new \in Members, leaf \in Leaves :
             /\ new # Founder /\ welcome[new] = {}
             /\ op = [kind |-> "add", leaf |-> leaf, member |-> {new}]
             /\ welcome' = [welcome EXCEPT ![new] =
                  {[nodes |-> g.nodes, epoch |-> g.epoch, epoch_secret |-> g.epoch_secret,
                    target_leaf |-> leaf]}]
  <2>1. PICK new \in Members, leaf \in Leaves :
             /\ new # Founder /\ welcome[new] = {}
             /\ op = [kind |-> "add", leaf |-> leaf, member |-> {new}]
             /\ welcome' = [welcome EXCEPT ![new] =
                  {[nodes |-> g.nodes, epoch |-> g.epoch, epoch_secret |-> g.epoch_secret,
                    target_leaf |-> leaf]}]
    BY <1>3
  <2> DEFINE s == [nodes |-> g.nodes, epoch |-> g.epoch, epoch_secret |-> g.epoch_secret,
                   target_leaf |-> leaf]
  <2>2. welcome'[new] = {s} /\ \A v \in Members : v # new => welcome'[v] = welcome[v]
    BY <1>1, <2>1
  <2>3. s.target_leaf = leaf /\ s.epoch = g.epoch /\ s.nodes = g.nodes
        /\ s.epoch_secret = g.epoch_secret
    OBVIOUS
  <2> HIDE DEF s
  <2>4. Home(welcome', new, leaf, Len(commits) + 1)
    BY <1>1, <2>1, <2>2, <2>3 DEF Home
  <2>5. op.member = {new} /\ op.leaf = leaf
    BY <2>1
  <2>6. QED
    BY <2>1, <2>2, <2>3, <2>4, <2>5
<1>4. QED
  BY <1>2, <1>3 DEF Makes, Welcomed

LEMMA HistoryCommit ==
  ASSUME TypeOK, NEW T, Hist(T), NEW u \in Members, NEW g \in group[u], NEW op \in Ops,
         NEW c, NEW after, Makes(T, u, g, op, c, after),
         NEW TT, TT = Grown(T, c, Len(commits))
  PROVE  Hist(TT)'
<1> DEFINE N == Len(commits)
<1>1. /\ commits \in Seq(Commits) /\ N \in Nat /\ c \in Commits
      /\ group \in [Members -> SUBSET Groups] /\ g \in Groups
  BY DEF TypeOK, Makes, Committed, MadeOn
<1>2. /\ g.epoch = N /\ MadeOn(T[N], c, N + 1) /\ c.sender_leaf = g.my_leaf /\ c.signer = u
      /\ c.op = op /\ Advanced(g, after, T[N], c, N + 1, DirectPath[g.my_leaf])
      /\ commits' = Append(commits, c) /\ group' = [group EXCEPT ![u] = {after}]
  BY DEF Makes, Committed
<1>3. /\ Len(commits') = N + 1 /\ commits'[N + 1] = c
      /\ \A i \in 1 .. N : commits'[i] = commits[i]
  BY <1>1, <1>2
<1>4. TT[N + 1] = Post(T[N], c, N + 1) /\ \A i \in 0 .. N : TT[i] = T[i]
  BY <1>1 DEF Grown
<1>5. group'[u] = {after} /\ \A v \in Members : v # u => group'[v] = group[v]
  BY <1>1, <1>2
<1>6. /\ after.epoch = N + 1 /\ after.my_leaf = g.my_leaf /\ after.nodes = Post(T[N], c, N + 1)
      /\ after.epoch_secret = EpochSecret(N + 1)
      /\ after.send_chain = SenderChain(EpochSecret(N + 1), g.my_leaf)
  BY <1>2 DEF Advanced
<1>7. /\ \A v \in Members : welcome[v] # {} => welcome'[v] = welcome[v]
      /\ op.kind = "add" =>
           \E v \in Members : op.member = {v} /\ Home(welcome', v, op.leaf, N + 1)
      /\ \A v \in Members : \A s \in welcome'[v] :
           \/ s \in welcome[v] /\ welcome'[v] = welcome[v]
           \/ /\ v # Founder /\ welcome'[v] = {s} /\ s.target_leaf = op.leaf
              /\ s.epoch = g.epoch /\ s.nodes = g.nodes /\ s.epoch_secret = g.epoch_secret
              /\ op = [kind |-> "add", leaf |-> s.target_leaf, member |-> {v}]
              /\ welcome[v] = {}
  BY WelcomedFacts
<1>8. \A l, e : \A v \in Members : Home(welcome, v, l, e) => Home(welcome', v, l, e)
  BY <1>7, HomeStays
<1> HIDE DEF N
<1>9. CommittersAhead'
  <2> SUFFICES ASSUME NEW i \in 1 .. (N + 1)
               PROVE  /\ group'[commits'[i].signer] # {}
                      /\ \A h \in group'[commits'[i].signer] : h.epoch >= i
    BY <1>3 DEF CommittersAhead
  <2>1. N + 1 >= i /\ (i = N + 1 \/ i \in 1 .. N)
    BY <1>1
  <2>2. CASE i = N + 1
    <3>1. commits'[i].signer = u
      BY <1>2, <1>3, <2>2
    <3>2. QED
      BY <1>5, <1>6, <2>1, <3>1
  <2>3. CASE i \in 1 .. N
    <3>1. commits[i] \in Commits
      BY <1>1, <2>3 DEF N
    <3>2. commits'[i] = commits[i] /\ commits[i].signer \in Members
      BY <1>3, <2>3, <3>1 DEF Commits
    <3>3. /\ group[commits[i].signer] # {}
          /\ \A h \in group[commits[i].signer] : h.epoch >= i
      BY <2>3 DEF Hist, CommittersAhead, N
    <3>4. CASE commits[i].signer = u
      BY <1>5, <1>6, <2>1, <3>2, <3>4
    <3>5. CASE commits[i].signer # u
      BY <1>5, <3>2, <3>3, <3>5
    <3>6. QED
      BY <3>4, <3>5
  <2>4. QED
    BY <2>1, <2>2, <2>3
<1>10. History(TT)'
  <2>1. ASSUME NEW i \in 0 .. (N + 1)
        PROVE  Populated(welcome', TT[i], i)
    <3>1. CASE i = N + 1
      <4>1. Populated(welcome, T[N], N)
        BY <1>1 DEF Hist, History, N
      <4>2. Populated(welcome', T[N], N)
        BY <1>1, <1>7, <4>1, PopulatedStays
      <4>3. (N + 1) - 1 = N /\ N + 1 \in Nat \ {0}
        BY <1>1
      <4>4. Populated(welcome', Post(T[N], c, N + 1), N + 1)
        BY <1>2, <1>7, <4>2, <4>3, PopulatedPost
      <4>5. QED
        BY <1>4, <3>1, <4>4
    <3>2. CASE i # N + 1
      <4>1. i \in 0 .. N /\ i \in Nat
        BY <1>1, <3>2
      <4>2. Populated(welcome, T[i], i)
        BY <4>1 DEF Hist, History, N
      <4>3. Populated(welcome', T[i], i)
        BY <1>7, <4>1, <4>2, PopulatedStays
      <4>4. QED
        BY <1>4, <4>1, <4>3
    <3>3. QED
      BY <3>1, <3>2
  <2>2. ASSUME NEW i \in 1 .. (N + 1)
        PROVE  /\ MadeOn(TT[i - 1], commits'[i], i)
               /\ TT[i] = Post(TT[i - 1], commits'[i], i)
               /\ commits'[i].op.kind = "add" =>
                    \E v \in Members : commits'[i].op.member = {v}
                                       /\ Home(welcome', v, commits'[i].op.leaf, i)
    <3>1. CASE i = N + 1
      <4>1. i - 1 = N /\ TT[N] = T[N]
        BY <1>1, <1>4, <3>1
      <4>2. commits'[i] = c /\ TT[i - 1] = T[N] /\ TT[i] = Post(T[N], c, i) /\ c.op = op
        BY <1>2, <1>3, <1>4, <3>1, <4>1
      <4>3. MadeOn(T[N], c, i)
        BY <1>2, <3>1
      <4>4. op.kind = "add" =>
              \E v \in Members : op.member = {v} /\ Home(welcome', v, op.leaf, i)
        BY <1>7, <3>1
      <4>5. QED
        BY <4>2, <4>3, <4>4
    <3>2. CASE i # N + 1
      <4>1. i \in 1 .. N /\ i - 1 \in 0 .. N /\ i \in 0 .. N
        BY <1>1, <3>2
      <4>2. commits'[i] = commits[i] /\ TT[i] = T[i] /\ TT[i - 1] = T[i - 1]
        BY <1>3, <1>4, <4>1
      <4>3. /\ MadeOn(T[i - 1], commits[i], i) /\ T[i] = Post(T[i - 1], commits[i], i)
            /\ commits[i].op.kind = "add" =>
                 \E v \in Members : commits[i].op.member = {v}
                                    /\ Home(welcome, v, commits[i].op.leaf, i)
        BY <4>1 DEF Hist, History, N
      <4>4. QED
        BY <1>8, <4>2, <4>3
    <3>3. QED
      BY <3>1, <3>2
  <2>3. QED
    BY <1>3, <2>1, <2>2 DEF History
<1>11. Invited(TT)'
  <2> SUFFICES ASSUME NEW v \in Members, NEW s \in welcome'[v]
               PROVE  /\ v # Founder /\ s.epoch < N + 1 /\ \A t \in welcome'[v] : t = s
                      /\ s.nodes = TT[s.epoch] /\ s.epoch_secret = EpochSecret(s.epoch)
                      /\ commits'[s.epoch + 1].op
                           = [kind |-> "add", leaf |-> s.target_leaf, member |-> {v}]
    BY <1>3 DEF Invited
  <2>1. CASE s \in welcome[v] /\ welcome'[v] = welcome[v]
    <3>1. /\ v # Founder /\ s.epoch < N /\ \A t \in welcome[v] : t = s
          /\ s.nodes = T[s.epoch] /\ s.epoch_secret = EpochSecret(s.epoch)
          /\ commits[s.epoch + 1].op
               = [kind |-> "add", leaf |-> s.target_leaf, member |-> {v}]
      BY <2>1 DEF Hist, Invited, N
    <3>2. s.epoch \in Nat
      BY <2>1 DEF TypeOK, Snapshots
    <3>3. s.epoch \in 0 .. N /\ s.epoch + 1 \in 1 .. N /\ s.epoch < N + 1
      BY <1>1, <3>1, <3>2
    <3>4. commits'[s.epoch + 1] = commits[s.epoch + 1] /\ TT[s.epoch] = T[s.epoch]
      BY <1>3, <1>4, <3>3
    <3>5. QED
      BY <2>1, <3>1, <3>3, <3>4
  <2>2. CASE /\ v # Founder /\ welcome'[v] = {s} /\ s.target_leaf = op.leaf
             /\ s.epoch = g.epoch /\ s.nodes = g.nodes /\ s.epoch_secret = g.epoch_secret
             /\ op = [kind |-> "add", leaf |-> s.target_leaf, member |-> {v}]
             /\ welcome[v] = {}
    <3>1. g.nodes = T[N] /\ g.epoch_secret = EpochSecret(N) /\ TT[N] = T[N] /\ N < N + 1
      BY <1>1, <1>2, <1>4 DEF Hist, Synced, InEpoch
    <3>2. QED
      BY <1>2, <1>3, <2>2, <3>1
  <2>3. QED
    BY <1>7, <2>1, <2>2
<1>12. Synced(TT)'
  <2> SUFFICES ASSUME NEW v \in Members, NEW h \in group'[v]
               PROVE  /\ group'[v] = {h} /\ h.epoch <= N + 1 /\ h.nodes = TT[h.epoch]
                      /\ h.epoch_secret = EpochSecret(h.epoch)
                      /\ h.send_chain.secret = h.epoch_secret /\ h.send_chain.leaf = h.my_leaf
                      /\ \E e \in 0 .. h.epoch : Home(welcome', v, h.my_leaf, e)
    BY <1>3 DEF Synced, InEpoch
  <2>1. CASE v = u
    <3>1. h = after
      BY <1>5, <2>1
    <3>2. PICK e \in 0 .. g.epoch : Home(welcome, u, g.my_leaf, e)
      BY DEF Hist, Synced
    <3>3. e \in 0 .. (N + 1) /\ Home(welcome', u, g.my_leaf, e)
      BY <1>1, <1>2, <1>8, <3>2
    <3>4. h.send_chain.secret = EpochSecret(N + 1) /\ h.send_chain.leaf = g.my_leaf
      BY <1>6, <3>1 DEF SenderChain
    <3>5. group'[v] = {h} /\ h.nodes = TT[N + 1] /\ N + 1 <= N + 1
      BY <1>1, <1>4, <1>5, <1>6, <2>1, <3>1
    <3>6. QED
      BY <1>6, <2>1, <3>1, <3>3, <3>4, <3>5
  <2>2. CASE v # u
    <3>1. h \in group[v] /\ h \in Groups /\ h.epoch \in Nat
      BY <1>1, <1>5, <2>2 DEF Groups
    <3>2. /\ group[v] = {h} /\ h.epoch <= N /\ h.nodes = T[h.epoch] /\ h.epoch_secret = EpochSecret(h.epoch)
          /\ h.send_chain.secret = h.epoch_secret /\ h.send_chain.leaf = h.my_leaf
          /\ \E e \in 0 .. h.epoch : Home(welcome, v, h.my_leaf, e)
      BY <3>1 DEF Hist, Synced, InEpoch, N
    <3>3. h.epoch \in 0 .. N /\ h.epoch <= N + 1
      BY <1>1, <3>1, <3>2
    <3>4. group'[v] = {h} /\ TT[h.epoch] = T[h.epoch]
      BY <1>4, <1>5, <2>2, <3>2, <3>3
    <3>5. QED
      BY <1>8, <3>2, <3>3, <3>4
  <2>3. QED
    BY <2>1, <2>2
<1>13. QED
  BY <1>9, <1>10, <1>11, <1>12 DEF Hist

\* A member's group moves to another place in the same history.
LEMMA HistorySame ==
  ASSUME TypeOK, NEW T, Hist(T), NEW u \in Members, NEW after \in Groups,
         group' = [group EXCEPT ![u] = {after}], UNCHANGED <<commits, welcome>>,
         InEpoch(after, T), \E e \in 0 .. after.epoch : Home(welcome, u, after.my_leaf, e),
         \A g \in group[u] : after.epoch >= g.epoch
  PROVE  Hist(T)'
<1>1. group'[u] = {after} /\ \A v \in Members : v # u => group'[v] = group[v]
  BY DEF TypeOK
<1>2. commits' = commits /\ welcome' = welcome
  OBVIOUS
<1>3. CommittersAhead'
  <2> SUFFICES ASSUME NEW i \in 1 .. Len(commits)
               PROVE  /\ group'[commits[i].signer] # {}
                      /\ \A h \in group'[commits[i].signer] : h.epoch >= i
    BY <1>2 DEF CommittersAhead
  <2>1. commits[i] \in Commits
    BY DEF TypeOK
  <2>2. commits[i].signer \in Members
    BY <2>1 DEF Commits
  <2>3. group[commits[i].signer] # {} /\ \A h \in group[commits[i].signer] : h.epoch >= i
    BY DEF Hist, CommittersAhead
  <2>4. CASE commits[i].signer = u
    <3>1. PICK h \in group[u] : h.epoch >= i
      BY <2>3, <2>4
    <3>2. h.epoch \in Nat /\ after.epoch \in Nat /\ after.epoch >= h.epoch
      BY DEF TypeOK, Groups
    <3>3. after.epoch >= i
      BY <3>1, <3>2
    <3>4. QED
      BY <1>1, <2>4, <3>3
  <2>5. CASE commits[i].signer # u
    BY <1>1, <2>2, <2>3, <2>5
  <2>6. QED
    BY <2>4, <2>5
<1>4. History(T)' /\ Invited(T)'
  <2>1. History(T) /\ Invited(T)
    BY DEF Hist
  <2>2. History(T)'
    BY <1>2, <2>1, Zenon DEF History
  <2>3. Invited(T)'
    BY <1>2, <2>1, Zenon DEF Invited
  <2>4. QED
    BY <2>2, <2>3
<1>5. Synced(T)'
  BY <1>1, <1>2 DEF Hist, Synced, InEpoch
<1>6. QED
  BY <1>3, <1>4, <1>5 DEF Hist

\* What a member takes up a commit with is of the history, and at home.
LEMMA ReadyFacts ==
  ASSUME TypeOK, NEW T, Hist(T), NEW u \in Members, NEW g, NEW i \in Nat, Ready(u, g, i),
         g.epoch = i - 1
  PROVE  /\ g \in Groups /\ InEpoch(g, T)
         /\ \E e \in 0 .. i : Home(welcome, u, g.my_leaf, e)
<1>1. CASE g \in group[u]
  <2>1. g \in Groups /\ InEpoch(g, T)
    BY <1>1 DEF TypeOK, Hist, Synced
  <2>2. PICK e \in 0 .. g.epoch : Home(welcome, u, g.my_leaf, e)
    BY <1>1 DEF Hist, Synced
  <2>3. e \in 0 .. i
    BY <2>2
  <2>4. QED
    BY <2>1, <2>2, <2>3
<1>2. CASE \E s \in welcome[u] : g = Joining(s)
  <2>1. PICK s \in welcome[u] : g = Joining(s)
    BY <1>2
  <2>2. g \in Groups /\ InEpoch(g, T) /\ g.my_leaf = s.target_leaf /\ g.epoch = s.epoch
    BY <2>1, JoiningFacts
  <2>3. u # Founder
    BY DEF Hist, Invited
  <2>4. Home(welcome, u, g.my_leaf, s.epoch + 1) /\ s.epoch + 1 = i /\ i \in 0 .. i
    <3>1. s.epoch \in Nat
      BY DEF TypeOK, Snapshots
    <3>2. s.epoch + 1 = i /\ i \in 0 .. i
      BY <2>2, <3>1
    <3>3. Home(welcome, u, g.my_leaf, s.epoch + 1)
      BY <2>2, <2>3 DEF Home
    <3>4. QED
      BY <3>2, <3>3
  <2>5. QED
    BY <2>2, <2>4
<1>3. QED
  BY <1>1, <1>2 DEF Ready

LEMMA HistoryTake ==
  ASSUME TypeOK, NEW T, Hist(T), NEW u \in Members, NEW i \in DOMAIN commits,
         NEW g, NEW after, Takes(T, u, g, i, after)
  PROVE  Hist(T)'
<1>1. i \in 1 .. Len(commits) /\ i \in Nat
  BY DEF TypeOK
<1>2. /\ g \in Groups /\ g.epoch = i - 1 /\ Ready(u, g, i)
      /\ group' = [group EXCEPT ![u] = {after}] /\ UNCHANGED <<commits, welcome>>
      /\ Advanced(g, after, T[i - 1], commits[i], i,
                  Derivable(commits[i], Unseals(u, g, commits[i])))
  BY DEF Takes
<1>3. /\ after \in Groups /\ after.nodes = Post(T[i - 1], commits[i], i)
      /\ after.epoch = i /\ after.epoch_secret = EpochSecret(i) /\ after.my_leaf = g.my_leaf
      /\ after.send_chain = SenderChain(EpochSecret(i), g.my_leaf)
  BY <1>2 DEF Advanced
<1>4. T[i] = Post(T[i - 1], commits[i], i)
  BY <1>1 DEF Hist, History
<1>5. InEpoch(after, T)
  BY <1>1, <1>3, <1>4 DEF InEpoch, SenderChain
<1>6. \E e \in 0 .. after.epoch : Home(welcome, u, after.my_leaf, e)
  BY <1>1, <1>2, <1>3, ReadyFacts
<1>7. \A h \in group[u] : after.epoch >= h.epoch
  <2> SUFFICES ASSUME NEW h \in group[u] PROVE after.epoch >= h.epoch
    OBVIOUS
  <2>1. h = g
    BY <1>2 DEF Ready, Hist, Synced
  <2>2. QED
    BY <1>1, <1>2, <1>3, <2>1
<1>8. QED
  BY <1>2, <1>3, <1>5, <1>6, <1>7, HistorySame

LEMMA HistorySeal ==
  ASSUME TypeOK, NEW T, Hist(T), NEW u \in Members, Seal(u)
  PROVE  Hist(T)'
<1>1. PICK g \in group[u] :
        group' = [group EXCEPT ![u] = {[g EXCEPT !.send_chain.pos = @ + 1]}]
  BY DEF Seal
<1> DEFINE after == [g EXCEPT !.send_chain.pos = @ + 1]
<1>2. g \in Groups /\ g.send_chain \in Chains
  BY DEF TypeOK, Groups
<1>3. after \in Groups /\ after = [g EXCEPT !.send_chain = [g.send_chain EXCEPT !.pos = @ + 1]]
  BY <1>2, SealedType
<1> HIDE DEF after
<1>4. /\ after.epoch = g.epoch /\ after.nodes = g.nodes /\ after.my_leaf = g.my_leaf
      /\ after.epoch_secret = g.epoch_secret
      /\ after.send_chain = [g.send_chain EXCEPT !.pos = @ + 1]
  BY <1>2, <1>3 DEF Groups
<1>5. after.send_chain.secret = g.send_chain.secret /\ after.send_chain.leaf = g.send_chain.leaf
  BY <1>2, <1>4 DEF Chains
<1>6. InEpoch(g, T) /\ group[u] = {g} /\ \E e \in 0 .. g.epoch : Home(welcome, u, g.my_leaf, e)
  BY DEF Hist, Synced
<1>7. InEpoch(after, T)
  BY <1>4, <1>5, <1>6 DEF InEpoch
<1>8. g.epoch \in Nat /\ group' = [group EXCEPT ![u] = {after}] /\ UNCHANGED <<commits, welcome>>
  BY <1>1, <1>2 DEF Seal, Groups, after
<1>9. \A h \in group[u] : after.epoch >= h.epoch
  BY <1>4, <1>6, <1>8
<1>10. \E e \in 0 .. after.epoch : Home(welcome, u, after.my_leaf, e)
  BY <1>4, <1>6
<1>11. QED
  BY <1>3, <1>7, <1>8, <1>9, <1>10, HistorySame

LEMMA HistoryOpen ==
  ASSUME TypeOK, NEW T, Hist(T), NEW u \in Members, NEW r \in records, Open(u, r)
  PROVE  Hist(T)'
<1>1. PICK g \in group[u] : group' = [group EXCEPT ![u] = {Opened(g, r.leaf)}]
  BY DEF Open
<1> DEFINE after == Opened(g, r.leaf)
           chains == [g.recv_chains EXCEPT ![r.leaf] = {[RecvChain(g, r.leaf) EXCEPT !.pos = @ + 1]}]
<1>2. g \in Groups /\ r.leaf \in Leaves
  BY DEF TypeOK, Records
<1>3. after \in Groups /\ after = [g EXCEPT !.recv_chains = chains]
  BY <1>2, OpenedType
<1> HIDE DEF after, chains
<1>4. /\ after.epoch = g.epoch /\ after.nodes = g.nodes /\ after.my_leaf = g.my_leaf
      /\ after.epoch_secret = g.epoch_secret /\ after.send_chain = g.send_chain
  BY <1>2, <1>3 DEF Groups
<1>5. InEpoch(g, T) /\ group[u] = {g} /\ \E e \in 0 .. g.epoch : Home(welcome, u, g.my_leaf, e)
  BY DEF Hist, Synced
<1>6. InEpoch(after, T)
  BY <1>4, <1>5 DEF InEpoch
<1>7. g.epoch \in Nat /\ group' = [group EXCEPT ![u] = {after}] /\ UNCHANGED <<commits, welcome>>
  BY <1>1, <1>2 DEF Open, Groups, after
<1>8. \A h \in group[u] : after.epoch >= h.epoch
  BY <1>4, <1>5, <1>7
<1>9. \E e \in 0 .. after.epoch : Home(welcome, u, after.my_leaf, e)
  BY <1>4, <1>5
<1>10. QED
  BY <1>3, <1>6, <1>7, <1>8, <1>9, HistorySame

LEMMA HistoryInit ==
  ASSUME Init
  PROVE  \E T : Hist(T)
<1> DEFINE tree == [n \in Nodes |-> IF n = LeafNode(0) THEN {Founder} ELSE {}]
           g == NewGroup(tree, 0, <<>>, 0)
           T == [i \in {0} |-> tree]
<1>1. TypeOK /\ tree \in Trees
  BY TypeInit, GroupAssumption DEF Trees, Keys
<1>2. Fresh(g, tree, 0, <<>>, 0)
  <2>1. <<>> \in Seq(Secrets) /\ 0 \in Nat /\ 0 \in Leaves
    BY NodesFacts
  <2> HIDE DEF tree
  <2>2. QED
    BY <1>1, <2>1, NewGroupType
<1>3. /\ group = [u \in Members |-> IF u = Founder THEN {g} ELSE {}]
      /\ commits = <<>> /\ welcome = [u \in Members |-> {}]
  BY DEF Init
<1>4. EpochSecret(0) = <<>>
  BY DEF EpochSecret
<1> HIDE DEF g
<1>5. Populated(welcome, tree, 0)
  <2>1. ASSUME NEW l \in Leaves, tree[LeafNode(l)] # {}
        PROVE  \E u \in Members, e \in 0 .. 0 :
                 tree[LeafNode(l)] = {u} /\ Home(welcome, u, l, e)
    <3>1. LeafNode(l) \in Nodes /\ 0 \in Leaves
      BY LeavesFacts, NodesFacts
    <3>2. tree[LeafNode(l)] = {Founder} /\ LeafNode(l) = LeafNode(0)
      BY <2>1, <3>1
    <3>3. l = 0
      BY <3>1, <3>2, LeavesFacts
    <3>4. Home(welcome, Founder, l, 0) /\ 0 \in 0 .. 0 /\ Founder \in Members
      BY <3>3, GroupAssumption DEF Home
    <3>5. QED
      BY <3>2, <3>4
  <2>2. ASSUME NEW n \in Nodes, n <= Capacity - 2
        PROVE  tree[n] = {}
    BY <2>2, NodesFacts DEF LeafNode, Nodes
  <2>3. QED
    BY <1>1, <2>1, <2>2 DEF Populated
<1>6. T[0] = tree
  OBVIOUS
<1> HIDE DEF T, tree
<1>7. CommittersAhead /\ Invited(T)
  BY <1>3 DEF CommittersAhead, Invited
<1>8. History(T)
  <2>1. Len(commits) = 0 /\ 0 .. 0 = {0} /\ 1 .. 0 = {}
    BY <1>3
  <2>2. QED
    BY <1>5, <1>6, <2>1 DEF History
<1>9. Synced(T)
  <2> SUFFICES ASSUME NEW u \in Members, NEW h \in group[u]
               PROVE  /\ group[u] = {h} /\ InEpoch(h, T)
                      /\ \E e \in 0 .. h.epoch : Home(welcome, u, h.my_leaf, e)
    BY DEF Synced
  <2>1. u = Founder /\ h = g /\ group[u] = {g}
    BY <1>3
  <2>2. /\ g.nodes = tree /\ g.epoch = 0 /\ g.epoch_secret = <<>> /\ g.my_leaf = 0
        /\ g.send_chain = SenderChain(<<>>, 0)
    BY <1>2 DEF Fresh
  <2>3. InEpoch(g, T)
    <3>1. Len(commits) = 0
      BY <1>3
    <3>2. QED
      BY <1>4, <1>6, <2>2, <3>1 DEF InEpoch, SenderChain
  <2>4. Home(welcome, u, g.my_leaf, 0) /\ 0 \in 0 .. g.epoch
    BY <2>1, <2>2 DEF Home
  <2>5. QED
    BY <2>1, <2>3, <2>4
<1>10. QED
  BY <1>7, <1>8, <1>9 DEF Hist

\* A step extends the history or stays in it.
Follows(T, TT) ==
  \/ /\ TT = T
     /\ \/ \E u \in Members : \E i \in DOMAIN commits : \E g, after : Takes(T, u, g, i, after)
        \/ \E u \in Members : Seal(u) \/ \E r \in records : Open(u, r)
        \/ UNCHANGED vars
  \/ \E u \in Members : \E g \in group[u], op \in Ops : \E c, after :
       Makes(T, u, g, op, c, after) /\ TT = Grown(T, c, Len(commits))

LEMMA HistoryFollows ==
  ASSUME TypeOK, NEW T, Hist(T), [Next]_vars
  PROVE  \E TT : Follows(T, TT)
<1>1. ASSUME NEW u \in Members, Propose(u)
      PROVE  \E TT : Follows(T, TT)
  BY <1>1, CommitSteps DEF Follows
<1>2. ASSUME NEW u \in Members, NEW i \in DOMAIN commits,
             ApplyCommit(u, commits[i]) \/ Join(u, commits[i])
      PROVE  Follows(T, T)
  BY <1>2, TakeSteps DEF Follows
<1>3. ASSUME NEW u \in Members, Seal(u) \/ \E r \in records : Open(u, r)
      PROVE  Follows(T, T)
  BY <1>3 DEF Follows
<1>4. CASE UNCHANGED vars
  BY <1>4 DEF Follows
<1>5. QED
  BY <1>1, <1>2, <1>3, <1>4 DEF Next

LEMMA HistoryStays ==
  ASSUME TypeOK, NEW T, Hist(T), NEW TT, Follows(T, TT)
  PROVE  Hist(TT)'
<1>1. CASE UNCHANGED vars /\ TT = T
  BY <1>1 DEF vars, Hist, CommittersAhead, History, Invited, Synced, InEpoch
<1>2. ASSUME NEW u \in Members, NEW i \in DOMAIN commits, NEW g, NEW after,
             Takes(T, u, g, i, after)
      PROVE  Hist(T)'
  BY <1>2, HistoryTake
<1>3. ASSUME NEW u \in Members, Seal(u) \/ \E r \in records : Open(u, r)
      PROVE  Hist(T)'
  BY <1>3, HistorySeal, HistoryOpen
<1>4. ASSUME NEW u \in Members, NEW g \in group[u], NEW op \in Ops, NEW c, NEW after,
             Makes(T, u, g, op, c, after), TT = Grown(T, c, Len(commits))
      PROVE  Hist(TT)'
  BY <1>4, HistoryCommit
<1>5. QED
  BY <1>1, <1>2, <1>3, <1>4 DEF Follows

LEMMA HistoryInductive ==
  /\ Init => HistoryInv
  /\ HistoryInv /\ [Next]_vars => HistoryInv'
<1>1. Init => HistoryInv
  BY TypeInit, HistoryInit DEF HistoryInv
<1>2. ASSUME HistoryInv, [Next]_vars PROVE HistoryInv'
  <2>1. TypeOK'
    BY <1>2, TypeNext DEF HistoryInv
  <2>2. PICK T : Hist(T)
    BY <1>2 DEF HistoryInv
  <2>3. PICK TT : Follows(T, TT)
    BY <1>2, <2>2, HistoryFollows DEF HistoryInv
  <2>4. Hist(TT)'
    BY <1>2, <2>2, <2>3, HistoryStays DEF HistoryInv
  <2>5. QED
    BY <2>1, <2>4 DEF HistoryInv
<1>3. QED
  BY <1>1, <1>2

(***************************************************************************)
(* Members of one epoch agree on its tree and its secret, however they     *)
(* came to it, for any capacity and members: both are those of the         *)
(* history of commits, and every commit is applied to the tree it was made *)
(* on.                                                                     *)
(***************************************************************************)
THEOREM MembersAgree == Spec => []Agreement
<1>1. HistoryInv => Agreement
  BY DEF HistoryInv, Hist, Synced, InEpoch, Agreement
<1>2. QED
  BY <1>1, HistoryInductive, PTL DEF Spec

-----------------------------------------------------------------------------
(***************************************************************************)
(* What a member knows of its path.                                        *)
(***************************************************************************)
\* A splice changes no populated inner node, and no leaf but the operation's.
LEMMA SplicedNode ==
  ASSUME NEW tree \in Trees, NEW op \in Ops
  PROVE  /\ \A n \in Nodes : n <= Capacity - 2 /\ Spliced(tree, op)[n] # {} =>
              Spliced(tree, op)[n] = tree[n]
         /\ \A l \in Leaves : l # op.leaf =>
              Spliced(tree, op)[LeafNode(l)] = tree[LeafNode(l)]
<1>1. op.leaf \in Leaves /\ tree \in [Nodes -> SUBSET Keys]
  BY DEF Ops, Trees
<1>2. ASSUME NEW n \in Nodes, n <= Capacity - 2, Spliced(tree, op)[n] # {}
      PROVE  Spliced(tree, op)[n] = tree[n]
  <2>1. n # LeafNode(op.leaf)
    BY <1>1, <1>2, NodesFacts DEF LeafNode, Leaves, Nodes
  <2>2. QED
    BY <1>2, <2>1, SplicedType
<1>3. ASSUME NEW l \in Leaves, l # op.leaf
      PROVE  Spliced(tree, op)[LeafNode(l)] = tree[LeafNode(l)]
  <2>1. /\ LeafNode(l) \in Nodes /\ LeafNode(l) # LeafNode(op.leaf)
        /\ LeafNode(l) \notin DirectPath[op.leaf]
    BY <1>1, <1>3, LeavesFacts
  <2>2. CASE op.kind = "add"
    <3>1. Spliced(tree, op) = [tree EXCEPT ![LeafNode(op.leaf)] = op.member]
      BY <2>2 DEF Spliced
    <3>2. QED
      BY <1>1, <2>1, <3>1
  <2>3. CASE op.kind = "remove"
    <3>1. Spliced(tree, op) =
            [n \in Nodes |-> IF n = LeafNode(op.leaf) \/ n \in DirectPath[op.leaf] THEN {}
                             ELSE tree[n]]
      BY <2>3 DEF Spliced
    <3>2. QED
      BY <2>1, <3>1
  <2>4. CASE op.kind = "update"
    BY <2>4 DEF Spliced
  <2>5. QED
    BY <2>2, <2>3, <2>4 DEF Ops
<1>4. QED
  BY <1>2, <1>3

\* A member knows only secrets of its path, and all of them while it is in the group.
Holds(u, g) ==
  /\ \A n \in Nodes \ DirectPath[g.my_leaf] : g.known_secrets[n] = {}
  /\ InGroup(u, g) =>
       \A n \in DirectPath[g.my_leaf] : g.nodes[n] # {} => g.known_secrets[n] = g.nodes[n]

\* A secret that a member can unseal is of a node where its path joins the sender's.
LEMMA UnsealedMeets ==
  ASSUME NEW u, NEW g \in Groups, NEW c \in Commits, DOMAIN c.path = DirectPath[c.sender_leaf],
         \A n \in Nodes \ DirectPath[g.my_leaf] : g.known_secrets[n] = {},
         NEW f \in Unseals(u, g, c)
  PROVE  f \in DirectPath[c.sender_leaf]
         /\ LeafNode(g.my_leaf) \in Under[CoPath(c.sender_leaf, f)]
<1> DEFINE l == g.my_leaf
           k == CoPath(c.sender_leaf, f)
           pre == Spliced(g.nodes, c.op)
<1>1. f \in DirectPath[c.sender_leaf] /\ l \in Leaves /\ c.sender_leaf \in Leaves
  BY DEF Unseals, Commits, Groups
<1>2. PICK t \in Resolution(pre, k) :
        t = LeafNode(l) \/ g.known_secrets[t] # {}
  BY DEF Unseals
<1>3. k \in Nodes /\ t \in Under[k]
  BY <1>1, CoPathFacts DEF Resolution
<1> HIDE DEF k, pre
<1>4. t \in Nodes /\ (t = k \/ k \in Above[t])
  BY <1>3 DEF Under
<1>5. CASE t = LeafNode(l)
  BY <1>1, <1>3, <1>5 DEF k, l
<1>6. CASE g.known_secrets[t] # {}
  <2>1. t \in DirectPath[l]
    BY <1>4, <1>6 DEF l
  <2>2. t \in Above[LeafNode(l)] /\ LeafNode(l) \in Nat /\ LeafNode(l) \in Nodes
    BY <1>1, <2>1, LeavesFacts
  <2>3. k \in Above[LeafNode(l)]
    BY <1>4, <2>2, AboveTrans
  <2>4. QED
    BY <1>1, <1>3, <2>2, <2>3 DEF Under, k, l
<1>7. QED
  BY <1>2, <1>5, <1>6

\* So a member that applies a commit derives what the two paths share.
LEMMA DerivesShared ==
  ASSUME NEW u, NEW g \in Groups, NEW c \in Commits, DOMAIN c.path = DirectPath[c.sender_leaf],
         \A n \in Nodes \ DirectPath[g.my_leaf] : g.known_secrets[n] = {},
         Unseals(u, g, c) # {}
  PROVE  Derivable(c, Unseals(u, g, c)) = DirectPath[c.sender_leaf] \cap DirectPath[g.my_leaf]
<1>1. c.sender_leaf \in Leaves /\ g.my_leaf \in Leaves
  BY DEF Commits, Groups
<1>2. ASSUME NEW f \in Unseals(u, g, c), NEW d \in DirectPath[c.sender_leaf]
      PROVE  d <= f <=> d \in DirectPath[g.my_leaf]
  <2>1. f \in DirectPath[c.sender_leaf]
        /\ LeafNode(g.my_leaf) \in Under[CoPath(c.sender_leaf, f)]
    BY UnsealedMeets
  <2>2. QED
    BY <1>1, <2>1, PathsMeet
<1>3. QED
  BY <1>2 DEF Derivable

LEMMA MadeFacts ==
  ASSUME TypeOK, NEW T, Hist(T), NEW i \in 1 .. Len(commits)
  PROVE  /\ commits[i] \in Commits /\ MadeOn(T[i - 1], commits[i], i)
         /\ T[i] = Post(T[i - 1], commits[i], i)
         /\ T[i - 1] \in Trees /\ Populated(welcome, T[i - 1], i - 1)
         /\ T[i] \in Trees /\ Populated(welcome, T[i], i)
<1>1. Len(commits) \in Nat /\ i - 1 \in 0 .. Len(commits) /\ i \in 0 .. Len(commits)
  BY DEF TypeOK
<1>2. Populated(welcome, T[i - 1], i - 1) /\ Populated(welcome, T[i], i)
  BY <1>1 DEF Hist, History
<1>3. MadeOn(T[i - 1], commits[i], i) /\ T[i] = Post(T[i - 1], commits[i], i)
  BY DEF Hist, History
<1>4. QED
  BY <1>2, <1>3 DEF Populated, MadeOn

\* One who takes a commit and has its leaf in the tree after it had it before, unless
\* the commit is the one it joined by.
LEMMA WasInGroup ==
  ASSUME TypeOK, NEW T, Hist(T), NEW u \in Members, NEW i \in 1 .. Len(commits),
         NEW l \in Leaves, NEW e \in 0 .. (i - 1), Home(welcome, u, l, e),
         Spliced(T[i - 1], commits[i].op)[LeafNode(l)] = {u}
  PROVE  T[i - 1][LeafNode(l)] = {u}
<1> DEFINE op == commits[i].op
<1>1. T[i - 1] \in Trees /\ op \in Ops /\ LeafNode(l) \in Nodes
  <2>1. T[i - 1] \in Trees /\ commits[i] \in Commits
    BY MadeFacts
  <2>2. QED
    BY <2>1, LeavesFacts DEF Commits
<1>2. ASSUME op.kind = "add", LeafNode(l) = LeafNode(op.leaf), op.member = {u}
      PROVE  FALSE
  <2>1. PICK v \in Members : op.member = {v} /\ Home(welcome, v, op.leaf, i)
    BY <1>2 DEF Hist, History
  <2>2. v = u
    BY <1>2, <2>1
  <2>3. \A s, t \in welcome[u] : s = t
    BY DEF Hist, Invited
  <2>4. e = i
    BY <2>1, <2>2, <2>3, OneHome
  <2>5. QED
    BY <2>4
<1> DEFINE tree == T[i - 1]
<1>3. Spliced(tree, op)[LeafNode(l)] = {u}
  OBVIOUS
<1>4. op \in Ops /\ tree \in Trees /\ LeafNode(l) \in Nodes
  BY <1>1
<1> HIDE DEF op, tree
<1>5. \/ Spliced(tree, op)[LeafNode(l)] = tree[LeafNode(l)]
      \/ Spliced(tree, op)[LeafNode(l)] = {}
      \/ /\ op.kind = "add" /\ LeafNode(l) = LeafNode(op.leaf)
         /\ Spliced(tree, op)[LeafNode(l)] = op.member
  BY <1>4, SplicedType
<1>6. tree[LeafNode(l)] = {u}
  BY <1>2, <1>3, <1>5
<1>7. QED
  BY <1>6 DEF tree

\* Before a commit nothing is known of a path that the commit's sender does not share
\* and that is populated: a joiner reads the commit with its leaf key only.
LEMMA JoinersPathBlank ==
  ASSUME NEW u, NEW g \in Groups, NEW c \in Commits, DOMAIN c.path = DirectPath[c.sender_leaf],
         g.known_secrets = [n \in Nodes |-> {}], Unseals(u, g, c) # {},
         NEW n \in DirectPath[g.my_leaf], n \notin DirectPath[c.sender_leaf]
  PROVE  Spliced(g.nodes, c.op)[n] = {}
<1> DEFINE l == g.my_leaf
           s == c.sender_leaf
           pre == Spliced(g.nodes, c.op)
<1>1. l \in Leaves /\ s \in Leaves
  BY DEF Commits, Groups
<1>2. PICK f \in Unseals(u, g, c) : TRUE
  OBVIOUS
<1>3. f \in DirectPath[s] /\ LeafNode(l) \in Under[CoPath(s, f)]
  BY UnsealedMeets
<1>4. PICK t \in Resolution(pre, CoPath(s, f)) : t = LeafNode(l) \/ g.known_secrets[t] # {}
  BY DEF Unseals
<1>5. t = LeafNode(l)
  <2>1. CoPath(s, f) \in Nodes
    BY <1>1, <1>3, CoPathFacts
  <2>2. t \in Nodes
    BY <1>4, <2>1 DEF Resolution, Under
  <2>3. QED
    BY <1>4, <2>2
<1>6. f \in DirectPath[l] /\ (n <= f \/ n \in Under[CoPath(s, f)])
  BY <1>1, <1>3, PathsMeet DEF l
<1>7. n \in Above[LeafNode(l)] /\ f \in Above[LeafNode(l)] /\ f \in Above[LeafNode(s)]
      /\ n \in Nat /\ f \in Nat /\ LeafNode(l) \in Nat /\ LeafNode(s) \in Nat
  BY <1>1, <1>3, <1>6, LeavesFacts DEF l
<1>8. ~(n <= f)
  <2>1. n < f => n \in Above[f]
    BY <1>7, AboveChain
  <2>2. n < f => n \in Above[LeafNode(s)]
    BY <1>7, <2>1, AboveTrans
  <2>3. n \notin Above[LeafNode(s)]
    BY <1>1, LeavesFacts DEF s
  <2>4. QED
    BY <1>7, <2>2, <2>3
<1>9. pre[n] = {}
  BY <1>4, <1>5, <1>6, <1>7, <1>8 DEF Resolution
<1>10. QED
  BY <1>9

LEMMA HoldsTake ==
  ASSUME TypeOK, NEW T, Hist(T), NEW u \in Members, NEW i \in DOMAIN commits,
         NEW g, NEW after, Takes(T, u, g, i, after),
         \A h \in group[u] : Holds(u, h)
  PROVE  /\ Derivable(commits[i], Unseals(u, g, commits[i]))
              = DirectPath[commits[i].sender_leaf] \cap DirectPath[g.my_leaf]
         /\ \A n \in Nodes \ DirectPath[g.my_leaf] : g.known_secrets[n] = {}
         /\ InGroup(u, after) => g \notin group[u] \/ InGroup(u, g)
         /\ Holds(u, after)
<1> DEFINE c == commits[i]
           l == g.my_leaf
           s == c.sender_leaf
           pre == Spliced(T[i - 1], c.op)
           known == Derivable(c, Unseals(u, g, c))
<1>1. i \in 1 .. Len(commits) /\ i \in Nat
  BY DEF TypeOK
<1>2. /\ Ready(u, g, i) /\ g \in Groups /\ g.epoch = i - 1 /\ g.nodes = T[i - 1]
      /\ CanApply(u, g, c) /\ Advanced(g, after, T[i - 1], c, i, known)
  BY DEF Takes
<1>3. /\ after.my_leaf = l /\ after.nodes = Post(T[i - 1], c, i)
      /\ after.known_secrets =
           [n \in Nodes |-> IF n \in known THEN {Secret(i, n)} ELSE g.known_secrets[n]]
  BY <1>2 DEF Advanced
<1>4. c \in Commits /\ MadeOn(T[i - 1], c, i) /\ T[i - 1] \in Trees
  BY <1>1, MadeFacts
<1>5. l \in Leaves /\ s \in Leaves /\ c.op \in Ops /\ LeafNode(l) \in Nodes
  BY <1>2, <1>4, LeavesFacts DEF Groups, Commits
<1>6. DOMAIN c.path = DirectPath[s]
  BY <1>1, <1>4, MadePath
<1>7. \/ g \in group[u]
      \/ g.known_secrets = [n \in Nodes |-> {}]
  <2>1. \A x \in welcome[u] : Joining(x).known_secrets = [n \in Nodes |-> {}]
    BY JoiningFacts
  <2>2. QED
    BY <1>2, <2>1 DEF Ready
<1>8. \A n \in Nodes \ DirectPath[l] : g.known_secrets[n] = {}
  BY <1>7 DEF Holds
<1>9. Unseals(u, g, c) # {}
  BY <1>2 DEF CanApply
<1> HIDE DEF c
<1>10. known = DirectPath[s] \cap DirectPath[l]
  BY <1>2, <1>4, <1>6, <1>8, <1>9, DerivesShared
<1> HIDE DEF known
<1>11. Post(T[i - 1], c, i) =
         [n \in Nodes |-> IF n \in DirectPath[s] THEN {Secret(i, n)} ELSE pre[n]]
  BY DEF Post
<1> HIDE DEF l, s, pre
<1>12. \A n \in Nodes \ DirectPath[l] : after.known_secrets[n] = {}
  BY <1>3, <1>8, <1>10
<1>13. InGroup(u, after) => pre[LeafNode(l)] = {u}
  <2>1. LeafNode(l) \notin DirectPath[s]
    BY <1>5, LeavesFacts
  <2>2. QED
    BY <1>3, <1>5, <1>11, <2>1 DEF InGroup
<1>14. InGroup(u, after) => g \notin group[u] \/ InGroup(u, g)
  <2> SUFFICES ASSUME InGroup(u, after), g \in group[u]
               PROVE  InGroup(u, g)
    OBVIOUS
  <2>1. PICK e \in 0 .. g.epoch : Home(welcome, u, l, e)
    BY DEF Hist, Synced, l
  <2>2. e \in 0 .. (i - 1)
    BY <1>2, <2>1
  <2>3. Spliced(T[i - 1], commits[i].op)[LeafNode(l)] = {u}
    BY <1>13 DEF pre, c
  <2>4. T[i - 1][LeafNode(l)] = {u}
    BY <1>1, <1>5, <2>1, <2>2, <2>3, WasInGroup
  <2>5. QED
    BY <1>2, <2>4 DEF InGroup, l
<1>15. ASSUME InGroup(u, after), NEW n \in DirectPath[l], after.nodes[n] # {}
       PROVE  after.known_secrets[n] = after.nodes[n]
  <2>1. n \in Nodes /\ n <= Capacity - 2
    BY <1>5, LeavesFacts
  <2>2. CASE n \in DirectPath[s]
    BY <1>3, <1>10, <1>11, <2>1, <2>2
  <2>3. CASE n \notin DirectPath[s]
    <3>1. after.nodes[n] = pre[n] /\ after.known_secrets[n] = g.known_secrets[n]
      BY <1>3, <1>10, <1>11, <2>1, <2>3
    <3>2. pre[n] = T[i - 1][n]
      BY <1>4, <1>5, <1>15, <2>1, <3>1, SplicedNode DEF pre
    <3>3. CASE g \in group[u]
      BY <1>2, <1>14, <1>15, <3>1, <3>2, <3>3 DEF Holds, l
    <3>4. CASE g.known_secrets = [m \in Nodes |-> {}]
      <4>1. n \in DirectPath[g.my_leaf] /\ n \notin DirectPath[c.sender_leaf]
            /\ DOMAIN c.path = DirectPath[c.sender_leaf]
        BY <1>6, <2>3 DEF l, s
      <4>2. Spliced(g.nodes, c.op)[n] = {}
        BY <1>2, <1>4, <1>9, <3>4, <4>1, JoinersPathBlank
      <4>3. QED
        BY <1>2, <1>15, <3>1, <4>2 DEF pre
    <3>5. QED
      BY <1>7, <3>3, <3>4
  <2>4. QED
    BY <2>2, <2>3
<1>16. Holds(u, after)
  BY <1>3, <1>12, <1>15 DEF Holds
<1>17. QED
  BY <1>8, <1>10, <1>14, <1>16 DEF known, l, s, c

\* All do, in every step.
LEMMA HoldsStays ==
  ASSUME TypeOK, NEW T, Hist(T), NEW TT, Follows(T, TT), HoldsItsPath
  PROVE  HoldsItsPath'
<1>1. \A v \in Members : \A h \in group[v] : Holds(v, h)
  BY DEF HoldsItsPath, Holds
<1>2. SUFFICES ASSUME NEW v \in Members, NEW h \in group'[v]
               PROVE  Holds(v, h)
  BY DEF HoldsItsPath, Holds, InGroup
<1>3. ASSUME NEW u \in Members, NEW after, group' = [group EXCEPT ![u] = {after}],
             Holds(u, after)
      PROVE  Holds(v, h)
  BY <1>1, <1>3 DEF TypeOK
<1>4. CASE UNCHANGED vars
  BY <1>1, <1>4 DEF vars
<1>5. ASSUME NEW u \in Members, NEW i \in DOMAIN commits, NEW g, NEW after,
             Takes(T, u, g, i, after)
      PROVE  Holds(v, h)
  <2>1. Holds(u, after)
    BY <1>1, <1>5, HoldsTake
  <2>2. QED
    BY <1>3, <1>5, <2>1 DEF Takes
<1>6. ASSUME NEW u \in Members, NEW g \in group[u], NEW after, group' = [group EXCEPT ![u] = {after}],
             after.nodes = g.nodes, after.my_leaf = g.my_leaf,
             after.known_secrets = g.known_secrets
      PROVE  Holds(v, h)
  BY <1>1, <1>3, <1>6 DEF Holds, InGroup
<1>7. ASSUME NEW u \in Members, Seal(u)
      PROVE  Holds(v, h)
  <2>1. PICK g \in group[u] :
          group' = [group EXCEPT ![u] = {[g EXCEPT !.send_chain.pos = @ + 1]}]
    BY <1>7 DEF Seal
  <2>2. g \in Groups
    BY DEF TypeOK
  <2>3. QED
    BY <1>6, <2>1, <2>2 DEF Groups
<1>8. ASSUME NEW u \in Members, NEW r \in records, Open(u, r)
      PROVE  Holds(v, h)
  <2>1. PICK g \in group[u] : group' = [group EXCEPT ![u] = {Opened(g, r.leaf)}]
    BY <1>8 DEF Open
  <2>2. g \in Groups
    BY DEF TypeOK
  <2>3. QED
    BY <1>6, <2>1, <2>2 DEF Groups, Opened
<1>9. ASSUME NEW u \in Members, NEW g \in group[u], NEW op \in Ops, NEW c, NEW after,
             Makes(T, u, g, op, c, after)
      PROVE  Holds(v, h)
  <2> DEFINE N == Len(commits)
  <2>1. /\ Advanced(g, after, T[N], c, N + 1, DirectPath[g.my_leaf])
        /\ c.sender_leaf = g.my_leaf /\ group' = [group EXCEPT ![u] = {after}]
    BY <1>9 DEF Makes, Committed
  <2>2. /\ after.my_leaf = g.my_leaf /\ after.nodes = Post(T[N], c, N + 1)
        /\ after.known_secrets =
             [n \in Nodes |-> IF n \in DirectPath[g.my_leaf] THEN {Secret(N + 1, n)}
                              ELSE g.known_secrets[n]]
    BY <2>1 DEF Advanced
  <2> HIDE DEF N
  <2>3. g.my_leaf \in Leaves
    BY DEF TypeOK, Groups
  <2>4. \A n \in DirectPath[g.my_leaf] :
          /\ n \in Nodes /\ after.nodes[n] = {Secret(N + 1, n)}
          /\ after.known_secrets[n] = {Secret(N + 1, n)}
    BY <2>1, <2>2, <2>3, LeavesFacts DEF Post
  <2>5. \A n \in Nodes \ DirectPath[g.my_leaf] : after.known_secrets[n] = {}
    BY <1>1, <2>2 DEF Holds
  <2>6. Holds(u, after)
    BY <2>2, <2>4, <2>5 DEF Holds
  <2>7. QED
    BY <1>3, <2>1, <2>6
<1>10. QED
  BY <1>4, <1>5, <1>7, <1>8, <1>9 DEF Follows

\* Whoever holds its path can follow.
LEMMA FollowsNext ==
  ASSUME TypeOK, NEW T, Hist(T), HoldsItsPath
  PROVE  MembersFollow
<1> SUFFICES ASSUME NEW u \in Members, NEW g \in group[u], InGroup(u, g), g.epoch < Len(commits),
                    ~Removes(commits[g.epoch + 1], g.my_leaf)
             PROVE  CanApply(u, g, commits[g.epoch + 1])
  BY DEF MembersFollow
<1> DEFINE i == g.epoch + 1
           c == commits[i]
           l == g.my_leaf
           s == c.sender_leaf
           tree == T[i - 1]
           pre == Spliced(tree, c.op)
<1>1. g \in Groups /\ i \in 1 .. Len(commits) /\ i \in Nat \ {0} /\ i - 1 = g.epoch
  BY DEF TypeOK, Groups
<1>2. c \in Commits /\ MadeOn(tree, c, i) /\ tree \in Trees
  BY <1>1, MadeFacts
<1>3. g.nodes = tree /\ tree[LeafNode(l)] = {u}
  BY <1>1 DEF Hist, Synced, InEpoch, InGroup
<1>4. l \in Leaves /\ s \in Leaves /\ c.op \in Ops /\ LeafNode(l) \in Nodes /\ c.op.leaf \in Leaves
  BY <1>1, <1>2, LeavesFacts DEF Groups, Commits, Ops
<1>5. s # l
  <2> SUFFICES ASSUME s = l PROVE FALSE
    OBVIOUS
  <2>1. c.signer = u
    BY <1>2, <1>3 DEF MadeOn
  <2>2. g.epoch >= i
    BY <1>1, <2>1 DEF Hist, CommittersAhead
  <2>3. QED
    BY <1>1, <2>2
<1>6. PICK d \in DirectPath[s] : LeafNode(l) \in Under[CoPath(s, d)]
  BY <1>4, <1>5, PathsDoMeet
<1>7. pre[LeafNode(l)] = {u}
  <2>1. CASE c.op.leaf # l
    BY <1>2, <1>3, <1>4, <2>1, SplicedNode
  <2>2. CASE c.op.leaf = l
    <3>1. c.op.kind = "update"
      BY <1>2, <1>3, <1>4, <2>2 DEF MadeOn, SpliceFits, Removes, Ops
    <3>2. QED
      BY <1>3, <3>1 DEF Spliced
  <2>3. QED
    BY <2>1, <2>2
<1>8. CoPath(s, d) \in Nodes
  BY <1>4, <1>6, CoPathFacts
<1>9. PICK t \in Resolution(pre, CoPath(s, d)) : t = LeafNode(l) \/ t \in Above[LeafNode(l)]
  <2> HIDE DEF pre, s, l
  <2>1. QED
    BY <1>6, <1>7, <1>8, Covered
<1>11. /\ DOMAIN c.path = DirectPath[s]
       /\ c.path[d].to = UNION {pre[m] : m \in Resolution(pre, CoPath(s, d))}
  BY <1>1, <1>2, <1>6, MadePath
<1>12. pre[t] \subseteq c.path[d].to
  BY <1>9, <1>11
<1>13. d \in Unseals(u, g, c)
  <2>1. CASE t = LeafNode(l)
    <3>1. u \in c.path[d].to
      BY <1>7, <1>12, <2>1
    <3>2. QED
      BY <1>3, <1>6, <1>9, <1>11, <2>1, <3>1 DEF Unseals
  <2>2. CASE t \in Above[LeafNode(l)]
    <3>1. t \in DirectPath[l] /\ t \in Nodes /\ t <= Capacity - 2 /\ t # LeafNode(l)
      BY <1>4, <2>2, LeavesFacts
    <3>2. pre[t] # {}
      BY <1>9 DEF Resolution
    <3>3. pre[t] = tree[t]
      BY <1>2, <1>4, <3>1, <3>2, SplicedNode
    <3>4. g.known_secrets[t] = tree[t]
      BY <1>3, <3>1, <3>2, <3>3 DEF HoldsItsPath
    <3>5. QED
      BY <1>3, <1>6, <1>9, <1>11, <1>12, <3>1, <3>2, <3>3, <3>4 DEF Unseals
  <2>3. QED
    BY <1>9, <2>1, <2>2
<1>14. /\ c.from_epoch = g.epoch /\ g.nodes[LeafNode(s)] = {c.signer}
       /\ SpliceFits(g.nodes, c.op)
  BY <1>1, <1>2, <1>3 DEF MadeOn
<1>15. QED
  BY <1>13, <1>14 DEF CanApply

LEMMA HoldsInit == Init => HoldsItsPath
<1> SUFFICES ASSUME Init PROVE HoldsItsPath
  OBVIOUS
<1> DEFINE tree == [n \in Nodes |-> IF n = LeafNode(0) THEN {Founder} ELSE {}]
           g == NewGroup(tree, 0, <<>>, 0)
<1>1. Fresh(g, tree, 0, <<>>, 0)
  <2>1. <<>> \in Seq(Secrets) /\ 0 \in Nat /\ 0 \in Leaves /\ tree \in Trees
    BY NodesFacts, GroupAssumption DEF Trees, Keys
  <2> HIDE DEF tree
  <2>2. QED
    BY <2>1, NewGroupType
<1>2. group = [u \in Members |-> IF u = Founder THEN {g} ELSE {}]
  BY DEF Init
<1>3. g.nodes = tree /\ g.my_leaf = 0 /\ g.known_secrets = [n \in Nodes |-> {}]
  BY <1>1 DEF Fresh
<1> HIDE DEF g
<1>4. \A n \in DirectPath[0] : g.nodes[n] = {}
  <2> SUFFICES ASSUME NEW n \in DirectPath[0] PROVE tree[n] = {}
    BY <1>3
  <2>1. 0 \in Leaves
    BY NodesFacts
  <2>2. n \in Nodes /\ n # LeafNode(0)
    BY <2>1, LeavesFacts
  <2>3. QED
    BY <2>2
<1>5. \A n \in Nodes : g.known_secrets[n] = {}
  BY <1>3
<1>6. QED
  BY <1>2, <1>3, <1>4, <1>5 DEF HoldsItsPath

(***************************************************************************)
(* For any capacity and members: a member knows the secrets of its path    *)
(* and no others, and it can apply the next commit unless that removes it. *)
(* The inductive invariant is the history and HoldsItsPath: applying a     *)
(* commit derives just what the sender's path shares with one's own, and   *)
(* the sender seals to what everybody else holds.                          *)
(***************************************************************************)
THEOREM EveryoneFollows == Spec => []PathsHeld
<1> DEFINE Inv == HistoryInv /\ HoldsItsPath
<1>1. Init => Inv
  BY HistoryInductive, HoldsInit
<1>2. Inv /\ [Next]_vars => Inv'
  <2> SUFFICES ASSUME Inv, [Next]_vars PROVE Inv'
    OBVIOUS
  <2>1. HistoryInv'
    BY HistoryInductive
  <2>2. PICK T : Hist(T)
    BY DEF HistoryInv
  <2>3. PICK TT : Follows(T, TT)
    BY <2>2, HistoryFollows DEF HistoryInv
  <2>4. HoldsItsPath'
    BY <2>2, <2>3, HoldsStays DEF HistoryInv
  <2>5. QED
    BY <2>1, <2>4
<1>3. Inv => PathsHeld
  BY FollowsNext DEF HistoryInv, PathsHeld
<1> HIDE DEF Inv
<1>4. QED
  BY <1>1, <1>2, <1>3, PTL DEF Spec

-----------------------------------------------------------------------------
(***************************************************************************)
(* What a removed member has.                                              *)
(***************************************************************************)
\* All that was on the path of leaf l, and in the leaf, is of epoch i or later.
Cleared(w, tree, l, i) ==
  /\ \A n \in DirectPath[l] : \A k \in Nat : tree[n] = {Secret(k, n)} => k >= i
  /\ \A u \in Members : \A e \in Nat : tree[LeafNode(l)] = {u} /\ Home(w, u, l, e) => e >= i

\* Removal i clears the leaf.
LEMMA RemovalClears ==
  ASSUME NEW w, NEW tree \in Trees, NEW op \in Ops, op.kind = "remove", NEW i \in Nat
  PROVE  Cleared(w, Spliced(tree, op), op.leaf, i)
<1>1. Spliced(tree, op) =
        [n \in Nodes |-> IF n = LeafNode(op.leaf) \/ n \in DirectPath[op.leaf] THEN {}
                         ELSE tree[n]]
  BY DEF Spliced
<1>2. op.leaf \in Leaves
  BY DEF Ops
<1>3. /\ Spliced(tree, op)[LeafNode(op.leaf)] = {}
      /\ \A n \in DirectPath[op.leaf] : Spliced(tree, op)[n] = {}
  BY <1>1, <1>2, LeavesFacts
<1>4. QED
  BY <1>3 DEF Cleared

\* A later commit's path and splice leave it cleared.
LEMMA PostCleared ==
  ASSUME NEW w, NEW tree \in Trees, NEW c, NEW j \in Nat, NEW i \in Nat, i <= j,
         MadeOn(tree, c, j), NEW l \in Leaves, Cleared(w, Spliced(tree, c.op), l, i)
  PROVE  Cleared(w, Post(tree, c, j), l, i)
<1>1. c.sender_leaf \in Leaves
  BY DEF MadeOn, Commits
<1>2. \A n \in Nodes : Post(tree, c, j)[n] =
        IF n \in DirectPath[c.sender_leaf] THEN {Secret(j, n)} ELSE Spliced(tree, c.op)[n]
  BY DEF Post
<1>3. ASSUME NEW n \in DirectPath[l], NEW k \in Nat, Post(tree, c, j)[n] = {Secret(k, n)}
      PROVE  k >= i
  <2>1. n \in Nodes
    BY LeavesFacts
  <2>2. CASE n \in DirectPath[c.sender_leaf]
    <3>1. Secret(k, n) = Secret(j, n)
      BY <1>2, <1>3, <2>1, <2>2
    <3>2. k = j
      BY <3>1 DEF Secret
    <3>3. QED
      BY <3>2
  <2>3. CASE n \notin DirectPath[c.sender_leaf]
    BY <1>2, <1>3, <2>1, <2>3 DEF Cleared
  <2>4. QED
    BY <2>2, <2>3
<1>4. Post(tree, c, j)[LeafNode(l)] = Spliced(tree, c.op)[LeafNode(l)]
  BY <1>1, <1>2, LeavesFacts
<1>5. QED
  BY <1>3, <1>4 DEF Cleared

LEMMA SplicedCleared ==
  ASSUME NEW w, NEW tree \in Trees, NEW op \in Ops, NEW j \in Nat, NEW i \in Nat, i <= j,
         \A u \in Members : \A s, t \in w[u] : s = t,
         op.kind = "add" => \E v \in Members : op.member = {v} /\ Home(w, v, op.leaf, j),
         NEW l \in Leaves, Cleared(w, tree, l, i)
  PROVE  Cleared(w, Spliced(tree, op), l, i)
<1>1. \A n \in Nodes : n <= Capacity - 2 /\ Spliced(tree, op)[n] # {} =>
        Spliced(tree, op)[n] = tree[n]
  BY SplicedNode
<1>2. ASSUME NEW n \in DirectPath[l], NEW k \in Nat, Spliced(tree, op)[n] = {Secret(k, n)}
      PROVE  k >= i
  <2>1. Spliced(tree, op)[n] = tree[n]
    BY <1>1, <1>2, LeavesFacts
  <2>2. QED
    BY <1>2, <2>1 DEF Cleared
<1>3. ASSUME NEW u \in Members, NEW e \in Nat,
             Spliced(tree, op)[LeafNode(l)] = {u}, Home(w, u, l, e)
      PROVE  e >= i
  <2>1. LeafNode(l) \in Nodes
    BY LeavesFacts
  <2>2. \/ Spliced(tree, op)[LeafNode(l)] = tree[LeafNode(l)]
        \/ Spliced(tree, op)[LeafNode(l)] = {}
        \/ op.kind = "add" /\ Spliced(tree, op)[LeafNode(l)] = op.member
    BY <2>1, SplicedType
  <2>3. CASE Spliced(tree, op)[LeafNode(l)] = tree[LeafNode(l)]
    BY <1>3, <2>3 DEF Cleared
  <2>4. CASE op.kind = "add" /\ op.member = {u}
    <3>1. Home(w, u, op.leaf, j)
      BY <2>4
    <3>2. e = j
      BY <1>3, <3>1, OneHome
    <3>3. QED
      BY <3>2
  <2>5. QED
    BY <1>3, <2>2, <2>3, <2>4
<1>4. QED
  BY <1>2, <1>3 DEF Cleared

\* So every later commit is made on a tree where the leaf and its path are cleared.
LEMMA StaysCleared ==
  ASSUME TypeOK, NEW T, Hist(T), NEW i \in 1 .. Len(commits), commits[i].op.kind = "remove"
  PROVE  \A j \in i .. Len(commits) :
           Cleared(welcome, Spliced(T[j - 1], commits[j].op), commits[i].op.leaf, i)
<1> DEFINE N == Len(commits)
           l == commits[i].op.leaf
           S == {j \in Nat : j \in i .. N =>
                   Cleared(welcome, Spliced(T[j - 1], commits[j].op), l, i)}
<1>1. N \in Nat /\ i \in Nat
  BY DEF TypeOK
<1>2. ASSUME NEW j \in 1 .. N
      PROVE  /\ commits[j] \in Commits /\ commits[j].op \in Ops /\ T[j - 1] \in Trees
             /\ MadeOn(T[j - 1], commits[j], j) /\ T[j] = Post(T[j - 1], commits[j], j)
             /\ T[j] \in Trees
  <2>1. /\ commits[j] \in Commits /\ T[j - 1] \in Trees /\ MadeOn(T[j - 1], commits[j], j)
        /\ T[j] = Post(T[j - 1], commits[j], j) /\ T[j] \in Trees
    BY MadeFacts
  <2>2. QED
    BY <2>1 DEF Commits
<1>3. l \in Leaves
  BY <1>2 DEF Ops
<1>4. \A u \in Members : \A s, t \in welcome[u] : s = t
  BY DEF Hist, Invited
<1>5. ASSUME NEW j \in Nat, \A m \in Nat : m < j => m \in S, j \in i .. N
      PROVE  Cleared(welcome, Spliced(T[j - 1], commits[j].op), l, i)
  <2>1. CASE j = i
    BY <1>1, <1>2, <2>1, RemovalClears
  <2>2. CASE j # i
    <3>1. j - 1 \in i .. N /\ j - 1 \in Nat /\ j - 1 < j /\ i <= j - 1 /\ i <= j
          /\ j \in 1 .. N /\ j - 1 \in 1 .. N
      BY <1>1, <1>5, <2>2
    <3>2. j - 1 \in S
      BY <1>5, <3>1
    <3>3. Cleared(welcome, Spliced(T[(j - 1) - 1], commits[j - 1].op), l, i)
      BY <3>1, <3>2
    <3>4. Cleared(welcome, Post(T[(j - 1) - 1], commits[j - 1], j - 1), l, i)
      BY <1>1, <1>2, <1>3, <3>1, <3>3, PostCleared
    <3>5. Cleared(welcome, T[j - 1], l, i)
      BY <1>2, <3>1, <3>4
    <3>6. commits[j].op.kind = "add" =>
            \E v \in Members : commits[j].op.member = {v} /\ Home(welcome, v, commits[j].op.leaf, j)
      BY <3>1 DEF Hist, History
    <3>7. QED
      BY <1>1, <1>2, <1>3, <1>4, <3>1, <3>5, <3>6, SplicedCleared
  <2>3. QED
    BY <2>1, <2>2
<1>6. \A j \in Nat : (\A m \in Nat : m < j => m \in S) => j \in S
  BY <1>5
<1>7. S \in SUBSET Nat
  OBVIOUS
<1>8. S = Nat
  <2> HIDE DEF S
  <2>1. QED
    BY <1>6, <1>7, Induction
<1>9. QED
  BY <1>1, <1>8

\* What u has and has had are secrets of its path, of its epoch or before.
Reach(g) == {Secret(k, n) : k \in 1 .. g.epoch, n \in DirectPath[g.my_leaf]}

HeldInReach ==
  \A u \in Members :
    /\ group[u] = {} => held[u] = {}
    /\ \A g \in group[u] : HeldBy(g) \cup held[u] \subseteq Reach(g)

LEMMA ReachGrows ==
  ASSUME NEW g \in Groups, NEW after \in Groups, after.my_leaf = g.my_leaf,
         g.epoch < after.epoch, NEW known \in SUBSET DirectPath[g.my_leaf],
         after.known_secrets =
           [n \in Nodes |-> IF n \in known THEN {Secret(after.epoch, n)} ELSE g.known_secrets[n]],
         NEW before, HeldBy(g) \cup before \subseteq Reach(g)
  PROVE  HeldBy(after) \cup (before \cup HeldBy(after)) \subseteq Reach(after)
<1>1. g.epoch \in Nat /\ after.epoch \in Nat
  BY DEF Groups
<1>2. 1 .. g.epoch \subseteq 1 .. after.epoch /\ after.epoch \in 1 .. after.epoch
  BY <1>1
<1>3. Reach(g) \subseteq Reach(after)
  BY <1>2 DEF Reach
<1>4. HeldBy(after) \subseteq Reach(after)
  <2> SUFFICES ASSUME NEW n \in Nodes PROVE after.known_secrets[n] \subseteq Reach(after)
    BY DEF HeldBy
  <2>1. CASE n \in known
    <3>1. after.known_secrets[n] = {Secret(after.epoch, n)}
      BY <2>1
    <3>2. Secret(after.epoch, n) \in Reach(after)
      BY <1>2, <2>1 DEF Reach
    <3>3. QED
      BY <3>1, <3>2
  <2>2. CASE n \notin known
    <3>1. after.known_secrets[n] = g.known_secrets[n] /\ g.known_secrets[n] \subseteq HeldBy(g)
      BY <2>2 DEF HeldBy
    <3>2. QED
      BY <1>3, <3>1
  <2>3. QED
    BY <2>1, <2>2
<1>5. QED
  BY <1>3, <1>4

LEMMA ReachStays ==
  ASSUME TypeOK, NEW T, Hist(T), NEW TT, Follows(T, TT), HoldsItsPath, HeldInReach
  PROVE  HeldInReach'
<1> SUFFICES ASSUME NEW v \in Members
             PROVE  /\ group'[v] = {} => held'[v] = {}
                    /\ \A h \in group'[v] : HeldBy(h) \cup held'[v] \subseteq Reach(h)
  BY DEF HeldInReach, HeldBy, Reach
<1>1. /\ group[v] = {} => held[v] = {}
      /\ \A h \in group[v] : HeldBy(h) \cup held[v] \subseteq Reach(h)
  BY DEF HeldInReach
<1>2. CASE UNCHANGED vars
  BY <1>1, <1>2 DEF vars
<1>3. ASSUME NEW u \in Members, NEW after, group' = [group EXCEPT ![u] = {after}],
             NEW x, held' = [held EXCEPT ![u] = x], HeldBy(after) \cup x \subseteq Reach(after)
      PROVE  /\ group'[v] = {} => held'[v] = {}
             /\ \A h \in group'[v] : HeldBy(h) \cup held'[v] \subseteq Reach(h)
  <2>1. /\ v = u => group'[v] = {after} /\ held'[v] = x
        /\ v # u => group'[v] = group[v] /\ held'[v] = held[v]
    BY <1>3 DEF TypeOK
  <2>2. QED
    BY <1>1, <1>3, <2>1
<1>4. ASSUME NEW u \in Members, NEW i \in DOMAIN commits, NEW g, NEW after,
             Takes(T, u, g, i, after)
      PROVE  /\ group'[v] = {} => held'[v] = {}
             /\ \A h \in group'[v] : HeldBy(h) \cup held'[v] \subseteq Reach(h)
  <2> DEFINE c == commits[i]
             known == Derivable(c, Unseals(u, g, c))
  <2>1. /\ Ready(u, g, i) /\ g \in Groups /\ g.epoch = i - 1
        /\ Advanced(g, after, T[i - 1], c, i, known)
        /\ group' = [group EXCEPT ![u] = {after}]
        /\ held' = [held EXCEPT ![u] = held[u] \cup HeldBy(after)]
    BY <1>4 DEF Takes, TypeOK
  <2>2. /\ after \in Groups /\ after.epoch = i /\ after.my_leaf = g.my_leaf
        /\ after.known_secrets =
             [n \in Nodes |-> IF n \in known THEN {Secret(i, n)} ELSE g.known_secrets[n]]
    BY <2>1 DEF Advanced
  <2>3. known \subseteq DirectPath[g.my_leaf]
    <3>1. \A h \in group[u] : Holds(u, h)
      BY DEF HoldsItsPath, Holds
    <3>2. QED
      BY <1>4, <3>1, HoldsTake
  <2>4. i \in Nat /\ g.epoch < after.epoch
    BY <2>1, <2>2 DEF TypeOK
  <2>5. HeldBy(g) \cup held[u] \subseteq Reach(g)
    <3>1. CASE g \in group[u]
      BY <3>1 DEF HeldInReach
    <3>2. CASE group[u] = {} /\ \E s \in welcome[u] : g = Joining(s)
      <4>1. \A s \in welcome[u] : Joining(s).known_secrets = [n \in Nodes |-> {}]
        BY JoiningFacts
      <4>2. HeldBy(g) = {}
        BY <3>2, <4>1 DEF HeldBy
      <4>3. held[u] = {}
        BY <3>2 DEF HeldInReach
      <4>4. QED
        BY <4>2, <4>3
    <3>3. QED
      BY <2>1, <3>1, <3>2 DEF Ready
  <2> HIDE DEF known, c
  <2>6. HeldBy(after) \cup (held[u] \cup HeldBy(after)) \subseteq Reach(after)
    <3>1. after.known_secrets =
            [n \in Nodes |-> IF n \in known THEN {Secret(after.epoch, n)} ELSE g.known_secrets[n]]
      BY <2>2
    <3> DEFINE before == held[u]
    <3>2. g \in Groups /\ after \in Groups /\ after.my_leaf = g.my_leaf
      BY <2>1, <2>2
    <3>3. HeldBy(g) \cup before \subseteq Reach(g)
      BY <2>5
    <3> HIDE DEF before
    <3>4. HeldBy(after) \cup (before \cup HeldBy(after)) \subseteq Reach(after)
      BY <2>3, <2>4, <3>1, <3>2, <3>3, ReachGrows
    <3>5. QED
      BY <3>4 DEF before
  <2>7. QED
    BY <1>3, <2>1, <2>6
<1>5. ASSUME NEW u \in Members, NEW g \in group[u], NEW after, group' = [group EXCEPT ![u] = {after}],
             held' = held, after.epoch = g.epoch, after.my_leaf = g.my_leaf,
             after.known_secrets = g.known_secrets
      PROVE  /\ group'[v] = {} => held'[v] = {}
             /\ \A h \in group'[v] : HeldBy(h) \cup held'[v] \subseteq Reach(h)
  <2>1. HeldBy(after) = HeldBy(g) /\ Reach(after) = Reach(g)
    BY <1>5 DEF HeldBy, Reach
  <2>2. HeldBy(after) \cup held[u] \subseteq Reach(after)
    BY <2>1 DEF HeldInReach
  <2>3. held' = [held EXCEPT ![u] = held[u]]
    BY <1>5 DEF TypeOK
  <2>4. QED
    BY <1>3, <1>5, <2>2, <2>3
<1>6. ASSUME NEW u \in Members, Seal(u)
      PROVE  /\ group'[v] = {} => held'[v] = {}
             /\ \A h \in group'[v] : HeldBy(h) \cup held'[v] \subseteq Reach(h)
  <2>1. PICK g \in group[u] :
          group' = [group EXCEPT ![u] = {[g EXCEPT !.send_chain.pos = @ + 1]}]
    BY <1>6 DEF Seal
  <2>2. g \in Groups /\ held' = held
    BY <1>6 DEF TypeOK, Seal
  <2>3. QED
    BY <1>5, <2>1, <2>2 DEF Groups
<1>7. ASSUME NEW u \in Members, NEW r \in records, Open(u, r)
      PROVE  /\ group'[v] = {} => held'[v] = {}
             /\ \A h \in group'[v] : HeldBy(h) \cup held'[v] \subseteq Reach(h)
  <2>1. PICK g \in group[u] : group' = [group EXCEPT ![u] = {Opened(g, r.leaf)}]
    BY <1>7 DEF Open
  <2>2. g \in Groups /\ held' = held
    BY <1>7 DEF TypeOK, Open
  <2>3. QED
    BY <1>5, <2>1, <2>2 DEF Groups, Opened
<1>8. ASSUME NEW u \in Members, NEW g \in group[u], NEW op \in Ops, NEW c, NEW after,
             Makes(T, u, g, op, c, after)
      PROVE  /\ group'[v] = {} => held'[v] = {}
             /\ \A h \in group'[v] : HeldBy(h) \cup held'[v] \subseteq Reach(h)
  <2> DEFINE N == Len(commits)
  <2>1. /\ g.epoch = N /\ Advanced(g, after, T[N], c, N + 1, DirectPath[g.my_leaf])
        /\ group' = [group EXCEPT ![u] = {after}]
        /\ held' = [held EXCEPT ![u] = held[u] \cup HeldBy(after)]
    BY <1>8 DEF Makes, Committed, TypeOK
  <2>2. /\ after \in Groups /\ after.epoch = N + 1 /\ after.my_leaf = g.my_leaf
        /\ after.known_secrets =
             [n \in Nodes |-> IF n \in DirectPath[g.my_leaf] THEN {Secret(N + 1, n)}
                              ELSE g.known_secrets[n]]
    BY <2>1 DEF Advanced
  <2>3. g \in Groups /\ g.epoch < after.epoch
    BY <2>1, <2>2 DEF TypeOK
  <2>4. HeldBy(g) \cup held[u] \subseteq Reach(g)
    BY DEF HeldInReach
  <2> HIDE DEF N
  <2>5. HeldBy(after) \cup (held[u] \cup HeldBy(after)) \subseteq Reach(after)
    BY <2>2, <2>3, <2>4, ReachGrows
  <2>6. QED
    BY <1>3, <2>1, <2>5
<1>9. QED
  BY <1>2, <1>4, <1>6, <1>7, <1>8 DEF Follows

\* The tree of some epoch, or what a splice leaves of it.
Peopled(w, tree) ==
  /\ \A m \in Leaves : tree[LeafNode(m)] # {} =>
       \E v \in Members, e \in Nat : tree[LeafNode(m)] = {v} /\ Home(w, v, m, e)
  /\ \A n \in Nodes : n <= Capacity - 2 /\ tree[n] # {} =>
       \E k \in Nat : tree[n] = {Secret(k, n)}

\* None of that is in a tree where the leaf is cleared.
LEMMA ClearedHidesReach ==
  ASSUME NEW w, NEW tree, NEW i \in Nat, NEW l \in Leaves,
         Cleared(w, tree, l, i), Peopled(w, tree),
         NEW u \in Members, \A s, t \in w[u] : s = t,
         NEW e \in Nat, e < i, Home(w, u, l, e),
         NEW n \in Nodes
  PROVE  tree[n] \cap ({u} \cup {Secret(k, m) : k \in 1 .. (i - 1), m \in DirectPath[l]}) = {}
<1> SUFFICES ASSUME NEW x \in tree[n],
                    x = u \/ \E k \in 1 .. (i - 1), m \in DirectPath[l] : x = Secret(k, m)
             PROVE  FALSE
  OBVIOUS
<1>1. \A k \in Nat : \A m \in Nat : Secret(k, m) \in [commit : Nat, node : Nat]
  BY DEF Secret
<1>2. \A m \in DirectPath[l] : m \in Nat
  BY LeavesFacts
<1>3. CASE n <= Capacity - 2
  <2>1. PICK k \in Nat : tree[n] = {Secret(k, n)}
    BY <1>3 DEF Peopled
  <2>2. n \in Nat
    BY NodesFacts
  <2>3. x # u
    BY <1>1, <2>1, <2>2, KeysDiffer
  <2>4. PICK p \in 1 .. (i - 1), m \in DirectPath[l] : x = Secret(p, m)
    BY <2>3
  <2>5. p = k /\ m = n
    BY <2>1, <2>4 DEF Secret
  <2>6. k >= i
    BY <2>1, <2>4, <2>5 DEF Cleared
  <2>7. QED
    BY <2>4, <2>5, <2>6
<1>4. CASE ~(n <= Capacity - 2)
  <2>1. PICK m \in Leaves : n = LeafNode(m)
    <3>1. n - (Capacity - 1) \in Leaves /\ n = LeafNode(n - (Capacity - 1))
      BY <1>4, NodesFacts DEF Nodes, Leaves, LeafNode
    <3>2. QED
      BY <3>1
  <2>2. PICK v \in Members, f \in Nat : tree[LeafNode(m)] = {v} /\ Home(w, v, m, f)
    BY <2>1 DEF Peopled
  <2>3. x = v
    BY <2>1, <2>2
  <2>4. x = u
    <3>1. \A k \in 1 .. (i - 1) : k \in Nat
      OBVIOUS
    <3>2. QED
      BY <1>1, <1>2, <2>3, <3>1, KeysDiffer
  <2>5. m = l /\ f = e
    BY <2>2, <2>3, <2>4, OneHome
  <2>6. e >= i
    BY <2>2, <2>3, <2>4, <2>5 DEF Cleared
  <2>7. QED
    BY <2>6
<1>5. QED
  BY <1>3, <1>4

\* The tree that commit j is sealed against is populated as its epoch's.
LEMMA SplicedPopulated ==
  ASSUME TypeOK, NEW T, Hist(T), NEW j \in 1 .. Len(commits)
  PROVE  Peopled(welcome, Spliced(T[j - 1], commits[j].op))
<1> DEFINE tree == T[j - 1]
           op == commits[j].op
           pre == Spliced(tree, op)
<1>1. tree \in Trees /\ Populated(welcome, tree, j - 1) /\ op \in Ops /\ j \in Nat
  <2>1. commits[j] \in Commits /\ tree \in Trees /\ Populated(welcome, tree, j - 1)
    BY MadeFacts
  <2>2. QED
    BY <2>1 DEF Commits, TypeOK
<1>2. op.kind = "add" => \E v \in Members : op.member = {v} /\ Home(welcome, v, op.leaf, j)
  BY DEF Hist, History
<1> HIDE DEF tree, op
<1>3. \A n \in Nodes :
        \/ pre[n] = tree[n]
        \/ pre[n] = {}
        \/ op.kind = "add" /\ n = LeafNode(op.leaf) /\ pre[n] = op.member
  BY <1>1, SplicedType
<1>4. \A n \in Nodes : n <= Capacity - 2 /\ pre[n] # {} => pre[n] = tree[n]
  BY <1>1, SplicedNode
<1> HIDE DEF pre
<1>5. ASSUME NEW m \in Leaves, pre[LeafNode(m)] # {}
      PROVE  \E v \in Members, e \in Nat : pre[LeafNode(m)] = {v} /\ Home(welcome, v, m, e)
  <2>1. LeafNode(m) \in Nodes
    BY LeavesFacts
  <2>2. CASE pre[LeafNode(m)] = tree[LeafNode(m)]
    <3>1. PICK v \in Members, e \in 0 .. (j - 1) :
            tree[LeafNode(m)] = {v} /\ Home(welcome, v, m, e)
      BY <1>1, <1>5, <2>2 DEF Populated
    <3>2. e \in Nat
      OBVIOUS
    <3>3. QED
      BY <2>2, <3>1, <3>2
  <2>3. CASE op.kind = "add" /\ LeafNode(m) = LeafNode(op.leaf) /\ pre[LeafNode(m)] = op.member
    <3>1. m = op.leaf
      BY <1>1, <2>3, LeavesFacts DEF Ops
    <3>2. QED
      BY <1>1, <1>2, <2>3, <3>1
  <2>4. QED
    BY <1>3, <1>5, <2>1, <2>2, <2>3
<1>6. ASSUME NEW n \in Nodes, n <= Capacity - 2, pre[n] # {}
      PROVE  \E k \in Nat : pre[n] = {Secret(k, n)}
  <2>1. pre[n] = tree[n]
    BY <1>4, <1>6
  <2>2. PICK k \in 1 .. (j - 1) : tree[n] = {Secret(k, n)}
    BY <1>1, <1>6, <2>1 DEF Populated
  <2>3. k \in Nat
    OBVIOUS
  <2>4. QED
    BY <2>1, <2>2, <2>3
<1>7. Peopled(welcome, pre)
  BY <1>5, <1>6 DEF Peopled
<1>8. QED
  BY <1>7 DEF pre, tree, op

LEMMA RemovedHasNothing ==
  ASSUME TypeOK, NEW T, Hist(T), HeldInReach
  PROVE  RemovedLearnNothing
<1> SUFFICES ASSUME NEW i \in DOMAIN commits, NEW j \in DOMAIN commits, i <= j,
                    NEW u \in Removed(i), NEW d \in DOMAIN commits[j].path
             PROVE  commits[j].path[d].to \cap ({u} \cup held[u]) = {}
  BY DEF RemovedLearnNothing
<1> DEFINE pre == Spliced(T[j - 1], commits[j].op)
           l == commits[i].op.leaf
           s == commits[j].sender_leaf
<1>1. i \in 1 .. Len(commits) /\ j \in 1 .. Len(commits) /\ i \in Nat /\ j \in Nat /\ j \in i .. Len(commits)
  BY DEF TypeOK
<1>2. PICK g \in group[u] : u \in Members /\ g.my_leaf = l /\ g.epoch < i
  BY DEF Removed
<1>3. commits[i].op.kind = "remove" /\ g \in Groups /\ g.epoch \in Nat /\ l \in Leaves
  BY <1>2 DEF Removed, TypeOK, Groups
<1>4. Cleared(welcome, pre, l, i)
  BY <1>1, <1>3, StaysCleared
<1>5. PICK e \in 0 .. g.epoch : Home(welcome, u, l, e)
  BY <1>2 DEF Hist, Synced
<1>6. \A x, t \in welcome[u] : x = t
  BY <1>2 DEF Hist, Invited
<1>7. Peopled(welcome, pre)
  BY <1>1, SplicedPopulated
<1>8. held[u] \subseteq {Secret(k, m) : k \in 1 .. (i - 1), m \in DirectPath[l]}
  <2>1. held[u] \subseteq Reach(g)
    BY <1>2 DEF HeldInReach
  <2>2. 1 .. g.epoch \subseteq 1 .. (i - 1)
    BY <1>1, <1>2, <1>3
  <2>3. QED
    BY <1>2, <2>1, <2>2 DEF Reach
<1>9. commits[j].path[d].to = UNION {pre[m] : m \in Resolution(pre, CoPath(s, d))}
      /\ d \in DirectPath[s] /\ s \in Leaves
  <2>1. commits[j] \in Commits /\ MadeOn(T[j - 1], commits[j], j) /\ T[j - 1] \in Trees
    BY <1>1, MadeFacts
  <2>2. s \in Leaves
    BY <2>1 DEF Commits
  <2> DEFINE c == commits[j]
             tree == T[j - 1]
  <2>3. d \in DOMAIN c.path /\ MadeOn(tree, c, j) /\ tree \in Trees
    BY <2>1
  <2> HIDE DEF c, tree
  <2>4. /\ DOMAIN c.path = DirectPath[c.sender_leaf]
        /\ \A f \in DirectPath[c.sender_leaf] :
             c.path[f].to = UNION {Spliced(tree, c.op)[m] :
                              m \in Resolution(Spliced(tree, c.op), CoPath(c.sender_leaf, f))}
    BY <1>1, <2>3, MadePath
  <2>5. QED
    BY <2>2, <2>3, <2>4 DEF c, tree
<1>10. Resolution(pre, CoPath(s, d)) \subseteq Nodes
  BY <1>9, CoPathFacts DEF Resolution, Under
<1> HIDE DEF pre, l, s
<1>11. \A n \in Nodes :
         pre[n] \cap ({u} \cup {Secret(k, m) : k \in 1 .. (i - 1), m \in DirectPath[l]}) = {}
  <2>1. e \in Nat /\ e < i
    BY <1>1, <1>2, <1>3, <1>5
  <2>2. Home(welcome, u, l, e) /\ u \in Members /\ l \in Leaves
    BY <1>2, <1>3, <1>5
  <2>3. QED
    BY <1>1, <1>4, <1>6, <1>7, <2>1, <2>2, ClearedHidesReach
<1>12. QED
  BY <1>8, <1>9, <1>10, <1>11

LEMMA ReachInit == Init => HeldInReach
<1> SUFFICES ASSUME Init PROVE HeldInReach
  OBVIOUS
<1> DEFINE tree == [n \in Nodes |-> IF n = LeafNode(0) THEN {Founder} ELSE {}]
           g == NewGroup(tree, 0, <<>>, 0)
<1>1. g.known_secrets = [n \in Nodes |-> {}]
  BY DEF NewGroup
<1>2. group = [u \in Members |-> IF u = Founder THEN {g} ELSE {}] /\ held = [u \in Members |-> {}]
  BY DEF Init
<1> HIDE DEF g
<1>3. HeldBy(g) = {}
  BY <1>1 DEF HeldBy
<1>4. QED
  BY <1>2, <1>3 DEF HeldInReach

(***************************************************************************)
(* For any capacity and members: whatever a removed member ever held, no   *)
(* path secret of the removal or of a later commit is sealed to it.  The   *)
(* inductive invariant is the history, HoldsItsPath and HeldInReach: a     *)
(* member holds secrets of its path only, of its epoch at most, and every  *)
(* tree after its removal has newer ones there, or none.  It rests on      *)
(* KeysDiffer: a leaf key is not a path secret.                            *)
(***************************************************************************)
THEOREM RemovedAreOut == Spec => []RemovedLearnNothing
<1> DEFINE Inv == HistoryInv /\ HoldsItsPath /\ HeldInReach
<1>1. Init => Inv
  BY HistoryInductive, HoldsInit, ReachInit
<1>2. Inv /\ [Next]_vars => Inv'
  <2> SUFFICES ASSUME Inv, [Next]_vars PROVE Inv'
    OBVIOUS
  <2>1. HistoryInv'
    BY HistoryInductive
  <2>2. PICK T : Hist(T)
    BY DEF HistoryInv
  <2>3. PICK TT : Follows(T, TT)
    BY <2>2, HistoryFollows DEF HistoryInv
  <2>4. HoldsItsPath' /\ HeldInReach'
    BY <2>2, <2>3, HoldsStays, ReachStays DEF HistoryInv
  <2>5. QED
    BY <2>1, <2>4
<1>3. Inv => RemovedLearnNothing
  BY RemovedHasNothing DEF HistoryInv
<1> HIDE DEF Inv
<1>4. QED
  BY <1>1, <1>2, <1>3, PTL DEF Spec

-----------------------------------------------------------------------------
(***************************************************************************)
(* Records.  From here on, callers that left use their Group no more.      *)
(***************************************************************************)
\* Records were sealed by the member at their leaf, with a key of their epoch.
Sealed(T) ==
  \A r \in records :
    /\ r.epoch <= Len(commits) /\ T[r.epoch][LeafNode(r.leaf)] = {r.from}
    /\ r.key.secret = EpochSecret(r.epoch) /\ r.key.leaf = r.leaf

\* The first n of the records opened, those of epoch e and leaf l.
Turns(seq, e, l, n) ==
  {k \in 1 .. n : seq[k].record.leaf = l /\ seq[k].record.epoch = e}

\* A member that has opened seq has its own leaf or none, and its receive chains have
\* moved once for every record opened.
Reads(u, g, seq) ==
  /\ g.nodes[LeafNode(g.my_leaf)] \in {{}, {u}}
  /\ \A l \in Leaves :
       /\ RecvChain(g, l).secret = g.epoch_secret /\ RecvChain(g, l).leaf = l
       /\ RecvChain(g, l).pos = Cardinality(Turns(seq, g.epoch, l, Len(seq)))
  /\ \A k \in 1 .. Len(seq) : seq[k].record.epoch <= g.epoch

ReadSoFar(T) ==
  /\ Sealed(T) /\ InOrder
  /\ \A u \in Members :
       /\ group[u] = {} => opened[u] = <<>>
       /\ \A g \in group[u] : Reads(u, g, opened[u])

\* A group that begins an epoch has opened nothing of it.
LEMMA NewEpochReads ==
  ASSUME NEW u, NEW after \in Groups, NEW seq \in Seq(Readings),
         after.recv_chains = [l \in Leaves |-> {}],
         \A k \in 1 .. Len(seq) : seq[k].record.epoch < after.epoch,
         after.nodes[LeafNode(after.my_leaf)] \in {{}, {u}}
  PROVE  Reads(u, after, seq)
<1>1. after.epoch \in Nat
  BY DEF Groups
<1>2. \A k \in 1 .. Len(seq) : seq[k].record.epoch \in Nat
  <2> SUFFICES ASSUME NEW k \in 1 .. Len(seq) PROVE seq[k].record.epoch \in Nat
    OBVIOUS
  <2>1. seq[k] \in Readings
    OBVIOUS
  <2>2. QED
    BY <2>1 DEF Readings, Records
<1>3. \A k \in 1 .. Len(seq) : seq[k].record.epoch <= after.epoch /\ seq[k].record.epoch # after.epoch
  BY <1>1, <1>2
<1>4. \A l \in Leaves : Turns(seq, after.epoch, l, Len(seq)) = {}
  BY <1>3 DEF Turns
<1>5. \A l \in Leaves : RecvChain(after, l) = SenderChain(after.epoch_secret, l)
  BY DEF RecvChain
<1>6. ASSUME NEW l \in Leaves
      PROVE  /\ RecvChain(after, l).secret = after.epoch_secret /\ RecvChain(after, l).leaf = l
             /\ RecvChain(after, l).pos = Cardinality(Turns(seq, after.epoch, l, Len(seq)))
  <2>1. RecvChain(after, l) = [secret |-> after.epoch_secret, leaf |-> l, pos |-> 0]
    BY <1>5 DEF SenderChain
  <2>2. Cardinality(Turns(seq, after.epoch, l, Len(seq))) = 0
    BY <1>4, FS_EmptySet
  <2>3. QED
    BY <2>1, <2>2
<1>7. QED
  BY <1>3, <1>6 DEF Reads

\* A commit leaves a member its leaf, or removes it.
LEMMA OwnLeafStays ==
  ASSUME NEW tree \in Trees, NEW c, NEW i \in Nat, MadeOn(tree, c, i),
         NEW u, NEW l \in Leaves, tree[LeafNode(l)] = {u}
  PROVE  Post(tree, c, i)[LeafNode(l)] \in {{}, {u}}
<1>1. c.op \in Ops /\ c.sender_leaf \in Leaves /\ SpliceFits(tree, c.op)
  BY DEF MadeOn, Commits
<1>2. LeafNode(l) \in Nodes /\ LeafNode(l) \notin DirectPath[c.sender_leaf]
  BY <1>1, LeavesFacts
<1>3. Post(tree, c, i)[LeafNode(l)] = Spliced(tree, c.op)[LeafNode(l)]
  BY <1>2 DEF Post
<1>4. \/ Spliced(tree, c.op)[LeafNode(l)] = tree[LeafNode(l)]
      \/ Spliced(tree, c.op)[LeafNode(l)] = {}
      \/ c.op.kind = "add" /\ LeafNode(l) = LeafNode(c.op.leaf)
  BY <1>1, <1>2, SplicedType
<1>5. ~(c.op.kind = "add" /\ LeafNode(l) = LeafNode(c.op.leaf))
  BY <1>1 DEF SpliceFits
<1>6. QED
  BY <1>3, <1>4, <1>5

LEMMA OwnLeafAdded ==
  ASSUME NEW tree \in Trees, NEW c, NEW i \in Nat, MadeOn(tree, c, i),
         NEW u, NEW l \in Leaves, c.op = [kind |-> "add", leaf |-> l, member |-> {u}]
  PROVE  Post(tree, c, i)[LeafNode(l)] = {u}
<1>1. c.sender_leaf \in Leaves
  BY DEF MadeOn, Commits
<1>2. LeafNode(l) \in Nodes /\ LeafNode(l) \notin DirectPath[c.sender_leaf]
  BY <1>1, LeavesFacts
<1>3. Post(tree, c, i)[LeafNode(l)] = Spliced(tree, c.op)[LeafNode(l)]
  BY <1>2 DEF Post
<1>4. c.op.kind = "add" /\ c.op.leaf = l /\ c.op.member = {u}
  OBVIOUS
<1>5. Spliced(tree, c.op) = [tree EXCEPT ![LeafNode(l)] = {u}]
  BY <1>4 DEF Spliced
<1>6. QED
  BY <1>2, <1>3, <1>5 DEF Trees

LEMMA NothingOpened == InOrder /\ UNCHANGED opened => InOrder'
<1> SUFFICES ASSUME InOrder, opened' = opened PROVE InOrder'
  OBVIOUS
<1> SUFFICES ASSUME NEW v \in Members, NEW i \in DOMAIN opened'[v]
             PROVE  /\ opened'[v][i].sender = {opened'[v][i].record.from}
                    /\ opened'[v][i].record.key.pos =
                         Cardinality(Turns(opened'[v], opened'[v][i].record.epoch,
                                           opened'[v][i].record.leaf, i - 1))
  BY DEF InOrder, Turns
<1>1. i \in DOMAIN opened[v] /\ opened'[v] = opened[v]
  OBVIOUS
<1>2. /\ opened[v][i].sender = {opened[v][i].record.from}
      /\ opened[v][i].record.key.pos =
           Cardinality(Turns(opened[v], opened[v][i].record.epoch,
                             opened[v][i].record.leaf, i - 1))
  BY <1>1 DEF InOrder, Turns
<1>3. QED
  BY <1>1, <1>2

\* Only one member's group changes, and what it has opened fits it.
LEMMA ReadsOther ==
  ASSUME TypeOK, NEW T, ReadSoFar(T), NEW TT, Sealed(TT)', InOrder',
         NEW u \in Members, NEW after, group' = [group EXCEPT ![u] = {after}],
         \A v \in Members : v # u => opened'[v] = opened[v],
         Reads(u, after, opened'[u])
  PROVE  ReadSoFar(TT)'
<1>1. group'[u] = {after} /\ \A v \in Members : v # u => group'[v] = group[v]
  BY DEF TypeOK
<1>2. ASSUME NEW v \in Members
      PROVE  /\ group'[v] = {} => opened'[v] = <<>>
             /\ \A h \in group'[v] : Reads(v, h, opened'[v])
  <2>1. CASE v = u
    BY <1>1, <2>1
  <2>2. CASE v # u
    BY <1>1, <2>2 DEF ReadSoFar
  <2>3. QED
    BY <2>1, <2>2
<1>3. (\A v \in Members :
         /\ group[v] = {} => opened[v] = <<>>
         /\ \A h \in group[v] : Reads(v, h, opened[v]))'
  BY <1>2
<1>4. QED
  BY <1>3 DEF ReadSoFar

\* One more record opened.
LEMMA TurnsStay ==
  ASSUME NEW seq \in Seq(Readings), NEW rd, NEW m \in 0 .. Len(seq), NEW e, NEW l
  PROVE  Turns(Append(seq, rd), e, l, m) = Turns(seq, e, l, m)
<1> DEFINE more == Append(seq, rd)
<1>1. \A k \in 1 .. Len(seq) : more[k] = seq[k]
  OBVIOUS
<1>2. \A k \in 1 .. m : k \in 1 .. Len(seq)
  OBVIOUS
<1> HIDE DEF more
<1>3. Turns(more, e, l, m) = Turns(seq, e, l, m)
  BY <1>1, <1>2 DEF Turns
<1>4. QED
  BY <1>3 DEF more

LEMMA TurnsAppend ==
  ASSUME NEW seq \in Seq(Readings), NEW rd \in Readings, NEW e, NEW l
  PROVE  /\ (rd.record.leaf = l /\ rd.record.epoch = e) =>
              Cardinality(Turns(Append(seq, rd), e, l, Len(seq) + 1))
                = Cardinality(Turns(seq, e, l, Len(seq))) + 1
         /\ ~(rd.record.leaf = l /\ rd.record.epoch = e) =>
              Turns(Append(seq, rd), e, l, Len(seq) + 1) = Turns(seq, e, l, Len(seq))
<1> DEFINE n == Len(seq)
           more == Append(seq, rd)
           Old == Turns(seq, e, l, n)
<1>1. n \in Nat /\ more[n + 1] = rd /\ \A k \in 1 .. n : more[k] = seq[k]
  OBVIOUS
<1> HIDE DEF n, more
<1>3. Turns(more, e, l, n + 1) =
        Old \cup (IF rd.record.leaf = l /\ rd.record.epoch = e THEN {n + 1} ELSE {})
  <2>1. 1 .. (n + 1) = (1 .. n) \cup {n + 1}
    BY <1>1
  <2>2. QED
    BY <1>1, <2>1 DEF Turns
<1>4. IsFiniteSet(Old) /\ n + 1 \notin Old
  <2>1. Old \in SUBSET (1 .. n) /\ n + 1 \notin 1 .. n
    BY <1>1 DEF Turns
  <2>2. IsFiniteSet(1 .. n)
    BY <1>1, FS_Interval
  <2> HIDE DEF Old
  <2>3. IsFiniteSet(Old)
    BY <2>1, <2>2, FS_Subset
  <2>4. QED
    BY <2>1, <2>3
<1>5. Cardinality(Old \cup {n + 1}) = Cardinality(Old) + 1
  BY <1>4, FS_AddElement
<1>6. QED
  BY <1>3, <1>5 DEF n, more

\* A record opened in its turn keeps the order.
LEMMA OrderAppend ==
  ASSUME TypeOK, InOrder, NEW u \in Members, NEW rd \in Readings,
         opened' = [opened EXCEPT ![u] = Append(opened[u], rd)],
         rd.sender = {rd.record.from},
         rd.record.key.pos =
           Cardinality(Turns(opened[u], rd.record.epoch, rd.record.leaf, Len(opened[u])))
  PROVE  InOrder'
<1> SUFFICES ASSUME NEW v \in Members, NEW i \in DOMAIN opened'[v]
             PROVE  /\ opened'[v][i].sender = {opened'[v][i].record.from}
                    /\ opened'[v][i].record.key.pos =
                         Cardinality(Turns(opened'[v], opened'[v][i].record.epoch,
                                           opened'[v][i].record.leaf, i - 1))
  BY DEF InOrder, Turns
<1>1. ASSUME NEW j \in DOMAIN opened[v]
      PROVE  /\ opened[v][j].sender = {opened[v][j].record.from}
             /\ opened[v][j].record.key.pos =
                  Cardinality(Turns(opened[v], opened[v][j].record.epoch,
                                    opened[v][j].record.leaf, j - 1))
  BY DEF InOrder, Turns
<1>2. opened[v] \in Seq(Readings) /\ opened[u] \in Seq(Readings)
  BY DEF TypeOK
<1>3. CASE v # u
  <2>1. opened'[v] = opened[v]
    BY <1>3 DEF TypeOK
  <2>2. QED
    BY <1>1, <2>1
<1>4. CASE v = u
  <2> DEFINE seq == opened[u]
             n == Len(seq)
             more == Append(seq, rd)
  <2>1. opened'[v] = more /\ i \in 1 .. (n + 1) /\ n \in Nat
    <3>1. opened'[v] = more
      BY <1>4 DEF TypeOK
    <3>2. Len(more) = n + 1 /\ n \in Nat /\ DOMAIN more = 1 .. Len(more)
      BY <1>2
    <3>3. QED
      BY <3>1, <3>2
  <2>2. more[n + 1] = rd /\ \A k \in 1 .. n : more[k] = seq[k]
    BY <1>2
  <2>3. \A m \in 0 .. n : \A e, l : Turns(more, e, l, m) = Turns(seq, e, l, m)
    <3> SUFFICES ASSUME NEW m \in 0 .. n, NEW e, NEW l
                 PROVE  Turns(more, e, l, m) = Turns(seq, e, l, m)
      OBVIOUS
    <3>1. seq \in Seq(Readings)
      BY <1>2
    <3>2. QED
      BY <3>1, TurnsStay
  <2> HIDE DEF seq, more, n
  <2>4. CASE i = n + 1
    <3>1. i - 1 = n /\ n \in 0 .. n
      BY <2>1, <2>4
    <3>2. more[i] = rd /\ \A e, l : Turns(more, e, l, i - 1) = Turns(seq, e, l, n)
      BY <2>2, <2>3, <2>4, <3>1
    <3>3. rd.record.key.pos = Cardinality(Turns(seq, rd.record.epoch, rd.record.leaf, n))
      BY DEF seq, n
    <3>4. QED
      BY <2>1, <3>2, <3>3
  <2>5. CASE i # n + 1
    <3>1. i \in 1 .. n /\ i - 1 \in 0 .. n
      BY <2>1, <2>5
    <3>2. i \in DOMAIN opened[v] /\ opened[v] = seq
      BY <1>2, <1>4, <3>1 DEF seq, n
    <3>3. more[i] = seq[i] /\ \A e, l : Turns(more, e, l, i - 1) = Turns(seq, e, l, i - 1)
      BY <2>2, <2>3, <3>1
    <3> DEFINE rec == seq[i].record
    <3>4. seq[i].sender = {rec.from}
          /\ rec.key.pos = Cardinality(Turns(seq, rec.epoch, rec.leaf, i - 1))
      BY <1>1, <3>2
    <3>5. opened'[v][i].record = rec /\ opened'[v][i].sender = seq[i].sender
      BY <2>1, <3>3
    <3> HIDE DEF rec
    <3>6. Turns(opened'[v], rec.epoch, rec.leaf, i - 1) = Turns(seq, rec.epoch, rec.leaf, i - 1)
      BY <2>1, <3>3
    <3>7. QED
      BY <3>4, <3>5, <3>6
  <2>6. QED
    BY <2>4, <2>5
<1>5. QED
  BY <1>3, <1>4

LEMMA ReadsOpen ==
  ASSUME TypeOK, NEW T, Hist(T), ReadSoFar(T), NEW u \in Members, NEW r \in records, Open(u, r)
  PROVE  ReadSoFar(T)'
<1>1. PICK g \in group[u] :
        /\ Opens(g, r)
        /\ group' = [group EXCEPT ![u] = {Opened(g, r.leaf)}]
        /\ opened' = [opened EXCEPT
             ![u] = Append(@, [record |-> r, sender |-> g.nodes[LeafNode(r.leaf)]])]
  BY DEF Open
<1> DEFINE after == Opened(g, r.leaf)
           rd == [record |-> r, sender |-> g.nodes[LeafNode(r.leaf)]]
           seq == opened[u]
           chains == [g.recv_chains EXCEPT ![r.leaf] = {[RecvChain(g, r.leaf) EXCEPT !.pos = @ + 1]}]
<1>2. g \in Groups /\ r \in Records /\ r.leaf \in Leaves /\ seq \in Seq(Readings)
      /\ RecvChain(g, r.leaf) \in Chains /\ InEpoch(g, T)
  BY RecvChainType DEF TypeOK, Records, Hist, Synced
<1>3. rd \in Readings
  BY <1>2, LeavesFacts DEF Groups, Trees, Readings
<1>4. after \in Groups /\ after = [g EXCEPT !.recv_chains = chains]
  BY <1>2, OpenedType
<1> HIDE DEF chains, after
<1>5. /\ after.epoch = g.epoch /\ after.nodes = g.nodes /\ after.my_leaf = g.my_leaf
      /\ after.epoch_secret = g.epoch_secret /\ after.recv_chains = chains
  BY <1>2, <1>4 DEF Groups
<1>6. r.epoch = g.epoch /\ r.key = RecvChain(g, r.leaf)
  BY <1>1 DEF Opens
<1>7. Reads(u, g, seq)
  BY DEF ReadSoFar
<1>8. rd.sender = {r.from}
  BY <1>2, <1>6 DEF ReadSoFar, Sealed, InEpoch
<1>9. r.key.pos = Cardinality(Turns(seq, r.epoch, r.leaf, Len(seq)))
  BY <1>2, <1>6, <1>7 DEF Reads
<1>10. rd.record = r
  OBVIOUS
<1>11. opened' = [opened EXCEPT ![u] = Append(seq, rd)]
  BY <1>1
<1> HIDE DEF rd
<1>12. InOrder'
  <2>1. InOrder
    BY DEF ReadSoFar
  <2>2. QED
    BY <1>3, <1>8, <1>9, <1>10, <1>11, <2>1, OrderAppend
<1>13. opened'[u] = Append(seq, rd) /\ \A v \in Members : v # u => opened'[v] = opened[v]
  BY <1>11 DEF TypeOK
<1>14. Sealed(T)'
  BY DEF ReadSoFar, Sealed, Open
<1> HIDE DEF seq
<1>15. Reads(u, after, Append(seq, rd))
  <2>1. Len(Append(seq, rd)) = Len(seq) + 1 /\ Len(seq) \in Nat
    BY <1>2
  <2>2. ASSUME NEW l \in Leaves
        PROVE  /\ RecvChain(after, l).secret = after.epoch_secret /\ RecvChain(after, l).leaf = l
               /\ RecvChain(after, l).pos =
                    Cardinality(Turns(Append(seq, rd), after.epoch, l, Len(Append(seq, rd))))
    <3>1. /\ RecvChain(g, l).secret = g.epoch_secret /\ RecvChain(g, l).leaf = l
          /\ RecvChain(g, l).pos = Cardinality(Turns(seq, g.epoch, l, Len(seq)))
      BY <1>7 DEF Reads
    <3>2. CASE l = r.leaf
      <4>1. RecvChain(after, l) = [RecvChain(g, l) EXCEPT !.pos = @ + 1]
        <5> DEFINE x == [RecvChain(g, r.leaf) EXCEPT !.pos = @ + 1]
        <5>1. g.recv_chains \in [Leaves -> SUBSET Chains]
          BY <1>2 DEF Groups
        <5>2. chains = [g.recv_chains EXCEPT ![r.leaf] = {x}]
          BY DEF chains
        <5> HIDE DEF x
        <5>3. after.recv_chains[l] = {x}
          BY <1>2, <1>5, <3>2, <5>1, <5>2
        <5>4. RecvChain(after, l) = x
          BY <5>3 DEF RecvChain
        <5>5. QED
          BY <3>2, <5>4 DEF x
      <4>2. /\ RecvChain(after, l).secret = RecvChain(g, l).secret
            /\ RecvChain(after, l).leaf = RecvChain(g, l).leaf
            /\ RecvChain(after, l).pos = RecvChain(g, l).pos + 1
        BY <1>2, <3>2, <4>1 DEF Chains
      <4>3. Cardinality(Turns(Append(seq, rd), g.epoch, l, Len(seq) + 1))
              = Cardinality(Turns(seq, g.epoch, l, Len(seq))) + 1
        BY <1>2, <1>3, <1>6, <1>10, <3>2, TurnsAppend
      <4>4. QED
        BY <1>5, <2>1, <3>1, <4>2, <4>3
    <3>3. CASE l # r.leaf
      <4>1. RecvChain(after, l) = RecvChain(g, l)
        BY <1>2, <1>5, <3>3 DEF RecvChain, chains, Groups
      <4>2. Turns(Append(seq, rd), g.epoch, l, Len(seq) + 1) = Turns(seq, g.epoch, l, Len(seq))
        BY <1>2, <1>3, <1>10, <3>3, TurnsAppend
      <4>3. QED
        BY <1>5, <2>1, <3>1, <4>1, <4>2
    <3>4. QED
      BY <3>2, <3>3
  <2>3. ASSUME NEW k \in 1 .. Len(Append(seq, rd))
        PROVE  Append(seq, rd)[k].record.epoch <= after.epoch
    <3>1. CASE k = Len(seq) + 1
      <4>1. Append(seq, rd)[k] = rd
        BY <1>2, <3>1
      <4>2. g.epoch <= g.epoch
        BY <1>2 DEF Groups
      <4>3. QED
        BY <1>5, <1>6, <1>10, <4>1, <4>2
    <3>2. CASE k # Len(seq) + 1
      <4>1. k \in 1 .. Len(seq) /\ Append(seq, rd)[k] = seq[k]
        BY <1>2, <2>1, <3>2
      <4>2. QED
        BY <1>5, <1>7, <4>1 DEF Reads
    <3>3. QED
      BY <3>1, <3>2
  <2>4. after.nodes[LeafNode(after.my_leaf)] \in {{}, {u}}
    BY <1>5, <1>7 DEF Reads
  <2>5. QED
    BY <2>2, <2>3, <2>4 DEF Reads
<1>16. group' = [group EXCEPT ![u] = {after}]
  BY <1>1 DEF after
<1>17. QED
  BY <1>12, <1>13, <1>14, <1>15, <1>16, ReadsOther

LEMMA ReadsSeal ==
  ASSUME TypeOK, ~LeaversStay, NEW T, Hist(T), ReadSoFar(T), NEW u \in Members, Seal(u)
  PROVE  ReadSoFar(T)'
<1>1. PICK g \in group[u] :
        /\ Uses(u, g)
        /\ records' = records \cup
             {[epoch |-> g.epoch, leaf |-> g.my_leaf, key |-> g.send_chain, from |-> u]}
        /\ group' = [group EXCEPT ![u] = {[g EXCEPT !.send_chain.pos = @ + 1]}]
  BY DEF Seal
<1> DEFINE after == [g EXCEPT !.send_chain.pos = @ + 1]
           r == [epoch |-> g.epoch, leaf |-> g.my_leaf, key |-> g.send_chain, from |-> u]
<1>2. g \in Groups /\ InEpoch(g, T) /\ InGroup(u, g) /\ Reads(u, g, opened[u])
  BY <1>1 DEF TypeOK, Hist, Synced, Uses, ReadSoFar
<1>3. /\ after.epoch = g.epoch /\ after.nodes = g.nodes /\ after.my_leaf = g.my_leaf
      /\ after.epoch_secret = g.epoch_secret /\ after.recv_chains = g.recv_chains
  BY <1>2 DEF Groups
<1>4. UNCHANGED <<commits, opened>>
  BY DEF Seal
<1>5. /\ r.epoch <= Len(commits) /\ T[r.epoch][LeafNode(r.leaf)] = {r.from}
      /\ r.key.secret = EpochSecret(r.epoch) /\ r.key.leaf = r.leaf
  BY <1>2 DEF InEpoch, InGroup
<1>6. records' = records \cup {r}
  BY <1>1
<1> HIDE DEF r, after
<1>7. Sealed(T)'
  BY <1>4, <1>5, <1>6 DEF ReadSoFar, Sealed
<1>8. InOrder'
  BY <1>4, NothingOpened DEF ReadSoFar
<1>9. Reads(u, after, opened'[u])
  <2>1. \A l \in Leaves : RecvChain(after, l) = RecvChain(g, l)
    BY <1>3 DEF RecvChain
  <2>2. QED
    BY <1>2, <1>3, <1>4, <2>1 DEF Reads
<1>10. group' = [group EXCEPT ![u] = {after}]
  BY <1>1 DEF after
<1>11. QED
  BY <1>4, <1>7, <1>8, <1>9, <1>10, ReadsOther

LEMMA ReadsTake ==
  ASSUME TypeOK, ~LeaversStay, NEW T, Hist(T), ReadSoFar(T), NEW u \in Members,
         NEW i \in DOMAIN commits, NEW g, NEW after, Takes(T, u, g, i, after)
  PROVE  ReadSoFar(T)'
<1> DEFINE c == commits[i]
           l == g.my_leaf
<1>1. i \in 1 .. Len(commits) /\ i \in Nat /\ opened[u] \in Seq(Readings)
  BY DEF TypeOK
<1>2. /\ Ready(u, g, i) /\ g \in Groups /\ g.epoch = i - 1 /\ g.nodes = T[i - 1]
      /\ Advanced(g, after, T[i - 1], c, i, Derivable(c, Unseals(u, g, c)))
      /\ group' = [group EXCEPT ![u] = {after}]
      /\ UNCHANGED <<commits, records, opened>>
  BY DEF Takes
<1>3. /\ after \in Groups /\ after.epoch = i /\ after.my_leaf = l
      /\ after.nodes = Post(T[i - 1], c, i) /\ after.recv_chains = [m \in Leaves |-> {}]
  BY <1>2 DEF Advanced
<1>4. c \in Commits /\ MadeOn(T[i - 1], c, i) /\ T[i - 1] \in Trees /\ l \in Leaves
  BY <1>1, <1>2, MadeFacts DEF Groups
<1> HIDE DEF c
<1>7. InOrder' /\ Sealed(T)'
  <2>1. InOrder /\ Sealed(T)
    BY DEF ReadSoFar
  <2>2. QED
    BY <1>2, <2>1, NothingOpened DEF Sealed
<1> DEFINE tree == T[i - 1]
<1>5. CASE g \in group[u] /\ Uses(u, g)
  <2>1. tree[LeafNode(l)] = {u}
    BY <1>2, <1>5 DEF Uses, InGroup
  <2>2. after.nodes[LeafNode(after.my_leaf)] \in {{}, {u}}
    <3>1. /\ tree \in Trees /\ MadeOn(tree, c, i) /\ l \in Leaves
          /\ after.nodes = Post(tree, c, i) /\ after.my_leaf = l
      BY <1>3, <1>4
    <3> HIDE DEF tree, l
    <3>2. tree[LeafNode(l)] = {u}
      BY <2>1 DEF tree
    <3>3. Post(tree, c, i)[LeafNode(l)] \in {{}, {u}}
      BY <1>1, <3>1, <3>2, OwnLeafStays, Zenon
    <3>4. QED
      BY <3>1, <3>3
  <2>3. ASSUME NEW k \in 1 .. Len(opened[u])
        PROVE  opened[u][k].record.epoch < after.epoch
    <3>1. opened[u][k].record.epoch <= g.epoch
      BY <1>5 DEF ReadSoFar, Reads
    <3>2. opened[u][k] \in Readings
      BY <1>1
    <3>3. opened[u][k].record.epoch \in Nat
      BY <3>2 DEF Readings, Records
    <3>4. QED
      BY <1>1, <1>2, <1>3, <3>1, <3>3
  <2>4. Reads(u, after, opened[u])
    BY <1>1, <1>3, <2>2, <2>3, NewEpochReads
  <2>5. QED
    BY <1>2, <1>7, <2>4, ReadsOther
<1>6. CASE /\ group[u] = {}
           /\ \E s \in welcome[u] :
                g = Joining(s) /\ c.op = [kind |-> "add", leaf |-> s.target_leaf, member |-> {u}]
  <2>1. PICK s \in welcome[u] :
          g = Joining(s) /\ c.op = [kind |-> "add", leaf |-> s.target_leaf, member |-> {u}]
    BY <1>6
  <2>2. s.target_leaf = l
    BY <2>1, JoiningFacts
  <2>3. after.nodes[LeafNode(after.my_leaf)] \in {{}, {u}}
    <3>1. /\ tree \in Trees /\ MadeOn(tree, c, i) /\ l \in Leaves
          /\ after.nodes = Post(tree, c, i) /\ after.my_leaf = l
          /\ c.op = [kind |-> "add", leaf |-> l, member |-> {u}]
      BY <1>3, <1>4, <2>1, <2>2
    <3> HIDE DEF tree, l
    <3>2. tree \in Trees /\ MadeOn(tree, c, i) /\ i \in Nat /\ l \in Leaves
      BY <1>1, <3>1
    <3>3. c.op = [kind |-> "add", leaf |-> l, member |-> {u}]
      BY <3>1
    <3>4. Post(tree, c, i)[LeafNode(l)] = {u}
      BY <3>2, <3>3, OwnLeafAdded
    <3>5. QED
      BY <3>1, <3>4
  <2>4. \A k \in 1 .. Len(opened[u]) : opened[u][k].record.epoch < after.epoch
    <3>1. opened[u] = <<>>
      BY <1>6 DEF ReadSoFar
    <3>2. Len(opened[u]) = 0
      BY <3>1
    <3>3. QED
      BY <3>2
  <2>5. Reads(u, after, opened[u])
    BY <1>1, <1>3, <2>3, <2>4, NewEpochReads
  <2>6. QED
    BY <1>2, <1>7, <2>5, ReadsOther
<1>8. QED
  BY <1>2, <1>5, <1>6 DEF Ready, c

LEMMA ReadsMake ==
  ASSUME TypeOK, NEW T, Hist(T), ReadSoFar(T), NEW u \in Members,
         NEW g \in group[u], NEW op \in Ops, NEW c, NEW after, Makes(T, u, g, op, c, after),
         NEW TT, TT = Grown(T, c, Len(commits))
  PROVE  ReadSoFar(TT)'
<1> DEFINE N == Len(commits)
           l == g.my_leaf
<1>1. /\ g.epoch = N /\ InGroup(u, g) /\ MadeOn(T[N], c, N + 1)
      /\ Advanced(g, after, T[N], c, N + 1, DirectPath[g.my_leaf])
      /\ commits' = Append(commits, c) /\ group' = [group EXCEPT ![u] = {after}]
      /\ UNCHANGED <<records, opened>>
  BY DEF Makes, Committed
<1>2. /\ after \in Groups /\ after.epoch = N + 1 /\ after.my_leaf = l
      /\ after.nodes = Post(T[N], c, N + 1) /\ after.recv_chains = [m \in Leaves |-> {}]
  BY <1>1 DEF Advanced
<1>3. g \in Groups /\ l \in Leaves /\ InEpoch(g, T) /\ N \in Nat /\ N + 1 \in Nat
      /\ opened[u] \in Seq(Readings) /\ g.nodes \in Trees
  BY DEF TypeOK, Groups, Hist, Synced
<1>4. T[N] \in Trees /\ T[N][LeafNode(l)] = {u}
  BY <1>1, <1>3 DEF InEpoch, InGroup
<1>5. Len(commits') = N + 1 /\ \A i \in 0 .. N : TT[i] = T[i]
  BY <1>1, <1>3 DEF TypeOK, Grown
<1> HIDE DEF N
<1>6. Sealed(TT)'
  <2> SUFFICES ASSUME NEW r \in records
               PROVE  /\ r.epoch <= N + 1 /\ TT[r.epoch][LeafNode(r.leaf)] = {r.from}
                      /\ r.key.secret = EpochSecret(r.epoch) /\ r.key.leaf = r.leaf
    BY <1>1, <1>5 DEF Sealed
  <2>1. /\ r.epoch <= N /\ T[r.epoch][LeafNode(r.leaf)] = {r.from}
        /\ r.key.secret = EpochSecret(r.epoch) /\ r.key.leaf = r.leaf
    BY DEF ReadSoFar, Sealed, N
  <2>2. r.epoch \in Nat
    BY DEF TypeOK, Records
  <2>3. r.epoch \in 0 .. N /\ r.epoch <= N + 1
    BY <1>3, <2>1, <2>2
  <2>4. QED
    BY <1>5, <2>1, <2>3
<1>7. after.nodes[LeafNode(after.my_leaf)] \in {{}, {u}}
  <2> DEFINE tree == T[N]
             i == N + 1
  <2>1. /\ tree \in Trees /\ MadeOn(tree, c, i) /\ i \in Nat /\ tree[LeafNode(l)] = {u}
        /\ after.nodes = Post(tree, c, i) /\ after.my_leaf = l
    BY <1>1, <1>2, <1>3, <1>4
  <2> HIDE DEF tree, i
  <2>2. Post(tree, c, i)[LeafNode(l)] \in {{}, {u}}
    BY <1>3, <2>1, OwnLeafStays, Zenon
  <2>3. QED
    BY <2>1, <2>2
<1>8. ASSUME NEW k \in 1 .. Len(opened[u])
      PROVE  opened[u][k].record.epoch < after.epoch
  <2>1. opened[u][k].record.epoch <= g.epoch
    BY DEF ReadSoFar, Reads
  <2>2. opened[u][k] \in Readings
    BY <1>3
  <2>3. opened[u][k].record.epoch \in Nat
    BY <2>2 DEF Readings, Records
  <2>4. QED
    BY <1>1, <1>2, <1>3, <2>1, <2>3
<1>9. Reads(u, after, opened[u])
  BY <1>2, <1>3, <1>7, <1>8, NewEpochReads
<1>10. InOrder'
  BY <1>1, NothingOpened DEF ReadSoFar
<1>11. QED
  BY <1>1, <1>6, <1>9, <1>10, ReadsOther

LEMMA ReadsStay ==
  ASSUME TypeOK, ~LeaversStay, NEW T, Hist(T), ReadSoFar(T), NEW TT, Follows(T, TT)
  PROVE  ReadSoFar(TT)'
<1>1. CASE UNCHANGED vars /\ TT = T
  <2>1. InOrder'
    BY <1>1, NothingOpened DEF vars, ReadSoFar
  <2>2. QED
    BY <1>1, <2>1 DEF vars, ReadSoFar, Sealed
<1>2. ASSUME NEW u \in Members, NEW i \in DOMAIN commits, NEW g, NEW after,
             Takes(T, u, g, i, after)
      PROVE  ReadSoFar(T)'
  BY <1>2, ReadsTake
<1>3. ASSUME NEW u \in Members, Seal(u) \/ \E r \in records : Open(u, r)
      PROVE  ReadSoFar(T)'
  BY <1>3, ReadsSeal, ReadsOpen
<1>4. ASSUME NEW u \in Members, NEW g \in group[u], NEW op \in Ops, NEW c, NEW after,
             Makes(T, u, g, op, c, after), TT = Grown(T, c, Len(commits))
      PROVE  ReadSoFar(TT)'
  BY <1>4, ReadsMake
<1>5. QED
  BY <1>1, <1>2, <1>3, <1>4 DEF Follows

LEMMA ReadsInit ==
  ASSUME Init, NEW T
  PROVE  ReadSoFar(T)
<1> DEFINE tree == [n \in Nodes |-> IF n = LeafNode(0) THEN {Founder} ELSE {}]
           g == NewGroup(tree, 0, <<>>, 0)
<1>1. /\ group = [u \in Members |-> IF u = Founder THEN {g} ELSE {}]
      /\ records = {} /\ opened = [u \in Members |-> <<>>]
  BY DEF Init
<1>2. tree \in Trees /\ <<>> \in Seq(Secrets) /\ 0 \in Nat /\ 0 \in Leaves /\ <<>> \in Seq(Readings)
  BY NodesFacts, GroupAssumption DEF Trees, Keys
<1>3. LeafNode(0) \in Nodes
  BY <1>2, LeavesFacts
<1>4. tree[LeafNode(0)] = {Founder}
  BY <1>3
<1> HIDE DEF tree
<1>5. Fresh(g, tree, 0, <<>>, 0)
  BY <1>2, NewGroupType
<1> HIDE DEF g
<1>6. /\ g \in Groups /\ g.nodes = tree /\ g.my_leaf = 0
      /\ g.recv_chains = [l \in Leaves |-> {}]
  BY <1>5 DEF Fresh
<1>7. \A k \in 1 .. Len(<<>>) : <<>>[k].record.epoch < g.epoch
  OBVIOUS
<1>8. Reads(Founder, g, <<>>)
  <2> DEFINE seq == <<>>
  <2>1. g.nodes[LeafNode(g.my_leaf)] \in {{}, {Founder}}
    BY <1>4, <1>6
  <2>2. seq \in Seq(Readings) /\ \A k \in 1 .. Len(seq) : seq[k].record.epoch < g.epoch
    BY <1>2
  <2> HIDE DEF seq
  <2>3. Reads(Founder, g, seq)
    BY <1>6, <2>1, <2>2, NewEpochReads
  <2>4. QED
    BY <2>3 DEF seq
<1>9. Sealed(T) /\ InOrder
  BY <1>1 DEF Sealed, InOrder
<1>10. QED
  BY <1>1, <1>8, <1>9 DEF ReadSoFar

\* What holds of all that was read so far makes the next record readable.
LEMMA ReadableNext ==
  ASSUME TypeOK, NEW T, Hist(T), ReadSoFar(T)
  PROVE  RecordsRead
<1> SUFFICES ASSUME NEW u \in Members, NEW g \in group[u], NEW r \in records,
                    r.epoch = g.epoch, r.from # u, IsMember(g, r.leaf),
                    r.key.pos = RecvChain(g, r.leaf).pos
             PROVE  Opens(g, r)
  BY DEF RecordsRead, Readable, ReadSoFar
<1>1. g \in Groups /\ r \in Records /\ r.leaf \in Leaves /\ r.key \in Chains
      /\ RecvChain(g, r.leaf) \in Chains
  BY RecvChainType DEF TypeOK, Records
<1>2. InEpoch(g, T) /\ Reads(u, g, opened[u])
  BY DEF Hist, Synced, ReadSoFar
<1>3. /\ T[r.epoch][LeafNode(r.leaf)] = {r.from}
      /\ r.key.secret = EpochSecret(r.epoch) /\ r.key.leaf = r.leaf
  BY DEF ReadSoFar, Sealed
<1>4. RecvChain(g, r.leaf).secret = g.epoch_secret /\ RecvChain(g, r.leaf).leaf = r.leaf
  BY <1>1, <1>2 DEF Reads
<1>5. r.key = RecvChain(g, r.leaf)
  BY <1>1, <1>2, <1>3, <1>4 DEF InEpoch, Chains
<1>6. r.leaf # g.my_leaf
  BY <1>2, <1>3 DEF InEpoch, Reads
<1>7. QED
  BY <1>5, <1>6 DEF Opens

(***************************************************************************)
(* For any capacity and members, if callers that left use their Group no   *)
(* more: records are opened in the order they were sealed, each once, as   *)
(* the member's that sealed them, and the next one always can be.  The     *)
(* inductive invariant is the history and ReadSoFar: a leaf is its         *)
(* member's or blank, and receive chains count what was opened.            *)
(***************************************************************************)
THEOREM ReadInTurn == ~LeaversStay => (Spec => []RecordsRead)
<1> SUFFICES ASSUME ~LeaversStay PROVE Spec => []RecordsRead
  OBVIOUS
<1> DEFINE Inv == TypeOK /\ \E T : Hist(T) /\ ReadSoFar(T)
<1>1. Init => Inv
  BY TypeInit, HistoryInit, ReadsInit
<1>2. Inv /\ [Next]_vars => Inv'
  <2> SUFFICES ASSUME Inv, [Next]_vars PROVE Inv'
    OBVIOUS
  <2>1. TypeOK'
    BY TypeNext
  <2>2. PICK T : Hist(T) /\ ReadSoFar(T)
    OBVIOUS
  <2>3. PICK TT : Follows(T, TT)
    BY <2>2, HistoryFollows
  <2>4. Hist(TT)' /\ ReadSoFar(TT)'
    BY <2>2, <2>3, HistoryStays, ReadsStay
  <2>5. QED
    BY <2>1, <2>4
<1>3. Inv => RecordsRead
  BY ReadableNext
<1> HIDE DEF Inv
<1>4. QED
  BY <1>1, <1>2, <1>3, PTL DEF Spec

=============================================================================
