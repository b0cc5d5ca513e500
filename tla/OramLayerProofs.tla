---------------------------- MODULE OramLayerProofs ----------------------------
(***************************************************************************)
(* Proofs about the two layers over the Path ORAM client.  The integrity   *)
(* layer never refuses an honest server, and whatever a server loses or    *)
(* replays, an access that succeeds answers right: the trusted root says   *)
(* what every bucket held, and a path it accepts holds that.  The          *)
(* encryption layer reads back what was written, and so lets the client,   *)
(* which sees only that, take the steps it would take without it.          *)
(***************************************************************************)
EXTENDS SealedOram, VerifiedOram, OramProofs, SequenceTheorems

-----------------------------------------------------------------------------
(***************************************************************************)
(* The tree under a path: every node is on the path, or under the sibling  *)
(* of exactly one node of it.                                              *)
(***************************************************************************)
\* A node other than the root, its sibling and their parent.
LEMMA SiblingFacts ==
  ASSUME NEW m \in Nodes, m > 1
  PROVE  /\ Sibling(m) \in Nodes /\ Sibling(m) > 1 /\ Sibling(m) # m
         /\ Sibling(m) \div 2 = m \div 2 /\ Sibling(Sibling(m)) = m
         /\ m \div 2 \in Nodes /\ m \div 2 < m
         /\ \A k \in Nodes : k \div 2 = m \div 2 => k = m \/ k = Sibling(m)
  BY LeavesFacts DEF Nodes, Sibling

\* A node is not above its sibling, nor above what its sibling is above.
LEMMA SiblingApart ==
  ASSUME NEW m \in Nodes, m > 1, NEW k \in Nodes, m \in Ancestors[k]
  PROVE  Sibling(m) \notin Ancestors[k]
<1> DEFINE s == Sibling(m)
<1>1. s \in Nodes /\ s > 1 /\ s # m /\ s \div 2 = m \div 2 /\ m \div 2 < m /\ s \div 2 < s
      /\ m \div 2 \in Nodes
  BY SiblingFacts
<1> HIDE DEF s
<1>2. SUFFICES ASSUME s \in Ancestors[k] PROVE FALSE
  BY DEF s
<1>3. k \in Nat \ {0} /\ m \in Nat \ {0} /\ s \in Nat \ {0} /\ m \div 2 \in Nat \ {0}
  BY <1>1, NodesFacts
<1>4. CASE m <= s
  <2>1. m \in Ancestors[s]
    BY <1>2, <1>3, <1>4, AncestorsChain
  <2>2. m \in Ancestors[m \div 2]
    BY <1>1, <1>3, <2>1, AncestorsOf
  <2>3. QED
    BY <1>1, <1>3, <2>2, AncestorsBounds
<1>5. CASE s <= m
  <2>1. s \in Ancestors[m]
    BY <1>2, <1>3, <1>5, AncestorsChain
  <2>2. s \in Ancestors[m \div 2]
    BY <1>1, <1>3, <2>1, AncestorsOf
  <2>3. s <= m \div 2
    BY <1>3, <2>2, AncestorsBounds
  <2>4. QED
    BY <1>1, <1>3, <2>3
<1>6. QED
  BY <1>3, <1>4, <1>5

\* Subtree.
LEMMA SubtreeFacts ==
  /\ \A n \in Nodes : n \in Subtree(n) /\ Subtree(n) \subseteq Nodes
  /\ Subtree(1) = Nodes
  /\ \A m, n \in Nodes : m \in Subtree(n) => Subtree(m) \subseteq Subtree(n)
<1>1. \A n \in Nodes : n \in Ancestors[n] /\ 1 \in Ancestors[n]
  BY NodesFacts, AncestorsBounds
<1>2. ASSUME NEW m \in Nodes, NEW n \in Nodes, m \in Subtree(n), NEW k \in Subtree(m)
      PROVE  k \in Subtree(n)
  <2>1. k \in Nodes /\ m \in Ancestors[k] /\ n \in Ancestors[m]
    BY <1>2 DEF Subtree
  <2>2. Ancestors[m] \subseteq Ancestors[k]
    BY <2>1, NodesFacts, AncestorsTrans
  <2>3. QED
    BY <2>1, <2>2 DEF Subtree
<1>3. QED
  BY <1>1, <1>2 DEF Subtree

\* The nodes of a path, from n down, and what hangs off them.
LEMMA BelowFacts ==
  ASSUME NEW leaf \in Leaves, NEW n \in Path[leaf], NEW m \in Below(leaf, n)
  PROVE  /\ m \in Nodes /\ m > 1 /\ m \in Path[leaf] /\ m \in Subtree(n)
         /\ Sibling(m) \in Nodes /\ Subtree(Sibling(m)) \subseteq Subtree(n)
         /\ \A k \in Subtree(Sibling(m)) : k \notin Path[leaf]
<1>1. m \in Path[leaf] /\ m > n
  BY DEF Below
<1>2. m \in Nodes /\ n \in Nodes /\ m > 1
  <2>1. m \in Nodes /\ n \in Nodes
    BY <1>1, PathFacts
  <2>2. QED
    BY <1>1, <2>1 DEF Nodes
<1> DEFINE x == NumLeaves + leaf
<1>3. x \in Nat \ {0} /\ m \in Ancestors[x] /\ n \in Ancestors[x]
  BY <1>1, PathFacts
<1>4. n \in Ancestors[m]
  <2>1. n <= m
    BY <1>1, <1>2 DEF Nodes
  <2> HIDE DEF x
  <2>2. QED
    BY <1>3, <2>1, AncestorsChain
<1>5. n \in Ancestors[Sibling(m)]
  <2>1. n # m /\ m \div 2 \in Nodes
    BY <1>1, <1>2, SiblingFacts DEF Nodes
  <2>2. n \in Ancestors[m \div 2]
    BY <1>2, <1>4, <2>1, NodesFacts, AncestorsOf
  <2>3. Sibling(m) \in Nodes /\ Sibling(m) > 1 /\ Sibling(m) \div 2 = m \div 2
    BY <1>2, SiblingFacts
  <2>4. Ancestors[Sibling(m)] = {Sibling(m)} \cup Ancestors[m \div 2]
    BY <2>3, NodesFacts, AncestorsOf
  <2>5. QED
    BY <2>2, <2>4
<1>6. Sibling(m) \in Nodes
  BY <1>2, SiblingFacts
<1>7. m \in Subtree(n) /\ Sibling(m) \in Subtree(n)
  BY <1>2, <1>4, <1>5, <1>6 DEF Subtree
<1>8. ASSUME NEW k \in Subtree(Sibling(m)), k \in Path[leaf]
      PROVE  FALSE
  <2>1. k \in Nodes /\ Sibling(m) \in Ancestors[k]
    BY DEF Subtree
  <2>2. k \in Ancestors[x]
    BY <1>8, PathFacts
  <2>3. x \in Nodes
    BY <1>3, LeavesFacts DEF Nodes, Leaves
  <2> HIDE DEF x
  <2>4. Sibling(m) \in Ancestors[x]
    BY <1>3, <2>1, <2>2, NodesFacts, AncestorsTrans
  <2>5. QED
    BY <1>2, <1>3, <2>3, <2>4, SiblingApart
<1>9. QED
  BY <1>1, <1>2, <1>6, <1>7, <1>8, SubtreeFacts

\* A node is on the path or hangs off one place of it.
LEMMA Covered ==
  ASSUME NEW leaf \in Leaves, NEW n \in Path[leaf], NEW k \in Subtree(n)
  PROVE  k \in Below(leaf, n) \cup {n} \/ \E m \in Below(leaf, n) : k \in Subtree(Sibling(m))
<1> DEFINE On(j) == (j \in Path[leaf] /\ j >= n) \/ \E m \in Below(leaf, n) : Sibling(m) \in Ancestors[j]
           S == {j \in Nat \ {0} : j \in Nodes /\ n \in Ancestors[j] => On(j)}
           x == NumLeaves + leaf
<1>0. n \in Nodes /\ x \in Nat \ {0} /\ x \in Nodes /\ x >= NumLeaves /\ Path[leaf] = Ancestors[x]
      /\ Path[leaf] \subseteq Nodes
  BY PathFacts, LeavesFacts DEF Nodes, Leaves
<1> HIDE DEF x
<1>1. ASSUME NEW j \in Nat \ {0}, j > 1 => j \div 2 \in S, j \in Nodes, n \in Ancestors[j]
      PROVE  On(j)
  <2>1. CASE j = n
    BY <1>0, <2>1 DEF Nodes
  <2>2. CASE j # n
    <3>1. j > 1
      BY <1>1, <2>2, AncestorsOf
    <3>2. PICK p \in Nodes : p = j \div 2
      BY <1>1, <3>1, SiblingFacts
    <3>3. p \in Nat \ {0} /\ 2 * p <= j /\ p < j
      BY <3>1, <3>2, <1>1 DEF Nodes
    <3>4. Ancestors[j] = {j} \cup Ancestors[p] /\ p \in S
      BY <1>1, <3>1, <3>2, AncestorsOf
    <3>5. n \in Ancestors[p]
      BY <1>1, <2>2, <3>4
    <3>6. On(p)
      BY <3>4, <3>5
    <3>7. CASE \E m \in Below(leaf, n) : Sibling(m) \in Ancestors[p]
      BY <3>4, <3>7
    <3>8. CASE p \in Path[leaf] /\ p >= n
      <4>1. p # x
        BY <1>0, <1>1, <3>3, LeavesFacts DEF Nodes
      <4>2. PICK w \in Ancestors[x] : w > 1 /\ w \div 2 = p
        BY <1>0, <3>8, <4>1, ChildOnPath
      <4>3. w \in Nodes /\ p < w
        BY <1>0, <4>2, SiblingFacts
      <4>4. w > n
        BY <1>0, <3>8, <4>3 DEF Nodes
      <4>5. w \in Below(leaf, n)
        BY <1>0, <4>2, <4>4 DEF Below
      <4>6. CASE j = w
        BY <1>0, <4>2, <4>3, <4>4, <4>6 DEF Nodes
      <4>7. CASE j # w
        <5>1. j = Sibling(w)
          BY <1>1, <3>2, <4>2, <4>3, <4>7, SiblingFacts
        <5>2. QED
          BY <3>4, <4>5, <5>1
      <4>8. QED
        BY <4>6, <4>7
    <3>9. QED
      BY <3>6, <3>7, <3>8
  <2>3. QED
    BY <2>1, <2>2
<1>2. \A j \in Nat \ {0} : (j > 1 => j \div 2 \in S) => j \in S
  <2> HIDE DEF On
  <2>1. QED
    BY <1>1
<1>3. \A j \in Nat \ {0} : j \in S
  <2> HIDE DEF S
  <2>1. QED
    BY <1>2, TreeInduction
<1>4. k \in Nodes /\ n \in Ancestors[k]
  BY DEF Subtree
<1>5. On(k)
  <2> HIDE DEF On
  <2>1. QED
    BY <1>3, <1>4, NodesFacts
<1>6. CASE k \in Path[leaf] /\ k >= n
  BY <1>0, <1>4, <1>6 DEF Below, Nodes
<1>7. CASE \E m \in Below(leaf, n) : Sibling(m) \in Ancestors[k]
  BY <1>4, <1>7 DEF Subtree
<1>8. QED
  BY <1>5, <1>6, <1>7
\* Nothing on a path is under a node off it.
LEMMA OffPath ==
  ASSUME NEW leaf \in Leaves, NEW n \in Nodes, n \notin Path[leaf], NEW k \in Subtree(n)
  PROVE  k \in Nodes /\ k \notin Path[leaf]
<1>1. k \in Nodes /\ n \in Ancestors[k]
  BY DEF Subtree
<1> DEFINE x == NumLeaves + leaf
<1>2. x \in Nat \ {0} /\ Path[leaf] = Ancestors[x]
  BY PathFacts
<1> HIDE DEF x
<1>3. k \in Ancestors[x] => n \in Ancestors[x]
  BY <1>1, <1>2, NodesFacts, AncestorsTrans
<1>4. QED
  BY <1>1, <1>2, <1>3

-----------------------------------------------------------------------------
(***************************************************************************)
(* The integrity layer over an honest server.                              *)
(***************************************************************************)
\* What a node's hash commits to when it is computed from these buckets.
Commits(n, contents) == {<<m, contents[m]>> : m \in Subtree(n)}

\* What recompute_path_hashes computes when the hashes off the path are right.
LEMMA PathHashCommits ==
  ASSUME NEW leaf \in Leaves, NEW n \in Path[leaf], NEW contents, NEW answered,
         \A m \in Below(leaf, n) : answered[Sibling(m)] = Commits(Sibling(m), contents)
  PROVE  PathHash(leaf, n, contents, answered) = Commits(n, contents)
<1>1. n \in Nodes /\ n \in Subtree(n)
  BY PathFacts, SubtreeFacts
<1>2. ASSUME NEW p \in PathHash(leaf, n, contents, answered)
      PROVE  p \in Commits(n, contents)
  <2>1. CASE \E m \in Below(leaf, n) \cup {n} : p = <<m, contents[m]>>
    BY <1>1, <2>1, BelowFacts DEF Commits
  <2>2. CASE \E m \in Below(leaf, n) : p \in answered[Sibling(m)]
    <3>1. PICK m \in Below(leaf, n) : p \in Commits(Sibling(m), contents)
      BY <2>2
    <3>2. Subtree(Sibling(m)) \subseteq Subtree(n)
      BY BelowFacts
    <3>3. QED
      BY <3>1, <3>2 DEF Commits
  <2>3. QED
    BY <1>2, <2>1, <2>2 DEF PathHash
<1>3. ASSUME NEW p \in Commits(n, contents)
      PROVE  p \in PathHash(leaf, n, contents, answered)
  <2>1. PICK k \in Subtree(n) : p = <<k, contents[k]>>
    BY <1>3 DEF Commits
  <2>2. CASE k \in Below(leaf, n) \cup {n}
    BY <2>1, <2>2 DEF PathHash
  <2>3. CASE \E m \in Below(leaf, n) : k \in Subtree(Sibling(m))
    <3>1. PICK m \in Below(leaf, n) : k \in Subtree(Sibling(m))
      BY <2>3
    <3>2. p \in answered[Sibling(m)]
      BY <2>1, <3>1 DEF Commits
    <3>3. QED
      BY <3>2 DEF PathHash
  <2>4. QED
    BY <2>2, <2>3, Covered
<1>4. QED
  BY <1>2, <1>3

\* What an access does outside the path it reads: nothing.
LEMMA AccessWrites ==
  ASSUME NEW id, NEW new, NEW leaf \in Leaves, NEW new_leaf,
         AccessOn(id, new, leaf, new_leaf)
  PROVE  /\ position_map' = Remap(id, new_leaf)
         /\ \A n \in Nodes : n \notin Path[leaf] => buckets'[n] = buckets[n]
<1>1. position_map' = Remap(id, new_leaf) /\ \E at : buckets' = WriteBack(leaf, at)
  BY DEF AccessOn, AccessFrom
<1>2. QED
  BY <1>1 DEF WriteBack

\* Every leaf on record is one, and as long as nothing was lost every hash of the
\* server commits to its buckets, and the root to all of them.
PositionsOK == \A id \in DOMAIN position_map : position_map[id] \in Leaves

HashesHonest ==
  intact => /\ \A n \in Nodes : hashes[n] = Commits(n, buckets)
            /\ root = Commits(1, buckets)

HonestInv == PositionsOK /\ HashesHonest

LEMMA RemapPositions ==
  ASSUME PositionsOK, NEW id, NEW leaf \in Leaves, position_map' = Remap(id, leaf)
  PROVE  PositionsOK'
  BY DEF PositionsOK, Remap

LEMMA HonestInit == VerifiedInit => HonestInv
<1> SUFFICES ASSUME VerifiedInit PROVE HonestInv
  OBVIOUS
<1>1. position_map = [id \in {} |-> 0] /\ buckets = [n \in Nodes |-> {}]
  BY DEF VerifiedInit, Init
<1>2. PositionsOK
  BY <1>1 DEF PositionsOK
<1>3. \A n \in Nodes : EmptyHashes[n] = Commits(n, buckets)
  BY <1>1 DEF EmptyHashes, Commits, Subtree
<1>4. QED
  BY <1>2, <1>3, NodesFacts DEF VerifiedInit, HonestInv, HashesHonest

\* An access that is accepted, and committed from honest hashes.
LEMMA VerifiedHonest ==
  ASSUME HonestInv, "commit" \notin WrongHashes, NEW id, NEW new, Verified(id, new)
  PROVE  HonestInv'
<1>1. PICK leaf \in OldLeaves(id), new_leaf \in Leaves :
        /\ AccessOn(id, new, leaf, new_leaf)
        /\ \E answered \in Answers("commit") :
             /\ root' = PathHash(leaf, 1, buckets', answered)
             /\ hashes' = PathHashes(leaf, buckets', answered)
  BY DEF Verified
<1>2. leaf \in Leaves
  BY DEF HonestInv, PositionsOK, OldLeaves
<1>3. /\ root' = PathHash(leaf, 1, buckets', hashes)
      /\ hashes' = PathHashes(leaf, buckets', hashes)
  BY <1>1 DEF Answers
<1>4. /\ position_map' = Remap(id, new_leaf)
      /\ \A n \in Nodes : n \notin Path[leaf] => buckets'[n] = buckets[n]
  BY <1>1, <1>2, AccessWrites
<1>5. PositionsOK'
  BY <1>4, RemapPositions DEF HonestInv
<1>6. ASSUME intact
      PROVE  /\ \A n \in Nodes : hashes'[n] = Commits(n, buckets')
             /\ root' = Commits(1, buckets')
  <2>1. ASSUME NEW n \in Nodes, n \notin Path[leaf]
        PROVE  hashes[n] = Commits(n, buckets')
    <3>1. hashes[n] = Commits(n, buckets)
      BY <1>6 DEF HonestInv, HashesHonest
    <3>2. \A k \in Subtree(n) : buckets'[k] = buckets[k]
      BY <1>2, <1>4, <2>1, OffPath
    <3>3. QED
      BY <3>1, <3>2 DEF Commits
  <2>2. ASSUME NEW n \in Path[leaf]
        PROVE  PathHash(leaf, n, buckets', hashes) = Commits(n, buckets')
    <3>1. ASSUME NEW m \in Below(leaf, n)
          PROVE  hashes[Sibling(m)] = Commits(Sibling(m), buckets')
      <4>1. Sibling(m) \in Nodes /\ Sibling(m) \notin Path[leaf]
        BY <1>2, BelowFacts, SubtreeFacts
      <4>2. QED
        BY <2>1, <4>1
    <3>2. QED
      BY <1>2, <3>1, PathHashCommits
  <2>3. 1 \in Path[leaf]
    BY <1>2, PathFacts
  <2>4. \A n \in Nodes : hashes'[n] = Commits(n, buckets')
    BY <1>3, <2>1, <2>2 DEF PathHashes
  <2>5. QED
    BY <1>3, <2>2, <2>3, <2>4
<1>7. intact' = intact
  BY DEF Verified
<1>8. QED
  BY <1>5, <1>6, <1>7 DEF HonestInv, HashesHonest

LEMMA HonestStep ==
  ASSUME HonestInv, "commit" \notin WrongHashes, [VerifiedNext]_verifiedVars
  PROVE  HonestInv'
<1>1. CASE UNCHANGED verifiedVars
  BY <1>1 DEF verifiedVars, HonestInv, PositionsOK, HashesHonest
<1>2. ASSUME NEW id \in Ids, NEW new, Verified(id, new)
      PROVE  HonestInv'
  BY <1>2, VerifiedHonest
<1>3. ASSUME NEW id \in Ids, Refused(id)
      PROVE  HonestInv'
  <2>1. PICK leaf \in Leaves : position_map' = Remap(id, leaf)
    BY <1>3 DEF Refused
  <2>2. PositionsOK'
    BY <2>1, RemapPositions DEF HonestInv
  <2>3. QED
    BY <1>3, <2>2 DEF Refused, HonestInv, HashesHonest
<1>4. ASSUME NEW n \in Nodes, Lose(n)
      PROVE  HonestInv'
  BY <1>4 DEF Lose, HonestInv, PositionsOK, HashesHonest
<1>5. CASE Backup
  BY <1>5 DEF Backup, HonestInv, PositionsOK, HashesHonest
<1>6. CASE Restore
  BY <1>6 DEF Restore, HonestInv, PositionsOK, HashesHonest
<1>7. QED
  BY <1>1, <1>2, <1>3, <1>4, <1>5, <1>6 DEF VerifiedNext

(***************************************************************************)
(* An honest server is never refused: while nothing was lost or restored,  *)
(* the client meets its trusted root on every path, even after it refused  *)
(* a wrong answer and whether or not it tried again (verified_access).     *)
(* A wrong hash while committing is excluded: verified_access does not     *)
(* check those, and one makes the honest server fail from then on.         *)
(***************************************************************************)
THEOREM HonestServerIsAccepted ==
  "commit" \notin WrongHashes => (VerifiedSpec => []HonestServerAccepted)
<1> SUFFICES ASSUME "commit" \notin WrongHashes
             PROVE  VerifiedSpec => []HonestServerAccepted
  OBVIOUS
<1>1. VerifiedInit => HonestInv
  BY HonestInit
<1>2. HonestInv /\ [VerifiedNext]_verifiedVars => HonestInv'
  BY HonestStep
<1>3. HonestInv => HonestServerAccepted
  <2> SUFFICES ASSUME HonestInv, intact, NEW leaf \in Leaves
               PROVE  PathHash(leaf, 1, buckets, hashes) = root
    BY DEF HonestServerAccepted, Accepts
  <2>1. 1 \in Path[leaf]
    BY PathFacts
  <2>2. \A m \in Below(leaf, 1) : hashes[Sibling(m)] = Commits(Sibling(m), buckets)
    BY <2>1, BelowFacts DEF HonestInv, HashesHonest
  <2>3. QED
    BY <2>1, <2>2, PathHashCommits DEF HonestInv, HashesHonest
<1>4. QED
  BY <1>1, <1>2, <1>3, PTL DEF VerifiedSpec

-----------------------------------------------------------------------------
(***************************************************************************)
(* The integrity layer over any server.  The trusted root fixes what every *)
(* bucket held when it was last committed; the buckets of a path that is   *)
(* accepted hold that, so that the access is one of a plain client over    *)
(* the committed buckets, and OramProofs applies to it.                    *)
(***************************************************************************)
\* What the trusted root says of every bucket.
Committed == [m \in Nodes |-> CHOOSE x : <<m, x>> \in root]

Client == INSTANCE OramProofs WITH buckets <- Committed

\* The map that the committed buckets and the stash hold.
Held == [id \in Ids |-> {b.value : b \in {c \in Client!Blocks : c.id = id}}]

\* A server's hash of a node, old or new, says something of its subtree only.
HashesOK(h) ==
  /\ DOMAIN h = Nodes
  /\ \A n \in Nodes : \A p \in h[n] : \E k \in Subtree(n) : \E x : p = <<k, x>>

RootOK == root = Commits(1, Committed)

TrustInv ==
  /\ HashesOK(hashes)
  /\ HashesOK(backup.hashes)
  /\ ~failed => RootOK /\ Client!Inv /\ written = Held

\* A root commits to one content per bucket.
LEMMA RootFixes ==
  ASSUME NEW c, root = Commits(1, c)
  PROVE  RootOK /\ \A m \in Nodes : Committed[m] = c[m]
<1>1. ASSUME NEW m \in Nodes
      PROVE  (CHOOSE x : <<m, x>> \in root) = c[m]
  <2>1. \A x : <<m, x>> \in root <=> x = c[m]
    BY SubtreeFacts DEF Commits
  <2>2. QED
    BY <2>1
<1>2. \A m \in Nodes : Committed[m] = c[m]
  BY <1>1 DEF Committed
<1>3. QED
  BY <1>2, SubtreeFacts DEF RootOK, Commits

\* Two nodes of a path have no node under both their siblings.
LEMMA SiblingsApart ==
  ASSUME NEW leaf \in Leaves, NEW m \in Below(leaf, 1), NEW w \in Below(leaf, 1), m # w,
         NEW k \in Subtree(Sibling(m))
  PROVE  k \notin Subtree(Sibling(w))
<1> DEFINE s == Sibling(m)
           t == Sibling(w)
<1>1. 1 \in Path[leaf]
  BY PathFacts
<1>2. /\ m \in Nodes /\ m > 1 /\ m \in Path[leaf] /\ s \in Nodes /\ s \notin Path[leaf]
      /\ w \in Nodes /\ w > 1 /\ w \in Path[leaf] /\ t \in Nodes /\ t \notin Path[leaf]
  BY <1>1, BelowFacts, SubtreeFacts
<1>3. /\ s > 1 /\ s \div 2 = m \div 2 /\ m \div 2 \in Nodes /\ Sibling(s) = m
      /\ t > 1 /\ t \div 2 = w \div 2 /\ w \div 2 \in Nodes /\ Sibling(t) = w
  BY <1>2, SiblingFacts
<1>4. s # t
  BY <1>3
<1> HIDE DEF s, t
<1>5. k \in Nodes /\ s \in Ancestors[k]
  BY DEF Subtree, s
<1>6. SUFFICES ASSUME t \in Ancestors[k] PROVE FALSE
  BY DEF Subtree, t
<1>7. ASSUME NEW u \in Nodes, NEW z \in Nodes, z > 1, u # z, u \in Ancestors[z],
             u \notin Path[leaf], Sibling(z) \in Path[leaf], Sibling(z) > 1, Sibling(z) \in Nodes,
             Sibling(z) \div 2 = z \div 2
      PROVE  FALSE
  <2>1. u \in Ancestors[z \div 2]
    BY <1>7, NodesFacts, AncestorsOf
  <2>2. u \in Ancestors[Sibling(z)]
    BY <1>7, <2>1, NodesFacts, AncestorsOf
  <2>3. u \in Subtree(u) /\ Sibling(z) \in Subtree(u)
    BY <1>7, <2>2, SubtreeFacts DEF Subtree
  <2>4. QED
    BY <1>7, <2>3, OffPath
<1>8. CASE s <= t
  <2>1. s \in Ancestors[t]
    BY <1>5, <1>6, <1>8, NodesFacts, AncestorsChain
  <2>2. QED
    BY <1>2, <1>3, <1>4, <1>7, <2>1
<1>9. CASE t <= s
  <2>1. t \in Ancestors[s]
    BY <1>5, <1>6, <1>9, NodesFacts, AncestorsChain
  <2>2. QED
    BY <1>2, <1>3, <1>4, <1>7, <2>1
<1>10. QED
  BY <1>2, <1>8, <1>9 DEF Nodes

\* A path that is accepted holds what was committed, and so do the hashes of the
\* siblings it was accepted with; an answer that differs would have been seen.
LEMMA AcceptedPath ==
  ASSUME RootOK, HashesOK(hashes), NEW leaf \in Leaves,
         NEW answered \in Answers("check"), Accepts(leaf, answered)
  PROVE  /\ \A m \in Path[leaf] : buckets[m] = Committed[m]
         /\ \A m \in Below(leaf, 1) : hashes[Sibling(m)] = Commits(Sibling(m), Committed)
<1>1. PathHash(leaf, 1, buckets, answered) = Commits(1, Committed)
  BY DEF Accepts, RootOK
<1>2. 1 \in Path[leaf] /\ Path[leaf] \subseteq Nodes /\ Subtree(1) = Nodes
  BY PathFacts, SubtreeFacts
<1>3. ASSUME NEW m \in Path[leaf]
      PROVE  buckets[m] = Committed[m]
  <2>1. m \in Below(leaf, 1) \cup {1}
    BY <1>2 DEF Below, Nodes
  <2>2. <<m, buckets[m]>> \in Commits(1, Committed)
    BY <1>1, <2>1 DEF PathHash
  <2>3. QED
    BY <2>2 DEF Commits
<1>4. ASSUME NEW s \in Nodes
      PROVE  answered[s] = hashes[s] \/ answered[s] = {}
  BY DEF Answers, HashesOK
<1>5. ASSUME NEW m \in Below(leaf, 1)
      PROVE  hashes[Sibling(m)] = Commits(Sibling(m), Committed)
  <2> DEFINE s == Sibling(m)
  <2>1. s \in Nodes /\ s \in Subtree(s) /\ \A k \in Subtree(s) : k \in Nodes /\ k \notin Path[leaf]
    BY <1>2, BelowFacts, SubtreeFacts
  <2>2. ASSUME NEW n \in Nodes, NEW p \in answered[n]
        PROVE  \E k \in Subtree(n) : \E x : p = <<k, x>>
    BY <1>4, <2>2 DEF HashesOK
  <2>3. ASSUME NEW p \in answered[s]
        PROVE  p \in Commits(s, Committed)
    <3>1. p \in Commits(1, Committed)
      BY <1>1, <2>3 DEF PathHash
    <3>2. PICK k \in Subtree(s) : \E x : p = <<k, x>>
      BY <2>1, <2>2, <2>3
    <3>3. PICK j \in Subtree(1) : p = <<j, Committed[j]>>
      BY <3>1 DEF Commits
    <3>4. QED
      BY <3>2, <3>3 DEF Commits
  <2>4. ASSUME NEW k \in Subtree(s)
        PROVE  <<k, Committed[k]>> \in answered[s]
    <3>1. k \in Nodes /\ k \notin Path[leaf]
      BY <2>1
    <3>2. <<k, Committed[k]>> \in PathHash(leaf, 1, buckets, answered)
      BY <1>1, <1>2, <3>1 DEF Commits
    <3>3. PICK w \in Below(leaf, 1) : <<k, Committed[k]>> \in answered[Sibling(w)]
      BY <1>2, <3>1, <3>2 DEF PathHash, Below
    <3>4. Sibling(w) \in Nodes
      BY <1>2, BelowFacts
    <3>5. k \in Subtree(Sibling(w))
      BY <2>2, <3>3, <3>4
    <3>6. w = m
      BY <3>5, SiblingsApart
    <3>7. QED
      BY <3>3, <3>6
  <2>5. answered[s] = Commits(s, Committed)
    BY <2>3, <2>4 DEF Commits
  <2>6. answered[s] # {}
    BY <2>1, <2>4
  <2>7. QED
    BY <1>4, <2>1, <2>5, <2>6
<1>6. QED
  BY <1>3, <1>5

\* The new root is what the access wrote on its path, and what was committed off it.
LEMMA NewRoot ==
  ASSUME RootOK, NEW leaf \in Leaves, NEW contents,
         \A m \in Below(leaf, 1) : hashes[Sibling(m)] = Commits(Sibling(m), Committed),
         root' = PathHash(leaf, 1, contents, hashes)
  PROVE  /\ RootOK'
         /\ Committed' = [n \in Nodes |-> IF n \in Path[leaf] THEN contents[n] ELSE Committed[n]]
<1> DEFINE c == [n \in Nodes |-> IF n \in Path[leaf] THEN contents[n] ELSE Committed[n]]
<1>1. 1 \in Path[leaf] /\ Path[leaf] \subseteq Nodes
  BY PathFacts
<1>2. ASSUME NEW m \in Below(leaf, 1)
      PROVE  hashes[Sibling(m)] = Commits(Sibling(m), c)
  <2>1. \A k \in Subtree(Sibling(m)) : k \in Nodes /\ k \notin Path[leaf]
    BY <1>1, BelowFacts, SubtreeFacts
  <2>2. \A k \in Subtree(Sibling(m)) : c[k] = Committed[k]
    BY <2>1
  <2> HIDE DEF c
  <2>3. QED
    BY <2>2 DEF Commits
<1>3. \A m \in Below(leaf, 1) \cup {1} : c[m] = contents[m]
  BY <1>1 DEF Below
<1>4. c = [n \in Nodes |-> c[n]]
  OBVIOUS
<1> HIDE DEF c
<1>5. PathHash(leaf, 1, c, hashes) = PathHash(leaf, 1, contents, hashes)
  BY <1>3 DEF PathHash
<1>6. root' = Commits(1, c)
  BY <1>1, <1>2, <1>5, PathHashCommits
<1>7. RootOK' /\ \A m \in Nodes : Committed'[m] = c[m]
  <2>1. ASSUME NEW m \in Nodes
        PROVE  (CHOOSE x : <<m, x>> \in root') = c[m]
    <3>1. \A x : <<m, x>> \in root' <=> x = c[m]
      BY <1>6, SubtreeFacts DEF Commits
    <3>2. QED
      BY <3>1
  <2>2. \A m \in Nodes : Committed'[m] = c[m]
    BY <2>1 DEF Committed
  <2>3. QED
    BY <1>6, <2>2, SubtreeFacts DEF RootOK, Commits
<1>8. Committed' = [n \in Nodes |-> Committed'[n]]
  <2> DEFINE said(m) == CHOOSE x : <<m, x>> \in root'
  <2>1. Committed' = [m \in Nodes |-> said(m)]
    BY Zenon DEF Committed
  <2> HIDE DEF said
  <2>2. QED
    BY <2>1
<1>9. Committed' = c
  BY <1>4, <1>7, <1>8
<1>10. QED
  BY <1>7, <1>9 DEF c

\* The path hashes of an access say something of their subtrees only.
LEMMA PathHashesOK ==
  ASSUME HashesOK(hashes), NEW leaf \in Leaves, NEW contents
  PROVE  HashesOK(PathHashes(leaf, contents, hashes))
<1> DEFINE h == PathHashes(leaf, contents, hashes)
<1>1. DOMAIN h = Nodes
  BY DEF PathHashes
<1>2. ASSUME NEW n \in Nodes, NEW p \in h[n]
      PROVE  \E k \in Subtree(n) : \E x : p = <<k, x>>
  <2>1. CASE n \notin Path[leaf]
    BY <1>2, <2>1 DEF PathHashes, HashesOK
  <2>2. CASE n \in Path[leaf]
    <3>1. p \in PathHash(leaf, n, contents, hashes)
      BY <1>2, <2>2 DEF PathHashes
    <3>2. CASE \E m \in Below(leaf, n) \cup {n} : p = <<m, contents[m]>>
      BY <2>2, <3>2, BelowFacts, SubtreeFacts
    <3>3. CASE \E m \in Below(leaf, n) : p \in hashes[Sibling(m)]
      <4>1. PICK m \in Below(leaf, n) : p \in hashes[Sibling(m)]
        BY <3>3
      <4>2. Sibling(m) \in Nodes /\ Subtree(Sibling(m)) \subseteq Subtree(n)
        BY <2>2, BelowFacts
      <4>3. \E k \in Subtree(Sibling(m)) : \E x : p = <<k, x>>
        BY <4>1, <4>2 DEF HashesOK
      <4>4. QED
        BY <4>2, <4>3
    <3>4. QED
      BY <3>1, <3>2, <3>3 DEF PathHash
  <2>3. QED
    BY <2>1, <2>2
<1> HIDE DEF h
<1>3. HashesOK(h)
  BY <1>1, <1>2 DEF HashesOK
<1>4. QED
  BY <1>3 DEF h

\* The client over the committed buckets walks the same tree.
LEMMA SameTree ==
  /\ Client!Leaves = Leaves /\ Client!Nodes = Nodes /\ Client!Path = Path
  /\ Client!Block = Block
  BY DEF Client!Leaves, Leaves, Client!Nodes, Nodes, Client!Path, Path, Client!Block, Block,
         Client!NumLeaves, NumLeaves, Client!Pow2, Pow2, Client!Ancestors, Ancestors

\* An accepted access is one over the committed buckets.
LEMMA AccessCommitted ==
  ASSUME NEW id, NEW new, NEW leaf \in OldLeaves(id), NEW new_leaf \in Leaves,
         leaf \in Leaves, AccessOn(id, new, leaf, new_leaf),
         \A m \in Path[leaf] : buckets[m] = Committed[m],
         Committed' = [n \in Nodes |-> IF n \in Path[leaf] THEN buckets'[n] ELSE Committed[n]]
  PROVE  Client!Access(id, new)
<1>1. ReadPath(leaf) = Client!ReadPath(leaf)
  BY SameTree DEF ReadPath, Client!ReadPath
<1>2. PICK existing \in Existing(ReadPath(leaf), id) :
        LET blocks == Update(ReadPath(leaf), existing, id, new)
        IN /\ position_map' = Remap(id, new_leaf)
           /\ \E at \in Evictions(blocks, leaf, position_map') :
                stash' = InBucket(at, 0) /\ buckets' = WriteBack(leaf, at)
           /\ reply' = <<id, {b.value : b \in existing}>>
  BY DEF AccessOn, AccessFrom
<1> DEFINE blocks == Update(ReadPath(leaf), existing, id, new)
<1>3. PICK at \in Evictions(blocks, leaf, position_map') :
        stash' = InBucket(at, 0) /\ buckets' = WriteBack(leaf, at)
  BY <1>2
<1>4. existing \in Client!Existing(Client!ReadPath(leaf), id)
  BY <1>1 DEF Existing, Client!Existing
<1>5. blocks = Client!Update(Client!ReadPath(leaf), existing, id, new)
  BY <1>1 DEF Update, Client!Update
<1>6. at \in Client!Evictions(blocks, leaf, position_map')
  <2>1. \A n : InBucket(at, n) = Client!InBucket(at, n)
    BY DEF InBucket, Client!InBucket
  <2>2. \A S : Cardinality(S) = Client!Cardinality(S)
    BY DEF Cardinality, Client!Cardinality
  <2> HIDE DEF blocks
  <2>3. QED
    BY <1>3, <2>1, <2>2, SameTree DEF Evictions, Client!Evictions
<1>7. Path[leaf] \subseteq Nodes
  BY PathFacts
<1>8. stash' = Client!InBucket(at, 0) /\ Committed' = Client!WriteBack(leaf, at)
  <2>1. \A n \in Nodes : n \in Path[leaf] => buckets'[n] = InBucket(at, n)
    BY <1>3 DEF WriteBack
  <2>2. Committed' = [n \in Nodes |-> IF n \in Path[leaf] THEN InBucket(at, n) ELSE Committed[n]]
    BY <2>1
  <2>3. QED
    BY <1>3, <2>2, SameTree DEF InBucket, Client!InBucket, Client!WriteBack
<1>9. position_map' = Client!Remap(id, new_leaf)
  BY <1>2 DEF Remap, Client!Remap
<1>10. Client!AccessOn(id, new, leaf, new_leaf)
  <2> HIDE DEF blocks
  <2>1. \E e \in Client!Existing(Client!ReadPath(leaf), id) :
          /\ e = existing
          /\ \E bl : /\ bl = Client!Update(Client!ReadPath(leaf), e, id, new)
                     /\ at \in Client!Evictions(bl, leaf, position_map')
    BY <1>3, <1>4, <1>5, <1>6
  <2>2. QED
    BY <1>2, <1>4, <1>5, <1>6, <1>8, <1>9, <2>1 DEF Client!AccessOn, Client!AccessFrom
<1>11. leaf \in Client!OldLeaves(id) /\ new_leaf \in Client!Leaves
  BY SameTree DEF OldLeaves, Client!OldLeaves
<1>12. QED
  BY <1>10, <1>11 DEF Client!Access

LEMMA TrustInit == VerifiedInit => TrustInv /\ Answered!Init
<1> SUFFICES ASSUME VerifiedInit PROVE TrustInv /\ Answered!Init
  OBVIOUS
<1>1. /\ position_map = [id \in {} |-> 0] /\ stash = {} /\ reply = <<>>
      /\ buckets = [n \in Nodes |-> {}]
      /\ hashes = EmptyHashes /\ backup.hashes = EmptyHashes /\ root = EmptyHashes[1]
      /\ written = [id \in Ids |-> {}]
  BY DEF VerifiedInit, Init
<1>2. HashesOK(EmptyHashes)
  BY DEF EmptyHashes, HashesOK
<1>3. root = Commits(1, buckets)
  BY <1>1, NodesFacts DEF EmptyHashes, Commits, Subtree
<1>4. RootOK /\ \A m \in Nodes : Committed[m] = {}
  BY <1>1, <1>3, RootFixes
<1>5. Committed = [n \in Nodes |-> {}]
  <2> DEFINE said(m) == CHOOSE x : <<m, x>> \in root
  <2>1. Committed = [m \in Nodes |-> said(m)]
    BY Zenon DEF Committed
  <2> HIDE DEF said
  <2>2. QED
    BY <1>4, <2>1
<1>6. Client!Init
  BY <1>1, <1>5, SameTree DEF Client!Init
<1>7. Client!Inv
  BY <1>6, Client!InvInit, SizesAssumption
<1>8. Client!Blocks = {}
  BY <1>1, <1>5, SameTree DEF Client!Blocks
<1>9. written = Held
  BY <1>1, <1>8 DEF Held
<1>10. QED
  BY <1>1, <1>2, <1>4, <1>7, <1>9 DEF TrustInv, Answered!Init

\* An access that is accepted answers as the map does.
LEMMA VerifiedTrust ==
  ASSUME TrustInv, ~failed, "commit" \notin WrongHashes,
         NEW id \in Ids, NEW new \in SUBSET Values,
         new = {} \/ \E v \in Values : new = {v},
         Verified(id, new)
  PROVE  TrustInv' /\ Answered!Access(id, new)
<1>1. RootOK /\ Client!Inv /\ written = Held /\ HashesOK(hashes)
  BY DEF TrustInv
<1>2. PICK leaf \in OldLeaves(id), new_leaf \in Leaves :
        /\ \E answered \in Answers("check") : Accepts(leaf, answered)
        /\ AccessOn(id, new, leaf, new_leaf)
        /\ \E answered \in Answers("commit") :
             /\ root' = PathHash(leaf, 1, buckets', answered)
             /\ hashes' = PathHashes(leaf, buckets', answered)
  BY DEF Verified
<1>3. leaf \in Leaves
  BY <1>1, <1>2, SameTree DEF Client!Inv, Client!TypeOK, OldLeaves
<1>4. /\ \A m \in Path[leaf] : buckets[m] = Committed[m]
      /\ \A m \in Below(leaf, 1) : hashes[Sibling(m)] = Commits(Sibling(m), Committed)
  BY <1>1, <1>2, <1>3, AcceptedPath
<1>5. /\ root' = PathHash(leaf, 1, buckets', hashes)
      /\ hashes' = PathHashes(leaf, buckets', hashes)
  BY <1>2 DEF Answers
<1>6. /\ RootOK'
      /\ Committed' = [n \in Nodes |-> IF n \in Path[leaf] THEN buckets'[n] ELSE Committed[n]]
  BY <1>1, <1>3, <1>4, <1>5, NewRoot
<1>7. HashesOK(hashes)'
  <2>1. HashesOK(hashes')
    BY <1>1, <1>3, <1>5, PathHashesOK
  <2>2. QED
    BY <2>1 DEF HashesOK
<1>8. Client!Access(id, new)
  BY <1>2, <1>3, <1>4, <1>6, AccessCommitted
<1>9. Client!Inv' /\ Client!Map!Access(id, new)
  BY <1>1, <1>8, Client!AccessStep, SizesAssumption
<1>10. /\ reply' = <<id, Held[id]>>
       /\ Held' = IF new = {} THEN Held ELSE [Held EXCEPT ![id] = new]
  BY <1>9 DEF Client!Map!Access, Held
<1>11. /\ written' = IF new = {} THEN written ELSE [written EXCEPT ![id] = new]
       /\ backup' = backup
  BY DEF Verified
<1>12. written' = Held' /\ reply' = <<id, written[id]>>
  BY <1>1, <1>10, <1>11
<1>13. HashesOK(backup.hashes)'
  BY <1>11 DEF TrustInv, HashesOK
<1>14. QED
  BY <1>6, <1>7, <1>9, <1>11, <1>12, <1>13 DEF TrustInv, Answered!Access

\* What the server does on its own is no business of the client's.
LEMMA TrustUnchanged ==
  ASSUME TrustInv, UNCHANGED <<position_map, stash, reply, root, failed, written>>,
         HashesOK(hashes)', HashesOK(backup.hashes)'
  PROVE  TrustInv'
<1>1. Committed' = Committed
  BY DEF Committed
<1>2. ~failed => Client!Inv'
  <2>1. UNCHANGED Client!vars
    BY <1>1 DEF Client!vars
  <2>2. QED
    BY <2>1, Client!InvNext, SizesAssumption DEF TrustInv
<1>3. RootOK => RootOK'
  BY <1>1 DEF RootOK, Commits
<1>4. Held' = Held
  BY <1>1 DEF Held, Client!Blocks
<1>5. QED
  BY <1>2, <1>3, <1>4 DEF TrustInv

LEMMA TrustStep ==
  ASSUME TrustInv, "commit" \notin WrongHashes, Retries = FALSE,
         [VerifiedNext]_verifiedVars
  PROVE  TrustInv' /\ [Answered!Next]_(Answered!vars)
<1>1. HashesOK(hashes) /\ HashesOK(backup.hashes)
  BY DEF TrustInv
<1>2. CASE UNCHANGED verifiedVars
  <2>1. HashesOK(hashes)' /\ HashesOK(backup.hashes)'
    BY <1>1, <1>2 DEF verifiedVars, HashesOK
  <2>2. TrustInv'
    BY <1>2, <2>1, TrustUnchanged DEF verifiedVars
  <2>3. QED
    BY <1>2, <2>2 DEF verifiedVars, Answered!vars
<1>3. ASSUME NEW id \in Ids, ~failed, Verified(id, {})
      PROVE  TrustInv' /\ Answered!Next
  <2>1. TrustInv' /\ Answered!Access(id, {})
    BY <1>3, VerifiedTrust
  <2>2. QED
    BY <2>1 DEF Answered!Next
<1>4. ASSUME NEW id \in Ids, NEW v \in Values, ~failed, Verified(id, {v})
      PROVE  TrustInv' /\ Answered!Next
  <2>1. {v} \in SUBSET Values
    OBVIOUS
  <2>2. TrustInv' /\ Answered!Access(id, {v})
    BY <1>4, <2>1, VerifiedTrust
  <2>3. QED
    BY <2>2 DEF Answered!Next
<1>5. ASSUME NEW id \in Ids, Refused(id)
      PROVE  TrustInv' /\ UNCHANGED Answered!vars
  <2>1. failed' /\ UNCHANGED <<reply, written, hashes, backup>>
    BY <1>5 DEF Refused
  <2>2. HashesOK(hashes)' /\ HashesOK(backup.hashes)'
    BY <1>1, <2>1 DEF HashesOK
  <2>3. QED
    BY <2>1, <2>2 DEF TrustInv, Answered!vars
<1>6. ASSUME NEW n \in Nodes, Lose(n)
      PROVE  TrustInv' /\ UNCHANGED Answered!vars
  <2>1. UNCHANGED <<position_map, stash, reply, root, hashes, backup, failed, written>>
    BY <1>6 DEF Lose
  <2>2. HashesOK(hashes)' /\ HashesOK(backup.hashes)'
    BY <1>1, <2>1 DEF HashesOK
  <2>3. QED
    BY <2>1, <2>2, TrustUnchanged DEF Answered!vars
<1>7. ASSUME Backup
      PROVE  TrustInv' /\ UNCHANGED Answered!vars
  <2>1. /\ UNCHANGED <<position_map, stash, reply, root, hashes, failed, written>>
        /\ backup'.hashes = hashes
    BY <1>7 DEF Backup
  <2>2. HashesOK(hashes)' /\ HashesOK(backup.hashes)'
    BY <1>1, <2>1 DEF HashesOK
  <2>3. QED
    BY <2>1, <2>2, TrustUnchanged DEF Answered!vars
<1>8. ASSUME Restore
      PROVE  TrustInv' /\ UNCHANGED Answered!vars
  <2>1. /\ UNCHANGED <<position_map, stash, reply, root, backup, failed, written>>
        /\ hashes' = backup.hashes
    BY <1>8 DEF Restore
  <2>2. HashesOK(hashes)' /\ HashesOK(backup.hashes)'
    BY <1>1, <2>1 DEF HashesOK
  <2>3. QED
    BY <2>1, <2>2, TrustUnchanged DEF Answered!vars
<1>9. QED
  BY <1>2, <1>3, <1>4, <1>5, <1>6, <1>7, <1>8 DEF VerifiedNext

(***************************************************************************)
(* Never a wrong answer: whatever the server loses, replays from an old    *)
(* backup, or answers wrongly while a path is checked, an access of the    *)
(* integrity layer that succeeds returns what the last write of its block  *)
(* left (verified_read, verified_write: "always an IntegrityError, never   *)
(* ... a wrong answer").  For a caller that stops at an IntegrityError:    *)
(* one that tries again can get a wrong answer, as a run shows.            *)
(***************************************************************************)
THEOREM AnswersAreRight ==
  "commit" \notin WrongHashes /\ Retries = FALSE => (VerifiedSpec => NeverWrong)
<1> SUFFICES ASSUME "commit" \notin WrongHashes, Retries = FALSE
             PROVE  VerifiedSpec => NeverWrong
  OBVIOUS
<1>1. VerifiedInit => TrustInv /\ Answered!Init
  BY TrustInit
<1>2. TrustInv /\ [VerifiedNext]_verifiedVars => TrustInv' /\ [Answered!Next]_(Answered!vars)
  BY TrustStep
<1>3. QED
  BY <1>1, <1>2, PTL DEF VerifiedSpec, NeverWrong, Answered!Spec

-----------------------------------------------------------------------------
(***************************************************************************)
(* What the encryption layer stores.                                       *)
(***************************************************************************)
\* A finite set in some order: every member once.
LEMMA SetToSeqFacts ==
  ASSUME NEW S, IsFiniteSet(S)
  PROVE  /\ Cardinality(S) \in Nat /\ SetToSeq(S) \in [1 .. Cardinality(S) -> S]
         /\ Len(SetToSeq(S)) = Cardinality(S)
         /\ \A x \in S : \E i \in 1 .. Cardinality(S) : SetToSeq(S)[i] = x
<1>1. Cardinality(S) \in Nat /\ ExistsBijection(1 .. Cardinality(S), S)
  BY FS_CardinalityType
<1>2. PICK g \in [1 .. Cardinality(S) -> S] : IsInjective(g)
  BY <1>1 DEF ExistsBijection, Bijection, Injection, IsInjective
<1>3. SetToSeq(S) \in [1 .. Cardinality(S) -> S] /\ IsInjective(SetToSeq(S))
  BY <1>2 DEF SetToSeq
<1> DEFINE n == Cardinality(S)
           f == SetToSeq(S)
           T == {f[i] : i \in 1 .. n}
<1> HIDE DEF f, n
<1>4. f \in [1 .. n -> S] /\ IsInjective(f) /\ n \in Nat
  BY <1>1, <1>3 DEF f, n
<1>5. f \in Bijection(1 .. n, T)
  BY <1>4 DEF Bijection, Injection, Surjection, IsInjective
<1>6. IsFiniteSet(1 .. n) /\ Cardinality(1 .. n) = n
  BY <1>4, FS_Interval
<1>7. Cardinality(T) = n
  <2>1. ExistsBijection(1 .. n, T)
    BY <1>5 DEF ExistsBijection
  <2> HIDE DEF T
  <2>2. QED
    BY <1>6, <2>1, FS_Bijection
<1>8. T = S
  <2>1. T \in SUBSET S
    BY <1>4
  <2> HIDE DEF T
  <2>2. QED
    BY <1>7, <2>1, FS_Subset DEF n
<1>9. Len(f) = n
  BY <1>4
<1>10. QED
  BY <1>4, <1>8, <1>9 DEF f, n

\* A node with k bits has k ancestors, itself among them.
LEMMA AncestorsCount ==
  ASSUME NEW d \in Nat, NEW n \in Nat, Pow2[d] <= n, n <= 2 * Pow2[d] - 1
  PROVE  IsFiniteSet(Ancestors[n]) /\ Cardinality(Ancestors[n]) = d + 1
<1> DEFINE Has(k, m) == IsFiniteSet(Ancestors[m]) /\ Cardinality(Ancestors[m]) = k + 1
           S == {k \in Nat : \A m \in Nat : Pow2[k] <= m /\ m <= 2 * Pow2[k] - 1 => Has(k, m)}
<1>1. ASSUME NEW k \in Nat, \A j \in Nat : j < k => j \in S,
             NEW m \in Nat, Pow2[k] <= m, m <= 2 * Pow2[k] - 1
      PROVE  Has(k, m)
  <2>1. CASE k = 0
    <3>1. m = 1
      BY <1>1, <2>1, Pow2Facts
    <3>2. Ancestors[m] = {1} /\ IsFiniteSet({1}) /\ Cardinality({1}) = 1
      BY <3>1, AncestorsOf, FS_Singleton
    <3>3. QED
      BY <2>1, <3>2
  <2>2. CASE k # 0
    <3>1. k - 1 \in Nat /\ k - 1 < k /\ (k - 1) + 1 = k
      BY <2>2
    <3>2. /\ Pow2[k] = 2 * Pow2[k - 1] /\ Pow2[k - 1] \in Nat /\ Pow2[k] \in Nat
          /\ Pow2[k - 1] >= 1
      BY <3>1, Pow2Facts, Pow2Positive
    <3> DEFINE h == m \div 2
    <3>3. h \in Nat /\ Pow2[k - 1] <= h /\ h <= 2 * Pow2[k - 1] - 1 /\ h < m /\ m > 1 /\ h # 0
      BY <1>1, <3>2
    <3>4. Ancestors[m] = Ancestors[h] \cup {m}
      BY <3>3, AncestorsOf
    <3> HIDE DEF h, Has
    <3>5. Has(k - 1, h)
      BY <1>1, <3>1, <3>3
    <3>6. m \notin Ancestors[h]
      BY <3>3, AncestorsBounds
    <3>7. QED
      BY <3>1, <3>4, <3>5, <3>6, FS_AddElement DEF Has
  <2>3. QED
    BY <2>1, <2>2
<1> HIDE DEF Has
<1>2. \A k \in Nat : (\A j \in Nat : j < k => j \in S) => k \in S
  BY <1>1
<1>3. S \in SUBSET Nat
  OBVIOUS
<1> HIDE DEF S
<1>4. S = Nat
  BY <1>2, <1>3, Induction
<1>5. QED
  BY <1>4 DEF S, Has

\* The buckets of a path are written in Depth + 1 places, the leaf's first.
LEMMA Places ==
  ASSUME NEW leaf \in Leaves, NEW n \in Path[leaf]
  PROVE  /\ Cardinality(Below(leaf, n)) \in 0 .. Depth
         /\ \A w \in Path[leaf] : n < w =>
              Cardinality(Below(leaf, w)) < Cardinality(Below(leaf, n))
<1>1. IsFiniteSet(Path[leaf]) /\ Cardinality(Path[leaf]) = Depth + 1 /\ Path[leaf] \subseteq Nodes
  <2>1. NumLeaves + leaf \in Nat /\ Pow2[Depth] <= NumLeaves + leaf
        /\ NumLeaves + leaf <= 2 * Pow2[Depth] - 1
    BY LeavesFacts DEF Leaves, NumLeaves
  <2>2. QED
    BY <2>1, PathFacts, AncestorsCount, SizesAssumption
<1>2. ASSUME NEW u \in Path[leaf]
      PROVE  /\ IsFiniteSet(Below(leaf, u)) /\ Cardinality(Below(leaf, u)) \in Nat
             /\ Cardinality(Below(leaf, u) \cup {u}) = Cardinality(Below(leaf, u)) + 1
  <2>1. Below(leaf, u) \in SUBSET Path[leaf] /\ u \notin Below(leaf, u)
    BY <1>1 DEF Below, Nodes
  <2>2. IsFiniteSet(Below(leaf, u))
    BY <1>1, <2>1, FS_Subset
  <2>3. QED
    BY <2>1, <2>2, FS_AddElement, FS_CardinalityType
<1>3. Cardinality(Below(leaf, n)) <= Depth
  <2>1. Below(leaf, n) \cup {n} \in SUBSET Path[leaf]
    BY DEF Below
  <2>2. Cardinality(Below(leaf, n) \cup {n}) <= Depth + 1
    BY <1>1, <2>1, FS_Subset
  <2>3. QED
    BY <1>2, <2>2, SizesAssumption
<1>4. ASSUME NEW w \in Path[leaf], n < w
      PROVE  Cardinality(Below(leaf, w)) < Cardinality(Below(leaf, n))
  <2>1. Below(leaf, w) \cup {w} \in SUBSET Below(leaf, n)
    BY <1>1, <1>4 DEF Below, Nodes
  <2>2. Cardinality(Below(leaf, w) \cup {w}) <= Cardinality(Below(leaf, n))
    BY <1>2, <2>1, FS_Subset
  <2>3. Cardinality(Below(leaf, n)) \in Nat
    BY <1>2
  <2>4. /\ Cardinality(Below(leaf, w)) \in Nat
        /\ Cardinality(Below(leaf, w) \cup {w}) = Cardinality(Below(leaf, w)) + 1
    BY <1>2
  <2>5. QED
    BY <2>2, <2>3, <2>4
<1>5. Cardinality(Below(leaf, n)) \in Nat
  BY <1>2
<1>6. QED
  BY <1>3, <1>4, <1>5, SizesAssumption

\* What is sealed as a block opens to its bytes, a dummy to nothing.
LEMMA SealOpens ==
  ASSUME NEW nonce, NEW id, NEW value \in ByteStrings
  PROVE  /\ OpenOramBlock(SealOramBlock(nonce, "Real", id, value)) = {[id |-> id, bytes |-> value]}
         /\ \A v : OpenOramBlock(SealOramBlock(nonce, "Dummy", id, v)) = {}
<1>1. /\ value \in Seq(Nat) /\ Len(value) \in Nat /\ Len(value) <= BLOCK_VALUE_LEN
      /\ BLOCK_VALUE_LEN \in Nat
      /\ \A i \in 1 .. Len(value) : value[i] \in Nat
  BY SealedAssumption
<1> DEFINE padded == [k \in 1 .. BLOCK_VALUE_LEN |-> IF k <= Len(value) THEN value[k] ELSE 0]
<1>2. Len(padded) = BLOCK_VALUE_LEN /\ \A i \in 1 .. Len(value) : padded[i] = value[i]
  BY <1>1
<1> HIDE DEF padded
<1>3. SubSeq(padded, 1, Len(value)) = value
  <2> DEFINE part == SubSeq(padded, 1, Len(value))
  <2>1. /\ part \in Seq(Nat)
        /\ Len(part) = IF 1 <= Len(value) THEN Len(value) - 1 + 1 ELSE 0
        /\ \A i \in 1 .. Len(value) - 1 + 1 : part[i] = padded[1 + i - 1]
    BY <1>1, <1>2, SubSeqProperties
  <2> HIDE DEF part
  <2>2. Len(part) = Len(value) /\ \A i \in 1 .. Len(value) : part[i] = value[i]
    BY <1>1, <1>2, <2>1
  <2>3. part = value
    BY <1>1, <2>1, <2>2, SeqEqual
  <2>4. QED
    BY <2>3 DEF part
<1>4. SealOramBlock(nonce, "Real", id, value) =
        [nonce |-> nonce, tag |-> "Real", id |-> id, value_len |-> Len(value), padded |-> padded]
  BY DEF SealOramBlock, padded
<1>5. OpenOramBlock(SealOramBlock(nonce, "Real", id, value)) = {[id |-> id, bytes |-> value]}
  <2> DEFINE c == SealOramBlock(nonce, "Real", id, value)
  <2>1. /\ c.tag = "Real" /\ c.id = id /\ c.value_len = Len(value) /\ c.padded = padded
    BY <1>4
  <2> HIDE DEF c
  <2>2. ~(c.value_len > Len(c.padded))
    BY <1>1, <1>2, <2>1
  <2>3. SubSeq(c.padded, 1, c.value_len) = value
    BY <1>3, <2>1
  <2>4. OpenOramBlock(c) = {[id |-> id, bytes |-> value]}
    BY <2>1, <2>2, <2>3 DEF OpenOramBlock
  <2>5. QED
    BY <2>4 DEF c
<1>6. QED
  BY <1>5 DEF OpenOramBlock, SealOramBlock

\* Nonces of one place differ, and those of a later place are greater.
LEMMA NoncesApart ==
  ASSUME nonce_counter \in Nat, NEW k \in Nat, NEW s \in 1 .. Z
  PROVE  /\ Nonce(k, s) \in Nat /\ Nonce(k, s) >= nonce_counter
         /\ \A t \in 1 .. Z : Nonce(k, s) = Nonce(k, t) => s = t
         /\ \A j \in Nat, t \in 1 .. Z : k < j => Nonce(k, s) < Nonce(j, t)
<1> Z \in Nat
  BY SizesAssumption
<1>1. k * Z \in Nat
  OBVIOUS
<1>2. ASSUME NEW j \in Nat, NEW t \in 1 .. Z, k < j
      PROVE  Nonce(k, s) < Nonce(j, t)
  <2>1. k * Z + Z <= j * Z /\ j * Z \in Nat
    BY <1>2
  <2>2. QED
    BY <1>1, <2>1 DEF Nonce
<1>3. QED
  BY <1>1, <1>2 DEF Nonce

\* What is at hand when a bucket is sealed.
LayerOK ==
  /\ layer.bytes \in [Values -> ByteStrings] /\ IsInjective(layer.bytes)
  /\ nonce_counter \in Nat

Bytes(blocks) == {[id |-> b.id, bytes |-> layer.bytes[b.value]] : b \in blocks}

\* A sealed bucket opens to what it was sealed from, and has one nonce per slot.
LEMMA SealBucketFacts ==
  ASSUME LayerOK, NEW k \in Nat, NEW blocks \in SUBSET Block,
         IsFiniteSet(blocks), Cardinality(blocks) <= Z
  PROVE  /\ UNION {OpenOramBlock(c) : c \in SealBucket(blocks, k)} = Bytes(blocks)
         /\ \A c \in SealBucket(blocks, k) : \E s \in 1 .. Z : c.nonce = Nonce(k, s)
         /\ \A c, d \in SealBucket(blocks, k) : c.nonce = d.nonce => c = d
         /\ Cardinality({c.nonce : c \in SealBucket(blocks, k)}) = Z
<1> DEFINE list == SetToSeq(blocks)
           N == Cardinality(blocks)
           real(s) == SealOramBlock(Nonce(k, s), "Real", list[s].id, layer.bytes[list[s].value])
           dummy(s) == SealOramBlock(Nonce(k, s), "Dummy", layer.zero_id, <<>>)
           sealed(s) == IF s <= N THEN real(s) ELSE dummy(s)
<1>1. /\ N \in Nat /\ N <= Z /\ Z \in Nat /\ Len(list) = N
      /\ \A s \in 1 .. N : list[s] \in blocks
      /\ \A b \in blocks : \E s \in 1 .. N : list[s] = b
  BY SetToSeqFacts, SizesAssumption
<1>2. SealBucket(blocks, k) = {sealed(s) : s \in 1 .. Z}
  BY <1>1 DEF SealBucket
<1>3. \A s : sealed(s).nonce = Nonce(k, s)
  BY DEF SealOramBlock
<1>4. ASSUME NEW s \in 1 .. Z
      PROVE  OpenOramBlock(sealed(s)) =
               IF s <= N THEN {[id |-> list[s].id, bytes |-> layer.bytes[list[s].value]]} ELSE {}
  <2>1. CASE s <= N
    <3>1. list[s] \in Block
      BY <1>1, <2>1
    <3>2. layer.bytes[list[s].value] \in ByteStrings
      BY <3>1 DEF Block, LayerOK
    <3>3. OpenOramBlock(real(s)) = {[id |-> list[s].id, bytes |-> layer.bytes[list[s].value]]}
      BY <3>2, SealOpens
    <3> HIDE DEF real, dummy
    <3>4. QED
      BY <2>1, <3>3
  <2>2. CASE ~(s <= N)
    <3>1. OpenOramBlock(dummy(s)) = {}
      BY DEF OpenOramBlock, SealOramBlock
    <3> HIDE DEF real, dummy
    <3>2. QED
      BY <2>2, <3>1
  <2>3. QED
    BY <2>1, <2>2
<1> HIDE DEF sealed, list, N
<1>5. UNION {OpenOramBlock(c) : c \in SealBucket(blocks, k)} = Bytes(blocks)
  <2>1. ASSUME NEW c \in SealBucket(blocks, k), NEW o \in OpenOramBlock(c)
        PROVE  o \in Bytes(blocks)
    <3>1. PICK s \in 1 .. Z : c = sealed(s)
      BY <1>2
    <3>2. s <= N /\ o = [id |-> list[s].id, bytes |-> layer.bytes[list[s].value]]
      BY <1>4, <2>1, <3>1
    <3>3. list[s] \in blocks
      BY <1>1, <3>2
    <3>4. QED
      BY <3>2, <3>3 DEF Bytes
  <2>2. ASSUME NEW b \in blocks
        PROVE  \E c \in SealBucket(blocks, k) :
                 [id |-> b.id, bytes |-> layer.bytes[b.value]] \in OpenOramBlock(c)
    <3>1. PICK s \in 1 .. N : list[s] = b
      BY <1>1
    <3>2. s \in 1 .. Z /\ s <= N
      BY <1>1
    <3>3. [id |-> b.id, bytes |-> layer.bytes[b.value]] \in OpenOramBlock(sealed(s))
      BY <1>4, <3>1, <3>2
    <3>4. QED
      BY <1>2, <3>2, <3>3
  <2>3. QED
    BY <2>1, <2>2 DEF Bytes
<1>6. ASSUME NEW c \in SealBucket(blocks, k), NEW d \in SealBucket(blocks, k), c.nonce = d.nonce
      PROVE  c = d
  <2>1. PICK s \in 1 .. Z : c = sealed(s)
    BY <1>2
  <2>2. PICK t \in 1 .. Z : d = sealed(t)
    BY <1>2
  <2>3. s = t
    <3>1. nonce_counter \in Nat /\ Nonce(k, s) = Nonce(k, t)
      BY <1>3, <1>6, <2>1, <2>2 DEF LayerOK
    <3>2. QED
      BY <3>1, NoncesApart
  <2>4. QED
    BY <2>1, <2>2, <2>3
<1>7. Cardinality({c.nonce : c \in SealBucket(blocks, k)}) = Z
  <2> DEFINE lo == nonce_counter + k * Z
             nonces == {c.nonce : c \in SealBucket(blocks, k)}
  <2>1. lo \in Nat /\ \A s \in 1 .. Z : Nonce(k, s) = lo + s - 1
    BY <1>1 DEF Nonce, LayerOK
  <2>2. nonces = {Nonce(k, s) : s \in 1 .. Z}
    BY <1>2, <1>3
  <2> HIDE DEF lo, nonces
  <2>3. nonces = lo .. (lo + Z - 1)
    <3>1. ASSUME NEW x \in nonces
          PROVE  x \in lo .. (lo + Z - 1)
      <4>1. PICK s \in 1 .. Z : x = lo + s - 1
        BY <2>1, <2>2
      <4>2. QED
        BY <1>1, <2>1, <4>1
    <3>2. ASSUME NEW x \in lo .. (lo + Z - 1)
          PROVE  x \in nonces
      <4>1. x - lo + 1 \in 1 .. Z /\ x = lo + (x - lo + 1) - 1
        BY <1>1, <2>1
      <4>2. QED
        BY <2>1, <2>2, <4>1
    <3>3. QED
      BY <3>1, <3>2
  <2>4. Cardinality(lo .. (lo + Z - 1)) = Z
    BY <1>1, <2>1, FS_Interval, SizesAssumption
  <2>5. QED
    BY <2>3, <2>4 DEF nonces
<1>8. \A c \in SealBucket(blocks, k) : \E s \in 1 .. Z : c.nonce = Nonce(k, s)
  BY <1>2, <1>3
<1>9. QED
  BY <1>5, <1>6, <1>7, <1>8

\* What ReadsAsWritten needs to last: nonces are counted, and only finitely many
\* blocks are ever written.
SealInv ==
  /\ IsFiniteSet(Blocks)
  /\ layer # <<>> => LayerOK /\ \A n \in Nodes : \A c \in stored[n] : c.nonce \in Nat
  /\ ReadsAsWritten

\* An access adds one block at most.
LEMMA BlocksFinite ==
  ASSUME IsFiniteSet(Blocks), NEW id, NEW new, new = {} \/ \E v : new = {v},
         NEW leaf \in Leaves, NEW new_leaf, AccessOn(id, new, leaf, new_leaf)
  PROVE  IsFiniteSet(Blocks')
<1>1. PICK existing \in Existing(ReadPath(leaf), id) :
        \E at \in Evictions(Update(ReadPath(leaf), existing, id, new), leaf, position_map') :
          stash' = InBucket(at, 0) /\ buckets' = WriteBack(leaf, at)
  BY DEF AccessOn, AccessFrom
<1> DEFINE blocks == Update(ReadPath(leaf), existing, id, new)
<1>2. PICK at \in Evictions(blocks, leaf, position_map') :
        stash' = InBucket(at, 0) /\ buckets' = WriteBack(leaf, at)
  BY <1>1
<1> DEFINE more == {[id |-> id, value |-> v] : v \in new}
<1>3. ReadPath(leaf) \subseteq Blocks
  BY PathFacts DEF ReadPath, Blocks
<1>4. blocks \subseteq Blocks \cup more
  BY <1>3 DEF Update
<1> HIDE DEF blocks
<1>5. Blocks' \subseteq Blocks \cup more
  <2>1. stash' \subseteq blocks
    BY <1>2, Evicted
  <2>2. ASSUME NEW n \in Nodes
        PROVE  buckets'[n] \subseteq blocks \cup buckets[n]
    BY <1>2, Evicted DEF WriteBack
  <2> HIDE DEF more
  <2>3. ASSUME NEW b \in Blocks'
        PROVE  b \in Blocks \cup more
    <3>1. CASE b \in stash'
      BY <1>4, <2>1, <3>1
    <3>2. CASE \E n \in Nodes : b \in buckets'[n]
      BY <1>4, <2>2, <3>2 DEF Blocks
    <3>3. QED
      BY <3>1, <3>2 DEF Blocks
  <2>4. QED
    BY <2>3
<1>6. IsFiniteSet(Blocks \cup more)
  <2>1. CASE new = {}
    <3>1. more = {}
      BY <2>1
    <3> HIDE DEF more
    <3>2. Blocks \cup more = Blocks
      BY <3>1
    <3>3. QED
      BY <3>2
  <2>2. CASE \E v : new = {v}
    <3>1. PICK v : new = {v}
      BY <2>2
    <3>2. more = {[id |-> id, value |-> v]}
      BY <3>1
    <3> HIDE DEF more
    <3>3. QED
      BY <3>2, FS_AddElement
  <2>3. QED
    BY <2>1, <2>2
<1> HIDE DEF more
<1>7. QED
  BY <1>5, <1>6, FS_Subset

LEMMA SealInit == SealedInit => SealInv
<1> SUFFICES ASSUME SealedInit PROVE SealInv
  OBVIOUS
<1>1. /\ stash = {} /\ buckets = [n \in Nodes |-> {}]
      /\ stored = [n \in Nodes |-> {}] /\ nonce_counter = 0
  BY DEF SealedInit, Init
<1>2. Blocks = {}
  BY <1>1 DEF Blocks
<1>3. layer # <<>> => LayerOK
  BY <1>1 DEF SealedInit, LayerOK
<1>4. ASSUME NEW n \in Nodes
      PROVE  /\ ReadBucket(n) = {[id |-> b.id, bytes |-> layer.bytes[b.value]] : b \in buckets[n]}
             /\ Cardinality({c.nonce : c \in stored[n]}) \in {0, Z}
  <2>1. stored[n] = {} /\ buckets[n] = {}
    BY <1>1
  <2>2. {c.nonce : c \in stored[n]} = {} /\ ReadBucket(n) = {}
    BY <2>1 DEF ReadBucket
  <2>3. Cardinality({c.nonce : c \in stored[n]}) = 0
    BY <2>2, FS_EmptySet
  <2>4. QED
    BY <2>1, <2>2, <2>3
<1>5. \A n \in Nodes : stored[n] = {}
  BY <1>1
<1>6. ReadsAsWritten
  BY <1>4, <1>5 DEF ReadsAsWritten
<1>7. QED
  BY <1>2, <1>3, <1>5, <1>6, FS_EmptySet DEF SealInv

\* An access through the layer: the buckets of its path are sealed anew, under
\* nonces from the counter on, and the others stay.
LEMMA SealedAccessStep ==
  ASSUME SealInv, TypeOK', Fits', layer # <<>>, layer' = layer,
         NEW id, NEW new, new = {} \/ \E v : new = {v},
         NEW leaf \in Leaves, NEW new_leaf,
         AccessOn(id, new, leaf, new_leaf), WriteSealed(leaf)
  PROVE  SealInv'
<1>1. IsFiniteSet(Blocks')
  BY BlocksFinite DEF SealInv
<1>2. LayerOK /\ Z \in Nat /\ Path[leaf] \subseteq Nodes
  BY SizesAssumption, PathFacts DEF SealInv
<1> DEFINE place(n) == Cardinality(Below(leaf, n))
<1>3. /\ \A n \in Nodes : n \in Path[leaf] => stored'[n] = SealBucket(buckets'[n], place(n))
      /\ \A n \in Nodes : n \notin Path[leaf] => stored'[n] = stored[n] /\ buckets'[n] = buckets[n]
      /\ nonce_counter' = nonce_counter + Z * (Depth + 1)
  BY AccessWrites DEF WriteSealed, Below
<1>4. \A n \in Path[leaf] : place(n) \in Nat /\ place(n) <= Depth
  BY Places, SizesAssumption
<1>5. nonce_counter' \in Nat /\ nonce_counter' >= nonce_counter
  <2>1. Z * (Depth + 1) \in Nat
    BY <1>2, SizesAssumption
  <2>2. QED
    BY <1>2, <1>3, <2>1 DEF LayerOK
<1>6. LayerOK'
  BY <1>2, <1>5 DEF LayerOK
<1>7. ASSUME NEW n \in Path[leaf]
      PROVE  /\ UNION {OpenOramBlock(c) : c \in stored'[n]} = Bytes(buckets'[n])
             /\ \A c \in stored'[n] : \E s \in 1 .. Z : c.nonce = Nonce(place(n), s)
             /\ \A c, d \in stored'[n] : c.nonce = d.nonce => c = d
             /\ Cardinality({c.nonce : c \in stored'[n]}) = Z
  <2>1. buckets'[n] \in SUBSET Block /\ Cardinality(buckets'[n]) <= Z
    BY <1>2 DEF TypeOK, Fits
  <2>2. buckets'[n] \in SUBSET Blocks'
    BY <1>2 DEF Blocks
  <2>3. IsFiniteSet(buckets'[n])
    BY <1>1, <2>2, FS_Subset
  <2> HIDE DEF place
  <2>4. stored'[n] = SealBucket(buckets'[n], place(n)) /\ place(n) \in Nat
    BY <1>2, <1>3, <1>4
  <2> DEFINE sealed == SealBucket(buckets'[n], place(n))
  <2>5. /\ UNION {OpenOramBlock(c) : c \in sealed} = Bytes(buckets'[n])
        /\ \A c \in sealed : \E s \in 1 .. Z : c.nonce = Nonce(place(n), s)
        /\ \A c, d \in sealed : c.nonce = d.nonce => c = d
        /\ Cardinality({c.nonce : c \in sealed}) = Z
    BY <1>2, <2>1, <2>3, <2>4, SealBucketFacts
  <2>6. stored'[n] = sealed
    BY <2>4
  <2> HIDE DEF sealed
  <2>7. QED
    BY <2>5, <2>6
<1> HIDE DEF place
\* The nonces in use, by where they came from.
<1>8. ASSUME NEW n \in Path[leaf], NEW c \in stored'[n]
      PROVE  c.nonce \in Nat /\ c.nonce >= nonce_counter /\ c.nonce < nonce_counter'
  <2>1. PICK s \in 1 .. Z : c.nonce = Nonce(place(n), s)
    BY <1>7
  <2>2. c.nonce \in Nat /\ c.nonce >= nonce_counter
    BY <1>2, <1>4, <2>1, NoncesApart DEF LayerOK
  <2>3. place(n) * Z + Z <= Z * (Depth + 1) /\ place(n) * Z \in Nat
    <3>1. place(n) \in Nat /\ Depth + 1 \in Nat /\ place(n) < Depth + 1
      BY <1>4, SizesAssumption
    <3>2. \A a, b \in Nat : a < b => a * Z + Z <= Z * b /\ a * Z \in Nat
      BY <1>2
    <3>3. QED
      BY <3>1, <3>2
  <2>4. Z * (Depth + 1) \in Nat
    BY <1>2, SizesAssumption
  <2>5. QED
    BY <1>2, <1>3, <2>1, <2>2, <2>3, <2>4 DEF Nonce, LayerOK
<1>9. ASSUME NEW n \in Nodes, n \notin Path[leaf], NEW c \in stored'[n]
      PROVE  c \in stored[n] /\ c.nonce \in Nat /\ c.nonce < nonce_counter
  BY <1>3, <1>9 DEF SealInv, ReadsAsWritten
<1>10. ASSUME NEW n \in Nodes, NEW c \in stored'[n]
       PROVE  c.nonce \in Nat /\ c.nonce < nonce_counter'
  BY <1>2, <1>5, <1>8, <1>9 DEF LayerOK
<1>11. ASSUME NEW n \in Nodes, NEW m \in Nodes, NEW c \in stored'[n], NEW d \in stored'[m],
              c.nonce = d.nonce
       PROVE  n = m /\ c = d
  <2>1. CASE n \in Path[leaf] /\ m \in Path[leaf]
    <3>1. PICK s \in 1 .. Z : c.nonce = Nonce(place(n), s)
      BY <1>7, <2>1
    <3>2. PICK t \in 1 .. Z : d.nonce = Nonce(place(m), t)
      BY <1>7, <2>1
    <3>3. n \in Nat /\ m \in Nat /\ place(n) \in Nat /\ place(m) \in Nat
      BY <1>4, <2>1 DEF Nodes
    <3>4. ~(place(n) < place(m)) /\ ~(place(m) < place(n))
      <4>1. /\ place(n) < place(m) => Nonce(place(n), s) < Nonce(place(m), t)
            /\ place(m) < place(n) => Nonce(place(m), t) < Nonce(place(n), s)
            /\ Nonce(place(n), s) \in Nat /\ Nonce(place(m), t) \in Nat
        BY <1>2, <3>3, NoncesApart DEF LayerOK
      <4>2. Nonce(place(n), s) = Nonce(place(m), t)
        BY <1>11, <3>1, <3>2
      <4>3. QED
        BY <4>1, <4>2
    <3>5. n = m
      <4>1. /\ n < m => place(m) < place(n)
            /\ m < n => place(n) < place(m)
        BY <2>1, Places DEF place
      <4>2. QED
        BY <3>3, <3>4, <4>1
    <3>6. QED
      BY <1>7, <1>11, <2>1, <3>5
  <2>2. CASE n \in Path[leaf] /\ m \notin Path[leaf]
    BY <1>2, <1>8, <1>9, <1>11, <2>2 DEF LayerOK
  <2>3. CASE n \notin Path[leaf] /\ m \in Path[leaf]
    BY <1>2, <1>8, <1>9, <1>11, <2>3 DEF LayerOK
  <2>4. CASE n \notin Path[leaf] /\ m \notin Path[leaf]
    BY <1>9, <1>11, <2>4 DEF SealInv, ReadsAsWritten
  <2>5. QED
    BY <2>1, <2>2, <2>3, <2>4
<1>12. ASSUME NEW n \in Nodes
       PROVE  /\ ReadBucket(n)' = {[id |-> b.id, bytes |-> layer'.bytes[b.value]] : b \in buckets'[n]}
              /\ Cardinality({c.nonce : c \in stored'[n]}) \in {0, Z}
  <2>1. CASE n \in Path[leaf]
    <3>1. UNION {OpenOramBlock(c) : c \in stored'[n]} = Bytes(buckets'[n])
      BY <1>7, <2>1
    <3>2. Bytes(buckets'[n]) = {[id |-> b.id, bytes |-> layer'.bytes[b.value]] : b \in buckets'[n]}
      BY DEF Bytes
    <3>3. Cardinality({c.nonce : c \in stored'[n]}) = Z
      BY <1>7, <2>1
    <3>4. ReadBucket(n)' = Bytes(buckets'[n])
      BY <3>1 DEF ReadBucket
    <3>5. QED
      BY <3>2, <3>3, <3>4
  <2>2. CASE n \notin Path[leaf]
    BY <1>3, <2>2 DEF ReadBucket, SealInv, ReadsAsWritten
  <2>3. QED
    BY <2>1, <2>2
<1>13. ReadsAsWritten'
  BY <1>10, <1>11, <1>12 DEF ReadsAsWritten
<1>14. QED
  BY <1>1, <1>6, <1>10, <1>13 DEF SealInv

\* The bytes of a value are no other's, so what the layer opens are the blocks that
\* were written.
LEMMA OpensBuckets ==
  ASSUME SealInv, TypeOK, layer # <<>>, NEW n \in Nodes
  PROVE  Opened(n) = buckets[n]
<1> DEFINE sealed(b) == [id |-> b.id, bytes |-> layer.bytes[b.value]]
<1>1. ReadBucket(n) = {sealed(b) : b \in buckets[n]} /\ buckets[n] \subseteq Block
  BY DEF SealInv, ReadsAsWritten, TypeOK
<1>2. \A v, w \in Values : layer.bytes[v] = layer.bytes[w] => v = w
  BY DEF SealInv, LayerOK, IsInjective
<1>3. ASSUME NEW b \in Block, NEW c \in Block, sealed(b) = sealed(c)
      PROVE  b = c
  BY <1>2, <1>3 DEF Block
<1>4. Opened(n) = {b \in Block : sealed(b) \in ReadBucket(n)}
  BY DEF Opened
<1> HIDE DEF sealed
<1>5. QED
  BY <1>1, <1>3, <1>4

\* An access through the layer is one of the client without it.
LEMMA SealedIsPlain ==
  ASSUME SealInv, TypeOK, layer # <<>>, NEW id, NEW new, NEW leaf \in Leaves, NEW new_leaf
  PROVE  AccessFrom(ReadSealedPath(leaf), id, new, leaf, new_leaf)
           <=> AccessOn(id, new, leaf, new_leaf)
<1>1. \A n \in Path[leaf] : Opened(n) = buckets[n]
  BY OpensBuckets, PathFacts
<1>2. ReadSealedPath(leaf) = ReadPath(leaf)
  BY <1>1 DEF ReadSealedPath, ReadPath
<1>3. QED
  BY <1>2 DEF AccessOn

\* So is a step of the client through the layer.
LEMMA SealedStep ==
  ASSUME SealInv, Inv, [SealedNext]_<<vars, sealedVars>>
  PROVE  [Next]_vars
<1>1. CASE UNCHANGED <<vars, sealedVars>> \/ Next
  BY <1>1
<1>2. ASSUME layer # <<>>, NEW id \in Ids, NEW new, SealedAccess(id, new)
      PROVE  Access(id, new)
  <2>1. PICK leaf \in OldLeaves(id), new_leaf \in Leaves :
          AccessFrom(ReadSealedPath(leaf), id, new, leaf, new_leaf)
    BY <1>2 DEF SealedAccess
  <2>2. leaf \in Leaves /\ TypeOK
    BY <2>1, MeetsBlock DEF Inv
  <2>3. AccessOn(id, new, leaf, new_leaf)
    BY <1>2, <2>1, <2>2, SealedIsPlain
  <2>4. QED
    BY <2>1, <2>3 DEF Access
<1>3. CASE layer # <<>> /\ \E id \in Ids : SealedAccess(id, {}) \/ \E v \in Values : SealedAccess(id, {v})
  BY <1>2, <1>3 DEF Next, Read, Write
<1>4. QED
  BY <1>1, <1>3 DEF SealedNext

LEMMA SealStep ==
  ASSUME SealInv, Inv, Inv', Fits', [SealedNext]_<<vars, sealedVars>>
  PROVE  SealInv'
<1>1. CASE UNCHANGED <<vars, sealedVars>>
  BY <1>1 DEF vars, sealedVars, SealInv, LayerOK, ReadsAsWritten, ReadBucket, Blocks
<1>2. CASE layer = <<>> /\ Next /\ UNCHANGED sealedVars
  <2>1. layer' = <<>>
    BY <1>2 DEF sealedVars
  <2>2. PICK id \in Ids, new \in SUBSET Values :
          (new = {} \/ \E v : new = {v}) /\ Access(id, new)
    BY <1>2 DEF Next, Read, Write
  <2>3. PICK leaf \in OldLeaves(id), new_leaf \in Leaves : AccessOn(id, new, leaf, new_leaf)
    BY <2>2 DEF Access
  <2>4. leaf \in Leaves
    BY <2>3, MeetsBlock
  <2>5. IsFiniteSet(Blocks')
    BY <2>2, <2>3, <2>4, BlocksFinite DEF SealInv
  <2>6. QED
    BY <2>1, <2>5 DEF SealInv, ReadsAsWritten
<1>3. ASSUME layer # <<>>, UNCHANGED layer, NEW id \in Ids, NEW new \in SUBSET Values,
             new = {} \/ \E v : new = {v}, SealedAccess(id, new)
      PROVE  SealInv'
  <2>1. PICK leaf \in OldLeaves(id), new_leaf \in Leaves :
          AccessFrom(ReadSealedPath(leaf), id, new, leaf, new_leaf) /\ WriteSealed(leaf)
    BY <1>3 DEF SealedAccess
  <2>2. leaf \in Leaves
    BY <2>1, MeetsBlock
  <2>3. TypeOK /\ TypeOK'
    BY DEF Inv
  <2>4. AccessOn(id, new, leaf, new_leaf)
    BY <1>3, <2>1, <2>2, <2>3, SealedIsPlain
  <2>5. QED
    BY <1>3, <2>1, <2>2, <2>3, <2>4, SealedAccessStep
<1>4. ASSUME layer # <<>>, UNCHANGED layer,
             \E id \in Ids : SealedAccess(id, {}) \/ \E v \in Values : SealedAccess(id, {v})
      PROVE  SealInv'
  <2>1. PICK id \in Ids : SealedAccess(id, {}) \/ \E v \in Values : SealedAccess(id, {v})
    BY <1>4
  <2>2. CASE SealedAccess(id, {})
    BY <1>3, <1>4, <2>2
  <2>3. ASSUME NEW v \in Values, SealedAccess(id, {v})
        PROVE  SealInv'
    <3>1. {v} \in SUBSET Values
      OBVIOUS
    <3>2. QED
      BY <1>3, <1>4, <2>3, <3>1
  <2>4. QED
    BY <2>1, <2>2, <2>3
<1>5. QED
  BY <1>1, <1>2, <1>4 DEF SealedNext

LEMMA SealAlways == SealedSpec => [](SealInv /\ Inv /\ Fits)
<1>1. SealedInit => SealInv /\ Inv /\ Fits
  BY SealInit, InvInit, FitsInit DEF SealedInit
<1>2. SealInv /\ Inv /\ Fits /\ [SealedNext]_<<vars, sealedVars>> => (SealInv /\ Inv /\ Fits)'
  BY SealedStep, InvNext, FitsNext, SealStep
<1>3. QED
  BY <1>1, <1>2, PTL DEF SealedSpec

(***************************************************************************)
(* The encryption layer is a storage: every bucket it reads back is the    *)
(* one that was written, to the byte, whatever its values and ids are; it  *)
(* never has two ciphertexts under one nonce, and a bucket that was ever   *)
(* written has exactly Z of them, however many blocks it holds             *)
(* (EncryptingServerStorage::write, read_and_clear, next_nonce).           *)
(***************************************************************************)
THEOREM StoresFaithfully == SealedSpec => []ReadsAsWritten
<1>1. SealInv => ReadsAsWritten
  BY DEF SealInv
<1>2. QED
  BY <1>1, SealAlways, PTL

(***************************************************************************)
(* The client is used through the layer as it is without it: working only  *)
(* on the blocks the layer gives back, it implements a map, keeps one copy *)
(* of a block, on its path, and never panics (read_path_into_stash over    *)
(* EncryptingServerStorage::read_and_clear).                               *)
(***************************************************************************)
THEOREM LayerKeepsClient ==
  SealedSpec => IsMap /\ []OnItsPath /\ []OneCopy /\ []NeverPanics
<1>1. SealedInit => Init
  BY DEF SealedInit
<1>2. SealInv /\ Inv /\ [SealedNext]_<<vars, sealedVars>> => [Next]_vars
  BY SealedStep
<1>3. SealedSpec => Spec
  BY <1>1, <1>2, SealAlways, PTL DEF SealedSpec, Spec
<1>4. QED
  BY <1>3, ClientIsMap, BlocksOnTheirPaths, NoSecondCopy, ClientNeverPanics, PTL
=============================================================================
