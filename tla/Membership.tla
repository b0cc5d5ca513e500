----------------------------- MODULE Membership -----------------------------
(***************************************************************************)
(* Rate-limiting nullifiers (crates/rln/src/lib.rs, merkle.rs, share.rs):  *)
(* the tree of member commitments, the share a message publishes, and the  *)
(* recovery of a secret from two shares.                                   *)
(***************************************************************************)
EXTENDS Permutation

\* Division in the field; the callers exclude zero.
Divided(a, b) == (a * (CHOOSE c \in Field : (b * c) % P = 1)) % P

\* Identity::commitment
Commitment(sk) == Compress2(sk, 0)

-----------------------------------------------------------------------------
\* 1usize << depth
Capacity[depth \in Nat] == IF depth = 0 THEN 1 ELSE 2 * Capacity[depth - 1]

\* MerkleTree::new: unused leaves are zero; a level has the hashes of the pairs of
\* the level below.
MerkleTree(depth, leaves) ==
  LET levels[level \in 0 .. depth] ==
        [k \in 0 .. (Capacity[depth - level] - 1) |->
           IF level > 0 THEN Compress2(levels[level - 1][2 * k], levels[level - 1][2 * k + 1])
           ELSE IF k < Len(leaves) THEN leaves[k + 1] ELSE 0]
  IN levels

Root(tree, depth) == tree[depth][0]

\* path: a sibling per level, from the leaf up, and the side of the node itself.
Path(tree, depth, index) ==
  LET idx[k \in 0 .. depth] == IF k = 0 THEN index ELSE idx[k - 1] \div 2
      is_right(k) == idx[k] % 2 = 1
  IN [k \in 1 .. depth |->
        [sibling |-> tree[k - 1][IF is_right(k - 1) THEN idx[k - 1] - 1 ELSE idx[k - 1] + 1],
         side |-> IF is_right(k - 1) THEN "Right" ELSE "Left"]]

\* verify_path
Climb(cur, step) ==
  IF step.side = "Left" THEN Compress2(cur, step.sibling) ELSE Compress2(step.sibling, cur)
Climbed(leaf, path) ==
  LET cur[k \in 0 .. Len(path)] == IF k = 0 THEN leaf ELSE Climb(cur[k - 1], path[k])
  IN cur[Len(path)]
VerifyPath(leaf, path, root) == Climbed(leaf, path) = root

-----------------------------------------------------------------------------
\* The public values of prove_message but the root, which prove reads off its trace.
PublicInputs(sk, root, epoch, x) ==
  LET a1 == Compress2(sk, epoch)
  IN [root |-> root, epoch |-> epoch, x |-> x, y |-> (sk + a1 * x) % P, nullifier |-> a1]

\* What the proof shows (air.rs, "What the proof shows").
Statement(sk, path, public) ==
  /\ VerifyPath(Commitment(sk), path, public.root)
  /\ public.nullifier = Compress2(sk, public.epoch)
  /\ public.y = (sk + public.nullifier * public.x) % P

\* verify_message returns the share of a proof that was accepted.
ShareOf(public) == [nullifier |-> public.nullifier, x |-> public.x, y |-> public.y]

RecoverSecret_Unchecked(a, b) ==  \* faulty variant: shares of two epochs are joined
  IF a.x = b.x THEN {}
  ELSE LET a1 == Divided((a.y - b.y) % P, (a.x - b.x) % P)
       IN {(a.y - a1 * a.x) % P}

\* recover_secret: the empty set is None.
RecoverSecret(a, b) ==
  IF a.nullifier # b.nullifier \/ a.x = b.x THEN {}
  ELSE LET a1 == Divided((a.y - b.y) % P, (a.x - b.x) % P)
       IN {(a.y - a1 * a.x) % P}
=============================================================================
