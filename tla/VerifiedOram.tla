---------------------------- MODULE VerifiedOram ----------------------------
(***************************************************************************)
(* verified_read and verified_write of crates/oram/src/lib.rs: the client  *)
(* keeps the root of a Merkle tree over the buckets and checks every path  *)
(* the server returns against it before it trusts any of it.  The server   *)
(* (IntegrityCheckedServer, possibly under EncryptingServerStorage, which  *)
(* drops a block that fails authentication) may lose a block, come back    *)
(* from an old backup, or answer one request with a wrong hash.            *)
(*                                                                         *)
(* Abstraction.  SHA-256 is injective, so the hash of a node stands for    *)
(* what it commits to: the set of <<node, bucket>> of the node's subtree;  *)
(* the set for a leaf's missing child is empty.                            *)
(***************************************************************************)
EXTENDS Oram

CONSTANTS
  Losses,      \* whether the server loses blocks or is restored from a backup
  WrongHashes, \* when a hash may be answered wrongly: "check", "commit"
  Retries      \* whether the caller goes on after an IntegrityError

ASSUME FaultsAssumption ==
  Losses \in BOOLEAN /\ WrongHashes \subseteq {"check", "commit"} /\ Retries \in BOOLEAN

VARIABLES
  root,     \* the client's trusted root
  hashes,   \* hashes[n]: the node hash the server stores
  backup,   \* the server's backup of its buckets and hashes
  intact,   \* history: no block was lost and no backup restored
  failed,   \* history: an access returned IntegrityError
  written   \* history: written[id], what the last access that succeeded left in id

serverVars == <<buckets, hashes>>
verifiedVars ==
  <<position_map, stash, buckets, reply, root, hashes, backup, intact, failed, written>>

-----------------------------------------------------------------------------
Subtree(n) == {m \in Nodes : n \in Ancestors[m]}

Sibling(n) == IF n % 2 = 0 THEN n + 1 ELSE n - 1

\* The nodes below n on its path to leaf.
Below(leaf, n) == {m \in Path[leaf] : m > n}

\* recompute_path_hashes: the hash of n on the path, from the buckets on the path
\* and the server's hashes of the siblings off it.
PathHash(leaf, n, contents, answered) ==
  {<<m, contents[m]>> : m \in Below(leaf, n) \cup {n}}
    \cup UNION {answered[Sibling(m)] : m \in Below(leaf, n)}

PathHashes_LeafStays(leaf, contents, answered) ==  \* faulty variant
  [n \in Nodes |-> IF n \in Path[leaf] /\ n < NumLeaves
                   THEN PathHash(leaf, n, contents, answered) ELSE hashes[n]]

\* verified_access's last loop: the server is told the new hash of every node on
\* the path.
PathHashes(leaf, contents, answered) ==
  [n \in Nodes |-> IF n \in Path[leaf] THEN PathHash(leaf, n, contents, answered)
                   ELSE hashes[n]]

\* init_empty_root.
EmptyHashes == [n \in Nodes |-> {<<m, {}>> : m \in Subtree(n)}]

\* The hashes the server answers with while the client checks the path, and again
\* while it commits the new one: its own, or one of them wrong.
Answers(phase) ==
  {hashes} \cup
    IF phase \in WrongHashes THEN {[hashes EXCEPT ![n] = {}] : n \in Nodes} ELSE {}

Accepts_Always(leaf, answered) == TRUE  \* faulty variant

\* The root observed is the trusted one.
Accepts(leaf, answered) == PathHash(leaf, 1, buckets, answered) = root

-----------------------------------------------------------------------------
VerifiedInit ==
  /\ Init
  /\ hashes = EmptyHashes
  /\ root = EmptyHashes[1]
  /\ backup = [buckets |-> buckets, hashes |-> EmptyHashes]
  /\ intact = TRUE
  /\ failed = FALSE
  /\ written = [id \in Ids |-> {}]

\* verified_access, the root matches: the access of the plain client, and the
\* Merkle chain of its path afresh, from sibling hashes asked for again.
Verified(id, new) ==
  /\ \E old_leaf \in OldLeaves(id), new_leaf \in Leaves :
       /\ \E answered \in Answers("check") : Accepts(old_leaf, answered)
       /\ AccessOn(id, new, old_leaf, new_leaf)
       /\ \E answered \in Answers("commit") :
            /\ root' = PathHash(old_leaf, 1, buckets', answered)
            /\ hashes' = PathHashes(old_leaf, buckets', answered)
  /\ written' = IF new = {} THEN written ELSE [written EXCEPT ![id] = new]
  /\ UNCHANGED <<backup, intact, failed>>

\* verified_access, the root differs: the buckets are put back, and the call
\* returns IntegrityError.  The block has its new leaf by then.
Refused(id) ==
  /\ \E old_leaf \in OldLeaves(id), new_leaf \in Leaves :
       /\ \E answered \in Answers("check") : ~Accepts(old_leaf, answered)
       /\ position_map' = Remap(id, new_leaf)
  /\ failed' = TRUE
  /\ UNCHANGED <<stash, buckets, reply, root, hashes, backup, intact, written>>

\* The server loses a block of bucket n.
Lose(n) ==
  /\ Losses
  /\ \E b \in buckets[n] : buckets' = [buckets EXCEPT ![n] = @ \ {b}]
  /\ intact' = FALSE
  /\ UNCHANGED <<position_map, stash, reply, root, hashes, backup, failed, written>>

\* The server takes a backup; it is restored from the last one.
Backup ==
  /\ Losses /\ intact
  /\ backup' = [buckets |-> buckets, hashes |-> hashes]
  /\ UNCHANGED <<position_map, stash, buckets, reply, root, hashes, intact, failed, written>>

Restore ==
  /\ Losses
  /\ buckets' = backup.buckets
  /\ hashes' = backup.hashes
  /\ intact' = FALSE
  /\ UNCHANGED <<position_map, stash, reply, root, backup, failed, written>>

\* Unless the caller retries, an IntegrityError is the end.
VerifiedNext ==
  /\ failed => Retries
  /\ \/ \E id \in Ids :
          \/ Verified(id, {})
          \/ \E v \in Values : Verified(id, {v})
          \/ Refused(id)
     \/ \E n \in Nodes : Lose(n)
     \/ Backup
     \/ Restore

VerifiedSpec == VerifiedInit /\ [][VerifiedNext]_verifiedVars

-----------------------------------------------------------------------------
(***************************************************************************)
(* Properties.                                                             *)
(***************************************************************************)
\* An honest server is never refused: with nothing lost and its own hashes for an
\* answer, the trusted root is met on every path, by hashes each of which was set
\* by the last access that went through its node, and also after an access that
\* was refused for one wrong answer.
HonestServerAccepted == intact => \A leaf \in Leaves : Accepts(leaf, hashes)

\* No wrong answer: whatever the server lost or replayed, an access that succeeds
\* returns what the last write left ("always an IntegrityError, never ... a wrong
\* answer").
Answered == INSTANCE KeyValue WITH store <- written

NeverWrong == Answered!Spec
=============================================================================
