-------------------------------- MODULE Oram --------------------------------
(***************************************************************************)
(* The Path ORAM client of novachannel (crates/oram/src/lib.rs), over a    *)
(* server that stores buckets as given (InMemoryServer).  Client is used   *)
(* through &mut self, so an access is one step: it draws a new leaf for    *)
(* the block, reads the path of the old one into the stash, updates the    *)
(* block there and evicts the stash back onto that path.                   *)
(*                                                                         *)
(* Abstractions.  A bucket and the stash are sets of blocks: the order of  *)
(* the code's vectors decides only which eligible blocks an eviction takes *)
(* first, and here any choice the greedy loop can make under some order is *)
(* allowed.  The random leaf is any leaf.                                  *)
(***************************************************************************)
EXTENDS Integers, FiniteSets

CONSTANTS
  Ids,     \* block ids the caller uses
  Values,  \* values it writes
  Depth,   \* depth of the tree: 2^Depth leaves
  Z        \* bucket capacity

ASSUME SizesAssumption == Depth \in Nat /\ Z \in Nat \ {0}

VARIABLES
  position_map,  \* the client's secret map from ids to leaves (partial)
  stash,         \* the client's stash
  buckets,       \* buckets[n]: the server's bucket n
  reply          \* the last access and what it returned to the caller

vars == <<position_map, stash, buckets, reply>>

-----------------------------------------------------------------------------
Pow2[k \in Nat] == IF k = 0 THEN 1 ELSE 2 * Pow2[k - 1]

\* Heap numbering: root 1, children of n are 2n and 2n+1, leaves last.
NumLeaves == Pow2[Depth]
Leaves == 0 .. (NumLeaves - 1)
Nodes == 1 .. (2 * NumLeaves - 1)

\* A node and those above it, up to the root.
Ancestors[n \in Nat] == IF n = 0 THEN {} ELSE {n} \cup Ancestors[n \div 2]

\* path_nodes; is_ancestor_of_leaf walks the same nodes.
Path == [leaf \in Leaves |-> Ancestors[NumLeaves + leaf]]

Block == [id : Ids, value : Values]

\* The client before its first access, and the empty server.
Init ==
  /\ position_map = [id \in {} |-> 0]
  /\ stash = {}
  /\ buckets = [n \in Nodes |-> {}]
  /\ reply = <<>>

OldLeaves_Redrawn(id) == Leaves  \* faulty variant

\* access: the leaf of a known block, any leaf for an unknown one.
OldLeaves(id) == IF id \in DOMAIN position_map THEN {position_map[id]} ELSE Leaves

Remap(id, leaf) ==
  [i \in DOMAIN position_map \cup {id} |-> IF i = id THEN leaf ELSE position_map[i]]

\* read_path_into_stash.
ReadPath(leaf) == stash \cup UNION {buckets[n] : n \in Path[leaf]}

\* The block the client takes for id's: the first one found, if any.
Existing(blocks, id) ==
  LET found == {b \in blocks : b.id = id}
  IN IF found = {} THEN {{}} ELSE {{b} : b \in found}

Update_Pushes(blocks, existing, id, new) ==  \* faulty variant
  blocks \cup {[id |-> id, value |-> v] : v \in new}

\* A write replaces the existing block's value or pushes a block.
Update(blocks, existing, id, new) ==
  IF new = {} THEN blocks
  ELSE (blocks \ existing) \cup {[id |-> id, value |-> v] : v \in new}

InBucket(at, n) == {b \in DOMAIN at : at[b] = n}

Evictions_OneMore(blocks, leaf, pos) ==  \* faulty variant
  {at \in [blocks -> Path[leaf] \cup {0}] :
     /\ \A b \in blocks : at[b] # 0 => at[b] \in Path[pos[b.id]]
     /\ \A n \in Path[leaf] : Cardinality(InBucket(at, n)) <= Z + 1
     /\ \A b \in blocks : \A n \in Path[leaf] \cap Path[pos[b.id]] :
          at[b] < n => Cardinality(InBucket(at, n)) = Z + 1}

Evictions_Anywhere(blocks, leaf, pos) ==  \* faulty variant
  {at \in [blocks -> Path[leaf] \cup {0}] :
     /\ \A n \in Path[leaf] : Cardinality(InBucket(at, n)) <= Z
     /\ \A b \in blocks : \A n \in Path[leaf] :
          at[b] < n => Cardinality(InBucket(at, n)) = Z}

\* evict_path: where the blocks of the stash may end up, 0 being the stash.  A
\* block goes only to a bucket on its own leaf's path, no bucket takes more than
\* Z, and, deepest bucket first, none passes over an eligible block while it has
\* room.
Evictions(blocks, leaf, pos) ==
  {at \in [blocks -> Path[leaf] \cup {0}] :
     /\ \A b \in blocks : at[b] # 0 => at[b] \in Path[pos[b.id]]
     /\ \A n \in Path[leaf] : Cardinality(InBucket(at, n)) <= Z
     /\ \A b \in blocks : \A n \in Path[leaf] \cap Path[pos[b.id]] :
          at[b] < n => Cardinality(InBucket(at, n)) = Z}

WriteBack(leaf, at) ==
  [n \in Nodes |-> IF n \in Path[leaf] THEN InBucket(at, n) ELSE buckets[n]]

\* access, with the leaf of the path it reads, the new leaf it draws, and what its
\* stash holds once the server has answered.
AccessFrom(read, id, new, old_leaf, new_leaf) ==
  \E existing \in Existing(read, id) :
    LET blocks == Update(read, existing, id, new)
    IN /\ position_map' = Remap(id, new_leaf)
       /\ \E at \in Evictions(blocks, old_leaf, position_map') :
            /\ stash' = InBucket(at, 0)
            /\ buckets' = WriteBack(old_leaf, at)
       /\ reply' = <<id, {b.value : b \in existing}>>

AccessOn(id, new, old_leaf, new_leaf) ==
  AccessFrom(ReadPath(old_leaf), id, new, old_leaf, new_leaf)

Access(id, new) ==
  \E old_leaf \in OldLeaves(id), new_leaf \in Leaves :
    AccessOn(id, new, old_leaf, new_leaf)

Read(id) == Access(id, {})

Write(id, v) == Access(id, {v})

Next == \E id \in Ids : Read(id) \/ \E v \in Values : Write(id, v)

Spec == Init /\ [][Next]_vars

-----------------------------------------------------------------------------
(***************************************************************************)
(* Properties.                                                             *)
(***************************************************************************)
\* Types of every variable (struct Client, InMemoryServer).
TypeOK ==
  /\ DOMAIN position_map \subseteq Ids
  /\ \A id \in DOMAIN position_map : position_map[id] \in Leaves
  /\ stash \subseteq Block
  /\ buckets \in [Nodes -> SUBSET Block]
  /\ reply \in {<<>>} \cup (Ids \X SUBSET Values)

\* Every block in a bucket lies on the path of its current leaf, however often
\* it and its neighbours were remapped: the next access to it will meet it.
OnItsPath ==
  \A n \in Nodes : \A b \in buckets[n] :
    b.id \in DOMAIN position_map /\ n \in Path[position_map[b.id]]

Blocks == stash \cup UNION {buckets[n] : n \in Nodes}

\* There is one copy of a block: not two values for an id, not one block both in
\* the stash and in a bucket, or in two buckets.
OneCopy ==
  /\ \A b, c \in Blocks : b.id = c.id => b = c
  /\ \A n \in Nodes : stash \cap buckets[n] = {}
  /\ \A m, n \in Nodes : m # n => buckets[m] \cap buckets[n] = {}

\* The client never panics: a stashed block always has a position (evict_path's
\* expect), and no bucket is asked to take more than its capacity
\* (EncryptingServerStorage::write's assert).
NeverPanics ==
  /\ \A b \in stash : b.id \in DOMAIN position_map
  /\ \A n \in Nodes : Cardinality(buckets[n]) <= Z

\* The client is a map: the value of an id is that of its block, wherever it is.
Map == INSTANCE KeyValue WITH
  store <- [id \in Ids |-> {b.value : b \in {c \in Blocks : c.id = id}}]

IsMap == Map!Spec
=============================================================================
