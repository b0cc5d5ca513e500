------------------------------ MODULE SealedOram ------------------------------
(***************************************************************************)
(* The encryption layer between the Path ORAM client and its server        *)
(* (EncryptingServerStorage in crates/oram/src/lib.rs): every block is     *)
(* sealed under a nonce from a counter, and every bucket is written as     *)
(* exactly Z ciphertexts of one length, dummies filling it up.             *)
(*                                                                         *)
(* Abstractions.  A ciphertext is its nonce and what it seals, byte by     *)
(* byte as far as the padding goes; it opens if it was sealed under the    *)
(* layer's key.  The client may be used with or without this layer.        *)
(***************************************************************************)
EXTENDS Oram, SequencesExt

CONSTANTS
  ByteStrings,      \* the byte strings that values stand for
  BLOCK_VALUE_LEN,  \* block_value_len
  MAX_NONCE         \* u64::MAX

ASSUME SealedAssumption ==
  /\ BLOCK_VALUE_LEN \in Nat \ {0} /\ MAX_NONCE \in Nat
  /\ ByteStrings \subseteq Seq(Nat)
  /\ \A string \in ByteStrings : Len(string) <= BLOCK_VALUE_LEN

VARIABLES
  layer,         \* <<>>, or what the bytes of a value are and which block id is 0
  stored,        \* stored[n]: the ciphertexts of bucket n at the server
  nonce_counter

sealedVars == <<layer, stored, nonce_counter>>

-----------------------------------------------------------------------------
\* seal_oram_block: the plaintext is filled up to the fixed length.
SealOramBlock(nonce, tag, id, value) ==
  [nonce |-> nonce, tag |-> tag, id |-> id, value_len |-> Len(value),
   padded |-> [k \in 1 .. BLOCK_VALUE_LEN |-> IF k <= Len(value) THEN value[k] ELSE 0]]

OpenOramBlock_Untagged(sealed) ==  \* faulty variant
  {[id |-> sealed.id, bytes |-> SubSeq(sealed.padded, 1, sealed.value_len)]}

\* open_oram_block; the empty set is None, which a dummy gives too.
OpenOramBlock(sealed) ==
  IF sealed.tag # "Real" \/ sealed.value_len > Len(sealed.padded) THEN {}
  ELSE {[id |-> sealed.id, bytes |-> SubSeq(sealed.padded, 1, sealed.value_len)]}

\* The nonces that next_nonce hands out for the bucket written as the k-th of a path.
Nonce(k, slot) == nonce_counter + k * Z + slot - 1

\* write: the blocks, then dummies up to the capacity.
SealBucket(blocks, k) ==
  LET list == SetToSeq(blocks)
  IN {IF slot <= Len(list)
      THEN SealOramBlock(Nonce(k, slot), "Real", list[slot].id, layer.bytes[list[slot].value])
      ELSE SealOramBlock(Nonce(k, slot), "Dummy", layer.zero_id, <<>>) : slot \in 1 .. Z}

\* read_and_clear, less the clearing: an access writes every bucket it has read.
ReadBucket(n) == UNION {OpenOramBlock(sealed) : sealed \in stored[n]}

\* The same, as blocks: bytes under the name of the value they are.
Opened(n) == {b \in Block : [id |-> b.id, bytes |-> layer.bytes[b.value]] \in ReadBucket(n)}

\* read_path_into_stash: the client knows a bucket only by what the layer returns.
ReadSealedPath(leaf) == stash \cup UNION {Opened(n) : n \in Path[leaf]}

-----------------------------------------------------------------------------
SealedInit ==
  /\ Init
  /\ \/ layer = <<>>
     \/ \E bytes \in [Values -> ByteStrings] : \E zero_id \in Ids :
          /\ IsInjective(bytes) /\ layer = [bytes |-> bytes, zero_id |-> zero_id]
  /\ stored = [n \in Nodes |-> {}] /\ nonce_counter = 0

\* The buckets are written from the leaf up; the counter must not run out.
WriteSealed(leaf) ==
  /\ nonce_counter + Z * (Depth + 1) <= MAX_NONCE
  /\ stored' = [n \in Nodes |->
       IF n \in Path[leaf] THEN SealBucket(buckets'[n], Cardinality({m \in Path[leaf] : m > n}))
       ELSE stored[n]]
  /\ nonce_counter' = nonce_counter + Z * (Depth + 1)

\* An access through the layer: the client works on what the layer has opened, and
\* what it writes back, which buckets keeps on record, the layer seals.
SealedAccess(id, new) ==
  \E old_leaf \in OldLeaves(id), new_leaf \in Leaves :
    /\ AccessFrom(ReadSealedPath(old_leaf), id, new, old_leaf, new_leaf)
    /\ WriteSealed(old_leaf)

SealedNext ==
  \/ layer = <<>> /\ Next /\ UNCHANGED sealedVars
  \/ /\ layer # <<>> /\ UNCHANGED layer
     /\ \E id \in Ids : SealedAccess(id, {}) \/ \E v \in Values : SealedAccess(id, {v})

SealedSpec == SealedInit /\ [][SealedNext]_<<vars, sealedVars>>

-----------------------------------------------------------------------------
\* The layer is a ServerStorage like any other: what it reads back is what was
\* written, to the byte, an empty value and the id that dummies carry included; and
\* the server sees no difference, as each bucket it was ever given has exactly Z
\* ciphertexts, none under a nonce of another (EncryptingServerStorage, next_nonce).
ReadsAsWritten ==
  layer # <<>> =>
    /\ \A n \in Nodes :
         ReadBucket(n) = {[id |-> b.id, bytes |-> layer.bytes[b.value]] : b \in buckets[n]}
    /\ \A n \in Nodes : Cardinality({c.nonce : c \in stored[n]}) \in {0, Z}
    /\ \A n, m \in Nodes : \A c \in stored[n], d \in stored[m] : c.nonce = d.nonce => n = m /\ c = d
    /\ \A n \in Nodes : \A c \in stored[n] : c.nonce < nonce_counter
=============================================================================
