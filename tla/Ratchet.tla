------------------------------- MODULE Ratchet -------------------------------
(***************************************************************************)
(* The ratcheted session of novachannel (crates/core/src/ratchet.rs): two  *)
(* peers that share a root key from the handshake seal records under       *)
(* one-way hash chains, and re-key by a one-shot or an erasure-coded       *)
(* ratchet step.  One action per public operation, or per outcome of one   *)
(* (RatchetedSession::open returns through several).                       *)
(*                                                                         *)
(* Abstractions.  A key is the path that derives it, so two keys are equal *)
(* exactly when the code derives them from the same inputs: a root key is  *)
(* the sequence of step secrets mixed into it, a chain key a root, a       *)
(* direction label and a position.  AEAD opens a record iff the key is the *)
(* one that sealed it.  Ephemeral keys and attempt nonces are drawn from a *)
(* counter.  An Option is a set with at most one element.  What the peers  *)
(* put on the wire stays there: the network may lose (never deliver),      *)
(* reorder, repeat and reflect records and chunks.                         *)
(***************************************************************************)
EXTENDS Integers, FiniteSets, Sequences

CONSTANTS
  Initiator, Responder,  \* the two handshake roles
  Initiates,             \* the peers whose callers start ratchet steps
  MaxSkippedKeys,        \* MAX_SKIPPED_KEYS
  OneShot,               \* whether callers use initiate_ratchet
  Splits,                \* the (data, parity) pairs given to the incremental one
  LostShards,            \* shard indices the network never delivers
  Misroutes,             \* whether the network may hand a peer's records back to it
  MaxApp,                \* bound: MaxApp[p], application records p seals
  MaxEpoch               \* bound: no step is started at this epoch or later

Parties == {Initiator, Responder}

ASSUME RolesAssumption == Initiator # Responder
ASSUME CallersAssumption == 
  Initiates \subseteq Parties /\ OneShot \in BOOLEAN /\ Misroutes \in BOOLEAN
ASSUME SkipAssumption == MaxSkippedKeys \in Nat
ASSUME SplitsAssumption == Splits \subseteq Nat \X Nat /\ LostShards \subseteq Nat
ASSUME BoundsAssumption == MaxApp \in [Parties -> Nat] /\ MaxEpoch \in Nat

VARIABLES
  session,    \* session[p]: p's RatchetedSession
  records,    \* every record sealed so far, as [from, epoch, seq, key, payload]
  chunks,     \* every chunk record built so far
  fresh,      \* the last ephemeral key or nonce drawn
  app_sealed, \* app_sealed[p]: number of application records p sealed
  opened,     \* history: opened[p], the records p has decrypted
  burned,     \* history: burned[p], the <<epoch, seq>> whose cached key p dropped
  delivered   \* history: delivered[p], the payloads open returned to p's caller

vars == <<session, records, chunks, fresh, app_sealed, opened, burned, delivered>>

Peer(p) == IF p = Initiator THEN Responder ELSE Initiator

-----------------------------------------------------------------------------
(***************************************************************************)
(* Chains.  ChainKey::advance turns the key at position n into the message *)
(* key n and the chain key n + 1, so the record at a position stands for   *)
(* both.                                                                   *)
(***************************************************************************)
ChainKey(root, dir) == [root |-> root, dir |-> dir, pos |-> 0]

Advance(chain, n) == [chain EXCEPT !.pos = @ + n]

RecvChain(epoch, chain) ==
  [epoch |-> epoch, chain |-> chain, expected_seq |-> 0, skipped |-> {}]

\* RatchetedSession::new: epoch 0 straight from the handshake's ratchet_root.
NewSession(p) ==
  LET send == IF p = Initiator THEN "i2r" ELSE "r2i"
      recv == IF p = Initiator THEN "r2i" ELSE "i2r"
  IN [root_key |-> <<>>, send_epoch |-> 0,
      send_chain |-> ChainKey(<<>>, send), send_seq |-> 0,
      recv_current |-> RecvChain(0, ChainKey(<<>>, recv)), recv_previous |-> {},
      pending |-> {}, pending_epoch |-> 0,
      step1_chunks |-> {}, step2_chunks |-> {}, last_step1 |-> {}, last_step2 |-> {}]

\* seal_payload: the record, and the session once the chain has moved on.
SealedRecord(p, s, payload) ==
  [from |-> p, epoch |-> s.send_epoch, seq |-> s.send_seq,
   key |-> s.send_chain, payload |-> payload]

SealPayload_ChainStays(s) == [s EXCEPT !.send_seq = @ + 1]  \* faulty variant

SealPayload(s) == [s EXCEPT !.send_seq = @ + 1, !.send_chain = Advance(@, 1)]

\* open: the receive chain a record's epoch selects, if there is one.
Slot(s, epoch) ==
  IF s.recv_current.epoch = epoch THEN {s.recv_current}
  ELSE {c \in s.recv_previous : c.epoch = epoch}

PutSlot(s, c) ==
  IF s.recv_current.epoch = c.epoch THEN [s EXCEPT !.recv_current = c]
  ELSE [s EXCEPT !.recv_previous = {c}]

\* open_on, seq > expected_seq: the bound on keys skipped to catch up.
SkipFits(c, seq) ==
  /\ seq - c.expected_seq <= MaxSkippedKeys
  /\ Cardinality(c.skipped) + (seq - c.expected_seq) <= MaxSkippedKeys

SkippedKeys_FirstLost(c, seq) ==  \* faulty variant
  {[seq |-> n, key |-> Advance(c.chain, n - c.expected_seq)] :
     n \in (c.expected_seq + 1) .. (seq - 1)}

SkippedKeys(c, seq) ==
  {[seq |-> n, key |-> Advance(c.chain, n - c.expected_seq)] :
     n \in c.expected_seq .. (seq - 1)}

\* open_on decrypts r on chain c.
Opens(c, r) ==
  \/ /\ r.seq < c.expected_seq
     /\ [seq |-> r.seq, key |-> r.key] \in c.skipped
  \/ /\ r.seq = c.expected_seq
     /\ r.key = c.chain
  \/ /\ r.seq > c.expected_seq
     /\ SkipFits(c, r.seq)
     /\ r.key = Advance(c.chain, r.seq - c.expected_seq)

\* open_on removes the cached key on lookup, before it knows whether r decrypts.
BurnsKey(c, r) ==
  /\ r.seq < c.expected_seq
  /\ \E k \in c.skipped : k.seq = r.seq
  /\ [seq |-> r.seq, key |-> r.key] \notin c.skipped

DropKey(c, seq) == [c EXCEPT !.skipped = {k \in @ : k.seq # seq}]

Consume_KeepsKey(c, r) ==  \* faulty variant
  IF r.seq < c.expected_seq THEN c
  ELSE [c EXCEPT !.skipped = @ \cup SkippedKeys(c, r.seq),
                 !.chain = Advance(@, r.seq + 1 - c.expected_seq),
                 !.expected_seq = r.seq + 1]

\* The chain once open_on is done with a record it decrypted.
Consume(c, r) ==
  IF r.seq < c.expected_seq THEN DropKey(c, r.seq)
  ELSE [c EXCEPT !.skipped = @ \cup SkippedKeys(c, r.seq),
                 !.chain = Advance(@, r.seq + 1 - c.expected_seq),
                 !.expected_seq = r.seq + 1]

-----------------------------------------------------------------------------
(***************************************************************************)
(* Ratchet steps.                                                          *)
(***************************************************************************)

AdvanceEpoch_ForgetsPrevious(s, old_epoch, secret, is_initiator) ==  \* faulty variant
  LET root == Append(s.root_key, secret)
      send == IF is_initiator THEN "i2r" ELSE "r2i"
      recv == IF is_initiator THEN "r2i" ELSE "i2r"
  IN [s EXCEPT !.root_key = root,
               !.send_epoch = old_epoch + 1,
               !.send_chain = ChainKey(root, send),
               !.send_seq = 0,
               !.recv_current = RecvChain(old_epoch + 1, ChainKey(root, recv)),
               !.recv_previous = {}]

\* derive_next_epoch and advance_epoch: the step's initiator sends on i2r.
AdvanceEpoch(s, old_epoch, secret, is_initiator) ==
  LET root == Append(s.root_key, secret)
      send == IF is_initiator THEN "i2r" ELSE "r2i"
      recv == IF is_initiator THEN "r2i" ELSE "i2r"
  IN [s EXCEPT !.root_key = root,
               !.send_epoch = old_epoch + 1,
               !.send_chain = ChainKey(root, send),
               !.send_seq = 0,
               !.recv_current = RecvChain(old_epoch + 1, ChainKey(root, recv)),
               !.recv_previous = {s.recv_current}]

MayRespond_WhilePending(s, epoch) == epoch = s.send_epoch  \* faulty variant

\* handle_step1's guards: no step of our own, and the step is on this epoch.
MayRespond(s, epoch) == s.pending = {} /\ epoch = s.send_epoch

\* handle_step2's guard: the reply answers the step we have pending.
MayFinish(s, epoch) == s.pending # {} /\ s.pending_epoch = epoch

\* initiate_ratchet, initiate_incremental_ratchet: one step at a time.
MayInitiate(s) == s.pending = {}

SetPending(s, kex) == [s EXCEPT !.pending = {kex}, !.pending_epoch = s.send_epoch]

(***************************************************************************)
(* Chunks.  Shard i of a step's payload, sealed under a key derived from   *)
(* the root key and the attempt's nonce.  The payload (the step's key      *)
(* material) stands for length and checksum, which are functions of it.    *)
(***************************************************************************)
ChunkKey(root, nonce, step) == [root |-> root, nonce |-> nonce, step |-> step]

\* check_shard_counts (erasure.rs), which encode applies.
ValidSplit(data, parity) == data # 0 /\ parity # 0 /\ data + parity <= 255

\* build_chunk_records.
ChunkRecords(p, root, step, nonce, payload, data, parity) ==
  {[from |-> p, step |-> step, nonce |-> nonce, index |-> i, data |-> data,
    parity |-> parity, payload |-> payload, key |-> ChunkKey(root, nonce, step)] :
     i \in 0 .. (data + parity - 1)}

NewAccumulator(c) ==
  [nonce |-> c.nonce, data |-> c.data, parity |-> c.parity, payload |-> c.payload,
   shards |-> {}]

\* accumulate_chunk: the accumulator c is filed into; another attempt's chunk
\* starts a new one.
Accumulator(slot, c) ==
  IF \E a \in slot : a.nonce = c.nonce THEN CHOOSE a \in slot : a.nonce = c.nonce
  ELSE NewAccumulator(c)

\* accumulate_chunk's checks: the index is in range, the header matches.
ChunkFits(slot, c) ==
  LET a == Accumulator(slot, c)
  IN /\ c.index < c.data + c.parity
     /\ a.data = c.data /\ a.parity = c.parity /\ a.payload = c.payload

FileChunk(slot, c) ==
  LET a == Accumulator(slot, c) IN [a EXCEPT !.shards = @ \cup {c.index}]

Reconstructs_OneMore(a) == Cardinality(a.shards) > a.data  \* faulty variant

\* received_count reaches data_shards: the payload can be decoded.
Reconstructs(a) == Cardinality(a.shards) >= a.data

\* open_ratchet_chunk up to accumulate_chunk, for each kind of chunk.
AcceptsStep1Chunk(s, c) ==
  /\ c.step = 1
  /\ c.nonce \notin s.last_step1
  /\ s.pending = {}
  /\ c.key = ChunkKey(s.root_key, c.nonce, 1)
  /\ ChunkFits(s.step1_chunks, c)

AcceptsStep2Chunk_Step1Guard(s, c) ==  \* faulty variant
  /\ c.step = 2
  /\ c.nonce \notin s.last_step2
  /\ s.pending = {}
  /\ c.key = ChunkKey(s.root_key, c.nonce, 2)
  /\ ChunkFits(s.step2_chunks, c)

AcceptsStep2Chunk(s, c) ==
  /\ c.step = 2
  /\ c.nonce \notin s.last_step2
  /\ s.pending # {}
  /\ c.key = ChunkKey(s.root_key, c.nonce, 2)
  /\ ChunkFits(s.step2_chunks, c)

-----------------------------------------------------------------------------
Init ==
  /\ session = [p \in Parties |-> NewSession(p)]
  /\ records = {}
  /\ chunks = {}
  /\ fresh = 0
  /\ app_sealed = [p \in Parties |-> 0]
  /\ opened = [p \in Parties |-> {}]
  /\ burned = [p \in Parties |-> {}]
  /\ delivered = [p \in Parties |-> <<>>]

\* seal: one application record, at any time.
Seal(p) ==
  /\ app_sealed[p] < MaxApp[p]
  /\ app_sealed' = [app_sealed EXCEPT ![p] = @ + 1]
  /\ records' = records \cup
       {SealedRecord(p, session[p], [kind |-> "app", id |-> app_sealed[p] + 1])}
  /\ session' = [session EXCEPT ![p] = SealPayload(@)]
  /\ UNCHANGED <<chunks, fresh, opened, burned, delivered>>

\* initiate_ratchet: step 1 as one record on the current send chain.
InitiateRatchet(p) ==
  /\ OneShot /\ p \in Initiates /\ session[p].send_epoch < MaxEpoch
  /\ MayInitiate(session[p])
  /\ fresh' = fresh + 1
  /\ records' = records \cup
       {SealedRecord(p, session[p], [kind |-> "step1", id |-> fresh'])}
  /\ session' = [session EXCEPT ![p] = SetPending(SealPayload(@), fresh')]
  /\ UNCHANGED <<chunks, app_sealed, opened, burned, delivered>>

\* initiate_incremental_ratchet: step 1 as erasure-coded chunks, off the chain.
\* One draw stands for the key pair and the attempt nonce of the call.
InitiateIncremental(p, data, parity) ==
  /\ p \in Initiates /\ session[p].send_epoch < MaxEpoch
  /\ MayInitiate(session[p])
  /\ ValidSplit(data, parity)
  /\ fresh' = fresh + 1
  /\ chunks' = chunks \cup
       ChunkRecords(p, session[p].root_key, 1, fresh', fresh', data, parity)
  /\ session' = [session EXCEPT ![p] = SetPending(@, fresh')]
  /\ UNCHANGED <<records, app_sealed, opened, burned, delivered>>

\* open, application data: returned to the caller.
OpenApplication(p, r) ==
  /\ r.payload.kind = "app"
  /\ \E c \in Slot(session[p], r.epoch) :
       /\ Opens(c, r)
       /\ session' = [session EXCEPT ![p] = PutSlot(@, Consume(c, r))]
  /\ opened' = [opened EXCEPT ![p] = @ \cup {r}]
  /\ delivered' = [delivered EXCEPT ![p] = Append(@, <<r.from, r.payload.id>>)]
  /\ UNCHANGED <<records, chunks, fresh, app_sealed, burned>>

\* open, step 1: handle_step1 seals the reply on the old chain, then advances.
OpenStep1(p, r) ==
  /\ r.payload.kind = "step1"
  /\ fresh' = fresh + 1
  /\ \E c \in Slot(session[p], r.epoch) :
       LET s == PutSlot(session[p], Consume(c, r))
       IN /\ Opens(c, r)
          /\ MayRespond(s, r.epoch)
          /\ records' = records \cup {SealedRecord(p, s, [kind |-> "step2", id |-> fresh'])}
          /\ session' = [session EXCEPT
               ![p] = AdvanceEpoch(SealPayload(s), r.epoch, <<r.payload.id, fresh'>>, FALSE)]
  /\ opened' = [opened EXCEPT ![p] = @ \cup {r}]
  /\ UNCHANGED <<chunks, app_sealed, burned, delivered>>

\* open, step 2: handle_step2 takes the pending key material and advances.
OpenStep2(p, r) ==
  /\ r.payload.kind = "step2"
  /\ \E c \in Slot(session[p], r.epoch), kex \in session[p].pending :
       LET s == PutSlot(session[p], Consume(c, r))
       IN /\ Opens(c, r)
          /\ MayFinish(s, r.epoch)
          /\ session' = [session EXCEPT
               ![p] = AdvanceEpoch([s EXCEPT !.pending = {}], r.epoch,
                                   <<kex, r.payload.id>>, TRUE)]
  /\ opened' = [opened EXCEPT ![p] = @ \cup {r}]
  /\ UNCHANGED <<records, chunks, fresh, app_sealed, burned, delivered>>

\* open, a control record handle_step1 or handle_step2 refuses: an error, but
\* open_on has consumed the record's key by then.
OpenRefused(p, r) ==
  /\ \E c \in Slot(session[p], r.epoch) :
       LET s == PutSlot(session[p], Consume(c, r))
       IN /\ Opens(c, r)
          /\ r.payload.kind = "step1" => ~MayRespond(s, r.epoch)
          /\ r.payload.kind = "step2" => ~MayFinish(s, r.epoch)
          /\ session' = [session EXCEPT ![p] = s]
  /\ r.payload.kind # "app"
  /\ opened' = [opened EXCEPT ![p] = @ \cup {r}]
  /\ UNCHANGED <<records, chunks, fresh, app_sealed, burned, delivered>>

\* open, a record whose number has a cached key it does not decrypt under: an
\* error, but the cached key is gone.
OpenBurns(p, r) ==
  /\ Misroutes
  /\ \E c \in Slot(session[p], r.epoch) :
       /\ BurnsKey(c, r)
       /\ session' = [session EXCEPT ![p] = PutSlot(@, DropKey(c, r.seq))]
  /\ burned' = [burned EXCEPT ![p] = @ \cup {<<r.epoch, r.seq>>}]
  /\ UNCHANGED <<records, chunks, fresh, app_sealed, opened, delivered>>

\* open_ratchet_chunk: too few shards so far.
OpenChunkPartial(p, c) ==
  LET s == session[p]
  IN \/ /\ AcceptsStep1Chunk(s, c)
        /\ ~Reconstructs(FileChunk(s.step1_chunks, c))
        /\ session' = [session EXCEPT ![p].step1_chunks = {FileChunk(@, c)}]
        /\ UNCHANGED <<records, chunks, fresh, app_sealed, opened, burned, delivered>>
     \/ /\ AcceptsStep2Chunk(s, c)
        /\ ~Reconstructs(FileChunk(s.step2_chunks, c))
        /\ session' = [session EXCEPT ![p].step2_chunks = {FileChunk(@, c)}]
        /\ UNCHANGED <<records, chunks, fresh, app_sealed, opened, burned, delivered>>

\* open_ratchet_chunk, step 1 reconstructed: the reply goes out as chunks under
\* the old root key, with the peer's split, and the epoch advances.
OpenChunkStep1(p, c) ==
  LET s == session[p]
      cleared == [s EXCEPT !.step1_chunks = {}, !.last_step1 = {c.nonce}]
  IN /\ AcceptsStep1Chunk(s, c)
     /\ Reconstructs(FileChunk(s.step1_chunks, c))
     /\ fresh' = fresh + 1
     /\ chunks' = chunks \cup
          ChunkRecords(p, s.root_key, 2, fresh', fresh', c.data, c.parity)
     /\ session' = [session EXCEPT
          ![p] = AdvanceEpoch(cleared, s.send_epoch, <<c.payload, fresh'>>, FALSE)]
     /\ UNCHANGED <<records, app_sealed, opened, burned, delivered>>

\* open_ratchet_chunk, step 2 reconstructed: take the pending key, advance.
OpenChunkStep2(p, c) ==
  LET s == session[p]
      cleared == [s EXCEPT !.step2_chunks = {}, !.last_step2 = {c.nonce}, !.pending = {}]
  IN /\ AcceptsStep2Chunk(s, c)
     /\ Reconstructs(FileChunk(s.step2_chunks, c))
     /\ \E kex \in s.pending :
          session' = [session EXCEPT
            ![p] = AdvanceEpoch(cleared, s.send_epoch, <<kex, c.payload>>, TRUE)]
     /\ UNCHANGED <<records, chunks, fresh, app_sealed, opened, burned, delivered>>

Initiate(p) ==
  \/ InitiateRatchet(p)
  \/ \E split \in Splits : InitiateIncremental(p, split[1], split[2])

OpenControl(p) ==
  \E r \in records : OpenStep1(p, r) \/ OpenStep2(p, r) \/ OpenRefused(p, r)

OpenChunk(p) ==
  \E c \in chunks :
    /\ c.index \notin LostShards
    /\ OpenChunkPartial(p, c) \/ OpenChunkStep1(p, c) \/ OpenChunkStep2(p, c)

Next ==
  \E p \in Parties :
    \/ Seal(p)
    \/ Initiate(p)
    \/ \E r \in records : OpenApplication(p, r)
    \/ \E r \in records : OpenBurns(p, r)
    \/ OpenControl(p)
    \/ OpenChunk(p)

Spec == Init /\ [][Next]_vars

\* The network delivers control records and chunks (those of LostShards aside),
\* and a peer hands what arrives to open and open_ratchet_chunk.  Application
\* records may stay undelivered.
FairSpec ==
  /\ Spec
  /\ \A p \in Parties : WF_vars(OpenControl(p)) /\ WF_vars(OpenChunk(p))

-----------------------------------------------------------------------------
(***************************************************************************)
(* Properties.                                                             *)
(***************************************************************************)
RecvChains(s) == {s.recv_current} \cup s.recv_previous

CanOpen(p, r) == \E c \in Slot(session[p], r.epoch) : Opens(c, r)

Root == Seq(Nat \X Nat)

Chain == [root : Root, dir : {"i2r", "r2i"}, pos : Nat]

Payload == [kind : {"app", "step1", "step2"}, id : Nat]

Record == [from : Parties, epoch : Nat, seq : Nat, key : Chain, payload : Payload]

Chunk ==
  [from : Parties, step : {1, 2}, nonce : Nat, index : Nat, data : Nat, parity : Nat,
   payload : Nat, key : [root : Root, nonce : Nat, step : {1, 2}]]

ReceiveChain ==
  [epoch : Nat, chain : Chain, expected_seq : Nat, skipped : SUBSET [seq : Nat, key : Chain]]

ChunkAccumulator ==
  [nonce : Nat, data : Nat, parity : Nat, payload : Nat, shards : SUBSET Nat]

Session ==
  [root_key : Root, send_epoch : Nat, send_chain : Chain, send_seq : Nat,
   recv_current : ReceiveChain, recv_previous : SUBSET ReceiveChain,
   pending : SUBSET Nat, pending_epoch : Nat,
   step1_chunks : SUBSET ChunkAccumulator, step2_chunks : SUBSET ChunkAccumulator,
   last_step1 : SUBSET Nat, last_step2 : SUBSET Nat]

\* Types of every variable (struct RatchetedSession and the wire formats).
TypeOK ==
  /\ session \in [Parties -> Session]
  /\ records \subseteq Record
  /\ chunks \subseteq Chunk
  /\ fresh \in Nat
  /\ app_sealed \in [Parties -> Nat]
  /\ opened \in [Parties -> SUBSET Record]
  /\ burned \in [Parties -> SUBSET (Nat \X Nat)]
  /\ delivered \in [Parties -> Seq(Parties \X Nat)]

\* A record opened once is never openable again, whatever was opened, skipped
\* or re-keyed since: open answers a repeat with Replay or UnknownEpoch.
NoReplay == \A p \in Parties : \A r \in opened[p] : ~CanOpen(p, r)

\* Each chain caches at most MAX_SKIPPED_KEYS keys, however far records overtake
\* each other (open_on's check precedes its commit).
SkippedBound ==
  \A p \in Parties : \A c \in RecvChains(session[p]) :
    Cardinality(c.skipped) <= MaxSkippedKeys

\* The peers' chains meet: unless q lags an epoch behind, q holds a receive chain
\* for the epoch p seals under, and every chain q holds for it derives the key of
\* p's next record (advance_epoch keeps one previous chain, and that is enough).
PeerReads ==
  \A p \in Parties :
    LET s == session[p]
        q == session[Peer(p)]
    IN /\ s.send_epoch <= q.send_epoch => Slot(q, s.send_epoch) # {}
       /\ \A c \in Slot(q, s.send_epoch) :
            /\ c.expected_seq <= s.send_seq
            /\ Advance(c.chain, s.send_seq - c.expected_seq) = s.send_chain

\* No key is lost on the way: a record not opened yet, on a chain its receiver
\* still holds, has its key cached or ahead on the chain, unless a record that
\* did not decrypt burned it.
NoKeyLost ==
  \A p \in Parties : \A r \in records \ opened[p] :
    (r.from = Peer(p) /\ <<r.epoch, r.seq>> \notin burned[p]) =>
      \A c \in Slot(session[p], r.epoch) :
        IF r.seq < c.expected_seq THEN [seq |-> r.seq, key |-> r.key] \in c.skipped
        ELSE r.key = Advance(c.chain, r.seq - c.expected_seq)

\* The receiver's cache holds the keys it needs, and no more than its bound: both
\* rest on where open_on draws a gap's keys and when it refuses to.
KeysCached == SkippedBound /\ NoKeyLost

Derives(chain, key) ==
  chain.root = key.root /\ chain.dir = key.dir /\ chain.pos <= key.pos

\* Forward secrecy of the chains: neither a chain's state nor the cached keys
\* give back the key of a record sealed or opened before ("the chain's current
\* state doesn't recover past message keys").
ForwardSecrecy ==
  \A p \in Parties :
    /\ \A r \in opened[p] : \A c \in RecvChains(session[p]) :
         /\ ~Derives(c.chain, r.key)
         /\ \A k \in c.skipped : k.key # r.key
    /\ \A r \in records : r.from = p => ~Derives(session[p].send_chain, r.key)

\* What the session promises its caller, and the peers each other: see
\* RatchetPromise.  The agreed lineage is the longer of the two root keys.
Promise ==
  INSTANCE RatchetPromise WITH
    lineage <- IF Len(session[Initiator].root_key) >= Len(session[Responder].root_key)
               THEN session[Initiator].root_key ELSE session[Responder].root_key,
    at <- [p \in Parties |-> session[p].send_epoch],
    root <- [p \in Parties |-> session[p].root_key],
    sealed <- app_sealed,
    log <- delivered

KeepsPromise == Promise!Spec

\* A step someone started completes (its initiator is waiting no more).
StepCompletes ==
  \A p \in Parties : session[p].pending # {} ~> session[p].pending = {}

\* After a step, the peers meet in the same epoch.
EpochsMeet ==
  session[Initiator].send_epoch # session[Responder].send_epoch
    ~> session[Initiator].send_epoch = session[Responder].send_epoch
=============================================================================
