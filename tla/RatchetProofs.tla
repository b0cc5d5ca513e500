---------------------------- MODULE RatchetProofs ----------------------------
(***************************************************************************)
(* Proofs about Ratchet: of one session, type correctness and that no      *)
(* record is opened twice; of the two together, that their chains meet, no *)
(* key is lost between them, and what they do is what RatchetPromise says. *)
(***************************************************************************)
EXTENDS Ratchet, FiniteSetTheorems, SequenceTheorems, TLAPS

(***************************************************************************)
(* What the operations on one session return.                              *)
(***************************************************************************)
LEMMA AdvanceType ==
  ASSUME NEW k \in Chain, NEW n \in Nat
  PROVE  Advance(k, n) \in Chain
  BY DEF Advance, Chain

LEMMA SkippedKeysType ==
  ASSUME NEW c \in ReceiveChain, NEW seq \in Nat
  PROVE  SkippedKeys(c, seq) \subseteq [seq : Nat, key : Chain]
<1> SUFFICES ASSUME NEW n \in c.expected_seq .. (seq - 1)
             PROVE  [seq |-> n, key |-> Advance(c.chain, n - c.expected_seq)]
                      \in [seq : Nat, key : Chain]
  BY DEF SkippedKeys
<1>1. c.chain \in Chain /\ c.expected_seq \in Nat
  BY DEF ReceiveChain
<1>2. n \in Nat /\ n - c.expected_seq \in Nat
  BY <1>1
<1>3. QED
  BY <1>1, <1>2, AdvanceType

LEMMA ConsumeType ==
  ASSUME NEW c \in ReceiveChain, NEW r \in Record
  PROVE  Consume(c, r) \in ReceiveChain
<1>0. /\ c.epoch \in Nat /\ c.chain \in Chain /\ c.expected_seq \in Nat
      /\ c.skipped \subseteq [seq : Nat, key : Chain] /\ r.seq \in Nat
  BY DEF ReceiveChain, Record
<1>1. CASE r.seq < c.expected_seq
  <2>1. Consume(c, r) = DropKey(c, r.seq)
    BY <1>1 DEF Consume
  <2>2. {k \in c.skipped : k.seq # r.seq} \subseteq [seq : Nat, key : Chain]
    BY <1>0
  <2>3. QED
    BY <2>1, <2>2 DEF DropKey, ReceiveChain
<1>2. CASE ~(r.seq < c.expected_seq)
  <2>1. r.seq + 1 - c.expected_seq \in Nat
    BY <1>0, <1>2
  <2>2. Advance(c.chain, r.seq + 1 - c.expected_seq) \in Chain
    BY <1>0, <2>1, AdvanceType
  <2>3. c.skipped \cup SkippedKeys(c, r.seq) \subseteq [seq : Nat, key : Chain]
    BY <1>0, SkippedKeysType
  <2> DEFINE skipped == c.skipped \cup SkippedKeys(c, r.seq)
             chain == Advance(c.chain, r.seq + 1 - c.expected_seq)
             seq == r.seq + 1
  <2>4. Consume(c, r) =
          [c EXCEPT !.skipped = skipped, !.chain = chain, !.expected_seq = seq]
    BY <1>2 DEF Consume
  <2>5. skipped \in SUBSET [seq : Nat, key : Chain] /\ chain \in Chain /\ seq \in Nat
    BY <1>0, <2>2, <2>3
  <2> HIDE DEF skipped, chain, seq
  <2>6. QED
    BY <2>4, <2>5 DEF ReceiveChain
<1>3. QED
  BY <1>1, <1>2

LEMMA DropKeyType ==
  ASSUME NEW c \in ReceiveChain, NEW seq
  PROVE  DropKey(c, seq) \in ReceiveChain
<1>1. {k \in c.skipped : k.seq # seq} \subseteq [seq : Nat, key : Chain]
  BY DEF ReceiveChain
<1>2. QED
  BY <1>1 DEF DropKey, ReceiveChain

LEMMA SlotType ==
  ASSUME NEW s \in Session, NEW epoch, NEW c \in Slot(s, epoch)
  PROVE  c \in ReceiveChain /\ c.epoch = epoch /\ c \in RecvChains(s)
  BY DEF Slot, Session, RecvChains

LEMMA PutSlotType ==
  ASSUME NEW s \in Session, NEW c \in ReceiveChain
  PROVE  PutSlot(s, c) \in Session
  BY DEF PutSlot, Session

LEMMA SealPayloadType ==
  ASSUME NEW s \in Session
  PROVE  SealPayload(s) \in Session
<1>1. s.send_seq \in Nat /\ s.send_chain \in Chain
  BY DEF Session
<1>2. Advance(s.send_chain, 1) \in Chain /\ s.send_seq + 1 \in Nat
  BY <1>1, AdvanceType
<1>3. QED
  BY <1>2 DEF SealPayload, Session

LEMMA SealedRecordType ==
  ASSUME NEW p \in Parties, NEW s \in Session, NEW payload \in Payload
  PROVE  SealedRecord(p, s, payload) \in Record
  BY DEF SealedRecord, Session, Record

LEMMA ChainKeyType ==
  ASSUME NEW root \in Root, NEW dir \in {"i2r", "r2i"}
  PROVE  ChainKey(root, dir) \in Chain
  BY DEF ChainKey, Chain

LEMMA RecvChainType ==
  ASSUME NEW epoch \in Nat, NEW chain \in Chain
  PROVE  RecvChain(epoch, chain) \in ReceiveChain
  BY DEF RecvChain, ReceiveChain

LEMMA AdvanceEpochType ==
  ASSUME NEW s \in Session, NEW epoch \in Nat, NEW secret \in Nat \X Nat,
         NEW is_initiator \in BOOLEAN
  PROVE  AdvanceEpoch(s, epoch, secret, is_initiator) \in Session
<1> DEFINE root == Append(s.root_key, secret)
           send == IF is_initiator THEN "i2r" ELSE "r2i"
           recv == IF is_initiator THEN "r2i" ELSE "i2r"
<1>1. root \in Root
  <2>1. s.root_key \in Root
    BY DEF Session
  <2>2. QED
    BY <2>1 DEF Root
<1>2. send \in {"i2r", "r2i"} /\ recv \in {"i2r", "r2i"}
  OBVIOUS
<1> HIDE DEF root, send, recv
<1>3. ChainKey(root, send) \in Chain /\ ChainKey(root, recv) \in Chain
  BY <1>1, <1>2, ChainKeyType
<1>4. epoch + 1 \in Nat /\ RecvChain(epoch + 1, ChainKey(root, recv)) \in ReceiveChain
  BY <1>3, RecvChainType
<1> DEFINE schain == ChainKey(root, send)
           rchain == RecvChain(epoch + 1, ChainKey(root, recv))
           prev == {s.recv_current}
           next == epoch + 1
<1>5. AdvanceEpoch(s, epoch, secret, is_initiator) =
        [s EXCEPT !.root_key = root, !.send_epoch = next, !.send_chain = schain,
                  !.send_seq = 0, !.recv_current = rchain, !.recv_previous = prev]
  BY DEF AdvanceEpoch, root, send, recv
<1>6. prev \in SUBSET ReceiveChain
  BY DEF Session
<1>7. schain \in Chain /\ rchain \in ReceiveChain /\ next \in Nat
  BY <1>3, <1>4
<1> HIDE DEF schain, rchain, prev, next
<1>8. AdvanceEpoch(s, epoch, secret, is_initiator) =
        [root_key |-> root, send_epoch |-> next, send_chain |-> schain, send_seq |-> 0,
         recv_current |-> rchain, recv_previous |-> prev,
         pending |-> s.pending, pending_epoch |-> s.pending_epoch,
         step1_chunks |-> s.step1_chunks, step2_chunks |-> s.step2_chunks,
         last_step1 |-> s.last_step1, last_step2 |-> s.last_step2]
  BY <1>5 DEF Session
<1>9. QED
  BY <1>1, <1>6, <1>7, <1>8 DEF Session

LEMMA SetPendingType ==
  ASSUME NEW s \in Session, NEW kex \in Nat
  PROVE  SetPending(s, kex) \in Session
<1>1. s.send_epoch \in Nat /\ {kex} \in SUBSET Nat
  BY DEF Session
<1>2. QED
  BY <1>1 DEF SetPending, Session

LEMMA ChunkRecordsType ==
  ASSUME NEW p \in Parties, NEW root \in Root, NEW step \in {1, 2}, NEW nonce \in Nat,
         NEW payload \in Nat, NEW data \in Nat, NEW parity \in Nat
  PROVE  ChunkRecords(p, root, step, nonce, payload, data, parity) \subseteq Chunk
<1>1. ChunkKey(root, nonce, step) \in [root : Root, nonce : Nat, step : {1, 2}]
  BY DEF ChunkKey
<1>2. ASSUME NEW i \in 0 .. (data + parity - 1)
      PROVE  i \in Nat
  OBVIOUS
<1>3. QED
  BY <1>1, <1>2 DEF ChunkRecords, Chunk

LEMMA FileChunkType ==
  ASSUME NEW slot \in SUBSET ChunkAccumulator, NEW c \in Chunk
  PROVE  FileChunk(slot, c) \in ChunkAccumulator
<1>1. NewAccumulator(c) \in ChunkAccumulator
  BY DEF NewAccumulator, ChunkAccumulator, Chunk
<1>2. Accumulator(slot, c) \in ChunkAccumulator
  BY <1>1 DEF Accumulator
<1>3. c.index \in Nat
  BY DEF Chunk
<1>4. QED
  BY <1>2, <1>3 DEF FileChunk, ChunkAccumulator

\* Every field of a session may be replaced by a value of its type.
LEMMA SessionFields ==
  ASSUME NEW s \in Session, NEW acc \in SUBSET ChunkAccumulator, NEW nonces \in SUBSET Nat
  PROVE  /\ [s EXCEPT !.pending = {}] \in Session
         /\ [s EXCEPT !.step1_chunks = acc] \in Session
         /\ [s EXCEPT !.step2_chunks = acc] \in Session
         /\ [s EXCEPT !.step1_chunks = {}, !.last_step1 = nonces] \in Session
         /\ [s EXCEPT !.step2_chunks = {}, !.last_step2 = nonces, !.pending = {}] \in Session
  BY DEF Session

(***************************************************************************)
(* Type correctness.                                                       *)
(***************************************************************************)
LEMMA TypeInit == Init => TypeOK
<1> SUFFICES ASSUME Init PROVE TypeOK
  OBVIOUS
<1>1. <<>> \in Root
  BY DEF Root
<1>2. ASSUME NEW p \in Parties
      PROVE  NewSession(p) \in Session
  <2>1. \A dir \in {"i2r", "r2i"} : ChainKey(<<>>, dir) \in Chain
    BY <1>1, ChainKeyType
  <2>2. \A dir \in {"i2r", "r2i"} :
          RecvChain(0, ChainKey(<<>>, dir)) \in ReceiveChain
    BY <2>1, RecvChainType
  <2>3. QED
    BY <1>1, <2>1, <2>2 DEF NewSession, Session
<1>3. QED
  BY <1>2 DEF Init, TypeOK

\* A step that replaces p's session by another one keeps the sessions' type.
LEMMA SessionStep ==
  ASSUME TypeOK, NEW p \in Parties, NEW s \in Session,
         session' = [session EXCEPT ![p] = s]
  PROVE  session' \in [Parties -> Session]
  BY DEF TypeOK

LEMMA TypeNext == TypeOK /\ [Next]_vars => TypeOK'
<1> SUFFICES ASSUME TypeOK, [Next]_vars
             PROVE  TypeOK'
  OBVIOUS
<1>1. CASE UNCHANGED vars
  BY <1>1 DEF vars, TypeOK
<1>2. ASSUME NEW p \in Parties, Seal(p)
      PROVE  TypeOK'
  <2>1. session[p] \in Session /\ app_sealed[p] + 1 \in Nat
    BY DEF TypeOK
  <2>2. [kind |-> "app", id |-> app_sealed[p] + 1] \in Payload
    BY <2>1 DEF Payload
  <2>3. records' \subseteq Record
    BY <1>2, <2>1, <2>2, SealedRecordType DEF Seal, TypeOK
  <2>4. session' \in [Parties -> Session]
    BY <1>2, <2>1, SealPayloadType, SessionStep DEF Seal
  <2>5. QED
    BY <1>2, <2>1, <2>3, <2>4 DEF Seal, TypeOK
<1>3. ASSUME NEW p \in Parties, InitiateRatchet(p)
      PROVE  TypeOK'
  <2>1. session[p] \in Session /\ fresh' \in Nat
    BY <1>3 DEF TypeOK, InitiateRatchet
  <2>2. [kind |-> "step1", id |-> fresh'] \in Payload
    BY <2>1 DEF Payload
  <2>3. records' \subseteq Record
    BY <1>3, <2>1, <2>2, SealedRecordType DEF InitiateRatchet, TypeOK
  <2>4. SetPending(SealPayload(session[p]), fresh') \in Session
    BY <2>1, SealPayloadType, SetPendingType
  <2>5. session' \in [Parties -> Session]
    BY <1>3, <2>4, SessionStep DEF InitiateRatchet
  <2>6. QED
    BY <1>3, <2>1, <2>3, <2>5 DEF InitiateRatchet, TypeOK
<1>4. ASSUME NEW p \in Parties, NEW split \in Splits,
             InitiateIncremental(p, split[1], split[2])
      PROVE  TypeOK'
  <2>1. /\ session[p] \in Session /\ fresh' \in Nat
        /\ split[1] \in Nat /\ split[2] \in Nat
    BY <1>4, SplitsAssumption DEF TypeOK, InitiateIncremental
  <2>2. session[p].root_key \in Root
    BY <2>1 DEF Session
  <2>3. ChunkRecords(p, session[p].root_key, 1, fresh', fresh', split[1], split[2])
          \subseteq Chunk
    BY <2>1, <2>2, ChunkRecordsType
  <2>4. chunks' \subseteq Chunk
    BY <1>4, <2>3 DEF InitiateIncremental, TypeOK
  <2>5. session' \in [Parties -> Session]
    BY <1>4, <2>1, SetPendingType, SessionStep DEF InitiateIncremental
  <2>6. QED
    BY <1>4, <2>1, <2>4, <2>5 DEF InitiateIncremental, TypeOK
<1>5. ASSUME NEW p \in Parties, NEW r \in records, OpenApplication(p, r)
      PROVE  TypeOK'
  <2>1. r \in Record /\ session[p] \in Session
    BY DEF TypeOK
  <2>2. PICK c \in Slot(session[p], r.epoch) :
          session' = [session EXCEPT ![p] = PutSlot(@, Consume(c, r))]
    BY <1>5 DEF OpenApplication
  <2>3. PutSlot(session[p], Consume(c, r)) \in Session
    BY <2>1, SlotType, ConsumeType, PutSlotType
  <2>4. session' \in [Parties -> Session]
    BY <2>2, <2>3, SessionStep
  <2>5. r.from \in Parties /\ r.payload.id \in Nat
    BY <2>1 DEF Record, Payload
  <2>6. Append(delivered[p], <<r.from, r.payload.id>>) \in Seq(Parties \X Nat)
    BY <2>5 DEF TypeOK
  <2>7. QED
    BY <1>5, <2>1, <2>4, <2>6 DEF OpenApplication, TypeOK
<1>6. ASSUME NEW p \in Parties, NEW r \in records, OpenStep1(p, r)
      PROVE  TypeOK'
  <2>1. r \in Record /\ session[p] \in Session /\ fresh' \in Nat
    BY <1>6 DEF TypeOK, OpenStep1
  <2> DEFINE After(c) == PutSlot(session[p], Consume(c, r))
  <2>2. PICK c \in Slot(session[p], r.epoch) :
          /\ records' = records \cup
               {SealedRecord(p, After(c), [kind |-> "step2", id |-> fresh'])}
          /\ session' = [session EXCEPT
               ![p] = AdvanceEpoch(SealPayload(After(c)), r.epoch,
                                   <<r.payload.id, fresh'>>, FALSE)]
    BY <1>6 DEF OpenStep1
  <2>3. After(c) \in Session
    BY <2>1, SlotType, ConsumeType, PutSlotType
  <2> HIDE DEF After
  <2>4. SealPayload(After(c)) \in Session
    BY <2>3, SealPayloadType
  <2>5. r.epoch \in Nat /\ <<r.payload.id, fresh'>> \in Nat \X Nat
    BY <2>1 DEF Record, Payload
  <2>6. AdvanceEpoch(SealPayload(After(c)), r.epoch, <<r.payload.id, fresh'>>, FALSE)
          \in Session
    BY <2>4, <2>5, AdvanceEpochType
  <2>7. session' \in [Parties -> Session]
    BY <2>2, <2>6, SessionStep
  <2>8. [kind |-> "step2", id |-> fresh'] \in Payload
    BY <2>1 DEF Payload
  <2>9. records' \subseteq Record
    BY <2>2, <2>3, <2>8, SealedRecordType DEF TypeOK
  <2>10. QED
    BY <1>6, <2>1, <2>7, <2>9 DEF OpenStep1, TypeOK
<1>7. ASSUME NEW p \in Parties, NEW r \in records, OpenStep2(p, r)
      PROVE  TypeOK'
  <2>1. r \in Record /\ session[p] \in Session
    BY DEF TypeOK
  <2> DEFINE After(c) == [PutSlot(session[p], Consume(c, r)) EXCEPT !.pending = {}]
  <2>2. PICK c \in Slot(session[p], r.epoch), kex \in session[p].pending :
          session' = [session EXCEPT
            ![p] = AdvanceEpoch(After(c), r.epoch, <<kex, r.payload.id>>, TRUE)]
    BY <1>7 DEF OpenStep2
  <2>3. After(c) \in Session
    BY <2>1, SlotType, ConsumeType, PutSlotType, SessionFields
  <2> HIDE DEF After
  <2>4. kex \in Nat
    BY <2>1 DEF Session
  <2>5. r.epoch \in Nat /\ <<kex, r.payload.id>> \in Nat \X Nat
    BY <2>1, <2>4 DEF Record, Payload
  <2>6. AdvanceEpoch(After(c), r.epoch, <<kex, r.payload.id>>, TRUE) \in Session
    BY <2>3, <2>5, AdvanceEpochType
  <2>7. session' \in [Parties -> Session]
    BY <2>2, <2>6, SessionStep
  <2>8. QED
    BY <1>7, <2>1, <2>7 DEF OpenStep2, TypeOK
<1>8. ASSUME NEW p \in Parties, NEW r \in records, OpenRefused(p, r)
      PROVE  TypeOK'
  <2>1. r \in Record /\ session[p] \in Session
    BY DEF TypeOK
  <2>2. PICK c \in Slot(session[p], r.epoch) :
          session' = [session EXCEPT ![p] = PutSlot(session[p], Consume(c, r))]
    BY <1>8 DEF OpenRefused
  <2>3. PutSlot(session[p], Consume(c, r)) \in Session
    BY <2>1, SlotType, ConsumeType, PutSlotType
  <2>4. session' \in [Parties -> Session]
    BY <2>2, <2>3, SessionStep
  <2>5. QED
    BY <1>8, <2>1, <2>4 DEF OpenRefused, TypeOK
<1>9. ASSUME NEW p \in Parties, NEW r \in records, OpenBurns(p, r)
      PROVE  TypeOK'
  <2>1. r \in Record /\ session[p] \in Session
    BY DEF TypeOK
  <2>2. PICK c \in Slot(session[p], r.epoch) :
          session' = [session EXCEPT ![p] = PutSlot(@, DropKey(c, r.seq))]
    BY <1>9 DEF OpenBurns
  <2>3. PutSlot(session[p], DropKey(c, r.seq)) \in Session
    BY <2>1, SlotType, DropKeyType, PutSlotType
  <2>4. session' \in [Parties -> Session]
    BY <2>2, <2>3, SessionStep
  <2>5. <<r.epoch, r.seq>> \in Nat \X Nat
    BY <2>1 DEF Record
  <2>6. QED
    BY <1>9, <2>4, <2>5 DEF OpenBurns, TypeOK
<1>10. ASSUME NEW p \in Parties, NEW c \in chunks, OpenChunkPartial(p, c)
       PROVE  TypeOK'
  <2>1. c \in Chunk /\ session[p] \in Session
    BY DEF TypeOK
  <2>2. /\ session[p].step1_chunks \in SUBSET ChunkAccumulator
        /\ session[p].step2_chunks \in SUBSET ChunkAccumulator
    BY <2>1 DEF Session
  <2>3. /\ {FileChunk(session[p].step1_chunks, c)} \in SUBSET ChunkAccumulator
        /\ {FileChunk(session[p].step2_chunks, c)} \in SUBSET ChunkAccumulator
    BY <2>1, <2>2, FileChunkType
  <2>4. \E s \in Session : session' = [session EXCEPT ![p] = s]
    <3>1. /\ [session[p] EXCEPT !.step1_chunks = {FileChunk(@, c)}] \in Session
          /\ [session[p] EXCEPT !.step2_chunks = {FileChunk(@, c)}] \in Session
      BY <2>1, <2>3, SessionFields
    <3>2. \/ session' = [session EXCEPT
               ![p] = [session[p] EXCEPT !.step1_chunks = {FileChunk(@, c)}]]
          \/ session' = [session EXCEPT
               ![p] = [session[p] EXCEPT !.step2_chunks = {FileChunk(@, c)}]]
      BY <1>10 DEF OpenChunkPartial
    <3>3. QED
      BY <3>1, <3>2
  <2>5. session' \in [Parties -> Session]
    BY <2>4, SessionStep
  <2>6. QED
    BY <1>10, <2>5 DEF OpenChunkPartial, TypeOK
<1>11. ASSUME NEW p \in Parties, NEW c \in chunks, OpenChunkStep1(p, c)
       PROVE  TypeOK'
  <2>1. c \in Chunk /\ session[p] \in Session /\ fresh' \in Nat
    BY <1>11 DEF TypeOK, OpenChunkStep1
  <2>2. /\ session[p].root_key \in Root /\ session[p].send_epoch \in Nat
        /\ c.data \in Nat /\ c.parity \in Nat /\ c.nonce \in Nat /\ c.payload \in Nat
    BY <2>1 DEF Session, Chunk
  <2> DEFINE cleared == [session[p] EXCEPT !.step1_chunks = {}, !.last_step1 = {c.nonce}]
  <2>3. cleared \in Session
    BY <2>1, <2>2, SessionFields
  <2>4. session' = [session EXCEPT ![p] =
          AdvanceEpoch(cleared, session[p].send_epoch, <<c.payload, fresh'>>, FALSE)]
    BY <1>11 DEF OpenChunkStep1
  <2> HIDE DEF cleared
  <2>5. AdvanceEpoch(cleared, session[p].send_epoch, <<c.payload, fresh'>>, FALSE)
          \in Session
    BY <2>1, <2>2, <2>3, AdvanceEpochType
  <2>6. session' \in [Parties -> Session]
    BY <2>4, <2>5, SessionStep
  <2>7. ChunkRecords(p, session[p].root_key, 2, fresh', fresh', c.data, c.parity)
          \subseteq Chunk
    BY <2>1, <2>2, ChunkRecordsType
  <2>8. QED
    BY <1>11, <2>1, <2>6, <2>7 DEF OpenChunkStep1, TypeOK
<1>12. ASSUME NEW p \in Parties, NEW c \in chunks, OpenChunkStep2(p, c)
       PROVE  TypeOK'
  <2>1. c \in Chunk /\ session[p] \in Session
    BY DEF TypeOK
  <2>2. /\ session[p].send_epoch \in Nat /\ session[p].pending \subseteq Nat
        /\ c.nonce \in Nat /\ c.payload \in Nat
    BY <2>1 DEF Session, Chunk
  <2> DEFINE cleared ==
        [session[p] EXCEPT !.step2_chunks = {}, !.last_step2 = {c.nonce}, !.pending = {}]
  <2>3. cleared \in Session
    BY <2>1, <2>2, SessionFields
  <2>4. PICK kex \in session[p].pending :
          session' = [session EXCEPT ![p] =
            AdvanceEpoch(cleared, session[p].send_epoch, <<kex, c.payload>>, TRUE)]
    BY <1>12 DEF OpenChunkStep2
  <2> HIDE DEF cleared
  <2>5. AdvanceEpoch(cleared, session[p].send_epoch, <<kex, c.payload>>, TRUE) \in Session
    BY <2>2, <2>3, AdvanceEpochType
  <2>6. session' \in [Parties -> Session]
    BY <2>4, <2>5, SessionStep
  <2>7. QED
    BY <1>12, <2>6 DEF OpenChunkStep2, TypeOK
<1>13. QED
  BY <1>1, <1>2, <1>3, <1>4, <1>5, <1>6, <1>7, <1>8, <1>9, <1>10, <1>11, <1>12
  DEF Next, Initiate, OpenControl, OpenChunk

(***************************************************************************)
(* Every variable keeps its type: sequence numbers, epochs and positions   *)
(* stay natural, sessions and wire records keep their shape.               *)
(***************************************************************************)
THEOREM TypeCorrect == Spec => []TypeOK
  BY TypeInit, TypeNext, PTL DEF Spec

(***************************************************************************)
(* No record is opened twice.  NoReplay alone is not inductive: it says    *)
(* nothing of the chain a later epoch installs, nor of keys cached above   *)
(* the expected number.  ReplayInv adds that epochs only grow, that a      *)
(* pending step is always one of the current epoch (so handle_step2 cannot *)
(* set the epoch back), and that cached keys lie below the expected        *)
(* number.  It speaks of one session at a time, so NoReplay holds against  *)
(* any peer and any network.                                               *)
(***************************************************************************)
LocalInv(s) ==
  /\ s.recv_current.epoch = s.send_epoch
  /\ \A c \in s.recv_previous : c.epoch < s.send_epoch
  /\ s.pending # {} => s.pending_epoch = s.send_epoch
  /\ \A c \in RecvChains(s) : \A k \in c.skipped : k.seq < c.expected_seq

Used(s, r) ==
  /\ r.epoch <= s.send_epoch
  /\ \A c \in RecvChains(s) :
       c.epoch = r.epoch => /\ r.seq < c.expected_seq
                            /\ \A k \in c.skipped : k.seq # r.seq

ReplayInv ==
  \A p \in Parties :
    LocalInv(session[p]) /\ \A r \in opened[p] : Used(session[p], r)

\* A chain that went through open_on: consumed numbers stay consumed.
ChainGrows(c, d) ==
  /\ d.epoch = c.epoch
  /\ d.expected_seq >= c.expected_seq
  /\ \A k \in d.skipped : k.seq < d.expected_seq
  /\ \A k \in d.skipped : k.seq < c.expected_seq => k \in c.skipped

LEMMA ConsumeGrows ==
  ASSUME NEW c \in ReceiveChain, NEW r \in Record,
         \A k \in c.skipped : k.seq < c.expected_seq
  PROVE  /\ ChainGrows(c, Consume(c, r))
         /\ r.seq < Consume(c, r).expected_seq
         /\ \A k \in Consume(c, r).skipped : k.seq # r.seq
<1>1. c.expected_seq \in Nat /\ r.seq \in Nat
  BY DEF ReceiveChain, Record
<1>2. CASE r.seq < c.expected_seq
  <2>1. /\ Consume(c, r).epoch = c.epoch
        /\ Consume(c, r).expected_seq = c.expected_seq
        /\ Consume(c, r).skipped = {k \in c.skipped : k.seq # r.seq}
    BY <1>2 DEF Consume, DropKey, ReceiveChain
  <2>2. QED
    BY <1>1, <1>2, <2>1 DEF ChainGrows
<1>3. CASE ~(r.seq < c.expected_seq)
  <2>1. /\ Consume(c, r).epoch = c.epoch
        /\ Consume(c, r).expected_seq = r.seq + 1
        /\ Consume(c, r).skipped = c.skipped \cup SkippedKeys(c, r.seq)
    BY <1>3 DEF Consume, ReceiveChain
  <2>2. \A k \in SkippedKeys(c, r.seq) : c.expected_seq <= k.seq /\ k.seq < r.seq
    BY <1>1 DEF SkippedKeys
  <2>3. \A k \in Consume(c, r).skipped : k.seq < r.seq
    BY <1>1, <1>3, <2>1, <2>2 DEF ReceiveChain
  <2>4. \A k \in Consume(c, r).skipped : k.seq \in Nat
    BY <2>1, SkippedKeysType, <1>1 DEF ReceiveChain
  <2>5. \A k \in Consume(c, r).skipped : k.seq < c.expected_seq => k \in c.skipped
    BY <1>1, <2>1, <2>2, <2>4
  <2>6. QED
    BY <1>1, <1>3, <2>1, <2>3, <2>4, <2>5 DEF ChainGrows
<1>4. QED
  BY <1>2, <1>3

LEMMA DropKeyGrows ==
  ASSUME NEW c \in ReceiveChain, NEW seq, \A k \in c.skipped : k.seq < c.expected_seq
  PROVE  ChainGrows(c, DropKey(c, seq))
<1>1. /\ DropKey(c, seq).epoch = c.epoch
      /\ DropKey(c, seq).expected_seq = c.expected_seq
      /\ DropKey(c, seq).skipped = {k \in c.skipped : k.seq # seq}
      /\ c.expected_seq \in Nat
  BY DEF DropKey, ReceiveChain
<1>2. QED
  BY <1>1 DEF ChainGrows

\* open_on's effect on a session, whatever it did to the chain.
LEMMA PutSlotKeeps ==
  ASSUME NEW s \in Session, NEW epoch \in Nat, NEW c \in Slot(s, epoch),
         NEW d \in ReceiveChain, LocalInv(s), ChainGrows(c, d)
  PROVE  LET t == PutSlot(s, d)
         IN /\ t.send_epoch = s.send_epoch /\ t.pending = s.pending
            /\ t.pending_epoch = s.pending_epoch
            /\ LocalInv(t)
            /\ \A e \in RecvChains(t) : e.epoch = epoch => e = d
            /\ epoch <= s.send_epoch
            /\ \A o \in Record : Used(s, o) => Used(t, o)
<1> DEFINE t == PutSlot(s, d)
<1>1. c \in ReceiveChain /\ c.epoch = epoch /\ c \in RecvChains(s) /\ d.epoch = epoch
  BY SlotType DEF ChainGrows
<1>2. /\ t.send_epoch = s.send_epoch /\ t.pending = s.pending
      /\ t.pending_epoch = s.pending_epoch
  BY DEF PutSlot, Session
<1>3. /\ s.send_epoch \in Nat /\ s.recv_current \in ReceiveChain
      /\ s.recv_previous \subseteq ReceiveChain
  BY DEF Session
<1>4. \/ /\ s.recv_current.epoch = epoch /\ c = s.recv_current
         /\ t.recv_current = d /\ t.recv_previous = s.recv_previous
      \/ /\ s.recv_current.epoch # epoch /\ c \in s.recv_previous
         /\ t.recv_current = s.recv_current /\ t.recv_previous = {d}
  BY <1>1 DEF PutSlot, Slot, Session
<1>5. epoch <= s.send_epoch
  BY <1>1, <1>3, <1>4 DEF LocalInv
<1>6. \A e \in RecvChains(t) : e = d \/ (e \in RecvChains(s) /\ e.epoch # epoch)
  BY <1>1, <1>3, <1>4 DEF LocalInv, RecvChains
<1>7. LocalInv(t)
  <2>1. t.recv_current.epoch = t.send_epoch
    BY <1>1, <1>2, <1>4 DEF LocalInv
  <2>2. \A e \in t.recv_previous : e.epoch < t.send_epoch
    BY <1>1, <1>2, <1>4 DEF LocalInv
  <2>3. \A e \in RecvChains(t) : \A k \in e.skipped : k.seq < e.expected_seq
    BY <1>6 DEF LocalInv, ChainGrows
  <2>4. QED
    BY <1>2, <2>1, <2>2, <2>3 DEF LocalInv
<1>8. ASSUME NEW o \in Record, Used(s, o)
      PROVE  Used(t, o)
  <2>1. o.epoch <= t.send_epoch
    BY <1>2, <1>8 DEF Used
  <2>2. ASSUME NEW e \in RecvChains(t), e.epoch = o.epoch
        PROVE  o.seq < e.expected_seq /\ \A k \in e.skipped : k.seq # o.seq
    <3>1. CASE e \in RecvChains(s)
      BY <1>8, <2>2, <3>1 DEF Used
    <3>2. CASE e = d
      <4>1. o.seq < c.expected_seq /\ \A k \in c.skipped : k.seq # o.seq
        BY <1>1, <1>8, <2>2, <3>2 DEF Used
      <4>2. o.seq \in Nat /\ c.expected_seq \in Nat /\ d.expected_seq \in Nat
        BY <1>1 DEF Record, ReceiveChain
      <4>3. \A k \in d.skipped : k.seq # o.seq
        BY <4>1 DEF ChainGrows
      <4>4. QED
        BY <3>2, <4>1, <4>2, <4>3 DEF ChainGrows
    <3>3. QED
      BY <1>6, <3>1, <3>2
  <2>3. QED
    BY <2>1, <2>2 DEF Used
<1>9. QED
  BY <1>1, <1>2, <1>5, <1>6, <1>7, <1>8

\* Opening r leaves r, and all records opened before it, used.
LEMMA OpenKeeps ==
  ASSUME NEW s \in Session, NEW r \in Record, NEW c \in Slot(s, r.epoch), LocalInv(s)
  PROVE  LET t == PutSlot(s, Consume(c, r))
         IN /\ t \in Session
            /\ t.send_epoch = s.send_epoch /\ t.pending = s.pending
            /\ t.pending_epoch = s.pending_epoch
            /\ LocalInv(t)
            /\ Used(t, r)
            /\ \A o \in Record : Used(s, o) => Used(t, o)
<1>1. c \in ReceiveChain /\ c.epoch = r.epoch /\ c \in RecvChains(s) /\ r.epoch \in Nat
  BY SlotType DEF Record
<1>2. \A k \in c.skipped : k.seq < c.expected_seq
  BY <1>1 DEF LocalInv
<1> DEFINE d == Consume(c, r)
           t == PutSlot(s, d)
<1>3. d \in ReceiveChain /\ t \in Session
  BY <1>1, ConsumeType, PutSlotType
<1>4. ChainGrows(c, d) /\ r.seq < d.expected_seq /\ \A k \in d.skipped : k.seq # r.seq
  BY <1>1, <1>2, ConsumeGrows
<1> HIDE DEF d
<1>5. /\ t.send_epoch = s.send_epoch /\ t.pending = s.pending
      /\ t.pending_epoch = s.pending_epoch
      /\ LocalInv(t)
      /\ \A e \in RecvChains(t) : e.epoch = r.epoch => e = d
      /\ r.epoch <= s.send_epoch
      /\ \A o \in Record : Used(s, o) => Used(t, o)
  BY <1>1, <1>3, <1>4, PutSlotKeeps
<1>6. Used(t, r)
  BY <1>4, <1>5 DEF Used
<1>7. QED
  BY <1>3, <1>5, <1>6 DEF d

\* Moving to the next epoch, with no step pending: what was used stays used.
LEMMA AdvanceKeeps ==
  ASSUME NEW s \in Session, LocalInv(s), NEW secret, NEW is_initiator
  PROVE  LET t == AdvanceEpoch([s EXCEPT !.pending = {}], s.send_epoch, secret, is_initiator)
         IN LocalInv(t) /\ \A o \in Record : Used(s, o) => Used(t, o)
<1> DEFINE t == AdvanceEpoch([s EXCEPT !.pending = {}], s.send_epoch, secret, is_initiator)
<1>1. s.send_epoch \in Nat /\ s.recv_current \in ReceiveChain
  BY DEF Session
<1>2. /\ t.send_epoch = s.send_epoch + 1 /\ t.pending = {}
      /\ t.recv_previous = {s.recv_current}
      /\ t.recv_current.epoch = s.send_epoch + 1
      /\ t.recv_current.skipped = {}
  BY DEF AdvanceEpoch, RecvChain, Session
<1> HIDE DEF t
<1>3. LocalInv(t)
  BY <1>1, <1>2 DEF LocalInv, RecvChains
<1>4. ASSUME NEW o \in Record, Used(s, o)
      PROVE  Used(t, o)
  <2>1. o.epoch \in Nat /\ o.epoch <= s.send_epoch
    BY <1>4 DEF Used, Record
  <2>2. \A e \in RecvChains(t) : e = s.recv_current \/ e.epoch = s.send_epoch + 1
    BY <1>2 DEF RecvChains
  <2>3. QED
    BY <1>1, <1>2, <1>4, <2>1, <2>2 DEF Used, RecvChains
<1>5. QED
  BY <1>3, <1>4 DEF t

\* Fields that neither LocalInv nor Used reads may change freely.
LEMMA FrameKeeps ==
  ASSUME NEW s, NEW t,
         t.send_epoch = s.send_epoch, t.recv_current = s.recv_current,
         t.recv_previous = s.recv_previous,
         t.pending # {} => (t.pending_epoch = t.send_epoch \/
                            (s.pending # {} /\ t.pending_epoch = s.pending_epoch)),
         LocalInv(s)
  PROVE  LocalInv(t) /\ \A o : Used(s, o) => Used(t, o)
  BY DEF LocalInv, Used, RecvChains

LEMMA ReplayInit == Init => ReplayInv
  BY DEF Init, ReplayInv, NewSession, RecvChain, LocalInv, RecvChains

\* A step that only touches p's session, and opens at most the record r.
LEMMA ReplayStep ==
  ASSUME TypeOK, ReplayInv, NEW p \in Parties, NEW s,
         session' = [session EXCEPT ![p] = s],
         \A q \in Parties : q # p => opened'[q] = opened[q],
         LocalInv(s), \A r \in opened'[p] : Used(s, r)
  PROVE  ReplayInv'
<1> SUFFICES ASSUME NEW q \in Parties
             PROVE  LocalInv(session'[q]) /\ \A r \in opened'[q] : Used(session'[q], r)
  BY DEF ReplayInv, LocalInv, Used, RecvChains
<1>1. CASE q = p
  BY <1>1 DEF TypeOK
<1>2. CASE q # p
  BY <1>2 DEF TypeOK, ReplayInv
<1>3. QED
  BY <1>1, <1>2

LEMMA ReplayNext == TypeOK /\ ReplayInv /\ [Next]_vars => ReplayInv'
<1> SUFFICES ASSUME TypeOK, ReplayInv, [Next]_vars
             PROVE  ReplayInv'
  OBVIOUS
<1>0. ASSUME NEW p \in Parties
      PROVE  /\ session[p] \in Session /\ LocalInv(session[p])
             /\ opened[p] \subseteq Record
             /\ \A r \in opened[p] : Used(session[p], r)
  BY DEF TypeOK, ReplayInv
<1>1. CASE UNCHANGED vars
  BY <1>1 DEF vars, ReplayInv, LocalInv, Used, RecvChains
<1>2. ASSUME NEW p \in Parties, Seal(p)
      PROVE  ReplayInv'
  <2> DEFINE s == session[p]
             t == SealPayload(s)
  <2>1. /\ t.send_epoch = s.send_epoch /\ t.recv_current = s.recv_current
        /\ t.recv_previous = s.recv_previous /\ t.pending = s.pending
        /\ t.pending_epoch = s.pending_epoch
    BY <1>0 DEF SealPayload, Session
  <2>2. session' = [session EXCEPT ![p] = t] /\ opened' = opened
    BY <1>2 DEF Seal
  <2> HIDE DEF t
  <2>3. LocalInv(t) /\ \A r \in opened'[p] : Used(t, r)
    BY <1>0, <2>1, <2>2, FrameKeeps
  <2>4. QED
    BY <2>2, <2>3, ReplayStep
<1>3. ASSUME NEW p \in Parties, InitiateRatchet(p)
      PROVE  ReplayInv'
  <2> DEFINE s == session[p]
             t == SetPending(SealPayload(s), fresh')
  <2>1. /\ t.send_epoch = s.send_epoch /\ t.recv_current = s.recv_current
        /\ t.recv_previous = s.recv_previous /\ t.pending_epoch = s.send_epoch
    BY <1>0 DEF SealPayload, SetPending, Session
  <2>2. session' = [session EXCEPT ![p] = t] /\ opened' = opened
    BY <1>3 DEF InitiateRatchet
  <2> HIDE DEF t
  <2>3. LocalInv(t) /\ \A r \in opened'[p] : Used(t, r)
    BY <1>0, <2>1, <2>2, FrameKeeps
  <2>4. QED
    BY <2>2, <2>3, ReplayStep
<1>4. ASSUME NEW p \in Parties, NEW split \in Splits,
             InitiateIncremental(p, split[1], split[2])
      PROVE  ReplayInv'
  <2> DEFINE s == session[p]
             t == SetPending(s, fresh')
  <2>1. /\ t.send_epoch = s.send_epoch /\ t.recv_current = s.recv_current
        /\ t.recv_previous = s.recv_previous /\ t.pending_epoch = s.send_epoch
    BY <1>0 DEF SetPending, Session
  <2>2. session' = [session EXCEPT ![p] = t] /\ opened' = opened
    BY <1>4 DEF InitiateIncremental
  <2> HIDE DEF t
  <2>3. LocalInv(t) /\ \A r \in opened'[p] : Used(t, r)
    BY <1>0, <2>1, <2>2, FrameKeeps
  <2>4. QED
    BY <2>2, <2>3, ReplayStep
<1>5. ASSUME NEW p \in Parties, NEW r \in records,
             OpenApplication(p, r) \/ OpenRefused(p, r)
      PROVE  ReplayInv'
  <2>1. PICK c \in Slot(session[p], r.epoch) :
          session' = [session EXCEPT ![p] = PutSlot(session[p], Consume(c, r))]
    BY <1>5 DEF OpenApplication, OpenRefused
  <2>2. opened' = [opened EXCEPT ![p] = @ \cup {r}] /\ r \in Record
    BY <1>5 DEF OpenApplication, OpenRefused, TypeOK
  <2> DEFINE t == PutSlot(session[p], Consume(c, r))
  <2>3. LocalInv(t) /\ Used(t, r) /\ \A o \in Record : Used(session[p], o) => Used(t, o)
    BY <1>0, <2>2, OpenKeeps
  <2> HIDE DEF t
  <2>4. \A o \in opened'[p] : Used(t, o)
    BY <1>0, <2>2, <2>3 DEF TypeOK
  <2>5. \A q \in Parties : q # p => opened'[q] = opened[q]
    BY <2>2 DEF TypeOK
  <2>6. QED
    BY <2>1, <2>3, <2>4, <2>5, ReplayStep DEF t
<1>6. ASSUME NEW p \in Parties, NEW r \in records, OpenStep1(p, r)
      PROVE  ReplayInv'
  <2> DEFINE After(c) == PutSlot(session[p], Consume(c, r))
             Next1(c) == AdvanceEpoch(SealPayload(After(c)), r.epoch,
                                      <<r.payload.id, fresh'>>, FALSE)
  <2>1. PICK c \in Slot(session[p], r.epoch) :
          /\ MayRespond(After(c), r.epoch)
          /\ session' = [session EXCEPT ![p] = Next1(c)]
    BY <1>6 DEF OpenStep1
  <2>2. opened' = [opened EXCEPT ![p] = @ \cup {r}] /\ r \in Record
    BY <1>6 DEF OpenStep1, TypeOK
  <2> DEFINE s == After(c)
             u == SealPayload(s)
  <2>3. /\ s \in Session /\ LocalInv(s) /\ Used(s, r)
        /\ \A o \in Record : Used(session[p], o) => Used(s, o)
    BY <1>0, <2>2, OpenKeeps
  <2>4. s.pending = {} /\ r.epoch = s.send_epoch
    BY <2>1 DEF MayRespond
  <2> HIDE DEF s
  <2>5. /\ u \in Session /\ u.send_epoch = s.send_epoch /\ u.recv_current = s.recv_current
        /\ u.recv_previous = s.recv_previous /\ u.pending = {}
    BY <2>3, <2>4, SealPayloadType DEF SealPayload, Session
  <2> HIDE DEF u
  <2>6. LocalInv(u) /\ \A o : Used(s, o) => Used(u, o)
    BY <2>3, <2>5, FrameKeeps
  <2>7. u = [u EXCEPT !.pending = {}]
    BY <2>5 DEF Session
  <2>8. /\ LocalInv(Next1(c))
        /\ \A o \in Record : Used(u, o) => Used(Next1(c), o)
    BY <2>4, <2>5, <2>6, <2>7, AdvanceKeeps DEF s, u
  <2> HIDE DEF Next1
  <2>9. \A o \in opened'[p] : Used(Next1(c), o)
    BY <1>0, <2>2, <2>3, <2>6, <2>8 DEF TypeOK
  <2>10. \A q \in Parties : q # p => opened'[q] = opened[q]
    BY <2>2 DEF TypeOK
  <2>11. QED
    BY <2>1, <2>8, <2>9, <2>10, ReplayStep
<1>7. ASSUME NEW p \in Parties, NEW r \in records, OpenStep2(p, r)
      PROVE  ReplayInv'
  <2> DEFINE After(c) == PutSlot(session[p], Consume(c, r))
             Next2(c, kex) == AdvanceEpoch([After(c) EXCEPT !.pending = {}], r.epoch,
                                           <<kex, r.payload.id>>, TRUE)
  <2>1. PICK c \in Slot(session[p], r.epoch), kex \in session[p].pending :
          /\ MayFinish(After(c), r.epoch)
          /\ session' = [session EXCEPT ![p] = Next2(c, kex)]
    BY <1>7 DEF OpenStep2
  <2>2. opened' = [opened EXCEPT ![p] = @ \cup {r}] /\ r \in Record
    BY <1>7 DEF OpenStep2, TypeOK
  <2> DEFINE s == After(c)
  <2>3. /\ s \in Session /\ LocalInv(s) /\ Used(s, r)
        /\ \A o \in Record : Used(session[p], o) => Used(s, o)
    BY <1>0, <2>2, OpenKeeps
  <2>4. r.epoch = s.send_epoch
    BY <2>1, <2>3 DEF MayFinish, LocalInv
  <2> HIDE DEF s
  <2>5. /\ LocalInv(Next2(c, kex))
        /\ \A o \in Record : Used(s, o) => Used(Next2(c, kex), o)
    BY <2>3, <2>4, AdvanceKeeps DEF s
  <2> HIDE DEF Next2
  <2>6. \A o \in opened'[p] : Used(Next2(c, kex), o)
    BY <1>0, <2>2, <2>3, <2>5 DEF TypeOK
  <2>7. \A q \in Parties : q # p => opened'[q] = opened[q]
    BY <2>2 DEF TypeOK
  <2>8. QED
    BY <2>1, <2>5, <2>6, <2>7, ReplayStep
<1>8. ASSUME NEW p \in Parties, NEW r \in records, OpenBurns(p, r)
      PROVE  ReplayInv'
  <2>1. PICK c \in Slot(session[p], r.epoch) :
          session' = [session EXCEPT ![p] = PutSlot(session[p], DropKey(c, r.seq))]
    BY <1>8 DEF OpenBurns
  <2>2. opened' = opened /\ r.epoch \in Nat
    BY <1>8 DEF OpenBurns, TypeOK, Record
  <2>3. c \in ReceiveChain /\ c \in RecvChains(session[p])
    BY <1>0, SlotType
  <2>4. \A k \in c.skipped : k.seq < c.expected_seq
    BY <1>0, <2>3 DEF LocalInv
  <2> DEFINE t == PutSlot(session[p], DropKey(c, r.seq))
  <2>5. LocalInv(t) /\ \A o \in Record : Used(session[p], o) => Used(t, o)
    BY <1>0, <2>2, <2>3, <2>4, DropKeyType, DropKeyGrows, PutSlotKeeps
  <2> HIDE DEF t
  <2>6. \A o \in opened'[p] : Used(t, o)
    BY <1>0, <2>2, <2>5
  <2>7. QED
    BY <2>1, <2>2, <2>5, <2>6, ReplayStep DEF t
<1>9. ASSUME NEW p \in Parties, NEW c \in chunks, OpenChunkPartial(p, c)
      PROVE  ReplayInv'
  <2> DEFINE s == session[p]
             t1 == [s EXCEPT !.step1_chunks = {FileChunk(@, c)}]
             t2 == [s EXCEPT !.step2_chunks = {FileChunk(@, c)}]
  <2>1. /\ \/ session' = [session EXCEPT ![p] = t1]
           \/ session' = [session EXCEPT ![p] = t2]
        /\ opened' = opened
    BY <1>9 DEF OpenChunkPartial
  <2>2. /\ t1.send_epoch = s.send_epoch /\ t1.recv_current = s.recv_current
        /\ t1.recv_previous = s.recv_previous /\ t1.pending = s.pending
        /\ t1.pending_epoch = s.pending_epoch
        /\ t2.send_epoch = s.send_epoch /\ t2.recv_current = s.recv_current
        /\ t2.recv_previous = s.recv_previous /\ t2.pending = s.pending
        /\ t2.pending_epoch = s.pending_epoch
    BY <1>0 DEF Session
  <2> HIDE DEF t1, t2
  <2>3. /\ LocalInv(t1) /\ \A r \in opened'[p] : Used(t1, r)
        /\ LocalInv(t2) /\ \A r \in opened'[p] : Used(t2, r)
    BY <1>0, <2>1, <2>2, FrameKeeps
  <2>4. QED
    BY <2>1, <2>3, ReplayStep
<1>10. ASSUME NEW p \in Parties, NEW c \in chunks, OpenChunkStep1(p, c)
       PROVE  ReplayInv'
  <2> DEFINE s == session[p]
             u == [s EXCEPT !.step1_chunks = {}, !.last_step1 = {c.nonce}]
             t == AdvanceEpoch(u, s.send_epoch, <<c.payload, fresh'>>, FALSE)
  <2>1. session' = [session EXCEPT ![p] = t] /\ opened' = opened /\ s.pending = {}
    BY <1>10 DEF OpenChunkStep1, AcceptsStep1Chunk
  <2>2. c.nonce \in Nat
    BY DEF TypeOK, Chunk
  <2>2a. s \in Session /\ s.pending = {}
    BY <1>0, <2>1
  <2>3. /\ u \in Session /\ u.send_epoch = s.send_epoch /\ u.recv_current = s.recv_current
        /\ u.recv_previous = s.recv_previous /\ u.pending = {}
    BY <2>2a, <2>2, SessionFields DEF Session
  <2> HIDE DEF u
  <2>4. LocalInv(u) /\ \A o : Used(s, o) => Used(u, o)
    BY <1>0, <2>3, FrameKeeps
  <2>5. u = [u EXCEPT !.pending = {}]
    BY <2>3 DEF Session
  <2>6. LocalInv(t) /\ \A o \in Record : Used(u, o) => Used(t, o)
    BY <2>3, <2>4, <2>5, AdvanceKeeps
  <2> HIDE DEF t
  <2>7. \A o \in opened'[p] : Used(t, o)
    BY <1>0, <2>1, <2>4, <2>6
  <2>8. QED
    BY <2>1, <2>6, <2>7, ReplayStep
<1>11. ASSUME NEW p \in Parties, NEW c \in chunks, OpenChunkStep2(p, c)
       PROVE  ReplayInv'
  <2> DEFINE s == session[p]
             u == [s EXCEPT !.step2_chunks = {}, !.last_step2 = {c.nonce}, !.pending = {}]
             t(kex) == AdvanceEpoch(u, s.send_epoch, <<kex, c.payload>>, TRUE)
  <2>1. PICK kex \in s.pending : session' = [session EXCEPT ![p] = t(kex)]
    BY <1>11 DEF OpenChunkStep2
  <2>2. opened' = opened /\ c.nonce \in Nat
    BY <1>11 DEF OpenChunkStep2, TypeOK, Chunk
  <2>3. /\ u \in Session /\ u.send_epoch = s.send_epoch /\ u.recv_current = s.recv_current
        /\ u.recv_previous = s.recv_previous /\ u.pending = {}
    BY <1>0, <2>2, SessionFields DEF Session
  <2> HIDE DEF u
  <2>4. LocalInv(u) /\ \A o : Used(s, o) => Used(u, o)
    BY <1>0, <2>3, FrameKeeps
  <2>5. u = [u EXCEPT !.pending = {}]
    BY <2>3 DEF Session
  <2>6. LocalInv(t(kex)) /\ \A o \in Record : Used(u, o) => Used(t(kex), o)
    BY <2>3, <2>4, <2>5, AdvanceKeeps
  <2> HIDE DEF t
  <2>7. \A o \in opened'[p] : Used(t(kex), o)
    BY <1>0, <2>2, <2>4, <2>6
  <2>8. QED
    BY <2>1, <2>2, <2>6, <2>7, ReplayStep
<1>12. QED
  BY <1>1, <1>2, <1>3, <1>4, <1>5, <1>6, <1>7, <1>8, <1>9, <1>10, <1>11
  DEF Next, Initiate, OpenControl, OpenChunk

LEMMA ReplayInvImplies == TypeOK /\ ReplayInv => NoReplay
<1> SUFFICES ASSUME TypeOK, ReplayInv, NEW p \in Parties, NEW r \in opened[p],
                    NEW c \in Slot(session[p], r.epoch), Opens(c, r)
             PROVE  FALSE
  BY DEF NoReplay, CanOpen
<1>1. session[p] \in Session /\ r \in Record
  BY DEF TypeOK
<1>2. c \in ReceiveChain /\ c.epoch = r.epoch /\ c \in RecvChains(session[p])
  BY <1>1, SlotType
<1>3. r.seq < c.expected_seq /\ \A k \in c.skipped : k.seq # r.seq
  BY <1>2 DEF ReplayInv, Used
<1>4. r.seq \in Nat /\ c.expected_seq \in Nat
  BY <1>1, <1>2 DEF Record, ReceiveChain
<1>5. QED
  BY <1>3, <1>4 DEF Opens

(***************************************************************************)
(* A record a session has opened is never openable by it again (open's     *)
(* Replay and UnknownEpoch errors), whatever the peer and the network do.  *)
(***************************************************************************)
THEOREM NoRecordOpensTwice == Spec => []NoReplay
<1>1. Spec => []ReplayInv
  BY TypeCorrect, ReplayInit, ReplayNext, PTL DEF Spec
<1>2. QED
  BY <1>1, TypeCorrect, ReplayInvImplies, PTL


-----------------------------------------------------------------------------
(***************************************************************************)
(* The inductive invariant.  A session's chains carry their own epoch and  *)
(* number; two sessions are in the same epoch, or one is a step behind and *)
(* waits for the reply that the other has sent.                            *)
(***************************************************************************)
Keyed(c) ==
  /\ c.chain.pos = c.expected_seq
  /\ Len(c.chain.root) = c.epoch
  /\ \A k \in c.skipped :
       k.key.root = c.chain.root /\ k.key.dir = c.chain.dir /\ k.key.pos = k.seq

SessionInv(s) ==
  /\ Len(s.root_key) = s.send_epoch
  /\ s.send_chain.root = s.root_key /\ s.send_chain.pos = s.send_seq
  /\ s.recv_current.chain.root = s.root_key
  /\ s.recv_current.chain.dir # s.send_chain.dir
  /\ \A c \in RecvChains(s) : Keyed(c)

\* s is a step behind t, which has replied to it.
Behind(s, t) ==
  /\ \E kex, id \in Nat : s.pending = {kex} /\ t.root_key = Append(s.root_key, <<kex, id>>)
  /\ t.send_chain.dir = "r2i"
  /\ t.recv_current.expected_seq = 0
  /\ \E c \in ReceiveChain :
       /\ t.recv_previous = {c} /\ c.epoch = s.send_epoch
       /\ c.chain.root = s.root_key /\ c.chain.dir = s.send_chain.dir

PairInv(s, t) ==
  /\ s.send_epoch = t.send_epoch =>
       s.root_key = t.root_key /\ s.send_chain.dir = t.recv_current.chain.dir
  /\ s.send_epoch < t.send_epoch => Behind(s, t)
  /\ \A c \in Slot(t, s.send_epoch) : c.expected_seq <= s.send_seq

\* r was sealed by s for t.
RecordInv(r, s, t) ==
  /\ r.key.pos = r.seq /\ Len(r.key.root) = r.epoch
  /\ r.epoch <= s.send_epoch
  /\ r.epoch = s.send_epoch =>
       r.seq < s.send_seq /\ r.key.root = s.root_key /\ r.key.dir = s.send_chain.dir
  /\ \A c \in Slot(t, r.epoch) : r.key.root = c.chain.root /\ r.key.dir = c.chain.dir
  /\ \A c \in Slot(s, r.epoch) : r.key.dir # c.chain.dir

SealedInv(mine, s, t) ==
  /\ \A r \in mine : RecordInv(r, s, t)
  /\ \A r, o \in mine : r.epoch = o.epoch /\ r.seq = o.seq => r = o

Joint(s, t, mine, theirs) ==
  /\ LocalInv(s) /\ SessionInv(s) /\ PairInv(s, t) /\ SealedInv(mine, s, t)
  /\ LocalInv(t) /\ SessionInv(t) /\ PairInv(t, s) /\ SealedInv(theirs, t, s)

\* What control records and chunks say of the step they belong to.
StepInv(s, step, epoch, id) ==
  /\ epoch <= s.send_epoch
  /\ step = 1 /\ epoch = s.send_epoch => s.pending = {id}
  /\ step = 2 => epoch # s.send_epoch
  /\ step = 2 /\ epoch + 1 = s.send_epoch => s.root_key[s.send_epoch][2] = id

Said(s, mine, my_chunks) ==
  /\ \A r \in mine :
       /\ r.payload.kind = "step1" => StepInv(s, 1, r.epoch, r.payload.id)
       /\ r.payload.kind = "step2" => StepInv(s, 2, r.epoch, r.payload.id)
  /\ \A c \in my_chunks : StepInv(s, c.step, Len(c.key.root), c.payload)

SentBy(p) == {r \in records : r.from = p}
ChunksBy(p) == {c \in chunks : c.from = p}

PeerInv ==
  \A p \in Parties :
    /\ Joint(session[p], session[Peer(p)], SentBy(p), SentBy(Peer(p)))
    /\ Said(session[p], SentBy(p), ChunksBy(p))

\* The keys of the gaps.
Cached(s, theirs, Op, Bu) ==
  \A r \in theirs \ Op : <<r.epoch, r.seq>> \notin Bu =>
    \A c \in Slot(s, r.epoch) :
      r.seq < c.expected_seq => [seq |-> r.seq, key |-> r.key] \in c.skipped

Bounded(s) ==
  \A c \in RecvChains(s) : IsFiniteSet(c.skipped) /\ Cardinality(c.skipped) <= MaxSkippedKeys

CacheInv ==
  \A p \in Parties :
    /\ Bounded(session[p])
    /\ Cached(session[p], SentBy(Peer(p)), opened[p], burned[p])

\* What callers were handed.
HandedInv ==
  \A p \in Parties :
    /\ opened[p] \subseteq SentBy(Peer(p))
    /\ \A r \in SentBy(p) : r.payload.kind = "app" => r.payload.id \in 1 .. app_sealed[p]
    /\ \A r, o \in SentBy(p) :
         r.payload.kind = "app" /\ o.payload = r.payload => o = r
    /\ \A i \in 1 .. Len(delivered[p]) : \E r \in opened[p] :
         r.payload.kind = "app" /\ delivered[p][i] = <<r.from, r.payload.id>>

-----------------------------------------------------------------------------
(***************************************************************************)
(* What an operation on one session leaves of Joint.                       *)
(***************************************************************************)
LEMMA JointSymmetric ==
  ASSUME NEW s, NEW t, NEW mine, NEW theirs, Joint(s, t, mine, theirs)
  PROVE  Joint(t, s, theirs, mine)
BY DEF Joint

LEMMA SessionFacts ==
  ASSUME NEW s \in Session
  PROVE  /\ s.root_key \in Root /\ s.send_epoch \in Nat /\ s.send_seq \in Nat
         /\ s.send_chain \in Chain /\ s.recv_current \in ReceiveChain
         /\ s.recv_previous \subseteq ReceiveChain /\ s.pending \subseteq Nat
         /\ s.pending_epoch \in Nat
BY DEF Session

LEMMA ChainFacts ==
  ASSUME NEW c \in ReceiveChain
  PROVE  /\ c.epoch \in Nat /\ c.expected_seq \in Nat /\ c.chain \in Chain
         /\ c.chain.root \in Root /\ c.chain.dir \in {"i2r", "r2i"} /\ c.chain.pos \in Nat
         /\ \A k \in c.skipped : k.seq \in Nat /\ k.key \in Chain
BY DEF ReceiveChain, Chain

LEMMA RecordFacts ==
  ASSUME NEW r \in Record
  PROVE  /\ r.epoch \in Nat /\ r.seq \in Nat /\ r.key \in Chain /\ r.key.root \in Root
         /\ r.key.dir \in {"i2r", "r2i"} /\ r.key.pos \in Nat /\ r.from \in Parties
         /\ r.payload \in Payload /\ r.payload.id \in Nat
BY DEF Record, Chain, Payload

\* Fields that Joint does not read, and a step that begins, change nothing.
LEMMA FrameJoint ==
  ASSUME NEW s \in Session, NEW t \in Session, NEW mine, NEW theirs, NEW u \in Session,
         Joint(s, t, mine, theirs),
         u.root_key = s.root_key, u.send_epoch = s.send_epoch,
         u.send_chain = s.send_chain, u.send_seq = s.send_seq,
         u.recv_current = s.recv_current, u.recv_previous = s.recv_previous,
         u.pending = s.pending \/ s.pending = {},
         u.pending # {} => u.pending_epoch = u.send_epoch
  PROVE  Joint(u, t, mine, theirs)
<1>1. LocalInv(u)
  BY DEF Joint, LocalInv, RecvChains
<1>2. SessionInv(u)
  BY DEF Joint, SessionInv, RecvChains
<1>3. PairInv(u, t)
  <2>1. s.send_epoch < t.send_epoch => s.pending # {} /\ Behind(s, t)
    BY DEF Joint, PairInv, Behind
  <2>2. s.pending # {} /\ Behind(s, t) => Behind(u, t)
    BY DEF Behind
  <2>3. QED
    BY <2>1, <2>2 DEF Joint, PairInv
<1>4. PairInv(t, u)
  <2>1. Behind(t, s) => Behind(t, u)
    BY DEF Behind
  <2>2. QED
    BY <2>1 DEF Joint, PairInv, Slot
<1>5. SealedInv(mine, u, t) /\ SealedInv(theirs, t, u)
  BY DEF Joint, SealedInv, RecordInv, Slot
<1>6. QED
  BY <1>1, <1>2, <1>3, <1>4, <1>5 DEF Joint

\* seal_payload: the new record carries the number and key the peer awaits.
LEMMA SealJoint ==
  ASSUME NEW s \in Session, NEW t \in Session, NEW mine \in SUBSET Record, NEW theirs,
         NEW p, NEW payload, Joint(s, t, mine, theirs)
  PROVE  Joint(SealPayload(s), t, mine \cup {SealedRecord(p, s, payload)}, theirs)
<1> DEFINE u == SealPayload(s)
           new == SealedRecord(p, s, payload)
<1>1. /\ u.root_key = s.root_key /\ u.send_epoch = s.send_epoch
      /\ u.recv_current = s.recv_current /\ u.recv_previous = s.recv_previous
      /\ u.pending = s.pending /\ u.pending_epoch = s.pending_epoch
      /\ u.send_seq = s.send_seq + 1
      /\ u.send_chain.root = s.send_chain.root /\ u.send_chain.dir = s.send_chain.dir
      /\ u.send_chain.pos = s.send_chain.pos + 1
  BY DEF SealPayload, Advance, Session, Chain
<1>2. /\ new.epoch = s.send_epoch /\ new.seq = s.send_seq /\ new.key = s.send_chain
  BY DEF SealedRecord
<1> HIDE DEF u, new
<1>3. LocalInv(u)
  BY <1>1 DEF Joint, LocalInv, RecvChains
<1>4. SessionInv(u)
  BY <1>1 DEF Joint, SessionInv, RecvChains
<1>5. PairInv(u, t)
  <2>1. Behind(s, t) => Behind(u, t)
    BY <1>1 DEF Behind
  <2>2. \A c \in Slot(t, s.send_epoch) : c.expected_seq <= s.send_seq + 1
    <3> SUFFICES ASSUME NEW c \in Slot(t, s.send_epoch)
                 PROVE  c.expected_seq <= s.send_seq + 1
      OBVIOUS
    <3>1. c.expected_seq <= s.send_seq
      BY DEF Joint, PairInv
    <3>2. c.expected_seq \in Nat /\ s.send_seq \in Nat
      BY SlotType, ChainFacts, SessionFacts
    <3>3. QED
      BY <3>1, <3>2
  <2>3. QED
    BY <1>1, <2>1, <2>2 DEF Joint, PairInv
<1>6. PairInv(t, u)
  <2>1. Behind(t, s) => Behind(t, u)
    BY <1>1 DEF Behind
  <2>2. QED
    BY <1>1, <2>1 DEF Joint, PairInv, Slot
<1>7. RecordInv(new, u, t)
  <2>1. \A c \in Slot(t, s.send_epoch) :
          c.chain.root = s.root_key /\ c.chain.dir = s.send_chain.dir
    <3> SUFFICES ASSUME NEW c \in Slot(t, s.send_epoch)
                 PROVE  c.chain.root = s.root_key /\ c.chain.dir = s.send_chain.dir
      OBVIOUS
    <3>1. c \in RecvChains(t) /\ c.epoch = s.send_epoch
      BY SlotType
    <3>2. s.send_epoch \in Nat /\ t.send_epoch \in Nat
      BY SessionFacts
    <3>3. CASE t.send_epoch = s.send_epoch
      <4>1. c = t.recv_current
        BY <3>1, <3>2, <3>3 DEF Slot, Joint, LocalInv, RecvChains
      <4>2. QED
        BY <3>3, <4>1 DEF Joint, SessionInv, PairInv
    <3>4. CASE s.send_epoch < t.send_epoch
      <4>1. Behind(s, t) /\ c \in t.recv_previous
        BY <3>1, <3>2, <3>4 DEF Joint, PairInv, LocalInv, RecvChains
      <4>2. QED
        BY <4>1 DEF Behind
    <3>5. CASE t.send_epoch < s.send_epoch
      BY <3>1, <3>2, <3>5 DEF Joint, LocalInv, RecvChains
    <3>6. QED
      BY <3>2, <3>3, <3>4, <3>5
  <2>2. \A c \in Slot(u, s.send_epoch) : c.chain.dir # s.send_chain.dir
    BY <1>1 DEF Slot, Joint, LocalInv, SessionInv
  <2>3. s.send_seq \in Nat /\ s.send_epoch \in Nat
    BY SessionFacts
  <2>4. QED
    BY <1>1, <1>2, <2>1, <2>2, <2>3 DEF RecordInv, Joint, SessionInv
<1>8. ASSUME NEW r \in mine
      PROVE  RecordInv(r, u, t) /\ (r.epoch = new.epoch => r.seq # new.seq)
  <2>1. RecordInv(r, s, t) /\ r.seq \in Nat /\ s.send_seq \in Nat
    BY RecordFacts, SessionFacts DEF Joint, SealedInv
  <2>2. QED
    BY <1>1, <1>2, <2>1 DEF RecordInv, Slot
<1>9. SealedInv(mine \cup {new}, u, t)
  BY <1>7, <1>8 DEF SealedInv, Joint
<1>10. SealedInv(theirs, t, u)
  BY <1>1 DEF Joint, SealedInv, RecordInv, Slot
<1>11. QED
  BY <1>3, <1>4, <1>5, <1>6, <1>9, <1>10 DEF Joint, u, new

\* What open_on leaves of a chain: it is still the same chain.
SameChain(c, d) ==
  /\ ChainGrows(c, d) /\ Keyed(d)
  /\ d.chain.root = c.chain.root /\ d.chain.dir = c.chain.dir

LEMMA ConsumeSame ==
  ASSUME NEW c \in ReceiveChain, NEW r \in Record, Keyed(c),
         \A k \in c.skipped : k.seq < c.expected_seq
  PROVE  /\ SameChain(c, Consume(c, r))
         /\ Consume(c, r).expected_seq =
              IF r.seq < c.expected_seq THEN c.expected_seq ELSE r.seq + 1
<1> DEFINE d == Consume(c, r)
<1>1. ChainGrows(c, d)
  BY ConsumeGrows
<1>2. c.expected_seq \in Nat /\ r.seq \in Nat /\ c.chain \in Chain /\ c.chain.pos = c.expected_seq
  BY ChainFacts, RecordFacts DEF Keyed
<1>3. CASE r.seq < c.expected_seq
  <2>1. d = [c EXCEPT !.skipped = {k \in @ : k.seq # r.seq}]
    BY <1>3 DEF Consume, DropKey
  <2>2. /\ d.epoch = c.epoch /\ d.chain = c.chain /\ d.expected_seq = c.expected_seq
        /\ d.skipped \subseteq c.skipped
    BY <2>1 DEF ReceiveChain
  <2> HIDE DEF d
  <2>3. Keyed(d)
    BY <2>2 DEF Keyed
  <2>4. QED
    BY <1>1, <1>3, <2>2, <2>3 DEF SameChain, d
<1>4. CASE ~(r.seq < c.expected_seq)
  <2>1. /\ d.epoch = c.epoch /\ d.chain = Advance(c.chain, r.seq + 1 - c.expected_seq)
        /\ d.expected_seq = r.seq + 1 /\ d.skipped = c.skipped \cup SkippedKeys(c, r.seq)
    BY <1>4 DEF Consume, ReceiveChain
  <2> HIDE DEF d
  <2>2. /\ d.chain.root = c.chain.root /\ d.chain.dir = c.chain.dir
        /\ d.chain.pos = r.seq + 1
    BY <1>2, <1>4, <2>1 DEF Advance, Chain
  <2>3. \A k \in SkippedKeys(c, r.seq) :
          k.key.root = c.chain.root /\ k.key.dir = c.chain.dir /\ k.key.pos = k.seq
    BY <1>2, <1>4 DEF SkippedKeys, Advance, Chain
  <2>4. Keyed(d)
    BY <2>1, <2>2, <2>3 DEF Keyed
  <2>5. QED
    BY <1>1, <1>4, <2>1, <2>2, <2>4 DEF SameChain, d
<1>5. QED
  BY <1>3, <1>4

LEMMA DropKeySame ==
  ASSUME NEW c \in ReceiveChain, NEW seq, Keyed(c), \A k \in c.skipped : k.seq < c.expected_seq
  PROVE  SameChain(c, DropKey(c, seq)) /\ DropKey(c, seq).expected_seq = c.expected_seq
<1> DEFINE d == DropKey(c, seq)
<1>1. /\ d.epoch = c.epoch /\ d.chain = c.chain /\ d.expected_seq = c.expected_seq
      /\ d.skipped \subseteq c.skipped
  BY DEF DropKey, ReceiveChain
<1>2. ChainGrows(c, d)
  BY DropKeyGrows
<1> HIDE DEF d
<1>3. Keyed(d)
  BY <1>1 DEF Keyed
<1>4. QED
  BY <1>1, <1>2, <1>3 DEF SameChain, d

\* The slot a chain went back to, and the others.
LEMMA PutSlotFacts ==
  ASSUME NEW s \in Session, LocalInv(s), NEW epoch \in Nat, NEW c \in Slot(s, epoch),
         NEW d \in ReceiveChain, d.epoch = epoch
  PROVE  LET u == PutSlot(s, d)
         IN /\ u.root_key = s.root_key /\ u.send_epoch = s.send_epoch
            /\ u.send_chain = s.send_chain /\ u.send_seq = s.send_seq
            /\ u.pending = s.pending /\ u.pending_epoch = s.pending_epoch
            /\ \/ /\ c = s.recv_current /\ u.recv_current = d
                  /\ u.recv_previous = s.recv_previous /\ epoch = s.send_epoch
               \/ /\ c \in s.recv_previous /\ u.recv_previous = {d}
                  /\ u.recv_current = s.recv_current /\ epoch < s.send_epoch
            /\ \A e \in RecvChains(u) : e = d \/ (e \in RecvChains(s) /\ e.epoch # epoch)
            /\ \A e : Slot(u, e) \subseteq IF e = epoch THEN {d} ELSE Slot(s, e)
<1>1. c \in ReceiveChain /\ c.epoch = epoch /\ c \in RecvChains(s)
  BY SlotType
<1>2. CASE s.recv_current.epoch = epoch
  <2>1. c = s.recv_current /\ epoch = s.send_epoch
    BY <1>2 DEF Slot, LocalInv
  <2>2. PutSlot(s, d) = [s EXCEPT !.recv_current = d]
    BY <1>2 DEF PutSlot
  <2>3. \A e \in s.recv_previous : e.epoch # epoch
    BY <1>1, <2>1, SessionFacts, ChainFacts DEF LocalInv
  <2>4. QED
    BY <1>1, <2>1, <2>2, <2>3 DEF Session, RecvChains, Slot
<1>3. CASE s.recv_current.epoch # epoch
  <2>1. c \in s.recv_previous /\ epoch < s.send_epoch
    BY <1>1, <1>3 DEF Slot, LocalInv
  <2>2. PutSlot(s, d) = [s EXCEPT !.recv_previous = {d}]
    BY <1>3 DEF PutSlot
  <2>3. QED
    BY <1>1, <1>3, <2>1, <2>2 DEF Session, RecvChains, Slot
<1>4. QED
  BY <1>2, <1>3

\* open_on on one chain, within what the peer has sealed.
LEMMA PutSlotJoint ==
  ASSUME NEW s \in Session, NEW t \in Session, NEW mine, NEW theirs, Joint(s, t, mine, theirs),
         NEW epoch \in Nat, NEW c \in Slot(s, epoch), NEW d \in ReceiveChain, SameChain(c, d),
         epoch = t.send_epoch => d.expected_seq <= t.send_seq,
         epoch > t.send_epoch => d.expected_seq = 0
  PROVE  Joint(PutSlot(s, d), t, mine, theirs)
<1> DEFINE u == PutSlot(s, d)
<1>1. c \in ReceiveChain /\ c.epoch = epoch /\ c \in RecvChains(s) /\ d.epoch = epoch
  BY SlotType DEF SameChain, ChainGrows
<1>2. /\ u.root_key = s.root_key /\ u.send_epoch = s.send_epoch
      /\ u.send_chain = s.send_chain /\ u.send_seq = s.send_seq
      /\ u.pending = s.pending /\ u.pending_epoch = s.pending_epoch
      /\ \/ /\ c = s.recv_current /\ u.recv_current = d
            /\ u.recv_previous = s.recv_previous /\ epoch = s.send_epoch
         \/ /\ c \in s.recv_previous /\ u.recv_previous = {d}
            /\ u.recv_current = s.recv_current /\ epoch < s.send_epoch
      /\ \A e \in RecvChains(u) : e = d \/ (e \in RecvChains(s) /\ e.epoch # epoch)
      /\ \A e : Slot(u, e) \subseteq IF e = epoch THEN {d} ELSE Slot(s, e)
  BY <1>1, PutSlotFacts DEF Joint
<1>3. LocalInv(u)
  BY PutSlotKeeps DEF Joint, SameChain
<1> HIDE DEF u
<1>4. d.chain.root = c.chain.root /\ d.chain.dir = c.chain.dir /\ Keyed(d)
  BY DEF SameChain
<1>5. SessionInv(u)
  BY <1>2, <1>4 DEF Joint, SessionInv
<1>6. PairInv(u, t)
  <2>1. Behind(s, t) => Behind(u, t)
    BY <1>2 DEF Behind
  <2>2. QED
    BY <1>2, <2>1 DEF Joint, PairInv
<1>7. PairInv(t, u)
  <2>1. t.send_epoch < s.send_epoch => Behind(t, u)
    <3> SUFFICES ASSUME t.send_epoch < s.send_epoch PROVE Behind(t, u)
      OBVIOUS
    <3>1. Behind(t, s)
      BY DEF Joint, PairInv
    <3>2. u.recv_current.expected_seq = 0
      BY <1>2, <3>1 DEF Behind
    <3>3. \E e \in ReceiveChain :
            /\ u.recv_previous = {e} /\ e.epoch = t.send_epoch
            /\ e.chain.root = t.root_key /\ e.chain.dir = t.send_chain.dir
      BY <1>1, <1>2, <1>4, <3>1 DEF Behind
    <3>4. QED
      BY <1>2, <3>1, <3>2, <3>3 DEF Behind
  <2>2. \A e \in Slot(u, t.send_epoch) : e.expected_seq <= t.send_seq
    BY <1>2 DEF Joint, PairInv
  <2>3. u.recv_current.chain.dir = s.recv_current.chain.dir
    BY <1>2, <1>4
  <2>4. QED
    BY <1>2, <2>1, <2>2, <2>3 DEF Joint, PairInv
<1>8. \A e : \A x \in Slot(u, e) : \E y \in Slot(s, e) :
        x.chain.root = y.chain.root /\ x.chain.dir = y.chain.dir
  BY <1>2, <1>4
<1>9. SealedInv(mine, u, t)
  BY <1>2, <1>8 DEF Joint, SealedInv, RecordInv
<1>10. SealedInv(theirs, t, u)
  BY <1>8 DEF Joint, SealedInv, RecordInv
<1>11. QED
  BY <1>3, <1>5, <1>6, <1>7, <1>9, <1>10 DEF Joint, u

\* A session opens only what its peer sealed for it.
LEMMA OwnNeverOpens ==
  ASSUME NEW s \in Session, NEW t \in Session, NEW mine \in SUBSET Record, NEW theirs,
         Joint(s, t, mine, theirs), NEW r \in mine, NEW c \in Slot(s, r.epoch)
  PROVE  ~Opens(c, r)
<1>1. r \in Record /\ r.key.dir # c.chain.dir
  BY DEF Joint, SealedInv, RecordInv
<1>2. c \in ReceiveChain /\ c \in RecvChains(s) /\ Keyed(c)
  BY SlotType DEF Joint, SessionInv
<1>3. [seq |-> r.seq, key |-> r.key] \notin c.skipped
  BY <1>1, <1>2 DEF Keyed
<1>4. \A n : Advance(c.chain, n).dir = c.chain.dir
  BY <1>2, ChainFacts DEF Advance, Chain
<1>5. QED
  BY <1>1, <1>3, <1>4 DEF Opens

LEMMA OpenJoint ==
  ASSUME NEW s \in Session, NEW t \in Session, NEW mine, NEW theirs \in SUBSET Record,
         Joint(s, t, mine, theirs), NEW r \in theirs, NEW c \in Slot(s, r.epoch)
  PROVE  Joint(PutSlot(s, Consume(c, r)), t, mine, theirs)
<1>1. r \in Record /\ r.epoch \in Nat /\ r.seq \in Nat /\ t.send_seq \in Nat /\ t.send_epoch \in Nat
  BY RecordFacts, SessionFacts
<1>2. c \in ReceiveChain /\ c \in RecvChains(s) /\ c.epoch = r.epoch
  BY SlotType
<1>3. Keyed(c) /\ \A k \in c.skipped : k.seq < c.expected_seq
  BY <1>2 DEF Joint, SessionInv, LocalInv
<1> DEFINE d == Consume(c, r)
<1>4. /\ d \in ReceiveChain /\ SameChain(c, d)
      /\ d.expected_seq = IF r.seq < c.expected_seq THEN c.expected_seq ELSE r.seq + 1
  BY <1>1, <1>2, <1>3, ConsumeType, ConsumeSame
<1> HIDE DEF d
<1>5. r.epoch <= t.send_epoch /\ (r.epoch = t.send_epoch => r.seq < t.send_seq)
  BY DEF Joint, SealedInv, RecordInv
<1>6. r.epoch = t.send_epoch => c.expected_seq <= t.send_seq
  BY DEF Joint, PairInv
<1>7. r.epoch = t.send_epoch => d.expected_seq <= t.send_seq
  BY <1>1, <1>4, <1>5, <1>6
<1>8. ~(r.epoch > t.send_epoch)
  BY <1>1, <1>5
<1>9. QED
  BY <1>1, <1>4, <1>7, <1>8, PutSlotJoint DEF d

LEMMA BurnJoint ==
  ASSUME NEW s \in Session, NEW t \in Session, NEW mine, NEW theirs, Joint(s, t, mine, theirs),
         NEW epoch \in Nat, NEW c \in Slot(s, epoch), NEW seq
  PROVE  Joint(PutSlot(s, DropKey(c, seq)), t, mine, theirs)
<1>1. c \in ReceiveChain /\ c \in RecvChains(s) /\ c.epoch = epoch
  BY SlotType
<1>2. Keyed(c) /\ \A k \in c.skipped : k.seq < c.expected_seq
  BY <1>1 DEF Joint, SessionInv, LocalInv
<1> DEFINE d == DropKey(c, seq)
<1>3. d \in ReceiveChain /\ SameChain(c, d) /\ d.expected_seq = c.expected_seq
  BY <1>1, <1>2, DropKeyType, DropKeySame
<1> HIDE DEF d
<1>4. epoch = t.send_epoch => c.expected_seq <= t.send_seq
  BY DEF Joint, PairInv
<1>5. epoch > t.send_epoch => c.expected_seq = 0
  <2> SUFFICES ASSUME epoch > t.send_epoch PROVE c.expected_seq = 0
    OBVIOUS
  <2>1. s.send_epoch \in Nat /\ t.send_epoch \in Nat
    BY SessionFacts
  <2>2. c = s.recv_current \/ (c \in s.recv_previous /\ c.epoch < s.send_epoch)
    BY <1>1 DEF RecvChains, Joint, LocalInv
  <2>3. t.send_epoch < s.send_epoch
    BY <1>1, <2>1, <2>2 DEF Joint, LocalInv
  <2>4. Behind(t, s)
    BY <2>3 DEF Joint, PairInv
  <2>5. c \notin s.recv_previous
    BY <1>1, <2>1, <2>4 DEF Behind
  <2>6. QED
    BY <2>2, <2>4, <2>5 DEF Behind
<1>6. QED
  BY <1>3, <1>4, <1>5, PutSlotJoint DEF d

-----------------------------------------------------------------------------
(***************************************************************************)
(* A step of the ratchet, from both ends.                                  *)
(***************************************************************************)
LEMMA RootFacts ==
  ASSUME NEW root \in Root, NEW secret \in Nat \X Nat
  PROVE  /\ Append(root, secret) \in Root /\ Len(Append(root, secret)) = Len(root) + 1
         /\ Append(root, secret)[Len(root) + 1] = secret /\ Len(root) \in Nat
         /\ \A i \in 1 .. Len(root) : Append(root, secret)[i] = root[i]
BY DEF Root

\* u is s, a step later.
Advanced(s, u, secret, is_initiator) ==
  /\ u \in Session /\ LocalInv(u) /\ SessionInv(u)
  /\ u.root_key = Append(s.root_key, secret) /\ u.send_epoch = s.send_epoch + 1
  /\ u.send_seq = 0 /\ u.pending = {}
  /\ u.send_chain.dir = IF is_initiator THEN "i2r" ELSE "r2i"
  /\ u.recv_current.expected_seq = 0 /\ u.recv_current.skipped = {}
  /\ u.recv_current.epoch = s.send_epoch + 1
  /\ u.recv_current.chain.root = Append(s.root_key, secret)
  /\ u.recv_current.chain.dir = IF is_initiator THEN "r2i" ELSE "i2r"
  /\ u.recv_previous = {s.recv_current}
  /\ Slot(u, s.send_epoch) = {s.recv_current}
  /\ Slot(u, s.send_epoch + 1) = {u.recv_current}
  /\ \A e \in 0 .. s.send_epoch : Slot(u, e) \subseteq Slot(s, e)

LEMMA AdvanceFacts ==
  ASSUME NEW s \in Session, LocalInv(s), SessionInv(s), NEW secret \in Nat \X Nat,
         NEW is_initiator \in BOOLEAN
  PROVE  Advanced(s, AdvanceEpoch([s EXCEPT !.pending = {}], s.send_epoch, secret, is_initiator),
                  secret, is_initiator)
<1> DEFINE v == [s EXCEPT !.pending = {}]
           u == AdvanceEpoch(v, s.send_epoch, secret, is_initiator)
           root == Append(s.root_key, secret)
           send == IF is_initiator THEN "i2r" ELSE "r2i"
           recv == IF is_initiator THEN "r2i" ELSE "i2r"
<1>1. s.send_epoch \in Nat /\ s.recv_current \in ReceiveChain /\ s.root_key \in Root
  BY SessionFacts
<1>2. v \in Session /\ u \in Session
  BY <1>1, SessionFields, AdvanceEpochType
<1>3. /\ u.root_key = root /\ u.send_epoch = s.send_epoch + 1
      /\ u.send_chain = ChainKey(root, send) /\ u.send_seq = 0
      /\ u.recv_current = RecvChain(s.send_epoch + 1, ChainKey(root, recv))
      /\ u.recv_previous = {s.recv_current} /\ u.pending = {}
  BY DEF AdvanceEpoch, Session
<1>4. LocalInv(u)
  BY AdvanceKeeps
<1>5. root \in Root /\ Len(root) = s.send_epoch + 1
  BY <1>1, RootFacts DEF SessionInv
<1>6. send # recv
  OBVIOUS
<1> HIDE DEF u, v, root, send, recv
<1>7. /\ u.send_chain.root = root /\ u.send_chain.dir = send /\ u.send_chain.pos = 0
      /\ u.recv_current.epoch = s.send_epoch + 1 /\ u.recv_current.expected_seq = 0
      /\ u.recv_current.chain.root = root /\ u.recv_current.chain.dir = recv
      /\ u.recv_current.chain.pos = 0 /\ u.recv_current.skipped = {}
  BY <1>3 DEF ChainKey, RecvChain
<1>8. SessionInv(u)
  <2>1. Keyed(u.recv_current)
    BY <1>5, <1>7 DEF Keyed
  <2>2. Keyed(s.recv_current)
    BY DEF SessionInv, RecvChains
  <2>3. \A c \in RecvChains(u) : Keyed(c)
    BY <1>3, <2>1, <2>2 DEF RecvChains
  <2>4. QED
    BY <1>3, <1>5, <1>6, <1>7, <2>3 DEF SessionInv
<1>9. s.recv_current.epoch = s.send_epoch
  BY DEF LocalInv
<1>10. Slot(u, s.send_epoch) = {s.recv_current} /\ Slot(u, s.send_epoch + 1) = {u.recv_current}
  BY <1>1, <1>3, <1>7, <1>9 DEF Slot
<1>11. \A e \in 0 .. s.send_epoch : Slot(u, e) \subseteq Slot(s, e)
  BY <1>1, <1>3, <1>7, <1>9 DEF Slot
<1>12. QED
  BY <1>2, <1>3, <1>4, <1>7, <1>8, <1>10, <1>11 DEF Advanced, u, v, root, send, recv

\* What the two sessions know of each other's epochs.
LEMMA EpochFacts ==
  ASSUME NEW s \in Session, NEW t \in Session, NEW mine, NEW theirs, Joint(s, t, mine, theirs)
  PROVE  /\ s.send_epoch < t.send_epoch =>
              /\ t.send_epoch = s.send_epoch + 1
              /\ \E kex, id \in Nat :
                   s.pending = {kex} /\ t.root_key = Append(s.root_key, <<kex, id>>)
         /\ s.pending = {} => t.send_epoch <= s.send_epoch
<1>1. s.send_epoch \in Nat /\ t.send_epoch \in Nat /\ s.root_key \in Root /\ t.root_key \in Root
  BY SessionFacts
<1>2. s.send_epoch < t.send_epoch => Behind(s, t)
  BY DEF Joint, PairInv
<1>3. Len(s.root_key) = s.send_epoch /\ Len(t.root_key) = t.send_epoch
  BY DEF Joint, SessionInv
<1>4. \A kex, id \in Nat : Len(Append(s.root_key, <<kex, id>>)) = s.send_epoch + 1
  <2> SUFFICES ASSUME NEW kex \in Nat, NEW id \in Nat
               PROVE  Len(Append(s.root_key, <<kex, id>>)) = s.send_epoch + 1
    OBVIOUS
  <2>1. <<kex, id>> \in Nat \X Nat
    OBVIOUS
  <2>2. QED
    BY <1>1, <1>3, <2>1, RootFacts
<1>5. ASSUME s.send_epoch < t.send_epoch
      PROVE  /\ t.send_epoch = s.send_epoch + 1
             /\ \E kex, id \in Nat :
                  s.pending = {kex} /\ t.root_key = Append(s.root_key, <<kex, id>>)
  <2>1. PICK kex, id \in Nat :
          s.pending = {kex} /\ t.root_key = Append(s.root_key, <<kex, id>>)
    BY <1>2, <1>5 DEF Behind
  <2>2. Len(t.root_key) = s.send_epoch + 1
    BY <1>4, <2>1
  <2>3. QED
    BY <1>3, <2>1, <2>2
<1>6. s.pending = {} => ~(s.send_epoch < t.send_epoch)
  BY <1>5
<1>7. QED
  BY <1>1, <1>5, <1>6

\* handle_step1 only answers a step its peer still waits for, in their common epoch.
LEMMA RespondFacts ==
  ASSUME NEW s \in Session, NEW t \in Session, NEW mine, NEW theirs, Joint(s, t, mine, theirs),
         s.pending = {}, NEW id, StepInv(t, 1, s.send_epoch, id)
  PROVE  t.send_epoch = s.send_epoch /\ t.pending = {id}
<1>1. s.send_epoch \in Nat /\ t.send_epoch \in Nat
  BY SessionFacts
<1>2. QED
  BY <1>1, EpochFacts DEF StepInv

\* t is a step ahead of s, on the reply id to the step that s has pending.
Replied(s, t, id) ==
  /\ t.send_epoch = s.send_epoch + 1 /\ id \in Nat
  /\ \E kex \in Nat : s.pending = {kex} /\ t.root_key = Append(s.root_key, <<kex, id>>)

\* handle_step2 only takes the reply that its peer advanced on.
LEMMA FollowFacts ==
  ASSUME NEW s \in Session, NEW t \in Session, NEW mine, NEW theirs, Joint(s, t, mine, theirs),
         NEW id, StepInv(t, 2, s.send_epoch, id)
  PROVE  Replied(s, t, id)
<1>1. /\ s.send_epoch \in Nat /\ t.send_epoch \in Nat /\ s.root_key \in Root
      /\ Len(s.root_key) = s.send_epoch
  BY SessionFacts DEF Joint, SessionInv
<1>2. s.send_epoch < t.send_epoch
  BY <1>1 DEF StepInv
<1>3. PICK kex, other \in Nat :
        s.pending = {kex} /\ t.root_key = Append(s.root_key, <<kex, other>>)
  BY <1>2, EpochFacts
<1>4. t.send_epoch = s.send_epoch + 1
  BY <1>2, EpochFacts
<1>5. t.root_key[t.send_epoch][2] = id
  BY <1>4 DEF StepInv
<1>6. t.root_key[t.send_epoch] = <<kex, other>>
  BY <1>1, <1>3, <1>4, RootFacts
<1>7. id = other
  BY <1>5, <1>6
<1>8. QED
  BY <1>3, <1>4, <1>7 DEF Replied

LEMMA RespondJoint ==
  ASSUME NEW s \in Session, NEW t \in Session, NEW mine \in SUBSET Record,
         NEW theirs \in SUBSET Record, Joint(s, t, mine, theirs),
         t.send_epoch = s.send_epoch, NEW kex \in Nat, t.pending = {kex}, NEW id \in Nat
  PROVE  Joint(AdvanceEpoch([s EXCEPT !.pending = {}], s.send_epoch, <<kex, id>>, FALSE),
               t, mine, theirs)
<1> DEFINE u == AdvanceEpoch([s EXCEPT !.pending = {}], s.send_epoch, <<kex, id>>, FALSE)
<1>1. LocalInv(s) /\ SessionInv(s) /\ <<kex, id>> \in Nat \X Nat
  BY DEF Joint
<1>0. Advanced(s, u, <<kex, id>>, FALSE)
  BY <1>1, AdvanceFacts
<1> HIDE DEF u
<1>2. /\ u \in Session /\ LocalInv(u) /\ SessionInv(u)
      /\ u.root_key = Append(s.root_key, <<kex, id>>) /\ u.send_epoch = s.send_epoch + 1
      /\ u.send_seq = 0 /\ u.send_chain.dir = "r2i"
      /\ u.recv_current.expected_seq = 0
      /\ u.recv_previous = {s.recv_current}
      /\ Slot(u, s.send_epoch) = {s.recv_current}
      /\ \A e \in 0 .. s.send_epoch : Slot(u, e) \subseteq Slot(s, e)
  BY <1>0 DEF Advanced
<1>3. /\ s.send_epoch \in Nat /\ t.send_epoch \in Nat /\ s.recv_current \in ReceiveChain
      /\ t.recv_current \in ReceiveChain /\ t.recv_previous \subseteq ReceiveChain
  BY SessionFacts
<1>4. s.recv_current \in Slot(s, s.send_epoch)
  BY <1>1 DEF Slot, LocalInv
<1>5. PairInv(u, t)
  <2>1. Slot(t, u.send_epoch) = {}
    BY <1>2, <1>3, ChainFacts DEF Slot, Joint, LocalInv
  <2>2. QED
    BY <1>2, <1>3, <2>1 DEF PairInv
<1>6. PairInv(t, u)
  <2>1. /\ s.root_key = t.root_key /\ t.send_chain.dir = s.recv_current.chain.dir
        /\ s.recv_current.expected_seq <= t.send_seq
    BY <1>4 DEF Joint, PairInv
  <2>2. s.recv_current.epoch = t.send_epoch /\ s.recv_current.chain.root = t.root_key
    BY <1>1, <2>1 DEF LocalInv, SessionInv
  <2>3. Behind(t, u)
    BY <1>2, <1>3, <2>1, <2>2 DEF Behind
  <2>4. QED
    BY <1>2, <1>3, <2>1, <2>3 DEF PairInv
<1>7. SealedInv(mine, u, t)
  <2>1. ASSUME NEW r \in mine PROVE RecordInv(r, u, t)
    <3>1. RecordInv(r, s, t) /\ r.epoch \in Nat
      BY RecordFacts DEF Joint, SealedInv
    <3>2. r.epoch <= s.send_epoch /\ Slot(u, r.epoch) \subseteq Slot(s, r.epoch)
      BY <1>2, <1>3, <3>1 DEF RecordInv
    <3>3. QED
      BY <1>2, <1>3, <3>1, <3>2 DEF RecordInv
  <2>2. QED
    BY <2>1 DEF Joint, SealedInv
<1>8. SealedInv(theirs, t, u)
  <2>1. ASSUME NEW r \in theirs PROVE RecordInv(r, t, u)
    <3>1. RecordInv(r, t, s) /\ r.epoch \in Nat
      BY RecordFacts DEF Joint, SealedInv
    <3>2. Slot(u, r.epoch) \subseteq Slot(s, r.epoch)
      BY <1>2, <1>3, <3>1 DEF RecordInv
    <3>3. QED
      BY <3>1, <3>2 DEF RecordInv
  <2>2. QED
    BY <2>1 DEF Joint, SealedInv
<1>9. QED
  BY <1>2, <1>5, <1>6, <1>7, <1>8 DEF Joint, u

LEMMA FollowJoint ==
  ASSUME NEW s \in Session, NEW t \in Session, NEW mine \in SUBSET Record,
         NEW theirs \in SUBSET Record, Joint(s, t, mine, theirs),
         t.send_epoch = s.send_epoch + 1, NEW kex \in Nat, NEW id \in Nat,
         t.root_key = Append(s.root_key, <<kex, id>>)
  PROVE  Joint(AdvanceEpoch([s EXCEPT !.pending = {}], s.send_epoch, <<kex, id>>, TRUE),
               t, mine, theirs)
<1> DEFINE u == AdvanceEpoch([s EXCEPT !.pending = {}], s.send_epoch, <<kex, id>>, TRUE)
<1>1. LocalInv(s) /\ SessionInv(s) /\ <<kex, id>> \in Nat \X Nat
  BY DEF Joint
<1>0. Advanced(s, u, <<kex, id>>, TRUE)
  BY <1>1, AdvanceFacts
<1> HIDE DEF u
<1>2. /\ u \in Session /\ LocalInv(u) /\ SessionInv(u)
      /\ u.root_key = t.root_key /\ u.send_epoch = t.send_epoch
      /\ u.send_seq = 0 /\ u.send_chain.dir = "i2r"
      /\ u.recv_current.expected_seq = 0 /\ u.recv_current.chain.dir = "r2i"
      /\ u.recv_current.chain.root = t.root_key
      /\ Slot(u, t.send_epoch) = {u.recv_current}
      /\ \A e \in 0 .. s.send_epoch : Slot(u, e) \subseteq Slot(s, e)
  BY <1>0 DEF Advanced
<1>3. /\ s.send_epoch \in Nat /\ t.send_epoch \in Nat /\ t.send_seq \in Nat
      /\ t.send_chain \in Chain /\ t.recv_current \in ReceiveChain
  BY SessionFacts
<1>4. Behind(s, t)
  BY <1>3 DEF Joint, PairInv
<1>5. t.send_chain.dir = "r2i" /\ t.recv_current.expected_seq = 0
  BY <1>4 DEF Behind
<1>6. t.recv_current.chain.dir = "i2r"
  BY <1>3, <1>5, ChainFacts DEF Joint, SessionInv
<1>7. Slot(t, t.send_epoch) = {t.recv_current}
  BY DEF Slot, Joint, LocalInv
<1>8. PairInv(u, t) /\ PairInv(t, u)
  BY <1>2, <1>3, <1>5, <1>6, <1>7 DEF PairInv
<1>9. SealedInv(mine, u, t)
  <2>1. ASSUME NEW r \in mine PROVE RecordInv(r, u, t)
    <3>1. RecordInv(r, s, t) /\ r.epoch \in Nat
      BY RecordFacts DEF Joint, SealedInv
    <3>2. r.epoch <= s.send_epoch /\ Slot(u, r.epoch) \subseteq Slot(s, r.epoch)
      BY <1>2, <1>3, <3>1 DEF RecordInv
    <3>3. QED
      BY <1>2, <1>3, <3>1, <3>2 DEF RecordInv
  <2>2. QED
    BY <2>1 DEF Joint, SealedInv
<1>10. SealedInv(theirs, t, u)
  <2>1. ASSUME NEW r \in theirs PROVE RecordInv(r, t, u)
    <3>1. RecordInv(r, t, s) /\ r.epoch \in Nat
      BY RecordFacts DEF Joint, SealedInv
    <3>2. CASE r.epoch = t.send_epoch
      BY <1>2, <1>5, <3>1, <3>2 DEF RecordInv
    <3>3. CASE r.epoch # t.send_epoch
      <4>1. Slot(u, r.epoch) \subseteq Slot(s, r.epoch)
        <5>1. r.epoch <= t.send_epoch
          BY <3>1 DEF RecordInv
        <5>2. r.epoch \in 0 .. s.send_epoch
          BY <1>3, <3>1, <3>3, <5>1
        <5>3. QED
          BY <1>2, <5>2
      <4>2. QED
        BY <3>1, <4>1 DEF RecordInv
    <3>4. QED
      BY <3>2, <3>3
  <2>2. QED
    BY <2>1 DEF Joint, SealedInv
<1>11. QED
  BY <1>2, <1>8, <1>9, <1>10 DEF Joint, u

-----------------------------------------------------------------------------
(***************************************************************************)
(* PeerInv is inductive.                                                   *)
(***************************************************************************)
LEMMA PeerFacts ==
  ASSUME NEW p \in Parties
  PROVE  /\ Peer(p) \in Parties /\ Peer(p) # p /\ Peer(Peer(p)) = p
         /\ \A q \in Parties : q = p \/ q = Peer(p)
BY RolesAssumption DEF Parties, Peer

LEMMA StepFrame ==
  ASSUME NEW s, NEW u, NEW mine, NEW cs, Said(s, mine, cs),
         u.root_key = s.root_key, u.send_epoch = s.send_epoch,
         u.pending = s.pending \/ s.pending = {}
  PROVE  Said(u, mine, cs)
<1>1. \A step, epoch, id : StepInv(s, step, epoch, id) => StepInv(u, step, epoch, id)
  BY DEF StepInv
<1>2. QED
  BY <1>1 DEF Said

LEMMA StepAdvance ==
  ASSUME NEW s \in Session, NEW u \in Session,
         NEW mine \in SUBSET Record, NEW cs \in SUBSET Chunk, Said(s, mine, cs),
         u.send_epoch = s.send_epoch + 1
  PROVE  Said(u, mine, cs)
<1>1. ASSUME NEW step, NEW epoch \in Nat, NEW id, StepInv(s, step, epoch, id)
      PROVE  StepInv(u, step, epoch, id)
  <2>1. s.send_epoch \in Nat /\ epoch <= s.send_epoch /\ (step = 2 => epoch # s.send_epoch)
    BY <1>1, SessionFacts DEF StepInv
  <2>2. QED
    BY <2>1 DEF StepInv
<1>2. \A r \in mine : r.epoch \in Nat
  BY RecordFacts
<1>3. \A c \in cs : Len(c.key.root) \in Nat
  BY DEF Chunk, Root
<1>4. QED
  BY <1>1, <1>2, <1>3 DEF Said

\* The reply belongs to the epoch the responder leaves.
LEMMA ReplySaid ==
  ASSUME NEW s \in Session, NEW u, NEW kex \in Nat, NEW id \in Nat, Len(s.root_key) = s.send_epoch,
         u.root_key = Append(s.root_key, <<kex, id>>), u.send_epoch = s.send_epoch + 1
  PROVE  StepInv(u, 2, s.send_epoch, id)
<1>1. s.send_epoch \in Nat /\ s.root_key \in Root /\ <<kex, id>> \in Nat \X Nat
  BY SessionFacts
<1>2. u.root_key[s.send_epoch + 1] = <<kex, id>>
  BY <1>1, RootFacts
<1>3. QED
  BY <1>1, <1>2 DEF StepInv

\* Whose records and chunks grow.
LEMMA Grown ==
  ASSUME NEW p \in Parties
  PROVE  /\ \A new : records' = records \cup {new} /\ new.from = p =>
              SentBy(p)' = SentBy(p) \cup {new} /\ SentBy(Peer(p))' = SentBy(Peer(p))
         /\ \A built : chunks' = chunks \cup built /\ (\A c \in built : c.from = p) =>
              ChunksBy(p)' = ChunksBy(p) \cup built /\ ChunksBy(Peer(p))' = ChunksBy(Peer(p))
         /\ records' = records => \A q : SentBy(q)' = SentBy(q)
         /\ chunks' = chunks => \A q : ChunksBy(q)' = ChunksBy(q)
BY PeerFacts DEF SentBy, ChunksBy

\* A step of p's session, which leaves what the peer sent alone.
LEMMA PeerStep ==
  ASSUME TypeOK, PeerInv, NEW p \in Parties, NEW u, session' = [session EXCEPT ![p] = u],
         SentBy(Peer(p))' = SentBy(Peer(p)), ChunksBy(Peer(p))' = ChunksBy(Peer(p)),
         Joint(u, session[Peer(p)], SentBy(p)', SentBy(Peer(p))), Said(u, SentBy(p)', ChunksBy(p)')
  PROVE  PeerInv'
<1>1. Peer(p) \in Parties /\ Peer(p) # p /\ Peer(Peer(p)) = p
  BY PeerFacts
<1>2. session'[p] = u /\ session'[Peer(p)] = session[Peer(p)]
  BY <1>1 DEF TypeOK
<1>3. Joint(session'[p], session'[Peer(p)], SentBy(p)', SentBy(Peer(p))')
  BY <1>2
<1>4. Joint(session'[Peer(p)], session'[p], SentBy(Peer(p))', SentBy(p)')
  BY <1>3, JointSymmetric
<1>5. Said(session'[p], SentBy(p)', ChunksBy(p)')
  BY <1>2
<1>6. Said(session'[Peer(p)], SentBy(Peer(p))', ChunksBy(Peer(p))')
  BY <1>1, <1>2 DEF PeerInv
<1>7. ASSUME NEW q \in Parties
      PROVE  /\ Joint(session'[q], session'[Peer(q)], SentBy(q)', SentBy(Peer(q))')
             /\ Said(session'[q], SentBy(q)', ChunksBy(q)')
  <2>1. CASE q = p
    BY <1>3, <1>5, <2>1
  <2>2. CASE q = Peer(p)
    BY <1>1, <1>4, <1>6, <2>2
  <2>3. QED
    BY <2>1, <2>2, PeerFacts
<1>8. QED
  BY <1>7 DEF PeerInv

LEMMA PeerInit == Init => PeerInv
<1> SUFFICES ASSUME Init, NEW p \in Parties
             PROVE  /\ Joint(session[p], session[Peer(p)], SentBy(p), SentBy(Peer(p)))
                    /\ Said(session[p], SentBy(p), ChunksBy(p))
  BY DEF PeerInv
<1> DEFINE s == session[p]
           t == session[Peer(p)]
<1>1. Peer(p) \in Parties /\ (p = Initiator \/ p = Responder)
  BY PeerFacts DEF Parties
<1>2. ASSUME NEW q \in Parties
      PROVE  /\ session[q].root_key = <<>> /\ session[q].send_epoch = 0 /\ session[q].send_seq = 0
             /\ session[q].recv_previous = {} /\ session[q].pending = {}
             /\ session[q].send_chain.root = <<>> /\ session[q].send_chain.pos = 0
             /\ session[q].send_chain.dir = IF q = Initiator THEN "i2r" ELSE "r2i"
             /\ session[q].recv_current.epoch = 0 /\ session[q].recv_current.expected_seq = 0
             /\ session[q].recv_current.skipped = {}
             /\ session[q].recv_current.chain.root = <<>>
             /\ session[q].recv_current.chain.pos = 0
             /\ session[q].recv_current.chain.dir = IF q = Initiator THEN "r2i" ELSE "i2r"
  BY DEF Init, NewSession, ChainKey, RecvChain
<1>3. SentBy(p) = {} /\ SentBy(Peer(p)) = {} /\ ChunksBy(p) = {}
  BY DEF Init, SentBy, ChunksBy
<1>4. s.send_chain.dir = t.recv_current.chain.dir /\ t.send_chain.dir = s.recv_current.chain.dir
  BY <1>1, <1>2, RolesAssumption DEF Peer
<1>5. ASSUME NEW q \in Parties
      PROVE  LocalInv(session[q]) /\ SessionInv(session[q])
  <2>1. Len(<<>>) = 0
    OBVIOUS
  <2>2. RecvChains(session[q]) = {session[q].recv_current}
    BY <1>2, <1>5 DEF RecvChains
  <2>3. Keyed(session[q].recv_current)
    BY <1>2, <1>5, <2>1 DEF Keyed
  <2>4. session[q].recv_current.chain.dir # session[q].send_chain.dir
    BY <1>2, <1>5
  <2>5. QED
    BY <1>2, <1>5, <2>1, <2>2, <2>3, <2>4 DEF LocalInv, SessionInv
<1>6. PairInv(s, t) /\ PairInv(t, s)
  <2>1. Slot(s, 0) = {s.recv_current} /\ Slot(t, 0) = {t.recv_current}
    BY <1>1, <1>2 DEF Slot
  <2>2. QED
    BY <1>1, <1>2, <1>4, <2>1 DEF PairInv
<1>7. QED
  BY <1>1, <1>3, <1>5, <1>6 DEF Joint, SealedInv, Said

\* What every step below starts from.
LEMMA PeerHas ==
  ASSUME TypeOK, PeerInv, NEW p \in Parties
  PROVE  /\ session[p] \in Session /\ session[Peer(p)] \in Session
         /\ SentBy(p) \in SUBSET Record /\ SentBy(Peer(p)) \in SUBSET Record
         /\ ChunksBy(p) \in SUBSET Chunk /\ ChunksBy(Peer(p)) \in SUBSET Chunk
         /\ Joint(session[p], session[Peer(p)], SentBy(p), SentBy(Peer(p)))
         /\ Said(session[p], SentBy(p), ChunksBy(p))
         /\ Said(session[Peer(p)], SentBy(Peer(p)), ChunksBy(Peer(p)))
         /\ LocalInv(session[p]) /\ SessionInv(session[p])
         /\ Len(session[p].root_key) = session[p].send_epoch
BY PeerFacts DEF PeerInv, TypeOK, SentBy, ChunksBy, Joint, SessionInv

\* A record that opens is one of the peer's.
LEMMA OpensTheirs ==
  ASSUME TypeOK, PeerInv, NEW p \in Parties, NEW r \in records,
         NEW c \in Slot(session[p], r.epoch), Opens(c, r)
  PROVE  r \in SentBy(Peer(p)) /\ r \in Record /\ c \in ReceiveChain
<1>1. r \in Record /\ r.from \in Parties
  BY RecordFacts DEF TypeOK
<1>2. r \notin SentBy(p)
  BY PeerHas, OwnNeverOpens
<1>3. c \in ReceiveChain
  BY PeerHas, SlotType
<1>4. QED
  BY <1>1, <1>2, <1>3, PeerFacts DEF SentBy

\* So is a chunk that is accepted.
LEMMA AcceptsTheirs ==
  ASSUME TypeOK, PeerInv, NEW p \in Parties, NEW c \in chunks,
         AcceptsStep1Chunk(session[p], c) \/ AcceptsStep2Chunk(session[p], c)
  PROVE  /\ c \in ChunksBy(Peer(p)) /\ c \in Chunk
         /\ StepInv(session[Peer(p)], c.step, session[p].send_epoch, c.payload)
<1>1. c \in Chunk /\ c.from \in Parties
  BY DEF TypeOK, Chunk
<1>2. Len(c.key.root) = session[p].send_epoch /\ c.step \in {1, 2}
  BY PeerHas DEF AcceptsStep1Chunk, AcceptsStep2Chunk, ChunkKey
<1>3. c \notin ChunksBy(p)
  <2> SUFFICES ASSUME c \in ChunksBy(p) PROVE FALSE
    OBVIOUS
  <2>1. StepInv(session[p], c.step, session[p].send_epoch, c.payload)
    BY <1>2, PeerHas DEF Said
  <2>2. QED
    BY <2>1 DEF StepInv, AcceptsStep1Chunk, AcceptsStep2Chunk
<1>4. c \in ChunksBy(Peer(p))
  BY <1>1, <1>3, PeerFacts DEF ChunksBy
<1>5. QED
  BY <1>1, <1>2, <1>4, PeerHas DEF Said

\* The session p is left with, once open_on is done with r.
LEMMA OpenedFacts ==
  ASSUME TypeOK, PeerInv, NEW p \in Parties, NEW r \in records,
         NEW c \in Slot(session[p], r.epoch), Opens(c, r)
  PROVE  LET s == PutSlot(session[p], Consume(c, r))
         IN /\ s \in Session
            /\ s.root_key = session[p].root_key /\ s.send_epoch = session[p].send_epoch
            /\ s.pending = session[p].pending /\ s.pending_epoch = session[p].pending_epoch
            /\ Joint(s, session[Peer(p)], SentBy(p), SentBy(Peer(p)))
            /\ Said(s, SentBy(p), ChunksBy(p))
<1> DEFINE s == PutSlot(session[p], Consume(c, r))
<1>1. r \in SentBy(Peer(p)) /\ r \in Record /\ c \in ReceiveChain
  BY OpensTheirs
<1>2. session[p] \in Session /\ LocalInv(session[p])
  BY PeerHas
<1>3. s \in Session
  BY <1>1, <1>2, ConsumeType, PutSlotType
<1>4. /\ s.root_key = session[p].root_key /\ s.send_epoch = session[p].send_epoch
      /\ s.pending = session[p].pending /\ s.pending_epoch = session[p].pending_epoch
  BY <1>2 DEF PutSlot, Session
<1>5. Joint(s, session[Peer(p)], SentBy(p), SentBy(Peer(p)))
  BY <1>1, PeerHas, OpenJoint
<1> HIDE DEF s
<1>6. Said(s, SentBy(p), ChunksBy(p))
  BY <1>4, PeerHas, StepFrame
<1>7. QED
  BY <1>3, <1>4, <1>5, <1>6 DEF s

\* open answers a step 1 only from its peer, in their common epoch.
Answers(p, r, c) ==
  LET s == PutSlot(session[p], Consume(c, r))
      v == SealPayload(s)
  IN /\ Opens(c, r)
     /\ v \in Session /\ v.root_key = session[p].root_key
     /\ v.send_epoch = session[p].send_epoch /\ v.pending = {}
     /\ session[p].pending = {} /\ r.epoch = session[p].send_epoch
     /\ session[Peer(p)].send_epoch = session[p].send_epoch
     /\ session[Peer(p)].pending = {r.payload.id}
     /\ records' = records \cup {SealedRecord(p, s, [kind |-> "step2", id |-> fresh'])}
     /\ session' = [session EXCEPT
          ![p] = AdvanceEpoch([v EXCEPT !.pending = {}], v.send_epoch,
                              <<r.payload.id, fresh'>>, FALSE)]

LEMMA OpenStep1Facts ==
  ASSUME TypeOK, PeerInv, NEW p \in Parties, NEW r \in records, OpenStep1(p, r)
  PROVE  \E c \in Slot(session[p], r.epoch) : Answers(p, r, c)
<1> DEFINE After(c) == PutSlot(session[p], Consume(c, r))
<1>1. PICK c \in Slot(session[p], r.epoch) :
        /\ Opens(c, r) /\ MayRespond(After(c), r.epoch)
        /\ records' = records \cup
             {SealedRecord(p, After(c), [kind |-> "step2", id |-> fresh'])}
        /\ session' = [session EXCEPT
             ![p] = AdvanceEpoch(SealPayload(After(c)), r.epoch, <<r.payload.id, fresh'>>, FALSE)]
  BY DEF OpenStep1
<1> DEFINE s == After(c)
           v == SealPayload(s)
<1>2. /\ s \in Session /\ s.root_key = session[p].root_key
      /\ s.send_epoch = session[p].send_epoch /\ s.pending = session[p].pending
  BY <1>1, OpenedFacts
<1>3. session[p].pending = {} /\ r.epoch = session[p].send_epoch
  BY <1>1, <1>2 DEF MayRespond
<1> HIDE DEF s
<1>4. /\ v \in Session /\ v.root_key = s.root_key /\ v.send_epoch = s.send_epoch
      /\ v.pending = s.pending
  BY <1>2, SealPayloadType DEF SealPayload, Session
<1> HIDE DEF v
<1>5. v = [v EXCEPT !.pending = {}]
  BY <1>2, <1>3, <1>4 DEF Session
<1>6. r \in SentBy(Peer(p)) /\ r.payload.kind = "step1"
  BY <1>1, OpensTheirs DEF OpenStep1
<1>7. StepInv(session[Peer(p)], 1, session[p].send_epoch, r.payload.id)
  BY <1>3, <1>6, PeerHas DEF Said
<1>8. /\ session[Peer(p)].send_epoch = session[p].send_epoch
      /\ session[Peer(p)].pending = {r.payload.id}
  BY <1>3, <1>7, PeerHas, RespondFacts
<1>9. QED
  BY <1>1, <1>2, <1>3, <1>4, <1>5, <1>8 DEF Answers, s, v

\* open takes a step 2 only as the reply its peer advanced on.
Finishes(p, r, c, kex) ==
  LET s == PutSlot(session[p], Consume(c, r))
  IN /\ Opens(c, r)
     /\ s \in Session /\ s.root_key = session[p].root_key
     /\ s.send_epoch = session[p].send_epoch
     /\ r.epoch = session[p].send_epoch /\ r.payload.id \in Nat
     /\ session[p].pending = {kex}
     /\ session[Peer(p)].send_epoch = session[p].send_epoch + 1
     /\ session[Peer(p)].root_key
          = Append(session[p].root_key, <<kex, r.payload.id>>)
     /\ session' = [session EXCEPT
          ![p] = AdvanceEpoch([s EXCEPT !.pending = {}], s.send_epoch,
                              <<kex, r.payload.id>>, TRUE)]

LEMMA OpenStep2Facts ==
  ASSUME TypeOK, PeerInv, NEW p \in Parties, NEW r \in records, OpenStep2(p, r)
  PROVE  \E c \in Slot(session[p], r.epoch), kex \in Nat : Finishes(p, r, c, kex)
<1> DEFINE After(c) == PutSlot(session[p], Consume(c, r))
<1>1. PICK c \in Slot(session[p], r.epoch), kex \in session[p].pending :
        /\ Opens(c, r) /\ MayFinish(After(c), r.epoch)
        /\ session' = [session EXCEPT
             ![p] = AdvanceEpoch([After(c) EXCEPT !.pending = {}], r.epoch,
                                 <<kex, r.payload.id>>, TRUE)]
  BY DEF OpenStep2
<1> DEFINE s == After(c)
<1>2. /\ s \in Session /\ s.root_key = session[p].root_key
      /\ s.send_epoch = session[p].send_epoch /\ s.pending = session[p].pending
      /\ s.pending_epoch = session[p].pending_epoch
  BY <1>1, OpenedFacts
<1>3. r.epoch = session[p].send_epoch
  BY <1>1, <1>2, PeerHas DEF MayFinish, LocalInv
<1>4. r \in SentBy(Peer(p)) /\ r.payload.kind = "step2"
  BY <1>1, OpensTheirs DEF OpenStep2
<1>5. StepInv(session[Peer(p)], 2, session[p].send_epoch, r.payload.id)
  BY <1>3, <1>4, PeerHas DEF Said
<1>0. /\ session[p] \in Session /\ session[Peer(p)] \in Session
      /\ Joint(session[p], session[Peer(p)], SentBy(p), SentBy(Peer(p)))
  BY PeerHas
<1>6. Replied(session[p], session[Peer(p)], r.payload.id)
  BY <1>0, <1>5, FollowFacts
<1>7. PICK x \in Nat :
        /\ session[p].pending = {x}
        /\ session[Peer(p)].root_key = Append(session[p].root_key, <<x, r.payload.id>>)
  BY <1>6 DEF Replied
<1>8. x = kex
  BY <1>1, <1>7
<1>9. QED
  BY <1>1, <1>2, <1>3, <1>6, <1>7, <1>8 DEF Finishes, Replied

\* The same steps, received as chunks.
LEMMA OpenChunkStep1Facts ==
  ASSUME TypeOK, PeerInv, NEW p \in Parties, NEW c \in chunks, OpenChunkStep1(p, c)
  PROVE  LET v == [session[p] EXCEPT !.step1_chunks = {}, !.last_step1 = {c.nonce}]
         IN /\ v \in Session /\ v.root_key = session[p].root_key
            /\ v.send_epoch = session[p].send_epoch /\ v.pending = {}
            /\ v.send_chain = session[p].send_chain /\ v.send_seq = session[p].send_seq
            /\ v.recv_current = session[p].recv_current
            /\ v.recv_previous = session[p].recv_previous
            /\ session[p].pending = {} /\ c \in Chunk /\ fresh' \in Nat
            /\ session[Peer(p)].send_epoch = session[p].send_epoch
            /\ session[Peer(p)].pending = {c.payload}
            /\ session' = [session EXCEPT
                 ![p] = AdvanceEpoch([v EXCEPT !.pending = {}], v.send_epoch,
                                     <<c.payload, fresh'>>, FALSE)]
<1> DEFINE v == [session[p] EXCEPT !.step1_chunks = {}, !.last_step1 = {c.nonce}]
<1>1. /\ AcceptsStep1Chunk(session[p], c) /\ fresh' = fresh + 1
      /\ session' = [session EXCEPT
           ![p] = AdvanceEpoch(v, session[p].send_epoch, <<c.payload, fresh'>>, FALSE)]
  BY DEF OpenChunkStep1
<1>2. session[p].pending = {} /\ c.step = 1
  BY <1>1 DEF AcceptsStep1Chunk
<1>3. /\ c \in Chunk /\ StepInv(session[Peer(p)], 1, session[p].send_epoch, c.payload)
  BY <1>1, <1>2, AcceptsTheirs
<1>4. /\ session[Peer(p)].send_epoch = session[p].send_epoch
      /\ session[Peer(p)].pending = {c.payload}
  BY <1>2, <1>3, PeerHas, RespondFacts
<1>5. c.nonce \in Nat /\ fresh' \in Nat
  BY <1>1, <1>3 DEF Chunk, TypeOK
<1>6. /\ v \in Session /\ v.root_key = session[p].root_key
      /\ v.send_epoch = session[p].send_epoch /\ v.pending = session[p].pending
      /\ v.send_chain = session[p].send_chain /\ v.send_seq = session[p].send_seq
      /\ v.recv_current = session[p].recv_current
      /\ v.recv_previous = session[p].recv_previous
  BY <1>5, PeerHas, SessionFields DEF Session
<1> HIDE DEF v
<1>7. v = [v EXCEPT !.pending = {}]
  BY <1>2, <1>6 DEF Session
<1>8. QED
  BY <1>1, <1>2, <1>3, <1>4, <1>5, <1>6, <1>7 DEF v

FinishesChunks(p, c, kex) ==
  LET v == [session[p] EXCEPT !.step2_chunks = {}, !.last_step2 = {c.nonce}]
  IN /\ v \in Session /\ v.root_key = session[p].root_key
     /\ v.send_epoch = session[p].send_epoch
     /\ v.pending = session[p].pending /\ v.pending_epoch = session[p].pending_epoch
     /\ v.send_chain = session[p].send_chain /\ v.send_seq = session[p].send_seq
     /\ v.recv_current = session[p].recv_current
     /\ v.recv_previous = session[p].recv_previous
     /\ session[p].pending = {kex} /\ c.payload \in Nat
     /\ session[Peer(p)].send_epoch = session[p].send_epoch + 1
     /\ session[Peer(p)].root_key = Append(session[p].root_key, <<kex, c.payload>>)
     /\ session' = [session EXCEPT
          ![p] = AdvanceEpoch([v EXCEPT !.pending = {}], v.send_epoch,
                              <<kex, c.payload>>, TRUE)]

LEMMA OpenChunkStep2Facts ==
  ASSUME TypeOK, PeerInv, NEW p \in Parties, NEW c \in chunks, OpenChunkStep2(p, c)
  PROVE  \E kex \in Nat : FinishesChunks(p, c, kex)
<1> DEFINE v == [session[p] EXCEPT !.step2_chunks = {}, !.last_step2 = {c.nonce}]
           w == [session[p] EXCEPT !.step2_chunks = {}, !.last_step2 = {c.nonce}, !.pending = {}]
<1>1. AcceptsStep2Chunk(session[p], c)
  BY DEF OpenChunkStep2
<1>2. PICK kex \in session[p].pending :
        session' = [session EXCEPT
          ![p] = AdvanceEpoch(w, session[p].send_epoch, <<kex, c.payload>>, TRUE)]
  BY DEF OpenChunkStep2
<1>3. c \in Chunk /\ StepInv(session[Peer(p)], 2, session[p].send_epoch, c.payload)
  BY <1>1, AcceptsTheirs DEF AcceptsStep2Chunk
<1>0. /\ session[p] \in Session /\ session[Peer(p)] \in Session
      /\ Joint(session[p], session[Peer(p)], SentBy(p), SentBy(Peer(p)))
  BY PeerHas
<1>4. Replied(session[p], session[Peer(p)], c.payload)
  BY <1>0, <1>3, FollowFacts
<1>5. PICK x \in Nat :
        /\ session[p].pending = {x}
        /\ session[Peer(p)].root_key = Append(session[p].root_key, <<x, c.payload>>)
  BY <1>4 DEF Replied
<1>6. c.nonce \in Nat /\ session[p] \in Session
  BY <1>3, PeerHas DEF Chunk
<1>7. /\ v \in Session /\ v.root_key = session[p].root_key
      /\ v.send_epoch = session[p].send_epoch
      /\ v.pending = session[p].pending /\ v.pending_epoch = session[p].pending_epoch
      /\ v.send_chain = session[p].send_chain /\ v.send_seq = session[p].send_seq
      /\ v.recv_current = session[p].recv_current
      /\ v.recv_previous = session[p].recv_previous
  BY <1>6 DEF Session
<1>8. w = [v EXCEPT !.pending = {}]
  BY <1>6 DEF Session
<1>9. x = kex
  BY <1>2, <1>5
<1> HIDE DEF v, w
<1>10. QED
  BY <1>2, <1>4, <1>5, <1>7, <1>8, <1>9 DEF FinishesChunks, v, Replied

LEMMA PeerSeals ==
  ASSUME TypeOK, PeerInv, NEW p \in Parties, Seal(p)
  PROVE  PeerInv'
<1> DEFINE s == session[p]
           payload == [kind |-> "app", id |-> app_sealed[p] + 1]
           u == SealPayload(s)
           new == SealedRecord(p, s, payload)
<1>1. /\ session' = [session EXCEPT ![p] = u] /\ records' = records \cup {new}
      /\ chunks' = chunks
  BY DEF Seal
<1>2. new.from = p /\ new.payload.kind = "app"
  BY DEF SealedRecord
<1>3. Joint(u, session[Peer(p)], SentBy(p) \cup {new}, SentBy(Peer(p)))
  BY PeerHas, SealJoint
<1>4. u.root_key = s.root_key /\ u.send_epoch = s.send_epoch /\ u.pending = s.pending
  BY PeerHas DEF SealPayload, Session
<1> HIDE DEF u, new
<1>5. Said(u, SentBy(p), ChunksBy(p))
  BY <1>4, PeerHas, StepFrame
<1>6. Said(u, SentBy(p) \cup {new}, ChunksBy(p))
  BY <1>2, <1>5 DEF Said
<1>7. /\ SentBy(p)' = SentBy(p) \cup {new} /\ SentBy(Peer(p))' = SentBy(Peer(p))
      /\ ChunksBy(p)' = ChunksBy(p) /\ ChunksBy(Peer(p))' = ChunksBy(Peer(p))
  BY <1>1, <1>2, Grown
<1>8. QED
  BY <1>1, <1>3, <1>6, <1>7, PeerStep

LEMMA PeerInitiatesRatchet ==
  ASSUME TypeOK, PeerInv, NEW p \in Parties, InitiateRatchet(p)
  PROVE  PeerInv'
<1> DEFINE s == session[p]
           payload == [kind |-> "step1", id |-> fresh']
           v == SealPayload(s)
           u == SetPending(v, fresh')
           new == SealedRecord(p, s, payload)
<1>1. /\ session' = [session EXCEPT ![p] = u] /\ records' = records \cup {new}
      /\ chunks' = chunks /\ s.pending = {} /\ fresh' \in Nat
  BY DEF InitiateRatchet, MayInitiate, TypeOK
<1>2. /\ new.from = p /\ new.epoch = s.send_epoch
      /\ new.payload.kind = "step1" /\ new.payload.id = fresh'
  BY DEF SealedRecord
<1>3. Joint(v, session[Peer(p)], SentBy(p) \cup {new}, SentBy(Peer(p)))
  BY PeerHas, SealJoint
<1>4. /\ v \in Session /\ v.root_key = s.root_key /\ v.send_epoch = s.send_epoch
      /\ v.pending = {}
  BY <1>1, PeerHas, SealPayloadType DEF SealPayload, Session
<1> HIDE DEF v, new
<1>5. /\ u \in Session /\ u.root_key = v.root_key /\ u.send_epoch = v.send_epoch
      /\ u.send_chain = v.send_chain /\ u.send_seq = v.send_seq
      /\ u.recv_current = v.recv_current /\ u.recv_previous = v.recv_previous
      /\ u.pending = {fresh'} /\ u.pending_epoch = u.send_epoch
  BY <1>1, <1>4, SetPendingType DEF SetPending, Session
<1> HIDE DEF u
<1>6. Joint(u, session[Peer(p)], SentBy(p) \cup {new}, SentBy(Peer(p)))
  BY <1>3, <1>4, <1>5, PeerHas, FrameJoint
<1>7. Said(u, SentBy(p), ChunksBy(p))
  BY <1>1, <1>4, <1>5, PeerHas, StepFrame
<1>8. StepInv(u, 1, s.send_epoch, fresh')
  BY <1>4, <1>5, PeerHas, SessionFacts DEF StepInv
<1>9. Said(u, SentBy(p) \cup {new}, ChunksBy(p))
  BY <1>2, <1>7, <1>8 DEF Said
<1>10. /\ SentBy(p)' = SentBy(p) \cup {new} /\ SentBy(Peer(p))' = SentBy(Peer(p))
       /\ ChunksBy(p)' = ChunksBy(p) /\ ChunksBy(Peer(p))' = ChunksBy(Peer(p))
  BY <1>1, <1>2, Grown
<1>11. QED
  BY <1>1, <1>6, <1>9, <1>10, PeerStep DEF u, v

\* What every chunk of a step says.
LEMMA ChunkRecordsFacts ==
  ASSUME NEW p, NEW root, NEW step, NEW nonce, NEW payload, NEW data, NEW parity,
         NEW c \in ChunkRecords(p, root, step, nonce, payload, data, parity)
  PROVE  c.from = p /\ c.step = step /\ c.key.root = root /\ c.payload = payload
BY DEF ChunkRecords, ChunkKey

LEMMA PeerInitiatesIncremental ==
  ASSUME TypeOK, PeerInv, NEW p \in Parties, NEW data, NEW parity,
         InitiateIncremental(p, data, parity)
  PROVE  PeerInv'
<1> DEFINE s == session[p]
           u == SetPending(s, fresh')
           built == ChunkRecords(p, s.root_key, 1, fresh', fresh', data, parity)
<1>1. /\ session' = [session EXCEPT ![p] = u] /\ records' = records
      /\ chunks' = chunks \cup built /\ s.pending = {} /\ fresh' \in Nat
  BY DEF InitiateIncremental, MayInitiate, TypeOK
<1>2. \A c \in built : /\ c.from = p /\ c.step = 1 /\ c.payload = fresh'
                       /\ Len(c.key.root) = s.send_epoch
  BY ChunkRecordsFacts, PeerHas
<1> HIDE DEF built
<1>3. /\ u \in Session /\ u.root_key = s.root_key /\ u.send_epoch = s.send_epoch
      /\ u.send_chain = s.send_chain /\ u.send_seq = s.send_seq
      /\ u.recv_current = s.recv_current /\ u.recv_previous = s.recv_previous
      /\ u.pending = {fresh'} /\ u.pending_epoch = u.send_epoch
  BY <1>1, PeerHas, SetPendingType DEF SetPending, Session
<1> HIDE DEF u
<1>4. Joint(u, session[Peer(p)], SentBy(p), SentBy(Peer(p)))
  BY <1>1, <1>3, PeerHas, FrameJoint
<1>5. Said(u, SentBy(p), ChunksBy(p))
  BY <1>1, <1>3, PeerHas, StepFrame
<1>6. StepInv(u, 1, s.send_epoch, fresh')
  BY <1>3, PeerHas, SessionFacts DEF StepInv
<1>7. Said(u, SentBy(p), ChunksBy(p) \cup built)
  BY <1>2, <1>5, <1>6 DEF Said
<1>8. /\ SentBy(p)' = SentBy(p) /\ SentBy(Peer(p))' = SentBy(Peer(p))
      /\ ChunksBy(p)' = ChunksBy(p) \cup built /\ ChunksBy(Peer(p))' = ChunksBy(Peer(p))
  BY <1>1, <1>2, Grown
<1>9. QED
  BY <1>1, <1>4, <1>7, <1>8, PeerStep DEF u

\* Steps that seal and build nothing.
LEMMA PeerQuiet ==
  ASSUME TypeOK, PeerInv, NEW p \in Parties, NEW u, session' = [session EXCEPT ![p] = u],
         records' = records, chunks' = chunks,
         Joint(u, session[Peer(p)], SentBy(p), SentBy(Peer(p))), Said(u, SentBy(p), ChunksBy(p))
  PROVE  PeerInv'
<1>1. \A q : SentBy(q)' = SentBy(q) /\ ChunksBy(q)' = ChunksBy(q)
  BY Grown
<1>2. QED
  BY <1>1, PeerStep

LEMMA PeerOpens ==
  ASSUME TypeOK, PeerInv, NEW p \in Parties, NEW r \in records,
         OpenApplication(p, r) \/ OpenRefused(p, r)
  PROVE  PeerInv'
<1>1. PICK c \in Slot(session[p], r.epoch) :
        /\ Opens(c, r)
        /\ session' = [session EXCEPT ![p] = PutSlot(session[p], Consume(c, r))]
  BY DEF OpenApplication, OpenRefused
<1>2. records' = records /\ chunks' = chunks
  BY DEF OpenApplication, OpenRefused
<1>3. QED
  BY <1>1, <1>2, OpenedFacts, PeerQuiet

LEMMA PeerBurns ==
  ASSUME TypeOK, PeerInv, NEW p \in Parties, NEW r \in records, OpenBurns(p, r)
  PROVE  PeerInv'
<1>1. PICK c \in Slot(session[p], r.epoch) :
        session' = [session EXCEPT ![p] = PutSlot(session[p], DropKey(c, r.seq))]
  BY DEF OpenBurns
<1>2. records' = records /\ chunks' = chunks
  BY DEF OpenBurns
<1> DEFINE u == PutSlot(session[p], DropKey(c, r.seq))
<1>3. r.epoch \in Nat
  BY RecordFacts DEF TypeOK
<1>4. Joint(u, session[Peer(p)], SentBy(p), SentBy(Peer(p)))
  BY <1>3, PeerHas, BurnJoint
<1>5. /\ u.root_key = session[p].root_key /\ u.send_epoch = session[p].send_epoch
      /\ u.pending = session[p].pending
  BY PeerHas DEF PutSlot, Session
<1> HIDE DEF u
<1>6. Said(u, SentBy(p), ChunksBy(p))
  BY <1>5, PeerHas, StepFrame
<1>7. QED
  BY <1>1, <1>2, <1>4, <1>6, PeerQuiet DEF u

LEMMA PeerFiles ==
  ASSUME TypeOK, PeerInv, NEW p \in Parties, NEW c \in chunks, OpenChunkPartial(p, c)
  PROVE  PeerInv'
<1> DEFINE s == session[p]
           t1 == [s EXCEPT !.step1_chunks = {FileChunk(@, c)}]
           t2 == [s EXCEPT !.step2_chunks = {FileChunk(@, c)}]
<1>1. /\ session' = [session EXCEPT ![p] = t1] \/ session' = [session EXCEPT ![p] = t2]
      /\ records' = records /\ chunks' = chunks
  BY DEF OpenChunkPartial
<1>2. /\ s.step1_chunks \in SUBSET ChunkAccumulator /\ s.step2_chunks \in SUBSET ChunkAccumulator
      /\ c \in Chunk
  BY PeerHas DEF Session, TypeOK
<1>3. /\ {FileChunk(s.step1_chunks, c)} \in SUBSET ChunkAccumulator
      /\ {FileChunk(s.step2_chunks, c)} \in SUBSET ChunkAccumulator
  BY <1>2, FileChunkType
<1>4. /\ t1 \in Session /\ t1.root_key = s.root_key /\ t1.send_epoch = s.send_epoch
      /\ t1.send_chain = s.send_chain /\ t1.send_seq = s.send_seq
      /\ t1.recv_current = s.recv_current /\ t1.recv_previous = s.recv_previous
      /\ t1.pending = s.pending /\ t1.pending_epoch = s.pending_epoch
  BY <1>3, PeerHas, SessionFields DEF Session
<1>5. /\ t2 \in Session /\ t2.root_key = s.root_key /\ t2.send_epoch = s.send_epoch
      /\ t2.send_chain = s.send_chain /\ t2.send_seq = s.send_seq
      /\ t2.recv_current = s.recv_current /\ t2.recv_previous = s.recv_previous
      /\ t2.pending = s.pending /\ t2.pending_epoch = s.pending_epoch
  BY <1>3, PeerHas, SessionFields DEF Session
<1> HIDE DEF t1, t2
<1>6. s.pending # {} => s.pending_epoch = s.send_epoch
  BY PeerHas DEF LocalInv
<1>7. /\ Joint(t1, session[Peer(p)], SentBy(p), SentBy(Peer(p)))
      /\ Said(t1, SentBy(p), ChunksBy(p))
  BY <1>4, <1>6, PeerHas, FrameJoint, StepFrame
<1>8. /\ Joint(t2, session[Peer(p)], SentBy(p), SentBy(Peer(p)))
      /\ Said(t2, SentBy(p), ChunksBy(p))
  BY <1>5, <1>6, PeerHas, FrameJoint, StepFrame
<1>9. QED
  BY <1>1, <1>7, <1>8, PeerQuiet

LEMMA PeerAnswers ==
  ASSUME TypeOK, PeerInv, NEW p \in Parties, NEW r \in records, OpenStep1(p, r)
  PROVE  PeerInv'
<1>1. PICK c \in Slot(session[p], r.epoch) : Answers(p, r, c)
  BY OpenStep1Facts
<1> DEFINE s == PutSlot(session[p], Consume(c, r))
           new == SealedRecord(p, s, [kind |-> "step2", id |-> fresh'])
           v == SealPayload(s)
           u == AdvanceEpoch([v EXCEPT !.pending = {}], v.send_epoch, <<r.payload.id, fresh'>>, FALSE)
<1>2. /\ fresh' \in Nat /\ chunks' = chunks /\ r.payload.id \in Nat
  BY RecordFacts DEF OpenStep1, TypeOK
<1>3. /\ s \in Session /\ s.send_epoch = session[p].send_epoch
      /\ Joint(s, session[Peer(p)], SentBy(p), SentBy(Peer(p)))
  BY <1>1, OpenedFacts DEF Answers
<1>4. new \in Record /\ new.from = p
  <2>1. [kind |-> "step2", id |-> fresh'] \in Payload
    BY <1>2 DEF Payload
  <2>2. QED
    BY <1>3, <2>1, SealedRecordType DEF SealedRecord
<1>5. /\ new.epoch = session[p].send_epoch
      /\ new.payload.kind = "step2" /\ new.payload.id = fresh'
  BY <1>3 DEF SealedRecord
<1>6. Joint(v, session[Peer(p)], SentBy(p) \cup {new}, SentBy(Peer(p)))
  BY <1>3, PeerHas, SealJoint
<1>7. /\ v \in Session /\ v.root_key = session[p].root_key
      /\ v.send_epoch = session[p].send_epoch /\ v.pending = {}
      /\ session[Peer(p)].send_epoch = v.send_epoch
      /\ session[Peer(p)].pending = {r.payload.id}
      /\ records' = records \cup {new} /\ session' = [session EXCEPT ![p] = u]
  BY <1>1 DEF Answers
<1> HIDE DEF v, new
<1>8. Joint(u, session[Peer(p)], SentBy(p) \cup {new}, SentBy(Peer(p)))
  <2>1. SentBy(p) \cup {new} \in SUBSET Record
    BY <1>4, PeerHas
  <2>2. QED
    BY <1>2, <1>6, <1>7, <2>1, PeerHas, RespondJoint
<1>9. Advanced(v, u, <<r.payload.id, fresh'>>, FALSE)
  <2>1. LocalInv(v) /\ SessionInv(v)
    BY <1>6 DEF Joint
  <2>2. <<r.payload.id, fresh'>> \in Nat \X Nat
    BY <1>2
  <2>3. QED
    BY <1>7, <2>1, <2>2, AdvanceFacts
<1>10. /\ u \in Session /\ u.send_epoch = session[p].send_epoch + 1
       /\ u.root_key = Append(session[p].root_key, <<r.payload.id, fresh'>>)
  BY <1>7, <1>9 DEF Advanced
<1> HIDE DEF u
<1>11. Said(u, SentBy(p), ChunksBy(p))
  BY <1>10, PeerHas, StepAdvance
<1>12. StepInv(u, 2, session[p].send_epoch, fresh')
  BY <1>2, <1>10, PeerHas, ReplySaid
<1>13. Said(u, SentBy(p) \cup {new}, ChunksBy(p))
  BY <1>5, <1>11, <1>12 DEF Said
<1>14. /\ SentBy(p)' = SentBy(p) \cup {new} /\ SentBy(Peer(p))' = SentBy(Peer(p))
       /\ ChunksBy(p)' = ChunksBy(p) /\ ChunksBy(Peer(p))' = ChunksBy(Peer(p))
  BY <1>2, <1>4, <1>7, Grown
<1>15. QED
  BY <1>7, <1>8, <1>13, <1>14, PeerStep

LEMMA PeerAnswersChunks ==
  ASSUME TypeOK, PeerInv, NEW p \in Parties, NEW c \in chunks, OpenChunkStep1(p, c)
  PROVE  PeerInv'
<1> DEFINE v == [session[p] EXCEPT !.step1_chunks = {}, !.last_step1 = {c.nonce}]
           u == AdvanceEpoch([v EXCEPT !.pending = {}], v.send_epoch, <<c.payload, fresh'>>, FALSE)
           built == ChunkRecords(p, session[p].root_key, 2, fresh', fresh', c.data, c.parity)
<1>1. /\ v \in Session /\ v.root_key = session[p].root_key
      /\ v.send_epoch = session[p].send_epoch /\ v.pending = {}
      /\ v.send_chain = session[p].send_chain /\ v.send_seq = session[p].send_seq
      /\ v.recv_current = session[p].recv_current
      /\ v.recv_previous = session[p].recv_previous
      /\ session[p].pending = {} /\ c \in Chunk /\ fresh' \in Nat
      /\ session[Peer(p)].send_epoch = session[p].send_epoch
      /\ session[Peer(p)].pending = {c.payload}
      /\ session' = [session EXCEPT ![p] = u]
  BY OpenChunkStep1Facts
<1> HIDE DEF v
<1>2. records' = records /\ chunks' = chunks \cup built
  BY DEF OpenChunkStep1
<1>3. c.payload \in Nat
  BY <1>1 DEF Chunk
<1>4. Joint(v, session[Peer(p)], SentBy(p), SentBy(Peer(p)))
  BY <1>1, PeerHas, FrameJoint
<1>5. Joint(u, session[Peer(p)], SentBy(p), SentBy(Peer(p)))
  BY <1>1, <1>3, <1>4, PeerHas, RespondJoint
<1>6. Advanced(v, u, <<c.payload, fresh'>>, FALSE)
  <2>1. LocalInv(v) /\ SessionInv(v)
    BY <1>4 DEF Joint
  <2>2. <<c.payload, fresh'>> \in Nat \X Nat
    BY <1>1, <1>3
  <2>3. QED
    BY <1>1, <2>1, <2>2, AdvanceFacts
<1>7. /\ u \in Session /\ u.send_epoch = session[p].send_epoch + 1
      /\ u.root_key = Append(session[p].root_key, <<c.payload, fresh'>>)
  BY <1>1, <1>6 DEF Advanced
<1>8. \A d \in built : /\ d.from = p /\ d.step = 2 /\ d.payload = fresh'
                       /\ Len(d.key.root) = session[p].send_epoch
  BY ChunkRecordsFacts, PeerHas
<1> HIDE DEF u, built
<1>9. Said(u, SentBy(p), ChunksBy(p))
  BY <1>7, PeerHas, StepAdvance
<1>10. StepInv(u, 2, session[p].send_epoch, fresh')
  BY <1>1, <1>3, <1>7, PeerHas, ReplySaid
<1>11. Said(u, SentBy(p), ChunksBy(p) \cup built)
  BY <1>8, <1>9, <1>10 DEF Said
<1>12. /\ SentBy(p)' = SentBy(p) /\ SentBy(Peer(p))' = SentBy(Peer(p))
       /\ ChunksBy(p)' = ChunksBy(p) \cup built /\ ChunksBy(Peer(p))' = ChunksBy(Peer(p))
  BY <1>2, <1>8, Grown
<1>13. QED
  BY <1>1, <1>5, <1>11, <1>12, PeerStep

\* The initiator of a step follows, by a record or by chunks.
LEMMA PeerFollows ==
  ASSUME TypeOK, PeerInv, NEW p \in Parties, NEW v \in Session,
         Joint(v, session[Peer(p)], SentBy(p), SentBy(Peer(p))),
         v.send_epoch = session[p].send_epoch, v.root_key = session[p].root_key,
         NEW kex \in Nat, NEW id \in Nat,
         session[Peer(p)].send_epoch = session[p].send_epoch + 1,
         session[Peer(p)].root_key = Append(session[p].root_key, <<kex, id>>),
         session' = [session EXCEPT
           ![p] = AdvanceEpoch([v EXCEPT !.pending = {}], v.send_epoch, <<kex, id>>, TRUE)],
         records' = records, chunks' = chunks
  PROVE  PeerInv'
<1> DEFINE u == AdvanceEpoch([v EXCEPT !.pending = {}], v.send_epoch, <<kex, id>>, TRUE)
<1>1. Joint(u, session[Peer(p)], SentBy(p), SentBy(Peer(p)))
  BY PeerHas, FollowJoint
<1>2. Advanced(v, u, <<kex, id>>, TRUE)
  <2>1. LocalInv(v) /\ SessionInv(v)
    BY DEF Joint
  <2>2. <<kex, id>> \in Nat \X Nat
    OBVIOUS
  <2>3. QED
    BY <2>1, <2>2, AdvanceFacts
<1>3. u \in Session /\ u.send_epoch = session[p].send_epoch + 1
  BY <1>2 DEF Advanced
<1> HIDE DEF u
<1>4. Said(u, SentBy(p), ChunksBy(p))
  BY <1>3, PeerHas, StepAdvance
<1>5. QED
  BY <1>1, <1>4, PeerQuiet DEF u

LEMMA PeerFinishes ==
  ASSUME TypeOK, PeerInv, NEW p \in Parties, NEW r \in records, OpenStep2(p, r)
  PROVE  PeerInv'
<1>1. PICK c \in Slot(session[p], r.epoch), kex \in Nat : Finishes(p, r, c, kex)
  BY OpenStep2Facts
<1> DEFINE s == PutSlot(session[p], Consume(c, r))
<1>2. /\ s \in Session /\ s.send_epoch = session[p].send_epoch
      /\ s.root_key = session[p].root_key
      /\ Joint(s, session[Peer(p)], SentBy(p), SentBy(Peer(p)))
  BY <1>1, OpenedFacts DEF Finishes
<1>3. records' = records /\ chunks' = chunks
  BY DEF OpenStep2
<1>4. /\ r.payload.id \in Nat
      /\ session[Peer(p)].send_epoch = session[p].send_epoch + 1
      /\ session[Peer(p)].root_key = Append(session[p].root_key, <<kex, r.payload.id>>)
      /\ session' = [session EXCEPT
           ![p] = AdvanceEpoch([s EXCEPT !.pending = {}], s.send_epoch,
                               <<kex, r.payload.id>>, TRUE)]
  BY <1>1 DEF Finishes
<1> HIDE DEF s
<1>5. QED
  BY <1>2, <1>3, <1>4, PeerFollows

LEMMA PeerFinishesChunks ==
  ASSUME TypeOK, PeerInv, NEW p \in Parties, NEW c \in chunks, OpenChunkStep2(p, c)
  PROVE  PeerInv'
<1> DEFINE v == [session[p] EXCEPT !.step2_chunks = {}, !.last_step2 = {c.nonce}]
<1>1. PICK kex \in Nat : FinishesChunks(p, c, kex)
  BY OpenChunkStep2Facts
<1>2. records' = records /\ chunks' = chunks
  BY DEF OpenChunkStep2
<1>3. /\ v \in Session /\ v.root_key = session[p].root_key
      /\ v.send_epoch = session[p].send_epoch
      /\ v.pending = session[p].pending /\ v.pending_epoch = session[p].pending_epoch
      /\ v.send_chain = session[p].send_chain /\ v.send_seq = session[p].send_seq
      /\ v.recv_current = session[p].recv_current
      /\ v.recv_previous = session[p].recv_previous
      /\ c.payload \in Nat
      /\ session[Peer(p)].send_epoch = session[p].send_epoch + 1
      /\ session[Peer(p)].root_key = Append(session[p].root_key, <<kex, c.payload>>)
      /\ session' = [session EXCEPT
           ![p] = AdvanceEpoch([v EXCEPT !.pending = {}], v.send_epoch,
                               <<kex, c.payload>>, TRUE)]
  BY <1>1 DEF FinishesChunks
<1> HIDE DEF v
<1>4. v.pending # {} => v.pending_epoch = v.send_epoch
  BY <1>3, PeerHas DEF LocalInv
<1>5. Joint(v, session[Peer(p)], SentBy(p), SentBy(Peer(p)))
  BY <1>3, <1>4, PeerHas, FrameJoint
<1>6. QED
  BY <1>2, <1>3, <1>5, PeerFollows

LEMMA PeerNext == TypeOK /\ PeerInv /\ [Next]_vars => PeerInv'
<1> SUFFICES ASSUME TypeOK, PeerInv, [Next]_vars
             PROVE  PeerInv'
  OBVIOUS
<1>1. CASE UNCHANGED vars
  BY <1>1 DEF vars, PeerInv, SentBy, ChunksBy
<1>2. ASSUME NEW p \in Parties, Seal(p) \/ Initiate(p)
      PROVE  PeerInv'
  BY <1>2, PeerSeals, PeerInitiatesRatchet, PeerInitiatesIncremental DEF Initiate
<1>3. ASSUME NEW p \in Parties, NEW r \in records, OpenApplication(p, r) \/ OpenBurns(p, r)
      PROVE  PeerInv'
  BY <1>3, PeerOpens, PeerBurns
<1>4. ASSUME NEW p \in Parties, OpenControl(p)
      PROVE  PeerInv'
  BY <1>4, PeerOpens, PeerAnswers, PeerFinishes DEF OpenControl
<1>5. ASSUME NEW p \in Parties, OpenChunk(p)
      PROVE  PeerInv'
  BY <1>5, PeerFiles, PeerAnswersChunks, PeerFinishesChunks DEF OpenChunk
<1>6. QED
  BY <1>1, <1>2, <1>3, <1>4, <1>5 DEF Next

-----------------------------------------------------------------------------
(***************************************************************************)
(* The peers' chains meet.                                                 *)
(***************************************************************************)
LEMMA SameChainKey ==
  ASSUME NEW k \in Chain, NEW l \in Chain, k.root = l.root, k.dir = l.dir, k.pos = l.pos
  PROVE  k = l
BY DEF Chain

LEMMA AdvanceFields ==
  ASSUME NEW k \in Chain, NEW n \in Nat
  PROVE  /\ Advance(k, n) \in Chain /\ Advance(k, n).root = k.root
         /\ Advance(k, n).dir = k.dir /\ Advance(k, n).pos = k.pos + n
BY DEF Advance, Chain

\* t's chain for the epoch that s sends in is s's own.
LEMMA ChainsMeet ==
  ASSUME NEW s \in Session, NEW t \in Session, NEW mine, NEW theirs, Joint(s, t, mine, theirs),
         NEW c \in Slot(t, s.send_epoch)
  PROVE  /\ c \in ReceiveChain /\ c.expected_seq <= s.send_seq
         /\ Advance(c.chain, s.send_seq - c.expected_seq) = s.send_chain
<1>1. c \in ReceiveChain /\ c \in RecvChains(t) /\ c.epoch = s.send_epoch
  BY SlotType
<1>2. /\ s.send_epoch \in Nat /\ t.send_epoch \in Nat /\ s.send_seq \in Nat
      /\ s.send_chain \in Chain /\ c.chain \in Chain /\ c.expected_seq \in Nat
  BY <1>1, SessionFacts, ChainFacts
<1>3. c.expected_seq <= s.send_seq
  BY DEF Joint, PairInv
<1>4. c.chain.root = s.root_key /\ c.chain.dir = s.send_chain.dir
  <2>1. CASE t.send_epoch = s.send_epoch
    <3>1. c = t.recv_current
      BY <1>1, <1>2, <2>1 DEF Slot, Joint, LocalInv, RecvChains
    <3>2. QED
      BY <2>1, <3>1 DEF Joint, SessionInv, PairInv
  <2>2. CASE s.send_epoch < t.send_epoch
    <3>1. Behind(s, t) /\ c \in t.recv_previous
      BY <1>1, <1>2, <2>2 DEF Joint, PairInv, LocalInv, RecvChains
    <3>2. QED
      BY <3>1 DEF Behind
  <2>3. CASE t.send_epoch < s.send_epoch
    BY <1>1, <1>2, <2>3 DEF Joint, LocalInv, RecvChains
  <2>4. QED
    BY <1>2, <2>1, <2>2, <2>3
<1>5. c.chain.pos = c.expected_seq
  BY <1>1 DEF Joint, SessionInv, Keyed
<1>6. s.send_chain.root = s.root_key /\ s.send_chain.pos = s.send_seq
  BY DEF Joint, SessionInv
<1> DEFINE n == s.send_seq - c.expected_seq
<1>7. n \in Nat /\ c.expected_seq + n = s.send_seq
  BY <1>2, <1>3
<1> HIDE DEF n
<1>8. Advance(c.chain, n) = s.send_chain
  <2>1. /\ Advance(c.chain, n) \in Chain /\ Advance(c.chain, n).root = c.chain.root
        /\ Advance(c.chain, n).dir = c.chain.dir /\ Advance(c.chain, n).pos = c.chain.pos + n
    BY <1>2, <1>7, AdvanceFields
  <2>2. QED
    BY <1>2, <1>4, <1>5, <1>6, <1>7, <2>1, SameChainKey
<1>9. QED
  BY <1>1, <1>3, <1>8 DEF n

LEMMA PeerInvImplies == TypeOK /\ PeerInv => PeerReads
<1> SUFFICES ASSUME TypeOK, PeerInv, NEW p \in Parties, NEW s, NEW q,
                    s = session[p], q = session[Peer(p)]
             PROVE  /\ s.send_epoch <= q.send_epoch => Slot(q, s.send_epoch) # {}
                    /\ \A c \in Slot(q, s.send_epoch) :
                         /\ c.expected_seq <= s.send_seq
                         /\ Advance(c.chain, s.send_seq - c.expected_seq) = s.send_chain
  BY DEF PeerReads
<1>1. s \in Session /\ q \in Session /\ Joint(s, q, SentBy(p), SentBy(Peer(p)))
  BY PeerHas
<1>2. s.send_epoch \in Nat /\ q.send_epoch \in Nat /\ q.recv_current.epoch = q.send_epoch
  BY <1>1, SessionFacts DEF Joint, LocalInv
<1>3. CASE s.send_epoch = q.send_epoch
  BY <1>1, <1>2, <1>3, ChainsMeet DEF Slot
<1>4. CASE s.send_epoch < q.send_epoch
  <2>1. Behind(s, q)
    BY <1>1, <1>4 DEF Joint, PairInv
  <2>2. Slot(q, s.send_epoch) # {}
    BY <1>2, <1>4, <2>1 DEF Behind, Slot
  <2>3. QED
    BY <1>1, <2>2, ChainsMeet
<1>5. CASE q.send_epoch < s.send_epoch
  BY <1>1, <1>2, <1>5, ChainsMeet
<1>6. QED
  BY <1>2, <1>3, <1>4, <1>5

\* What both peers' sessions are, at every moment.
LEMMA PeerCorrect == Spec => []PeerInv
  BY TypeCorrect, PeerInit, PeerNext, PTL DEF Spec

(***************************************************************************)
(* Unless its peer lags an epoch behind, what a session seals the peer can *)
(* open: it holds a chain for the epoch, and that chain derives the key.   *)
(***************************************************************************)
THEOREM ChainsAlwaysMeet == Spec => []PeerReads
  BY TypeCorrect, PeerCorrect, PeerInvImplies, PTL

-----------------------------------------------------------------------------
(***************************************************************************)
(* The cache of skipped keys: no larger than its bound, and none missing.  *)
(***************************************************************************)
LEMMA SkippedKeysFinite ==
  ASSUME NEW c \in ReceiveChain, NEW seq \in Nat, c.expected_seq <= seq
  PROVE  /\ IsFiniteSet(SkippedKeys(c, seq))
         /\ Cardinality(SkippedKeys(c, seq)) <= seq - c.expected_seq
<1> DEFINE gap == c.expected_seq .. (seq - 1)
           f == [n \in gap |-> [seq |-> n, key |-> Advance(c.chain, n - c.expected_seq)]]
           T == SkippedKeys(c, seq)
<1>1. c.expected_seq \in Nat
  BY ChainFacts
<1>2. IsFiniteSet(gap) /\ Cardinality(gap) = seq - c.expected_seq
  <2>1. c.expected_seq \in Int /\ seq - 1 \in Int
    BY <1>1
  <2>2. /\ IsFiniteSet(gap)
        /\ Cardinality(gap)
             = IF c.expected_seq > seq - 1 THEN 0 ELSE (seq - 1) - c.expected_seq + 1
    BY <2>1, FS_Interval
  <2>3. QED
    BY <1>1, <2>2
<1>3. T = {[seq |-> n, key |-> Advance(c.chain, n - c.expected_seq)] : n \in gap}
  BY DEF SkippedKeys
<1>4. f \in [gap -> T] /\ \A k \in T : \E n \in gap : f[n] = k
  BY <1>3
<1> HIDE DEF f, T, gap
<1>5. f \in Surjection(gap, T)
  BY <1>4 DEF Surjection
<1>6. IsFiniteSet(T) /\ Cardinality(T) <= Cardinality(gap)
  BY <1>2, <1>5, FS_Surjection
<1>7. QED
  BY <1>2, <1>6 DEF T

LEMMA OpenBounded ==
  ASSUME NEW c \in ReceiveChain, NEW r \in Record, Opens(c, r),
         IsFiniteSet(c.skipped), Cardinality(c.skipped) <= MaxSkippedKeys
  PROVE  /\ IsFiniteSet(Consume(c, r).skipped)
         /\ Cardinality(Consume(c, r).skipped) <= MaxSkippedKeys
<1>1. /\ c.expected_seq \in Nat /\ r.seq \in Nat /\ MaxSkippedKeys \in Nat
      /\ Cardinality(c.skipped) \in Nat
  BY ChainFacts, RecordFacts, SkipAssumption, FS_CardinalityType
<1>2. CASE r.seq < c.expected_seq
  <2>1. Consume(c, r).skipped \in SUBSET c.skipped
    BY <1>2 DEF Consume, DropKey, ReceiveChain
  <2>2. /\ IsFiniteSet(Consume(c, r).skipped)
        /\ Cardinality(Consume(c, r).skipped) <= Cardinality(c.skipped)
    BY <2>1, FS_Subset
  <2>3. Cardinality(Consume(c, r).skipped) \in Nat
    BY <2>2, FS_CardinalityType
  <2>4. QED
    BY <1>1, <2>2, <2>3
<1>3. CASE ~(r.seq < c.expected_seq)
  <2> DEFINE T == SkippedKeys(c, r.seq)
  <2>1. Consume(c, r).skipped = c.skipped \cup T
    BY <1>3 DEF Consume, ReceiveChain
  <2>2. IsFiniteSet(T) /\ Cardinality(T) <= r.seq - c.expected_seq
    BY <1>1, <1>3, SkippedKeysFinite
  <2>3. Cardinality(c.skipped) + (r.seq - c.expected_seq) <= MaxSkippedKeys
    BY <1>1, <1>3 DEF Opens, SkipFits
  <2> HIDE DEF T
  <2>4. /\ IsFiniteSet(c.skipped \cup T)
        /\ Cardinality(c.skipped \cup T)
             = Cardinality(c.skipped) + Cardinality(T) - Cardinality(c.skipped \cap T)
    BY <2>2, FS_Union
  <2>5. Cardinality(T) \in Nat /\ Cardinality(c.skipped \cap T) \in Nat
    BY <2>2, FS_CardinalityType, FS_Intersection
  <2>6. QED
    BY <1>1, <2>1, <2>2, <2>3, <2>4, <2>5
<1>4. QED
  BY <1>2, <1>3

LEMMA DropBounded ==
  ASSUME NEW c \in ReceiveChain, NEW seq,
         IsFiniteSet(c.skipped), Cardinality(c.skipped) <= MaxSkippedKeys
  PROVE  /\ IsFiniteSet(DropKey(c, seq).skipped)
         /\ Cardinality(DropKey(c, seq).skipped) <= MaxSkippedKeys
<1>1. DropKey(c, seq).skipped \in SUBSET c.skipped
  BY DEF DropKey, ReceiveChain
<1>2. /\ IsFiniteSet(DropKey(c, seq).skipped)
      /\ Cardinality(DropKey(c, seq).skipped) <= Cardinality(c.skipped)
  BY <1>1, FS_Subset
<1>3. /\ Cardinality(DropKey(c, seq).skipped) \in Nat /\ Cardinality(c.skipped) \in Nat
      /\ MaxSkippedKeys \in Nat
  BY <1>2, FS_CardinalityType, SkipAssumption
<1>4. QED
  BY <1>2, <1>3

\* Bounded and Cached read the receive chains alone.
LEMMA FrameCached ==
  ASSUME NEW s, NEW u, NEW theirs, NEW Op, NEW Bu, Bounded(s), Cached(s, theirs, Op, Bu),
         u.recv_current = s.recv_current, u.recv_previous = s.recv_previous
  PROVE  Bounded(u) /\ Cached(u, theirs, Op, Bu)
BY DEF Bounded, Cached, RecvChains, Slot

\* A new record is ahead of its receiver's chain: no key of it is due yet.
LEMMA SealCached ==
  ASSUME NEW s \in Session, NEW t \in Session, NEW mine, NEW theirs, Joint(s, t, mine, theirs),
         NEW Op, NEW Bu, Cached(t, mine, Op, Bu), NEW p, NEW payload
  PROVE  Cached(t, mine \cup {SealedRecord(p, s, payload)}, Op, Bu)
<1> DEFINE new == SealedRecord(p, s, payload)
<1>1. new.epoch = s.send_epoch /\ new.seq = s.send_seq
  BY DEF SealedRecord
<1>2. ASSUME NEW c \in Slot(t, s.send_epoch)
      PROVE  ~(s.send_seq < c.expected_seq)
  <2>1. c.expected_seq <= s.send_seq
    BY DEF Joint, PairInv
  <2>2. c.expected_seq \in Nat /\ s.send_seq \in Nat
    BY SlotType, ChainFacts, SessionFacts
  <2>3. QED
    BY <2>1, <2>2
<1> HIDE DEF new
<1>3. Cached(t, mine \cup {new}, Op, Bu)
  BY <1>1, <1>2 DEF Cached
<1>4. QED
  BY <1>3 DEF new

\* Opening r takes the keys of the gap before it, and no other record's.
LEMMA OpenCached ==
  ASSUME NEW s \in Session, NEW t \in Session, NEW mine, NEW theirs \in SUBSET Record,
         Joint(s, t, mine, theirs), NEW Op, NEW Bu, Bounded(s), Cached(s, theirs, Op, Bu),
         NEW r \in theirs, NEW c \in Slot(s, r.epoch), Opens(c, r)
  PROVE  LET u == PutSlot(s, Consume(c, r))
         IN Bounded(u) /\ Cached(u, theirs, Op \cup {r}, Bu)
<1> DEFINE d == Consume(c, r)
           u == PutSlot(s, d)
<1>1. r \in Record /\ r.epoch \in Nat /\ r.seq \in Nat
  BY RecordFacts
<1>2. /\ c \in ReceiveChain /\ c \in RecvChains(s) /\ c.epoch = r.epoch
      /\ c.expected_seq \in Nat /\ c.chain \in Chain
  BY SlotType, ChainFacts
<1>3. Keyed(c) /\ \A k \in c.skipped : k.seq < c.expected_seq
  BY <1>2 DEF Joint, SessionInv, LocalInv
<1>4. d \in ReceiveChain /\ d.epoch = r.epoch
  BY <1>1, <1>2, <1>3, ConsumeType, ConsumeSame DEF SameChain, ChainGrows
<1>5. /\ \A e \in RecvChains(u) : e = d \/ e \in RecvChains(s)
      /\ \A e : Slot(u, e) \subseteq IF e = r.epoch THEN {d} ELSE Slot(s, e)
  BY <1>1, <1>4, PutSlotFacts DEF Joint
<1>6. IsFiniteSet(d.skipped) /\ Cardinality(d.skipped) <= MaxSkippedKeys
  BY <1>1, <1>2, OpenBounded DEF Bounded
<1>7. ASSUME NEW o \in theirs \ (Op \cup {r}), <<o.epoch, o.seq>> \notin Bu,
             o.epoch = r.epoch, o.seq < d.expected_seq
      PROVE  [seq |-> o.seq, key |-> o.key] \in d.skipped
  <2>1. /\ o \in Record /\ o.epoch \in Nat /\ o.seq \in Nat /\ o.key \in Chain
        /\ o.seq # r.seq
    BY <1>7, RecordFacts DEF Joint, SealedInv
  <2>2. o.seq < c.expected_seq => [seq |-> o.seq, key |-> o.key] \in c.skipped
    BY <1>7 DEF Cached
  <2>3. CASE r.seq < c.expected_seq
    <3>1. d.expected_seq = c.expected_seq /\ d.skipped = {k \in c.skipped : k.seq # r.seq}
      BY <2>3 DEF Consume, DropKey, ReceiveChain
    <3>2. QED
      BY <1>7, <2>1, <2>2, <3>1
  <2>4. CASE ~(r.seq < c.expected_seq)
    <3>1. /\ d.expected_seq = r.seq + 1
          /\ d.skipped = c.skipped \cup SkippedKeys(c, r.seq)
      BY <2>4 DEF Consume, ReceiveChain
    <3>2. CASE o.seq < c.expected_seq
      BY <2>2, <3>1, <3>2
    <3>3. CASE ~(o.seq < c.expected_seq)
      <4> DEFINE n == o.seq - c.expected_seq
      <4>1. n \in Nat /\ o.seq \in c.expected_seq .. (r.seq - 1)
        BY <1>1, <1>2, <1>7, <2>1, <3>1, <3>3
      <4>2. /\ o.key.pos = o.seq /\ o.key.root = c.chain.root /\ o.key.dir = c.chain.dir
        BY <1>7 DEF Joint, SealedInv, RecordInv
      <4>3. c.chain.pos + n = o.seq
        BY <1>2, <1>3, <2>1 DEF Keyed
      <4>4. /\ Advance(c.chain, n) \in Chain /\ Advance(c.chain, n).root = c.chain.root
            /\ Advance(c.chain, n).dir = c.chain.dir
            /\ Advance(c.chain, n).pos = c.chain.pos + n
        BY <1>2, <4>1, AdvanceFields
      <4>5. Advance(c.chain, n) = o.key
        BY <2>1, <4>2, <4>3, <4>4, SameChainKey
      <4>6. [seq |-> o.seq, key |-> Advance(c.chain, n)] \in SkippedKeys(c, r.seq)
        BY <4>1 DEF SkippedKeys
      <4>7. QED
        BY <3>1, <4>5, <4>6
    <3>4. QED
      BY <3>2, <3>3
  <2>5. QED
    BY <2>3, <2>4
<1> HIDE DEF d, u
<1>8. Bounded(u)
  BY <1>5, <1>6 DEF Bounded
<1>9. Cached(u, theirs, Op \cup {r}, Bu)
  BY <1>5, <1>7 DEF Cached
<1>10. QED
  BY <1>8, <1>9 DEF d, u

\* A record that does not decrypt burns the key of its number only.
LEMMA BurnCached ==
  ASSUME NEW s \in Session, LocalInv(s), NEW theirs, NEW Op, NEW Bu,
         Bounded(s), Cached(s, theirs, Op, Bu),
         NEW epoch \in Nat, NEW seq, NEW c \in Slot(s, epoch)
  PROVE  LET u == PutSlot(s, DropKey(c, seq))
         IN Bounded(u) /\ Cached(u, theirs, Op, Bu \cup {<<epoch, seq>>})
<1> DEFINE d == DropKey(c, seq)
           u == PutSlot(s, d)
<1>1. c \in ReceiveChain /\ c \in RecvChains(s) /\ c.epoch = epoch
  BY SlotType
<1>2. /\ d \in ReceiveChain /\ d.epoch = epoch /\ d.expected_seq = c.expected_seq
      /\ d.skipped = {k \in c.skipped : k.seq # seq}
  BY <1>1, DropKeyType DEF DropKey, ReceiveChain
<1>3. IsFiniteSet(d.skipped) /\ Cardinality(d.skipped) <= MaxSkippedKeys
  BY <1>1, DropBounded DEF Bounded
<1>4. /\ \A e \in RecvChains(u) : e = d \/ e \in RecvChains(s)
      /\ \A e : Slot(u, e) \subseteq IF e = epoch THEN {d} ELSE Slot(s, e)
  BY <1>2, PutSlotFacts
<1> HIDE DEF d, u
<1>5. Bounded(u)
  BY <1>3, <1>4 DEF Bounded
<1>6. ASSUME NEW o \in theirs \ Op, <<o.epoch, o.seq>> \notin Bu \cup {<<epoch, seq>>},
             NEW e \in Slot(u, o.epoch), o.seq < e.expected_seq
      PROVE  [seq |-> o.seq, key |-> o.key] \in e.skipped
  <2>1. CASE o.epoch = epoch
    <3>1. e = d /\ o.seq # seq
      BY <1>4, <1>6, <2>1
    <3>2. [seq |-> o.seq, key |-> o.key] \in c.skipped
      BY <1>2, <1>6, <2>1, <3>1 DEF Cached
    <3>3. QED
      BY <1>2, <3>1, <3>2
  <2>2. CASE o.epoch # epoch
    BY <1>4, <1>6, <2>2 DEF Cached
  <2>3. QED
    BY <2>1, <2>2
<1>7. Cached(u, theirs, Op, Bu \cup {<<epoch, seq>>})
  BY <1>6 DEF Cached
<1>8. QED
  BY <1>5, <1>7 DEF d, u

\* An epoch's new chain has no number behind it.
LEMMA AdvanceCached ==
  ASSUME NEW s \in Session, NEW u, NEW secret, NEW is_initiator, LocalInv(s),
         Advanced(s, u, secret, is_initiator), NEW theirs \in SUBSET Record, NEW Op, NEW Bu,
         Bounded(s), Cached(s, theirs, Op, Bu)
  PROVE  Bounded(u) /\ Cached(u, theirs, Op, Bu)
<1>1. /\ u.recv_current.expected_seq = 0 /\ u.recv_current.skipped = {}
      /\ u.recv_previous = {s.recv_current}
  BY DEF Advanced
<1>2. Bounded(u)
  BY <1>1, FS_EmptySet, SkipAssumption DEF Bounded, RecvChains
<1>3. ASSUME NEW o \in theirs \ Op, <<o.epoch, o.seq>> \notin Bu,
             NEW c \in Slot(u, o.epoch), o.seq < c.expected_seq
      PROVE  [seq |-> o.seq, key |-> o.key] \in c.skipped
  <2>1. o.seq \in Nat
    BY RecordFacts
  <2>2. c = s.recv_current /\ c.epoch = o.epoch
    BY <1>1, <1>3, <2>1 DEF Slot
  <2>3. c \in Slot(s, o.epoch)
    BY <2>2 DEF Slot
  <2>4. QED
    BY <1>3, <2>3 DEF Cached
<1>4. QED
  BY <1>2, <1>3 DEF Cached

LEMMA CacheInit == Init => CacheInv
<1> SUFFICES ASSUME Init, NEW p \in Parties
             PROVE  /\ Bounded(session[p])
                    /\ Cached(session[p], SentBy(Peer(p)), opened[p], burned[p])
  BY DEF CacheInv
<1>1. session[p].recv_current.skipped = {} /\ session[p].recv_previous = {}
  BY DEF Init, NewSession, RecvChain
<1>2. Bounded(session[p])
  BY <1>1, FS_EmptySet, SkipAssumption DEF Bounded, RecvChains
<1>3. SentBy(Peer(p)) = {}
  BY DEF Init, SentBy
<1>4. QED
  BY <1>2, <1>3 DEF Cached

\* A step of p's session, and of what p sent.
LEMMA CacheStep ==
  ASSUME TypeOK, CacheInv, NEW p \in Parties, NEW u, session' = [session EXCEPT ![p] = u],
         SentBy(Peer(p))' = SentBy(Peer(p)),
         \A q \in Parties : q # p => opened'[q] = opened[q] /\ burned'[q] = burned[q],
         Bounded(u), Cached(u, SentBy(Peer(p)), opened'[p], burned'[p]),
         Cached(session[Peer(p)], SentBy(p)', opened[Peer(p)], burned[Peer(p)])
  PROVE  CacheInv'
<1>1. Peer(p) \in Parties /\ Peer(p) # p /\ Peer(Peer(p)) = p
  BY PeerFacts
<1>2. session'[p] = u /\ session'[Peer(p)] = session[Peer(p)]
  BY <1>1 DEF TypeOK
<1>3. /\ Bounded(session'[p])
      /\ Cached(session'[p], SentBy(Peer(p))', opened'[p], burned'[p])
  BY <1>2
<1>4. /\ Bounded(session'[Peer(p)])
      /\ Cached(session'[Peer(p)], SentBy(p)', opened'[Peer(p)], burned'[Peer(p)])
  BY <1>1, <1>2 DEF CacheInv
<1>5. ASSUME NEW q \in Parties
      PROVE  /\ Bounded(session'[q])
             /\ Cached(session'[q], SentBy(Peer(q))', opened'[q], burned'[q])
  BY <1>1, <1>3, <1>4, PeerFacts
<1>6. QED
  BY <1>5 DEF CacheInv

\* What every step below starts from.
LEMMA CacheHas ==
  ASSUME CacheInv, NEW p \in Parties
  PROVE  /\ Bounded(session[p]) /\ Cached(session[p], SentBy(Peer(p)), opened[p], burned[p])
         /\ Cached(session[Peer(p)], SentBy(p), opened[Peer(p)], burned[Peer(p)])
BY PeerFacts DEF CacheInv

\* Steps of p that open nothing, and leave the receive chains alone or advance.
LEMMA CacheQuiet ==
  ASSUME TypeOK, CacheInv, NEW p \in Parties, NEW u, session' = [session EXCEPT ![p] = u],
         SentBy(Peer(p))' = SentBy(Peer(p)), opened' = opened, burned' = burned,
         Bounded(u), Cached(u, SentBy(Peer(p)), opened[p], burned[p]),
         Cached(session[Peer(p)], SentBy(p)', opened[Peer(p)], burned[Peer(p)])
  PROVE  CacheInv'
BY CacheStep

LEMMA CacheSeals ==
  ASSUME TypeOK, PeerInv, CacheInv, NEW p \in Parties, Seal(p) \/ InitiateRatchet(p)
  PROVE  CacheInv'
<1>1. PICK payload, u :
        /\ session' = [session EXCEPT ![p] = u]
        /\ records' = records \cup {SealedRecord(p, session[p], payload)}
        /\ u.recv_current = session[p].recv_current
        /\ u.recv_previous = session[p].recv_previous
  <2>1. session[p] \in Session
    BY PeerHas
  <2>2. CASE Seal(p)
    <3> DEFINE u == SealPayload(session[p])
    <3>1. /\ u.recv_current = session[p].recv_current
          /\ u.recv_previous = session[p].recv_previous
      BY <2>1 DEF SealPayload, Session
    <3>2. QED
      BY <2>2, <3>1 DEF Seal
  <2>3. CASE InitiateRatchet(p)
    <3> DEFINE u == SetPending(SealPayload(session[p]), fresh')
    <3>1. /\ u.recv_current = session[p].recv_current
          /\ u.recv_previous = session[p].recv_previous
      BY <2>1 DEF SetPending, SealPayload, Session
    <3>2. QED
      BY <2>3, <3>1 DEF InitiateRatchet
  <2>4. QED
    BY <2>2, <2>3
<1>2. opened' = opened /\ burned' = burned
  BY DEF Seal, InitiateRatchet
<1> DEFINE new == SealedRecord(p, session[p], payload)
<1>3. new.from = p
  BY DEF SealedRecord
<1>4. /\ session[p] \in Session /\ session[Peer(p)] \in Session
      /\ Joint(session[p], session[Peer(p)], SentBy(p), SentBy(Peer(p)))
  BY PeerHas
<1>5. Cached(session[Peer(p)], SentBy(p) \cup {new}, opened[Peer(p)], burned[Peer(p)])
  BY <1>4, CacheHas, SealCached
<1> HIDE DEF new
<1>6. SentBy(p)' = SentBy(p) \cup {new} /\ SentBy(Peer(p))' = SentBy(Peer(p))
  BY <1>1, <1>3, Grown DEF new
<1>7. Bounded(u) /\ Cached(u, SentBy(Peer(p)), opened[p], burned[p])
  BY <1>1, CacheHas, FrameCached
<1>8. QED
  BY <1>1, <1>2, <1>5, <1>6, <1>7, CacheQuiet

\* Steps that leave records and receive chains alone.
LEMMA CacheFrame ==
  ASSUME TypeOK, CacheInv, NEW p \in Parties, NEW u, session' = [session EXCEPT ![p] = u],
         records' = records, opened' = opened, burned' = burned,
         u.recv_current = session[p].recv_current,
         u.recv_previous = session[p].recv_previous
  PROVE  CacheInv'
<1>1. SentBy(p)' = SentBy(p) /\ SentBy(Peer(p))' = SentBy(Peer(p))
  BY Grown
<1>2. Bounded(u) /\ Cached(u, SentBy(Peer(p)), opened[p], burned[p])
  BY CacheHas, FrameCached
<1>3. Cached(session[Peer(p)], SentBy(p), opened[Peer(p)], burned[Peer(p)])
  BY CacheHas
<1>4. QED
  BY <1>1, <1>2, <1>3, CacheQuiet

LEMMA CacheInitiates ==
  ASSUME TypeOK, PeerInv, CacheInv, NEW p \in Parties, NEW data, NEW parity,
         InitiateIncremental(p, data, parity)
  PROVE  CacheInv'
<1> DEFINE u == SetPending(session[p], fresh')
<1>1. /\ session' = [session EXCEPT ![p] = u]
      /\ records' = records /\ opened' = opened /\ burned' = burned
  BY DEF InitiateIncremental
<1>2. /\ u.recv_current = session[p].recv_current
      /\ u.recv_previous = session[p].recv_previous
  BY PeerHas DEF SetPending, Session
<1> HIDE DEF u
<1>3. QED
  BY <1>1, <1>2, CacheFrame

LEMMA CacheFiles ==
  ASSUME TypeOK, PeerInv, CacheInv, NEW p \in Parties, NEW c \in chunks, OpenChunkPartial(p, c)
  PROVE  CacheInv'
<1> DEFINE t1 == [session[p] EXCEPT !.step1_chunks = {FileChunk(@, c)}]
           t2 == [session[p] EXCEPT !.step2_chunks = {FileChunk(@, c)}]
<1>1. /\ session' = [session EXCEPT ![p] = t1] \/ session' = [session EXCEPT ![p] = t2]
      /\ records' = records /\ opened' = opened /\ burned' = burned
  BY DEF OpenChunkPartial
<1>2. /\ t1.recv_current = session[p].recv_current
      /\ t1.recv_previous = session[p].recv_previous
      /\ t2.recv_current = session[p].recv_current
      /\ t2.recv_previous = session[p].recv_previous
  BY PeerHas DEF Session
<1> HIDE DEF t1, t2
<1>3. QED
  BY <1>1, <1>2, CacheFrame

\* p's session once open_on is done with r, its peer's cache untouched.
LEMMA CacheOpened ==
  ASSUME TypeOK, PeerInv, CacheInv, NEW p \in Parties, NEW r \in records,
         NEW c \in Slot(session[p], r.epoch), Opens(c, r)
  PROVE  LET s == PutSlot(session[p], Consume(c, r))
         IN Bounded(s) /\ Cached(s, SentBy(Peer(p)), opened[p] \cup {r}, burned[p])
<1>1. r \in SentBy(Peer(p))
  BY OpensTheirs
<1>2. QED
  BY <1>1, PeerHas, CacheHas, OpenCached

LEMMA CacheOpens ==
  ASSUME TypeOK, PeerInv, CacheInv, NEW p \in Parties, NEW r \in records,
         OpenApplication(p, r) \/ OpenRefused(p, r)
  PROVE  CacheInv'
<1>1. PICK c \in Slot(session[p], r.epoch) :
        /\ Opens(c, r)
        /\ session' = [session EXCEPT ![p] = PutSlot(session[p], Consume(c, r))]
  BY DEF OpenApplication, OpenRefused
<1> DEFINE u == PutSlot(session[p], Consume(c, r))
<1>2. /\ records' = records /\ burned' = burned
      /\ opened'[p] = opened[p] \cup {r}
      /\ \A q \in Parties : q # p => opened'[q] = opened[q]
  BY DEF OpenApplication, OpenRefused, TypeOK
<1>3. Bounded(u) /\ Cached(u, SentBy(Peer(p)), opened'[p], burned'[p])
  BY <1>1, <1>2, CacheOpened
<1> HIDE DEF u
<1>4. SentBy(p)' = SentBy(p) /\ SentBy(Peer(p))' = SentBy(Peer(p))
  BY <1>2, Grown
<1>5. Cached(session[Peer(p)], SentBy(p), opened[Peer(p)], burned[Peer(p)])
  BY CacheHas
<1>6. QED
  BY <1>1, <1>2, <1>3, <1>4, <1>5, CacheStep DEF u

LEMMA CacheBurns ==
  ASSUME TypeOK, PeerInv, CacheInv, NEW p \in Parties, NEW r \in records, OpenBurns(p, r)
  PROVE  CacheInv'
<1>1. PICK c \in Slot(session[p], r.epoch) :
        session' = [session EXCEPT ![p] = PutSlot(session[p], DropKey(c, r.seq))]
  BY DEF OpenBurns
<1> DEFINE u == PutSlot(session[p], DropKey(c, r.seq))
<1>2. /\ records' = records /\ opened' = opened
      /\ burned'[p] = burned[p] \cup {<<r.epoch, r.seq>>}
      /\ \A q \in Parties : q # p => burned'[q] = burned[q]
  BY DEF OpenBurns, TypeOK
<1>3. r.epoch \in Nat /\ session[p] \in Session /\ LocalInv(session[p])
  BY RecordFacts, PeerHas DEF TypeOK
<1>4. Bounded(u) /\ Cached(u, SentBy(Peer(p)), opened'[p], burned'[p])
  BY <1>2, <1>3, CacheHas, BurnCached
<1> HIDE DEF u
<1>5. SentBy(p)' = SentBy(p) /\ SentBy(Peer(p))' = SentBy(Peer(p))
  BY <1>2, Grown
<1>6. Cached(session[Peer(p)], SentBy(p), opened[Peer(p)], burned[Peer(p)])
  BY CacheHas
<1>7. QED
  BY <1>1, <1>2, <1>4, <1>5, <1>6, CacheStep DEF u

\* A step that advances a session whose receive chains are those of s.
LEMMA CacheAdvances ==
  ASSUME NEW s, NEW v \in Session, LocalInv(v), SessionInv(v),
         v.recv_current = s.recv_current, v.recv_previous = s.recv_previous,
         NEW theirs \in SUBSET Record, NEW Op, NEW Bu, Bounded(s), Cached(s, theirs, Op, Bu),
         NEW kex \in Nat, NEW id \in Nat, NEW is_initiator \in BOOLEAN
  PROVE  LET u == AdvanceEpoch([v EXCEPT !.pending = {}], v.send_epoch, <<kex, id>>, is_initiator)
         IN Bounded(u) /\ Cached(u, theirs, Op, Bu)
<1> DEFINE u == AdvanceEpoch([v EXCEPT !.pending = {}], v.send_epoch, <<kex, id>>, is_initiator)
<1>1. <<kex, id>> \in Nat \X Nat
  OBVIOUS
<1>2. Advanced(v, u, <<kex, id>>, is_initiator)
  BY <1>1, AdvanceFacts
<1> HIDE DEF u
<1>3. Bounded(v) /\ Cached(v, theirs, Op, Bu)
  BY FrameCached
<1>4. QED
  BY <1>2, <1>3, AdvanceCached DEF u

LEMMA CacheAnswers ==
  ASSUME TypeOK, PeerInv, CacheInv, NEW p \in Parties, NEW r \in records, OpenStep1(p, r)
  PROVE  CacheInv'
<1>1. PICK c \in Slot(session[p], r.epoch) : Answers(p, r, c)
  BY OpenStep1Facts
<1> DEFINE s == PutSlot(session[p], Consume(c, r))
           new == SealedRecord(p, s, [kind |-> "step2", id |-> fresh'])
           v == SealPayload(s)
           u == AdvanceEpoch([v EXCEPT !.pending = {}], v.send_epoch, <<r.payload.id, fresh'>>, FALSE)
<1>2. /\ fresh' \in Nat /\ burned' = burned /\ r.payload.id \in Nat
      /\ opened'[p] = opened[p] \cup {r}
      /\ \A q \in Parties : q # p => opened'[q] = opened[q]
  BY RecordFacts DEF OpenStep1, TypeOK
<1>3. /\ Opens(c, r) /\ v \in Session
      /\ records' = records \cup {new} /\ session' = [session EXCEPT ![p] = u]
  BY <1>1 DEF Answers
<1>4. s \in Session /\ Joint(s, session[Peer(p)], SentBy(p), SentBy(Peer(p)))
  BY <1>3, OpenedFacts
<1>5. Bounded(s) /\ Cached(s, SentBy(Peer(p)), opened[p] \cup {r}, burned[p])
  BY <1>3, CacheOpened
<1> HIDE DEF s
<1>6. v.recv_current = s.recv_current /\ v.recv_previous = s.recv_previous
  BY <1>4 DEF SealPayload, Session
<1>7. LocalInv(v) /\ SessionInv(v)
  <2>1. Joint(v, session[Peer(p)], SentBy(p) \cup {new}, SentBy(Peer(p)))
    BY <1>4, PeerHas, SealJoint
  <2>2. QED
    BY <2>1 DEF Joint
<1>8. Cached(session[Peer(p)], SentBy(p) \cup {new}, opened[Peer(p)], burned[Peer(p)])
  BY <1>4, PeerHas, CacheHas, SealCached
<1>9. new.from = p
  BY DEF SealedRecord
<1> HIDE DEF v, new
<1>10. Bounded(u) /\ Cached(u, SentBy(Peer(p)), opened'[p], burned'[p])
  <2>1. SentBy(Peer(p)) \in SUBSET Record
    BY PeerHas
  <2>2. Bounded(u) /\ Cached(u, SentBy(Peer(p)), opened[p] \cup {r}, burned[p])
    BY <1>2, <1>3, <1>5, <1>6, <1>7, <2>1, CacheAdvances
  <2>3. QED
    BY <1>2, <2>2
<1> HIDE DEF u
<1>11. SentBy(p)' = SentBy(p) \cup {new} /\ SentBy(Peer(p))' = SentBy(Peer(p))
  BY <1>3, <1>9, Grown
<1>12. QED
  BY <1>2, <1>3, <1>8, <1>10, <1>11, CacheStep

LEMMA CacheFinishes ==
  ASSUME TypeOK, PeerInv, CacheInv, NEW p \in Parties, NEW r \in records, OpenStep2(p, r)
  PROVE  CacheInv'
<1>1. PICK c \in Slot(session[p], r.epoch), kex \in Nat : Finishes(p, r, c, kex)
  BY OpenStep2Facts
<1> DEFINE s == PutSlot(session[p], Consume(c, r))
           u == AdvanceEpoch([s EXCEPT !.pending = {}], s.send_epoch, <<kex, r.payload.id>>, TRUE)
<1>2. /\ records' = records /\ burned' = burned
      /\ opened'[p] = opened[p] \cup {r}
      /\ \A q \in Parties : q # p => opened'[q] = opened[q]
  BY DEF OpenStep2, TypeOK
<1>3. Opens(c, r) /\ r.payload.id \in Nat /\ session' = [session EXCEPT ![p] = u]
  BY <1>1 DEF Finishes
<1>4. s \in Session /\ LocalInv(s) /\ SessionInv(s)
  BY <1>3, OpenedFacts DEF Joint
<1>5. Bounded(s) /\ Cached(s, SentBy(Peer(p)), opened[p] \cup {r}, burned[p])
  BY <1>3, CacheOpened
<1> HIDE DEF s
<1>6. Bounded(u) /\ Cached(u, SentBy(Peer(p)), opened'[p], burned'[p])
  <2>1. SentBy(Peer(p)) \in SUBSET Record
    BY PeerHas
  <2>2. Bounded(u) /\ Cached(u, SentBy(Peer(p)), opened[p] \cup {r}, burned[p])
    BY <1>3, <1>4, <1>5, <2>1, CacheAdvances
  <2>3. QED
    BY <1>2, <2>2
<1> HIDE DEF u
<1>7. SentBy(p)' = SentBy(p) /\ SentBy(Peer(p))' = SentBy(Peer(p))
  BY <1>2, Grown
<1>8. Cached(session[Peer(p)], SentBy(p), opened[Peer(p)], burned[Peer(p)])
  BY CacheHas
<1>9. QED
  BY <1>2, <1>3, <1>6, <1>7, <1>8, CacheStep

LEMMA CacheAnswersChunks ==
  ASSUME TypeOK, PeerInv, CacheInv, NEW p \in Parties, NEW c \in chunks, OpenChunkStep1(p, c)
  PROVE  CacheInv'
<1> DEFINE v == [session[p] EXCEPT !.step1_chunks = {}, !.last_step1 = {c.nonce}]
           u == AdvanceEpoch([v EXCEPT !.pending = {}], v.send_epoch, <<c.payload, fresh'>>, FALSE)
<1>1. /\ v \in Session /\ v.root_key = session[p].root_key
      /\ v.send_epoch = session[p].send_epoch /\ v.pending = {}
      /\ v.send_chain = session[p].send_chain /\ v.send_seq = session[p].send_seq
      /\ v.recv_current = session[p].recv_current
      /\ v.recv_previous = session[p].recv_previous
      /\ session[p].pending = {} /\ c \in Chunk /\ fresh' \in Nat
      /\ session' = [session EXCEPT ![p] = u]
  BY OpenChunkStep1Facts
<1>2. c.payload \in Nat
  BY <1>1 DEF Chunk
<1> HIDE DEF v
<1>3. LocalInv(v) /\ SessionInv(v)
  <2>1. Joint(v, session[Peer(p)], SentBy(p), SentBy(Peer(p)))
    BY <1>1, PeerHas, FrameJoint
  <2>2. QED
    BY <2>1 DEF Joint
<1>4. Bounded(u) /\ Cached(u, SentBy(Peer(p)), opened[p], burned[p])
  BY <1>1, <1>2, <1>3, PeerHas, CacheHas, CacheAdvances
<1> HIDE DEF u
<1>5. records' = records /\ opened' = opened /\ burned' = burned
  BY DEF OpenChunkStep1
<1>6. SentBy(p)' = SentBy(p) /\ SentBy(Peer(p))' = SentBy(Peer(p))
  BY <1>5, Grown
<1>7. Cached(session[Peer(p)], SentBy(p), opened[Peer(p)], burned[Peer(p)])
  BY CacheHas
<1>8. QED
  BY <1>1, <1>4, <1>5, <1>6, <1>7, CacheQuiet

LEMMA CacheFinishesChunks ==
  ASSUME TypeOK, PeerInv, CacheInv, NEW p \in Parties, NEW c \in chunks, OpenChunkStep2(p, c)
  PROVE  CacheInv'
<1>1. PICK kex \in Nat : FinishesChunks(p, c, kex)
  BY OpenChunkStep2Facts
<1> DEFINE v == [session[p] EXCEPT !.step2_chunks = {}, !.last_step2 = {c.nonce}]
           u == AdvanceEpoch([v EXCEPT !.pending = {}], v.send_epoch, <<kex, c.payload>>, TRUE)
<1>2. /\ v \in Session /\ v.root_key = session[p].root_key
      /\ v.send_epoch = session[p].send_epoch
      /\ v.pending = session[p].pending /\ v.pending_epoch = session[p].pending_epoch
      /\ v.send_chain = session[p].send_chain /\ v.send_seq = session[p].send_seq
      /\ v.recv_current = session[p].recv_current
      /\ v.recv_previous = session[p].recv_previous
      /\ c.payload \in Nat /\ session' = [session EXCEPT ![p] = u]
  BY <1>1 DEF FinishesChunks
<1> HIDE DEF v
<1>3. LocalInv(v) /\ SessionInv(v)
  <2>1. v.pending # {} => v.pending_epoch = v.send_epoch
    BY <1>2, PeerHas DEF LocalInv
  <2>2. Joint(v, session[Peer(p)], SentBy(p), SentBy(Peer(p)))
    BY <1>2, <2>1, PeerHas, FrameJoint
  <2>3. QED
    BY <2>2 DEF Joint
<1>4. Bounded(u) /\ Cached(u, SentBy(Peer(p)), opened[p], burned[p])
  BY <1>2, <1>3, PeerHas, CacheHas, CacheAdvances
<1> HIDE DEF u
<1>5. records' = records /\ opened' = opened /\ burned' = burned
  BY DEF OpenChunkStep2
<1>6. SentBy(p)' = SentBy(p) /\ SentBy(Peer(p))' = SentBy(Peer(p))
  BY <1>5, Grown
<1>7. Cached(session[Peer(p)], SentBy(p), opened[Peer(p)], burned[Peer(p)])
  BY CacheHas
<1>8. QED
  BY <1>2, <1>4, <1>5, <1>6, <1>7, CacheQuiet

LEMMA CacheNext == TypeOK /\ PeerInv /\ CacheInv /\ [Next]_vars => CacheInv'
<1> SUFFICES ASSUME TypeOK, PeerInv, CacheInv, [Next]_vars
             PROVE  CacheInv'
  OBVIOUS
<1>1. CASE UNCHANGED vars
  BY <1>1 DEF vars, CacheInv, SentBy
<1>2. ASSUME NEW p \in Parties, Seal(p) \/ Initiate(p)
      PROVE  CacheInv'
  BY <1>2, CacheSeals, CacheInitiates DEF Initiate
<1>3. ASSUME NEW p \in Parties, NEW r \in records, OpenApplication(p, r) \/ OpenBurns(p, r)
      PROVE  CacheInv'
  BY <1>3, CacheOpens, CacheBurns
<1>4. ASSUME NEW p \in Parties, OpenControl(p)
      PROVE  CacheInv'
  BY <1>4, CacheOpens, CacheAnswers, CacheFinishes DEF OpenControl
<1>5. ASSUME NEW p \in Parties, OpenChunk(p)
      PROVE  CacheInv'
  BY <1>5, CacheFiles, CacheAnswersChunks, CacheFinishesChunks DEF OpenChunk
<1>6. QED
  BY <1>1, <1>2, <1>3, <1>4, <1>5 DEF Next

LEMMA CacheCorrect == Spec => []CacheInv
  BY TypeCorrect, PeerCorrect, CacheInit, CacheNext, PTL DEF Spec

LEMMA CacheInvImplies == TypeOK /\ PeerInv /\ CacheInv => KeysCached
<1> SUFFICES ASSUME TypeOK, PeerInv, CacheInv
             PROVE  SkippedBound /\ NoKeyLost
  BY DEF KeysCached
<1>1. SkippedBound
  <2> SUFFICES ASSUME NEW p \in Parties, NEW c \in RecvChains(session[p])
               PROVE  Cardinality(c.skipped) <= MaxSkippedKeys
    BY DEF SkippedBound
  <2>1. Bounded(session[p])
    BY DEF CacheInv
  <2>2. QED
    BY <2>1 DEF Bounded
<1>2. NoKeyLost
  <2> SUFFICES ASSUME NEW p \in Parties, NEW r \in records \ opened[p], r.from = Peer(p),
                      <<r.epoch, r.seq>> \notin burned[p], NEW c \in Slot(session[p], r.epoch)
               PROVE  IF r.seq < c.expected_seq THEN [seq |-> r.seq, key |-> r.key] \in c.skipped
                      ELSE r.key = Advance(c.chain, r.seq - c.expected_seq)
    BY DEF NoKeyLost
  <2>1. r \in SentBy(Peer(p)) /\ r \in Record
    BY DEF SentBy, TypeOK
  <2>2. CASE r.seq < c.expected_seq
    BY <2>1, <2>2, CacheHas DEF Cached
  <2>3. CASE ~(r.seq < c.expected_seq)
    <3>1. c \in ReceiveChain /\ c \in RecvChains(session[p])
      BY PeerHas, SlotType
    <3>2. /\ r.key \in Chain /\ r.seq \in Nat /\ c.chain \in Chain /\ c.expected_seq \in Nat
      BY <2>1, <3>1, RecordFacts, ChainFacts
    <3>3. /\ r.key.pos = r.seq /\ r.key.root = c.chain.root /\ r.key.dir = c.chain.dir
      BY <2>1, PeerHas DEF Joint, SealedInv, RecordInv
    <3>4. c.chain.pos = c.expected_seq
      BY <3>1, PeerHas DEF SessionInv, Keyed
    <3> DEFINE n == r.seq - c.expected_seq
    <3>5. n \in Nat /\ c.chain.pos + n = r.seq
      BY <2>3, <3>2, <3>4
    <3> HIDE DEF n
    <3>6. /\ Advance(c.chain, n) \in Chain /\ Advance(c.chain, n).root = c.chain.root
          /\ Advance(c.chain, n).dir = c.chain.dir /\ Advance(c.chain, n).pos = c.chain.pos + n
      BY <3>2, <3>5, AdvanceFields
    <3>7. r.key = Advance(c.chain, n)
      BY <3>2, <3>3, <3>5, <3>6, SameChainKey
    <3>8. QED
      BY <2>3, <3>7 DEF n
  <2>4. QED
    BY <2>2, <2>3
<1>3. QED
  BY <1>1, <1>2

(***************************************************************************)
(* The cache of skipped keys never exceeds its bound, and holds, or leaves *)
(* ahead on the chain, the key of every record not opened and not burned.  *)
(***************************************************************************)
THEOREM NoKeyIsLost == Spec => []KeysCached
  BY TypeCorrect, PeerCorrect, CacheCorrect, CacheInvImplies, PTL

-----------------------------------------------------------------------------
(***************************************************************************)
(* What was opened the peer sealed, and what was handed over was opened.   *)
(***************************************************************************)
LEMMA HandedInit == Init => HandedInv
  BY DEF Init, HandedInv, SentBy

\* A step that seals at most a control record, and hands nothing over.
LEMMA HandedQuiet ==
  ASSUME TypeOK, HandedInv, NEW p \in Parties, NEW R, R \subseteq SentBy(Peer(p)),
         \/ records' = records
         \/ \E r : r.from = p /\ r.payload.kind # "app" /\ records' = records \cup {r},
         opened' = [opened EXCEPT ![p] = @ \cup R],
         app_sealed' = app_sealed, delivered' = delivered
  PROVE  HandedInv'
<1>1. ASSUME NEW q \in Parties
      PROVE  /\ SentBy(q) \subseteq SentBy(q)'
             /\ \A r \in SentBy(q)' : r.payload.kind = "app" => r \in SentBy(q)
             /\ opened[q] \subseteq opened'[q]
             /\ opened'[q] \subseteq opened[q] \cup (IF q = p THEN R ELSE {})
  BY DEF SentBy, TypeOK
<1>2. ASSUME NEW q \in Parties
      PROVE  /\ opened'[q] \subseteq SentBy(Peer(q))'
             /\ \A r \in SentBy(q)' : r.payload.kind = "app" => r.payload.id \in 1 .. app_sealed'[q]
             /\ \A r, o \in SentBy(q)' :
                  r.payload.kind = "app" /\ o.payload = r.payload => o = r
             /\ \A i \in 1 .. Len(delivered'[q]) : \E r \in opened'[q] :
                  r.payload.kind = "app" /\ delivered'[q][i] = <<r.from, r.payload.id>>
  <2>1. opened'[q] \subseteq SentBy(Peer(q))'
    <3>1. Peer(q) \in Parties
      BY PeerFacts
    <3>2. opened[q] \subseteq SentBy(Peer(q)) /\ SentBy(Peer(q)) \subseteq SentBy(Peer(q))'
      BY <1>1, <3>1 DEF HandedInv
    <3>3. QED
      BY <1>1, <3>2
  <2>2. \A r \in SentBy(q)' : r.payload.kind = "app" => r.payload.id \in 1 .. app_sealed'[q]
    BY <1>1 DEF HandedInv
  <2>3. \A r, o \in SentBy(q)' : r.payload.kind = "app" /\ o.payload = r.payload => o = r
    <3> SUFFICES ASSUME NEW r \in SentBy(q)', NEW o \in SentBy(q)', r.payload.kind = "app",
                        o.payload = r.payload
                 PROVE  o = r
      OBVIOUS
    <3>1. r \in SentBy(q) /\ o \in SentBy(q)
      BY <1>1
    <3>2. QED
      BY <3>1 DEF HandedInv
  <2>4. \A i \in 1 .. Len(delivered'[q]) : \E r \in opened'[q] :
          r.payload.kind = "app" /\ delivered'[q][i] = <<r.from, r.payload.id>>
    BY <1>1 DEF HandedInv
  <2>5. QED
    BY <2>1, <2>2, <2>3, <2>4
<1>3. QED
  BY <1>2 DEF HandedInv

LEMMA HandedSeals ==
  ASSUME TypeOK, HandedInv, NEW p \in Parties, Seal(p)
  PROVE  HandedInv'
<1> DEFINE n == app_sealed[p] + 1
           new == SealedRecord(p, session[p], [kind |-> "app", id |-> n])
<1>1. /\ records' = records \cup {new} /\ opened' = opened /\ delivered' = delivered
      /\ app_sealed' = [app_sealed EXCEPT ![p] = n] /\ app_sealed \in [Parties -> Nat]
  BY DEF Seal, TypeOK
<1>2. new.from = p /\ new.payload = [kind |-> "app", id |-> n]
  BY DEF SealedRecord
<1>3. app_sealed[p] \in Nat /\ n = app_sealed[p] + 1 /\ app_sealed'[p] = n
  BY <1>1
<1> HIDE DEF new, n
<1>4. \A q \in Parties : q # p => SentBy(q)' = SentBy(q) /\ app_sealed'[q] = app_sealed[q]
  BY <1>1, <1>2 DEF SentBy
<1>5. SentBy(p)' = SentBy(p) \cup {new}
  BY <1>1, <1>2 DEF SentBy
<1>6. \A r \in SentBy(p) : r.payload.kind = "app" => r.payload.id \in 1 .. app_sealed[p]
  BY DEF HandedInv
<1>7. \A r \in SentBy(p) : r.payload # new.payload
  BY <1>2, <1>3, <1>6
<1>8. ASSUME NEW q \in Parties
      PROVE  /\ opened'[q] \subseteq SentBy(Peer(q))'
             /\ \A r \in SentBy(q)' : r.payload.kind = "app" => r.payload.id \in 1 .. app_sealed'[q]
             /\ \A r, o \in SentBy(q)' :
                  r.payload.kind = "app" /\ o.payload = r.payload => o = r
             /\ \A i \in 1 .. Len(delivered'[q]) : \E r \in opened'[q] :
                  r.payload.kind = "app" /\ delivered'[q][i] = <<r.from, r.payload.id>>
  <2>1. opened'[q] \subseteq SentBy(Peer(q))'
    BY <1>1, <1>4, <1>5, PeerFacts DEF HandedInv
  <2>2. \A r \in SentBy(q)' : r.payload.kind = "app" => r.payload.id \in 1 .. app_sealed'[q]
    <3>1. CASE q = p
      BY <1>2, <1>3, <1>5, <1>6, <3>1
    <3>2. CASE q # p
      BY <1>4, <3>2 DEF HandedInv
    <3>3. QED
      BY <3>1, <3>2
  <2>3. \A r, o \in SentBy(q)' : r.payload.kind = "app" /\ o.payload = r.payload => o = r
    <3>1. CASE q = p
      BY <1>5, <1>7, <3>1 DEF HandedInv
    <3>2. CASE q # p
      BY <1>4, <3>2 DEF HandedInv
    <3>3. QED
      BY <3>1, <3>2
  <2>4. \A i \in 1 .. Len(delivered'[q]) : \E r \in opened'[q] :
          r.payload.kind = "app" /\ delivered'[q][i] = <<r.from, r.payload.id>>
    BY <1>1 DEF HandedInv
  <2>5. QED
    BY <2>1, <2>2, <2>3, <2>4
<1>9. QED
  BY <1>8 DEF HandedInv

LEMMA HandedDelivers ==
  ASSUME TypeOK, PeerInv, HandedInv, NEW p \in Parties, NEW r \in records, OpenApplication(p, r)
  PROVE  HandedInv'
<1>1. r \in SentBy(Peer(p)) /\ r.payload.kind = "app" /\ r \in Record
  BY OpensTheirs DEF OpenApplication
<1>2. <<r.from, r.payload.id>> \in Parties \X Nat /\ delivered[p] \in Seq(Parties \X Nat)
  BY <1>1, RecordFacts DEF TypeOK
<1>3. /\ records' = records /\ app_sealed' = app_sealed
      /\ opened'[p] = opened[p] \cup {r}
      /\ delivered'[p] = Append(delivered[p], <<r.from, r.payload.id>>)
      /\ \A q \in Parties : q # p => opened'[q] = opened[q] /\ delivered'[q] = delivered[q]
  BY DEF OpenApplication, TypeOK
<1>4. \A q : SentBy(q)' = SentBy(q)
  BY <1>3 DEF SentBy
<1>5. ASSUME NEW i \in 1 .. Len(delivered'[p])
      PROVE  \E o \in opened'[p] :
               o.payload.kind = "app" /\ delivered'[p][i] = <<o.from, o.payload.id>>
  <2>1. /\ Len(delivered'[p]) = Len(delivered[p]) + 1 /\ Len(delivered[p]) \in Nat
        /\ delivered'[p][Len(delivered[p]) + 1] = <<r.from, r.payload.id>>
        /\ \A j \in 1 .. Len(delivered[p]) : delivered'[p][j] = delivered[p][j]
    BY <1>2, <1>3
  <2>2. CASE i = Len(delivered[p]) + 1
    BY <1>1, <1>3, <2>1, <2>2
  <2>3. CASE i # Len(delivered[p]) + 1
    <3>1. i \in 1 .. Len(delivered[p])
      BY <2>1, <2>3
    <3>2. PICK o \in opened[p] :
            o.payload.kind = "app" /\ delivered[p][i] = <<o.from, o.payload.id>>
      BY <3>1 DEF HandedInv
    <3>3. QED
      BY <1>3, <2>1, <3>1, <3>2
  <2>4. QED
    BY <2>2, <2>3
<1>6. ASSUME NEW q \in Parties
      PROVE  /\ opened'[q] \subseteq SentBy(Peer(q))'
             /\ \A o \in SentBy(q)' : o.payload.kind = "app" => o.payload.id \in 1 .. app_sealed'[q]
             /\ \A e, o \in SentBy(q)' :
                  e.payload.kind = "app" /\ o.payload = e.payload => o = e
             /\ \A i \in 1 .. Len(delivered'[q]) : \E o \in opened'[q] :
                  o.payload.kind = "app" /\ delivered'[q][i] = <<o.from, o.payload.id>>
  <2>1. opened'[q] \subseteq SentBy(Peer(q))'
    BY <1>1, <1>3, <1>4 DEF HandedInv
  <2>2. /\ \A o \in SentBy(q)' : o.payload.kind = "app" => o.payload.id \in 1 .. app_sealed'[q]
        /\ \A e, o \in SentBy(q)' : e.payload.kind = "app" /\ o.payload = e.payload => o = e
    BY <1>3, <1>4 DEF HandedInv
  <2>3. \A i \in 1 .. Len(delivered'[q]) : \E o \in opened'[q] :
          o.payload.kind = "app" /\ delivered'[q][i] = <<o.from, o.payload.id>>
    <3>1. CASE q = p
      BY <1>5, <3>1
    <3>2. CASE q # p
      BY <1>3, <3>2 DEF HandedInv
    <3>3. QED
      BY <3>1, <3>2
  <2>4. QED
    BY <2>1, <2>2, <2>3
<1>7. QED
  BY <1>6 DEF HandedInv

\* A control record, answered, taken or refused: opened, and handed to nobody.
LEMMA HandedControl ==
  ASSUME TypeOK, PeerInv, HandedInv, NEW p \in Parties, NEW r \in records,
         OpenStep1(p, r) \/ OpenStep2(p, r) \/ OpenRefused(p, r)
  PROVE  HandedInv'
<1>1. {r} \subseteq SentBy(Peer(p))
  <2>1. \E c \in Slot(session[p], r.epoch) : Opens(c, r)
    BY DEF OpenStep1, OpenStep2, OpenRefused
  <2>2. QED
    BY <2>1, OpensTheirs
<1>2. \/ records' = records
      \/ \E o : o.from = p /\ o.payload.kind # "app" /\ records' = records \cup {o}
  <2>1. CASE OpenStep1(p, r)
    <3>1. PICK s : records' = records \cup {SealedRecord(p, s, [kind |-> "step2", id |-> fresh'])}
      BY <2>1 DEF OpenStep1
    <3>2. /\ SealedRecord(p, s, [kind |-> "step2", id |-> fresh']).from = p
          /\ SealedRecord(p, s, [kind |-> "step2", id |-> fresh']).payload.kind # "app"
      BY DEF SealedRecord
    <3>3. QED
      BY <3>1, <3>2
  <2>2. CASE OpenStep2(p, r) \/ OpenRefused(p, r)
    BY <2>2 DEF OpenStep2, OpenRefused
  <2>3. QED
    BY <2>1, <2>2
<1>3. /\ opened' = [opened EXCEPT ![p] = @ \cup {r}]
      /\ app_sealed' = app_sealed /\ delivered' = delivered
  BY DEF OpenStep1, OpenStep2, OpenRefused
<1>4. QED
  BY <1>1, <1>2, <1>3, HandedQuiet

\* The steps that open no record.
LEMMA HandedOthers ==
  ASSUME TypeOK, PeerInv, HandedInv, NEW p \in Parties,
         \/ Initiate(p) \/ OpenChunk(p)
         \/ \E r \in records : OpenBurns(p, r)
  PROVE  HandedInv'
<1>1. /\ opened' = opened /\ app_sealed' = app_sealed /\ delivered' = delivered
      /\ InitiateRatchet(p) \/ records' = records
  BY DEF Initiate, InitiateRatchet, InitiateIncremental, OpenChunk, OpenChunkPartial,
         OpenChunkStep1, OpenChunkStep2, OpenBurns
<1>2. \/ records' = records
      \/ \E o : o.from = p /\ o.payload.kind # "app" /\ records' = records \cup {o}
  <2>1. CASE InitiateRatchet(p)
    <3> DEFINE o == SealedRecord(p, session[p], [kind |-> "step1", id |-> fresh'])
    <3>1. o.from = p /\ o.payload.kind # "app" /\ records' = records \cup {o}
      BY <2>1 DEF InitiateRatchet, SealedRecord
    <3>2. QED
      BY <3>1
  <2>2. QED
    BY <1>1, <2>1
<1>3. PICK R : R = {}
  OBVIOUS
<1>4. /\ R \subseteq SentBy(Peer(p))
      /\ opened' = [opened EXCEPT ![p] = @ \cup R]
  BY <1>1, <1>3 DEF TypeOK
<1>5. QED
  BY <1>1, <1>2, <1>4, HandedQuiet

LEMMA HandedNext == TypeOK /\ PeerInv /\ HandedInv /\ [Next]_vars => HandedInv'
<1> SUFFICES ASSUME TypeOK, PeerInv, HandedInv, [Next]_vars
             PROVE  HandedInv'
  OBVIOUS
<1>1. CASE UNCHANGED vars
  BY <1>1 DEF vars, HandedInv, SentBy
<1>2. ASSUME NEW p \in Parties, Seal(p)
      PROVE  HandedInv'
  BY <1>2, HandedSeals
<1>3. ASSUME NEW p \in Parties, NEW r \in records, OpenApplication(p, r)
      PROVE  HandedInv'
  BY <1>3, HandedDelivers
<1>4. ASSUME NEW p \in Parties, OpenControl(p)
      PROVE  HandedInv'
  BY <1>4, HandedControl DEF OpenControl
<1>5. ASSUME NEW p \in Parties,
             Initiate(p) \/ OpenChunk(p) \/ \E r \in records : OpenBurns(p, r)
      PROVE  HandedInv'
  BY <1>5, HandedOthers
<1>6. QED
  BY <1>1, <1>2, <1>3, <1>4, <1>5 DEF Next

LEMMA HandedCorrect == Spec => []HandedInv
  BY TypeCorrect, PeerCorrect, HandedInit, HandedNext, PTL DEF Spec

\* A chain's root names its epoch and its position its number, so a chain past a
\* record cannot be one that the record's key derives from.
LEMMA SecrecyImplied == TypeOK /\ ReplayInv /\ PeerInv /\ HandedInv => ForwardSecrecy
<1> SUFFICES ASSUME TypeOK, ReplayInv, PeerInv, HandedInv, NEW p \in Parties
             PROVE  /\ \A r \in opened[p] : \A c \in RecvChains(session[p]) :
                         /\ ~Derives(c.chain, r.key)
                         /\ \A k \in c.skipped : k.key # r.key
                    /\ \A r \in records : r.from = p => ~Derives(session[p].send_chain, r.key)
  BY DEF ForwardSecrecy
<1>1. ASSUME NEW r \in opened[p], NEW c \in RecvChains(session[p])
      PROVE  /\ ~Derives(c.chain, r.key)
             /\ \A k \in c.skipped : k.key # r.key
  <2>1. r \in SentBy(Peer(p)) /\ r \in Record
    BY DEF HandedInv, TypeOK
  <2>2. r.key.pos = r.seq /\ Len(r.key.root) = r.epoch
    BY <2>1, PeerHas DEF Joint, SealedInv, RecordInv
  <2>3. Keyed(c) /\ c \in ReceiveChain
    BY PeerHas, SessionFacts DEF SessionInv, RecvChains
  <2>4. c.epoch = r.epoch => r.seq < c.expected_seq /\ \A k \in c.skipped : k.seq # r.seq
    BY DEF ReplayInv, Used
  <2>5. r.seq \in Nat /\ c.expected_seq \in Nat
    BY <2>1, <2>3, RecordFacts, ChainFacts
  <2>6. QED
    BY <2>2, <2>3, <2>4, <2>5 DEF Derives, Keyed
<1>2. ASSUME NEW r \in records, r.from = p
      PROVE  ~Derives(session[p].send_chain, r.key)
  <2>1. r \in SentBy(p) /\ r \in Record
    BY <1>2 DEF SentBy, TypeOK
  <2>2. RecordInv(r, session[p], session[Peer(p)])
    BY <2>1, PeerHas DEF Joint, SealedInv
  <2>3. /\ Len(session[p].root_key) = session[p].send_epoch
        /\ session[p].send_chain.root = session[p].root_key
        /\ session[p].send_chain.pos = session[p].send_seq
    BY PeerHas DEF SessionInv
  <2>4. r.seq \in Nat /\ session[p].send_seq \in Nat
    BY <2>1, PeerHas, RecordFacts, SessionFacts
  <2>5. QED
    BY <2>2, <2>3, <2>4 DEF RecordInv, Derives
<1>3. QED
  BY <1>1, <1>2

(***************************************************************************)
(* Forward secrecy of the chains: neither a chain's state nor the keys it  *)
(* caches give back the key of a record sealed or opened before.           *)
(***************************************************************************)
THEOREM ChainsForget == Spec => []ForwardSecrecy
<1>1. Spec => []ReplayInv
  BY TypeCorrect, ReplayInit, ReplayNext, PTL DEF Spec
<1>2. QED
  BY <1>1, TypeCorrect, PeerCorrect, HandedCorrect, SecrecyImplied, PTL

-----------------------------------------------------------------------------
(***************************************************************************)
(* Refinement of RatchetPromise: the agreed lineage is the root key of the *)
(* peer that is not behind, so the responder of a step extends it and the  *)
(* step's initiator follows.                                               *)
(***************************************************************************)
Lineage(f) ==
  IF Len(f[Initiator].root_key) >= Len(f[Responder].root_key)
  THEN f[Initiator].root_key ELSE f[Responder].root_key

LEMMA LineageFacts ==
  ASSUME NEW f \in [Parties -> Session], NEW p \in Parties, NEW mine, NEW theirs,
         Joint(f[p], f[Peer(p)], mine, theirs), f[Peer(p)].send_epoch <= f[p].send_epoch
  PROVE  Lineage(f) = f[p].root_key
<1>1. f[p] \in Session /\ f[Peer(p)] \in Session
  BY PeerFacts
<1>2. /\ f[p].send_epoch \in Nat /\ f[Peer(p)].send_epoch \in Nat
      /\ Len(f[p].root_key) = f[p].send_epoch
      /\ Len(f[Peer(p)].root_key) = f[Peer(p)].send_epoch
  BY <1>1, SessionFacts DEF Joint, SessionInv
<1>3. f[p].send_epoch = f[Peer(p)].send_epoch => f[p].root_key = f[Peer(p)].root_key
  BY DEF Joint, PairInv
<1>4. \/ p = Initiator /\ Peer(p) = Responder
      \/ p = Responder /\ Peer(p) = Initiator
  BY DEF Peer, Parties
<1>5. QED
  BY <1>2, <1>3, <1>4 DEF Lineage

\* A root key with one more secret extends the one before.
LEMMA Extends ==
  ASSUME NEW root \in Root, NEW secret \in Nat \X Nat
  PROVE  SubSeq(Append(root, secret), 1, Len(root)) = root
<1>1. /\ Append(root, secret) \in Root /\ Len(root) \in Nat
      /\ \A i \in 1 .. Len(root) : Append(root, secret)[i] = root[i]
  BY RootFacts
<1>2. \A i \in 1 .. Len(root) : root[i] \in Nat \X Nat
  BY DEF Root
<1> DEFINE sub == SubSeq(Append(root, secret), 1, Len(root))
<1>3. /\ sub \in Seq(Nat \X Nat) /\ Len(sub) = Len(root)
      /\ \A i \in 1 .. Len(root) : sub[i] = root[i]
  BY <1>1, <1>2
<1>4. root \in Seq(Nat \X Nat)
  BY DEF Root
<1> HIDE DEF sub
<1>5. sub = root
  BY <1>3, <1>4, SeqEqual
<1>6. QED
  BY <1>5 DEF sub

LEMMA PromiseInit == Init => Promise!Init
<1> SUFFICES ASSUME Init PROVE Promise!Init
  OBVIOUS
<1>1. \A p \in Parties : session[p].root_key = <<>> /\ session[p].send_epoch = 0
  BY DEF Init, NewSession
<1>2. Initiator \in Parties /\ Responder \in Parties
  BY DEF Parties
<1>3. QED
  BY <1>1, <1>2 DEF Init, Promise!Init, Promise!Parties, Parties

\* A step that leaves both epochs and roots changes nothing of the promise.
LEMMA SameEpochs ==
  ASSUME NEW f \in [Parties -> Session], NEW p \in Parties, NEW u,
         u.root_key = f[p].root_key, u.send_epoch = f[p].send_epoch,
         NEW g, g = [f EXCEPT ![p] = u]
  PROVE  /\ Lineage(g) = Lineage(f)
         /\ [q \in Parties |-> g[q].send_epoch] = [q \in Parties |-> f[q].send_epoch]
         /\ [q \in Parties |-> g[q].root_key] = [q \in Parties |-> f[q].root_key]
<1>1. \A q \in Parties : g[q].send_epoch = f[q].send_epoch /\ g[q].root_key = f[q].root_key
  OBVIOUS
<1>2. Initiator \in Parties /\ Responder \in Parties
  BY DEF Parties
<1>3. QED
  BY <1>1, <1>2 DEF Lineage

\* seal.
LEMMA PromiseSeals ==
  ASSUME TypeOK, NEW p \in Parties, Seal(p)
  PROVE  Promise!Seal(p)
<1>1. session \in [Parties -> Session] /\ session[p] \in Session
  BY DEF TypeOK
<1> DEFINE u == SealPayload(session[p])
<1>2. u.root_key = session[p].root_key /\ u.send_epoch = session[p].send_epoch
  BY <1>1 DEF SealPayload, Session
<1>3. session' = [session EXCEPT ![p] = u]
  BY DEF Seal
<1> HIDE DEF u
<1>4. /\ Lineage(session') = Lineage(session)
      /\ [q \in Parties |-> session'[q].send_epoch] = [q \in Parties |-> session[q].send_epoch]
      /\ [q \in Parties |-> session'[q].root_key] = [q \in Parties |-> session[q].root_key]
  BY <1>1, <1>2, <1>3, SameEpochs
<1>5. app_sealed' = [app_sealed EXCEPT ![p] = @ + 1] /\ delivered' = delivered
  BY DEF Seal
<1>6. QED
  BY <1>4, <1>5 DEF Promise!Seal, Lineage

\* What the promise speaks of.
Promised ==
  <<Lineage(session), [p \in Parties |-> session[p].send_epoch],
    [p \in Parties |-> session[p].root_key], app_sealed, delivered>>

LEMMA PromiseStutter ==
  ASSUME TypeOK, NEW p \in Parties, NEW u,
         u.root_key = session[p].root_key, u.send_epoch = session[p].send_epoch,
         session' = [session EXCEPT ![p] = u],
         app_sealed' = app_sealed, delivered' = delivered
  PROVE  UNCHANGED Promised
<1>1. session \in [Parties -> Session]
  BY DEF TypeOK
<1>2. /\ Lineage(session') = Lineage(session)
      /\ [q \in Parties |-> session'[q].send_epoch] = [q \in Parties |-> session[q].send_epoch]
      /\ [q \in Parties |-> session'[q].root_key] = [q \in Parties |-> session[q].root_key]
  BY <1>1, SameEpochs
<1>3. QED
  BY <1>2 DEF Promised, Lineage

\* initiate_ratchet and initiate_incremental_ratchet: a step begins in its epoch.
LEMMA PromiseInitiates ==
  ASSUME TypeOK, NEW p \in Parties, Initiate(p)
  PROVE  UNCHANGED Promised
<1>1. session[p] \in Session
  BY DEF TypeOK
<1>2. \A kex : /\ SetPending(session[p], kex).root_key = session[p].root_key
               /\ SetPending(session[p], kex).send_epoch = session[p].send_epoch
               /\ SetPending(SealPayload(session[p]), kex).root_key = session[p].root_key
               /\ SetPending(SealPayload(session[p]), kex).send_epoch = session[p].send_epoch
  BY <1>1 DEF SetPending, SealPayload, Session
<1>3. /\ app_sealed' = app_sealed /\ delivered' = delivered
      /\ \/ session' = [session EXCEPT ![p] = SetPending(session[p], fresh')]
         \/ session' = [session EXCEPT ![p] = SetPending(SealPayload(session[p]), fresh')]
  BY DEF Initiate, InitiateRatchet, InitiateIncremental
<1>4. QED
  BY <1>2, <1>3, PromiseStutter

\* A chunk filed, a record refused, a key burned.
LEMMA PromiseFiles ==
  ASSUME TypeOK, NEW p \in Parties, NEW c \in chunks, OpenChunkPartial(p, c)
  PROVE  UNCHANGED Promised
<1>1. session[p] \in Session
  BY DEF TypeOK
<1>2. \A acc : /\ [session[p] EXCEPT !.step1_chunks = acc].root_key = session[p].root_key
               /\ [session[p] EXCEPT !.step1_chunks = acc].send_epoch = session[p].send_epoch
               /\ [session[p] EXCEPT !.step2_chunks = acc].root_key = session[p].root_key
               /\ [session[p] EXCEPT !.step2_chunks = acc].send_epoch = session[p].send_epoch
  BY <1>1 DEF Session
<1>3. /\ app_sealed' = app_sealed /\ delivered' = delivered
      /\ \E acc :
           \/ session' = [session EXCEPT ![p] = [session[p] EXCEPT !.step1_chunks = acc]]
           \/ session' = [session EXCEPT ![p] = [session[p] EXCEPT !.step2_chunks = acc]]
  BY DEF OpenChunkPartial
<1>4. PICK acc :
        \/ session' = [session EXCEPT ![p] = [session[p] EXCEPT !.step1_chunks = acc]]
        \/ session' = [session EXCEPT ![p] = [session[p] EXCEPT !.step2_chunks = acc]]
  BY <1>3
<1>5. QED
  BY <1>2, <1>3, <1>4, PromiseStutter

LEMMA PromiseRefuses ==
  ASSUME TypeOK, NEW p \in Parties, NEW r \in records, OpenRefused(p, r) \/ OpenBurns(p, r)
  PROVE  UNCHANGED Promised
<1>1. session[p] \in Session
  BY DEF TypeOK
<1>2. \A d : /\ PutSlot(session[p], d).root_key = session[p].root_key
             /\ PutSlot(session[p], d).send_epoch = session[p].send_epoch
  BY <1>1 DEF PutSlot, Session
<1>3. /\ app_sealed' = app_sealed /\ delivered' = delivered
      /\ \E d : session' = [session EXCEPT ![p] = PutSlot(session[p], d)]
  BY DEF OpenRefused, OpenBurns
<1>4. QED
  BY <1>2, <1>3, PromiseStutter

\* open, application data: a payload the peer sealed, and not one handed over
\* before, for the record it came in can never be opened again.
LEMMA PromiseDelivers ==
  ASSUME TypeOK, PeerInv, HandedInv, NoReplay, NEW p \in Parties, NEW r \in records,
         OpenApplication(p, r)
  PROVE  Promise!Deliver(p)
<1>1. PICK c \in Slot(session[p], r.epoch) :
        Opens(c, r) /\ session' = [session EXCEPT ![p] = PutSlot(session[p], Consume(c, r))]
  BY DEF OpenApplication
<1>2. session \in [Parties -> Session] /\ session[p] \in Session
  BY DEF TypeOK
<1>3. /\ r.payload.kind = "app" /\ app_sealed' = app_sealed
      /\ delivered' = [delivered EXCEPT ![p] = Append(@, <<r.from, r.payload.id>>)]
  BY DEF OpenApplication
<1> DEFINE u == PutSlot(session[p], Consume(c, r))
<1>4. /\ u.root_key = session[p].root_key /\ u.send_epoch = session[p].send_epoch
      /\ session' = [session EXCEPT ![p] = u]
  BY <1>1, <1>2 DEF PutSlot, Session
<1> HIDE DEF u
<1>5. /\ Lineage(session') = Lineage(session)
      /\ [q \in Parties |-> session'[q].send_epoch] = [q \in Parties |-> session[q].send_epoch]
      /\ [q \in Parties |-> session'[q].root_key] = [q \in Parties |-> session[q].root_key]
  BY <1>2, <1>4, SameEpochs
<1>6. r \in SentBy(Peer(p)) /\ r \in Record /\ r.from = Peer(p)
  BY <1>1, OpensTheirs DEF SentBy
<1>7. r.payload.id \in 1 .. app_sealed[Peer(p)]
  BY <1>3, <1>6, PeerFacts DEF HandedInv
<1>8. r \notin opened[p]
  BY <1>1 DEF NoReplay, CanOpen
<1>9. ASSUME NEW i \in 1 .. Len(delivered[p]), delivered[p][i] = <<Peer(p), r.payload.id>>
      PROVE  FALSE
  <2>1. PICK o \in opened[p] :
          o.payload.kind = "app" /\ delivered[p][i] = <<o.from, o.payload.id>>
    BY DEF HandedInv
  <2>2. o \in SentBy(Peer(p)) /\ o \in Record
    BY DEF HandedInv, TypeOK
  <2>3. o.payload.id = r.payload.id
    BY <1>9, <2>1
  <2>4. o.payload = r.payload
    <3>1. o.payload \in Payload /\ r.payload \in Payload
      BY <1>6, <2>2, RecordFacts
    <3>2. QED
      BY <1>3, <2>1, <2>3, <3>1 DEF Payload
  <2>5. o = r
    BY <1>3, <1>6, <2>2, <2>4, PeerFacts DEF HandedInv
  <2>6. QED
    BY <1>8, <2>5
<1>10. <<Peer(p), r.payload.id>> \notin Promise!Handed(p)
  BY <1>9 DEF Promise!Handed
<1>11. Promise!Other(p) = Peer(p)
  BY DEF Promise!Other, Peer
<1>12. delivered' = [delivered EXCEPT ![p] = Append(@, <<Peer(p), r.payload.id>>)]
  BY <1>3, <1>6
<1>13. \E n \in 1 .. app_sealed[Promise!Other(p)] :
         /\ <<Promise!Other(p), n>> \notin Promise!Handed(p)
         /\ delivered' = [delivered EXCEPT ![p] = Append(@, <<Promise!Other(p), n>>)]
  BY <1>7, <1>10, <1>11, <1>12
<1>14. QED
  BY <1>3, <1>5, <1>13 DEF Promise!Deliver, Lineage

\* A step's responder extends the lineage: its peer is in the same epoch.
LEMMA PromiseExtends ==
  ASSUME TypeOK, PeerInv, TypeOK', PeerInv', NEW p \in Parties,
         NEW u, session' = [session EXCEPT ![p] = u],
         NEW secret \in Nat \X Nat, u.root_key = Append(session[p].root_key, secret),
         u.send_epoch = session[p].send_epoch + 1,
         session[Peer(p)].send_epoch = session[p].send_epoch,
         app_sealed' = app_sealed, delivered' = delivered
  PROVE  Promise!Extend(p)
<1>1. /\ session \in [Parties -> Session] /\ session' \in [Parties -> Session]
      /\ session'[p] = u /\ session'[Peer(p)] = session[Peer(p)]
  BY PeerFacts DEF TypeOK
<1>2. /\ session[p].send_epoch \in Nat /\ session[p].root_key \in Root
      /\ Len(session[p].root_key) = session[p].send_epoch
  BY <1>1, PeerHas, SessionFacts
<1>3. Lineage(session) = session[p].root_key
  <2>1. /\ Joint(session[p], session[Peer(p)], SentBy(p), SentBy(Peer(p)))
        /\ session[Peer(p)].send_epoch <= session[p].send_epoch
    BY <1>2 DEF PeerInv
  <2>2. QED
    BY <1>1, <2>1, LineageFacts
<1>4. Lineage(session') = u.root_key
  <2>1. Joint(session'[p], session'[Peer(p)], SentBy(p)', SentBy(Peer(p))')
    BY DEF PeerInv
  <2>2. session'[Peer(p)].send_epoch <= session'[p].send_epoch
    BY <1>1, <1>2
  <2>3. QED
    BY <1>1, <2>1, <2>2, LineageFacts
<1>5. /\ Len(Lineage(session')) = Len(Lineage(session)) + 1
      /\ SubSeq(Lineage(session'), 1, Len(Lineage(session))) = Lineage(session)
  <2>1. /\ Len(Append(session[p].root_key, secret)) = Len(session[p].root_key) + 1
        /\ SubSeq(Append(session[p].root_key, secret), 1, Len(session[p].root_key))
             = session[p].root_key
    BY <1>2, RootFacts, Extends
  <2>2. QED
    BY <1>3, <1>4, <2>1
<1> DEFINE at == [q \in Parties |-> session[q].send_epoch]
           root == [q \in Parties |-> session[q].root_key]
<1>6. /\ at[p] = Len(Lineage(session)) /\ at[Promise!Other(p)] = Len(Lineage(session))
  BY <1>2, <1>3, PeerFacts DEF Promise!Other, Peer
<1>7. [q \in Parties |-> session'[q].send_epoch] = [at EXCEPT ![p] = @ + 1]
  BY <1>1
<1>8. [q \in Parties |-> session'[q].root_key] = [root EXCEPT ![p] = Lineage(session')]
  BY <1>1, <1>4
<1>9. QED
  BY <1>5, <1>6, <1>7, <1>8 DEF Promise!Extend, Lineage

\* The step's initiator follows: its peer is the step ahead.
LEMMA PromiseFollows ==
  ASSUME TypeOK, PeerInv, TypeOK', PeerInv', NEW p \in Parties,
         NEW u, session' = [session EXCEPT ![p] = u],
         u.root_key = session[Peer(p)].root_key, u.send_epoch = session[p].send_epoch + 1,
         session[Peer(p)].send_epoch = session[p].send_epoch + 1,
         app_sealed' = app_sealed, delivered' = delivered
  PROVE  Promise!Follow(p)
<1> DEFINE q == Peer(p)
<1>1. q \in Parties /\ q # p /\ Peer(q) = p
  BY PeerFacts
<1> HIDE DEF q
<1>2. /\ session \in [Parties -> Session] /\ session' \in [Parties -> Session]
      /\ session'[p] = u /\ session'[q] = session[q]
  BY <1>1 DEF TypeOK
<1>3. /\ session[p].send_epoch \in Nat /\ session[q].send_epoch = session[p].send_epoch + 1
      /\ Len(session[q].root_key) = session[q].send_epoch
  BY <1>1, PeerHas, SessionFacts DEF q
<1>4. Lineage(session) = session[q].root_key
  <2>1. /\ Joint(session[q], session[Peer(q)], SentBy(q), SentBy(Peer(q)))
        /\ session[Peer(q)].send_epoch <= session[q].send_epoch
    BY <1>1, <1>3 DEF PeerInv
  <2>2. QED
    BY <1>1, <1>2, <2>1, LineageFacts
<1>5. Lineage(session') = session[q].root_key
  <2>1. Joint(session'[q], session'[Peer(q)], SentBy(q)', SentBy(Peer(q))')
    BY <1>1 DEF PeerInv
  <2>2. session'[Peer(q)].send_epoch <= session'[q].send_epoch
    BY <1>1, <1>2, <1>3
  <2>3. QED
    BY <1>1, <1>2, <2>1, <2>2, LineageFacts
<1> DEFINE at == [o \in Parties |-> session[o].send_epoch]
           root == [o \in Parties |-> session[o].root_key]
<1>6. at[p] + 1 = Len(Lineage(session))
  BY <1>3, <1>4
<1>7. [o \in Parties |-> session'[o].send_epoch] = [at EXCEPT ![p] = @ + 1]
  BY <1>2
<1>8. [o \in Parties |-> session'[o].root_key] = [root EXCEPT ![p] = Lineage(session)]
  BY <1>2, <1>4 DEF q
<1>9. QED
  BY <1>4, <1>5, <1>6, <1>7, <1>8 DEF Promise!Follow, Lineage

LEMMA AdvanceRoots ==
  ASSUME NEW v \in Session, NEW secret, NEW is_initiator \in BOOLEAN
  PROVE  LET u == AdvanceEpoch([v EXCEPT !.pending = {}], v.send_epoch, secret, is_initiator)
         IN u.root_key = Append(v.root_key, secret) /\ u.send_epoch = v.send_epoch + 1
BY DEF AdvanceEpoch, Session

\* open and open_ratchet_chunk, the four ways they advance an epoch.
LEMMA PromiseAnswers ==
  ASSUME TypeOK, PeerInv, TypeOK', PeerInv', NEW p \in Parties, NEW r \in records,
         OpenStep1(p, r)
  PROVE  Promise!Extend(p)
<1>1. PICK c \in Slot(session[p], r.epoch) : Answers(p, r, c)
  BY OpenStep1Facts
<1> DEFINE v == SealPayload(PutSlot(session[p], Consume(c, r)))
           u == AdvanceEpoch([v EXCEPT !.pending = {}], v.send_epoch, <<r.payload.id, fresh'>>, FALSE)
<1>2. /\ v \in Session /\ v.root_key = session[p].root_key
      /\ v.send_epoch = session[p].send_epoch
      /\ session[Peer(p)].send_epoch = session[p].send_epoch
      /\ session' = [session EXCEPT ![p] = u]
  BY <1>1 DEF Answers
<1> HIDE DEF v
<1>3. /\ u.root_key = Append(session[p].root_key, <<r.payload.id, fresh'>>)
      /\ u.send_epoch = session[p].send_epoch + 1
  BY <1>2, AdvanceRoots
<1>4. r.payload.id \in Nat /\ fresh' \in Nat
  BY RecordFacts DEF TypeOK
<1>5. <<r.payload.id, fresh'>> \in Nat \X Nat
  BY <1>4
<1>6. app_sealed' = app_sealed /\ delivered' = delivered
  BY DEF OpenStep1
<1> HIDE DEF u
<1>7. QED
  BY <1>2, <1>3, <1>5, <1>6, PromiseExtends

LEMMA PromiseAnswersChunks ==
  ASSUME TypeOK, PeerInv, TypeOK', PeerInv', NEW p \in Parties, NEW c \in chunks,
         OpenChunkStep1(p, c)
  PROVE  Promise!Extend(p)
<1> DEFINE v == [session[p] EXCEPT !.step1_chunks = {}, !.last_step1 = {c.nonce}]
           u == AdvanceEpoch([v EXCEPT !.pending = {}], v.send_epoch, <<c.payload, fresh'>>, FALSE)
<1>1. /\ v \in Session /\ v.root_key = session[p].root_key
      /\ v.send_epoch = session[p].send_epoch /\ c \in Chunk /\ fresh' \in Nat
      /\ session[Peer(p)].send_epoch = session[p].send_epoch
      /\ session' = [session EXCEPT ![p] = u]
  BY OpenChunkStep1Facts
<1> HIDE DEF v
<1>2. /\ u.root_key = Append(session[p].root_key, <<c.payload, fresh'>>)
      /\ u.send_epoch = session[p].send_epoch + 1
  BY <1>1, AdvanceRoots
<1>3. c.payload \in Nat
  BY <1>1 DEF Chunk
<1>4. <<c.payload, fresh'>> \in Nat \X Nat
  BY <1>1, <1>3
<1>5. app_sealed' = app_sealed /\ delivered' = delivered
  BY DEF OpenChunkStep1
<1> HIDE DEF u
<1>6. QED
  BY <1>1, <1>2, <1>4, <1>5, PromiseExtends

LEMMA PromiseFinishes ==
  ASSUME TypeOK, PeerInv, TypeOK', PeerInv', NEW p \in Parties, NEW r \in records,
         OpenStep2(p, r)
  PROVE  Promise!Follow(p)
<1>1. PICK c \in Slot(session[p], r.epoch), kex \in Nat : Finishes(p, r, c, kex)
  BY OpenStep2Facts
<1> DEFINE v == PutSlot(session[p], Consume(c, r))
           u == AdvanceEpoch([v EXCEPT !.pending = {}], v.send_epoch, <<kex, r.payload.id>>, TRUE)
<1>2. /\ v \in Session /\ v.root_key = session[p].root_key
      /\ v.send_epoch = session[p].send_epoch
      /\ session[Peer(p)].send_epoch = session[p].send_epoch + 1
      /\ session[Peer(p)].root_key = Append(session[p].root_key, <<kex, r.payload.id>>)
      /\ session' = [session EXCEPT ![p] = u]
  BY <1>1 DEF Finishes
<1> HIDE DEF v
<1>3. /\ u.root_key = Append(session[p].root_key, <<kex, r.payload.id>>)
      /\ u.send_epoch = session[p].send_epoch + 1
  BY <1>2, AdvanceRoots
<1>4. app_sealed' = app_sealed /\ delivered' = delivered
  BY DEF OpenStep2
<1> HIDE DEF u
<1>5. QED
  BY <1>2, <1>3, <1>4, PromiseFollows

LEMMA PromiseFinishesChunks ==
  ASSUME TypeOK, PeerInv, TypeOK', PeerInv', NEW p \in Parties, NEW c \in chunks,
         OpenChunkStep2(p, c)
  PROVE  Promise!Follow(p)
<1>1. PICK kex \in Nat : FinishesChunks(p, c, kex)
  BY OpenChunkStep2Facts
<1> DEFINE v == [session[p] EXCEPT !.step2_chunks = {}, !.last_step2 = {c.nonce}]
           u == AdvanceEpoch([v EXCEPT !.pending = {}], v.send_epoch, <<kex, c.payload>>, TRUE)
<1>2. /\ v \in Session /\ v.root_key = session[p].root_key
      /\ v.send_epoch = session[p].send_epoch
      /\ session[Peer(p)].send_epoch = session[p].send_epoch + 1
      /\ session[Peer(p)].root_key = Append(session[p].root_key, <<kex, c.payload>>)
      /\ session' = [session EXCEPT ![p] = u]
  BY <1>1 DEF FinishesChunks
<1> HIDE DEF v
<1>3. /\ u.root_key = Append(session[p].root_key, <<kex, c.payload>>)
      /\ u.send_epoch = session[p].send_epoch + 1
  BY <1>2, AdvanceRoots
<1>4. app_sealed' = app_sealed /\ delivered' = delivered
  BY DEF OpenChunkStep2
<1> HIDE DEF u
<1>5. QED
  BY <1>2, <1>3, <1>4, PromiseFollows

LEMMA PromiseNext ==
  TypeOK /\ PeerInv /\ HandedInv /\ NoReplay /\ TypeOK' /\ PeerInv' /\ [Next]_vars
    => [Promise!Next]_Promised
<1> SUFFICES ASSUME TypeOK, PeerInv, HandedInv, NoReplay, TypeOK', PeerInv', [Next]_vars
             PROVE  [Promise!Next]_Promised
  OBVIOUS
<1>1. CASE UNCHANGED vars
  BY <1>1 DEF vars, Promised, Lineage
<1>2. ASSUME NEW p \in Parties,
             Promise!Seal(p) \/ Promise!Deliver(p) \/ Promise!Extend(p) \/ Promise!Follow(p)
      PROVE  Promise!Next
  BY <1>2 DEF Promise!Next, Promise!Parties, Parties
<1>3. ASSUME NEW p \in Parties, Seal(p)
      PROVE  Promise!Next
  BY <1>2, <1>3, PromiseSeals
<1>4. ASSUME NEW p \in Parties, Initiate(p)
      PROVE  UNCHANGED Promised
  BY <1>4, PromiseInitiates
<1>5. ASSUME NEW p \in Parties, NEW r \in records, OpenApplication(p, r)
      PROVE  Promise!Next
  BY <1>2, <1>5, PromiseDelivers
<1>6. ASSUME NEW p \in Parties, NEW r \in records, OpenStep1(p, r) \/ OpenStep2(p, r)
      PROVE  Promise!Next
  BY <1>2, <1>6, PromiseAnswers, PromiseFinishes
<1>7. ASSUME NEW p \in Parties, NEW r \in records, OpenRefused(p, r) \/ OpenBurns(p, r)
      PROVE  UNCHANGED Promised
  BY <1>7, PromiseRefuses
<1>8. ASSUME NEW p \in Parties, NEW c \in chunks, OpenChunkPartial(p, c)
      PROVE  UNCHANGED Promised
  BY <1>8, PromiseFiles
<1>9. ASSUME NEW p \in Parties, NEW c \in chunks, OpenChunkStep1(p, c) \/ OpenChunkStep2(p, c)
      PROVE  Promise!Next
  BY <1>2, <1>9, PromiseAnswersChunks, PromiseFinishesChunks
<1>10. QED
  BY <1>1, <1>3, <1>4, <1>5, <1>6, <1>7, <1>8, <1>9 DEF Next, OpenControl, OpenChunk

(***************************************************************************)
(* The pair of sessions does what RatchetPromise says, whatever the        *)
(* network loses, reorders, repeats and reflects: each payload is handed   *)
(* over at most once and only if it was sealed, and the two root keys walk *)
(* one lineage of step secrets, never more than a step apart.              *)
(***************************************************************************)
THEOREM PromiseKept == Spec => KeepsPromise
<1>1. Spec => []ReplayInv
  BY TypeCorrect, ReplayInit, ReplayNext, PTL DEF Spec
<1>2. Spec => [][Promise!Next]_Promised
  BY <1>1, TypeCorrect, ReplayInvImplies, PeerCorrect, HandedCorrect, PromiseNext, PTL DEF Spec
<1>3. QED
  BY <1>2, PromiseInit, PTL DEF Spec, KeepsPromise, Promise!Spec, Promised, Lineage

=============================================================================
