----------------------------- MODULE CoverTraffic -----------------------------
(***************************************************************************)
(* Cover traffic of novachannel (crates/dp/src/lib.rs): messages are       *)
(* padded to one of a few sizes and queued, and once per slot the oldest   *)
(* one, a dummy or nothing goes out.                                       *)
(*                                                                         *)
(* Abstractions.  A message is a sequence of bytes.  The length prefix is  *)
(* one element that takes LENGTH_PREFIX_LEN bytes.  The random numbers are *)
(* a sequence of decisions given in advance: where epsilon is zero, all    *)
(* are TRUE.                                                               *)
(***************************************************************************)
EXTENDS Integers, SequencesExt

CONSTANTS
  BucketSizes,        \* what SizeBucketer::new is given
  LENGTH_PREFIX_LEN,
  MaxLength,          \* u32::MAX
  Messages,           \* byte sequences to send
  Slots               \* bound: slots, and messages queued

ASSUME PacingAssumption ==
  /\ BucketSizes \subseteq Nat /\ LENGTH_PREFIX_LEN \in Nat /\ MaxLength \in Nat /\ Slots \in Nat
  /\ \E b \in BucketSizes : b >= LENGTH_PREFIX_LEN
  /\ \A text \in Messages : text \in Seq(Nat)

-----------------------------------------------------------------------------
\* SizeBucketer::new
Buckets == {b \in BucketSizes : b >= LENGTH_PREFIX_LEN}

\* The buckets a message fits into; the empty set is MessageTooLargeForAnyBucket.
Fitting(length) ==
  IF length > MaxLength THEN {} ELSE {b \in Buckets : b >= length + LENGTH_PREFIX_LEN}

\* pad, for a message that fits; the vector is cut or filled up to the bucket's size.
Pad(text) ==
  LET bucket == Min(Fitting(Len(text)))
      room == bucket - LENGTH_PREFIX_LEN
  IN [prefix |-> Len(text), bytes |-> [k \in 1 .. room |-> IF k <= Len(text) THEN text[k] ELSE 0]]

\* unpad; the empty set is Malformed.
Unpad(padded) ==
  IF padded.prefix > Len(padded.bytes) THEN {} ELSE {SubSeq(padded.bytes, 1, padded.prefix)}

SizeOf(padded) == LENGTH_PREFIX_LEN + Len(padded.bytes)

-----------------------------------------------------------------------------
VARIABLES
  queue,    \* GridScheduler: padded messages that wait for a slot
  draws,    \* the random decisions, in the order they are drawn
  drawn,    \* the state of the generator: how many were drawn
  slots,    \* history: what each slot so far sent
  wanted    \* history: the messages queued so far, and the slot they were queued in

pacingVars == <<queue, draws, drawn, slots, wanted>>

PacingIdle == queue = <<>> /\ draws = <<>> /\ drawn = 0 /\ slots = <<>> /\ wanted = <<>>

\* GridScheduler::new, and a generator.
NewScheduler ==
  /\ draws = <<>> /\ draws' \in [1 .. Slots -> BOOLEAN]
  /\ UNCHANGED <<queue, drawn, slots, wanted>>

\* GridScheduler::enqueue of a padded message; one that does not fit is refused.
Enqueue(text) ==
  /\ draws # <<>> /\ Len(wanted) < Slots /\ Fitting(Len(text)) # {}
  /\ queue' = Append(queue, Pad(text))
  /\ wanted' = Append(wanted, [text |-> text, slot |-> Len(slots) + 1])
  /\ UNCHANGED <<draws, drawn, slots>>

Drawn_ShortCircuit(has_real) == IF has_real THEN drawn ELSE drawn + 1  \* faulty variant

\* DummyScheduler::decide draws whether or not there is a message.
Drawn(has_real) == drawn + 1
Decide(has_real) == has_real \/ draws[drawn + 1]

\* SlotOutput: what tick returns.
SlotOutput ==
  CASE queue # <<>> /\ Decide(TRUE) -> [kind |-> "Real", packet |-> Head(queue)]
    [] queue = <<>> /\ Decide(FALSE) -> [kind |-> "Dummy"]
    [] OTHER -> [kind |-> "Silent"]

Tick ==
  /\ draws # <<>> /\ Len(slots) < Slots
  /\ queue' = IF queue = <<>> THEN queue ELSE Tail(queue)
  /\ drawn' = Drawn(queue # <<>>)
  /\ slots' = Append(slots, SlotOutput)
  /\ UNCHANGED <<draws, wanted>>

-----------------------------------------------------------------------------
(***************************************************************************)
(* Properties.                                                             *)
(***************************************************************************)
RealSlots == {s \in DOMAIN slots : slots[s].kind = "Real"}

\* Messages go out in the order they were queued in, none twice, each in the first
\* slot that is free, so a silent slot is one before which nothing waits; and the
\* receiver reads off the padded bytes what was padded, also when a message just
\* fills its bucket (tick, pad, unpad; "real traffic is never delayed or dropped").
SentAsQueued ==
  LET Sent == Len(wanted) - Len(queue)
  IN /\ Sent >= 0
     /\ \E Order \in [1 .. Sent -> RealSlots] :
          /\ \A s \in RealSlots : \E k \in 1 .. Sent : Order[k] = s
          /\ \A j, k \in 1 .. Sent : j < k => Order[j] < Order[k]
          /\ \A k \in DOMAIN wanted :
               LET Padded == IF k <= Sent THEN slots[Order[k]].packet ELSE queue[k - Sent]
                   Until == IF k <= Sent THEN Order[k] ELSE Len(slots)
               IN /\ Unpad(Padded) = {wanted[k].text} /\ SizeOf(Padded) \in Buckets
                  /\ wanted[k].slot .. Until \subseteq RealSlots

\* Whether an empty slot stays silent is settled by the number of the slot alone:
\* what was sent before it leaves no trace in the random numbers (decide, "Draw
\* unconditionally").
SilenceBySlot ==
  \A s \in DOMAIN slots \ RealSlots : slots[s].kind = "Dummy" <=> draws[s]

\* What goes out is what was queued, and what does not go out says nothing of it.
PacedAsPromised == SentAsQueued /\ SilenceBySlot
=============================================================================
