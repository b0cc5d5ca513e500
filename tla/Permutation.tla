----------------------------- MODULE Permutation -----------------------------
(***************************************************************************)
(* The hash of the rate-limiting nullifiers (crates/rln/src/permutation.rs *)
(* and bytes_to_field of lib.rs): Poseidon2 of width 8 over a prime field, *)
(* its step schedule, the two-to-one compression and the absorption of     *)
(* byte strings.                                                           *)
(*                                                                         *)
(* Abstractions.  The field is that of the integers modulo P, the numbers  *)
(* of rounds and the round constants are parameters.                       *)
(***************************************************************************)
EXTENDS Integers, SequencesExt

CONSTANTS
  P,                 \* the modulus of BaseElement
  HALF_FULL_ROUNDS,
  PARTIAL_ROUNDS,
  EXTERNAL_INITIAL, EXTERNAL_FINAL,  \* constants of the full rounds, by round and lane
  INTERNAL,          \* constants of the partial rounds
  INTERNAL_DIAG,     \* diagonal of the internal matrix, by lane
  Byte,              \* the values of a byte
  BYTES_PER_ELEMENT

Field == 0 .. (P - 1)
WIDTH == 8
Lanes == 0 .. (WIDTH - 1)
ROUNDS == 1 + 2 * HALF_FULL_ROUNDS + PARTIAL_ROUNDS

ASSUME FieldAssumption ==
  /\ P \in Nat \ {0, 1} /\ \A a, b \in 2 .. (P - 1) : a * b # P
  /\ HALF_FULL_ROUNDS \in Nat /\ PARTIAL_ROUNDS \in Nat
  /\ EXTERNAL_INITIAL \in [1 .. HALF_FULL_ROUNDS -> [Lanes -> Field]]
  /\ EXTERNAL_FINAL \in [1 .. HALF_FULL_ROUNDS -> [Lanes -> Field]]
  /\ INTERNAL \in [1 .. PARTIAL_ROUNDS -> Field] /\ INTERNAL_DIAG \in [Lanes -> Field]
  /\ Cardinality(Byte) \in Nat \ {0} /\ Byte = 0 .. (Cardinality(Byte) - 1)
  /\ BYTES_PER_ELEMENT \in Nat \ {0}

-----------------------------------------------------------------------------
\* x^7
Sbox(x) ==
  LET x2 == (x * x) % P
      x4 == (x2 * x2) % P
      x6 == (x4 * x2) % P
  IN (x6 * x) % P

\* The circulant matrix with first row 2, 3, 1, 1, applied to a half of the state
\* that starts at lane first.
Mds4(state, first) ==
  [k \in 0 .. 3 |->
     (2 * state[first + k] + 3 * state[first + ((k + 1) % 4)]
        + state[first + ((k + 2) % 4)] + state[first + ((k + 3) % 4)]) % P]

\* mds_light: both halves, then each lane takes the sum of its two partners too.
MdsLight(state) ==
  LET lo == Mds4(state, 0)
      hi == Mds4(state, 4)
  IN [i \in Lanes |-> ((IF i < 4 THEN lo[i] ELSE hi[i - 4]) + lo[i % 4] + hi[i % 4]) % P]

InternalDiffuse(state) ==
  LET sum == state[0] + state[1] + state[2] + state[3] + state[4] + state[5] + state[6] + state[7]
  IN [i \in Lanes |-> (sum + INTERNAL_DIAG[i] * state[i]) % P]

FullRound(state, rc) == MdsLight([i \in Lanes |-> Sbox((state[i] + rc[i]) % P)])

PartialRound(state, rc_lane0) ==
  InternalDiffuse([state EXCEPT ![0] = Sbox((@ + rc_lane0) % P)])

-----------------------------------------------------------------------------
\* step_kind_at
StepKind(i) ==
  CASE i = 0 -> "LinearOnly"
    [] i \in 1 .. HALF_FULL_ROUNDS -> "Full"
    [] i \in (HALF_FULL_ROUNDS + 1) .. (HALF_FULL_ROUNDS + PARTIAL_ROUNDS) -> "Partial"
    [] OTHER -> "Full"

\* step_round_constants: zero in the lanes a step adds nothing to.
RoundConstants(i) ==
  CASE StepKind(i) = "LinearOnly" -> [lane \in Lanes |-> 0]
    [] StepKind(i) = "Full" /\ i <= HALF_FULL_ROUNDS -> EXTERNAL_INITIAL[i]
    [] StepKind(i) = "Full" /\ i > HALF_FULL_ROUNDS ->
         EXTERNAL_FINAL[i - HALF_FULL_ROUNDS - PARTIAL_ROUNDS]
    [] StepKind(i) = "Partial" ->
         [lane \in Lanes |-> IF lane = 0 THEN INTERNAL[i - HALF_FULL_ROUNDS] ELSE 0]

\* Every step of the schedule, 0 .. ROUNDS - 1.
ApplyStep(state, i) ==
  CASE StepKind(i) = "LinearOnly" -> MdsLight(state)
    [] StepKind(i) = "Full" -> FullRound(state, RoundConstants(i))
    [] StepKind(i) = "Partial" -> PartialRound(state, RoundConstants(i)[0])

\* trace_permutation: the states before and after each step.
TracePermutation(input) ==
  LET states[r \in 0 .. ROUNDS] ==
        IF r = 0 THEN input ELSE ApplyStep(states[r - 1], r - 1)
  IN states

\* The input of a compression: two lanes are used, six are zero.
Padded(left, right) ==
  [i \in Lanes |-> CASE i = 0 -> left [] i = 1 -> right [] OTHER -> 0]

Compress2(left, right) == TracePermutation(Padded(left, right))[ROUNDS][0]

-----------------------------------------------------------------------------
\* How many values k bytes have; BYTES_PER_ELEMENT of them never wrap around.
ChunkValues[k \in 0 .. BYTES_PER_ELEMENT] ==
  IF k = 0 THEN 1 ELSE ChunkValues[k - 1] * Cardinality(Byte)

ASSUME PackingAssumption == ChunkValues[BYTES_PER_ELEMENT] <= P

Chunks(bytes) ==
  [k \in 1 .. ((Len(bytes) + BYTES_PER_ELEMENT - 1) \div BYTES_PER_ELEMENT) |->
     SubSeq(bytes, (k - 1) * BYTES_PER_ELEMENT + 1, Min({k * BYTES_PER_ELEMENT, Len(bytes)}))]

\* u64::from_le_bytes of a chunk that is padded with zeros, as a field element.
Packed(chunk) ==
  LET n == Len(chunk)
      acc[k \in 0 .. n] ==
        IF k = 0 THEN 0 ELSE acc[k - 1] * Cardinality(Byte) + chunk[n - k + 1]
  IN acc[n] % P

Absorbed_NoLength(bytes) ==  \* faulty variant: the length is left out
  <<0>> \o [k \in DOMAIN Chunks(bytes) |-> Packed(Chunks(bytes)[k])]

\* What bytes_to_field absorbs: the length, then the chunks.
Absorbed(bytes) ==
  <<Len(bytes) % P>> \o [k \in DOMAIN Chunks(bytes) |-> Packed(Chunks(bytes)[k])]

BytesToField(bytes) ==
  LET elements == Absorbed(bytes)
      acc[k \in 0 .. (Len(elements) - 1)] ==
        IF k = 0 THEN elements[1] ELSE Compress2(acc[k - 1], elements[k + 1])
  IN acc[Len(elements) - 1]
=============================================================================
