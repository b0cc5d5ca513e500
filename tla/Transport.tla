------------------------------ MODULE Transport ------------------------------
(***************************************************************************)
(* The record layer of novachannel (crates/core/src/transport.rs): one     *)
(* Sender and one Receiver per direction, each direction under its own     *)
(* key.  The network loses, repeats, delays and reflects records, and      *)
(* hands over records nobody sealed.                                       *)
(*                                                                         *)
(* Abstractions.  A record is the key it was sealed under and its sequence *)
(* number; it decrypts exactly under its own key.  Bit a - 1 of the u64    *)
(* window is the age a, so the window is a set of ages.  Payload sizes are *)
(* left out.                                                               *)
(***************************************************************************)
EXTENDS Integers

CONSTANTS
  Dirs,          \* the two directions, which name their keys
  Forged,        \* the key of a record no Sender sealed
  REPLAY_WINDOW, \* width of the replay window, in sequence numbers
  MaxSeq         \* u64::MAX

ASSUME ForgedAssumption == Forged \notin Dirs
ASSUME WindowAssumption == REPLAY_WINDOW \in Nat \ {0} /\ MaxSeq \in Nat

VARIABLES
  next_seq,  \* next_seq[d]: the Sender's counter
  receiver,  \* receiver[d]: the Receiver's filter
  times      \* history: times[d][n], how often open returned record n of d

vars == <<next_seq, receiver, times>>

Seqs == 0 .. MaxSeq
Ages == 1 .. REPLAY_WINDOW

-----------------------------------------------------------------------------
\* check_replay.
Accepts(rx, seq) ==
  \A highest \in rx.highest_seq :
    \/ seq > highest
    \/ /\ seq < highest
       /\ highest - seq \in Ages \ rx.window

Slide_ForgetsOldest(window, shift) ==  \* faulty variant
  IF shift >= REPLAY_WINDOW THEN {}
  ELSE ({a + shift : a \in window} \cap Ages) \cup {shift}

\* record_seen, a new highest number: the window moves, and the old highest
\* number becomes an age in it.
Slide(window, shift) ==
  IF shift > REPLAY_WINDOW THEN {}
  ELSE IF shift = REPLAY_WINDOW THEN {REPLAY_WINDOW}
  ELSE ({a + shift : a \in window} \cap Ages) \cup {shift}

\* record_seen.
RecordSeen(rx, seq) ==
  IF \A highest \in rx.highest_seq : seq > highest
  THEN [highest_seq |-> {seq}, window |-> UNION {Slide(rx.window, seq - h) : h \in rx.highest_seq}]
  ELSE [rx EXCEPT !.window = @ \cup {h - seq : h \in rx.highest_seq}]

Filter_SeenFirst(rx, dir, r) ==  \* faulty variant
  IF Accepts(rx, r.seq) THEN RecordSeen(rx, r.seq) ELSE rx

\* open: a record is checked, then decrypted, and only then recorded as seen.
Filter(rx, dir, r) ==
  IF Accepts(rx, r.seq) /\ r.key = dir THEN RecordSeen(rx, r.seq) ELSE rx

-----------------------------------------------------------------------------
Init ==
  /\ next_seq = [d \in Dirs |-> 0]
  /\ receiver = [d \in Dirs |-> [highest_seq |-> {}, window |-> {}]]
  /\ times = [d \in Dirs |-> [n \in Seqs |-> 0]]

\* seal: the number is used up only if there is a next one (SequenceExhausted).
Seal(d) ==
  /\ next_seq[d] < MaxSeq
  /\ next_seq' = [next_seq EXCEPT ![d] = @ + 1]
  /\ UNCHANGED <<receiver, times>>

\* open of any record sealed so far in either direction, or of a forged one.
Open(d, r) ==
  /\ receiver' = [receiver EXCEPT ![d] = Filter(@, d, r)]
  /\ times' = IF Accepts(receiver[d], r.seq) /\ r.key = d
              THEN [times EXCEPT ![d][r.seq] = @ + 1] ELSE times
  /\ UNCHANGED next_seq

Next ==
  \E d \in Dirs :
    \/ Seal(d)
    \/ \E e \in Dirs : \E n \in 0 .. (next_seq[e] - 1) : Open(d, [key |-> e, seq |-> n])
    \/ \E n \in Seqs : Open(d, [key |-> Forged, seq |-> n])

Spec == Init /\ [][Next]_vars

-----------------------------------------------------------------------------
(***************************************************************************)
(* Properties.                                                             *)
(***************************************************************************)
\* Types of every variable (struct Sender, struct Receiver).
TypeOK ==
  /\ next_seq \in [Dirs -> Seqs]
  /\ receiver \in [Dirs -> [highest_seq : SUBSET Seqs, window : SUBSET Ages]]
  /\ times \in [Dirs -> [Seqs -> Nat]]

\* What open returns was sealed in this direction, and it returns it once,
\* whatever was repeated, delayed, reflected or forged.
OpenedOnce ==
  \A d \in Dirs : \A n \in Seqs :
    times[d][n] <= 1 /\ (times[d][n] = 1 => n < next_seq[d])

\* The filter refuses nothing else: a number is accepted exactly if it was not
\* opened and no opened one is more than REPLAY_WINDOW ahead of it, also at the
\* far edge of the window and after a jump of just its width.
AcceptsExactly ==
  \A d \in Dirs : \A n \in Seqs :
    Accepts(receiver[d], n)
      <=> (times[d][n] = 0 /\ \A m \in Seqs : times[d][m] > 0 => m <= n + REPLAY_WINDOW)
=============================================================================
