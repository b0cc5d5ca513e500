------------------------------- MODULE RlnAir -------------------------------
(***************************************************************************)
(* The circuit of the rate-limiting nullifiers (crates/rln/src/air.rs).    *)
(* An execution trace is a table of rows; the proof system accepts exactly *)
(* the tables whose neighbouring rows satisfy evaluate_transition and      *)
(* whose asserted cells hold the public inputs.  A prover may fill in any  *)
(* such table, not just the one build_trace makes: the state machine below *)
(* extends a trace in every way that the constraints admit.                *)
(*                                                                         *)
(* Abstractions.  The proof system itself is taken to be sound and         *)
(* complete.  A product of factors in a field is zero exactly if one of    *)
(* them is, so a constraint with selectors is an implication.              *)
(***************************************************************************)
EXTENDS Membership

CONSTANTS
  DEPTH,     \* levels of the tree
  Epochs,    \* values of epoch, elements of the field
  Texts,     \* messages, as byte strings
  MemberSecrets       \* the members' secrets, by leaf

ASSUME CircuitAssumption ==
  /\ Epochs \subseteq Field /\ \A message \in Texts : message \in Seq(Byte) /\ Len(message) < P
  /\ MemberSecrets \in Seq(Field) /\ Len(MemberSecrets) <= Capacity[DEPTH]

-----------------------------------------------------------------------------
BLOCK_LEN == ROUNDS + 1
NumMerkleBlocks(depth) == depth + 1
NumBlocks(depth) == NumMerkleBlocks(depth) + 2
TraceLength(depth) == NumBlocks(depth) * BLOCK_LEN
IsPowerOfTwo(n) == \E k \in 0 .. n : n = 2 ^ k
IsValidDepth(depth) == NumBlocks(depth) > 2 /\ IsPowerOfTwo(NumBlocks(depth))

ASSUME DepthAssumption == DEPTH \in Nat /\ IsValidDepth(DEPTH)

RootRow(depth) == NumMerkleBlocks(depth) * BLOCK_LEN - 1           \* a1_transition_row
A1OutputRow(depth) == (NumMerkleBlocks(depth) + 1) * BLOCK_LEN - 1 \* linearcheck_transition_row
A1InputRow(depth) == RootRow(depth) + 1
YRow(depth) == A1OutputRow(depth) + 1

\* The periodic columns.
IsLastInBlock(row) == row % BLOCK_LEN = BLOCK_LEN - 1
IsA1Transition(row) == row = RootRow(DEPTH)
IsLinearcheckTransition(row) == row = A1OutputRow(DEPTH)

-----------------------------------------------------------------------------
\* The constraints on lane 0 across a block boundary.
AdmitsLane0(v, current, sibling, selector, row, x) ==
  /\ ~IsA1Transition(row) /\ ~IsLinearcheckTransition(row) =>              \* D2
       v = (selector * sibling + (1 - selector) * current.state[0]) % P
  /\ IsA1Transition(row) => v = current.sk                                 \* D3
  /\ IsLinearcheckTransition(row) => v = (current.sk + current.state[0] * x) % P  \* D4

\* The constraints on the other lanes there (F), the same at every boundary.
AdmitsLane(i, v, current, sibling, selector) ==
  /\ i = 1 => v = (selector * current.state[0] + (1 - selector) * sibling) % P
  /\ i > 1 => v = 0

\* The values that the constraints of evaluate_transition leave each lane of the
\* next row, whose sibling and selector are given.
Admitted(current, sibling, selector, row, x) ==
  IF IsLastInBlock(row)
  THEN [i \in Lanes |-> {v \in Field :
          IF i = 0 THEN AdmitsLane0(v, current, sibling, selector, row, x)
          ELSE AdmitsLane(i, v, current, sibling, selector)}]
  ELSE LET round_out == ApplyStep(current.state, row % BLOCK_LEN)  \* D1, E
       IN [i \in Lanes |-> {round_out[i]}]

\* The constraints on the columns beside the state.
SideConstraints(current, next, row) ==
  /\ next.sk = current.sk
  /\ current.selector \in {0, 1}
  /\ row = 0 => current.state[0] = current.sk

Transition(current, next, row, x) ==
  /\ \A i \in Lanes : next.state[i] \in Admitted(current, next.sibling, next.selector, row, x)[i]
  /\ SideConstraints(current, next, row)

Asserted_SelectorFree(cells, row, public) ==  \* faulty variant
  /\ row = 0 => \A i \in Lanes \ {0} : cells.state[i] = 0
  /\ row = RootRow(DEPTH) => cells.state[0] = public.root
  /\ row = A1OutputRow(DEPTH) => cells.state[0] = public.nullifier
  /\ row = YRow(DEPTH) => cells.state[0] = public.y
  /\ row = A1InputRow(DEPTH) => cells.sibling = public.epoch

\* get_assertions: the cells that hold the public inputs.
Asserted(cells, row, public) ==
  /\ row = 0 => \A i \in Lanes \ {0} : cells.state[i] = 0
  /\ row = RootRow(DEPTH) => cells.state[0] = public.root
  /\ row = A1OutputRow(DEPTH) => cells.state[0] = public.nullifier
  /\ row = YRow(DEPTH) => cells.state[0] = public.y
  /\ row = A1InputRow(DEPTH) => cells.sibling = public.epoch /\ cells.selector = 0

-----------------------------------------------------------------------------
BlockRow(b) == b * BLOCK_LEN

\* A node's hash with its sibling, as a permutation's input (injected_input).
Injected(out, step) ==
  IF step.side = "Left" THEN Padded(out, step.sibling) ELSE Padded(step.sibling, out)

\* The input of block b of build_trace, where out is lane 0 of the block before.
BlockInput(b, out, sk, path, epoch, x) ==
  CASE b = 0 -> Padded(sk, 0)
    [] b \in 1 .. Len(path) -> Injected(out, path[b])
    [] b = Len(path) + 1 -> Padded(sk, epoch)
    [] OTHER -> Padded((sk + Compress2(sk, epoch) * x) % P, 0)

BlockInputs(sk, path, epoch, x) ==
  LET input[b \in 0 .. (Len(path) + 2)] ==
        BlockInput(b, TracePermutation(input[b - 1])[ROUNDS][0], sk, path, epoch, x)
  IN input

Sibling_RowEarly(path, epoch, row) ==  \* faulty variant: one row before the injected input
  CASE \E b \in 1 .. Len(path) : row = BlockRow(b) - 1 -> path[(row + 1) \div BLOCK_LEN].sibling
    [] row = A1InputRow(Len(path)) -> epoch
    [] OTHER -> 0

\* The sibling column: filled in at the rows that take an injected input.
Sibling(path, epoch, row) ==
  CASE \E b \in 1 .. Len(path) : row = BlockRow(b) -> path[row \div BLOCK_LEN].sibling
    [] row = A1InputRow(Len(path)) -> epoch
    [] OTHER -> 0

Selector(path, row) ==
  IF \E b \in 1 .. Len(path) : row = BlockRow(b) /\ path[b].side = "Right" THEN 1 ELSE 0

BuildTrace(sk, path, epoch, x) ==
  LET blocks == [b \in 0 .. (Len(path) + 2) |->
                   TracePermutation(BlockInputs(sk, path, epoch, x)[b])]
  IN [row \in 0 .. (TraceLength(Len(path)) - 1) |->
        [state |-> blocks[row \div BLOCK_LEN][row % BLOCK_LEN], sk |-> sk,
         sibling |-> Sibling(path, epoch, row), selector |-> Selector(path, row)]]

\* The proof system accepts the trace for these public inputs (verify).
Accepts(trace, public) ==
  /\ \A row \in DOMAIN trace \ {TraceLength(DEPTH) - 1} :
       Transition(trace[row], trace[row + 1], row, public.x)
  /\ \A row \in DOMAIN trace : Asserted(trace[row], row, public)

-----------------------------------------------------------------------------
VARIABLES
  row,     \* the trace's last row so far, -1 before the first
  cells,   \* its cells
  public,  \* PublicInputs, root -1 while there is none; nullifier and y as the trace has them
  path,    \* history: siblings and sides the trace injected
  text     \* the message

proofVars == <<row, cells, public, path, text>>

\* The registry once its first n members are in.
Tree(n) == MerkleTree(DEPTH, [k \in 1 .. n |-> Commitment(MemberSecrets[k])])

ProofIdle ==
  /\ row = -1
  /\ cells = [state |-> Padded(0, 0), sk |-> 0, sibling |-> 0, selector |-> 0]
  /\ public = [root |-> -1, epoch |-> 0, x |-> 0, y |-> 0, nullifier |-> 0]
  /\ path = <<>> /\ text = <<>>

\* The root that verify_message compares a proof's with, before anything else.
TakeRoot(root) ==
  /\ public.root = -1
  /\ public' = [public EXCEPT !.root = root]
  /\ UNCHANGED <<row, cells, path, text>>

\* A prover begins a trace for that root.
BeginTrace ==
  /\ row = -1 /\ public.root # -1
  /\ row' = 0
  /\ \E sk, first \in Field :
       cells' = [state |-> Padded(first, 0), sk |-> sk, sibling |-> 0, selector |-> 0]
  /\ text' \in Texts
  /\ \E epoch \in Epochs :
       public' = [public EXCEPT !.epoch = epoch, !.x = BytesToField(text')]
  /\ UNCHANGED path

\* The constraints determine the rest of a block, and read no sibling there.
RunBlock ==
  /\ row >= 0 /\ row % BLOCK_LEN = 0 /\ row < YRow(DEPTH)
  /\ row' = row + ROUNDS
  /\ cells' = [cells EXCEPT !.state = TracePermutation(@)[ROUNDS], !.sibling = 0, !.selector = 0]
  /\ SideConstraints(cells, cells', row)
  /\ public' = IF row' = A1OutputRow(DEPTH) THEN [public EXCEPT !.nullifier = cells'.state[0]]
               ELSE public
  /\ Asserted(cells', row', public')
  /\ UNCHANGED <<path, text>>

\* Any first row of the next block that the constraints admit.
CrossBlock ==
  /\ row >= 0 /\ IsLastInBlock(row) /\ row' = row + 1
  /\ \E sibling, selector \in Field :
       LET lanes == Admitted(cells, sibling, selector, row, public.x)
       IN \E v0 \in lanes[0], v1 \in lanes[1], v2 \in lanes[2], v3 \in lanes[3],
             v4 \in lanes[4], v5 \in lanes[5], v6 \in lanes[6], v7 \in lanes[7] :
            cells' = [state |-> [i \in Lanes |-> <<v0, v1, v2, v3, v4, v5, v6, v7>>[i + 1]],
                      sk |-> cells.sk, sibling |-> sibling, selector |-> selector]
  /\ SideConstraints(cells, cells', row)
  /\ public' = IF row' = YRow(DEPTH) THEN [public EXCEPT !.y = cells'.state[0]] ELSE public
  /\ Asserted(cells', row', public')
  /\ path' = IF row < RootRow(DEPTH)
             THEN Append(path, [sibling |-> cells'.sibling,
                                side |-> IF cells'.selector = 1 THEN "Right" ELSE "Left"])
             ELSE path
  /\ UNCHANGED text

ExtendTrace == RunBlock \/ CrossBlock

-----------------------------------------------------------------------------
\* The last block is padding behind its first row.
Accepted == row = YRow(DEPTH)

\* Whatever rows a prover fills in, a trace that is accepted proves membership of
\* its secret and binds nullifier and share to that same secret: the capacity lanes,
\* the padding and the free cells leave no second way (evaluate_transition,
\* get_assertions; air.rs, "What the proof shows").
AcceptedIsMember == Accepted => Statement(cells.sk, path, public)

\* Every member's trace is accepted, at every leaf, epoch and message: the rows
\* build_trace writes are the rows the constraints read (build_trace, prove_message).
HonestProofAccepted ==
  \A n \in DOMAIN MemberSecrets : \A k \in 1 .. n :
    /\ row = 0 /\ cells.sk = MemberSecrets[k] /\ cells.state[0] = cells.sk
    /\ public.root = Root(Tree(n), DEPTH)
    => Accepts(BuildTrace(cells.sk, Path(Tree(n), DEPTH, k - 1), public.epoch, public.x),
               PublicInputs(cells.sk, public.root, public.epoch, public.x))

\* A second message in the epoch of an accepted one gives away the secret behind
\* both, however the proof was made; a message of another epoch, or the same one
\* again, gives away nothing (recover_secret, verify_message).
SecondMessageExposes ==
  Accepted =>
    \A epoch, x \in Field :
      LET other == PublicInputs(cells.sk, public.root, epoch, x)
          recovered == RecoverSecret(ShareOf(public), ShareOf(other))
      IN /\ epoch = public.epoch /\ x # public.x => recovered = {cells.sk}
         /\ other.nullifier # public.nullifier \/ x = public.x => recovered = {}

\* No other message is absorbed as the same elements, so two messages collide only
\* if the permutation does: a trailing zero byte makes a difference, and a chunk
\* never wraps around the modulus (bytes_to_field, "Two collision classes").
NoTrivialCollision ==
  row = 0 =>
    \A n \in 0 .. (P - 1) : \A other \in [1 .. n -> Byte] :
      Absorbed(other) = Absorbed(text) => other = text
=============================================================================
