# A verification project for novachannel

TLA+ modules, TLC configurations and TLAPS proofs for the Rust workspace
`novachannel` (five crates: `core`, `oram`, `mpc`, `dp`, `rln`). Every module
is translated from the source; this file says which code each one stands for,
what its runs check, what is proved for every value of the constants, and what
is left out.

Cryptographic primitives are ideal throughout: a hash or key derivation is
injective in its inputs, an AEAD opens a record under exactly the key that
sealed it, a signature is valid iff its owner made it. Keys are therefore
represented by what derives them, and two keys are equal in a model exactly
when the code would derive them from the same inputs.

## 1. Inventory

| Component | Code | State | Operations | What is hard | What makes it correct |
|---|---|---|---|---|---|
| Ratcheted session | `core/src/ratchet.rs` | root key, send chain, current and previous receive chain with cached skipped keys, pending step, chunk accumulators, last attempt nonces | `seal`, `open`, `initiate_ratchet`, `initiate_incremental_ratchet`, `open_ratchet_chunk` | two peers switch epochs at different times; records reordered, lost, repeated; a refused control record has already consumed its key; both peers start a step at once | no replay, no lost key, chains that meet, forward secrecy of chains, one lineage of secrets, every step completes |
| Erasure coding | `core/src/erasure.rs` | none | `encode`, `decode`, `check_shard_counts` | lost shards up to parity | any `data` shards reconstruct |
| Record layer | `core/src/transport.rs` | send counter; highest number and 64-bit window | `Sender::seal`, `Receiver::open` | window edges, shift by the full width, forged records | each record opened once, nothing else refused in the window |
| Group ratchet | `core/src/group.rs` | a tree of public keys per member, secrets of its path, epoch secret, sender chains | `create`, `propose_add/remove/update`, `apply_commit`, `join`, `seal`, `open` | members lag; additions and removals leave blank and populated nodes in every pattern; the committer is ahead of everyone | members agree, can follow every commit, removed members learn nothing, invited members can join |
| X3DH, one-time prekeys | `core/src/x3dh.rs`, `prekey.rs` | the store of one-time prekeys | `initiate`, `respond`, `take`/`consume`, bundle `verify` | one prekey handed to two initiators, repeated init messages | a one-time prekey serves one session; both ends derive one session |
| Multi-device | `core/src/multidevice.rs` | sessions per device, last list version; receiving sessions per sender and device | `sync_devices`, `sync_from_signed_device_list`, `revoke_device`, `fan_out`, `receive_init`, `open_from` | stale or re-keyed devices, a sync that fails half-way, repeated init messages | no session with a revoked or re-keyed device, lists never roll back |
| Handshake | `core/src/handshake.rs`, `kex.rs` | typed states consumed by value, one per attempt | `initiator_start`, `responder_respond`, `complete` on both sides | attempts side by side, messages put together from fields of several, a signing backend that fails | whoever is established agrees with the peer it names; no key serves two sessions or both directions |
| Identity, wire, errors, randomness | `core/src/identity.rs`, `wire.rs`, `error.rs`, `rng.rs` | none | wrappers | a backend that fails | ideal primitives |
| Sealed sender | `core/src/sealed_sender.rs` | none; the issuer's certificates and the clock are the caller's | `issue`, `verify`, `seal`, `open` | certificates expire under way, envelopes and certificates put together from several | what is read was sealed to this recipient under a certificate the issuer granted |
| Path ORAM | `oram/src/lib.rs` 60-299 | position map, stash; server buckets | `read`, `write` | long sequences of remaps and evictions; full buckets | the client is a map; blocks stay on their paths; one copy |
| ORAM integrity | `oram/src/lib.rs` 301-611 | trusted root; server hashes | `init_empty_root`, `verified_read`, `verified_write` | a failed access half-way, rollback, a single wrong answer | an honest server is accepted, no wrong answer is |
| ORAM encryption | `oram/src/lib.rs` 613-897 | key, nonce counter | decorator over a server | padding, dummies that carry a real id, an empty value, the nonce counter at its end | reads back what was written; every bucket has `Z` ciphertexts; nonces never repeat |
| Threshold DKG and ElGamal | `mpc/src/lib.rs` | dealers' polynomials and commitments | deal, verify, complain, exclude, finalize, combine | faulty dealers and lying accusers | honest participants agree on the key, an honest dealer is never excluded, a coordinator reaches the participants' verdicts wherever shares arrived as dealt |
| FROST | `mpc/src/frost.rs` | nonces consumed by value | two rounds, share verification, aggregation | faulty and late shares, sessions that start over | shares that pass aggregate to a valid signature; a signer that follows the protocol is not named; nonces serve once |
| Threshold KEM | `mpc/src/threshold_kem.rs` | the sender's ciphertext; partials by operator | `encrypt_to_group`, `partial_decrypt`, `combine_and_decrypt` | any subset of operators, a wrong key under an id | a quorum opens, fewer learn nothing |
| Cover traffic, sizes | `dp/src/lib.rs` | FIFO of messages; random generator; slots spent | `pad`, `unpad`, `enqueue`, `tick`, `decide`, `spend_slot` | a slot with nothing queued, a message that just fills its bucket, draws that depend on the traffic | FIFO order, nothing delayed, silence independent of traffic |
| Rate-limiting nullifiers | `rln/src/lib.rs`, `merkle.rs`, `share.rs`, `permutation.rs` | none kept | commitments, Merkle paths, shares, `recover_secret` | index arithmetic, byte strings that collide | members are accepted; two shares of one epoch give the secret |
| RLN circuit | `rln/src/air.rs` | an execution trace | `build_trace`, `evaluate_transition`, `get_assertions` | free cells, block boundaries, selectors: a prover may fill in any table | what is accepted is a member's; every honest trace is accepted |

Interactions. `handshake` and `x3dh` produce an `EstablishedSession`: directional
keys for `transport` and a root for `ratchet`. `dp` paces what is sealed ("pad
first, then seal"). `mpc` signs the membership root of `rln` in
`mpc/tests/frost_signs_rln_root.rs`. `multidevice` keeps one ratcheted
session per device and starts them by `x3dh`. `ratchet` splits the messages of a
step with `erasure`. The ORAM integrity and encryption layers decorate one
another's server trait. The crates `dp`, `rln` and `mpc` call no other crate
themselves; their callers join them as above.
Everything is used through `&mut self`: concurrency is between peers, members
and servers, never between threads, so one call is one atomic step.

The hazards, each at its line and with the properties that would catch it, are
listed in `PROJECT.json`.

## 2. Plan

1. **Ratchet**, with the abstract `RatchetPromise` (done).
2. **Path ORAM**, with the abstract `KeyValue`, its integrity layer and its
   encryption layer (done).
3. **Transport** replay window (done).
4. **Group** (modelled, checked and all four invariants proved for every capacity;
   next: an abstract roster it refines).
5. **X3DH and prekeys, multi-device** (done; next: init messages as the start of
   `Ratchet` sessions).
6. **Key generation**, with **Coordinator** beside it, **and FROST** over a small prime field (done; all invariants
   proved for every prime order, threshold and number of participants).
7. **Handshake**, and **Channel**, which composes it with the record layer, cover
   traffic and sealed sender (done).
8. **Threshold KEM; RLN** from the permutation to the circuit; **AttestedRoot**,
   which composes signing with membership proofs (done; all invariants proved for
   every field, permutation and depth).

Every invariant that a run checks has a theorem; what is left to the runs alone is in
section 7.

## 3. Modules

### Ratchet

`session[p]` is the `RatchetedSession` of peer `p`, field by field. A chain key
is `[root, dir, pos]`: the root key (the sequence of step secrets mixed in so
far), the direction label, the number of times it was advanced. A record carries
the chain key it was sealed under. The network is the set `records` (and
`chunks`) of everything ever sealed: delivering is opening an element, so loss,
reordering and repetition need no actions of their own; `Misroutes` lets a
peer's own records be handed back to it.

| Action | Code |
|---|---|
| `Seal` | `seal` |
| `InitiateRatchet`, `InitiateIncremental` | `initiate_ratchet`, `initiate_incremental_ratchet` |
| `OpenApplication`, `OpenStep1`, `OpenStep2` | `open` returning data, or completing `handle_step1`, `handle_step2` |
| `OpenRefused` | `open` whose handler returns an error after `open_on` consumed the key |
| `OpenBurns` | `open` of a record that does not decrypt under a cached key (the key is removed on lookup) |
| `OpenChunkPartial`, `OpenChunkStep1`, `OpenChunkStep2` | `open_ratchet_chunk` filing a chunk, or completing a step |

Calls that fail and change nothing are stuttering. A payload of a chunked step is
reconstructed from any `data` distinct shards.

`RatchetPromise` is what a caller may rely on: payloads handed over at most once
and only if sealed; both peers walk one lineage of step secrets, at most one
step apart. `KeepsPromise` is the refinement.

### Oram, VerifiedOram, SealedOram, KeyValue

`Oram` is one `access` per step, with the tree in heap numbering: `Pow2` is the
shift that counts the leaves, `Ancestors[n]` what the loop of `path_nodes` visits
from `n` up, halving until it has met the root. An eviction is
any assignment of blocks to buckets that the greedy deepest-first loop can
produce for some order of the stash vector. `KeyValue` is a map; `IsMap` is the
refinement. `VerifiedOram` extends it with the Merkle root: a node's hash is the
set of `<<node, bucket>>` it commits to. The server may lose a block (a block
that fails authentication in the encryption layer looks the same), be restored
from a backup, or answer one hash request wrongly, in the check (`"check"`) or
in the commit phase (`"commit"`).

`SealedOram` puts `EncryptingServerStorage` between the client and its server. A
ciphertext is its nonce, its tag, its id and the padded bytes; `SealBucket` and
`ReadBucket` are the layer's `write` and `read_and_clear`. The client of
`SealedAccess` works on what the layer opens (`ReadSealedPath`), not on `buckets`,
which keeps on record what was written; that the two agree is `ReadsAsWritten`.
Every access writes all buckets of its path, leaf first, which fixes the order
nonces are drawn in. A client without the layer is a choice of `SealedInit`, so one
run covers both. The counter stops the layer at `MAX_NONCE`, as `checked_add` does.

### Transport

`Dirs` are the two directions; a record is its direction and number, `Forged`
stands for a record nobody sealed. The window is the set of ages whose bit is
set. `Filter` is `Receiver::open` with the filter consulted before decryption
and updated after it. `REPLAY_WINDOW` (64 in the code) and `MaxSeq`
(`u64::MAX`) are parameters; the proofs hold for all values.

### Handshake, SealedSender, CoverTraffic, Channel

`attempts[a]` is the typed state that attempt `a` of a peer holds; an attempt that
has no state yet is outside the function's domain. A Diffie-Hellman secret is the
set of the two keys, a KEM secret its key and ciphertext, a signature its signer
and text in two legs. Messages are delivered by choosing from everything sent,
and the network may join the fields of several, the legs of signatures and of
identities included, and put in a key of small order.

| Action | Code |
|---|---|
| `InitiatorStart` | `initiator_start`, with or without a pinned identity |
| `ResponderRespond` | `responder_respond`: exchange, `checked_dh`, signature over the first transcript |
| `InitiatorComplete` | `InitiatorHandshakeState::complete`: pin, signature, exchange, the third message, `finalize_keys` |
| `ResponderComplete` | `ResponderHandshakeState::complete` |
| `Issue`, `SealTo`, `Unseal`, `TimePasses` | `SenderCertificate::issue`, `seal`, `open` followed by `verify`, the recipient's clock |
| `NewScheduler`, `Enqueue`, `Tick` | `GridScheduler::new`, `SizeBucketer::pad` with `enqueue`, `tick` with `decide` |
| `BeginRecords`, `Records`, `Paced` | `EstablishedSession` handing its keys to `Sender::new` and `Receiver::new`; the record layer; one record per slot that sends |

A `complete` consumes its state, so a refused message ends the attempt
(`"failed"`). The handshake signs with `Identity::sign`, which panics when an
external backend fails: peers in `Failing` may lose an attempt there. Random
decisions of `CoverTraffic` are a sequence fixed beforehand, `drawn` is the state
of the generator: so the model can say that a decision depends on the slot alone.
`Channel` runs the parts one after the other, as `core/examples/echo.rs` does; the
record layer starts only when two attempts hold each other's keys. Sealed sender
needs no session and runs in the handshake's place.

### Group

`group[u]` is `u`'s `Group`. A member is its leaf key package, a path node's secret
is named by the commit and the node that made it, an epoch secret is the sequence of
root secrets mixed in (it stands for the transcript hash too). The tree is the
code's array, for `Capacity` leaves: `Above` is the loop of `direct_path`,
`Under[n]` the subtree of `n`, and `Resolution` the set of topmost populated nodes
of a subtree, which is what the recursive function of the code lists. `create` also
demands a power of two; nothing in the model rests on it, so the parameter ranges
over every capacity from 2. Commits form one sequence, since the module doc makes a
total order the caller's duty; each member applies them at its own pace.

| Action | Code |
|---|---|
| `ProposeAdd`, `ProposeRemove`, `ProposeUpdate` | the three `propose_*`, each with `commit` and `apply` |
| `ApplyCommit` | `apply_commit` with `find_and_decrypt` and `apply` |
| `Join` | `join`: the checks, then `apply_commit` on the snapshot |
| `Seal`, `Open` | `seal`, `open` |

`held[u]` is a history of all node secrets `u` ever stored, for the question what
a removed member could still decrypt.

### X3dh, MultiDevice

`X3dh` is the pure part: a bundle, the secret (named by the terms it is computed
from: the initiator's two keys, the device, the one-time prekey), `Genuine`, which
says that the secret a device derives from a header opens the payload, and
`Remaining`, what `respond` leaves in the store. `MultiDevice` is the state
around it.

| Action | Code |
|---|---|
| `SyncUnsigned` | `sync_devices` over a `RemoteAccount` put together by `add_device` |
| `SyncSigned` | `sync_from_signed_device_list`: version check, bundles against the list, revocation, then `sync_devices` |
| `RevokeDevice` | `revoke_device` |
| `FanOut` | `fan_out` |
| `ReceiveInit` | `receive_init` with `respond`; any device may get any init message, any number of times |
| `OpenFrom` | `ReceivingDevice::open_from` |

`MCSessions` joins `Channel` and `MultiDevice` in one run, as the two ways to a session:
peers that are both there, or devices that are offline. They share no state, and a
behaviour takes one way or the other.

A sync that meets an unusable bundle stops there: the sessions made before it
stay, their init messages are lost with the error, and the version is not
recorded. Calls that fail before they change anything are stuttering. `Lists` is
the account's history of lists, from which a sender may be shown any version at
any time. A device's prekeys are those its `ReceivingDevice` was built with,
since the store is not reachable afterwards; the server may put one of them in
any bundle. A `RatchetedSession` is reduced to what `Ratchet` shows of it: each
record opens once, under its own secret.

`NothingLost` names every way a payload that was fanned out can become unreadable,
and the code has no other: the sync call that made its session failed, the device
accepted another init message of the same sender (a late older one takes the place
of the live session, too), or its one-time prekey served another session.

### Shamir, Dkg, Coordinator, Frost, ThresholdKem

`Shamir` is the pure part: evaluation of a polynomial and of its commitments,
verification of a share, Lagrange coefficients. A scalar is a number modulo the
prime `Q`; a point is represented by its discrete logarithm, which is sound since
the code only adds, scales and compares points of a group of prime order.
Properties about what an adversary can compute are therefore left out, except
`ContributionHidden`, which is about information: fewer than `Threshold` shares fit
polynomials of every secret. (The code does not count how many shares it
discloses; with `Threshold` complaints a dealer's contribution is public.)

| Action | Code |
|---|---|
| `Reveal` | `Dealer::reveal`, its commitments broadcast and its shares sent; `Inconsistent` dealers broadcast other commitments, the shares of `Garbled` pairs may arrive altered |
| `Complain`, `ComplainWithoutCause` | a `Complaint` after `verify_share` failed; one with a made-up share or accuser |
| `Disclose` | `share_for`, which refuses ids it never dealt to |
| `Resolve` | `resolve_complaint` at one participant; an accuser whose claim a valid disclosure contradicts takes the disclosed share, as `ComplaintVerdict` says |
| `Dismiss` | `resolve_complaint` of a complaint that names id 0, which gets no answer: `MalformedComplaint` |
| `Finalize` | `finalize_key_share_excluding_faulty`; the dealer is dropped |
| `Retire` (in `Begin`) | nothing in the code: signing reads no shares and broadcasts of key generation, so they are dropped to have fewer states |
| `Begin`, `Repackage` | the aggregator asks a quorum to sign, or goes on without the signers whose share failed |
| `Round1`, `Round2` | `round1_commit`, `round2_sign`, which consumes the nonces |
| `Receive` | `verify_signature_share`, on shares of any age and on anything a faulty signer sends |

The crate leaves transport to its caller: broadcasts reach everyone and the
complaint round ends (`Settled`) before anyone finalizes. Within a round every
order is possible. All dealers broadcast `Threshold` commitments; the code checks
neither their number nor `commitment_hash`, which it leaves to the caller. The
two hashes of FROST are operator constants: what is checked are the equations of
the scheme, which must hold whatever the hashes return.

`Coordinator` puts the second path beside the first. `identify_faulty_dealers`
checks the shares it is given; `dealer_shares` is a history of the shares as they
were delivered. It is not `received`: there, a share that arrived altered is
replaced in the course of the complaint round by the disclosed one, and a
coordinator that looked afterwards would find nothing wrong. It is kept until the
first key is made. The module changes nothing in `Dkg`, and `MCFrost` lets it look
on while `AttestedRoot` runs.

`ThresholdKem` is `encrypt_to_group` to any set of operators and keys
(`SealToGroup`) and partial decryptions under the right or another key
(`AnswerPartially`). It shares `Shamir` with the key generation.

### Permutation, Membership, RlnAir, AttestedRoot

`Permutation` is Poseidon2 of width 8, `compress2` and `bytes_to_field`;
`Membership` the tree of commitments, its paths, shares and `recover_secret`.
Both are pure. The modulus, the numbers of rounds and the round constants are
parameters.

`RlnAir` is the circuit. `Admitted` and `SideConstraints` say which rows may follow
a row under `evaluate_transition`, `Asserted` is `get_assertions`, `BuildTrace` is
`build_trace`. The proof system shows that *some* table satisfies the constraints,
not that `build_trace` made it: so the state machine is a prover that fills in any
table, row by row. `BeginTrace` chooses the first row, `RunBlock` the rows of a
block, which the constraints determine, `CrossBlock` any row they admit at a block
boundary. `AcceptedIsMember` is then soundness of the arithmetisation,
`HonestProofAccepted` its completeness.

`AttestedRoot` is the use that `mpc/tests/frost_signs_rln_root.rs` shows: a
committee generates its key and signs a membership root, the relying party
verifies the signature and takes the root (`Adopt`), and a prover extends a trace
for it. The signed message stands for the root of the registry with that many
members. Threshold decryption runs in the committee's place.

## 4. Runs

| Run | Bounds | Question |
|---|---|---|
| `ratchet` | both peers start steps, one-shot and chunked (1+1, 2+1), 3+1 application records, 2 epochs, 1 skipped key, misrouting | `NoReplay`, `PeerReads`, `KeysCached`, `ForwardSecrecy` and the refinement of `RatchetPromise` |
| `ratchet_live` | one initiating peer, 2 skipped keys, 2+2 records, shard 0 of every step lost | every step completes, epochs meet |
| `ratchet_race` | both initiate, one-shot | finding 1 |
| `oram` | 3 blocks, 2 values (under the layer an empty one and a zero byte), 4 leaves, buckets of 1; without the encryption layer any number of accesses, with it two (6 nonces) | ORAM invariants, the layer's promise and the refinement of `KeyValue` |
| `oram_verified` | 2 blocks, 4 leaves, losses, backups, wrong hashes while checking, the caller stops at the first error | honest server accepted, no wrong answer |
| `oram_retry` | 2 leaves, one wrong hash, the caller retries | finding 2 |
| `sessions` | either: 2+2 handshake attempts of 2 peers, the initiators' backend may fail; window 3, numbers up to 6; 3 slots, 4 messages, buckets of 3 and 5 bytes and one too small for the prefix; 2 certificates, 2 envelopes, times 0 to 2. Or: 1 sender on the signed path, 1 on the plain one, 3 devices (two share an id), 2 lists, 2 syncs, 1 record per session, unusable bundles of the device with the larger id | agreement on keys, keys that serve once, the replay filter, pacing, sealed sender; prekeys, lost payloads, list versions |
| `group` | 4 leaves, 4 members, 5 commits and records together | group invariants |
| `group_add` | as `group` with 4 | finding 3 |
| `device_rekey` | the devices of `sessions`, all bundles usable | finding 4 |
| `threshold` | 3 participants, threshold 2, integers modulo 5; 2 draws of the polynomials, 1 dealer that may be inconsistent, 1 share that may arrive altered, 2 complaints without cause, one of them in the name of id 0; 2 messages, 2 packages, 1 faulty signer; 3 operators with 2 keys; 2 full and 4 partial rounds, a tree of 2 leaves, 2 members, 2 epochs, 3 messages | key generation with its complaint round and the coordinator, signing, threshold decryption, membership proofs |
| `dkg_paths` | its key generation alone | finding 5 |

Some invariants have parts that fail for different reasons and are named
separately in the modules: `KeysCached` is `SkippedBound` and `NoKeyLost`,
`PathsHeld` is `HoldsItsPath` and `MembersFollow`, `RecordsRead` is `InOrder` and
`Readable`, `KeysAgree` is `KeysFit` and `OneOutcome`, `SharesSign` is
`GoodSharesPass` and `SignatureVerifies`, `PacedAsPromised` is `SentAsQueued` and
`SilenceBySlot`.

Why the bounds are enough. *Ratchet*: the receiver keeps two chains, so three
epochs (0 to 2) show the previous chain being dropped; one skipped key with
three records on one chain fills the cache, meets the bound with a non-empty
cache and uses a cached key. *ORAM*: with buckets of one and three blocks
the stash is used, buckets are full and blocks are evicted away from the leaf;
two leaves are enough for the violations; two sealed accesses write the shared root
bucket twice and read back what the first left. *Channel*: two attempts on each
side are what it takes to join messages of two handshakes into a third; with
window 3 and seven numbers there are jumps shorter than, equal to and beyond the
window; three slots hold a queue of two, an empty slot and a filled one; two
certificates and two envelopes give every pair of fields to join, three times an
expiry before, at and after the reading. *Group*: with four leaves
there are populated, blank and half-blank subtrees beside a path; five commits
build a group of three, remove one of them and re-key afterwards. *Multi-device*:
two syncs are what it takes to give one prekey to two senders or to one sender
twice, to be shown an older list, to retry after a failure and to replace a
session; two devices under one id with equal prekey ids give misrouted messages
a key to name.

*Threshold*: one polynomial of degree 1 per dealer is enough for two shares to
determine it and one not to; the inconsistent commitments agree with the polynomial
at participant 1, so that one participant has nothing to complain about and must
exclude the dealer with the others; the share that may arrive altered is one of a
dealer whose broadcast fits, and one complaint claims the right share in its
holder's name. The complaint in the name of id 0 comes first, if it comes, and is
dismissed by everyone before the round goes on (`ZeroFirst`): no other action reads
it, so later times add only states. Further, two packages show a share of the first
arrive for the second and a signer asked twice. *RLN*: a tree of depth 1 is the
smallest `is_valid_depth` admits and has every kind of block boundary: into a Merkle
block, into the nullifier's and into the share check. With a field of five elements
the prover's free cells range over the whole field, so that a cell the constraints
leave open shows as a second table; hash collisions, which are common in so small a
field, do not matter, since soundness is stated about the trace's own path. The
types of `Ratchet`, `Oram`, `Transport`, `MultiDevice` and `Group` are theorems
(section 6) and not repeated in the runs.

Symmetry is used where ids, values or members are interchangeable: the
specifications and properties only compare them for equality.

`CHECK_DEADLOCK FALSE` is set where the bounds or the callers may stop
everything: ratchets with all records sealed, a caller that stops at an
IntegrityError, a full counter, a group everyone left, senders out of sync calls,
an aggregator out of attempts, a handshake refused, an ORAM layer out of nonces, a
trace that no row can follow.

**Fairness** (`ratchet_live`, `ratchet_race`): weak fairness of opening control
records and of opening chunks, per peer. It says that the network delivers them
in the end and the application hands what arrives to the session. Application
records may be lost. The chunks of `LostShards` are never delivered; the parity
covers them. Progress holds under limits the code itself imposes: at most
`MAX_SKIPPED_KEYS` records lost per chain (beyond that `open` refuses the whole
rest of the direction), and no record that burns a cached control key.

## 5. Findings

1. **Racing ratchet steps deadlock** (`ratchet_race`). When both peers start a
   step before seeing the other's, both stay pending for ever; the documented
   retry cannot succeed.
2. **A refused ORAM access loses the block** (`oram_retry`). `verified_access`
   stores the new leaf before it checks the root and does not restore it on
   error; a retry against an honest server answers that the block was never
   written.
3. **A member added below a populated node cannot join** (`group_add`). The path
   secret is sealed to the populated node's key, which the new member lacks. The
   leaf stays taken.
4. **A re-keyed device keeps its old session on the signed path**
   (`device_rekey`). Only ids the new list drops are revoked; `sync_devices`
   skips the id of the replaced device because it has a session.
5. **The two paths to the excluded dealers differ** (`dkg_paths`). When a share of
   a dealer whose broadcast fits its polynomial arrives altered, the complaint round
   excludes nobody and the share is repaired, while `identify_faulty_dealers`, given
   the shares as delivered, excludes the dealer: so does the test at
   `mpc/src/lib.rs` 606-612, and the comment at 796-801 says it must. The module doc
   (32-35) promises "the outcome the complaint protocol reaches". `OneOutcome` is
   what holds: one verdict on every dealer whose shares all arrived as dealt.

Two weaknesses that no run keeps:

- The commit phase of `verified_access` fetches sibling hashes again and trusts
  them unchecked, so one wrong answer there becomes part of the trusted root.
  `VerifiedOram` with `WrongHashes = {"commit"}` shows it; the runs have wrong
  answers in the check phase only.
- A member that removes itself is the committer of its own removal: `apply` blanks
  its path and populates it again with secrets this member chose. If its caller
  goes on using the `Group`, it follows the next commit and opens records of
  epochs begun after it left, although "it structurally cannot decrypt any later
  epoch" (`core/src/group.rs` 41-43). When its leaf has been given to somebody else,
  the records it seals are read as that member's: `open` names the sender by the
  record's leaf. `Group` with `LeaversStay = TRUE` violates `LeaversReadNothing` and
  `RecordsRead`; the runs have such a caller stop, and `ReadInTurn` says so.

## 6. Proofs

All are checked by TLAPS for every value of the constants allowed by the
modules' assumptions (which say that bounds are naturals, the two peers differ,
buckets hold at least one block and the like).

*RatchetProofs.* `TypeCorrect`; `NoRecordOpensTwice` (`NoReplay`). `NoReplay`
is not inductive: whether a record opens depends on the whole receive chain.
The strengthening `ReplayInv` says, of each single session and with nothing
about its peer, that the current receive chain is of the send epoch and the
previous one older, that a pending step is one of the current epoch (so a late
reply cannot set the epoch back), that cached keys lie below the expected
number, and that every record opened so far is *used*: of no later epoch, and on
any chain still held for its epoch below the expected number with no key
cached. Each action preserves it because opening moves past or deletes the key,
and a new epoch's chain starts where no record was opened.

The rest of the module is about what the two sessions are to each other, for any
bounds, losses and orders of delivery.

- `ChainsAlwaysMeet` (`PeerReads`). The inductive invariant `Joint` relates the two
  sessions by their epochs. In the same epoch they have the same root, mirrored
  chains, and at most one of each side's step messages can still be answered; one
  apart (`Behind`), the peer ahead holds the step's secret, its previous chain is the
  other's sending one, and the only control record under way that the one behind can
  act on is the reply that brings it level. All other control records, chunks and
  replies in flight are of attempts the nonces no longer match.
- `NoKeyIsLost` (`KeysCached`): cached keys are those of the gaps, so their number is
  bounded by the check before the gap is drawn, and a record of a held chain is
  opened, cached, still ahead on the chain, or was burned (`CacheInv`).
- `ChainsForget` (`ForwardSecrecy`): everything opened lies behind the chain and is
  in no cache; it follows from the two above and `ReplayInv`, as a key names its
  place on its chain.
- `PromiseKept` (`KeepsPromise`): the refinement mapping takes the longer root key as
  the agreed lineage. Each action maps to a step of `RatchetPromise` or to a stutter:
  answering a step 1 extends the lineage, completing it catches up with it, and
  what is handed over was sealed and is new (`HandedInv`).

*OramProofs.* `OramTypeCorrect`, `BlocksOnTheirPaths`, `NoSecondCopy`,
`ClientNeverPanics` and the refinement `ClientIsMap`, for every depth, bucket
capacity and set of blocks. The inductive invariant is the type invariant,
`OnItsPath`, `OneCopy` and a position for every stashed block; the first three
need each other: that a block lies on the path of its leaf makes the access meet
it, which keeps the copy unique, which makes the value of an id well defined.

*OramLayerProofs.* The two layers around the client, for every depth, capacity, set
of blocks and values.

- `HonestServerIsAccepted` (`HonestServerAccepted`), provided no answer is wrong
  while an access commits (`"commit" \notin WrongHashes`; with it the property is
  false, see section 5). The inductive invariant is that the stored hashes commit to
  the stored buckets, node by node, and the trusted root to all of them. That an
  access keeps it needs the shape of the tree: each node is on the path of the access
  or below the sibling of exactly one node of it, so that the recomputed path hashes,
  put together from fetched siblings and from each other, commit to every bucket once.
- `AnswersAreRight` (`NeverWrong`), under that hypothesis and for a caller that stops
  at the first error (`Retries = FALSE`; a caller that retries is finding 2). The
  server's buckets are no help here, since it may have lost blocks or been restored
  from a backup. The proof reads the buckets off the trusted root instead
  (`Committed`), and shows that *they* and the client's state satisfy the invariant of
  the plain client, `Client == INSTANCE OramProofs WITH buckets <- Committed`; an
  accepted check means that the path holds what was committed.
- `LayerKeepsClient`: a client that works on what the layer opens takes the steps of
  the client without it, so the refinement of `KeyValue` and the client's invariants carry
  over. The step needs that what is opened of a bucket is what was written to it
  (`OpensBuckets`, from the invariant `SealInv` of the next theorem), byte strings of
  different values being different; a layer that returned anything else would not do.
- `StoresFaithfully` (`ReadsAsWritten`): the invariant counts nonces (that ciphertexts
  are of one length is not part of the property). All in use lie
  below the counter, a path has `Depth + 1` buckets of `Z` ciphertexts each, and the
  access draws that many in order, so none is drawn twice and each bucket gets its
  own.

The lemmas on the tree (an ancestor of an ancestor is one; the ancestors of a node
are a chain; a node has as many as its level) are inductions over the heap number.

*NumberLemmas.* The prover cannot instantiate the library's induction theorems,
which take an operator. This module derives what the other proofs need from
the well-foundedness of `<` on the naturals, with sets and functions in place of
operators: a non-empty set of naturals has a least element, a set that contains
every number whose predecessors it contains is everything, and a recursive function
equals its unfolding (`LeastElement`, `Induction`, `Recursion`). `Iterate` and
`GoesOn` are recursion for a loop of bounded length. The rest is arithmetic modulo a
number, up to inverses modulo a prime (`InverseModuloPrime`).

*GroupProofs.* All four invariants of the run and the types, for every capacity and
set of members, any number of commits and every lag: `GroupTypeCorrect`,
`MembersAgree` (`Agreement`), `EveryoneFollows` (`PathsHeld`), `RemovedAreOut`
(`RemovedLearnNothing`), `ReadInTurn` (`RecordsRead`). None of the four is inductive,
since members are at different epochs and a step of one depends on commits made long
before by others. All rest on one history variable that the proofs quantify over: `T`,
the tree of each epoch, with `T[i]` what commit `i` makes of `T[i - 1]` (`Hist`).
Every group, and every snapshot under way to an invited member, is that of its epoch
in `T`. `HistoryFollows` shows that each step extends `T` by one tree, or leaves it
alone and takes one member along it; the other invariants are then preserved step by
step.

- `EveryoneFollows`: `HoldsItsPath` is inductive with the history. Two leaves' paths
  join at one node; the path secret sealed to the resolution there is sealed to the
  node that the other member is below, or to its leaf (`UnsealedMeets`), and what it
  derives from there up is what the two paths share (`DerivesShared`).
- `RemovedAreOut` adds what a member may ever have held: secrets of nodes above its
  leaf, made in its epoch or before (`HeldInReach`), and that a removal clears those
  nodes, so that in every later tree they are blank or hold a newer secret
  (`StaysCleared`). It needs that a leaf key is never a path secret (`KeysDiffer`).
- `ReadInTurn` adds that records were sealed by the member at their leaf in the tree
  of their epoch, and that the receive chains of a group count what its member opened
  (`ReadSoFar`). Its hypothesis `~LeaversStay` cannot be spared: see section 5.

*ChannelProofs.* `TransportTypeCorrect`, `OpensOnce`, `FilterIsExact`. The
inductive invariant says what the window knows: the highest number opened, and
of each number within the window's reach whether it was opened; every number was
opened at most once.

`HandshakeAgrees` (`PeersAgree`) and
`KeysAreSeparate` (`KeysSeparate`), for any peers and any number of attempts side
by side. Neither is inductive: what an attempt holds says nothing of who else saw
the messages. The strengthening `HandshakeInv` says that every answer in flight is
one responder's to one first message, named in the text that is signed; that a last
message was made by an initiator that is established on such an answer (`Paired`);
and that whoever waits holds what it sent. Then a second or third message joined
from several, if it passes the checks, is a whole one (`SecondMessageWhole`,
`ThirdMessageWhole`), since the signature covers every field, and the keys, which
are derived from the same transcript, mirror one another.
`EnvelopesAreVouched` (`UnsealedAsVouched`) keeps that every certificate a sender
holds, and every envelope under way, carries a signature some issuer made and is
bound to its header. `ChannelIsTransport` shows that the composition is an
implementation of the record layer's specification alone: whatever precedes it and
paces it, what is sealed and opened is a behaviour of `Transport`, whose theorems
(`OpenedOnce`, `AcceptsExactly`) carry over.

`SlotsKeepTheirPace` (`PacedAsPromised`), for any buckets, messages and slots. The
invariant `PacingInv` exhibits, for every message that left the queue, the slot it
went out in (`SentIn`): in increasing order these are all the slots that sent real
data, and from the slot a message was queued for to its own there are only such
slots, as there are for the messages still waiting (`StillWaiting`). The generator
has been drawn once for every slot, whichever way it was settled. `Pad` and `Unpad`
are inverse on every bucket that has room for the length prefix (`PaddedWhole`).

*MultiDeviceProofs.* All five properties of `MultiDevice` and the types, for any
senders, devices, prekeys and lists: `DeviceTypeCorrect`, `OneTimeKeysServeOnce`,
`PayloadsReadOnce`, `NoPayloadLost`, `SessionsAuthorized`, `NoListRollback`. The
first four rest on one invariant about a receiving device: a key a derived secret
names is no longer in the store (`Spent`), a key not in the store was used
(`Accounted`), a derived secret is that of the session on file unless a later one of
the same sender replaced it (`OnFile`), a session on file has opened only what was
handed over (`Filed`), and one with a one-time prekey all of it (`Remembers`).
`PayloadsReadOnce` needs all of them: a fresh session forgets what was opened, which
is harmless exactly when its key was still in the store, since then nothing was ever
opened under it. `SessionsAuthorized` is inductive with the types; `NoListRollback`
follows from what a single call does.

*AttestedRootProofs*, the committee. All invariants of key generation, signing and
threshold decryption, for every prime order, threshold and number of participants. The
first part is the algebra of `Shamir`, which needs no state. Every loop of the code
(Horner's rule, the running power, Lagrange coefficients, sums) is restated once as a
sequence with one equation for each round (`EvaluateSteps`, `CommitmentSteps`,
`LagrangeSteps`, `SumSteps`), by `Induction` and `Iterate` of `NumberLemmas`.

- `Feldman`: the dealer's and the verifier's evaluation give the same number.
- `Interpolation`: Lagrange coefficients of any `Len(f)` or more participants give
  `f(0)` from its values. The proof avoids products of many factors: leaving one
  participant `a` out of a set multiplies the coefficient of `i` by `(a - i) / a`
  (`LagrangeWithout`), hence weighing the values `(a - i) * g(i)` in the set is `a` times
  weighing `g` in the set without `a` (`AtZeroAway`); the coefficients sum to 1
  (`WeightsOfOne`) and Horner's rule is followed from the inside out, with one participant
  more for every coefficient (`InterpolationStep`). That `Q` is prime is used once, in
  `InverseExists`. `JointInterpolation` is the same for the sum of what several dealers
  share.
- `AnySecretFits`: what fewer than `Threshold` participants hold fits a polynomial with
  any secret, for there is a polynomial that is 1 at 0 and vanishes at all of them
  (`Vanishing`).

The second part is about the state.

- `NoncesNeverReused` (`NoncesServeOnce`): the invariant adds that nonces a signer holds
  were drawn in no attempt it has signed with, and that whoever drew in the current
  attempt is committed in the package, so it does not draw again.
- `NoHonestDealerExcluded` (`HonestDealersStay`): everything disclosed for a dealer
  outside `Inconsistent` is its own polynomial's value, hence valid by `Feldman`, hence no
  verdict against it is faulty.
- `ParticipantsShareTheKey` (`KeysFit`): whoever finalized holds a value of the public
  polynomial of the surviving dealers, and everyone the same group key. The
  invariant `KeyInv` says that one dealer gives one answer per accuser (`OneAnswer`),
  that every verdict is that of an answer, or dismisses id 0 (`VerdictsAnswered`), that an accuser whose
  claim was disproved holds a valid share (`Repaired`), and that keys are made only in
  a settled round. `Settled` therefore asks that whoever holds an invalid share has
  complained of *that share*: an unfounded complaint in the same name about the same
  dealer, which claims the right share, leaves the altered one in place and the key
  would not fit. `Lies` of the run contains that complaint.
- `EveryoneAgrees` (`KeysAgree`), of `CoordinatorSpec`: besides `KeysFit`, on a dealer whose
  shares all arrived as dealt, everyone who followed the complaint round has the
  coordinator's verdict, whatever arrived altered of others and whoever complained without
  cause. The invariant `CoordinatorInv` adds to `DealingInv`, the part of `KeyInv` about
  the round, that `dealer_shares` holds the share each participant still has, unless it
  took a disclosed one (`Overseen`). In one direction, an invalid share that was dealt is
  disclosed as it is; in the other, a faulty verdict rests on such a share. Nothing is
  claimed of a dealer with an altered share, where the paths differ (finding 5).
- `EveryQuorumDecrypts` (`QuorumDecrypts`) and `FewDisclosuresTellNothing`
  (`ContributionHidden`) join `KeyInv` with `JointInterpolation` and `AnySecretFits`.
- `CheckedSharesSign` (`SharesSign`), provided the two hashes return scalars
  (`HashesToScalars`), as `hash_to_scalar` does. The invariant `SignInv` says that a
  package names each signer's commitments once, that nonces a signer still holds are
  those it is committed to, and that shares of the current attempt and shares on file
  pass the check under the package as it is now: it can only still grow while a
  commitment is missing, and until then no share is made or checked. What the check
  demands of each share (`CheckedShare`) adds up to the signature's equation.
- `OperatorsOpenTogether` (`KemQuorumOpens`), of `KemSpec`: every answer that was not an
  error is a value of the sender's polynomial, whoever gave it and with whatever key.

These theorems are about the specifications of `Frost` and `ThresholdKem`.
`CommitteeKeepsItsPromises` and `RootsAreSigned` carry them over to `AttestedSpec`,
where the committee is set aside and starts over when its root is adopted: every step
of the composition is one of the committee, or brings it back to an initial state.

*AttestedRootProofs*, membership proofs, for every prime field, numbers of rounds and
round constants, depth, secrets and messages.

- `AcceptedTracesAreMembers` (`AcceptedIsMember`). The invariant `TraceInv` follows a
  table from block to block. At the input of Merkle block `b` (`AtInput`) the prover
  has injected `b` siblings, and what the block makes of its input is what that path
  climbs to, provided the selector is a bit and the first block starts from the secret:
  the side constraints ask for both, but only of the row that follows. At the block's
  output (`AtOutput`) the first lane holds that value. Two facts carry the invariant.
  Within a block every row is determined by the first, since a step maps states to
  states (`PermutationType`). At a boundary, for a selector of 0 or 1, the two equations
  leave exactly the order of the inputs that `Climb` has (`Selected`), with whatever
  sibling the prover put in. Past the root, `Asserted` fixes sibling and selector of
  the nullifier's input, and the last boundary admits only `sk + a1 * x`. Nothing is
  used of the permutation itself, not even that it can be inverted.
- `HonestTracesAreAccepted` (`HonestProofAccepted`), the other direction: the table of
  `build_trace` for any registered member, against the root of its tree, satisfies
  every constraint and every assertion. The tree, the path and the blocks' inputs are
  loops, restated by `Iterate` (`TreeSteps`, `PathSteps`, `InputSteps`). Four facts then
  meet: a row is row `r` of block `b` for exactly one pair (`RowParts`, `RowsApart`),
  so the side columns hold the injected sibling at the first row of its block and
  nowhere else (`SideCells`); within a block a row is the next step's state
  (`HonestRound`); at a boundary the injected input is the one the two equations select
  (`HonestBoundary`); and the output of Merkle block `b` is the node of the member's
  path on level `b`, by the halves of its index (`PathClimbs`, `RootReached`), so the
  asserted root is the tree's. Writing the sibling one row early, a mutant of the run,
  breaks `SideCells`. It needs that the tree has room for all members, which
  `MerkleTree::new` asserts.
- `TwoMessagesExposeTheSecret` (`SecondMessageExposes`) is the preceding theorem and
  algebra: two points of one line give its slope and intercept, as `P` is prime.
- `MessagesAreAbsorbedApart` (`NoTrivialCollision`). The first element gives the
  length, so both messages have the same chunks (`ChunkFacts`); a chunk spells a number
  below `ChunkValues[BYTES_PER_ELEMENT]`, hence below the modulus (`SpelledBelow`), and
  digits are unique (`PackedApart`). It needs `PackingAssumption`, which is the reason
  the source gives for 7 bytes per element, and messages shorter than the modulus.

## 7. Only model-checked

Liveness, which is out of the prover's reach.

`ForwardSecrecy` is about chain states and cached keys, as the module doc words
it; the root key itself is outside, since it derives the next epoch only.

## 8. Not modelled

- Obliviousness, stash size, differential privacy: probabilistic statements. The
  `Budget` of `dp` and its two composition formulas are float arithmetic; whether
  `k` slots of an epsilon that is not exact in binary sum to no more than the total
  is a question about rounding.
- The STARK proof system behind `air.rs` (winterfell), taken to be sound and
  complete; constraint degrees, proof options and proof bytes. The primitives of
  `core` and the Reed-Solomon arithmetic, both library calls.
- Byte formats, lengths, malformed input: parsing is total and its results are
  the records of the models. Peers, members and dealers run this code. So a step
  reply that does not parse, which leaves the initiator without the key material it
  has taken already (`core/src/ratchet.rs` 761), is outside.
- More than `MAX_SKIPPED_KEYS` records of one direction lost in one epoch: `open`
  refuses the rest of that direction (`core/src/ratchet.rs` 687), as documented.
- Counter widths in `ratchet.rs` and `group.rs` (`u64`, `checked_add`): the bound
  is beyond any run. The exhaustion of the record layer and of the ORAM's nonces is
  modelled.
- Group commits that race: the module doc leaves ordering to the caller.
- Restarts of the ORAM encryption layer: nothing is persisted, and a new
  `EncryptingServerStorage` starts its nonces at zero, so its key must be new too.
  The model has one layer and one key.
- Secrecy in the symbolic sense, which `core/formal/proverif` treats.
- Who presents a certificate of sealed sender: an envelope proves possession of a
  certificate, as the module doc says, and `UnsealedAsVouched` claims no more.
- Rotation of signed prekeys, which the application does around
  `ReceivingDevice`, and sessions begun by a peer that claims another's identity
  (the caller pins identities).

One thing a reader of the RLN sources should know: a share carries its nullifier,
and the nullifier *is* the slope `a1` of its line (`rln/src/lib.rs` 181-188). The
comment that a single share is information-theoretically hiding
(`rln/src/share.rs` 6-8) is about `x` and `y` alone. `SecondMessageExposes` is about
`recover_secret` and says nothing of what else a share tells.
