# TLA+ specifications of privacy-core

privacy-core is the library shared by the indexer and the relayer of a shielded
pool on an EVM chain. It keeps the Merkle trees of the pool (note commitments,
frozen values, the frontier of the confirmed prefix), hashes with its own copy
of Poseidon, encodes the calldata of the contracts and decodes their logs. It
has no threads and no network of its own; what is concurrent is its use: several
readers share one tree and its cache, several cranks confirm one queue, and a
service is killed and restarted from what it persisted.

The specifications are checked with TLC on small instances. What is said of
*every* instance is proved with TLAPS; the table of theorems is below.

## 1. Inventory

| Component | Source | State | Operations | Correct when |
|---|---|---|---|---|
| Merkle hashing, paths | `commitment_tree/poseidon.rs` 22-85 | none | `merkle_compress`, `poseidon_domain_pair`, `merkle_root` | a path made of sibling digests opens to the root |
| Note-commitment tree | `commitment_tree/mod.rs`, `poseidon.rs` 85-191 | leaves, size, a cache of node hashes behind a `RwLock` | `append`, `latest_root`, `root_at`, `merkle_path_at` | every answer is that of the prefix asked for, however the cache was filled |
| Frozen-set Indexed Merkle Tree | `commitment_tree/frozen.rs` | a sorted linked list in insertion order | `insert`, `frozen_values`, `from_frozen_values`, `root`, `non_membership_witness` | the list is sorted, its intervals partition what is not frozen, a rebuild is exact, witnesses open |
| Frontier tree | `commitment_tree/frontier.rs` | filled node per level, next index, root | `insert`, `from_parts`, `frontier_commit`, `plan_batch(es)` | the post-state of a plan is the frontier of the longer prefix |
| Confirmation protocol | users of `frontier.rs`, `ethereum/perc20.rs` 133-194 | queue and confirmed root (chain), mempool, one frontier per crank and its snapshot | enqueue, plan, submit, execute, receipt, replay, save, crash | the chain confirms prefixes only; no crank runs ahead; everything is confirmed |
| Poseidon sponge | `poseidon_primitives/mod.rs` 130-401 | state, rate slots, mode | `absorb`, `finish_absorbing`, `squeeze`, `hash` | the hash is that of the padded blocks; lengths are separated |
| Grain generator | `poseidon_primitives/grain.rs` | 80-bit register and an index into it | `new`, `get_next_bit`, `next`, `next_field_element(_without_rejection)` | it is Grain, bit by bit |
| Poseidon permutation, matrix search | `poseidon_primitives/mds.rs`, `mod.rs` 52-128 | the draws, the matrix, the permuted state | `generate_mds`, `generate_constants`, `permute` | the matrix is separable, its inverse is its inverse, rounds are in order |
| Binding signature, value balance | `ethereum/mod.rs` 157-332 | loop registers | `sum_rcv_mod_bjj`, `mulmod`, `binding_s_scalar_bn254`, the sign-bit encoding | a signature binds the declared balance; no overflow |
| Bundle and ERC shield calldata | `ethereum/mod.rs` 60-155, 448-556 | none | `encode_bundle_calldata`, `encode_erc_shield_calldata` | the pool reads what the wallet wrote |
| Sighashes | `ethereum/mod.rs` 357-408 | none | `binding_sighash_privacy_pool_bundle_v1`, `spend_auth_sighash_v1` | they commit to the whole bundle and are the contract's |
| Bundle calldata decoding | `ethereum/bundle_decode.rs` | none | `decode_bundle_calldata`, `bundle_actions_by_cmx` | inverse of the encoders, old layouts too; a note gets the ciphertexts of its cmx |
| Event decoding | `ethereum/events.rs` | none | `decode_note_added_log` and eight others | the layout is told from the log; positions, counts, amounts and accounts keep their meaning |
| pERC20 and swap calldata | `ethereum/perc20.rs` | none | encoders, swap id, swap decoders | the relayer's swap id and commitments are the coordinator's |
| Groth16 proof encoding | `ethereum/groth16_proof.rs` | none | parse and lay out coordinates | G2 limbs are swapped once |
| finalizeWithdraw calldata, BTC shield intent | `ethereum/mod.rs` 410-446, `intent.rs` | none | one encoder, one constructor | - |
| Data types | `types.rs`, `lib.rs` | none | serde containers of what the indexer derives | filled from one log each |

How they interact. Bundles (calldata) enqueue commitments on the chain. The
indexer decodes `NoteAdded`, appends each commitment to the **commitment tree**
and serves roots and paths from it. Cranks keep a **frontier tree**, plan root
updates with it, submit them as `updateRoots` calldata, and follow the chain
through `NoteConfirmed` / `RootUpdated`. Two relayers swap notes of two pools
through the swap coordinator, each reading the other's leg from calldata. The **frozen tree** is rebuilt at start
from persisted values. All three trees hash through the **sponge**, over the
**permutation**, whose constants come from **Grain**. A bundle's value balance is
bound by the **binding signature**.

What is hard to test: two readers between a cache miss and the fill; a tree that
grows under a shared cache; a prefix root that must not see later leaves; cranks
whose transactions overtake, revert, get lost or land after a timeout; restarts
in the middle of a rebuild; a shift register that is rotated under its reader's
index; modular sums in two different moduli; five generations of pools whose logs
and calldata differ; a relayer that acts on an id before the chain knows it. `PROJECT.json` lists each at its line.

## 2. Modules

| Module | Models | State variables and their counterparts |
|---|---|---|
| `MerkleTree` | the fixed-depth tree, its empty subtrees, digests, paths | - (operators; `merkle_root`, `Empty`, `Digest`) |
| `FrozenSet` | what the frozen tree promises: a growing set with a durable copy | `frozen`, `durable` |
| `FrozenImt` | `frozen.rs`, insert by insert, with checkpoint and rebuild | `leaves`; `checkpoint` is what the owner persisted; `replayed` is the loop of `from_frozen_values`; `saved` is a history variable |
| `CommitmentTree` | `mod.rs`, `poseidon.rs`; the recursion of a query has an explicit stack per reader, one lock acquisition a step | `leaves`, `size`, `node_cache`; `readers[r].todo/done` is the call stack |
| `Frontier` | `frontier.rs` as functions of the frontier record | record `filled`, `next_index`, `root` |
| `ConfirmedLog` | what the cranks and the chain promise together | `log`, `count`, `root`, `commit` |
| `ConfirmCrank` | composition of `Frontier`s with the chain and the mempool | `queue`, `chain`, `mempool`, `crank[c].tree/clone/tx/receipt`, `persisted[c]` |
| `PoseidonSponge` | `Hash::hash` over the sponge | `slots` is the mode's array of options, `sponge_state` is `Sponge::state` |
| `Grain` | `grain.rs` with its 80 bits and taps | `grain_state`, `next_bit`; `await` is the place inside `next()`; `seed`, `produced` are history variables |
| `Poseidon`, `Field` | `generate_mds` and `permute` over a small prime field | `vals`, `select`, `mds`, `mds_inv`, `state`, `round` |
| `BindingSignature` | the binding scalar, addition by addition, and the value balance | `acc` of `sum_rcv_mod_bjj`, `mul` the registers of `mulmod`, `balance` the word on the wire |
| `Abi` | `ethabi` as the code uses it: types, `Encode`, `Decode` on 32-byte words | - |
| `Bundle`, `Groth16Proof`, `Perc20`, `Sighash` | the encoders and calldata decoders, the signed messages | - (functions on words) |
| `Events` | the log decoders | - |
| `Indexing` | composition: a wallet (encoders), a pool of one of five generations, an indexer (decoders) | `queue`, `confirmed`, `logs`, `balances` of the chain; `index` is what `OrchardIndexBatch` and `OrchardIndexedAbiNote` hold |
| `Swap` | composition: two relayers, the coordinator, the mempool, an indexer | `swaps`, `swap_logs`, `mempool`, `now` of the chain; `cursor` of the indexer |

`Indexing` and `Swap` share codecs and one module of proofs, `CalldataProofs`, which
extends both; where they have the same notion the name in `Swap` says so (`SwapInit`,
`SwapNext`, `SwapSpec`, `SwapTypeOK`, `swap_logs`).

`MC*` modules give the operator constants values TLC can compute with. A hash is
always an uninterpreted constant operator; in the `MC*` modules it builds a term
(a tuple of its arguments), so that two inputs never collide. No property needs
more of the hash, and the proofs use nothing of it at all, but for
`SighashBindsBundle` and the theorems about swaps, whose hypothesis is that the
hashes they name do not collide.

The parts that are not under `src/` (the contracts, the confirmation circuit, the
mempool, `ethabi`, the loops of cranks, relayers and indexer) are modelled from
the signatures, docs and formats in `src/` that describe them, and are marked
external in `PROJECT.json`.

Modelling decisions worth knowing:

* A query of the commitment tree is not atomic. Between the lookup under the read
  lock and the insert under the write lock any other reader may run. `append`
  takes `&mut self`, so it runs only when no reader does.
* `be_bytes_to_fr` and `fr_from_be` reduce a word modulo the field instead of
  refusing it; an arrival above the modulus is one of the inputs of the runs.
* A crank plans on a clone and advances its own tree when the receipt says
  success; it may stop waiting although its transaction is still in the mempool.
* `FrozenImt::insert` and `OrchardCommitmentTree::append` have no capacity check,
  and neither has the model (see Findings).
* Calldata and log data are sequences of words. A word is a number or opaque; a
  layout that reads an opaque word as an offset or a length fails, as it does on
  32 bytes of a hash. The balance of a bundle is a number or a negative one, and the
  sign bit of a negative 0 is kept (mod.rs:302). The contracts' layouts are spelled out in `Indexing` and
  `Swap` from the Solidity signatures, apart from the encoders', so that an
  encoder cannot agree with itself only.
* The encoders of the two old bundle layouts are no longer in the library; the old
  calldata the decoder accepts is built from its signatures (`HistoricCalldata`).
* An indexer stops at a log it cannot decode: every error of a decoder is final.
* `Swap` keeps of a transaction what coordinator and indexer read in it, not its
  words; both readings go through `Encode` and `Decode`. A relayer keeps nothing
  but the terms, so that a crash is no step of its own.
* A `panic` of the code is a phase of its own (`"panicked"`), never a missing step.
  `encode_update_roots_calldata` is a function: outside 1..=4 updates its value is
  `Panicked`, which no pool can read. No crank gets there: `MaxProofs` of
  `ConfirmCrank` stands for that four, and its `TypeOK` has no other transaction.
* 0 is a member of a frozen tree from the start (the sentinel's value):
  `WitnessesVerify` says that it has no witness, like a value that is frozen.

## 3. Runs

| Run | Instance | Shows |
|---|---|---|
| `frozen` | 6 field values, depth 3 (8 leaves > 6 values) | sorted list and partition, exact rebuild also when a crash interrupts it, verifying witnesses, refinement of `FrozenSet` |
| `frozen_full` (violation) | depth 2, 5 values to freeze | past its capacity the tree has witnesses that do not open |
| `tree` | depth 2, 4 arrivals (a full tree), 2 readers | cache coherence, answers of the prefix, every query ends, no deadlock |
| `crank` | depth 2, 3 commitments, 2 cranks, batches of 2, 2 proofs per transaction, 2 faults | the chain confirms prefixes, cranks follow it, reverts have a cause, what a crank that has caught up plans is accepted, refinement of `ConfirmedLog` |
| `crank_live` | depth 1, 2 commitments, batches of 1, 2 cranks, 2 faults | every commitment is confirmed |
| `binding` | order 13, field 29, 5-bit words, amounts below 4, up to 2 actions | a signature verifies exactly for the balance the actions add up to; no overflow; a negative zero has the scalar 0, not the order |
| `binding_doc` (violation) | the same | a shield is not encoded as its field's doc says |
| `sponge` | rate 2, messages of 1 to 5 elements | blocks, padding, no empty slot, length separation |
| `grain` | the 80-bit register, five-bit elements of a field of 19, five parameter triples | the stream, its shrinking, the elements |
| `poseidon` | width 3 over the field of 13, one matrix passed over, 2 + 2 rounds | separability, inverse, round order |
| `indexing` | five generations of pools, 2 transactions of up to 2 actions, one amount, 10 wei a unit | indexed notes, confirmed root and custody are those of the chain; nothing is refused; nothing stops the indexer |
| `swap` | 2 swaps, 1 action a leg, deadline 1, any number of lost transactions | ids and commitments agree, legs survive the round trip, an initiated swap is settled in time |

Why the bounds are enough. *Trees*: depth 2 has nodes that are complete,
partial and absent at the same time at every size, a prefix that cuts a subtree,
and a root whose children are both inner nodes; two readers suffice for every
race on a node, because a step reads or writes one node. Capacity is exceeded by
exactly one leaf. *Frozen tree*: with six values every order of insertion, every
place in the list (head, middle, end) and every checkpoint length occur.
*Cranks*: three commitments with batches of two need a second, padded batch, and
a transaction of two proofs that overlaps a rival's; two faults allow a lost
transaction and a crash, or an early timeout and a crash, in one behaviour.
*Grain*: the register has its real length; elements of five bits make refills
fall at every offset of a pair and of an element, and 13 of 32 draws are
rejected. *Binding*: the order is smaller than the field and the word is only
just wide enough for a sum of two reduced scalars (2 * 13 < 32), as the 256-bit
word is for 251-bit scalars; a sum of two unreduced field elements wraps.
*Poseidon*: in the field of 13, x^5 is a permutation, and among the draws are
repeated elements and elements whose sum is 0, so all the exits of the search
occur. *Sponge*: lengths below, at and above multiples of the rate.

*Indexing*: two transactions of two actions have logs and leaves of different
transactions on both sides of every batch, two batches in one update, an action
that repeats the commitment before it, and money that moves in both directions.
The widths 2^32, 2^64, 2^128 are scaled down to 2^12, 2^13, 2^14, above every
offset and amount that occurs; inputs that are wider than their field do not
occur, because the encoders take machine integers. *Swap*: with two swaps a
transaction of one can be taken for the other; every transaction can overtake
any other, be repeated and be lost, and the deadline can pass before, between and
after any two of them.

Every named bound is a constant: `MaxActions`, `MaxFaults`, `MaxLength`, `MaxTxs`,
`Deadline`, the length of `Arrivals`, `Elements`.

Deadlock is checked in `frozen`, `tree`, `crank`. The other modules compute one
answer and stop, which their configurations say.

Fairness. `CommitmentTree`: a thread inside a query keeps running (weak fairness
of each reader's step); arrivals are not promised. `ConfirmCrank`: what stays in the mempool is executed in
the end, and a crank keeps planning, replaying, reading receipts and timing out;
faults are bounded by `MaxFaults`, which is the usual assumption that lost
transactions and crashes do not go on for ever. Enqueueing, saving, dropping and
crashing are never forced. `Indexing`: the indexer polls; nobody has to send a
transaction. `Swap`: the indexer polls, the parties of an initiated swap keep
trying to join and to settle it (weak fairness for each swap), and a transaction
that would succeed and is sent again and again gets through (strong fairness for
each swap, the least that unbounded loss allows). Nobody has to initiate or
cancel, and time may stop. There the fairness formulas are written out, with
predicates that name the steps they mean, because TLC would otherwise evaluate
every encoder to see whether an action is enabled; each is the definition of `WF`
or `SF` for those steps. `FrozenImt`, `Grain`, `Poseidon` and
`BindingSignature` state safety only.

Every property of a passing run has a variant of a definition next to it (marked
*Variant* in the modules) that breaks it: a dropped reset, a swapped order, an
off-by-one; so that a property that could not fail would be noticed.

## 4. Findings

* **The trees of notes and of frozen values accept more leaves than they have.**
  `FrozenImt::insert` (frozen.rs:126) and `Bn254IncrementalMerkleTree::append`
  (poseidon.rs:107) do not check the capacity, unlike `FrontierTree::insert`,
  which asserts. Past it, witnesses and paths are still handed out, and do not
  open. (`frozen_full` shows it for frozen values, depth 2; for notes, depth 32,
  it is remote, and `tree` stays within the capacity.)
* **Doc of `value_balance`.** ethereum/mod.rs:88 promises `Fr - v` for a shield;
  the encoder at mod.rs:299 sets a sign bit. (`binding_doc`.)

Two hazards listed in `PROJECT.json` have no property, on top of the panic of `as_u64`
(section 6). That `append` has no capacity check is the first finding above: past the
capacity `AnswersMatchPrefix` is false, and nothing in the repository claims it
there. That `decode_value_balance_be` looks at the last 8 bytes and the first bit only
(mod.rs:311) cannot show, because every word it is given is one the encoder wrote.

## 5. Proofs

| Module | Theorems | Assumes |
|---|---|---|
| `NatRecursion` | a recursive function over Nat exists, satisfies its equation and agrees with every bounded one; quotients and remainders are unique, and remainders respect sums and products | - |
| `MerkleTreeProofs` | `PathOpens`: a path of sibling digests opens to the root, for every depth, every position, every leaves and every hash | `DepthAssumption` |
| `FrozenImtProofs` | `TypeCorrect`, `SortedListHolds`, `RebuildExactHolds`, `Implements`, `WitnessesVerifyWithinCapacity` | `ModulusAssumption`, `DepthAssumption` |
| `CommitmentTreeProofs` | `TypeCorrect`, `CacheStaysCoherent`, `AnswersWithinCapacity`: any number of concurrent readers, any depth, any hash, any arrivals | `TreeAssumption`, `DepthAssumption`; the last one: the arrivals fit the tree |
| `ConfirmCrankProofs` | `InsertIsFrontier`, `PlanIsExact`, `TypeCorrect`, `ConfirmedPrefixHolds`, `CranksNeverAhead`, `RevertsAreStale`, `PlansAlwaysGoThrough`, `Implements`: any number of cranks, any queue, any batch size, any number of proofs and faults, any depth, any hash | `CrankAssumption`, `BatchAssumption`, `DepthAssumption` |
| `BindingSignatureProofs` | `TypeCorrect`, `NoOverflow`, `ProductExact`, `SignatureBindsBalanceHolds` | `ScalarAssumption`; the last one also `BindingAssumption` |
| | `SighashBindsBundle`: equal binding messages, equal bundles, for lists of any length | no collisions of the hash; both lists of one length |
| `PoseidonProofs` | `TypeCorrect`, `SeparableHolds`, `InverseIsCorrect`, `RoundsAreInvertible`: any prime, any width, any draw, any number of rounds and any constants | `PoseidonAssumption`, `SboxAssumption` |
| | `SpongeTypeCorrect`, `HashIsOfBlocks`: any rate, field, permutation, addition, and messages of any length | `SpongeAssumption` |
| | `HashCollisionIsOfPermutation`: two messages that share a hash come with a collision of the permutation | `SpongeAssumption`, `FieldLaws` |
| | `GrainTypeCorrect`, `RegisterHolds`, `ElementsHold`: any seed, any width of an element, any modulus, any number of elements | `GrainAssumption` |
| `CalldataProofs` | `RoundTrip`: any list of the types the code uses, values of any length that fit them | `AbiAssumption`; the encoding is shorter than the largest offset |
| | `IndexingInvariant`, `IndexingTypeCorrect`, `NotesAreFaithful`, `ServedAnchorIsRoot`, `CustodyIsAgreed`, `NothingIsRefused`: any number of transactions, actions and accepted amounts, every generation, any hash, ciphertexts of any length | `IndexingAssumption`, `BundleAssumption`, `AbiAssumption` |
| | `SwapTypeCorrect`, `IdsAreAgreed`, `LegsAlwaysSurvive`: any number of swaps, any deadline, any hash, any loss and order of transactions | `SwapAssumption`, `BundleAssumption`, `SwapIdsDiffer` |

The argument for the frozen tree. That the list is sorted is not inductive by
itself: `insert` picks the *first* bracketing leaf, and is right only because
there is exactly one. So the invariant `IInv` joins `Linked` (each next value is
the least greater one), `Partition` (each value that is not in the list is in
exactly one interval) and, for the rebuild, `Mirrors`: the tree being rebuilt
holds the first `replayed` values of the checkpoint in their order, none of which
is repeated. `SplicePartition` and `SpliceLinked` show that a splice keeps the
first two; `ReplayInserts` shows that each replayed value takes effect, so that
the position it lands on is the one it was saved from. A well-formed tree is
determined by its values in order (`DeterminedByValues`); hence the rebuild is
exact. For witnesses, `SubtreeIsDigest` shows that not descending into absent
subtrees changes no hash, by induction over the levels, and `PathOpens` finishes.
The hypothesis that the leaves fit the tree cannot be dropped: `frozen_full` is
the counterexample.

The argument for the note-commitment tree. Neither a coherent cache nor a right
answer is inductive: what a reader will return, and what it will store, depends on
hashes it has computed so far and on frames it has yet to run. So `IInv` says, for
every running query, that there is a *trace*: the hashes done after each frame of
its stack, starting with those done now and ending with the answer
(`ReaderOk`). A hash frame appends the digest of its node (`Value`), a join frame
replaces two hashes by theirs, and a store frame only ever holds the digest of a
complete node. Each step of the code is then a small change of the trace: a return
drops its first entry (`ReturnOk`, `JoinOk`), a complete prefix is handed to
`subtree_hash` with the same value (`ReplaceOk`, by `SameSubtree`), a descent
inserts two entries (`DescendOk`, by `ValueChildren`). A node read from the cache is
right because the cache is coherent; a node stored is right because of the trace; a
later `append` changes no complete subtree. Other readers do not matter, because
the tree changes only while none is running.

The argument for the cranks. `FrontierOf(queue, n)` is the frontier that the first
`n` leaves make, written with digests and without `insert`. `InsertIsFrontier`
says that `insert` takes it from `n` to `n + 1`: up to the first level where the
index is even the new leaf completes nodes and nothing is filled; there its node
becomes the filled one; above, the filled nodes are those of complete subtrees,
which a later leaf cannot change (`SameSubtree`), and the root is met on the way.
Hence the segments of a plan are exact updates from one prefix to the next, and a
chain of them ends where the plan's clone does (`PlanIsExact`). The invariant
`IInv` then says: the chain is the state of a prefix of the queue; every
transaction, in the mempool or in a crank's hand, is such a chain of exact
updates within the queue (`TxOk`); every tree and snapshot is the frontier of a
confirmed prefix; and what a crank holds is *about* its tree (`InFlight`): its
transaction starts there, its clone is the frontier where it ends, a receipt of
success means that the chain has come that far, and one of failure that it has
gone on. No step needs to know which transaction is lost, repeated or overtaken:
an exact chain of updates is accepted by a chain that stands at its first prefix
and at no other, because the count is part of the check. An enqueued leaf changes no older
prefix (`Grown`). `PlansGoThrough` is the other half of safety: what is proved must
not only be right but acceptable, from every reachable state. The refinement
follows: `Execute` with an accepted transaction is `Confirm` of the abstract log,
by at most `MaxBatch * MaxProofs` leaves, `Enqueue` is `Enqueue`, and every
other step is a stutter.

The argument for the binding scalar. One turn of `mulmod` keeps
`result + a * b` modulo the order: `a` doubles while `b` halves, and the bit that
`b` loses is paid into `result`. The statement is about remainders of products of
variables, which the provers do not have as built-in facts, so `ModEquation` and
its corollaries are proved first. Overflow cannot happen because both summands
are below the order, which is at most half a word. For the signature, `KeyInv`
adds what the loop of `sum_rcv_mod_bjj` has summed: the remainder of the sum of the
scalars that were added, each reduced or not. The contract's equation is then an
equation of remainders. Its blinding half always holds; its value half says that
the challenge times the difference between what the actions add up to and what is
declared is a multiple of the order. The order is prime, so one of the factors is
(`NoZeroDivisors`); the challenge is below it and not 0, and the difference is
smaller than the order, so it is 0. `BindingAssumption` states both facts. They
hold for the source: the subgroup of Baby Jubjub has prime order, above 2^250, and
the net values and the balance are 64 bits wide, so that the difference stays below
the order for any bundle that fits in a transaction (fewer than 2^180 actions).

The argument for the matrix and the rounds. `a \cong b` says that two integers
have the same remainder by the modulus; sums and products respect it
(`CongRing`), and because the modulus is a prime a
number that is not congruent to 0 has an inverse and can be cancelled. A polynomial
is what Horner's rule makes of at most so many coefficients (`Polynomials`). One
with a root has a factor (x - r), so one that vanishes at more points than it has
coefficients vanishes everywhere, and hence it is the sum of its values at `T`
distinct nodes times the Lagrange polynomials of `mds.rs` (interpolation). Taken at
the right points, that is Schechter's formula: one product of the two matrices is
the identity (`CauchyPair`), and by exchanging the two sets of nodes so is the
other (`CauchyInverses`); the negated ys turn differences into the sums the matrix
has. That every node is distinct is the search's work: `Unique` and the assertion
on the sums are what the proof uses, and `IInv` carries to the rounds that the
matrices found are those of such a draw. Two by two minors are nonzero because they
are a product of differences of distinct nodes over nonzero denominators
(`CauchySeparable`). For the rounds, `IInv` says that undoing the rounds taken so
far gives the input; a round adds its constants, applies the S-box and multiplies
by the matrix, and undoing it multiplies by the inverse (both-sided, hence the
second half of `CauchyInverses`), takes the S-box back and subtracts.
`SboxAssumption`, that x^5 is one to one, holds in the source's field because 5 has
no factor in common with the order of its units; without it the permutation would
not be one. TLC evaluates it for the field of `poseidon`.

The argument for the sponge. `SpongeInv` says that `b` blocks have been permuted into
the state and that the first `r` elements of the next one are in the slots, where a
full block *waits* (`r` may be the rate, and is only 0 at the very start). That is
what makes `absorb` and `finish_absorbing` fit: the padded length is a multiple of
the rate, at least one block, so that at the end `r` is the rate, and no slot is
None when the last block is permuted.

No function from longer messages to field elements separates them all, so that
`LengthsSeparated` holds of terms only, where the run checks it; what can be proved
of the real field is a reduction. `Collision(m, n)` says that
hashing `m` and `n` permutes two different states whose outputs or capacities agree,
or one that leads to the capacity a hash starts with. `HashCollisionIsOfPermutation`
says that equal hashes come with one: follow the two sequences of permuted states
backwards from the outputs; as long as there is no collision they are the same
states, so the elements added are the same, until one message has no block left, where
the capacity of its length is met. `FieldLaws` says that lengths are different
elements and that addition can be cancelled; TLC evaluates it in `MCPoseidonSponge`,
together with the freedom from collisions that only terms have.

The argument for Grain. `Window` says that the register is the last 80 bits of the
stream; it is kept because a refill happens only with the index at the end
(`Load`), which is why the loop of `new` has to put it back. The bit handed out is
then the next bit of the stream whether there was a refill or not (`BitIInv`). On
top of that, `InPair` says how many whole pairs have been handed out and what the
open one began with, and `InGroup` how many groups of outputs have become
elements and that the bits of the open one are the rest. Each bit is one more bit
of a sequence whose earlier pairs and groups do not change (`ShrunkGrows`,
`ElementsStay`).

The argument for calldata. `RoundTrip` is about the layout of the ABI, one level of
nesting on top of the other: fields, structs of fields, arrays of structs, and the
parameters of a call. A level is a `Layout`: a head in which a static type stands
and a dynamic one leaves the offset of its tail. `LayoutPlaced` says where in the
words each part ends up (the offsets are sums of the lengths before them, `HeadEnd`
and `Ends`), and each reader is then shown to find its part when it starts there, if
what it reads *begins* there (`Holds`): a decoder looks at the words after an
offset, not at the words between two offsets. Offsets are words that are numbers
below `U32`, which is what the length of the encoding is bounded for; a length is
smaller than the encoding it is in. For the types of the code, `ActionTokenFits`,
`ActionsTokenFits` and `CallTokenFits` say that actions and private calls fit, with
the calldata nested in `actionsData`, and how long they are; `ParametersRead` then
covers every call and log with up to eight parameters. The bound on the length is
`CalldataWords(n) < U32` for n actions: with 580 bytes of ciphertext an action takes
about 275 words, and U32 is 2^32.

The argument for pools and their indexer. None of the five invariants of `Indexing`
is inductive: whether a note is faithful when the indexer reads its log depends on
words that a pool emitted long ago, from calldata that it accepted. `IndexingInv`
says that the logs have a *history*: a sequence of views (how many notes were queued
and confirmed, the units of every account, the shields whose amount is still to be
told, the scale), one before the first log and one after each, in which every log
tells the difference between its neighbours (`Tells`: a note, a confirmation, an
update of the root, a completed shield, an amount of custody, the pool's creation). The last view is the pool's state, and the
indexer is exactly what its cursor's view makes it (`IndexAt`). The
rest follows: reading a log moves the indexer to the next view (`IndexingReads`), and what a
view says of an indexer that has reached it are the invariants (`Sees`). A step of
the pool extends the history and leaves the earlier views true, because queued notes
never change (`ToldGrows`). That the pool accepts what it is sent, and emits logs that
tell what was sent, is `CallDelivered`: for every generation and call the contract's
reading of the calldata is the wallet's actions in the contract's layout
(`ParametersRead` again), from which it derives the very messages that were signed and the
proof the snarkjs coordinates stand for. Confirmations read the batches back from
their calldata (`UpdatesRead`), one or two at a time. Notes whose log is short get
their ciphertexts from the calldata of their transaction (`bundle_actions_by_cmx`):
the *last* action of the transaction with the commitment, which is why
`NotesFaithful` and the invariant name that one.

`IndexingAssumption` bounds what the widths of the wire have to hold:
the calldata of the largest bundle is shorter than 2^32 words, a tree
has fewer than 2^32 leaves, note amounts are below 2^64 and their value in the
underlying token below 2^128. Beyond them a position saturates (events.rs:348) and
a batch size is cut (events.rs:394), so that the theorems would be false. TLC evaluates
the assumption and checks the invariants; the history itself quantifies over
sequences of views and is not something TLC can search for.

The argument for swaps. From `ParametersRead` each transaction and each log is what
its terms say (`InitiateTxIs`, `JoinTxIs`, `SettleTxIs`, `InitiatedLogIs`,
`JoinedLogIs`): coordinator and indexer read the fields the relayer encoded, and
the hashes are over the same words. `SwapInv` says that everything that is stored,
logged or in the mempool is one of these for some swap; so what `Settle` takes from
the calldata of two logs with one id are the legs of one swap. That the ids of two
swaps differ (`SwapIdsDiffer`) cannot be dropped: with a collision the second swap
would be refused as known and its legs would not match the first one's. TLC
evaluates it for the terms of `MCSwap`.

Only model-checked:

* liveness (`QueriesEnd`, `EveryLeafConfirmed`, `EverythingIndexed`,
  `SettledInTime`), because it rests on fairness and ENABLED;
* `LengthsSeparated`, which is about terms: `HashCollisionIsOfPermutation` is
  what holds of a field.

Every other invariant and action property of the runs that are expected to pass is
proved, `WitnessesVerify` and `AnswersMatchPrefix` for leaves that fit the tree.

## 6. Not modelled

Hex and decimal parsing, Keccak and SHA-256, the serde of stored bundles, and two
pure functions nothing else in the repository depends on: the BTC intent record
(`intent.rs`) and `encode_finalize_withdraw_calldata`, three static words of a path
its comment calls legacy. `as_u64` panics on an amount or a deadline of 2^64 and
more (bundle_decode.rs:160, perc20.rs:429), a position saturates (events.rs:348) and
`batch_size` is cut to 32 bits (events.rs:394): the operators have these branches,
no run reaches them, since nothing the library encodes is as wide and no contract
modelled here emits it.

## 7. Plan

Order: the trees and their use first, because every other part trusts a root;
then what they hash with; then the binding of values; then the wire.

1. *(done)* `MerkleTree`, `FrozenImt`, `FrozenSet`, `CommitmentTree`, `Frontier`,
   `ConfirmedLog`, `ConfirmCrank`, `PoseidonSponge`, `Grain`, `Poseidon`,
   `BindingSignature`; proofs about the frozen tree, paths and the binding scalar.
2. *(done)* The wire: `Abi`, `Bundle`, `Groth16Proof`, `Sighash`, `Perc20`,
   `Events`, composed in `Indexing` and `Swap`.
3. *(done)* `CommitmentTreeProofs`: the shared cache and the answers of its readers.
4. *(done)* `ConfirmCrankProofs`, Grain, the sponge, and that a signature
   binds the balance.
5. *(done)* `PoseidonProofs`: the search, the matrix, the rounds, and what a collision
   of the hash says about the permutation.
6. *(done)* `CalldataProofs`: the layout of the ABI reads back what it writes; pools
   and their indexer; swaps.
