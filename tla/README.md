# TLA+ models of starcoin: accumulator, block storage, pubsub, genesis file, test config, Move prover translator

This directory holds TLA+ models of parts of the starcoin node in `src/`, with
the TLC configurations that check them. `PROJECT.json` lists:

- every component, with its modelling status;
- every run, with what it shows;
- the mutants that show each property can fail;
- the map from each definition to the source lines it translates;
- the findings;
- the hazards of the code.

## The system and its parts

| Part | Source | State | Operations | Interactions |
|---|---|---|---|---|
| Merkle accumulator engine | not under `src/` (spec.md §2–§7); its tests are in `core/accumulator/src/accumulator_test.rs` | peaks (frozen subtree roots), num_leaves, num_nodes, uncommitted node cache | append, flush, get_leaf, get_proof, verify, new from an `AccumulatorInfo` | Node Store (get_node, put_nodes); callers persist the `AccumulatorInfo` inside `BlockInfo` |
| Naive reference | `accumulator_test.rs` | none (pure) | compute_root_hash_naive, compute_hashes_for_all_positions, compute_parent_hash | the tests compare it with the engine |
| Block storage | `storage/src/block/mod.rs` | header, number, body, block, transactions and transaction-info stores | save*, commit_block, get*, get_latest_block(_header), put_transactions, put_transaction_infos, value codecs | the chain writes and RPC/sync read through clones of one `BlockStorage` over one storage instance |
| Block types | `types/src/block.rs` | values | BlockHeader Ord/PartialOrd, Block/BlockInfo/BlockTemplate conversions | used by storage, chain, genesis |
| Genesis | `core/genesis/src/lib.rs` | genesis file in the data dir, FRESH_GENESIS table | build (accumulator append+flush), save, load_from_dir, execute_genesis_block | accumulator, storage, chain |
| PubSub RPC | `rpc/server/src/module/pubsub.rs` | three subscriber sets behind RwLocks, one shared atomic id | subscribe, unsubscribe | RPC threads, notify actors |
| CLI | `cmd/starcoin/src/txn/transfer.rs`, `main.rs` | none | transfer: read account sequence number, sign, submit | node RPC |
| Functional-test config | `vm/functional-tests/src/config/global.rs` | accounts map | Config::build | test harness |
| Move prover translator | `vm/move-prover/src/bytecode_translator.rs` | per-function `BytecodeContext` (mutable-reference locals, loop targets), the `in_toplevel_verify` flag, output text | translate over modules and functions, translate_function (signatures, entry stubs, verification procedures), collect_mutable_refs, collect_loop_targets, translate_bytecode into a Boogie procedure | reads the stackless bytecode of each function; the Boogie prelude defines the procedures the output calls |

The behaviours that make these parts hard to get right:

- **Accumulator:** the root of a forest that is not a perfect tree; proofs
  for leaves below a small peak; a crash between flush and persisting the
  snapshot. The engine is not under `src/` and is modelled from the spec, in
  which a batch append is a fold of single-leaf appends, so a carry across
  a batch boundary cannot go wrong in the model and is not a hazard of this
  code.
- **Block storage:**
  - `commit_block` makes four separate puts, any of which can fail;
  - readers run between those puts;
  - `get_latest_block` has the boundary `0 - 1`;
  - the hash-list codec has the boundary `ends <= len`.
- **Pubsub:** three locks taken one after another by `unsubscribe`, while ids
  come from one shared counter.
- **Move prover translator:** an abort inside a prelude procedure or a
  callee must reach the procedure's `Abort:` exit; `translate_bytecode`
  emits the check after some operations only, and the `assume !$abort_flag`
  at loop headers silently removes any path on which the flag is still set.
  The entry point a call names is picked at the call site, from a flag and
  the callee, while the entry points a function gets are picked where the
  callee is translated, from its visibility and nativeness.
- **CLI transfer:** a sequence number that is stale between the read and the
  submit.

## Modules

- **`AccumulatorNode`** holds the node kinds and the hash function.
  `InternalHash(l, r) = <<l, r>>` is injective, and leaf hashes are model
  values, which gives collision resistance and domain separation (§4.5).
- **`NodeIndex`** holds the in-order position algebra of §4.1.
- **`AccumulatorNaive`** holds the test's reference construction, translated
  line by line:
  - pad to a power of two with `PLACEHOLDER`, then hash level by level;
  - the `assert_eq!(insert, None)` checks stay as `Assert`;
  - a parent of two placeholders is the placeholder.
- **`MerkleAccumulator`** is the engine. Its variables are `peaks`,
  `numLeaves`, `numNodes`, `cache`, the Node Store `store`, and the snapshots
  `flushedInfo` (returned by flush) and `savedInfo` (persisted by the caller).
  Its actions:
  - `AppendBatch`: `append` of 1..MaxBatch leaves. Each leaf is a binary
    increment over the peaks, and every new node goes to the cache.
  - `Flush`: one atomic batch write of the cache, then the snapshot.
  - `SaveInfo`: the caller persists the last flushed snapshot.
  - `Restart`: a crash and a rebuild from the persisted snapshot, with an
    empty cache.

  `GetLeaf`, `GetProof` and `Verify` are operators over the state. Ghost
  sequences `leaves`, `flushedLeaves` and `savedLeaves` record what was
  appended, flushed and saved.
- **`AccumulatorLog`** is the abstract promise: an append-only log with a
  flushed prefix and a saved prefix; a restart goes back to the saved one.
  `MerkleAccumulator` implements it: the refinement mapping reads the leaves
  back out of the cache and store through the peaks, without the ghost
  variables.
- The persisted snapshot is a `BlockInfo` (`blockInfo`): `SaveInfo` stores
  `BlockInfo::new_with_accumulator_info` of the flushed snapshot, and
  `Restart` rebuilds from `get_txn_accumulator_info` of it, as
  `do_test_genesis` does (`block.rs:437-487`, `genesis/src/lib.rs:336-348`).
- **`BlockStorage`** covers the write path and the read paths:
  - one writer runs `commit_block` as its four puts in source order
    (`CommitOrder`); each put may fail, and the failure returns and keeps the
    earlier puts;
  - readers run `get_latest_block_header` and `get_latest_block` as their
    separate `get_len`, by-number and by-hash gets, and `get_transactions`
    as one get and a decode;
  - outside `commit_block`, the chain calls `put_transactions` with the
    block's transaction ids (`TxnIds`), encoded;
  - block ids are model values with a `Number`, a fork included;
  - the caller commits a block only when its parent number is stored;
  - `OverflowChecks` selects the build: a debug build panics on `0 - 1`, and
    a release build wraps to `u64::MAX`, a number with no key.
  The `ValueCodec` of `Vec<HashValue>`, the value type of the transactions
  and transaction-info stores, is a pair of operators: `EncodeValue`
  concatenates the hashes, and `DecodeLoop` is decode_value's loop as a
  RECURSIVE operator.
- **`PubSub`** has three subscriber sets and one counter per set:
  - `CounterOf` maps every set to the one shared `AtomicU64`;
  - `Subscribe` routes `(kind, params)` as the `match` in `subscribe` does,
    and adds the next id under that set's lock;
  - `unsubscribe` is three steps, one per lock, in source order, then the
    `||` of the results;
  - two RPC threads may unsubscribe any id, including each other's.
- **`GenesisFile`** covers the data directory and the genesis file, whose
  contents are modelled as a prefix of the encoding:
  - `save` is three steps: `create_dir_all`, `File::create` (which
    truncates), and the writes of `write_all`;
  - a crash may stop `save` between any of them;
  - `load_from_dir` returns none, the decoded genesis, or a decode error.
- **`ConfigBuild`** covers `Config::build`, one loop iteration per step, with
  the default account added after the loop and `get_account_for_name` as an
  operator:
  - a keypair is its index in the fixed-seed `KeyGen` stream;
  - names are strings with a lowercase map.
- **`MutableRefs`** covers `collect_mutable_refs` and the locals
  `track_mutable_refs` dumps after a `WriteRef`:
  - a function body is a sequence of at most 3 bytecodes: borrows, assigns
    of the three `AssignKind`s, jumps and branches, over three locals (a
    `&mut` parameter, a `&mut` local and a `&` local);
  - `CollectMutableRefs` is the code's single forward pass, as a fold;
  - the reference, `MayHoldMutableRef`, is the locals that hold a mutable
    reference in some execution of the body (a least fixpoint over the
    control flow), over bodies the bytecode verifier accepts (no read of an
    unavailable local).
- **`TranslateBytecode`** covers the Boogie procedure body that
  `generate_inline_function_body` and `translate_bytecode` emit, executed
  by Boogie:
  - a function body is a sequence of at most 4 stackless bytecodes:
    operations, labels, jumps, branches, `Ret` and `Abort`, ending in `Ret`,
    `Abort` or `Jump`;
  - the operations are grouped by the statement their match arm emits
    after the call, in `AfterCall`: `propagate_abort()` (the arithmetic,
    cast and global-memory operations and calls), `assume $abort_flag ==
    false` (a callee with the `assume_no_abort_from_here` pragma), `assert
    false` (the bit operations), or nothing;
  - which operations' prelude procedures may set `$abort_flag` is the
    constant `MayAbort`, because the prelude is not under `src/`;
  - `Label` assumes `!$abort_flag` at loop headers (the keys of
    `collect_loop_targets`: labels that a later jump or branch targets);
  - the body ends in the `Abort:` exit, which sets the flag;
  - a ghost variable `raised` records whether an operation or an `Abort`
    bytecode aborted on the path. The values of locals and the debug trace
    are left out.
- **`TranslateFunctions`** covers `BoogieTranslator::translate`: one
  `ModuleTranslator` per module, `translate_function` on each function in
  order, one action per stage:
  - `TranslateNative`: the `Indirect` signature of a native, only with
    `native_stubs`;
  - `TranslateDefinition`: the `Definition` signature and the inline body,
    whose calls name `CallEntry` of the callee under the current
    `in_toplevel_verify` flag;
  - `GenerateEntries`: the entries for the visibility (`Entries`), each with
    a stub calling the `Definition` unless the function is opaque;
  - `SkipVerification`: the return when the function is out of the verify
    scope or its duration estimate is above `vc_timeout`;
  - `VerificationDefinition` and `Verification`: the flag set, the body
    again, the flag reset, and the stub calling the `VerificationDefinition`.

  A procedure is a pair of a function and an entry point; names, types,
  specs and every statement other than a call are left out. The program is
  chosen in `Init` among those the Move compiler accepts: natives have no
  body, and another module's function is called only if it is public.

## Runs

| Run | Expect | What it shows |
|---|---|---|
| `accumulator_core` | pass | With every batching of up to 5 leaves, flushes, saves and 2 restarts: the root equals `compute_root_hash_naive` of the leaves (`RootMatchesNaive`); every leaf's proof from cache+store verifies against the root (`ProofsVerify`); every leaf of the persisted snapshot is readable from the store (`SavedSnapshotDurable`). |
| `accumulator_refines_log` | pass | `MerkleAccumulator` implements `AccumulatorLog` (up to 4 leaves). |
| `block_storage_reads` | pass | `get_latest_block_header` never returns its by-number bail or None after reading a non-zero length, whatever puts and failed puts interleave: the header is always put before the number. `get_transactions` returns exactly the ids `put_transactions` put, through `decode_value` (`TransactionsRoundTrip`). |
| `latest_block_during_commit` | violation | `get_latest_block` returns `Ok(None)` when it runs between the number put and the block put, or after the block put failed. |
| `latest_block_empty_store` | violation | `get_latest_block` on an empty store panics on `max_number - 1` (debug build). |
| `pubsub_unsubscribe` | pass | An unsubscribe removes at most one subscription (`UnsubscribeRemovesAtMostOne`), and at most one unsubscribe per id returns true (`AtMostOneTrue`). Both hold because the three sets share one counter. With a counter per set, id 0 exists in two sets and both properties fail. |
| `genesis_file` | pass | A load after a completed save, with no save since, returns that genesis, process crashes included (`SavedGenesisLoads`, the assertion of `do_test_genesis`). |
| `genesis_file_crash` | violation | A crash after `File::create` leaves a file that `load_from_dir` fails to decode, where a missing file gives `Ok(None)`. |
| `config_build_keys` | pass | All accounts of a built config have distinct keypairs, the default one included (`KeysDistinct`). |
| `mutable_refs_overapprox` | violation | `collect_mutable_refs`, documented as an over-approximation, misses `$t1 := copy($t0)` of a `&mut` parameter: only Move and Store assigns propagate, and parameters are never inserted. With 4 bytecodes and only Move and Store, the same property also fails on a loop, where an assign runs after a borrow that is later in the code. |
| `translate_abort` | pass | For every body of up to 4 bytecodes, the generated procedure returns normally only if nothing aborted, leaves through `Abort:` only after an abort, and never loses a path to a loop header's `assume !$abort_flag` (`AbortReported`). Without `propagate_abort` after the arithmetic operations, an `Add` that aborts goes on to `Ret`. |
| `translate_calls` | pass | For every program of two functions in one or two modules, with and without native stubs, every call emitted in a body or stub names a procedure that is declared, by the translation or, for a native without stubs, by the prelude (`CallsResolve`). If the call site did not check that the callee is native, a verified function calling a native would name a `Direct` entry no native has. |

## Bounds and why they are enough

- **Accumulator:** 2 leaf values (under symmetry), up to 5 leaves, batches of
  1–2 and 2 restarts. Five leaves give every forest shape up to three peaks:
  - a carry through two levels (leaf 4);
  - a padded tree with placeholders at two levels.

  The refinement run uses 4 leaves to stay within minutes; it still covers
  a multi-level carry and a restart from an older snapshot.
- **Block storage:**
  - 4 blocks: a genesis block, block 1, a fork of block 1, and block 2, which
    give a re-indexed number and a chain of length 3;
  - 1 reader. Readers only get, so each reader of a run with several
    readers behaves as the one reader of a run with one;
  - 1 failing put, which is enough to leave every prefix of
    `commit_block`'s puts in the store.
- **Pubsub:** 2 threads and 3 ids. This allows two subscriptions in
  different sets and two concurrent unsubscribes of one id.
- **Genesis file:** an encoding of 3 units, which gives a partial file of 1
  or 2 units; 2 genesis values, for a re-save of a different genesis; 2
  crashes.
- **Config:** up to 3 entries over the names `alice`, `Alice`, `bob` and
  `default`. These give a case clash, a duplicate, a user-defined default
  and a validator.
- **Codec:** a hash size of 2 bytes over 2 byte values, and one vector of
  0, 1, 2 and 3 hashes per block. These exercise the `ends == len` boundary
  in the same way as 32 bytes would.
- **Mutable refs:** bodies of up to 3 bytecodes over 3 locals (about 1,900
  bodies). That is enough for a copy, a move from a parameter, and a
  reference passed through two locals. The loop case needs 4 bytecodes; with
  all three assign kinds, the set of bodies exceeds what TLC enumerates.
- **Translated bodies:** up to 4 bytecodes, over one operation of each
  statement kind (`Add`, `MoveTo`, `Shl`, `Xor`, a call, and a call with
  the no-abort pragma), about 2,300 bodies. Four bytecodes give a loop with
  an aborting operation in it (`Label`, `Add`, `Branch` back, `Ret`), and
  one operation followed by `Ret` gives a normal return after a possible
  abort. All other operations of a group emit the same statement.
- **Translated programs:** 2 functions, over 1 or 2 modules, with every
  combination of public, native, opaque, in scope and an estimate below,
  at or above the timeout, and any set of callees (self-calls included):
  about 60,000 programs. What a call names depends only on the caller and
  the callee, so two functions give every pair: intra- and inter-module,
  native, private and public callees, and calls from both the definition
  and the verification body. Three functions exceed what TLC enumerates.

Crashes of the genesis file are process crashes: `save` does not fsync,
so after a power loss the file may hold less than the writes that
returned; that is outside the model.

## Fairness

No run checks liveness, so none assumes fairness. None of the modelled code
waits:

- every operation is a bounded sequence of steps, each always enabled: the
  puts of `commit_block`, the gets of a read, the three lock steps of
  `unsubscribe`, the writes of `save`, and the loop of `Config::build`;
- `RwLock` sections hold for one step and take one lock at a time;
- the accumulator is driven synchronously by its caller (§5).

Under weak fairness of each thread, "every call returns" would only restate
that each step is enabled. What would be worth stating, such as "a flushed
snapshot is eventually saved" or "a failed commit is retried", depends on
callers that are not under `src/`.

## Not modelled, and why

- **The accumulator's `MalformedProof` and `ProofMismatch` error kinds:** they
  are not distinguished; `Verify` is a boolean.
- **Wrong `leaf_index` in `verify` (§8):** the spec says a wrong index makes
  `verify` fail. It does not when the siblings are equal: with leaves
  `<<a, a>>`, the proof of leaf 0 also verifies at index 1. `verify` is not
  under `src/` (it is modelled from the spec), so this is a remark on the
  spec's text rather than a hazard of this code.
- **Flush failure (§7):** with the store's batch write trusted to be atomic
  (§4.3), a failed flush changes nothing, so as an action it would be a
  stuttering step.
- **Block bodies and transactions:** only their presence is modelled.
- **Genesis block building and execution:** `build_genesis_block` runs the
  accumulator's new, append and flush, which is `MerkleAccumulator` from
  `Init`; execution runs chain code that is not under `src/`.
- **`Entry::from_str` and `Balance::from_str`:** string parsing, left out.
- **Block types:** value types without state. Only `BlockInfo`'s
  accumulator fields are modelled, as the persisted snapshot. `BlockHeader`'s
  derived `PartialOrd` and hand-written `Ord` disagree (see hazards), but
  nothing under `src/` compares headers. `BlockTemplate` conversions copy
  fields one by one.
- **The transaction-info store, `get_block_state` and `get_headers`:**
  single puts and gets of one key, like the transactions store that is
  modelled, and with no property of their own.
- **`collect_loop_targets`:** it needs the natural loops of
  `Graph::compute_reducible`, which is not under `src/`. `TranslateBytecode`
  uses only its keys, the loop headers, as the labels a later jump or
  branch targets; the locals assigned in each loop feed value assumptions
  only.
- **Spec §4.2's root fold:** read literally, §4.2 folds the peaks from the
  left, which differs from the test's padded `compute_root_hash_naive` from
  three leaves on (`a, a, a`). An earlier run showed this; it was retired
  for the translator's run, as it is about the spec's wording of code that
  is not under `src/`. The model's root follows the tests.
- **Spec §4.4's proof:** the text descends from the peak holding the leaf
  only. The model's `GetProof` also adds the siblings above the peaks
  (`PaddedPath`), because `proof_verify` in the tests checks every proof
  against the full root.
- **What the prelude's procedures do:** whether `$Shl`, `$WriteRef` or the
  other unchecked procedures can set `$abort_flag` is decided in the Boogie
  prelude, which is not under `src/` (see hazards).
- **Account-name case:** `get_account_for_name` looks a name up unchanged,
  while `build` stores it lowercased. Whether this bites depends on callers
  that are not under `src/` (see hazards).
- **CLI `transfer` and `main`:** the sequence number and the IPC file only
  matter together with the txpool, chain and node, which are not under
  `src/`.
- **Not planned:**
  - the Move prover translator's Boogie text of types, structs, the
    arguments of signatures and stubs, and the spec conditions (the spec
    translator is not under `src/`), and the values and debug trace of `translate_bytecode`'s
    statements, which are formatting;
  - the stub APIs, which are `unimplemented!()`.

## Plan

The modules were built in this order, most important behaviour first:

1. the accumulator, against its test reference and its abstract log;
2. block storage's commit and the concurrent reads of it;
3. the hash-list codec (now part of `BlockStorage`);
4. pubsub's shared ids and unsubscribe;
5. the genesis file across crashes;
6. the test config's keys;
7. the translator's `collect_mutable_refs`;
8. the control of the Boogie body `translate_bytecode` emits;
9. the procedures `translate_function` declares and the entries calls name.

Still to do:

- **A second block writer (sync)** committing through its own clone of
  `BlockStorage`, if its callers come under `src/`.
- **Genesis composed with the accumulator and storage:**
  - `build_genesis_block` appends and flushes the accumulator;
  - `execute_genesis_block` then commits the block;
  - `do_test_genesis` rebuilds both accumulators from `BlockInfo` and reads
    leaf 0.
