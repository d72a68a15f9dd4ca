----------------------------- MODULE BlockStorage -----------------------------
(***************************************************************************)
(* BlockStorage (storage/src/block/mod.rs): the header, number, body and  *)
(* block stores of committed blocks, written by the chain through         *)
(* commit_block and read concurrently by other services (RPC, sync)       *)
(* through the same cloned BlockStorage.                                  *)
(*                                                                         *)
(* Every put and get is one atomic access to the key/value storage.       *)
(* commit_block is four puts in a row, each of which may fail; the `?`    *)
(* returns at the first failure and leaves the earlier puts in place.     *)
(* Each read method is a sequence of gets, and a reader's gets interleave *)
(* with the writer's puts.                                                *)
(*                                                                         *)
(* The chain also puts each block's transaction ids (put_transactions)   *)
(* into the transactions store, a Vec<HashValue> value whose ValueCodec  *)
(* is given as operators, and readers get them back (get_transactions).  *)
(***************************************************************************)
EXTENDS Naturals, FiniteSets, Sequences, SequencesExt

CONSTANTS
  Blocks,          \* block ids
  Number,          \* Number[b]: the header number of block b
  Readers,         \* threads calling the read methods
  BlockStates,     \* BlockState::{Executed, Verified}
  NONE,            \* an absent value (None)
  U64MAX,          \* u64::MAX, the number 0 - 1 wraps to
  OverflowChecks,  \* TRUE: a debug build, where 0 - 1 panics
  MaxPutFailures,  \* bound on the number of failing puts
  Bytes,           \* byte values (abstracted to a small set)
  HashSize,        \* size_of::<HashValue>() (abstracted)
  MaxHashes,       \* longest Vec<HashValue> encoded
  TxnIds           \* TxnIds[b]: the transaction ids the chain puts for b

ASSUME Number \in [Blocks -> Nat]
ASSUME OverflowChecks \in BOOLEAN

Numbers == {Number[b] : b \in Blocks}

VARIABLES
  headerStore,     \* ids whose header is stored
  numberStore,     \* number -> id (NONE: no key)
  bodyStore,       \* ids whose body is stored
  blockStore,      \* id -> BlockState of the stored StorageBlock (NONE: no key)
  txnStore,        \* id -> the stored bytes of its transaction ids (NONE: no key)
  writer,          \* the chain's commit_block in progress
  committed,       \* blocks whose commit_block returned Ok
  reader,          \* reader -> the read call in progress
  failures         \* failed puts so far

vars == <<headerStore, numberStore, bodyStore, blockStore, txnStore, writer,
          committed, reader, failures>>
storeVars == <<headerStore, numberStore, bodyStore, blockStore, txnStore>>

-----------------------------------------------------------------------------
(* ValueCodec for Vec<HashValue>.                                          *)

HashValues == [1..HashSize -> Bytes]
HashVectors == BoundedSeq(HashValues, MaxHashes)

ASSUME TxnIds \in [Blocks -> HashVectors]

\* encode_value: write_all of every hash's bytes, in order.
EncodeValue(hashes) == FlattenSeq(hashes)

\* Mutant: the slice ending at the last byte is taken as not fitting.
SliceFitsStrict(data, ends) == ends < Len(data)

\* if ends <= len: the slice data[begin..ends] lies within the data.
SliceFits(data, ends) == ends <= Len(data)

\* The loop of decode_value from `begin`: push the slice and move on while
\* it fits, else break.  from_slice only fails on a slice of another length.
RECURSIVE DecodeLoop(_, _, _)
DecodeLoop(data, begin, decoded) ==
  LET ends == begin + HashSize
  IN  IF SliceFits(data, ends)
      THEN DecodeLoop(data, ends, Append(decoded, SubSeq(data, begin + 1, ends)))
      ELSE decoded

\* decode_value: begin = 0, ends = hash_size, decoded = vec![].
DecodeValue(data) == DecodeLoop(data, 0, <<>>)

-----------------------------------------------------------------------------
(* The write path.                                                         *)

\* Mutant: the number put before the header.
CommitOrderNumberFirst == <<"save_number", "save_header", "save_body", "save">>

\* The puts of commit_block, in the order it issues them.
CommitOrder == <<"save_header", "save_number", "save_body", "save">>

\* The effect of one put of block b with state st.
Put(step, b, st) ==
  CASE step = "save_header" ->
         /\ headerStore' = headerStore \union {b}
         /\ UNCHANGED <<numberStore, bodyStore, blockStore>>
    [] step = "save_number" ->
         /\ numberStore' = [numberStore EXCEPT ![Number[b]] = b]
         /\ UNCHANGED <<headerStore, bodyStore, blockStore>>
    [] step = "save_body" ->
         /\ bodyStore' = bodyStore \union {b}
         /\ UNCHANGED <<headerStore, numberStore, blockStore>>
    [] step = "save" ->
         /\ blockStore' = [blockStore EXCEPT ![b] = st]
         /\ UNCHANGED <<headerStore, numberStore, bodyStore>>

\* The chain calls commit_block(block, state) for a block whose parent
\* number is stored (a retry after a failed commit is a new call).
CommitBlock(b, st) ==
  /\ writer.step = 0
  /\ b \notin committed
  /\ Number[b] > 0 => numberStore[Number[b] - 1] # NONE
  /\ writer' = [step |-> 1, blk |-> b, st |-> st]
  /\ UNCHANGED <<storeVars, committed, reader, failures>>

\* Mutant: the step counter is not reset after the last put.
CommitPutNoReset ==
  /\ writer.step > 0
  /\ Put(CommitOrder[writer.step], writer.blk, writer.st)
  /\ writer' = [writer EXCEPT !.step = @ + 1]
  /\ committed' = committed \union {writer.blk}
  /\ UNCHANGED <<txnStore, reader, failures>>

\* The next put of commit_block succeeds; after the last one it returns Ok.
CommitPut ==
  /\ writer.step > 0
  /\ Put(CommitOrder[writer.step], writer.blk, writer.st)
  /\ IF writer.step = Len(CommitOrder)
     THEN /\ writer' = [writer EXCEPT !.step = 0]
          /\ committed' = committed \union {writer.blk}
     ELSE /\ writer' = [writer EXCEPT !.step = @ + 1]
          /\ UNCHANGED committed
  /\ UNCHANGED <<txnStore, reader, failures>>

\* The next put fails: commit_block returns the error, earlier puts stay.
CommitPutFails ==
  /\ writer.step > 0
  /\ failures < MaxPutFailures
  /\ failures' = failures + 1
  /\ writer' = [writer EXCEPT !.step = 0]
  /\ UNCHANGED <<storeVars, committed, reader>>

\* The chain, outside commit_block, calls put_transactions(id, ids): one put
\* of encode_value(ids).  A failed put changes nothing.
PutTransactions(b) ==
  /\ writer.step = 0
  /\ txnStore' = [txnStore EXCEPT ![b] = EncodeValue(TxnIds[b])]
  /\ UNCHANGED <<headerStore, numberStore, bodyStore, blockStore, writer,
                 committed, reader, failures>>

-----------------------------------------------------------------------------
(* The read paths.                                                         *)

\* number_store.get_len(): the number of stored numbers.
NumberLen == Cardinality({n \in Numbers : numberStore[n] # NONE})

\* number_store.get(n): None for a number with no key, u64::MAX included.
GetNumber(n) == IF n \in Numbers THEN numberStore[n] ELSE NONE

Idle == [op |-> "none", pc |-> "idle", len |-> 0, num |-> 0, id |-> NONE,
         result |-> "none", txns |-> <<>>]

\* A reader calls get_latest_block_header or get_latest_block.
StartRead(r, op) ==
  /\ reader[r].pc = "idle"
  /\ reader' = [reader EXCEPT ![r] = [Idle EXCEPT !.op = op, !.pc = "len"]]
  /\ UNCHANGED <<storeVars, writer, committed, failures>>

\* let max_number = self.number_store.get_len()?; then max_number - 1.
\* get_latest_block_header returns None for 0 first; get_latest_block does
\* not: 0 - 1 panics with overflow checks and wraps to u64::MAX without.
ReadLen(r) ==
  LET max == NumberLen
      rd == [reader[r] EXCEPT !.len = max]
  IN  /\ rd.pc = "len"
      /\ reader' = [reader EXCEPT ![r] =
           CASE rd.op = "latest_header" /\ max = 0 ->
                  [rd EXCEPT !.pc = "done", !.result = "none"]
             [] rd.op = "latest_block" /\ max = 0 /\ OverflowChecks ->
                  [rd EXCEPT !.pc = "done", !.result = "panic"]
             [] rd.op = "latest_block" /\ max = 0 ->
                  [rd EXCEPT !.pc = "number", !.num = U64MAX]
             [] OTHER ->
                  [rd EXCEPT !.pc = "number", !.num = max - 1]]
      /\ UNCHANGED <<storeVars, writer, committed, failures>>

\* get_block_header_by_number bails when the number has no block;
\* get_block_by_number returns Ok(None).
ReadNumber(r) ==
  LET rd == reader[r]
      id == GetNumber(rd.num)
  IN  /\ rd.pc = "number"
      /\ reader' = [reader EXCEPT ![r] =
           CASE id # NONE -> [rd EXCEPT !.pc = "get", !.id = id]
             [] rd.op = "latest_header" -> [rd EXCEPT !.pc = "done", !.result = "error"]
             [] OTHER -> [rd EXCEPT !.pc = "done", !.result = "none"]]
      /\ UNCHANGED <<storeVars, writer, committed, failures>>

\* get_block_header_by_hash reads the header store, get reads the block
\* store.
ReadRecord(r) ==
  LET rd == reader[r]
      found == IF rd.op = "latest_header" THEN rd.id \in headerStore
                                          ELSE blockStore[rd.id] # NONE
  IN  /\ rd.pc = "get"
      /\ reader' = [reader EXCEPT ![r] =
           [rd EXCEPT !.pc = "done", !.result = IF found THEN "some" ELSE "none"]]
      /\ UNCHANGED <<storeVars, writer, committed, failures>>

\* A reader calls get_transactions(id).
StartGetTransactions(r, b) ==
  /\ reader[r].pc = "idle"
  /\ reader' = [reader EXCEPT ![r] = [Idle EXCEPT !.op = "transactions", !.pc = "txns", !.id = b]]
  /\ UNCHANGED <<storeVars, writer, committed, failures>>

\* block_txns_store.get(id): Ok(Some(v)) returns decode_value of the stored
\* bytes; a missing key (and an Err) is the bail "can't find block's
\* transaction".
ReadTransactions(r) ==
  LET rd == reader[r]
      stored == txnStore[rd.id]
  IN  /\ rd.pc = "txns"
      /\ reader' = [reader EXCEPT ![r] =
           IF stored = NONE THEN [rd EXCEPT !.pc = "done", !.result = "error"]
           ELSE [rd EXCEPT !.pc = "done", !.result = "some", !.txns = DecodeValue(stored)]]
      /\ UNCHANGED <<storeVars, writer, committed, failures>>

\* The caller takes the result; the reader may call again.
FinishRead(r) ==
  /\ reader[r].pc = "done"
  /\ reader' = [reader EXCEPT ![r] = Idle]
  /\ UNCHANGED <<storeVars, writer, committed, failures>>

-----------------------------------------------------------------------------
Init ==
  /\ headerStore = {}
  /\ numberStore = [n \in Numbers |-> NONE]
  /\ bodyStore = {}
  /\ blockStore = [b \in Blocks |-> NONE]
  /\ txnStore = [b \in Blocks |-> NONE]
  /\ writer = [step |-> 0, blk |-> NONE, st |-> NONE]
  /\ committed = {}
  /\ reader = [r \in Readers |-> Idle]
  /\ failures = 0

Next ==
  \/ \E b \in Blocks, st \in BlockStates : CommitBlock(b, st)
  \/ CommitPut
  \/ CommitPutFails
  \/ \E b \in Blocks : PutTransactions(b)
  \/ \E r \in Readers :
       \/ \E op \in {"latest_header", "latest_block"} : StartRead(r, op)
       \/ \E b \in Blocks : StartGetTransactions(r, b)
       \/ ReadLen(r) \/ ReadNumber(r) \/ ReadRecord(r) \/ ReadTransactions(r)
       \/ FinishRead(r)

Spec == Init /\ [][Next]_vars

-----------------------------------------------------------------------------
(* Properties.                                                             *)

TypeOK ==
  /\ headerStore \subseteq Blocks
  /\ numberStore \in [Numbers -> Blocks \union {NONE}]
  /\ bodyStore \subseteq Blocks
  /\ blockStore \in [Blocks -> BlockStates \union {NONE}]
  /\ writer.step \in 0..Len(CommitOrder)
  /\ committed \subseteq Blocks
  /\ \A r \in Readers :
       /\ reader[r].pc \in {"idle", "len", "number", "get", "txns", "done"}
       /\ reader[r].len \in 0..Cardinality(Numbers)
       /\ reader[r].result \in {"none", "some", "error", "panic"}
  /\ failures \in 0..MaxPutFailures

\* get_latest_block_header, once it has read a non-zero get_len, returns
\* Ok(Some(header)): never the bail of get_block_header_by_number nor None,
\* whatever puts and failed puts of commit_block run between its gets.
LatestHeaderSound ==
  \A r \in Readers :
    reader[r].pc = "done" /\ reader[r].op = "latest_header" /\ reader[r].len > 0
    => reader[r].result = "some"

\* get_transactions returns, in full and in order, the transaction ids
\* put_transactions put for the block: decode_value inverts encode_value.
TransactionsRoundTrip ==
  \A r \in Readers :
    reader[r].pc = "done" /\ reader[r].op = "transactions" /\ reader[r].result = "some"
    => reader[r].txns = TxnIds[reader[r].id]

\* get_latest_block, once it has read a non-zero get_len, returns the
\* latest block (Some), as get_latest_block_header returns its header.
LatestBlockSound ==
  \A r \in Readers :
    reader[r].pc = "done" /\ reader[r].op = "latest_block" /\ reader[r].len > 0
    => reader[r].result = "some"

\* get_latest_block on a store without blocks returns, as
\* get_latest_block_header does, rather than panicking on max_number - 1.
GetLatestBlockNoPanic ==
  \A r \in Readers : reader[r].result # "panic"
=============================================================================
