-------------------------- MODULE MerkleAccumulator --------------------------
(***************************************************************************)
(* The accumulator engine (spec sections 3, 4.2-4.4 and 7) together with  *)
(* the Node Store it flushes to and the caller that persists the          *)
(* AccumulatorInfo snapshot and rebuilds an engine from it after a crash. *)
(*                                                                         *)
(* The engine keeps the frozen subtree roots ("peaks", largest subtree    *)
(* first), the leaf and node counts and the uncommitted cache of nodes,   *)
(* keyed by their own hash.  Flush writes the cache to the store in one   *)
(* atomic batch and returns the snapshot; the caller later saves the      *)
(* snapshot (in the block info).  A crash loses the engine, its cache and *)
(* any snapshot not yet saved; the store and the saved snapshot survive.  *)
(*                                                                         *)
(* leaves, flushedLeaves and savedLeaves are history variables: the leaf  *)
(* sequence each of the three snapshots stands for.  They are read only   *)
(* by the properties.                                                     *)
(***************************************************************************)
EXTENDS AccumulatorNaive, SequencesExt

CONSTANTS
  MaxLeaves,    \* bound on the number of leaves of one accumulator
  MaxBatch,     \* bound on the number of leaves given to one append
  MaxRestarts   \* bound on the number of crashes and rebuilds

ASSUME MaxLeaves \in Nat /\ MaxBatch \in Nat \ {0} /\ MaxRestarts \in Nat

VARIABLES
  peaks,         \* frozen_subtree_roots, largest subtree first
  numLeaves,     \* num_leaves
  numNodes,      \* num_nodes
  cache,         \* uncommitted nodes: hash -> node
  store,         \* the Node Store: hash -> node
  flushedInfo,   \* the AccumulatorInfo the last flush returned
  blockInfo,     \* the BlockInfo the caller has persisted
  leaves, flushedLeaves, savedLeaves,  \* history variables
  restarts       \* number of crash rebuilds so far (bounds the model)

engineVars == <<peaks, numLeaves, numNodes, cache>>
ghostVars == <<leaves, flushedLeaves, savedLeaves, restarts>>
vars == <<engineVars, store, flushedInfo, blockInfo, ghostVars>>

-----------------------------------------------------------------------------
(* Roots.                                                                  *)

\* The depth of the padded tree over n >= 1 leaves: ceil(log2(n)).
Depth(n) == BitLength(n - 1)

\* Hash of the node at level lvl covering m (<= 2^lvl) leaves whose frozen
\* subtrees, largest first, are pks.  The part of the node beyond the last
\* leaf is PLACEHOLDER, so a node holding m < 2^lvl leaves has a
\* placeholder right child (m <= half) or a frozen left child (m > half).
RECURSIVE PaddedRoot(_, _, _)
PaddedRoot(pks, m, lvl) ==
  CASE m = 0        -> PLACEHOLDER
    [] m = 2^lvl    -> Head(pks)
    [] m <= 2^(lvl - 1) ->
         InternalHash(PaddedRoot(pks, m, lvl - 1), PLACEHOLDER)
    [] OTHER ->
         InternalHash(Head(pks), PaddedRoot(Tail(pks), m - 2^(lvl - 1), lvl - 1))

\* root_hash(): the root of the padded tree over the frozen subtrees.
RootHash(pks, n) == IF n = 0 THEN PLACEHOLDER ELSE PaddedRoot(pks, n, Depth(n))

\* The AccumulatorInfo snapshot of the current engine.
Info == [root |-> RootHash(peaks, numLeaves), peaks |-> peaks,
         numLeaves |-> numLeaves, numNodes |-> numNodes]

\* BlockInfo::new_with_accumulator_info: the transaction accumulator fields
\* of the block info, copied from an AccumulatorInfo (the block id, total
\* difficulty and block accumulator info are not modelled).
NewWithAccumulatorInfo(info) ==
  [accumulator_root |-> info.root, frozen_subtree_roots |-> info.peaks,
   num_leaves |-> info.numLeaves, num_nodes |-> info.numNodes]

\* BlockInfo::get_txn_accumulator_info: AccumulatorInfo::new of those fields.
GetTxnAccumulatorInfo(bi) ==
  [root |-> bi.accumulator_root, peaks |-> bi.frozen_subtree_roots,
   numLeaves |-> bi.num_leaves, numNodes |-> bi.num_nodes]

\* The AccumulatorInfo of the persisted block info.
savedInfo == GetTxnAccumulatorInfo(blockInfo)

-----------------------------------------------------------------------------
(* Append (section 4.2).                                                   *)

\* Mutant of Carry: the new subtree is combined as the left child.
RECURSIVE CarrySwapped(_, _, _)
CarrySwapped(st, h, lvl) ==
  IF (st.numLeaves \div 2^lvl) % 2 = 1
  THEN LET p == Last(st.peaks)
           m == InternalHash(h, p)
       IN  CarrySwapped([st EXCEPT !.peaks = Front(@),
                                   !.cache = @ @@ (m :> Internal(h, p)),
                                   !.numNodes = @ + 1], m, lvl + 1)
  ELSE [st EXCEPT !.peaks = Append(@, h)]

\* Merge an incoming perfect subtree of level lvl with root h into the
\* forest st: while a peak of the same size exists (bit lvl of the old leaf
\* count is set) combine it, as left child, with the incoming subtree and
\* cache the new internal node; then push the result as the smallest peak.
RECURSIVE Carry(_, _, _)
Carry(st, h, lvl) ==
  IF (st.numLeaves \div 2^lvl) % 2 = 1
  THEN LET p == Last(st.peaks)
           m == InternalHash(p, h)
       IN  Carry([st EXCEPT !.peaks = Front(@),
                            !.cache = @ @@ (m :> Internal(p, h)),
                            !.numNodes = @ + 1], m, lvl + 1)
  ELSE [st EXCEPT !.peaks = Append(@, h)]

\* Mutant of AppendLeaf: the leaf node itself is never cached.
AppendLeafNoLeafNode(st, leaf) ==
  LET c == Carry([st EXCEPT !.numNodes = @ + 1], leaf, 0)
  IN  [c EXCEPT !.numLeaves = @ + 1]

\* Mutant of AppendLeaf: the leaf is counted twice in num_nodes.
AppendLeafCountTwice(st, leaf) ==
  LET c == Carry([st EXCEPT !.cache = @ @@ (leaf :> Leaf),
                            !.numNodes = @ + 2], leaf, 0)
  IN  [c EXCEPT !.numLeaves = @ + 1]

\* One leaf: cache it as a Leaf node, carry it in, count it.
AppendLeaf(st, leaf) ==
  LET c == Carry([st EXCEPT !.cache = @ @@ (leaf :> Leaf),
                            !.numNodes = @ + 1], leaf, 0)
  IN  [c EXCEPT !.numLeaves = @ + 1]

RECURSIVE AppendLeaves(_, _)
AppendLeaves(st, batch) ==
  IF batch = <<>> THEN st ELSE AppendLeaves(AppendLeaf(st, Head(batch)), Tail(batch))

\* The batches one append call may be given.
Batches == UNION {[1..k -> LeafHashes] : k \in 1..MaxBatch}

AppendBatch(batch) ==
  /\ numLeaves + Len(batch) <= MaxLeaves
  /\ LET st == AppendLeaves([peaks |-> peaks, numLeaves |-> numLeaves,
                             numNodes |-> numNodes, cache |-> cache], batch)
     IN  /\ peaks' = st.peaks
         /\ numLeaves' = st.numLeaves
         /\ numNodes' = st.numNodes
         /\ cache' = st.cache
  /\ leaves' = leaves \o batch
  /\ UNCHANGED <<store, flushedInfo, blockInfo, flushedLeaves, savedLeaves,
                 restarts>>

-----------------------------------------------------------------------------
(* Flush (section 4.3), the caller saving the snapshot, crash and rebuild. *)

\* One atomic batch write of the whole cache, then the cache is cleared and
\* the snapshot returned.
Flush ==
  /\ store' = store @@ cache
  /\ cache' = <<>>
  /\ flushedInfo' = Info
  /\ flushedLeaves' = leaves
  /\ UNCHANGED <<peaks, numLeaves, numNodes, blockInfo, leaves, savedLeaves,
                 restarts>>

\* Mutant of SaveInfo: the caller persists the engine's current info
\* without waiting for a flush.
SaveInfoUnflushed ==
  /\ blockInfo' = NewWithAccumulatorInfo(Info)
  /\ savedLeaves' = leaves
  /\ UNCHANGED <<engineVars, store, flushedInfo, leaves, flushedLeaves,
                 restarts>>

\* The caller persists the snapshot the last flush returned, in a BlockInfo.
SaveInfo ==
  /\ blockInfo' = NewWithAccumulatorInfo(flushedInfo)
  /\ savedLeaves' = flushedLeaves
  /\ UNCHANGED <<engineVars, store, flushedInfo, leaves, flushedLeaves,
                 restarts>>

\* Mutant of Restart: the engine is rebuilt from the snapshot the last
\* flush returned, whether or not the caller persisted it.
RestartFromFlushed ==
  /\ restarts < MaxRestarts
  /\ restarts' = restarts + 1
  /\ peaks' = flushedInfo.peaks
  /\ numLeaves' = flushedInfo.numLeaves
  /\ numNodes' = flushedInfo.numNodes
  /\ cache' = <<>>
  /\ flushedInfo' = flushedInfo
  /\ leaves' = savedLeaves
  /\ flushedLeaves' = savedLeaves
  /\ UNCHANGED <<store, blockInfo, savedLeaves>>

\* A crash drops the engine; MerkleAccumulator::new rebuilds it, with an
\* empty cache, from get_txn_accumulator_info of the persisted BlockInfo.
Restart ==
  /\ restarts < MaxRestarts
  /\ restarts' = restarts + 1
  /\ peaks' = savedInfo.peaks
  /\ numLeaves' = savedInfo.numLeaves
  /\ numNodes' = savedInfo.numNodes
  /\ cache' = <<>>
  /\ flushedInfo' = savedInfo
  /\ leaves' = savedLeaves
  /\ flushedLeaves' = savedLeaves
  /\ UNCHANGED <<store, blockInfo, savedLeaves>>

-----------------------------------------------------------------------------
(* Reads: get_leaf, get_proof and proof verification (section 4.4).        *)

\* A node by hash: the uncommitted cache first, then the store.
Fetch(nodes, h) ==
  IF h \in DOMAIN nodes THEN nodes[h] ELSE Missing

EngineNodes == cache @@ store

\* A failed lookup: NotFound, or a node the descent needs is absent.
NotFound == [ok |-> FALSE, siblings |-> <<>>, leaf |-> PLACEHOLDER]

\* Descend from the frozen node h of level lvl to its leaf at offset off,
\* choosing children by the bits of off, most significant first, and
\* collecting the other child of every step, leaf-to-root.
RECURSIVE Descend(_, _, _, _)
Descend(nodes, h, lvl, off) ==
  LET node == Fetch(nodes, h)
      half == 2^(lvl - 1)
      below == IF off < half THEN Descend(nodes, node.left, lvl - 1, off)
                             ELSE Descend(nodes, node.right, lvl - 1, off - half)
  IN  CASE lvl = 0 /\ node.kind = "leaf" ->
             [ok |-> TRUE, siblings |-> <<>>, leaf |-> h]
        [] lvl > 0 /\ node.kind = "internal" /\ below.ok ->
             [below EXCEPT !.siblings =
                Append(@, IF off < half THEN node.right ELSE node.left)]
        [] OTHER -> NotFound

\* The levels of the frozen subtrees of n leaves, largest first: the set
\* bits of n.
RECURSIVE PeakLevels(_, _)
PeakLevels(n, lvl) ==
  IF 2^lvl > n THEN <<>>
  ELSE PeakLevels(n, lvl + 1) \o (IF (n \div 2^lvl) % 2 = 1 THEN <<lvl>> ELSE <<>>)

\* Walk the peaks accumulating their leaf counts until the running total
\* exceeds i: the peak holding leaf i and i's offset within it.
LocatePeak(n, i) ==
  LET lv == PeakLevels(n, 0)
      start[k \in 1..Len(lv) + 1] == IF k = 1 THEN 0 ELSE start[k - 1] + 2^lv[k - 1]
      k == CHOOSE k \in 1..Len(lv) : start[k] <= i /\ i < start[k + 1]
  IN  [peak |-> k, level |-> lv[k], offset |-> i - start[k]]

\* get_leaf(i)
GetLeaf(nodes, pks, n, i) ==
  IF i >= n THEN NotFound
  ELSE LET loc == LocatePeak(n, i)
       IN  Descend(nodes, pks[loc.peak], loc.level, loc.offset)

\* The proof path of leaf off in the node of level lvl holding m leaves with
\* frozen subtrees pks: inside a frozen subtree descend through the stored
\* nodes; above the peaks the siblings are the peaks to the left, the
\* padded roots of the leaves to the right, or PLACEHOLDER.
RECURSIVE PaddedPath(_, _, _, _, _)
PaddedPath(nodes, pks, m, lvl, off) ==
  LET half == 2^(lvl - 1)
      up(r, sib) == IF r.ok THEN [r EXCEPT !.siblings = Append(@, sib)] ELSE r
  IN  CASE m = 2^lvl -> Descend(nodes, Head(pks), lvl, off)
        [] off >= half ->
             up(PaddedPath(nodes, Tail(pks), m - half, lvl - 1, off - half), Head(pks))
        [] m <= half ->
             up(PaddedPath(nodes, pks, m, lvl - 1, off), PLACEHOLDER)
        [] OTHER ->
             up(Descend(nodes, Head(pks), lvl - 1, off),
                PaddedRoot(Tail(pks), m - half, lvl - 1))

\* get_proof(i): NotFound when i >= num_leaves.
GetProof(nodes, pks, n, i) ==
  IF i >= n THEN NotFound ELSE PaddedPath(nodes, pks, n, Depth(n), i)

\* Fold the leaf hash up through the siblings, the bits of the index
\* choosing the side, least significant first.
RECURSIVE Climb(_, _, _, _)
Climb(h, siblings, k, idx) ==
  IF k > Len(siblings) THEN h
  ELSE Climb(IF idx % 2 = 0 THEN InternalHash(h, siblings[k])
                            ELSE InternalHash(siblings[k], h),
             siblings, k + 1, idx \div 2)

\* proof.verify(root, leaf, index): MalformedProof when the index does not
\* fit the number of siblings, ProofMismatch when the fold differs.
Verify(siblings, root, leaf, idx) ==
  /\ idx < 2^Len(siblings)
  /\ Climb(leaf, siblings, 1, idx) = root

-----------------------------------------------------------------------------
Init ==
  /\ peaks = <<>>
  /\ numLeaves = 0
  /\ numNodes = 0
  /\ cache = <<>>
  /\ store = <<>>
  /\ flushedInfo = Info
  /\ blockInfo = NewWithAccumulatorInfo(Info)
  /\ leaves = <<>>
  /\ flushedLeaves = <<>>
  /\ savedLeaves = <<>>
  /\ restarts = 0

Next ==
  \/ \E batch \in Batches : AppendBatch(batch)
  \/ Flush
  \/ SaveInfo
  \/ Restart

Spec == Init /\ [][Next]_vars

-----------------------------------------------------------------------------
(* Properties.                                                             *)

\* A snapshot record: its counts are in range and its hashes are hashes.
InfoOK(i) ==
  /\ DOMAIN i = {"root", "peaks", "numLeaves", "numNodes"}
  /\ i.numLeaves \in 0..MaxLeaves
  /\ i.numNodes \in 0..2 * MaxLeaves - 1
  /\ \A h \in Range(i.peaks) \union {i.root} : IsHash(h, Depth(MaxLeaves))

TypeOK ==
  /\ InfoOK(Info)
  /\ InfoOK(flushedInfo)
  /\ InfoOK(savedInfo)
  /\ \A h \in DOMAIN cache \union DOMAIN store : IsHash(h, Depth(MaxLeaves))
  /\ \A h \in DOMAIN cache : cache[h].kind \in {"leaf", "internal"}
  /\ \A h \in DOMAIN store : store[h].kind \in {"leaf", "internal"}
  /\ \A s \in {leaves, flushedLeaves, savedLeaves} : s \in Seq(LeafHashes)

\* Naive equivalence and batch invariance (spec section 8; the assertions of
\* test_accumulator_append): whatever batches the leaves came in, and after
\* any flushes, saves and crash rebuilds, the engine's root equals the root
\* the padded bottom-up reference construction computes from the leaves.
RootMatchesNaive == RootHash(peaks, numLeaves) = ComputeRootHashNaive(leaves)

\* Proof soundness (spec section 8; proof_verify in test_proof): at every
\* point, after any batches, flushes and crash rebuilds, the proof the
\* engine builds for each of its leaves, reading nodes from its cache and
\* the store, verifies against its current root.
ProofsVerify ==
  \A i \in 0..numLeaves - 1 :
    LET proof == GetProof(EngineNodes, peaks, numLeaves, i)
    IN  proof.ok /\ Verify(proof.siblings, RootHash(peaks, numLeaves), leaves[i + 1], i)

\* Durability of the saved snapshot (sections 4.3 and 7): every leaf of the
\* snapshot the caller has persisted can be read back through the store
\* alone, so an engine rebuilt from it after a crash finds every node.
SavedSnapshotDurable ==
  \A i \in 0..savedInfo.numLeaves - 1 :
    GetLeaf(store, savedInfo.peaks, savedInfo.numLeaves, i).leaf = savedLeaves[i + 1]

\* The leaves stored under the frozen node h of level lvl, left to right; a
\* node missing from nodes reads as PLACEHOLDER, which is no leaf.
RECURSIVE SubtreeLeaves(_, _, _)
SubtreeLeaves(nodes, h, lvl) ==
  IF h \notin DOMAIN nodes THEN <<PLACEHOLDER>>
  ELSE CASE lvl = 0 /\ nodes[h].kind = "leaf" -> <<h>>
         [] lvl > 0 /\ nodes[h].kind = "internal" ->
              SubtreeLeaves(nodes, nodes[h].left, lvl - 1)
                \o SubtreeLeaves(nodes, nodes[h].right, lvl - 1)
         [] OTHER -> <<PLACEHOLDER>>

\* The leaves of an accumulator of n leaves with frozen subtrees pks, read
\* through the given nodes.
ReadLeaves(nodes, pks, n) ==
  LET lv == PeakLevels(n, 0)
  IN  FlattenSeq([k \in DOMAIN pks |-> SubtreeLeaves(nodes, pks[k], lv[k])])

\* Refinement mapping: the abstract log is the leaves under the engine's
\* peaks, read through its cache and the store; the flushed and saved logs
\* are the leaves under the flushed and the saved snapshot's peaks, read
\* through the store alone.
AbstractLog == INSTANCE AccumulatorLog WITH
  log <- ReadLeaves(EngineNodes, peaks, numLeaves),
  flushedLog <- ReadLeaves(store, flushedInfo.peaks, flushedInfo.numLeaves),
  savedLog <- ReadLeaves(store, savedInfo.peaks, savedInfo.numLeaves)

\* The engine, the store and the snapshot lifecycle implement the abstract
\* append-only log: appends only extend what get_leaf returns, a flush makes
\* the current leaves readable from the store, and a crash rebuild yields
\* exactly the leaves of the persisted snapshot.
RefinesAccumulatorLog == AbstractLog!Spec

=============================================================================
