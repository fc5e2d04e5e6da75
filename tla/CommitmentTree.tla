--------------------------- MODULE CommitmentTree ---------------------------
(***************************************************************************)
(* The note-commitment tree: OrchardCommitmentTree (commitment_tree/mod.rs)*)
(* over Bn254IncrementalMerkleTree (commitment_tree/poseidon.rs).          *)
(*                                                                         *)
(* Queries take &self, so several readers run at once and share the cache  *)
(* of node hashes; append takes &mut self, so it runs when no reader does. *)
(* A query is a recursive descent.  Its control stack is explicit here: a  *)
(* reader has a list of frames to run and a list of the hashes computed so *)
(* far, and every step takes the cache lock at most once.  Between the     *)
(* read of the cache and the write of a node, any other reader may run.    *)
(***************************************************************************)
EXTENDS MerkleTree

CONSTANTS Readers,          \* threads that hold a shared reference
          Arrivals,         \* the 32-byte words of the chain's log, in order
          Modulus,          \* the order of Fr
          FieldElement(_),  \* the element of Fr with a given canonical value
          U32               \* 2^32, the range of a leaf position

ASSUME TreeAssumption ==
    /\ Arrivals \in Seq(Nat)
    /\ Modulus \in Nat \ {0}
    /\ Zero = FieldElement(0)
    /\ U32 \in Nat /\ U32 >= Capacity

VARIABLES leaves,      \* Bn254IncrementalMerkleTree::leaves
          size,        \* OrchardCommitmentTree::size
          node_cache,  \* node_cache: a partial function of <<level, idx>>
          readers      \* what every reader is doing

vars == <<leaves, size, node_cache, readers>>

\* Fr::from_raw reduces: a word above the modulus is not refused.
be_bytes_to_fr(w) == FieldElement(w % Modulus)

-----------------------------------------------------------------------------
(* Frames of the two recursive functions.                                  *)

HashAt(l, i, n) == [fn |-> "subtree_hash_at", level |-> l, idx |-> i, size |-> n]
Hash(l, i)      == [fn |-> "subtree_hash",    level |-> l, idx |-> i, size |-> 0]
\* The rest of a call once both children are hashed: compress, or compress
\* and put the node in the cache.
Join(l, i)      == [fn |-> "compress",        level |-> l, idx |-> i, size |-> 0]
Store(l, i)     == [fn |-> "store",           level |-> l, idx |-> i, size |-> 0]

-----------------------------------------------------------------------------
(* Queries, with the conditions under which they return Some.              *)

Idle == [op |-> "none", position |-> 0, size |-> 0]

Queries(n) ==
    {[op |-> "latest_root", position |-> 0, size |-> n] : k \in {n} \ {0}}
    \union {[op |-> "root_at", position |-> 0, size |-> k] : k \in 1 .. n}
    \union UNION {{[op |-> "merkle_path_at", position |-> p, size |-> k] :
                     p \in 0 .. k - 1} : k \in 1 .. n}

\* witness_at_size: the sibling of every node on the way up from pos.
witness_at_size(pos, n) ==
    [l \in 1 .. Depth |-> HashAt(l - 1, Sibling(pos \div Pow2[l - 1]), n)]

Calls(q) ==
    CASE q.op = "latest_root"    -> << Hash(Depth, 0) >>
      [] q.op = "root_at"        -> << HashAt(Depth, 0, q.size) >>
      [] q.op = "merkle_path_at" -> witness_at_size(q.position % U32, q.size)

-----------------------------------------------------------------------------
Init ==
    /\ leaves = << >>
    /\ size = 0
    /\ node_cache = << >>
    /\ readers = [r \in Readers |-> [query |-> Idle, todo |-> << >>, done |-> << >>]]

\* Variant: the wrapper's size is not kept in step with the inner tree.
append_without_size ==
    /\ Len(leaves) < Len(Arrivals)
    /\ \A r \in Readers : readers[r].query = Idle
    /\ leaves' = Append(leaves, be_bytes_to_fr(Arrivals[Len(leaves) + 1]))
    /\ UNCHANGED <<size, node_cache, readers>>

\* OrchardCommitmentTree::append: exclusive, without a bound on the capacity.
append ==
    /\ Len(leaves) < Len(Arrivals)
    /\ \A r \in Readers : readers[r].query = Idle
    /\ leaves' = Append(leaves, be_bytes_to_fr(Arrivals[Len(leaves) + 1]))
    /\ size' = size + 1
    /\ UNCHANGED <<node_cache, readers>>

\* What a query has left to do, and the hashes it has.
Continue(r, query, todo, done) ==
    readers' = [readers EXCEPT ![r] = [query |-> query, todo |-> todo, done |-> done]]

Ask(r, q) ==
    /\ readers[r].query = Idle
    /\ Continue(r, q, Calls(q), << >>)
    /\ UNCHANGED <<leaves, size, node_cache>>

Running(r, fn) ==
    /\ readers[r].todo # << >>
    /\ Head(readers[r].todo).fn = fn

\* The call on top returns a hash.
Return(r, node) ==
    Continue(r, readers[r].query, Tail(readers[r].todo), Append(readers[r].done, node))

\* The call on top is replaced by the frames it makes.
Descend(r, frames) ==
    Continue(r, readers[r].query, frames \o Tail(readers[r].todo), readers[r].done)

\* Variant: a subtree that crosses the prefix by one leaf counts as inside it.
subtree_hash_at_off_by_one(r) ==
    /\ Running(r, "subtree_hash_at")
    /\ LET f == Head(readers[r].todo)
           start == f.idx * Pow2[f.level]
           end == start + Pow2[f.level]
       IN  \/ /\ start >= f.size
              /\ Return(r, Empty[f.level])
           \/ /\ start < f.size /\ end <= f.size + 1
              /\ Descend(r, << Hash(f.level, f.idx) >>)
           \/ /\ start < f.size /\ end > f.size + 1
              /\ Descend(r, << HashAt(f.level - 1, 2 * f.idx, f.size),
                               HashAt(f.level - 1, 2 * f.idx + 1, f.size),
                               Join(f.level, f.idx) >>)
    /\ UNCHANGED <<leaves, size, node_cache>>

subtree_hash_at(r) ==
    /\ Running(r, "subtree_hash_at")
    /\ LET f == Head(readers[r].todo)
           start == f.idx * Pow2[f.level]
           end == start + Pow2[f.level]
       IN  \/ /\ start >= f.size
              /\ Return(r, Empty[f.level])
           \/ /\ start < f.size /\ end <= f.size
              /\ Descend(r, << Hash(f.level, f.idx) >>)
           \/ /\ start < f.size /\ end > f.size
              /\ Descend(r, << HashAt(f.level - 1, 2 * f.idx, f.size),
                               HashAt(f.level - 1, 2 * f.idx + 1, f.size),
                               Join(f.level, f.idx) >>)
    /\ UNCHANGED <<leaves, size, node_cache>>

\* Variant: every node is looked up and stored, complete or not.
subtree_hash_caches_all(r) ==
    /\ Running(r, "subtree_hash")
    /\ LET f == Head(readers[r].todo)
           start == f.idx * Pow2[f.level]
           cached == <<f.level, f.idx>> \in DOMAIN node_cache
       IN  \/ /\ start >= Len(leaves)
              /\ Return(r, Empty[f.level])
           \/ /\ start < Len(leaves) /\ f.level = 0
              /\ Return(r, leaves[start + 1])
           \/ /\ start < Len(leaves) /\ f.level > 0 /\ cached
              /\ Return(r, node_cache[<<f.level, f.idx>>])
           \/ /\ start < Len(leaves) /\ f.level > 0 /\ ~cached
              /\ Descend(r, << Hash(f.level - 1, 2 * f.idx),
                               Hash(f.level - 1, 2 * f.idx + 1),
                               Store(f.level, f.idx) >>)
    /\ UNCHANGED <<leaves, size, node_cache>>

\* Only a complete subtree is looked up and stored; the read lock is held for
\* the lookup alone.
subtree_hash(r) ==
    /\ Running(r, "subtree_hash")
    /\ LET f == Head(readers[r].todo)
           start == f.idx * Pow2[f.level]
           complete == start + Pow2[f.level] <= Len(leaves)
           cached == complete /\ <<f.level, f.idx>> \in DOMAIN node_cache
       IN  \/ /\ start >= Len(leaves)
              /\ Return(r, Empty[f.level])
           \/ /\ start < Len(leaves) /\ f.level = 0
              /\ Return(r, leaves[start + 1])
           \/ /\ f.level > 0 /\ cached
              /\ Return(r, node_cache[<<f.level, f.idx>>])
           \/ /\ start < Len(leaves) /\ f.level > 0 /\ ~cached
              /\ Descend(r, << Hash(f.level - 1, 2 * f.idx),
                               Hash(f.level - 1, 2 * f.idx + 1),
                               IF complete THEN Store(f.level, f.idx)
                               ELSE Join(f.level, f.idx) >>)
    /\ UNCHANGED <<leaves, size, node_cache>>

\* The hash of the two children on top of the hashes done.
Children(r) ==
    LET d == readers[r].done
        l == Head(readers[r].todo).level
    IN  Compress(l - 1, d[Len(d) - 1], d[Len(d)])

Joined(r) ==
    LET d == readers[r].done
    IN  Continue(r, readers[r].query, Tail(readers[r].todo),
                 Append(SubSeq(d, 1, Len(d) - 2), Children(r)))

compress(r) ==
    /\ Running(r, "compress")
    /\ Joined(r)
    /\ UNCHANGED <<leaves, size, node_cache>>

\* Variant: the read guard of the lookup lives until the node is stored, so the
\* write lock is free only when no other reader is inside such a descent.
store_under_read_lock(r) ==
    /\ Running(r, "store")
    /\ \A o \in Readers \ {r} :
          \A j \in DOMAIN readers[o].todo : readers[o].todo[j].fn # "store"
    /\ Joined(r)
    /\ LET f == Head(readers[r].todo)
           key == <<f.level, f.idx>>
       IN  node_cache' = [k \in DOMAIN node_cache \union {key} |->
                            IF k = key THEN Children(r) ELSE node_cache[k]]
    /\ UNCHANGED <<leaves, size>>

\* The write lock is taken for the insert alone; a racing fill is overwritten.
store(r) ==
    /\ Running(r, "store")
    /\ Joined(r)
    /\ LET f == Head(readers[r].todo)
           key == <<f.level, f.idx>>
       IN  node_cache' = [k \in DOMAIN node_cache \union {key} |->
                            IF k = key THEN Children(r) ELSE node_cache[k]]
    /\ UNCHANGED <<leaves, size>>

Answered(r) == readers[r].query # Idle /\ readers[r].todo = << >>

\* The caller takes the answer and drops its reference.
Deliver(r) ==
    /\ Answered(r)
    /\ Continue(r, Idle, << >>, << >>)
    /\ UNCHANGED <<leaves, size, node_cache>>

Step(r) ==
    \/ subtree_hash_at(r)
    \/ subtree_hash(r)
    \/ compress(r)
    \/ store(r)
    \/ Deliver(r)

Next ==
    \/ append
    \/ \E r \in Readers :
          \/ \E q \in Queries(size) : Ask(r, q)
          \/ Step(r)

\* A thread inside a query is scheduled; whether leaves arrive is not promised.
Fairness == \A r \in Readers : WF_vars(Step(r))

Spec == Init /\ [][Next]_vars /\ Fairness

-----------------------------------------------------------------------------
(* Properties.                                                             *)

Frames ==
    [fn : {"subtree_hash_at", "subtree_hash", "compress", "store"},
     level : 0 .. Depth, idx : Nat, size : Nat]

TypeOK ==
    /\ Len(leaves) = size /\ size \in 0 .. Len(Arrivals)
    /\ \A k \in DOMAIN node_cache : k[1] \in 1 .. Depth /\ k[2] \in Nat
    /\ \A r \in Readers :
          /\ readers[r].query = Idle \/ readers[r].query \in Queries(size)
          /\ \A j \in DOMAIN readers[r].todo : readers[r].todo[j] \in Frames

Reference == Digest(Prefix(leaves, Len(leaves)))

\* Whatever readers race to fill it, and however the tree has grown since, the
\* cache holds only the hashes of complete subtrees, and the right ones.
CacheCoherent ==
    \A k \in DOMAIN node_cache :
        /\ (k[2] + 1) * Pow2[k[1]] <= Len(leaves)
        /\ node_cache[k] = Reference[k[1]][k[2]]

\* The siblings a reader computed, by level.
Siblings(r) == [l \in Levels |-> readers[r].done[l + 1]]

\* A root is that of a tree truncated to the size asked for, and a path opens
\* from its leaf to that root, although readers share the cache and the tree
\* holds later leaves.
AnswersMatchPrefix ==
    \A r \in Readers : Answered(r) =>
        LET q == readers[r].query
        IN  IF q.op = "merkle_path_at"
            THEN merkle_root(q.position % U32, leaves[q.position + 1], Siblings(r))
                   = RootOf(leaves, q.size)
            ELSE readers[r].done = << RootOf(leaves, q.size) >>

\* Every query ends.
QueriesEnd == \A r \in Readers : readers[r].query # Idle ~> readers[r].query = Idle
=============================================================================
