------------------------------ MODULE Frontier ------------------------------
(***************************************************************************)
(* FrontierTree of commitment_tree/frontier.rs: the state a crank plans    *)
(* root updates with.  It keeps one node per level instead of the leaves.  *)
(***************************************************************************)
EXTENDS MerkleTree

CONSTANTS FrontierHash(_, _),  \* Poseidon(DOMAIN_FRONTIER, acc, filled[l])
          MaxBatch,            \* CMX_CONFIRM_MAX_BATCH
          MaxProofs            \* CMX_CONFIRM_MAX_PROOFS_PER_TX

ASSUME BatchAssumption ==
    /\ MaxBatch \in Nat \ {0}
    /\ MaxProofs \in Nat \ {0}

NewFrontier ==
    [filled |-> [l \in Levels |-> Zero], next_index |-> 0, root |-> Empty[Depth]]

from_parts(filled, next_index, root) ==
    [filled |-> filled, next_index |-> next_index, root |-> root]

\* Variant: the filled node of the lowest level is used on the left.
ClimbLowest(t, leaf) ==
    LET N[l \in Nat] ==
          IF l = 0 THEN leaf
          ELSE IF Bit(t.next_index, l - 1) = 0
               THEN Compress(l - 1, N[l - 1], Empty[l - 1])
               ELSE Compress(l - 1, t.filled[0], N[l - 1])
    IN  N

\* The node of each level on the way up from a new leaf: joined with the filled
\* node on its left, or with the empty subtree on its right.
Climb(t, leaf) ==
    LET N[l \in Nat] ==
          IF l = 0 THEN leaf
          ELSE IF Bit(t.next_index, l - 1) = 0
               THEN Compress(l - 1, N[l - 1], Empty[l - 1])
               ELSE Compress(l - 1, t.filled[l - 1], N[l - 1])
    IN  N

\* "IMT: tree full"
HasRoom(t, n) == t.next_index + n <= Capacity

\* Variant: the right node of a pair is kept in place of the left one.
insert_fills_right(t, leaf) ==
    LET N == Climb(t, leaf)
    IN  [filled     |-> [l \in Levels |-> IF Bit(t.next_index, l) = 1 THEN N[l]
                                          ELSE t.filled[l]],
         next_index |-> t.next_index + 1,
         root       |-> N[Depth]]

insert(t, leaf) ==
    LET N == Climb(t, leaf)
    IN  [filled     |-> [l \in Levels |-> IF Bit(t.next_index, l) = 0 THEN N[l]
                                          ELSE t.filled[l]],
         next_index |-> t.next_index + 1,
         root       |-> N[Depth]]

\* The tree after each number of the leaves of a sequence.
InsertAll(t, ls) ==
    LET T[n \in Nat] == IF n = 0 THEN t ELSE insert(T[n - 1], ls[n])
    IN  T

frontier_commit(filled) ==
    LET C[l \in Nat] == IF l = 0 THEN Zero ELSE FrontierHash(C[l - 1], filled[l - 1])
    IN  C[Depth]

-----------------------------------------------------------------------------
(* Planning.  A plan is the witness input of one proof.                    *)

Padded(ls) == [i \in 1 .. MaxBatch |-> IF i <= Len(ls) THEN ls[i] ELSE Zero]

\* Variant: the witness takes the frontier after the leaves are inserted.
plan_batch_late(t, ls) ==
    LET post == InsertAll(t, ls)[Len(ls)]
    IN  [tree  |-> post,
         input |-> [old_root            |-> t.root,
                    new_root            |-> post.root,
                    j                   |-> Len(ls),
                    start_idx           |-> t.next_index,
                    old_frontier_commit |-> frontier_commit(t.filled),
                    new_frontier_commit |-> frontier_commit(post.filled),
                    cmxs                |-> Padded(ls),
                    filled_start        |-> post.filled]]

plan_batch(t, ls) ==
    LET post == InsertAll(t, ls)[Len(ls)]
    IN  [tree  |-> post,
         input |-> [old_root            |-> t.root,
                    new_root            |-> post.root,
                    j                   |-> Len(ls),
                    start_idx           |-> t.next_index,
                    old_frontier_commit |-> frontier_commit(t.filled),
                    new_frontier_commit |-> frontier_commit(post.filled),
                    cmxs                |-> Padded(ls),
                    filled_start        |-> t.filled]]

Chunk(ls, k) ==
    SubSeq(ls, (k - 1) * MaxBatch + 1,
           IF k * MaxBatch <= Len(ls) THEN k * MaxBatch ELSE Len(ls))

Chunks(ls) == (Len(ls) + MaxBatch - 1) \div MaxBatch

\* Variant: every segment is planned from the state before the first.
plan_batches_unchained(t, ls) ==
    [tree   |-> plan_batch(t, ls).tree,
     inputs |-> [k \in 1 .. Chunks(ls) |-> plan_batch(t, Chunk(ls, k)).input]]

\* The tree before each chunk: a segment starts where the one before it ended.
plan_batches(t, ls) ==
    LET T[k \in Nat] == IF k = 0 THEN t ELSE plan_batch(T[k - 1], Chunk(ls, k)).tree
    IN  [tree   |-> T[Chunks(ls)],
         inputs |-> [k \in 1 .. Chunks(ls) |->
                       plan_batch(T[k - 1], Chunk(ls, k)).input]]

\* The leaves plan_batches accepts.
Plannable(t, ls, max_proofs) ==
    /\ max_proofs \in 1 .. MaxProofs
    /\ Len(ls) \in 1 .. MaxBatch * max_proofs
    /\ HasRoom(t, Len(ls))

-----------------------------------------------------------------------------
(* What the state should be: the frontier of a tree over the first n       *)
(* leaves of a sequence.  The node kept at a level is the left one of the  *)
(* last pair the tree has reached there: complete if the right one has     *)
(* leaves, else as full as the tree.                                       *)

LastEven(n, l) ==
    LET i == (n - 1) \div Pow2[l] IN IF i % 2 = 0 THEN i ELSE i - 1

FrontierOf(leaves, n) ==
    [filled |-> [l \in Levels |->
                   IF n = 0 THEN Zero
                   ELSE Digest(Prefix(leaves, n))[l][LastEven(n, l)]],
     next_index |-> n,
     root |-> RootOf(leaves, n)]
=============================================================================
