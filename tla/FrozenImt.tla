----------------------------- MODULE FrozenImt ------------------------------
(***************************************************************************)
(* The frozen-set Indexed Merkle Tree of commitment_tree/frozen.rs: a      *)
(* sorted linked list laid out in insertion order, hashed as a Merkle      *)
(* tree, with one non-membership witness per value that is not frozen.     *)
(*                                                                         *)
(* The tree lives in memory.  Its owner saves frozen_values() as a         *)
(* checkpoint and, after a restart, rebuilds it with from_frozen_values(), *)
(* one insert at a time; saved is a history variable, the tree as it stood *)
(* when the checkpoint was taken.  Fr is 0 .. P-1, ordered as fr_lt does.  *)
(***************************************************************************)
EXTENDS MerkleTree

CONSTANTS P,               \* the field modulus
          LeafHash(_, _)   \* Poseidon(FROZEN_IMT_LEAF_DOMAIN, val, next_val)

ASSUME ModulusAssumption == P \in Nat \ {0}

VARIABLES leaves,      \* FrozenImt::leaves
          checkpoint,  \* the values last persisted
          replayed,    \* how many of them from_frozen_values has inserted
          phase,       \* "up", or "rebuilding" inside from_frozen_values
          saved        \* history: leaves at the last checkpoint

vars == <<leaves, checkpoint, replayed, phase, saved>>

Fr == 0 .. P - 1
Leaf == [val : Fr, next_val : Fr]

New == << [val |-> 0, next_val |-> 0] >>

Values(lv) == {lv[i].val : i \in DOMAIN lv}

\* contains: the sentinel makes 0 a member from the start.
Contains(lv, v) == v \in Values(lv)

\* Variant: a checkpoint that lists the newest value first.
frozen_values_newest_first(lv) ==
    [i \in 1 .. Len(lv) - 1 |-> lv[Len(lv) + 1 - i].val]

frozen_values(lv) == [i \in 1 .. Len(lv) - 1 |-> lv[i + 1].val]

Brackets(leaf, v) ==
    /\ leaf.val < v
    /\ leaf.next_val = 0 \/ v < leaf.next_val

\* The first leaf that brackets v; the sentinel when none does.
bracketing_index(lv, v) ==
    LET hits == {i \in DOMAIN lv : Brackets(lv[i], v)}
    IN  IF hits = {} THEN 1 ELSE CHOOSE i \in hits : \A j \in hits : i <= j

\* insert returns false and changes nothing for 0 and for a frozen value.
Insertable(lv, v) == v # 0 /\ ~Contains(lv, v)

\* Variant: the predecessor is updated before its old next is copied.
SplicedAfterUpdate(lv, v) ==
    LET p == bracketing_index(lv, v)
    IN  Append([lv EXCEPT ![p].next_val = v], [val |-> v, next_val |-> v])

\* The predecessor's next becomes v; the new leaf takes over its old next.
Spliced(lv, v) ==
    LET p == bracketing_index(lv, v)
    IN  Append([lv EXCEPT ![p].next_val = v],
               [val |-> v, next_val |-> lv[p].next_val])

Inserted(lv, v) == IF Insertable(lv, v) THEN Spliced(lv, v) ELSE lv

-----------------------------------------------------------------------------
(* Hashing.                                                                *)

\* subtree_hash at each level and index: an absent subtree is not descended.
subtree_hash(lv) ==
    LET S[l \in Nat] ==
          [i \in Nat |->
             IF i * Pow2[l] >= Len(lv) THEN Empty[l]
             ELSE IF l = 0 THEN LeafHash(lv[i + 1].val, lv[i + 1].next_val)
                  ELSE Compress(l - 1, S[l - 1][2 * i], S[l - 1][2 * i + 1])]
    IN  S

root(lv) == subtree_hash(lv)[Depth][0]

\* Variant: a path made of the nodes on the way up, not of their siblings.
witness_of_ancestors(lv, pos) ==
    [l \in Levels |-> subtree_hash(lv)[l][pos \div Pow2[l]]]

\* The path of the leaf at 0-based position pos.
witness_at(lv, pos) ==
    [l \in Levels |-> subtree_hash(lv)[l][Sibling(pos \div Pow2[l])]]

\* {} for None, a singleton for Some.
non_membership_witness(lv, cmx) ==
    IF Contains(lv, cmx) THEN {}
    ELSE LET i == bracketing_index(lv, cmx)
         IN  { [low_val |-> lv[i].val, low_next_val |-> lv[i].next_val,
                siblings |-> witness_at(lv, i - 1), path_bits |-> PathBits(i - 1)] }

-----------------------------------------------------------------------------
Init ==
    /\ leaves = New
    /\ checkpoint = << >>
    /\ replayed = 0
    /\ phase = "up"
    /\ saved = New

Insert(v) ==
    /\ phase = "up"
    /\ leaves' = Inserted(leaves, v)
    /\ UNCHANGED <<checkpoint, replayed, phase, saved>>

\* The owner persists frozen_values().
Checkpoint ==
    /\ phase = "up"
    /\ checkpoint' = frozen_values(leaves)
    /\ saved' = leaves
    /\ UNCHANGED <<leaves, replayed, phase>>

\* Variant: the rebuild resumes at the count of the one before.
RestartKeepingCount ==
    /\ leaves' = New
    /\ phase' = "rebuilding"
    /\ UNCHANGED <<checkpoint, replayed, saved>>

\* A crash loses the tree; from_frozen_values starts again from new().
Restart ==
    /\ leaves' = New
    /\ replayed' = 0
    /\ phase' = "rebuilding"
    /\ UNCHANGED <<checkpoint, saved>>

\* One turn of the loop of from_frozen_values, the result of insert ignored.
Replay ==
    /\ phase = "rebuilding"
    /\ replayed < Len(checkpoint)
    /\ leaves' = Inserted(leaves, checkpoint[replayed + 1])
    /\ replayed' = replayed + 1
    /\ UNCHANGED <<checkpoint, phase, saved>>

\* Variant: the loop stops before the last value.
RebuiltEarly ==
    /\ phase = "rebuilding"
    /\ replayed + 1 = Len(checkpoint)
    /\ phase' = "up"
    /\ UNCHANGED <<leaves, checkpoint, replayed, saved>>

Rebuilt ==
    /\ phase = "rebuilding"
    /\ replayed = Len(checkpoint)
    /\ phase' = "up"
    /\ UNCHANGED <<leaves, checkpoint, replayed, saved>>

Next ==
    \/ \E v \in Fr : Insert(v)
    \/ Checkpoint
    \/ Restart
    \/ Replay
    \/ Rebuilt

Spec == Init /\ [][Next]_vars

-----------------------------------------------------------------------------
(* Properties.                                                             *)

TypeOK ==
    /\ leaves \in Seq(Leaf) /\ Len(leaves) >= 1
    /\ saved \in Seq(Leaf) /\ Len(saved) >= 1
    /\ checkpoint \in Seq(Fr)
    /\ replayed \in 0 .. Len(checkpoint)
    /\ phase \in {"up", "rebuilding"}

\* The intervals of the leaves partition the values that are not frozen: a
\* value that is not a leaf value lies in exactly one of them, and a leaf
\* value in none.  So the fallback of bracketing_index is never taken for a
\* value that is not frozen, and no witness exists for a frozen one.
Partition(lv) ==
    \A v \in Fr \ {0} :
        IF Contains(lv, v)
        THEN \A i \in DOMAIN lv : ~Brackets(lv[i], v)
        ELSE \E i \in DOMAIN lv :
                /\ Brackets(lv[i], v)
                /\ \A j \in DOMAIN lv : Brackets(lv[j], v) => j = i

\* The leaves form the sorted list of distinct values from the sentinel on:
\* every next_val is the least greater value of the tree, or 0 at its end.
Linked(lv) ==
    /\ lv[1].val = 0
    /\ \A i, j \in DOMAIN lv : lv[i].val = lv[j].val => i = j
    /\ \A i \in DOMAIN lv :
          \/ /\ lv[i].next_val = 0
             /\ \A v \in Values(lv) : v <= lv[i].val
          \/ /\ lv[i].next_val \in Values(lv)
             /\ lv[i].val < lv[i].next_val
             /\ \A v \in Values(lv) : v <= lv[i].val \/ lv[i].next_val <= v

\* Sorted list and partition, after any inserts, checkpoints and restarts and
\* in the middle of a rebuild.
SortedList == Linked(leaves) /\ Partition(leaves)

\* from_frozen_values reproduces every leaf at its position: once the loop has
\* run over the checkpoint, the tree is the one that was checkpointed.
RebuildExact ==
    phase = "rebuilding" /\ replayed = Len(checkpoint) => leaves = saved

\* What the circuit checks of a witness: the low leaf strictly brackets cmx and
\* its path opens to the root.
Verifies(w, cmx, rt) ==
    /\ Brackets([val |-> w.low_val, next_val |-> w.low_next_val], cmx)
    /\ PathRoot(w.path_bits, LeafHash(w.low_val, w.low_next_val), w.siblings) = rt

\* Every value that is not frozen has a witness that verifies against the root,
\* and a frozen value has none, nor has 0, the sentinel's value, which it
\* contains: not even one that an owner of the tree could put together from
\* another leaf's interval.
WitnessesVerify ==
    \A cmx \in Fr :
        IF Contains(leaves, cmx)
        THEN /\ non_membership_witness(leaves, cmx) = {}
             /\ \A i \in DOMAIN leaves : ~Brackets(leaves[i], cmx)
        ELSE \E w \in non_membership_witness(leaves, cmx) :
                Verifies(w, cmx, root(leaves))

\* The tree as a set of frozen values that a crash takes back to the last
\* checkpoint.  A tree being rebuilt stands for the set it is rebuilt from.
Abstract == INSTANCE FrozenSet WITH
    Value   <- Fr \ {0},
    frozen  <- IF phase = "up" THEN Values(leaves) \ {0}
               ELSE {checkpoint[i] : i \in DOMAIN checkpoint},
    durable <- {checkpoint[i] : i \in DOMAIN checkpoint}

ImplementsFrozenSet == Abstract!Spec
=============================================================================
