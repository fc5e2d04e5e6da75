----------------------------- MODULE MerkleTree -----------------------------
(***************************************************************************)
(* The fixed-depth binary Merkle tree that every tree of privacy-core is:  *)
(* commitment_tree/poseidon.rs, frontier.rs and frozen.rs.  The hash is an *)
(* uninterpreted operator, so that what is checked and proved does not     *)
(* rest on the arithmetic of Poseidon.  Leaf positions and node indices    *)
(* start at 0, as in the code; sequences of leaves start at 1.             *)
(***************************************************************************)
EXTENDS Integers, Sequences

CONSTANTS Depth,            \* MERKLE_DEPTH_EVM or FROZEN_IMT_DEPTH
          Zero,             \* Fr::ZERO, the value of an absent leaf
          Compress(_, _, _) \* the hash of two children at a level

ASSUME DepthAssumption == Depth \in Nat

Pow2[n \in Nat] == IF n = 0 THEN 1 ELSE 2 * Pow2[n - 1]

Capacity == Pow2[Depth]

Levels == 0 .. Depth - 1

\* (pos >> l) & 1 and i ^ 1
Bit(pos, l) == (pos \div Pow2[l]) % 2
Sibling(i) == IF i % 2 = 0 THEN i + 1 ELSE i - 1

\* The root of an all-absent subtree of each height.
Empty[l \in Nat] ==
    IF l = 0 THEN Zero ELSE Compress(l - 1, Empty[l - 1], Empty[l - 1])

-----------------------------------------------------------------------------
(* The reference: the digest of every node of the tree over a leaf         *)
(* assignment a \in [Nat -> Fr], by the definition of a Merkle tree alone. *)

Digest(a) ==
    LET D[l \in Nat] ==
          [i \in Nat |-> IF l = 0 THEN a[i]
                         ELSE Compress(l - 1, D[l - 1][2 * i], D[l - 1][2 * i + 1])]
    IN  D

\* The leaves of a sequence up to a size; every later leaf is absent.
Prefix(leaves, size) ==
    [i \in Nat |-> IF i < size THEN leaves[i + 1] ELSE Zero]

RootOf(leaves, size) == Digest(Prefix(leaves, size))[Depth][0]

-----------------------------------------------------------------------------
(* The verifier's side: folding an authentication path up from a leaf.     *)

PathRoot(bits, leaf, siblings) ==
    LET R[l \in Nat] ==
          IF l = 0 THEN leaf
          ELSE IF bits[l - 1] = 0
               THEN Compress(l - 1, R[l - 1], siblings[l - 1])
               ELSE Compress(l - 1, siblings[l - 1], R[l - 1])
    IN  R[Depth]

PathBits(pos) == [l \in Levels |-> Bit(pos, l)]

merkle_root(pos, leaf, siblings) == PathRoot(PathBits(pos), leaf, siblings)
=============================================================================
