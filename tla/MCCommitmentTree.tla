-------------------------- MODULE MCCommitmentTree --------------------------
(* CommitmentTree for TLC: a field element is a 1-tuple, a node a 3-tuple,  *)
(* so that no two different trees have the same hash.                      *)
EXTENDS CommitmentTree

MCZero == <<0>>
MCFieldElement(n) == <<n>>
MCCompress(l, a, b) == <<l, a, b>>
MCArrivals == <<4, 3, 2, 1>>
=============================================================================
