---------------------------- MODULE MCFrozenImt -----------------------------
(* FrozenImt for TLC: the free term algebra stands for a collision-free    *)
(* hash.  A field element is a 1-tuple, a leaf hash a 2-tuple, a node a    *)
(* 3-tuple.                                                                *)
EXTENDS FrozenImt

MCZero == <<0>>
MCCompress(l, a, b) == <<l, a, b>>
MCLeafHash(v, n) == <<v, n>>
=============================================================================
