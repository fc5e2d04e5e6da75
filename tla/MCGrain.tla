------------------------------ MODULE MCGrain -------------------------------
(* Grain for TLC: the parameters of the Merkle hash and some others.        *)
EXTENDS Grain

MCSeeds == {3} \X {8} \X {56, 57} \union {<<2, 6, 5>>, <<5, 8, 60>>, <<9, 4, 21>>}
=============================================================================
