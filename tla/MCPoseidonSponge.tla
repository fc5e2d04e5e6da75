-------------------------- MODULE MCPoseidonSponge --------------------------
(* PoseidonSponge for TLC: the free term algebra.  Adding to a state that   *)
(* still is zero gives the element, so that zero padding is visible.        *)
EXTENDS PoseidonSponge

MCZero == <<"fr", 0>>
MCFr == {<<"fr", n>> : n \in 0 .. 1}
MCAdd(a, b) == IF a = MCZero THEN b ELSE IF b = MCZero THEN a ELSE <<"add", a, b>>
MCCapacity(n) == <<"capacity", n>>
MCPermute(st) == [i \in DOMAIN st |-> <<"permute", i, st>>]

\* Terms satisfy what HashCollisionIsOfPermutation is proved from.  They are free of
\* collisions besides, which no finite field is: it is what lets a run compare
\* the hashes of all messages, as LengthsSeparated does.
ASSUME FieldLaws /\ \A m, n \in Messages : ~Collision(m, n)
=============================================================================
