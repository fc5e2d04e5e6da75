----------------------------- MODULE FrozenSet ------------------------------
(***************************************************************************)
(* What the frozen tree promises: a set of values that only grows, except  *)
(* that a crash takes it back to the set last made durable.                *)
(***************************************************************************)
CONSTANT Value

VARIABLES frozen, durable

Init == frozen = {} /\ durable = {}

Freeze(v) == frozen' = frozen \union {v} /\ UNCHANGED durable

Save == durable' = frozen /\ UNCHANGED frozen

Crash == frozen' = durable /\ UNCHANGED durable

Next == (\E v \in Value : Freeze(v)) \/ Save \/ Crash

Spec == Init /\ [][Next]_<<frozen, durable>>
=============================================================================
