---------------------------- MODULE ConfirmedLog ----------------------------
(***************************************************************************)
(* What the cranks and the chain promise together: a log of commitments of *)
(* which a growing prefix is confirmed, and the root and the frontier      *)
(* commitment of that prefix and of no other.                              *)
(***************************************************************************)
EXTENDS Frontier

CONSTANTS Leaf,      \* the commitments
          MaxAdvance \* the most leaves one transaction confirms

VARIABLES log, count, root, commit

State(n) ==
    /\ root = FrontierOf(log, n).root
    /\ commit = frontier_commit(FrontierOf(log, n).filled)

Init == log = << >> /\ count = 0 /\ State(0)

Enqueue(cmx) ==
    /\ log' = Append(log, cmx)
    /\ UNCHANGED <<count, root, commit>>

Confirm ==
    /\ \E n \in count + 1 .. count + MaxAdvance :
          n <= Len(log) /\ count' = n /\ State(n)'
    /\ UNCHANGED log

Next == (\E cmx \in Leaf : Enqueue(cmx)) \/ Confirm

Spec == Init /\ [][Next]_<<log, count, root, commit>>
=============================================================================
