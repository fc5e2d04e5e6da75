------------------------------- MODULE MCSwap -------------------------------
(* Swap for TLC: a hash is a term of what it is a hash of, or the name of a *)
(* term that occurs often, the ABI encoding of a leg.                       *)
EXTENDS Swap

Encoded(call) == Encode(<<privacy_call_param>>, <<privacy_call_token(call)>>)
LegOf ==
    LET Legs == {CallA[s] : s \in Swaps} \cup {CallB[s] : s \in Swaps}
    IN  [e \in {Encoded(call) : call \in Legs} |->
           LET call == CHOOSE c \in Legs : Encoded(c) = e
           IN  [commit_to |-> call.binding_proof[1].side, of |-> call.binding_proof[1].of]]

MCKeccak(pieces) == IF pieces \in DOMAIN LegOf THEN LegOf[pieces] ELSE [hash |-> pieces]
=============================================================================
