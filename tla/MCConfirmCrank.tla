--------------------------- MODULE MCConfirmCrank ---------------------------
(* ConfirmCrank for TLC: a field element is a 1-tuple, a step of the        *)
(* frontier commitment a 2-tuple, a node of the tree a 3-tuple.            *)
EXTENDS ConfirmCrank

MCZero == <<0>>
MCFieldElement(n) == <<n>>
MCCompress(l, a, b) == <<l, a, b>>
MCFrontierHash(acc, f) == <<acc, f>>
MCArrivals == <<1, 0, 1>>
MCTwoArrivals == <<1, 0>>
=============================================================================
