------------------------ MODULE MCBindingSignature --------------------------
(* BindingSignature for TLC: negative numbers cannot be written in a cfg.   *)
EXTENDS BindingSignature

MCNets == {-3, -1, 0, 2, 3}
=============================================================================
