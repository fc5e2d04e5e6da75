------------------------------- MODULE Field --------------------------------
(* The prime field that Grain draws from and Poseidon computes in.          *)

CONSTANT Modulus   \* the order of F
=============================================================================
