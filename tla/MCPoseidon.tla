----------------------------- MODULE MCPoseidon -----------------------------
(* Poseidon for TLC: width 3 over the field of 13 elements, in which x^5 is *)
(* a permutation as it is in Fr, with two full and two partial rounds.      *)
EXTENDS Poseidon

MCRoundConstants == << <<1, 2, 3>>, <<4, 5, 6>>, <<7, 8, 9>>, <<10, 11, 12>> >>
MCInputs == { <<0, 0, 0>>, <<1, 0, 12>> }
=============================================================================
