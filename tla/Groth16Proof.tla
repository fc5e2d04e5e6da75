---------------------------- MODULE Groth16Proof ----------------------------
(***************************************************************************)
(* ethereum/groth16_proof.rs: from the coordinates of a snarkjs proof to   *)
(* the bytes the contracts take.  A coordinate is a word; snarkjs writes   *)
(* the projective third one too, which is dropped.                         *)
(***************************************************************************)
EXTENDS Abi

\* A fixed array of fixed arrays is laid out as the words of its rows.
proof_params == <<FixedArray(2), FixedArray(4), FixedArray(2)>>

p_a_from_snarkjs_pi_a(pi_a) == <<pi_a[1], pi_a[2]>>

\* Variant: the limbs of G2 as snarkjs orders them.
p_b_unswapped(pi_b) ==
    <<<<pi_b[1][1], pi_b[1][2]>>, <<pi_b[2][1], pi_b[2][2]>>>>

\* The pairing precompile takes the imaginary limb of a G2 coordinate first.
p_b_from_snarkjs_pi_b(pi_b) ==
    <<<<pi_b[1][2], pi_b[1][1]>>, <<pi_b[2][2], pi_b[2][1]>>>>

p_c_from_snarkjs_pi_c(pi_c) == <<pi_c[1], pi_c[2]>>

encode_groth16_proof_components(p_a, p_b, p_c) ==
    Encode(proof_params, <<p_a, p_b[1] \o p_b[2], p_c>>)

\* BadField: a point with too few coordinates.
WellFormed(proof) ==
    /\ Len(proof.pi_a) >= 2 /\ Len(proof.pi_b) >= 2 /\ Len(proof.pi_c) >= 2
    /\ \A i \in 1 .. 2 : Len(proof.pi_b[i]) >= 2

encode_groth16_proof_from_snarkjs_json(proof) ==
    IF WellFormed(proof)
    THEN [ok |-> TRUE,
          value |-> encode_groth16_proof_components(p_a_from_snarkjs_pi_a(proof.pi_a),
                                                    p_b_from_snarkjs_pi_b(proof.pi_b),
                                                    p_c_from_snarkjs_pi_c(proof.pi_c))]
    ELSE [ok |-> FALSE, value |-> "BadField"]
=============================================================================
