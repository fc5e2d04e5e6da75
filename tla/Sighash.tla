------------------------------ MODULE Sighash ------------------------------
(***************************************************************************)
(* The two messages of ethereum/mod.rs that are signed for a bundle: the   *)
(* binding sighash, hashed update by update over two lists of any length,  *)
(* and the spend authorisation of one action.  A message is the sequence   *)
(* of the fixed-width pieces that are fed to the hasher.                   *)
(***************************************************************************)
EXTENDS Sequences

CONSTANT Keccak(_)   \* keccak256 of a sequence of pieces

\* Variant: the commitments are hashed before the nullifiers.
bundle_v1_commitments_first(chain_id, contract, nullifiers, commitments, value_balance, recipient_meta) ==
    <<[tag |-> "PrivacyPool.bundle.v1"], chain_id, contract>>
        \o commitments \o nullifiers \o <<value_balance, recipient_meta>>

\* The pieces fed to the hasher, in order: nothing separates the two lists.
bundle_v1_preimage(chain_id, contract, nullifiers, commitments, value_balance, recipient_meta) ==
    <<[tag |-> "PrivacyPool.bundle.v1"], chain_id, contract>>
        \o nullifiers \o commitments \o <<value_balance, recipient_meta>>

binding_sighash_privacy_pool_bundle_v1(chain_id, contract, nullifiers, commitments, value_balance, recipient_meta) ==
    Keccak(bundle_v1_preimage(chain_id, contract, nullifiers, commitments,
                              value_balance, recipient_meta))

spend_auth_sighash_v1(chain_id, contract, nf_old, cmx, epk, enc_ciphertext, out_ciphertext) ==
    Keccak(<<[tag |-> "SpendAuth.action.v1"], chain_id, contract, nf_old, cmx, epk,
             Keccak(enc_ciphertext), Keccak(out_ciphertext)>>)
=============================================================================
