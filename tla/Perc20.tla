------------------------------- MODULE Perc20 -------------------------------
(***************************************************************************)
(* ethereum/perc20.rs: the calldata of the pERC20 pools, of the root       *)
(* update crank and of the swap coordinator.  A PrivacyCall carries its    *)
(* actions as bytes that are ABI-encoded themselves.                       *)
(***************************************************************************)
EXTENDS Bundle, Sighash   \* Sighash declares Keccak

privacy_call_param == StructOf(<<Bytes, FixedArray(8)>>)

privacy_call_token(call) ==
    <<Encode(<<ArrayOf(bundle_action_param)>>, <<actions_token(call.actions)>>),
      call.binding_proof>>

\* Variant: the commitment is the hash of the tuple's body, without the offset
\* abi.encode puts before a dynamic tuple.
privacy_call_commit_body(call) ==
    Keccak(Encode(privacy_call_param.of, privacy_call_token(call)))

privacy_call_commit(call) ==
    Keccak(Encode(<<privacy_call_param>>, <<privacy_call_token(call)>>))

parse_privacy_call(token) ==
    LET inner == Decode(<<ArrayOf(bundle_action_param)>>, token[1])
    IN  IF ~inner.ok THEN Err("Abi")
        ELSE Ok([actions |-> parse_actions(inner.value[1]), binding_proof |-> token[2]])

-----------------------------------------------------------------------------
(* Pools *)

encode_perc20_transfer_calldata(call) ==
    Calldata("transfer", Encode(<<privacy_call_param>>, <<privacy_call_token(call)>>))

encode_perc20_transfer_executor_calldata(executor, call) ==
    Calldata("transfer.executor",
             Encode(<<Address, privacy_call_param>>, <<executor, privacy_call_token(call)>>))

encode_wrapped_shield_calldata(amount_units, call) ==
    Calldata("shield", Encode(<<Word, privacy_call_param>>,
                              <<Num(amount_units), privacy_call_token(call)>>))

encode_wrapped_unshield_calldata(amount_units, recipient, call) ==
    Calldata("unshield", Encode(<<Word, Address, privacy_call_param>>,
                                <<Num(amount_units), recipient, privacy_call_token(call)>>))

root_update_params == <<Word, Word, Word, Bytes>>
root_update_token(u) == <<u.new_root, u.new_frontier_commit, Num(u.j), u.proof>>

encode_update_root_calldata(u) ==
    Calldata("updateRoot", Encode(root_update_params, root_update_token(u)))

\* updateRoots requires 1..=4 proofs: the assertion panics on any other number.
MaxUpdates == 4
Panicked == [panicked |-> TRUE]

encode_update_roots_calldata(updates) ==
    IF Len(updates) \notin 1 .. MaxUpdates THEN Panicked
    ELSE Calldata("updateRoots",
                  Encode(<<ArrayOf(StructOf(root_update_params))>>,
                         <<[i \in DOMAIN updates |-> root_update_token(updates[i])]>>))

-----------------------------------------------------------------------------
(* The swap coordinator *)

swap_id_params == <<Address, Address, Address, Word, Word, Word, Word, Word>>

\* Variant: the pools of the two legs trade places.
compute_swap_id_pools_swapped(initiator, pool_a, pool_b, htlc_hash, commit_a, rk_bx, rk_by, salt) ==
    Keccak(Encode(swap_id_params,
                  <<initiator, pool_b, pool_a, htlc_hash, commit_a, rk_bx, rk_by, salt>>))

compute_swap_id(initiator, pool_a, pool_b, htlc_hash, commit_a, rk_bx, rk_by, salt) ==
    Keccak(Encode(swap_id_params,
                  <<initiator, pool_a, pool_b, htlc_hash, commit_a, rk_bx, rk_by, salt>>))

swap_initiate_params ==
    <<Address, Address, privacy_call_param, Word, Word, Word, Word, Word>>

encode_swap_initiate_calldata(pool_a, pool_b, call_a, htlc_hash, rk_bx, rk_by, deadline, salt) ==
    Calldata("initiateSwap",
             Encode(swap_initiate_params,
                    <<pool_a, pool_b, privacy_call_token(call_a), htlc_hash, rk_bx, rk_by,
                      Num(deadline), salt>>))

swap_join_params == <<Word, privacy_call_param, FixedArray(3)>>

encode_swap_join_calldata(swap_id, call_b, joiner_sig) ==
    Calldata("joinSwap",
             Encode(swap_join_params, <<swap_id, privacy_call_token(call_b), joiner_sig>>))

swap_settle_params == <<Word, Word, privacy_call_param, privacy_call_param>>

encode_swap_settle_calldata(swap_id, secret, call_a, call_b) ==
    Calldata("settle",
             Encode(swap_settle_params,
                    <<swap_id, secret, privacy_call_token(call_a), privacy_call_token(call_b)>>))

-----------------------------------------------------------------------------
(* Decoding the coordinator's calldata *)

decode_swap_initiate_calldata(calldata) ==
    LET t == Decode(swap_initiate_params, calldata.body)
        call_a == parse_privacy_call(t.value[3])
    IN  IF calldata.sel = "" THEN Err("TooShort")
        ELSE IF calldata.sel # "initiateSwap" THEN Err("BadSelector")
        ELSE IF ~t.ok THEN Err("Abi")
        ELSE IF ~IsBelow(t.value[7], U64) THEN Err("panic")
        ELSE IF ~call_a.ok THEN call_a
        ELSE Ok([pool_a |-> t.value[1], pool_b |-> t.value[2], call_a |-> call_a.value,
                 htlc_hash |-> t.value[4], rk_bx |-> t.value[5], rk_by |-> t.value[6],
                 deadline |-> t.value[7].n, salt |-> t.value[8]])

decode_swap_join_calldata(calldata) ==
    LET t == Decode(swap_join_params, calldata.body)
        call_b == parse_privacy_call(t.value[2])
    IN  IF calldata.sel = "" THEN Err("TooShort")
        ELSE IF calldata.sel # "joinSwap" THEN Err("BadSelector")
        ELSE IF ~t.ok THEN Err("Abi")
        ELSE IF ~call_b.ok THEN call_b
        ELSE Ok([swap_id |-> t.value[1], call_b |-> call_b.value, joiner_sig |-> t.value[3]])
=============================================================================
