------------------------------- MODULE Bundle -------------------------------
(***************************************************************************)
(* The calldata of bundle() and of PrivacyERC.shield() in ethereum/mod.rs, *)
(* and the decoder the indexer falls back on for old pools                 *)
(* (ethereum/bundle_decode.rs), as functions on words.                     *)
(*                                                                         *)
(* A selector stands for itself (its name, "" when there are fewer than    *)
(* four bytes).  A bytes32 and a uint256 are both one word, so a layout    *)
(* error, which the types given to ethabi exclude, does not occur.         *)
(***************************************************************************)
EXTENDS Abi

CONSTANTS U64,      \* 2^64: U256::as_u64 panics from there on
          EncWords  \* the 580 bytes of an in-band ciphertext, in words

ASSUME BundleAssumption == U64 \in Nat /\ EncWords \in Nat

\* At least the words of any calldata with n actions.
CalldataWords(n) == 200 + 16 * (EncWords + n * (9 * EncWords + 91))

Ok(v) == [ok |-> TRUE, value |-> v]
Err(e) == [ok |-> FALSE, value |-> e]

Absent == << >>
Calldata(sel, body) == [sel |-> sel, body |-> body]

\* The last index of s with the property, 0 if there is none.
LastIndex(s, Has(_)) ==
    LET Below[i \in 0 .. Len(s)] ==
          IF i = 0 THEN 0 ELSE IF Has(s[i]) THEN i ELSE Below[i - 1]
    IN  Below[Len(s)]

FirstIndex(s, Has(_)) ==
    IF \E i \in DOMAIN s : Has(s[i])
    THEN CHOOSE i \in DOMAIN s : Has(s[i]) /\ \A j \in 1 .. i - 1 : ~Has(s[j])
    ELSE 0

-----------------------------------------------------------------------------
(* Types *)

bundle_action_param ==
    StructOf(<<Word, Bytes, Bytes, Word, Word, Word, Bytes, FixedArray(8)>>)

legacy_bundle_action_param ==
    StructOf(Append(bundle_action_param.of, FixedArray(3)))

bundle_top_params(legacy_spend_auth, binding_words) ==
    <<ArrayOf(IF legacy_spend_auth THEN legacy_bundle_action_param
                                   ELSE bundle_action_param),
      Word, Word, Word, FixedArray(binding_words)>>

erc_shield_params ==
    <<ArrayOf(bundle_action_param), Word, Address, Word, Word, Word, Word,
      FixedArray(3)>>

-----------------------------------------------------------------------------
(* Encoders *)

\* Variant: epk and nf_old, both bytes32, trade places.
action_token_swapped(a) ==
    <<a.cmx, a.enc_ciphertext, a.out_ciphertext, a.nf_old, a.epk, a.anchor,
      a.proof, a.pub_fields>>

action_token(a) ==
    <<a.cmx, a.enc_ciphertext, a.out_ciphertext, a.epk, a.nf_old, a.anchor,
      a.proof, a.pub_fields>>

actions_token(actions) == [i \in DOMAIN actions |-> action_token(actions[i])]

encode_bundle_calldata(args) ==
    IF args.binding_proof = Absent \/ args.legacy_binding_sig # Absent
    THEN Err("MissingBindingProof")
    ELSE Ok(Calldata("bundle",
              Encode(bundle_top_params(FALSE, 8),
                     <<actions_token(args.actions), args.value_balance,
                       Num(args.amount), args.recipient_meta, args.binding_proof>>)))

encode_erc_shield_calldata(args) ==
    IF \E i \in DOMAIN args.actions : Len(args.actions[i].enc_ciphertext) # EncWords
    THEN Err("BadEncLen")
    ELSE Ok(Calldata("shield.erc",
              Encode(erc_shield_params,
                     <<actions_token(args.actions), Num(args.amount), args.owner,
                       Num(args.deadline), args.permit_v, args.permit_r,
                       args.permit_s, args.binding_sig>>)))

-----------------------------------------------------------------------------
(* Decoders *)

\* Variant: the anchor and the nullifier trade places.
parse_action_swapped(t) ==
    [cmx |-> t[1], enc_ciphertext |-> t[2], out_ciphertext |-> t[3], epk |-> t[4],
     nf_old |-> t[6], anchor |-> t[5], proof |-> t[7], pub_fields |-> t[8]]

parse_action(t) ==
    [cmx |-> t[1], enc_ciphertext |-> t[2], out_ciphertext |-> t[3], epk |-> t[4],
     nf_old |-> t[5], anchor |-> t[6], proof |-> t[7], pub_fields |-> t[8]]

parse_actions(tokens) == [i \in DOMAIN tokens |-> parse_action(tokens[i])]

\* Three layouts are told apart by the selector: the current one, the one with
\* a Schnorr binding signature, and before it the one with a spend
\* authorisation in every action.
decode_bundle_calldata(calldata) ==
    LET legacy_spend_auth == calldata.sel = "bundle.spend_auth"
        legacy_v2 == calldata.sel = "bundle.schnorr" \/ legacy_spend_auth
        t == Decode(bundle_top_params(legacy_spend_auth, IF legacy_v2 THEN 3 ELSE 8),
                    calldata.body)
    IN  IF calldata.sel = "" THEN Err("TooShort")
        ELSE IF calldata.sel # "bundle" /\ ~legacy_v2 THEN Err("BadSelector")
        ELSE IF ~t.ok THEN Err("Abi")
        ELSE IF ~IsBelow(t.value[3], U64) THEN Err("panic")
        ELSE Ok([actions            |-> parse_actions(t.value[1]),
                 value_balance      |-> t.value[2],
                 amount             |-> t.value[3].n,
                 recipient_meta     |-> t.value[4],
                 binding_proof      |-> IF legacy_v2 THEN Absent ELSE t.value[5],
                 legacy_binding_sig |-> IF legacy_v2 THEN t.value[5] ELSE Absent])

\* Variant: the fields counted from one, so that cv_net_x is the anchor.
bundle_actions_by_cmx_off_by_one(calldata) ==
    LET bundle == decode_bundle_calldata(calldata)
        acts == bundle.value.actions
        LastOf(c) == acts[LastIndex(acts, LAMBDA a : a.cmx = c)]
    IN  IF ~bundle.ok THEN bundle
        ELSE Ok([c \in {acts[i].cmx : i \in DOMAIN acts} |->
                   [out_ciphertext |-> LastOf(c).out_ciphertext,
                    cv_net_x       |-> LastOf(c).pub_fields[1]]])

\* A map from cmx to ciphertexts; the last action with a cmx fills its entry.
bundle_actions_by_cmx(calldata) ==
    LET bundle == decode_bundle_calldata(calldata)
        acts == bundle.value.actions
        LastOf(c) == acts[LastIndex(acts, LAMBDA a : a.cmx = c)]
    IN  IF ~bundle.ok THEN bundle
        ELSE Ok([c \in {acts[i].cmx : i \in DOMAIN acts} |->
                   [out_ciphertext |-> LastOf(c).out_ciphertext,
                    cv_net_x       |-> LastOf(c).pub_fields[2]]])
=============================================================================
