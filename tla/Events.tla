------------------------------- MODULE Events -------------------------------
(***************************************************************************)
(* ethereum/events.rs: decoders of the pool's and the coordinator's logs.  *)
(* A log has topics (the first names the event, the others are its indexed *)
(* arguments, one word each) and data, ABI-encoded words.  Numbers are     *)
(* words of 256 bits until a decoder narrows them.                         *)
(***************************************************************************)
EXTENDS Bundle

CONSTANT U128   \* 2^128

Topic0(event) == [event |-> event]

topic_to_address(topic) == AddressOf(topic)

\* A log without the indexed arguments a decoder asks for is refused.
HasArguments(topics, k) == Len(topics) > k

-----------------------------------------------------------------------------
(* NoteAdded, in the two layouts its data have had *)

decode_note_added_v2(data) ==
    LET t == Decode(<<Bytes, Bytes, Word, Word, Word>>, data)
    IN  IF ~t.ok THEN Err("EthAbi")
        ELSE Ok([enc_ciphertext |-> t.value[1], out_ciphertext |-> t.value[2],
                 epk |-> t.value[3], nf_old |-> t.value[4], cv_net_x |-> <<t.value[5]>>])

decode_note_added_legacy(data) ==
    LET t == Decode(<<Bytes, Word, Word>>, data)
    IN  IF ~t.ok THEN Err("EthAbi")
        ELSE Ok([enc_ciphertext |-> t.value[1], out_ciphertext |-> << >>,
                 epk |-> t.value[2], nf_old |-> t.value[3], cv_net_x |-> Absent])

WithCmx(decoded, cmx) ==
    IF ~decoded.ok THEN decoded
    ELSE Ok([cmx            |-> cmx,
             enc_ciphertext |-> decoded.value.enc_ciphertext,
             out_ciphertext |-> decoded.value.out_ciphertext,
             epk            |-> decoded.value.epk,
             nf_old         |-> decoded.value.nf_old,
             cv_net_x       |-> decoded.value.cv_net_x])

\* Variant: the layout goes by the topic alone.
decode_note_added_by_topic(topics, data) ==
    WithCmx(IF topics[1] = Topic0("NoteAdded") THEN decode_note_added_v2(data)
                                               ELSE decode_note_added_legacy(data),
            topics[2])

\* Variant: the current layout only.
decode_note_added_current(topics, data) == WithCmx(decode_note_added_v2(data), topics[2])

\* The current topic promises the current layout.  Under any other one the
\* current layout is tried first, because pools deployed with the legacy topic
\* may write it, and then the legacy layout.
decode_note_added_log(topics, data) ==
    LET v2 == decode_note_added_v2(data)
    IN  IF ~HasArguments(topics, 1) THEN Err("BadNoteAdded")
        ELSE WithCmx(IF topics[1] = Topic0("NoteAdded") \/ v2.ok THEN v2
                     ELSE decode_note_added_legacy(data),
                     topics[2])

-----------------------------------------------------------------------------
(* Confirmation and custody *)

\* Variant: positions counted from one.
decode_note_confirmed_log_from_one(topics, data) ==
    LET t == Decode(<<Word, Word>>, data)
    IN  IF ~t.ok THEN Err("EthAbi")
        ELSE Ok([cmx |-> topics[2], new_root |-> t.value[1], position |-> t.value[2].n + 1])

\* A position that does not fit saturates.
decode_note_confirmed_log(topics, data) ==
    LET t == Decode(<<Word, Word>>, data)
    IN  IF ~HasArguments(topics, 1) THEN Err("BadNoteConfirmed")
        ELSE IF ~t.ok THEN Err("EthAbi")
        ELSE Ok([cmx |-> topics[2], new_root |-> t.value[1],
                 position |-> IF IsBelow(t.value[2], U64) THEN t.value[2].n ELSE U64 - 1])

\* Variant: the end of the batch and its size trade places.
decode_root_updated_log_swapped(topics, data) ==
    LET t == Decode(<<Word, Word, Word>>, data)
    IN  IF ~t.ok THEN Err("EthAbi")
        ELSE Ok([new_root |-> topics[2], from_count |-> t.value[1].n,
                 to_count |-> t.value[3].n, batch_size |-> t.value[2].n])

\* A count that does not fit is refused; batch_size is then cut to 32 bits.
decode_root_updated_log(topics, data) ==
    LET t == Decode(<<Word, Word, Word>>, data)
    IN  IF ~HasArguments(topics, 1) THEN Err("BadRootUpdated")
        ELSE IF ~t.ok THEN Err("EthAbi")
        ELSE IF \E i \in 1 .. 3 : ~IsBelow(t.value[i], U64) THEN Err("BadRootUpdated")
        ELSE Ok([new_root   |-> topics[2],
                 from_count |-> t.value[1].n,
                 to_count   |-> t.value[2].n,
                 batch_size |-> t.value[3].n % U32])

decode_shield_completed_log(topics, data) ==
    LET t == Decode(<<Word>>, data)
    IN  IF ~HasArguments(topics, 1) THEN Err("BadShieldCompleted")
        ELSE IF ~t.ok THEN Err("EthAbi")
        ELSE IF ~IsBelow(t.value[1], U128) THEN Err("BadShieldCompleted")
        ELSE Ok([cmx |-> topics[2], amount |-> t.value[1].n])

\* Variant: the two amounts trade places.
decode_shielded_like_swapped(topics, data) ==
    LET t == Decode(<<Word, Word>>, data)
    IN  IF ~t.ok THEN Err("EthAbi")
        ELSE Ok([actor        |-> topic_to_address(topics[2]),
                 amount_units |-> t.value[2].n,
                 wei_amount   |-> t.value[1].n])

\* Shielded and Unshielded: note units, then units of the underlying token.
decode_shielded_like(topics, data) ==
    LET t == Decode(<<Word, Word>>, data)
    IN  IF ~HasArguments(topics, 1) THEN Err("BadShielded")
        ELSE IF ~t.ok THEN Err("EthAbi")
        ELSE IF \E i \in 1 .. 2 : ~IsBelow(t.value[i], U128) THEN Err("BadShielded")
        ELSE Ok([actor        |-> topic_to_address(topics[2]),
                 amount_units |-> t.value[1].n,
                 wei_amount   |-> t.value[2].n])

\* The name and the symbol are opaque bytes.
decode_shield_pool_created_log(topics, data) ==
    LET t == Decode(<<Word, Bytes, Bytes, Word>>, data)
    IN  IF ~HasArguments(topics, 2) THEN Err("BadShieldPoolCreated")
        ELSE IF ~t.ok THEN Err("EthAbi")
        ELSE IF ~IsBelow(t.value[1], U128) \/ ~IsBelow(t.value[4], 256)
             THEN Err("BadShieldPoolCreated")
        ELSE Ok([pool       |-> topic_to_address(topics[2]),
                 underlying |-> topic_to_address(topics[3]),
                 scale      |-> t.value[1].n,
                 name       |-> t.value[2], symbol |-> t.value[3],
                 decimals   |-> t.value[4].n])

-----------------------------------------------------------------------------
(* Swaps *)

decode_swap_initiated_log(topics, data) ==
    LET t == Decode(<<Address, Address, Word, Word, Word, Word, Word>>, data)
    IN  IF ~HasArguments(topics, 2) THEN Err("BadSwapInitiated")
        ELSE IF ~t.ok THEN Err("EthAbi")
        ELSE IF ~IsBelow(t.value[4], U64) THEN Err("BadSwapInitiated")
        ELSE Ok([swap_id |-> topics[2], initiator |-> topic_to_address(topics[3]),
                 pool_a |-> t.value[1], pool_b |-> t.value[2], htlc_hash |-> t.value[3],
                 deadline |-> t.value[4].n, commit_a |-> t.value[5],
                 rk_bx |-> t.value[6], rk_by |-> t.value[7]])

\* Variant: the joiner is taken for the swap.
decode_swap_joined_log_swapped(topics, data) ==
    LET t == Decode(<<Word, Word, Word>>, data)
    IN  IF ~t.ok THEN Err("EthAbi")
        ELSE Ok([swap_id |-> topics[3], joiner |-> topic_to_address(topics[2]),
                 commit_b |-> t.value[1], rk_bx |-> t.value[2], rk_by |-> t.value[3]])

decode_swap_joined_log(topics, data) ==
    LET t == Decode(<<Word, Word, Word>>, data)
    IN  IF ~HasArguments(topics, 2) THEN Err("BadSwapJoined")
        ELSE IF ~t.ok THEN Err("EthAbi")
        ELSE Ok([swap_id |-> topics[2], joiner |-> topic_to_address(topics[3]),
                 commit_b |-> t.value[1], rk_bx |-> t.value[2], rk_by |-> t.value[3]])
=============================================================================
