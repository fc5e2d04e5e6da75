------------------------------ MODULE Indexing ------------------------------
(***************************************************************************)
(* From a bundle to the indexed note.  A wallet builds calldata with the   *)
(* encoders of ethereum/, a pool reads and checks it and emits logs, and   *)
(* an indexer rebuilds notes, confirmed root and custody from the logs     *)
(* and, for old pools, from the calldata.                                  *)
(*                                                                         *)
(* A pool is of one of the generations the decoders still support.  The    *)
(* contracts, the prover and the indexer's loop are not in the repository; *)
(* they are modelled from the ABI signatures and comments in src/ and from *)
(* the fields of OrchardIndexedAbiNote (types.rs).                         *)
(***************************************************************************)
EXTENDS Events, Perc20, Groth16Proof

CONSTANTS Root(_),      \* the root of the tree with these leaves
          Amounts,      \* the amounts of a shield or an unshield
          Scale,        \* units of the underlying token per note unit
          MaxTxs,       \* bound of the model: transactions sent to the pool
          MaxActions    \* bound of the model: actions of a bundle

ASSUME IndexingAssumption ==
    /\ Amounts \subseteq 1 .. U64 - 1
    /\ Scale \in Nat \ {0} /\ MaxTxs \in Nat /\ MaxActions \in Nat \ {0}
    /\ CalldataWords(MaxActions) < U32           \* calldata has fewer than 2^32 words
    /\ MaxTxs * MaxActions < U32 /\ U32 <= U64   \* and a tree fewer than 2^32 leaves
    /\ U128 \in Nat /\ Scale < U128 /\ \A a \in Amounts : Scale * a < U128

VARIABLES pool,       \* the generation of the pool
          txs,        \* the calls it has accepted
          logs,       \* its logs: transaction, event, what the decoders return
          queue,      \* the actions it has accepted, in the order of its leaves
          confirmed,  \* how many of them are under its confirmed root
          balances,   \* what every account has paid in, less what it was paid
          refused,    \* has it refused a transaction
          index       \* the indexer: cursor, notes, watermark, root, accounts

vars == <<pool, txs, logs, queue, confirmed, balances, refused, index>>

-----------------------------------------------------------------------------
(* Pools.  The layouts are those of the Solidity signatures, spelled out   *)
(* independently of the encoders.                                          *)

Generation(calls, topic, body, confirms) ==
    [calls |-> calls, topic |-> topic, body |-> body, confirms |-> confirms]

Generations ==
    { Generation({"bundle.spend_auth"}, "NoteAdded.legacy", "legacy", "NoteConfirmed"),
      Generation({"bundle.schnorr", "shield.erc"}, "NoteAdded.legacy", "legacy", "NoteConfirmed"),
      Generation({"bundle.schnorr"}, "NoteAdded.legacy", "extended", "NoteConfirmed"),
      Generation({"bundle"}, "NoteAdded", "extended", "RootUpdated"),
      Generation({"transfer", "transfer.executor", "shield", "unshield"},
                 "NoteAdded", "extended", "RootUpdated") }

BundleCalls == {"bundle", "bundle.schnorr", "bundle.spend_auth"}
ActionStruct == <<Word, Bytes, Bytes, Word, Word, Word, Bytes, FixedArray(8)>>
PrivacyCall == StructOf(<<Bytes, FixedArray(8)>>)

Signature(call) ==
    LET Bundle(fields, k) == <<ArrayOf(StructOf(fields)), Word, Word, Word, FixedArray(k)>>
    IN  CASE call = "bundle" -> Bundle(ActionStruct, 8)
          [] call = "bundle.schnorr" -> Bundle(ActionStruct, 3)
          [] call = "bundle.spend_auth" ->
               Bundle(Append(ActionStruct, FixedArray(3)), 3)
          [] call = "shield.erc" ->
               <<ArrayOf(StructOf(ActionStruct)), Word, Address, Word, Word, Word, Word,
                 FixedArray(3)>>
          [] call = "transfer" -> <<PrivacyCall>>
          [] call = "transfer.executor" -> <<Address, PrivacyCall>>
          [] call = "shield" -> <<Word, PrivacyCall>>
          [] call = "unshield" -> <<Word, Address, PrivacyCall>>
          [] call = "updateRoot" -> <<Word, Word, Word, Bytes>>
          [] call = "updateRoots" -> <<ArrayOf(StructOf(<<Word, Word, Word, Bytes>>))>>

Chain == [chain |-> "id"]
Contract == [address |-> "pool"]
Underlying == [address |-> "underlying"]
User == [address |-> "user"]
Other == [address |-> "other"]
Accounts == {User, Other}
NoExecutor == [address |-> "zero"]
NoMeta == Num(0)

\* value_balance: the amount with a sign flag, which a negative 0 carries as well.
bundle_value_balance_be(amount, negative) ==
    IF negative THEN [minus |-> amount] ELSE Num(amount)

evm_address_to_recipient_meta(a) == [meta |-> a.address]

-----------------------------------------------------------------------------
(* Wallet and prover *)

\* proof.json of snarkjs for action k, and the order the verifier takes it in.
Coordinate(point, i, k) == [point |-> point, coordinate |-> i, of |-> k]
SnarkJs(k) ==
    [pi_a |-> [i \in 1 .. 3 |-> Coordinate("a", i, k)],
     pi_b |-> [i \in 1 .. 3 |-> <<Coordinate("b re", i, k), Coordinate("b im", i, k)>>],
     pi_c |-> [i \in 1 .. 3 |-> Coordinate("c", i, k)]]
VerifierOrder(k) ==
    <<Coordinate("a", 1, k), Coordinate("a", 2, k),
      Coordinate("b im", 1, k), Coordinate("b re", 1, k),
      Coordinate("b im", 2, k), Coordinate("b re", 2, k),
      Coordinate("c", 1, k), Coordinate("c", 2, k)>>

\* Action number k, with the commitment of note c.
Action(k, c) ==
    LET W(name) == [name |-> name, of |-> k]
        cmx == [cmx |-> c]
        anchor == [anchor |-> k]
    IN  [cmx |-> cmx, anchor |-> anchor, epk |-> W("epk"), nf_old |-> W("nf"),
         enc_ciphertext |-> [i \in 1 .. EncWords |-> [enc |-> k, word |-> i]],
         out_ciphertext |-> <<W("out")>>,
         proof |-> encode_groth16_proof_from_snarkjs_json(SnarkJs(k)).value,
         pub_fields |-> <<anchor, W("cv_x"), W("cv_y"), W("nf"), W("rk_x"), W("rk_y"),
                          cmx, [rt_frozen |-> "root"]>>]

\* The actions of a bundle: an action may repeat the commitment before it.
Bundles ==
    LET k == Len(queue)
        Repeats(n) == {r \in [1 .. n -> BOOLEAN] : ~r[1]}
        Cmx(r, i) == IF r[i] THEN k + i - 1 ELSE k + i
    IN  UNION {{[i \in 1 .. n |-> Action(k + i, Cmx(r, i))] : r \in Repeats(n)} :
                 n \in 1 .. MaxActions}

Of(actions, field) == [i \in DOMAIN actions |-> actions[i][field]]

\* Eight words of a binding proof, or three of a signature, for one message.
Binding(message, k) == [i \in 1 .. k |-> [binds |-> message, word |-> i]]

SpendAuth(a) ==
    Binding(spend_auth_sighash_v1(Chain, Contract, a.nf_old, a.cmx, a.epk,
                                  a.enc_ciphertext, a.out_ciphertext), 3)

\* A pERC20 bundle is bound outside the library, with the executor.
V3Message(executor, nullifiers, commitments, value_balance, meta) ==
    [v3 |-> <<executor, nullifiers, commitments, <<value_balance, meta>>>>]

\* The two layouts before the current one; their encoders are gone.
HistoricCalldata(call, args) ==
    LET Token(a) == IF call = "bundle.spend_auth"
                    THEN Append(action_token(a), SpendAuth(a)) ELSE action_token(a)
    IN  Ok(Calldata(call,
             Encode(Signature(call),
                    <<[i \in DOMAIN args.actions |-> Token(args.actions[i])],
                      args.value_balance, Num(args.amount), args.recipient_meta,
                      args.legacy_binding_sig>>)))

\* What the wallet sends: amount 0 is a transfer; shields have a flagged balance.
CalldataFor(call, actions, amount) ==
    LET shields == call \in {"shield", "shield.erc"}
        meta == IF shields \/ amount = 0 THEN NoMeta
                ELSE evm_address_to_recipient_meta(Other)
        value_balance == bundle_value_balance_be(amount, shields)
        sighash == binding_sighash_privacy_pool_bundle_v1(
                     Chain, Contract, Of(actions, "nf_old"), Of(actions, "cmx"),
                     value_balance, meta)
        executor == IF call = "transfer.executor" THEN User ELSE NoExecutor
        v3 == V3Message(executor, Of(actions, "nf_old"), Of(actions, "cmx"), value_balance, meta)
        bundle == [actions |-> actions, value_balance |-> value_balance,
                   amount |-> amount, recipient_meta |-> meta,
                   binding_proof |-> IF call = "bundle" THEN Binding(sighash, 8) ELSE Absent,
                   legacy_binding_sig |-> IF call = "bundle" THEN Absent ELSE Binding(sighash, 3)]
        private == [actions |-> actions, binding_proof |-> Binding(v3, 8)]
    IN  CASE call = "bundle" -> encode_bundle_calldata(bundle)
          [] call \in {"bundle.schnorr", "bundle.spend_auth"} -> HistoricCalldata(call, bundle)
          [] call = "shield.erc" ->
               encode_erc_shield_calldata(
                 [actions |-> actions, amount |-> amount, owner |-> User, deadline |-> 0,
                  permit_v |-> Num(27), permit_r |-> [permit |-> "r"],
                  permit_s |-> [permit |-> "s"], binding_sig |-> Binding(sighash, 3)])
          [] call = "transfer" -> Ok(encode_perc20_transfer_calldata(private))
          [] call = "transfer.executor" ->
               Ok(encode_perc20_transfer_executor_calldata(User, private))
          [] call = "shield" -> Ok(encode_wrapped_shield_calldata(amount, private))
          [] call = "unshield" -> Ok(encode_wrapped_unshield_calldata(amount, Other, private))

-----------------------------------------------------------------------------
(* The pool reads calldata and checks what it says. *)

AsAction(t) ==
    [cmx |-> t[1], enc_ciphertext |-> t[2], out_ciphertext |-> t[3], epk |-> t[4],
     nf_old |-> t[5], anchor |-> t[6], proof |-> t[7], pub_fields |-> t[8]]
AsActions(tokens) == [i \in DOMAIN tokens |-> AsAction(tokens[i])]

Received(executor, token, amount, value_balance, meta, binding) ==
    [executor |-> executor, tokens |-> token, actions |-> AsActions(token), amount |-> amount,
     value_balance |-> value_balance, meta |-> meta, binding |-> binding]

Receive(calldata) ==
    LET v == Decode(Signature(calldata.sel), calldata.body).value
        Nested(call) == Decode(<<ArrayOf(StructOf(ActionStruct))>>, call[1]).value[1]
        Minus(w) == bundle_value_balance_be(w.n, TRUE)
    IN  CASE calldata.sel \in BundleCalls ->
               Received(NoExecutor, v[1], v[3], v[2], v[4], v[5])
          [] calldata.sel = "shield.erc" ->
               Received(NoExecutor, v[1], v[2], Minus(v[2]), NoMeta, v[8])
          [] calldata.sel = "transfer" ->
               Received(NoExecutor, Nested(v[1]), Num(0), Num(0), NoMeta, v[1][2])
          [] calldata.sel = "transfer.executor" ->
               Received(v[1], Nested(v[2]), Num(0), Num(0), NoMeta, v[2][2])
          [] calldata.sel = "shield" ->
               Received(NoExecutor, Nested(v[2]), v[1], Minus(v[1]), NoMeta, v[2][2])
          [] calldata.sel = "unshield" ->
               Received(NoExecutor, Nested(v[3]), v[1], v[1],
                        evm_address_to_recipient_meta(v[2]), v[3][2])

\* buildSighash of the binding and of the spend authorisation contract.
ExpectedBinding(call, r) ==
    IF call \in BundleCalls \cup {"shield.erc"}
    THEN Binding(Keccak(<<[tag |-> "PrivacyPool.bundle.v1"], Chain, Contract>>
                          \o Of(r.actions, "nf_old") \o Of(r.actions, "cmx")
                          \o <<r.value_balance, r.meta>>),
                 IF call = "bundle" THEN 8 ELSE 3)
    ELSE Binding(V3Message(r.executor, Of(r.actions, "nf_old"), Of(r.actions, "cmx"),
                           r.value_balance, r.meta), 8)

ExpectedSpendAuth(a) ==
    Binding(Keccak(<<[tag |-> "SpendAuth.action.v1"], Chain, Contract, a.nf_old, a.cmx,
                     a.epk, Keccak(a.enc_ciphertext), Keccak(a.out_ciphertext)>>), 3)

\* The public fields say what the action says; the proof is one for them.
ProofVerifies(a) ==
    /\ a.pub_fields[1] = a.anchor /\ a.pub_fields[4] = a.nf_old /\ a.pub_fields[7] = a.cmx
    /\ a.proof = VerifierOrder(a.nf_old.of)

\* A nominated executor has to be the sender.
AcceptsBundle(call, r) ==
    /\ r.executor \in {NoExecutor, User}
    /\ r.binding = ExpectedBinding(call, r)
    /\ \A i \in DOMAIN r.actions : ProofVerifies(r.actions[i])
    /\ call = "bundle.spend_auth" =>
         \A i \in DOMAIN r.tokens : r.tokens[i][9] = ExpectedSpendAuth(r.actions[i])

-----------------------------------------------------------------------------
(* Logs.  What the decoders return is a function of a log and of the        *)
(* calldata of its transaction; the state keeps that, not the words.       *)

\* The indexer completes a short NoteAdded from the calldata (types.rs:
\* "NoteAdded.outCiphertext, or legacy calldata parse").
Completed(note, by_cmx) ==
    IF note.ok /\ by_cmx.ok /\ note.value.out_ciphertext = << >>
       /\ note.value.cmx \in DOMAIN by_cmx.value
    THEN Ok([note.value EXCEPT
               !.out_ciphertext = by_cmx.value[note.value.cmx].out_ciphertext,
               !.cv_net_x = <<by_cmx.value[note.value.cmx].cv_net_x>>])
    ELSE note

ReadLog(topics, data, by_cmx) ==
    CASE topics[1].event \in {"NoteAdded", "NoteAdded.legacy"} ->
           Completed(decode_note_added_log(topics, data), by_cmx)
      [] topics[1].event = "NoteConfirmed" -> decode_note_confirmed_log(topics, data)
      [] topics[1].event = "RootUpdated" -> decode_root_updated_log(topics, data)
      [] topics[1].event = "ShieldCompleted" -> decode_shield_completed_log(topics, data)
      [] topics[1].event \in {"Shielded", "Unshielded"} -> decode_shielded_like(topics, data)
      [] topics[1].event = "ShieldPoolCreated" -> decode_shield_pool_created_log(topics, data)

Emitted(topics, data) == [topics |-> topics, data |-> data]

\* The log of an event, in a transaction whose calldata gives these ciphertexts.
Log(tx, by_cmx, e) ==
    [tx |-> tx, event |-> e.topics[1].event, read |-> ReadLog(e.topics, e.data, by_cmx)]

\* The transaction emits these events.
Emit(tx, by_cmx, events) ==
    \E emitted \in {events} :
        logs' = logs \o [i \in DOMAIN emitted |-> Log(tx, by_cmx, emitted[i])]

NoteAdded(a) ==
    Emitted(<<Topic0(pool.topic), a.cmx>>,
            IF pool.body = "legacy"
            THEN Encode(<<Bytes, Word, Word>>, <<a.enc_ciphertext, a.epk, a.nf_old>>)
            ELSE Encode(<<Bytes, Bytes, Word, Word, Word>>,
                        <<a.enc_ciphertext, a.out_ciphertext, a.epk, a.nf_old, a.pub_fields[2]>>))

\* After the notes, the event of the money that moved: its account and its sign.
Custody(call, r) ==
    LET Moved(event, account) ==
          Emitted(<<Topic0(event), account>>,
                  Encode(<<Word, Word>>, <<r.amount, Num(Scale * r.amount.n)>>))
    IN  CASE call = "shield" -> <<Moved("Shielded", User)>>
          [] call = "unshield" -> <<Moved("Unshielded", Other)>>
          [] call = "shield.erc" ->
               <<Emitted(<<Topic0("ShieldCompleted"), r.actions[1].cmx>>,
                         Encode(<<Word>>, <<r.amount>>))>>
          [] OTHER -> << >>

Creation ==
    Emitted(<<Topic0("ShieldPoolCreated"), Contract, Underlying>>,
            Encode(<<Word, Bytes, Bytes, Word>>,
                   <<Num(Scale), <<[text |-> "name"]>>, <<[text |-> "symbol"]>>, Num(8)>>))

\* The indexer does not look at the calldata of a relayer.
Relayed == Err("TooShort")

-----------------------------------------------------------------------------
(* The indexer.  A log it cannot decode is one it does not get past.       *)

NewIndex ==
    [cursor |-> 0, notes |-> << >>, watermark |-> 0, latest_root |-> Absent,
     accounts |-> [a \in Accounts |-> [units |-> 0, wei |-> 0]], scale |-> 0]

Unread == SubSeq(logs, index.cursor + 1, Len(logs))

\* The next log is one of these events and can be decoded.
Reads(events) == Unread # << >> /\ Unread[1].event \in events /\ Unread[1].read.ok

Item == Unread[1].read.value

\* The log has been indexed, with this effect.
Becomes(new) ==
    /\ index' = [new EXCEPT !.cursor = @ + 1]
    /\ UNCHANGED <<pool, txs, logs, queue, confirmed, balances, refused>>

\* OrchardIndexedAbiNote
IndexedNote ==
    [cmx |-> Item.cmx, enc_ciphertext |-> Item.enc_ciphertext, epk |-> Item.epk,
     nf_old |-> Item.nf_old, out_ciphertext |-> Item.out_ciphertext,
     cv_net_x |-> Item.cv_net_x, tx |-> Unread[1].tx, cmx_position |-> Len(index.notes),
     shield_amount |-> Absent, is_confirmed |-> FALSE]

IndexNoteAdded ==
    /\ Reads({"NoteAdded", "NoteAdded.legacy"})
    /\ Becomes([index EXCEPT !.notes = Append(@, IndexedNote)])

Confirming(notes, from, to) ==
    [i \in DOMAIN notes |->
       IF i \in from + 1 .. to THEN [notes[i] EXCEPT !.is_confirmed = TRUE] ELSE notes[i]]

IndexNoteConfirmed ==
    /\ Reads({"NoteConfirmed"})
    /\ Becomes([index EXCEPT !.notes = Confirming(@, Item.position, Item.position + 1),
                             !.watermark = Item.position + 1,
                             !.latest_root = <<Item.new_root>>])

IndexRootUpdated ==
    /\ Reads({"RootUpdated"})
    /\ Becomes([index EXCEPT
                  !.notes = Confirming(@, Item.from_count, Item.from_count + Item.batch_size),
                  !.watermark = Item.to_count, !.latest_root = <<Item.new_root>>])

IndexShieldCompleted ==
    /\ Reads({"ShieldCompleted"})
    /\ LET Is(n) == n.cmx = Item.cmx /\ n.tx = Unread[1].tx
           i == FirstIndex(index.notes, Is)
       IN  Becomes(IF i = 0 THEN index
                   ELSE [index EXCEPT !.notes[i].shield_amount = <<Item.amount>>])

IndexCustody(event, sign) ==
    /\ Reads({event})
    /\ Becomes([index EXCEPT
                  !.accounts[Item.actor].units = @ + sign * Item.amount_units,
                  !.accounts[Item.actor].wei = @ + sign * Item.wei_amount])

IndexShielded == IndexCustody("Shielded", 1)
IndexUnshielded == IndexCustody("Unshielded", -1)

IndexPoolCreated ==
    /\ Reads({"ShieldPoolCreated"})
    /\ Becomes([index EXCEPT !.scale = Item.scale])

IndexNext ==
    \/ IndexNoteAdded \/ IndexNoteConfirmed \/ IndexRootUpdated
    \/ IndexShieldCompleted \/ IndexShielded \/ IndexUnshielded \/ IndexPoolCreated

-----------------------------------------------------------------------------
(* The chain *)

Init ==
    /\ pool \in Generations
    /\ txs = << >> /\ queue = << >> /\ confirmed = 0 /\ refused = FALSE
    /\ logs = IF "shield" \in pool.calls THEN <<Log(0, Relayed, Creation)>> ELSE << >>
    /\ balances = [a \in Accounts |-> 0]
    /\ index = NewIndex

Moves(call, amount) ==
    CASE call = "shield" -> [balances EXCEPT ![User] = @ + Scale * amount.n]
      [] call = "unshield" -> [balances EXCEPT ![Other] = @ - Scale * amount.n]
      [] OTHER -> balances

\* An amount is moved by a shield and by an unshield; a bundle may be either
\* an unshield or a transfer.
AmountsOf(call) ==
    CASE call \in {"transfer", "transfer.executor"} -> {0}
      [] call \in {"shield", "shield.erc", "unshield"} -> Amounts
      [] OTHER -> {0} \cup Amounts

Enqueued(tx, call, r) ==
    [i \in DOMAIN r.actions |->
       [action |-> r.actions[i], tx |-> tx,
        shielded |-> IF call = "shield.erc" /\ i = 1 THEN <<r.amount.n>> ELSE Absent]]

Submit(call, actions, amount) ==
    /\ Len(txs) < MaxTxs
    /\ \E calldata \in {CalldataFor(call, actions, amount)} :
         /\ calldata.ok
         /\ \E r \in {Receive(calldata.value)},
               by_cmx \in {bundle_actions_by_cmx(calldata.value)} :
              IF AcceptsBundle(call, r)
              THEN LET tx == Len(txs) + 1
                       notes == [i \in DOMAIN r.actions |-> NoteAdded(r.actions[i])]
                   IN  /\ txs' = Append(txs, call)
                       /\ queue' = queue \o Enqueued(tx, call, r)
                       /\ Emit(tx, by_cmx, notes \o Custody(call, r))
                       /\ balances' = Moves(call, r.amount)
                       /\ UNCHANGED refused
              ELSE /\ refused' = TRUE
                   /\ UNCHANGED <<txs, queue, logs, balances>>
    /\ UNCHANGED <<pool, confirmed, index>>

RootOf(n) == Root([i \in 1 .. n |-> queue[i].action.cmx])

\* Old pools confirm a note at a time.
ConfirmNote ==
    /\ pool.confirms = "NoteConfirmed" /\ confirmed < Len(queue)
    /\ confirmed' = confirmed + 1
    /\ Emit(0, Relayed,
            <<Emitted(<<Topic0("NoteConfirmed"), queue[confirmed + 1].action.cmx>>,
                      Encode(<<Word, Word>>, <<RootOf(confirmed + 1), Num(confirmed)>>))>>)
    /\ UNCHANGED <<pool, txs, queue, balances, refused, index>>

\* A crank's update of the next j leaves behind the first n.
Update(n, j) ==
    [new_root |-> RootOf(n + j), new_frontier_commit |-> [frontier |-> n + j], j |-> j,
     proof |-> <<[confirms |-> RootOf(n + j), from |-> n]>>]

\* What the pool reads of it, and whether it is the update of its own leaves.
ReadUpdates(calldata) ==
    LET v == Decode(Signature(calldata.sel), calldata.body).value
    IN  IF calldata.sel = "updateRoot" THEN <<v>> ELSE v[1]

AcceptsUpdate(n, u) ==
    /\ IsBelow(u[3], Len(queue) - n + 1)
    /\ u[4] = <<[confirms |-> u[1], from |-> n]>>
    /\ u[1] = RootOf(n + u[3].n) /\ u[2] = [frontier |-> n + u[3].n]

RootUpdated(n, u) ==
    Emitted(<<Topic0("RootUpdated"), u[1]>>,
            Encode(<<Word, Word, Word>>, <<Num(n), Num(n + u[3].n), u[3]>>))

\* The batches of a crank: one alone, or two that follow each other.
Batches ==
    LET left == Len(queue) - confirmed
    IN  {<<j>> : j \in 1 .. left} \cup {<<i, j>> : i \in 1 .. left, j \in 1 .. left}

UpdateRoots(js) ==
    LET End[i \in 0 .. Len(js)] == IF i = 0 THEN confirmed ELSE End[i - 1] + js[i]
        updates == [i \in DOMAIN js |-> Update(End[i - 1], js[i])]
        calldata == IF Len(js) = 1 THEN encode_update_root_calldata(updates[1])
                    ELSE encode_update_roots_calldata(updates)
        read == ReadUpdates(calldata)
    IN  /\ pool.confirms = "RootUpdated" /\ End[Len(js)] <= Len(queue)
        /\ IF \A i \in DOMAIN js : AcceptsUpdate(End[i - 1], read[i])
           THEN /\ confirmed' = End[Len(js)]
                /\ Emit(0, Relayed, [i \in DOMAIN js |-> RootUpdated(End[i - 1], read[i])])
                /\ UNCHANGED refused
           ELSE /\ refused' = TRUE
                /\ UNCHANGED <<confirmed, logs>>
        /\ UNCHANGED <<pool, txs, queue, balances, index>>

Next ==
    \/ \E call \in pool.calls, actions \in Bundles :
         \E amount \in AmountsOf(call) : Submit(call, actions, amount)
    \/ ConfirmNote
    \/ \E js \in Batches : UpdateRoots(js)
    \/ IndexNext

\* The indexer keeps polling; nobody has to send a transaction.
Spec == Init /\ [][Next]_vars /\ WF_vars(IndexNext)

-----------------------------------------------------------------------------
(* Properties *)

TypeOK ==
    /\ pool \in Generations
    /\ Len(txs) <= MaxTxs
    /\ confirmed \in 0 .. Len(queue)
    /\ balances \in [Accounts -> Int]
    /\ refused \in BOOLEAN
    /\ index.cursor \in 0 .. Len(logs)
    /\ index.watermark \in 0 .. Len(index.notes)
    /\ Len(index.notes) <= Len(queue)

SameCmx(i, j) == queue[i].tx = queue[j].tx /\ queue[i].action.cmx = queue[j].action.cmx

\* The action whose ciphertexts note i must have: its own if the log carries
\* them, the last one of the transaction with its cmx if they come from bundle
\* calldata; none if the log is short and the calldata is not a bundle's.
CiphertextsOf(i) ==
    IF pool.body = "extended" THEN {i}
    ELSE IF txs[queue[i].tx] \notin BundleCalls THEN {}
    ELSE {j \in DOMAIN queue : SameCmx(i, j) /\ \A l \in DOMAIN queue : SameCmx(i, l) => l <= j}

\* Whatever the generation of the pool, an indexed note is that of its own
\* action, at the position of its leaf, and its outgoing ciphertext and cv_net_x
\* belong together and to an action with its commitment (decode_note_added_log
\* and bundle_actions_by_cmx).
NotesFaithful ==
    \A i \in DOMAIN index.notes :
        LET n == index.notes[i]
            a == queue[i].action
        IN  /\ n.cmx_position = i - 1 /\ n.cmx = a.cmx
            /\ n.enc_ciphertext = a.enc_ciphertext /\ n.epk = a.epk /\ n.nf_old = a.nf_old
            /\ <<n.out_ciphertext, n.cv_net_x>> \in
                 IF CiphertextsOf(i) = {} THEN {<< << >>, Absent >>}
                 ELSE {<<queue[j].action.out_ciphertext, <<queue[j].action.pub_fields[2]>>>> :
                         j \in CiphertextsOf(i)}

\* The root an indexer serves is that of its own first watermark notes, and
\* these are the confirmed ones: the position of NoteConfirmed and the counts of
\* RootUpdated mean the same prefix as the order of NoteAdded.
AnchorServed ==
    /\ index.latest_root =
         IF index.watermark = 0 THEN Absent
         ELSE <<Root([i \in 1 .. index.watermark |-> index.notes[i].cmx])>>
    /\ \A i \in DOMAIN index.notes : index.notes[i].is_confirmed <=> i <= index.watermark

\* An indexer that has seen every log knows what every account has paid and
\* received, in the token and in note units of the pool's scale, and what an ERC
\* shield deposited, as the wallet declared it in calldata.
CustodyAgrees ==
    index.cursor = Len(logs) =>
        /\ \A a \in Accounts :
             /\ index.accounts[a].wei = balances[a]
             /\ index.accounts[a].units * Scale = balances[a]
        /\ "shield" \in pool.calls => index.scale = Scale
        /\ \A i \in DOMAIN queue : index.notes[i].shield_amount = queue[i].shielded

\* A pool refuses nothing the library encodes: field order, tuple nesting, G2
\* limb order and both signed messages are the contract's.
NothingRefused == ~refused

\* No log of any generation stops the indexer (decode errors are final).
EverythingIndexed == []<>(index.cursor = Len(logs))
=============================================================================
