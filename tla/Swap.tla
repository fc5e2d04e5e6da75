-------------------------------- MODULE Swap --------------------------------
(***************************************************************************)
(* Atomic swaps of perc20.rs: initiateSwap, joinSwap and settle, sent by    *)
(* two relayers to the swap coordinator of the chain.  The calldata of the *)
(* first two is where each party gets the other's leg from, through an      *)
(* indexer (decode_swap_initiate_calldata, decode_swap_join_calldata and    *)
(* the SwapInitiated and SwapJoined logs).                                  *)
(*                                                                         *)
(* A relayer computes the swap id itself and does not wait for a receipt;   *)
(* it keeps nothing but the terms, so that a restart changes nothing: it    *)
(* sends a transaction again as long as the indexer does not show its       *)
(* effect.  Transactions are mined in any order and may get lost.  The      *)
(* coordinator, the mempool and the loops of the relayers and the indexer   *)
(* are not in the repository.                                               *)
(***************************************************************************)
EXTENDS Events, Perc20

CONSTANTS Swaps,      \* swaps the same two parties make
          Deadline    \* of every swap; bound of the model: time stops there

ASSUME SwapAssumption ==
    /\ Deadline \in 1 .. U64 - 1
    /\ CalldataWords(1) < U32   \* a leg here has one action

VARIABLES swaps,      \* the coordinator's storage, by swap id
          now,
          mempool,
          swap_logs,  \* the coordinator's logs as they are decoded
          cursor,     \* how many of them the indexer has read
          mismatches  \* why transactions have failed whose time was right

swap_vars == <<swaps, now, mempool, swap_logs, cursor, mismatches>>

-----------------------------------------------------------------------------
(* Terms of a swap, and the legs: one action each here. *)

Initiator == [address |-> "initiator"]
Joiner == [address |-> "joiner"]
PoolA == [address |-> "pool A"]
PoolB == [address |-> "pool B"]

Leg(side, s) ==
    LET W(name) == [side |-> side, name |-> name, of |-> s]
    IN  [actions |->
           <<[cmx |-> W("cmx"), enc_ciphertext |-> [i \in 1 .. EncWords |-> W("enc")],
              out_ciphertext |-> <<W("out")>>, epk |-> W("epk"), nf_old |-> W("nf"),
              anchor |-> W("anchor"), proof |-> <<W("proof")>>,
              pub_fields |-> [i \in 1 .. 8 |-> W("field")]]>>,
         binding_proof |-> [i \in 1 .. 8 |-> W("binding")]]

CallA == [s \in Swaps |-> Leg("A", s)]
CallB == [s \in Swaps |-> Leg("B", s)]
CommitA == [s \in Swaps |-> privacy_call_commit(CallA[s])]
CommitB == [s \in Swaps |-> privacy_call_commit(CallB[s])]
Secret(s) == [secret |-> s]
Salt(s) == [salt |-> s]
rk_bx(s) == [rk_bx |-> s]
rk_by(s) == [rk_by |-> s]
HtlcHash(s) == Keccak(<<Secret(s)>>)

\* The id a relayer computes on its own.
LocalId == [s \in Swaps |->
    compute_swap_id(Initiator, PoolA, PoolB, HtlcHash(s), CommitA[s], rk_bx(s), rk_by(s), Salt(s))]

\* No two swaps have the same id: compute_swap_id does not collide on them.
ASSUME SwapIdsDiffer == \A s, t \in Swaps : LocalId[s] = LocalId[t] => s = t

\* The Schnorr signature over the join challenge.
JoinSignature(rk, id, commit) ==
    [i \in 1 .. 3 |-> [signs |-> <<id, commit>>, by |-> rk, word |-> i]]

-----------------------------------------------------------------------------
(* What the coordinator reads of calldata; its layouts are spelled out     *)
(* independently.  The state keeps what is read, not the words.             *)

LegLayout == StructOf(<<Bytes, FixedArray(8)>>)
InitiateArguments == <<Address, Address, LegLayout, Word, Word, Word, Word, Word>>
JoinArguments == <<Word, LegLayout, FixedArray(3)>>
SettleArguments == <<Word, Word, LegLayout, LegLayout>>

\* keccak256(abi.encode(call))
CommitOf(call) == Keccak(Encode(<<LegLayout>>, <<call>>))

ReceiveInitiate(sender, body) ==
    LET v == Decode(InitiateArguments, body).value
        commit == CommitOf(v[3])
    IN  [id |-> Keccak(<<sender, v[1], v[2], v[4], commit, v[5], v[6], v[8]>>),
         swap |-> [initiator |-> sender, pool_a |-> v[1], pool_b |-> v[2],
                   htlc_hash |-> v[4], commit_a |-> commit, rk |-> <<v[5], v[6]>>,
                   deadline |-> v[7].n, commit_b |-> Absent, status |-> "initiated"]]

ReceiveJoin(body) ==
    LET v == Decode(JoinArguments, body).value
    IN  [id |-> v[1], commit_b |-> CommitOf(v[2]), joiner_sig |-> v[3]]

ReceiveSettle(body) ==
    LET v == Decode(SettleArguments, body).value
    IN  [id |-> v[1], secret |-> v[2],
         commits |-> <<CommitOf(v[3]), <<CommitOf(v[4])>>>>]

\* A transaction, with what the coordinator and the indexer make of it.
Tx(sender, calldata) ==
    [sender   |-> sender,
     call     |-> calldata.sel,
     received |-> CASE calldata.sel = "initiateSwap" -> ReceiveInitiate(sender, calldata.body)
                    [] calldata.sel = "joinSwap" -> ReceiveJoin(calldata.body)
                    [] calldata.sel = "settle" -> ReceiveSettle(calldata.body),
     decoded  |-> CASE calldata.sel = "initiateSwap" -> decode_swap_initiate_calldata(calldata)
                    [] calldata.sel = "joinSwap" -> decode_swap_join_calldata(calldata)
                    [] calldata.sel = "settle" -> Err("BadSelector")]

-----------------------------------------------------------------------------
(* Relayers *)

Seen == SubSeq(swap_logs, 1, cursor)

SeenOf(event, id) ==
    {Seen[i] : i \in {k \in DOMAIN Seen : /\ Seen[k].event = event
                                          /\ Seen[k].read.value.swap_id = id}}

Send(tx) ==
    /\ mempool' = mempool \cup {tx}
    /\ UNCHANGED <<swaps, now, swap_logs, cursor, mismatches>>

Pending(sender, call, id) ==
    \E tx \in mempool : tx.sender = sender /\ tx.call = call /\ tx.received.id = id

CanInitiate(s) ==
    /\ now < Deadline
    /\ ~Pending(Initiator, "initiateSwap", LocalId[s])
    /\ SeenOf("SwapInitiated", LocalId[s]) = {}

InitiateTx == [s \in Swaps |->
    Tx(Initiator,
       encode_swap_initiate_calldata(PoolA, PoolB, CallA[s], HtlcHash(s), rk_bx(s), rk_by(s),
                                     Deadline, Salt(s)))]

Initiate(s) == CanInitiate(s) /\ Send(InitiateTx[s])

\* The joiner has the id from the terms, perhaps before the swap is mined, or
\* from the swap that waits for its key.
IdsToJoin(s) ==
    {LocalId[s]} \cup
    {Seen[i].read.value.swap_id :
       i \in {k \in DOMAIN Seen : /\ Seen[k].event = "SwapInitiated"
                                  /\ Seen[k].read.value.rk_bx = rk_bx(s)}}

CanJoin(s, id) ==
    /\ now < Deadline
    /\ ~Pending(Joiner, "joinSwap", id)
    /\ SeenOf("SwapJoined", id) = {}

Join(s) ==
    \E id \in IdsToJoin(s) :
        /\ CanJoin(s, id)
        /\ Send(Tx(Joiner,
             encode_swap_join_calldata(id, CallB[s],
               JoinSignature(<<rk_bx(s), rk_by(s)>>, id, CommitB[s]))))

\* Both legs come from the calldata the indexer has decoded.
CanSettle(s) ==
    /\ ~Pending(Initiator, "settle", LocalId[s])
    /\ SeenOf("SwapInitiated", LocalId[s]) # {} /\ SeenOf("SwapJoined", LocalId[s]) # {}
    /\ SeenOf("SwapSettled", LocalId[s]) = {} /\ SeenOf("SwapCancelled", LocalId[s]) = {}

Settle(s) ==
    /\ CanSettle(s)
    /\ \E i \in SeenOf("SwapInitiated", LocalId[s]), j \in SeenOf("SwapJoined", LocalId[s]) :
         Send(Tx(Initiator,
           encode_swap_settle_calldata(LocalId[s], Secret(s), i.decoded.value.call_a,
                                       j.decoded.value.call_b)))

-----------------------------------------------------------------------------
(* Coordinator *)

InitiatedLog(tx) ==
    LET r == tx.received
    IN  [event |-> "SwapInitiated", decoded |-> tx.decoded,
         read |-> decode_swap_initiated_log(
           <<Topic0("SwapInitiated"), r.id, tx.sender>>,
           Encode(<<Address, Address, Word, Word, Word, Word, Word>>,
                  <<r.swap.pool_a, r.swap.pool_b, r.swap.htlc_hash, Num(r.swap.deadline),
                    r.swap.commit_a, r.swap.rk[1], r.swap.rk[2]>>))]

JoinedLog(tx) ==
    LET rk == swaps[tx.received.id].rk
    IN  [event |-> "SwapJoined", decoded |-> tx.decoded,
         read |-> decode_swap_joined_log(
           <<Topic0("SwapJoined"), tx.received.id, tx.sender>>,
           Encode(<<Word, Word, Word>>, <<tx.received.commit_b, rk[1], rk[2]>>))]

\* SwapSettled and SwapCancelled have no decoder; their id is a topic.
EndLog(event, id) ==
    [event |-> event, decoded |-> Err("BadSelector"), read |-> Ok([swap_id |-> id])]

\* Why the coordinator refuses a transaction, if it does.
Refusal(tx) ==
    LET r == tx.received
        known == r.id \in DOMAIN swaps
        swap == swaps[r.id]
    IN  CASE tx.call = "initiateSwap" ->
               IF known THEN "exists" ELSE IF now >= r.swap.deadline THEN "late" ELSE "none"
          [] tx.call = "joinSwap" ->
               IF ~known THEN "unknown"
               ELSE IF swap.status # "initiated" THEN "status"
               ELSE IF now >= swap.deadline THEN "late"
               ELSE IF r.joiner_sig # JoinSignature(swap.rk, r.id, r.commit_b)
                    THEN "signature" ELSE "none"
          [] tx.call = "settle" ->
               IF ~known THEN "unknown"
               ELSE IF swap.status # "joined" THEN "status"
               ELSE IF Keccak(<<r.secret>>) # swap.htlc_hash THEN "secret"
               ELSE IF r.commits # <<swap.commit_a, swap.commit_b>> THEN "commitment"
               ELSE "none"

Untimely == {"exists", "unknown", "status", "late"}

Apply(tx) ==
    LET r == tx.received
    IN  CASE tx.call = "initiateSwap" ->
               /\ swaps' = [id \in DOMAIN swaps \cup {r.id} |->
                              IF id = r.id THEN r.swap ELSE swaps[id]]
               /\ swap_logs' = Append(swap_logs, InitiatedLog(tx))
          [] tx.call = "joinSwap" ->
               /\ swaps' = [swaps EXCEPT ![r.id].status = "joined",
                                         ![r.id].commit_b = <<r.commit_b>>]
               /\ swap_logs' = Append(swap_logs, JoinedLog(tx))
          [] tx.call = "settle" ->
               /\ swaps' = [swaps EXCEPT ![r.id].status = "settled"]
               /\ swap_logs' = Append(swap_logs, EndLog("SwapSettled", r.id))

Execute(tx) ==
    /\ mempool' = mempool \ {tx}
    /\ IF Refusal(tx) = "none"
       THEN Apply(tx) /\ UNCHANGED mismatches
       ELSE /\ mismatches' = mismatches \cup ({Refusal(tx)} \ Untimely)
            /\ UNCHANGED <<swaps, swap_logs>>
    /\ UNCHANGED <<now, cursor>>

Lose(tx) ==
    /\ mempool' = mempool \ {tx}
    /\ UNCHANGED <<swaps, now, swap_logs, cursor, mismatches>>

\* After its deadline a swap that is not settled can be cancelled.
Cancel(id) ==
    /\ now >= swaps[id].deadline /\ swaps[id].status \in {"initiated", "joined"}
    /\ swaps' = [swaps EXCEPT ![id].status = "cancelled"]
    /\ swap_logs' = Append(swap_logs, EndLog("SwapCancelled", id))
    /\ UNCHANGED <<now, mempool, cursor, mismatches>>

Tick ==
    /\ now < Deadline
    /\ now' = now + 1
    /\ UNCHANGED <<swaps, mempool, swap_logs, cursor, mismatches>>

IndexSwaps ==
    /\ cursor < Len(swap_logs) /\ swap_logs[cursor + 1].read.ok
    /\ cursor' = cursor + 1
    /\ UNCHANGED <<swaps, now, mempool, swap_logs, mismatches>>

-----------------------------------------------------------------------------

SwapInit ==
    /\ swaps = << >> /\ now = 0 /\ mempool = {} /\ swap_logs = << >> /\ cursor = 0
    /\ mismatches = {}

Mine == \E tx \in mempool : Execute(tx)

SwapNext ==
    \/ \E s \in Swaps : Initiate(s) \/ Join(s) \/ Settle(s)
    \/ Mine
    \/ \E tx \in mempool : Lose(tx)
    \/ \E id \in DOMAIN swaps : Cancel(id)
    \/ Tick
    \/ IndexSwaps

\* For every swap its parties keep trying, and a transaction that would succeed
\* and is sent again and again gets through; the indexer polls.  Nobody has to
\* initiate or cancel a swap, and time may stand still.  This is, for every s,
\* weak fairness of Join(s) \/ Settle(s) and strong fairness of Execute for the
\* transactions of s that are not refused, written out by what tells those steps
\* from others, which spares TLC to derive it from the encoders.
CanAct(s) == CanSettle(s) \/ \E id \in IdsToJoin(s) : CanJoin(s, id)

Acted(s) ==
    \E tx \in mempool' \ mempool :
        tx.call \in {"joinSwap", "settle"} /\ tx.received.id \in IdsToJoin(s)

Executable(s) == {tx \in mempool : tx.received.id = LocalId[s] /\ Refusal(tx) = "none"}

Executed(s) == swap_logs' # swap_logs /\ \E tx \in Executable(s) : tx \notin mempool'

Fairness ==
    /\ WF_swap_vars(IndexSwaps)
    /\ \A s \in Swaps :
         /\ []<>~CanAct(s) \/ []<><<Acted(s)>>_swap_vars
         /\ <>[](Executable(s) = {}) \/ []<><<Executed(s)>>_swap_vars

SwapSpec == SwapInit /\ [][SwapNext]_swap_vars /\ Fairness

-----------------------------------------------------------------------------
(* Properties *)

Initiations == {swap_logs[i] : i \in {k \in DOMAIN swap_logs : swap_logs[k].event = "SwapInitiated"}}
Joins == {swap_logs[i] : i \in {k \in DOMAIN swap_logs : swap_logs[k].event = "SwapJoined"}}

SwapTypeOK ==
    /\ now \in 0 .. Deadline /\ cursor \in 0 .. Len(swap_logs)
    /\ \A id \in DOMAIN swaps :
         /\ swaps[id].deadline = Deadline
         /\ swaps[id].status \in {"initiated", "joined", "settled", "cancelled"}
         /\ swaps[id].commit_b = Absent <=> ~\E l \in Joins : l.read.value.swap_id = id
    /\ \A l \in Initiations \cup Joins : l.read.ok /\ l.decoded.ok
    /\ mismatches \subseteq {"signature", "secret", "commitment"}

\* The id a relayer computes before anything is mined is the coordinator's, and
\* the swap stored under it has the relayer's terms; and what an indexer decodes
\* of a swap from its logs and from its calldata are the terms of one swap, the
\* commitments to the legs included (compute_swap_id, privacy_call_commit, the
\* two decoders of each transaction).
IdsAgree ==
    /\ \A id \in DOMAIN swaps : \E s \in Swaps :
         /\ id = LocalId[s]
         /\ <<swaps[id].initiator, swaps[id].pool_a, swaps[id].pool_b>>
              = <<Initiator, PoolA, PoolB>>
         /\ swaps[id].htlc_hash = HtlcHash(s) /\ swaps[id].rk = <<rk_bx(s), rk_by(s)>>
    /\ \A l \in Initiations : \E s \in Swaps :
         /\ l.read.value =
              [swap_id |-> LocalId[s], initiator |-> Initiator, pool_a |-> PoolA,
               pool_b |-> PoolB, htlc_hash |-> HtlcHash(s), deadline |-> Deadline,
               commit_a |-> CommitA[s], rk_bx |-> rk_bx(s), rk_by |-> rk_by(s)]
         /\ l.decoded.value =
              [pool_a |-> PoolA, pool_b |-> PoolB, call_a |-> CallA[s],
               htlc_hash |-> HtlcHash(s), rk_bx |-> rk_bx(s), rk_by |-> rk_by(s),
               deadline |-> Deadline, salt |-> Salt(s)]
    /\ \A l \in Joins : \E s \in Swaps :
         /\ l.read.value = [swap_id |-> LocalId[s], joiner |-> Joiner, commit_b |-> CommitB[s],
                            rk_bx |-> rk_bx(s), rk_by |-> rk_by(s)]
         /\ l.decoded.value =
              [swap_id |-> LocalId[s], call_b |-> CallB[s],
               joiner_sig |-> JoinSignature(<<rk_bx(s), rk_by(s)>>, LocalId[s], CommitB[s])]

\* Transactions that come too early, too late or twice are refused for that and
\* for nothing else: a leg that went through calldata, indexer and calldata again
\* still has the commitment the coordinator stored, and the joiner signed the
\* commitment the coordinator derives.
LegsSurvive == mismatches = {}

OfSwap(s, statuses) ==
    \E id \in DOMAIN swaps : swaps[id].htlc_hash = HtlcHash(s) /\ swaps[id].status \in statuses

\* A swap that was initiated is settled, whatever got lost or overtook what,
\* unless its deadline passes first.
SettledInTime ==
    \A s \in Swaps : OfSwap(s, {"initiated", "joined"}) ~>
                       (OfSwap(s, {"settled"}) \/ now >= Deadline)
=============================================================================
