---------------------------- MODULE ConfirmCrank ----------------------------
(***************************************************************************)
(* The batch-update protocol that commitment_tree/frontier.rs is written   *)
(* for.  Bundles enqueue commitments on the chain.  Permissionless cranks  *)
(* each keep a FrontierTree, plan root updates on a clone of it, prove     *)
(* them and submit them in one transaction.  The chain applies a           *)
(* transaction atomically, against its own state at that time.             *)
(*                                                                         *)
(* The chain, the prover and the loop that drives a FrontierTree are not   *)
(* in the repository; they are modelled from what its documentation and    *)
(* its calldata and event formats say of them.                             *)
(***************************************************************************)
EXTENDS Frontier

CONSTANTS Cranks,
          Arrivals,         \* the words bundles enqueue, in order
          Modulus,          \* the order of Fr
          FieldElement(_),  \* the element of Fr with a given canonical value
          MaxFaults         \* bound of the model: crashes, lost transactions, early timeouts

\* A cmx on the chain is a public signal of the proof of its bundle, hence a
\* canonical field element.
ASSUME CrankAssumption ==
    /\ Modulus \in Nat \ {0}
    /\ Arrivals \in Seq(0 .. Modulus - 1)
    /\ Len(Arrivals) <= Capacity
    /\ Zero = FieldElement(0)
    /\ MaxFaults \in Nat

VARIABLES queue,      \* the commitments enqueued on the chain, as field elements
          chain,      \* confirmedRoot, frontierCommit and confirmedCount
          mempool,    \* transactions submitted and not yet executed
          crank,      \* the memory of every crank
          persisted,  \* the snapshot of its tree that every crank has saved
          faults

vars == <<queue, chain, mempool, crank, persisted, faults>>

fr_from_be(w) == FieldElement(w % Modulus)

IdleCrank(t) == [tree |-> t, clone |-> t, tx |-> << >>, receipt |-> "none"]

Waiting(c) == crank[c].tx # << >>

-----------------------------------------------------------------------------
(* Proofs and transactions.  A proof is as good as the public signals it   *)
(* was made for; the prover finds one only for a witness that is true.     *)

PublicSignals(p) ==
    [old_root |-> p.old_root, new_root |-> p.new_root, j |-> p.j,
     start_idx |-> p.start_idx, old_frontier_commit |-> p.old_frontier_commit,
     new_frontier_commit |-> p.new_frontier_commit, cmxs |-> p.cmxs]

Provable(p) ==
    LET t == from_parts(p.filled_start, p.start_idx, p.old_root)
        post == InsertAll(t, p.cmxs)[p.j]
    IN  /\ p.old_frontier_commit = frontier_commit(p.filled_start)
        /\ p.new_frontier_commit = frontier_commit(post.filled)
        /\ p.new_root = post.root

\* RootUpdateArgs: what encode_update_root(s)_calldata carries of a plan.
RootUpdateArgs(p) ==
    [new_root |-> p.new_root, new_frontier_commit |-> p.new_frontier_commit,
     j |-> p.j, proof |-> PublicSignals(p)]

\* encode_update_roots_calldata: the updates of one transaction.  Its assertion on
\* their number, 1..=4, is 1 .. MaxProofs: TypeOK has no transaction outside.
Transaction(inputs) == [k \in DOMAIN inputs |-> RootUpdateArgs(inputs[k])]

\* The contract puts the public signals together from its own state and queue.
Accepts(st, u) ==
    /\ u.j \in 1 .. MaxBatch
    /\ st.count + u.j <= Len(queue)
    /\ u.proof = [old_root |-> st.root, new_root |-> u.new_root, j |-> u.j,
                  start_idx |-> st.count, old_frontier_commit |-> st.commit,
                  new_frontier_commit |-> u.new_frontier_commit,
                  cmxs |-> Padded(SubSeq(queue, st.count + 1, st.count + u.j))]

\* Variant: the padding of a batch counts as leaves.
AppliedWithPadding(st, u) ==
    [root |-> u.new_root, commit |-> u.new_frontier_commit, count |-> st.count + MaxBatch]

Applied(st, u) ==
    [root |-> u.new_root, commit |-> u.new_frontier_commit, count |-> st.count + u.j]

\* The state after each update of a transaction.
After(updates) ==
    LET S[k \in Nat] == IF k = 0 THEN chain ELSE Applied(S[k - 1], updates[k])
    IN  S

Succeeds(updates) ==
    \A k \in DOMAIN updates : Accepts(After(updates)[k - 1], updates[k])

-----------------------------------------------------------------------------
Init ==
    /\ queue = << >>
    /\ chain = [root |-> NewFrontier.root, count |-> 0,
                commit |-> frontier_commit(NewFrontier.filled)]
    /\ mempool = {}
    /\ crank = [c \in Cranks |-> IdleCrank(NewFrontier)]
    /\ persisted = [c \in Cranks |-> NewFrontier]
    /\ faults = 0

\* A bundle enqueues its next cmx.
Enqueue ==
    /\ Len(queue) < Len(Arrivals)
    /\ queue' = Append(queue, fr_from_be(Arrivals[Len(queue) + 1]))
    /\ UNCHANGED <<chain, mempool, crank, persisted, faults>>

\* A crank whose tree is at the confirmed count plans on a clone, proves every
\* segment and submits them in one updateRoots transaction.
Plan(c) ==
    LET t == crank[c].tree
    IN  /\ ~Waiting(c)
        /\ t.next_index = chain.count
        /\ \E n \in 1 .. Len(queue) - t.next_index, max_proofs \in 1 .. MaxProofs :
              LET ls == SubSeq(queue, t.next_index + 1, t.next_index + n)
                  plan == plan_batches(t, ls)
                  tx == Transaction(plan.inputs)
              IN  /\ Plannable(t, ls, max_proofs)
                  /\ \A k \in DOMAIN plan.inputs : Provable(plan.inputs[k])
                  /\ crank' = [crank EXCEPT ![c].clone = plan.tree, ![c].tx = tx]
                  /\ mempool' = mempool \union {[by |-> c, updates |-> tx]}
        /\ UNCHANGED <<queue, chain, persisted, faults>>

\* The crank, if it still waits for this transaction, is told its outcome.
Notify(tx, outcome) ==
    crank' = IF crank[tx.by].tx = tx.updates
             THEN [crank EXCEPT ![tx.by].receipt = outcome]
             ELSE crank

\* The chain executes a transaction: all of its updates, or none.
Execute(tx) ==
    /\ tx \in mempool
    /\ mempool' = mempool \ {tx}
    /\ \/ /\ Succeeds(tx.updates)
          /\ chain' = After(tx.updates)[Len(tx.updates)]
          /\ Notify(tx, "success")
       \/ /\ ~Succeeds(tx.updates)
          /\ Notify(tx, "reverted")
          /\ UNCHANGED chain
    /\ UNCHANGED <<queue, persisted, faults>>

\* A transaction is lost before the chain sees it.
Drop(tx) ==
    /\ faults < MaxFaults
    /\ tx \in mempool
    /\ mempool' = mempool \ {tx}
    /\ faults' = faults + 1
    /\ UNCHANGED <<queue, chain, crank, persisted>>

\* Variant: the clone is kept whatever the receipt says.
ReceiveUnchecked(c) ==
    /\ crank[c].receipt # "none"
    /\ crank' = [crank EXCEPT ![c] = IdleCrank(crank[c].clone)]
    /\ UNCHANGED <<queue, chain, mempool, persisted, faults>>

\* The receipt arrives: the clone becomes the tree, or is thrown away.
Receive(c) ==
    /\ crank[c].receipt # "none"
    /\ crank' = [crank EXCEPT ![c] =
                   IdleCrank(IF crank[c].receipt = "success" THEN crank[c].clone
                             ELSE crank[c].tree)]
    /\ UNCHANGED <<queue, chain, mempool, persisted, faults>>

\* The crank stops waiting: for a transaction that was lost, or too early for one
\* that is executed later.
GiveUp(c) ==
    /\ Waiting(c)
    /\ crank[c].receipt = "none"
    /\ crank' = [crank EXCEPT ![c] = IdleCrank(crank[c].tree)]
    /\ IF [by |-> c, updates |-> crank[c].tx] \in mempool
       THEN faults < MaxFaults /\ faults' = faults + 1
       ELSE UNCHANGED faults
    /\ UNCHANGED <<queue, chain, mempool, persisted>>

\* The crank replays the NoteConfirmed events that others caused, one leaf each.
Sync(c) ==
    LET t == crank[c].tree
    IN  /\ ~Waiting(c)
        /\ t.next_index < chain.count
        /\ crank' = [crank EXCEPT ![c] =
                       IdleCrank(insert(t, queue[t.next_index + 1]))]
        /\ UNCHANGED <<queue, chain, mempool, persisted, faults>>

Save(c) ==
    /\ ~Waiting(c)
    /\ persisted' = [persisted EXCEPT ![c] = crank[c].tree]
    /\ UNCHANGED <<queue, chain, mempool, crank, faults>>

\* The memory of a crank is lost; it starts again from its snapshot.
Crash(c) ==
    /\ faults < MaxFaults
    /\ crank' = [crank EXCEPT ![c] =
                   IdleCrank(from_parts(persisted[c].filled, persisted[c].next_index,
                                        persisted[c].root))]
    /\ faults' = faults + 1
    /\ UNCHANGED <<queue, chain, mempool, persisted>>

Next ==
    \/ Enqueue
    \/ \E tx \in mempool : Execute(tx) \/ Drop(tx)
    \/ \E c \in Cranks :
          Plan(c) \/ Receive(c) \/ GiveUp(c) \/ Sync(c) \/ Save(c) \/ Crash(c)

\* The chain executes what stays in the mempool, and a crank keeps working.
Fairness ==
    /\ WF_vars(\E tx \in mempool : Execute(tx))
    /\ \A c \in Cranks :
          WF_vars(Plan(c)) /\ WF_vars(Receive(c)) /\ WF_vars(GiveUp(c)) /\ WF_vars(Sync(c))

Spec == Init /\ [][Next]_vars /\ Fairness

-----------------------------------------------------------------------------
(* Properties.                                                             *)

TypeOK ==
    /\ Len(queue) <= Len(Arrivals)
    /\ chain.count \in 0 .. Len(queue)
    /\ faults \in 0 .. MaxFaults
    /\ \A tx \in mempool : tx.by \in Cranks /\ Len(tx.updates) \in 1 .. MaxProofs
    /\ \A c \in Cranks :
          /\ Len(crank[c].tx) \in 0 .. MaxProofs
          /\ crank[c].receipt \in {"none", "success", "reverted"}
          /\ crank[c].receipt # "none" => Waiting(c)

\* The root and the frontier commitment on the chain are those of exactly the
\* first count commitments of the queue, whoever confirmed them in which batches.
ConfirmedPrefix ==
    LET f == FrontierOf(queue, chain.count)
    IN  chain.root = f.root /\ chain.commit = frontier_commit(f.filled)

\* A crank's tree, and its snapshot, is the frontier of a prefix that the chain
\* has confirmed: it never runs ahead of the chain, through transactions that
\* fail, are lost or are overtaken, and through crashes.
CranksFollowChain ==
    \A c \in Cranks : \A t \in {crank[c].tree, persisted[c]} :
        /\ t.next_index <= chain.count
        /\ t = FrontierOf(queue, t.next_index)

\* A transaction of a crank is reverted only when another one was executed since
\* the plan was made.
RevertsOnlyWhenStale ==
    \A c \in Cranks :
        crank[c].receipt = "reverted" => chain.count > crank[c].tree.next_index

\* A crank at the confirmed count is never stuck with leaves that it cannot prove or
\* that the chain would refuse: whatever plan_batches accepts of the queue, the
\* witness of every segment is true, and the transaction succeeds as things stand.
PlansGoThrough ==
    \A c \in Cranks, n \in 1 .. Len(queue) - chain.count :
        LET t == crank[c].tree
            ls == SubSeq(queue, chain.count + 1, chain.count + n)
            inputs == plan_batches(t, ls).inputs
        IN  t.next_index = chain.count /\ Plannable(t, ls, MaxProofs) =>
                /\ \A k \in DOMAIN inputs : Provable(inputs[k])
                /\ Succeeds(Transaction(inputs))

\* The queue and the confirmed prefix of it are the abstract log.
Log == INSTANCE ConfirmedLog WITH
    Leaf <- {fr_from_be(Arrivals[i]) : i \in DOMAIN Arrivals},
    MaxAdvance <- MaxBatch * MaxProofs,
    log <- queue, count <- chain.count, root <- chain.root, commit <- chain.commit

ImplementsConfirmedLog == Log!Spec

\* Every commitment is confirmed in the end.
EveryLeafConfirmed ==
    \A n \in 1 .. Len(Arrivals) : Len(queue) >= n ~> chain.count >= n
=============================================================================
