--------------------------- MODULE PoseidonSponge ---------------------------
(***************************************************************************)
(* The sponge under every hash of the trees, from                          *)
(* commitment_tree/poseidon_primitives/mod.rs: Hash::hash over messages of *)
(* constant length, one call of absorb, finish_absorbing or squeeze a      *)
(* step.  Width is Rate + 1.  The permutation and the addition of the      *)
(* field are uninterpreted; a rate slot is {} for None, {x} for Some(x).   *)
(***************************************************************************)
EXTENDS Integers, Sequences

CONSTANTS Rate,          \* RATE
          Fr,            \* the elements a message is made of
          MaxLength,     \* bound of the model: the longest message
          Zero,          \* Fr::ZERO
          Add(_, _),     \* the addition of Fr
          Capacity(_),   \* the element L 2^64 of a length L
          Permute(_)     \* the permutation of a state

ASSUME SpongeAssumption ==
    /\ Rate \in Nat \ {0}
    /\ MaxLength \in Nat
    /\ Zero \in Fr

VARIABLES message,   \* the input of Hash::hash
          absorbed,  \* how many elements of it, padding included, were absorbed
          mode,      \* "absorbing", "squeezing" or "done"
          slots,     \* the rate slots of the mode
          sponge_state,  \* Sponge::state
          output     \* {}, or the hash

sponge_vars == <<message, absorbed, mode, slots, sponge_state, output>>

Messages == UNION {[1 .. n -> Fr] : n \in 1 .. MaxLength}

Empty == [i \in 1 .. Rate |-> {}]

\* Variant: the capacity does not tell the length.
capacity_of_no_length(n) == Capacity(1)

initial_capacity_element(n) == Capacity(n)

\* Variant: an input that is no multiple of the rate is not padded.
no_padding(n) == << >>

\* Zeroes up to a multiple of the rate.
padding(n) ==
    LET k == (n + Rate - 1) \div Rate
    IN  [i \in 1 .. k * Rate - n |-> Zero]

Padded(m) == m \o padding(Len(m))

InitialState(n) ==
    [i \in 1 .. Rate + 1 |-> IF i = Rate + 1 THEN initial_capacity_element(n) ELSE Zero]

Filled == \A i \in 1 .. Rate : slots[i] # {}
Some(slot) == CHOOSE x \in slot : TRUE

\* Variant: the slots replace the rate part of the state.
poseidon_sponge_overwriting(st, sl) ==
    Permute([i \in 1 .. Rate + 1 |-> IF i <= Rate THEN Some(sl[i]) ELSE st[i]])

\* The slots are added to the rate part of the state.
poseidon_sponge(st, sl) ==
    Permute([i \in 1 .. Rate + 1 |-> IF i <= Rate THEN Add(st[i], Some(sl[i])) ELSE st[i]])

-----------------------------------------------------------------------------
SpongeInit ==
    /\ message \in Messages
    /\ absorbed = 0
    /\ mode = "absorbing"
    /\ slots = Empty
    /\ sponge_state = InitialState(Len(message))
    /\ output = {}

Free == {i \in 1 .. Rate : slots[i] = {}}

First(S) == CHOOSE i \in S : \A j \in S : i <= j

\* Sponge::absorb: the next element takes the first free slot; full slots are
\* permuted into the state before the element that finds them full.
absorb ==
    /\ mode = "absorbing"
    /\ absorbed < Len(Padded(message))
    /\ LET value == Padded(message)[absorbed + 1]
       IN  \/ /\ Free # {}
              /\ slots' = [slots EXCEPT ![First(Free)] = {value}]
              /\ UNCHANGED sponge_state
           \/ /\ Free = {}
              /\ sponge_state' = poseidon_sponge(sponge_state, slots)
              /\ slots' = [Empty EXCEPT ![1] = {value}]
    /\ absorbed' = absorbed + 1
    /\ UNCHANGED <<message, mode, output>>

\* Sponge::finish_absorbing; a slot that is None would panic.
finish_absorbing ==
    /\ mode = "absorbing"
    /\ absorbed = Len(Padded(message))
    /\ IF Filled
       THEN /\ sponge_state' = poseidon_sponge(sponge_state, slots)
            /\ slots' = [i \in 1 .. Rate |-> {sponge_state'[i]}]
            /\ mode' = "squeezing"
       ELSE mode' = "panicked" /\ UNCHANGED <<sponge_state, slots>>
    /\ UNCHANGED <<message, absorbed, output>>

\* Sponge::squeeze: the first slot that is still there is taken.
squeeze ==
    /\ mode = "squeezing"
    /\ LET i == First((1 .. Rate) \ Free)
       IN  output' = slots[i] /\ slots' = [slots EXCEPT ![i] = {}]
    /\ mode' = "done"
    /\ UNCHANGED <<message, absorbed, sponge_state>>

SpongeNext == absorb \/ finish_absorbing \/ squeeze

SpongeSpec == SpongeInit /\ [][SpongeNext]_sponge_vars

-----------------------------------------------------------------------------
(* Reference: the hash of a message by its blocks of Rate elements.        *)

Blocks(m) == (Len(m) + Rate - 1) \div Rate

Element(m, i) == IF i <= Len(m) THEN m[i] ELSE Zero

\* The state after each block.
StateOf(m) ==
    LET S[k \in Nat] ==
          IF k = 0 THEN [i \in 1 .. Rate + 1 |->
                           IF i <= Rate THEN Zero ELSE initial_capacity_element(Len(m))]
          ELSE Permute([i \in 1 .. Rate + 1 |->
                          IF i <= Rate THEN Add(S[k - 1][i], Element(m, (k - 1) * Rate + i))
                          ELSE S[k - 1][i]])
    IN  S

HashOf(m) == StateOf(m)[Blocks(m)][1]

\* What is permuted for the k-th block.
Permutand(m, k) ==
    [i \in 1 .. Rate + 1 |->
       IF i <= Rate THEN Add(StateOf(m)[k - 1][i], Element(m, (k - 1) * Rate + i))
       ELSE StateOf(m)[k - 1][i]]

\* The hashes of two messages permute different states of which the outputs or
\* the capacities agree, or one that leads to the capacity the other starts with.
Collision(m, n) ==
    \E k \in 1 .. Blocks(m), l \in 1 .. Blocks(n) :
        LET p == Permutand(m, k)
            q == Permutand(n, l)
        IN  \/ /\ p # q
               /\ \E i \in {1, Rate + 1} : Permute(p)[i] = Permute(q)[i]
            \/ Permute(p)[Rate + 1] = Capacity(Len(n))
            \/ Permute(q)[Rate + 1] = Capacity(Len(m))

\* Lengths are elements of their own, and what is added can be told.
FieldLaws ==
    /\ \A j, k \in 1 .. MaxLength : Capacity(j) = Capacity(k) => j = k
    /\ \A m \in Messages : \A k \in 0 .. Blocks(m) - 1, i \in 1 .. Rate, x, y \in Fr :
         Add(StateOf(m)[k][i], x) = Add(StateOf(m)[k][i], y) => x = y

-----------------------------------------------------------------------------
(* Properties.                                                             *)

\* An absorbing sponge lags one block behind: the slots are never emptied
\* before the next element is there, so none is None when they are permuted.
SpongeTypeOK ==
    /\ message \in Messages
    /\ absorbed \in 0 .. Len(Padded(message))
    /\ mode \in {"absorbing", "squeezing", "done"}
    /\ mode = "absorbing" /\ absorbed > 0 =>
          Free = (IF absorbed % Rate = 0 THEN {} ELSE (absorbed % Rate) + 1 .. Rate)

\* The hash is that of the blocks of the message: every element is absorbed
\* once, in its place, and the last block is permuted before the output.
HashOfBlocks == output # {} => output = {HashOf(message)}

\* Messages that differ, in an element or in length alone, have different
\* hashes although both are padded with zeroes: the length is in the capacity.
LengthsSeparated ==
    output # {} => \A m \in Messages : output = {HashOf(m)} => m = message
=============================================================================
