-------------------------- MODULE BindingSignature --------------------------
(***************************************************************************)
(* The binding signature of a bundle, from ethereum/mod.rs: the sum of the *)
(* blinding scalars, the value balance on the wire and the Schnorr scalar, *)
(* with every 256-bit addition and every turn of the two loops a step.     *)
(*                                                                         *)
(* A point of the Baby Jubjub subgroup is a pair of coordinates modulo the *)
(* subgroup order, in the basis G_VALUE, G_RANDOM.  The contract's check,  *)
(* which is not in the repository, is written from the comments of         *)
(* bundle_value_balance_be and sum_rcv_mod_bjj.                            *)
(***************************************************************************)
EXTENDS Integers, Sequences

CONSTANTS Order,       \* the subgroup order
          FrModulus,   \* the order of Fr, of which a rcv is an element
          U64,         \* 2^64
          SignBit,     \* 2^255; a Uint holds less than twice that
          MaxActions,  \* bound of the model
          Nets,        \* old minus new value of an action
          Rcvs,        \* the blinding scalars a wallet draws
          Nonces,      \* the values of r_nonce
          Digests      \* the values of the challenge digest

ASSUME ScalarAssumption ==
    /\ Order \in Nat \ {0} /\ FrModulus \in Nat \ {0}
    /\ U64 \in Nat \ {0} /\ U64 <= Order /\ U64 <= SignBit
    /\ SignBit \in Nat /\ Order <= SignBit /\ FrModulus <= 2 * SignBit
    /\ Rcvs \subseteq 0 .. FrModulus - 1
    /\ Nonces \subseteq 0 .. 2 * SignBit - 1 /\ Digests \subseteq 0 .. 2 * SignBit - 1
    /\ Nets \subseteq -(U64 - 1) .. U64 - 1
    /\ MaxActions \in Nat

\* The subgroup has prime order, and the net values of a bundle cannot add up to it.
ASSUME BindingAssumption ==
    /\ Order > 1 /\ \A d \in 2 .. Order - 1 : Order % d # 0
    /\ (MaxActions + 1) * (U64 - 1) < Order

VARIABLES actions,   \* the net value and the rcv of every action
          balance,   \* valueBalance, as on the wire
          summed,    \* how many rcv sum_rcv_mod_bjj has added
          acc,       \* their sum so far, and then bsk
          nonce, e,  \* r_nonce and the challenge
          mul,       \* the registers of mulmod
          s,         \* the Schnorr scalar
          phase

vars == <<actions, balance, summed, acc, nonce, e, mul, s, phase>>

Uint == 0 .. 2 * SignBit - 1
Scalar == 0 .. Order - 1

\* The + of Uint panics on overflow.
Overflows(x, y) == x + y \notin Uint

reduce_mod_bjj_subgroup(v) == v % Order

bundle_value_balance_be(amount_sats, negative) ==
    amount_sats + (IF negative THEN SignBit ELSE 0)

decode_value_balance_be(vb) == [amount |-> vb % U64, negative |-> vb >= SignBit]

\* Variant: a negative 0 is the order.
value_balance_to_bjj_scalar_of_minus_zero(vb) ==
    LET d == decode_value_balance_be(vb)
    IN  IF ~d.negative THEN d.amount ELSE Order - (d.amount % Order)

value_balance_to_bjj_scalar(vb) ==
    LET d == decode_value_balance_be(vb)
    IN  IF ~d.negative \/ d.amount = 0 THEN d.amount ELSE Order - (d.amount % Order)

-----------------------------------------------------------------------------
Init ==
    /\ actions = << >>
    /\ balance = 0
    /\ summed = 0
    /\ acc = 0
    /\ nonce = 0
    /\ e = 0
    /\ mul = [a |-> 0, b |-> 0, result |-> 0]
    /\ s = 0
    /\ phase = "building"

AddAction(net, rcv) ==
    /\ phase = "building"
    /\ Len(actions) < MaxActions
    /\ actions' = Append(actions, [net |-> net, rcv |-> rcv])
    /\ UNCHANGED <<balance, summed, acc, nonce, e, mul, s, phase>>

\* The wallet declares what the bundle takes from the pool, or puts into it.
Declare(amount_sats, negative) ==
    /\ phase = "building"
    /\ actions # << >>
    /\ balance' = bundle_value_balance_be(amount_sats, negative)
    /\ phase' = "summing"
    /\ UNCHANGED <<actions, summed, acc, nonce, e, mul, s>>

\* Variant: the sum is taken in Fr, as the doc of sum_rcv_mod_bjj warns.
SumInFr ==
    /\ phase = "summing"
    /\ summed < Len(actions)
    /\ acc' = (acc + actions[summed + 1].rcv) % FrModulus
    /\ summed' = summed + 1
    /\ UNCHANGED <<actions, balance, nonce, e, mul, s, phase>>

\* One turn of the loop of sum_rcv_mod_bjj.
Sum ==
    /\ phase = "summing"
    /\ summed < Len(actions)
    /\ LET u == reduce_mod_bjj_subgroup(actions[summed + 1].rcv)
       IN  IF Overflows(acc, u) THEN phase' = "panicked" /\ UNCHANGED <<acc, summed>>
           ELSE /\ acc' = (acc + u) % Order
                /\ summed' = summed + 1
                /\ UNCHANGED phase
    /\ UNCHANGED <<actions, balance, nonce, e, mul, s>>

\* binding_s_scalar_bn254 reduces its inputs and calls mulmod(e, bsk).
Challenge(r, digest) ==
    /\ phase = "summing"
    /\ summed = Len(actions)
    /\ nonce' = r
    /\ e' = reduce_mod_bjj_subgroup(digest)
    /\ mul' = [a |-> e' % Order, b |-> acc % Order, result |-> 0]
    /\ phase' = "multiplying"
    /\ UNCHANGED <<actions, balance, summed, acc, s>>

\* Variant: a is doubled before it is added.
MultiplyDoublingFirst ==
    /\ phase = "multiplying"
    /\ mul.b # 0
    /\ mul' = [a      |-> (mul.a + mul.a) % Order,
               b      |-> mul.b \div 2,
               result |-> IF mul.b % 2 = 1 THEN (mul.result + 2 * mul.a) % Order
                          ELSE mul.result]
    /\ UNCHANGED <<actions, balance, summed, acc, nonce, e, s, phase>>

\* Variant: only the result is reduced.
MultiplyUnreduced ==
    /\ phase = "multiplying"
    /\ mul.b # 0
    /\ IF Overflows(mul.result, mul.a) \/ Overflows(mul.a, mul.a)
       THEN phase' = "panicked" /\ UNCHANGED mul
       ELSE /\ mul' = [a      |-> mul.a + mul.a,
                       b      |-> mul.b \div 2,
                       result |-> IF mul.b % 2 = 1 THEN (mul.result + mul.a) % Order
                                  ELSE mul.result]
            /\ UNCHANGED phase
    /\ UNCHANGED <<actions, balance, summed, acc, nonce, e, s>>

\* One turn of the loop of mulmod.
Multiply ==
    /\ phase = "multiplying"
    /\ mul.b # 0
    /\ IF \/ mul.b % 2 = 1 /\ Overflows(mul.result, mul.a)
          \/ Overflows(mul.a, mul.a)
       THEN phase' = "panicked" /\ UNCHANGED mul
       ELSE /\ mul' = [a      |-> (mul.a + mul.a) % Order,
                       b      |-> mul.b \div 2,
                       result |-> IF mul.b % 2 = 1 THEN (mul.result + mul.a) % Order
                                  ELSE mul.result]
            /\ UNCHANGED phase
    /\ UNCHANGED <<actions, balance, summed, acc, nonce, e, s>>

\* s = (r + e bsk) mod the order.
Sign ==
    /\ phase = "multiplying"
    /\ mul.b = 0
    /\ LET r == nonce % Order
       IN  IF Overflows(r, mul.result) THEN phase' = "panicked" /\ UNCHANGED s
           ELSE s' = (r + mul.result) % Order /\ phase' = "signed"
    /\ UNCHANGED <<actions, balance, summed, acc, nonce, e, mul>>

Next ==
    \/ \E net \in Nets, rcv \in Rcvs : AddAction(net, rcv)
    \/ \E amount_sats \in 0 .. U64 - 1, negative \in BOOLEAN : Declare(amount_sats, negative)
    \/ Sum
    \/ \E r \in Nonces, digest \in Digests : Challenge(r, digest)
    \/ Multiply
    \/ Sign

Spec == Init /\ [][Next]_vars

-----------------------------------------------------------------------------
(* The contract.                                                           *)

TotalOf(f(_)) ==
    LET T[i \in 0 .. Len(actions)] == IF i = 0 THEN 0 ELSE T[i - 1] + f(actions[i])
    IN  T[Len(actions)]

Net == LET net(a) == a.net IN TotalOf(net)
Blinding == LET rcv(a) == a.rcv IN TotalOf(rcv)

\* The verification key: the sum of the commitments without the declared value.
bvk == [value  |-> (Net - value_balance_to_bjj_scalar(balance)) % Order,
        random |-> Blinding % Order]

\* s G_RANDOM = R + e bvk, coordinate by coordinate.
Verified ==
    /\ 0 = (e * bvk.value) % Order
    /\ s = (nonce + e * bvk.random) % Order

-----------------------------------------------------------------------------
(* Properties.                                                             *)

\* The scalars are canonical, that of the balance as well (a negative 0 is 0, not
\* the order), and the words on the wire are 256 bits wide.
TypeOK ==
    /\ Len(actions) <= MaxActions
    /\ balance \in Uint /\ nonce \in Uint
    /\ value_balance_to_bjj_scalar(balance) \in Scalar
    /\ acc \in Scalar /\ e \in Scalar /\ s \in Scalar
    /\ summed \in 0 .. Len(actions)
    /\ mul \in [a : Scalar, b : Scalar, result : Scalar]
    /\ phase \in {"building", "summing", "multiplying", "signed", "panicked"}

\* No 256-bit addition overflows, whatever is summed and multiplied.
NeverPanics == phase # "panicked"

\* What mulmod has left to add keeps the product of the challenge and the key.
MulmodExact ==
    phase \in {"multiplying", "signed"} =>
        (mul.result + mul.a * mul.b) % Order = (e * acc) % Order

\* Unless the challenge is 0, a signature verifies exactly if the balance on
\* the wire is what the actions add up to, in amount and in sign.
SignatureBindsBalance ==
    phase = "signed" /\ e # 0 =>
        LET d == decode_value_balance_be(balance)
        IN  Verified <=> Net = (IF d.negative THEN - d.amount ELSE d.amount)

\* What the doc of BundleCalldataArgs::value_balance says: v on the wire for an
\* unshield, and the field element -v for a shield.
DocumentedBalance ==
    LET d == decode_value_balance_be(balance)
    IN  d.amount # 0 =>
            balance = (IF d.negative THEN FrModulus - d.amount ELSE d.amount)
=============================================================================
