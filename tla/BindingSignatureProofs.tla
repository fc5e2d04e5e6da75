----------------------- MODULE BindingSignatureProofs -----------------------
(***************************************************************************)
(* Theorems about BindingSignature, for every order, field, word width and *)
(* bundle that its assumptions allow, and about the message it signs.      *)
(***************************************************************************)
EXTENDS BindingSignature, Sighash, SequenceTheorems, TLAPS

SumStep(xs, n, prev) == prev + xs[n + 1]
SumRec == INSTANCE NatRecursion WITH Step <- SumStep

-----------------------------------------------------------------------------
(* The inductive invariant.                                                *)

Action == [net : Nets, rcv : Rcvs]

IInv ==
    /\ actions \in Seq(Action)
    /\ TypeOK
    /\ NeverPanics
    /\ MulmodExact

\* Sums of two scalars are words, and remainders are scalars.
LEMMA Words ==
    /\ \A x \in Int : x % Order \in Scalar
    /\ \A x, y \in Scalar : ~Overflows(x, y)
    /\ Scalar \subseteq Uint /\ Scalar \subseteq Nat /\ Uint \subseteq Nat
    /\ 0 \in Scalar
<1>1. \A x \in Int : x % Order \in Scalar
  BY ScalarAssumption, SumRec!ModEquation DEF Scalar
<1>2. \A x, y \in Scalar : x + y \in Uint
  BY ScalarAssumption DEF Scalar, Uint
<1> QED
  BY <1>1, <1>2, ScalarAssumption DEF Scalar, Uint, Overflows

\* The scalar of a balance is canonical, whatever word it is decoded from.
LEMMA BalanceScalar == \A vb \in Uint : value_balance_to_bjj_scalar(vb) \in Scalar
<1> TAKE vb \in Uint
<1> DEFINE d == decode_value_balance_be(vb)
           amount == vb % U64
<1>1. amount \in 0 .. U64 - 1
  <2>1. vb \in Int /\ U64 \in Nat \ {0}
    BY ScalarAssumption, Words
  <2> QED
    BY <2>1, SumRec!ModEquation
<1>2. d.amount = amount
  BY DEF decode_value_balance_be
<1> HIDE DEF amount, d
<1>3. amount \in Scalar /\ amount % Order = amount
  BY <1>1, ScalarAssumption DEF Scalar
<1>4. amount # 0 => Order - amount \in Scalar
  BY <1>3, ScalarAssumption DEF Scalar
<1> QED
  BY <1>2, <1>3, <1>4 DEF value_balance_to_bjj_scalar, d

\* The initial state satisfies the inductive invariant.
LEMMA InitIInv == Init => IInv
<1> SUFFICES ASSUME Init PROVE IInv
  OBVIOUS
<1>1. 0 \in Scalar /\ 0 \in Uint
  BY Words
<1>2. TypeOK
  BY <1>1, BalanceScalar, ScalarAssumption DEF Init, TypeOK
<1> QED
  BY <1>2 DEF Init, IInv, NeverPanics, MulmodExact

\* One turn of the loop keeps what is left of the product: the bit that b loses
\* is paid into the result, while a doubles.
LEMMA TurnExact ==
    ASSUME NEW a \in Scalar, NEW b \in Scalar, NEW r \in Scalar
    PROVE  ((IF b % 2 = 1 THEN (r + a) % Order ELSE r)
              + ((a + a) % Order) * (b \div 2)) % Order = (r + a * b) % Order
<1> DEFINE q == b \div 2
<1>1. a \in Nat /\ b \in Nat /\ r \in Nat /\ r % Order = r
  BY ScalarAssumption DEF Scalar
<1>2. q \in Nat /\ b = 2 * q + (b % 2) /\ b % 2 \in {0, 1}
  BY <1>1
<1> HIDE DEF q
<1>3. (a + a) * q = a * (2 * q)
  BY <1>1, <1>2
<1> DEFINE A == a + a
           R == r + a
<1>4. A \in Int /\ R \in Int /\ r \in Int /\ q \in Int /\ Order \in Nat \ {0}
  BY <1>1, <1>2, ScalarAssumption
<1>5. /\ ((R % Order) + (A % Order) * q) % Order = (R + A * q) % Order
      /\ ((r % Order) + (A % Order) * q) % Order = (r + A * q) % Order
  <2> HIDE DEF A, R
  <2>1. \A x \in Int : ((x % Order) + (A % Order) * q) % Order = (x + A * q) % Order
    BY <1>4, SumRec!ModAbsorb, ZenonT(30)
  <2> QED
    BY <1>4, <2>1, ZenonT(30)
<1>6. CASE b % 2 = 1
  <2>1. (r + a) + (a + a) * q = r + a * b
    <3>1. a * b = a * (2 * q) + a
      BY <1>1, <1>2, <1>6
    <3> QED
      BY <3>1, <1>1, <1>2, <1>3
  <2> QED
    BY <1>5, <1>6, <2>1 DEF q
<1>7. CASE b % 2 = 0
  <2>1. r + (a + a) * q = r + a * b
    BY <1>1, <1>2, <1>3, <1>7
  <2> QED
    BY <1>1, <1>5, <1>7, <2>1 DEF q
<1> QED
  BY <1>2, <1>6, <1>7

\* A scalar is its own remainder.
LEMMA ScalarMod == \A x \in Scalar : x % Order = x
  BY ScalarAssumption DEF Scalar

\* Every step keeps the inductive invariant.
LEMMA NextIInv == IInv /\ [Next]_vars => IInv'
<1> SUFFICES ASSUME IInv, [Next]_vars PROVE IInv'
  OBVIOUS
<1>0. /\ actions \in Seq(Action) /\ Len(actions) <= MaxActions /\ Len(actions) \in Nat
      /\ balance \in Uint /\ nonce \in Uint
      /\ value_balance_to_bjj_scalar(balance) \in Scalar
      /\ acc \in Scalar /\ e \in Scalar /\ s \in Scalar
      /\ summed \in 0 .. Len(actions)
      /\ mul \in [a : Scalar, b : Scalar, result : Scalar]
      /\ phase \in {"building", "summing", "multiplying", "signed"}
      /\ MulmodExact
  BY DEF IInv, TypeOK, NeverPanics
<1>1. ASSUME NEW net \in Nets, NEW rcv \in Rcvs, AddAction(net, rcv) PROVE IInv'
  <2>1. [net |-> net, rcv |-> rcv] \in Action
    BY DEF Action
  <2>2. /\ actions' \in Seq(Action) /\ Len(actions') = Len(actions) + 1
        /\ Len(actions') <= MaxActions
    BY <1>0, <1>1, <2>1, ScalarAssumption DEF AddAction
  <2>3. summed' \in 0 .. Len(actions')
    BY <1>0, <1>1, <2>2 DEF AddAction
  <2> QED
    BY <1>0, <1>1, <2>2, <2>3 DEF AddAction, IInv, TypeOK, NeverPanics, MulmodExact
<1>2. ASSUME NEW amount_sats \in 0 .. U64 - 1, NEW negative \in BOOLEAN,
             Declare(amount_sats, negative)
      PROVE  IInv'
  <2>1. balance' \in Uint
    BY <1>2, ScalarAssumption DEF Declare, bundle_value_balance_be, Uint
  <2>2. value_balance_to_bjj_scalar(balance') \in Scalar
    BY <2>1, BalanceScalar
  <2> QED
    BY <1>0, <1>2, <2>1, <2>2 DEF Declare, IInv, TypeOK, NeverPanics, MulmodExact
<1>3. CASE Sum
  <2> DEFINE rcv == actions[summed + 1].rcv
             u == reduce_mod_bjj_subgroup(rcv)
  <2>1. summed + 1 \in 1 .. Len(actions)
    BY <1>0, <1>3 DEF Sum
  <2>2. rcv \in Rcvs
    <3>1. actions[summed + 1] \in Action
      BY <1>0, <2>1
    <3> QED
      BY <3>1 DEF Action
  <2> HIDE DEF rcv
  <2>3. u \in Scalar
    <3>1. rcv \in Int
      BY <2>2, ScalarAssumption
    <3> QED
      BY <3>1, Words DEF reduce_mod_bjj_subgroup
  <2> HIDE DEF u
  <2>4. ~Overflows(acc, u) /\ (acc + u) % Order \in Scalar
    BY <1>0, <2>3, Words, acc + u \in Int
  <2>5. acc' \in Scalar /\ summed' \in 0 .. Len(actions) /\ phase' = phase
    BY <1>0, <1>3, <2>1, <2>4 DEF Sum, u, rcv
  <2>6. phase' = "summing" /\ UNCHANGED <<actions, balance, nonce, e, mul, s>>
    BY <1>3, <2>5 DEF Sum
  <2> QED
    BY <1>0, <2>5, <2>6 DEF IInv, TypeOK, NeverPanics, MulmodExact
<1>4. ASSUME NEW r \in Nonces, NEW digest \in Digests, Challenge(r, digest) PROVE IInv'
  <2>1. e' \in Scalar /\ nonce' \in Uint
    <3>1. digest \in Int /\ r \in Uint
      BY ScalarAssumption DEF Uint
    <3>2. digest % Order \in Scalar
      BY <3>1, Words
    <3> QED
      BY <1>4, <3>1, <3>2 DEF Challenge, reduce_mod_bjj_subgroup
  <2>2. mul' = [a |-> e', b |-> acc, result |-> 0]
    BY <1>0, <1>4, <2>1, ScalarMod DEF Challenge
  <2>3. /\ phase' = "multiplying" /\ acc' = acc
        /\ UNCHANGED <<actions, balance, summed, s>>
    BY <1>4 DEF Challenge
  <2>4. MulmodExact'
    <3>1. 0 + e' * acc = e' * acc
      BY <1>0, <2>1, Words
    <3> QED
      BY <2>2, <2>3, <3>1 DEF MulmodExact
  <2> QED
    BY <1>0, <2>1, <2>2, <2>3, <2>4, Words DEF IInv, TypeOK, NeverPanics
<1>5. CASE Multiply
  <2> DEFINE a == mul.a
             b == mul.b
             r == mul.result
  <2>1. a \in Scalar /\ b \in Scalar /\ r \in Scalar
    BY <1>0
  <2>2. ~Overflows(r, a) /\ ~Overflows(a, a)
    BY <2>1, Words
  <2>3. /\ mul' = [a      |-> (a + a) % Order,
                   b      |-> b \div 2,
                   result |-> IF b % 2 = 1 THEN (r + a) % Order ELSE r]
        /\ phase' = "multiplying" /\ phase = "multiplying"
        /\ UNCHANGED <<actions, balance, summed, acc, nonce, e, s>>
    BY <1>5, <2>2 DEF Multiply
  <2>4. mul' \in [a : Scalar, b : Scalar, result : Scalar]
    <3> HIDE DEF a, r
    <3>0. a + a \in Int /\ r + a \in Int
      BY <2>1, Words
    <3>1. (a + a) % Order \in Scalar /\ (r + a) % Order \in Scalar
      BY <3>0, Words
    <3>2. b \div 2 \in Scalar
      BY <2>1, ScalarAssumption DEF Scalar
    <3> QED
      BY <2>1, <2>3, <3>1, <3>2
  <2>5. MulmodExact'
    <3>1. (mul'.result + mul'.a * mul'.b) % Order = (r + a * b) % Order
      BY <2>1, <2>3, TurnExact
    <3>2. (r + a * b) % Order = (e * acc) % Order
      BY <1>0, <2>3 DEF MulmodExact
    <3> QED
      BY <2>3, <3>1, <3>2 DEF MulmodExact
  <2> QED
    BY <1>0, <2>3, <2>4, <2>5 DEF IInv, TypeOK, NeverPanics
<1>6. CASE Sign
  <2> DEFINE r == nonce % Order
  <2>1. r \in Scalar /\ mul.result \in Scalar
    BY <1>0, Words
  <2> HIDE DEF r
  <2>2. ~Overflows(r, mul.result) /\ (r + mul.result) % Order \in Scalar
    <3> DEFINE p == mul.result
    <3>1. p \in Scalar
      BY <2>1
    <3> HIDE DEF p
    <3>2. r + p \in Int
      BY <2>1, <3>1, Words
    <3>3. ~Overflows(r, p) /\ (r + p) % Order \in Scalar
      BY <2>1, <3>1, <3>2, Words
    <3> QED
      BY <3>3 DEF p
  <2>3. /\ s' = (r + mul.result) % Order /\ phase' = "signed" /\ phase = "multiplying"
        /\ UNCHANGED <<actions, balance, summed, acc, nonce, e, mul>>
    BY <1>6, <2>2 DEF Sign, r
  <2> QED
    BY <1>0, <2>2, <2>3 DEF IInv, TypeOK, NeverPanics, MulmodExact
<1>7. CASE UNCHANGED vars
  BY <1>7 DEF vars, IInv, TypeOK, NeverPanics, MulmodExact
<1> QED
  BY <1>1, <1>2, <1>3, <1>4, <1>5, <1>6, <1>7 DEF Next

\* The inductive invariant holds in every reachable state.
LEMMA InductiveInvariant == Spec => []IInv
<1> QED
  BY InitIInv, NextIInv, PTL DEF Spec

-----------------------------------------------------------------------------
\* Every scalar that is computed is canonical and every word fits 256 bits: the
\* types of the state, for every order, field and word width.
THEOREM TypeCorrect == Spec => []TypeOK
<1>1. IInv => TypeOK
  BY DEF IInv
<1> QED
  BY <1>1, InductiveInvariant, PTL

\* sum_rcv_mod_bjj, mulmod and binding_s_scalar_bn254 never overflow a word,
\* because an operand is reduced before it is added.
THEOREM NoOverflow == Spec => []NeverPanics
<1>1. IInv => NeverPanics
  BY DEF IInv
<1> QED
  BY <1>1, InductiveInvariant, PTL

\* In every turn of its loop, mulmod still has the product of the challenge and
\* the key to give; when b is 0, the result is that product.
THEOREM ProductExact == Spec => []MulmodExact
<1>1. IInv => MulmodExact
  BY DEF IInv
<1> QED
  BY <1>1, InductiveInvariant, PTL

-----------------------------------------------------------------------------
(* Sums.                                                                   *)

\* The sum of the first n of a sequence of numbers.
SumTo(xs) == SumRec!Rec(xs, 0)

\* It starts at 0 and adds one number at a time.
LEMMA SumEquation ==
    ASSUME NEW xs
    PROVE  /\ SumTo(xs)[0] = 0
           /\ \A n \in Nat : SumTo(xs)[n + 1] = SumTo(xs)[n] + xs[n + 1]
<1> DEFINE R == SumTo(xs)
<1>1. R = [n \in Nat |-> IF n = 0 THEN 0 ELSE R[n - 1] + xs[(n - 1) + 1]]
  BY SumRec!RecEquation DEF SumTo, SumStep
<1> HIDE DEF R
<1>2. ASSUME NEW n \in Nat PROVE R[n + 1] = R[n] + xs[n + 1]
  <2>1. n + 1 \in Nat /\ n + 1 # 0 /\ (n + 1) - 1 = n
    OBVIOUS
  <2> QED
    BY <1>1, <2>1
<1>3. R[0] = 0
  BY <1>1
<1> QED
  BY <1>2, <1>3 DEF R

\* A sum of integers is an integer, and no larger in size than they allow.
LEMMA SumBound ==
    ASSUME NEW xs, NEW n \in Nat, NEW b \in Nat, \A i \in 1 .. n : xs[i] \in - b .. b
    PROVE  \A k \in 0 .. n : SumTo(xs)[k] \in Int /\ - (k * b) <= SumTo(xs)[k]
                             /\ SumTo(xs)[k] <= k * b
<1> DEFINE R == SumTo(xs)
           S == {k \in Nat : k <= n => R[k] \in Int /\ - (k * b) <= R[k] /\ R[k] <= k * b}
<1>1. R[0] = 0 /\ \A k \in Nat : R[k + 1] = R[k] + xs[k + 1]
  BY SumEquation
<1> HIDE DEF R
<1>2. 0 \in S
  BY <1>1
<1>3. ASSUME NEW k \in Nat, k \in S PROVE k + 1 \in S
  <2> SUFFICES ASSUME k + 1 <= n
               PROVE  /\ R[k + 1] \in Int /\ - ((k + 1) * b) <= R[k + 1]
                      /\ R[k + 1] <= (k + 1) * b
    OBVIOUS
  <2> DEFINE p == k * b
             x == xs[k + 1]
  <2>1. x \in Int /\ - b <= x /\ x <= b
    BY k + 1 \in 1 .. n
  <2>2. p \in Nat /\ (k + 1) * b = p + b
    OBVIOUS
  <2>3. R[k] \in Int /\ - p <= R[k] /\ R[k] <= p
    BY <1>3
  <2>4. R[k + 1] = R[k] + x
    BY <1>1
  <2> HIDE DEF p, x
  <2> QED
    BY <2>1, <2>2, <2>3, <2>4
<1> HIDE DEF S
<1>4. \A k \in Nat : k \in S
  BY <1>2, <1>3, SumRec!SetInduction
<1> QED
  BY <1>4 DEF S, R

\* What adds one number at a time up to the n-th is the sum of n.
LEMMA SumUnique ==
    ASSUME NEW xs, NEW n \in Nat, NEW T, T[0] = 0,
           \A i \in 0 .. n - 1 : T[i + 1] = T[i] + xs[i + 1]
    PROVE  T[n] = SumTo(xs)[n]
<1> DEFINE R == SumTo(xs)
           S == {k \in Nat : k <= n => T[k] = R[k]}
<1>1. R[0] = 0 /\ \A k \in Nat : R[k + 1] = R[k] + xs[k + 1]
  BY SumEquation
<1> HIDE DEF R
<1>2. 0 \in S
  BY <1>1
<1>3. ASSUME NEW k \in Nat, k \in S PROVE k + 1 \in S
  <2> SUFFICES ASSUME k + 1 <= n PROVE T[k + 1] = R[k + 1]
    OBVIOUS
  <2>1. k \in 0 .. n - 1 /\ T[k] = R[k]
    BY <1>3
  <2> QED
    BY <1>1, <2>1
<1> HIDE DEF S
<1>4. \A k \in Nat : k \in S
  BY <1>2, <1>3, SumRec!SetInduction
<1> QED
  BY <1>4 DEF S, R

\* The net values and the blinding scalars of a sequence of actions.
NetsOf(as) == [i \in 1 .. Len(as) |-> as[i].net]
RcvsOf(as) == [i \in 1 .. Len(as) |-> as[i].rcv]

\* The recursive totals of the contract's check are these sums.
LEMMA Totals ==
    ASSUME Len(actions) \in Nat
    PROVE  /\ Net = SumTo(NetsOf(actions))[Len(actions)]
           /\ Blinding = SumTo(RcvsOf(actions))[Len(actions)]
<1> DEFINE L == Len(actions)
<1>1. Net = SumTo(NetsOf(actions))[L]
  <2> DEFINE xs == NetsOf(actions)
             g == [i \in 0 .. L |-> SumTo(xs)[i]]
             Eq(T) == T = [i \in 0 .. L |-> IF i = 0 THEN 0 ELSE T[i - 1] + actions[i].net]
             A == CHOOSE T : Eq(T)
  <2>1. \A i \in 1 .. L : xs[i] = actions[i].net
    BY DEF NetsOf
  <2> HIDE DEF xs
  <2>2. Eq(g)
    <3> SUFFICES ASSUME NEW i \in 0 .. L
                 PROVE  SumTo(xs)[i] = IF i = 0 THEN 0 ELSE g[i - 1] + actions[i].net
      OBVIOUS
    <3>1. CASE i = 0
      BY <3>1, SumEquation
    <3>2. CASE i # 0
      <4>1. i - 1 \in Nat /\ i - 1 \in 0 .. L /\ (i - 1) + 1 = i /\ i \in 1 .. L
        BY <3>2
      <4> QED
        BY <2>1, <3>2, <4>1, SumEquation
    <3> QED
      BY <3>1, <3>2
  <2>3. Eq(A)
    <3> HIDE DEF Eq, g
    <3> QED
      BY <2>2
  <2>4. Net = A[L]
    BY DEF Net, TotalOf
  <2> HIDE DEF A
  <2>5. A[0] = 0 /\ \A i \in 0 .. L - 1 : A[i + 1] = A[i] + xs[i + 1]
    <3>1. A[0] = 0
      BY <2>3
    <3>2. ASSUME NEW i \in 0 .. L - 1 PROVE A[i + 1] = A[i] + xs[i + 1]
      <4>1. i + 1 \in 1 .. L /\ i + 1 \in 0 .. L /\ (i + 1) - 1 = i /\ i + 1 # 0
        OBVIOUS
      <4> QED
        BY <2>1, <2>3, <4>1
    <3> QED
      BY <3>1, <3>2
  <2> QED
    BY <2>4, <2>5, SumUnique DEF xs
<1>2. Blinding = SumTo(RcvsOf(actions))[L]
  <2> DEFINE xs == RcvsOf(actions)
             g == [i \in 0 .. L |-> SumTo(xs)[i]]
             Eq(T) == T = [i \in 0 .. L |-> IF i = 0 THEN 0 ELSE T[i - 1] + actions[i].rcv]
             A == CHOOSE T : Eq(T)
  <2>1. \A i \in 1 .. L : xs[i] = actions[i].rcv
    BY DEF RcvsOf
  <2> HIDE DEF xs
  <2>2. Eq(g)
    <3> SUFFICES ASSUME NEW i \in 0 .. L
                 PROVE  SumTo(xs)[i] = IF i = 0 THEN 0 ELSE g[i - 1] + actions[i].rcv
      OBVIOUS
    <3>1. CASE i = 0
      BY <3>1, SumEquation
    <3>2. CASE i # 0
      <4>1. i - 1 \in Nat /\ i - 1 \in 0 .. L /\ (i - 1) + 1 = i /\ i \in 1 .. L
        BY <3>2
      <4> QED
        BY <2>1, <3>2, <4>1, SumEquation
    <3> QED
      BY <3>1, <3>2
  <2>3. Eq(A)
    <3> HIDE DEF Eq, g
    <3> QED
      BY <2>2
  <2>4. Blinding = A[L]
    BY DEF Blinding, TotalOf
  <2> HIDE DEF A
  <2>5. A[0] = 0 /\ \A i \in 0 .. L - 1 : A[i + 1] = A[i] + xs[i + 1]
    <3>1. A[0] = 0
      BY <2>3
    <3>2. ASSUME NEW i \in 0 .. L - 1 PROVE A[i + 1] = A[i] + xs[i + 1]
      <4>1. i + 1 \in 1 .. L /\ i + 1 \in 0 .. L /\ (i + 1) - 1 = i /\ i + 1 # 0
        OBVIOUS
      <4> QED
        BY <2>1, <2>3, <4>1
    <3> QED
      BY <3>1, <3>2
  <2> QED
    BY <2>4, <2>5, SumUnique DEF xs
<1> QED
  BY <1>1, <1>2

-----------------------------------------------------------------------------
(* A field has no zero divisors.                                           *)

\* A set of numbers that is not empty has a smallest one.
LEMMA Smallest ==
    ASSUME NEW S \in SUBSET Nat, S # {}
    PROVE  \E k \in S : \A j \in S : k <= j
<1>1. SUFFICES ASSUME \A k \in S : \E j \in S : j < k PROVE FALSE
  OBVIOUS
<1> DEFINE N == {n \in Nat : \A j \in S : n <= j}
<1>2. 0 \in N
  OBVIOUS
<1>3. ASSUME NEW n \in Nat, n \in N PROVE n + 1 \in N
  <2>1. n \notin S
    BY <1>1, <1>3
  <2> QED
    BY <1>3, <2>1
<1> HIDE DEF N
<1>4. \A n \in Nat : n \in N
  BY <1>2, <1>3, SumRec!SetInduction
<1>5. PICK k \in S : TRUE
  OBVIOUS
<1>6. k + 1 \in N
  BY <1>4
<1> QED
  BY <1>6 DEF N

\* A multiple of the divisor leaves no remainder, and nothing else does.
LEMMA Multiples ==
    ASSUME NEW m \in Nat \ {0}
    PROVE  /\ \A c \in Int : (m * c) % m = 0
           /\ \A x \in Int : x % m = 0 => x \div m \in Int /\ x = m * (x \div m)
<1>1. ASSUME NEW c \in Int PROVE (m * c) % m = 0
  <2>1. (0 + m * c) % m = 0 % m
    BY SumRec!ModShift
  <2>2. 0 + m * c = m * c /\ 0 % m = 0
    OBVIOUS
  <2> QED
    BY <2>1, <2>2
<1>2. ASSUME NEW x \in Int, x % m = 0 PROVE x \div m \in Int /\ x = m * (x \div m)
  <2>1. x \div m \in Int /\ x = m * (x \div m) + (x % m)
    BY SumRec!ModEquation
  <2> DEFINE q == x \div m
  <2> HIDE DEF q
  <2>2. q \in Int /\ x = m * q + 0
    BY <1>2, <2>1 DEF q
  <2>3. x = m * q
    BY <2>2
  <2> QED
    BY <2>2, <2>3 DEF q
<1> QED
  BY <1>1, <1>2

\* A prime divides a product only if it divides a factor: the smallest number that
\* makes x a multiple would leave a smaller one as the remainder of the prime.
LEMMA NoZeroDivisors ==
    ASSUME NEW p \in Nat, p > 1, \A d \in 2 .. p - 1 : p % d # 0,
           NEW f \in 1 .. p - 1, NEW x \in Int, (f * x) % p = 0
    PROVE  x % p = 0
<1> DEFINE S == {k \in 1 .. p - 1 : (k * x) % p = 0}
<1>1. PICK k \in S : \A j \in S : k <= j
  <2>1. S \in SUBSET Nat /\ f \in S
    OBVIOUS
  <2> HIDE DEF S
  <2> QED
    BY <2>1, Smallest
<1>2. k \in 1 .. p - 1 /\ (k * x) % p = 0 /\ p \in Nat \ {0}
  OBVIOUS
<1>3. CASE k = 1
  <2>1. k * x = x
    BY <1>3
  <2> QED
    BY <1>2, <2>1
<1>4. CASE k # 1
  <2> DEFINE q == p \div k
             r == p % k
             c == (k * x) \div p
  <2>1. r \in 0 .. k - 1 /\ q \in Int /\ p = k * q + r /\ r # 0
    <3>1. k \in Nat \ {0} /\ k \in 2 .. p - 1 /\ p \in Int
      BY <1>2, <1>4
    <3> QED
      BY <3>1, SumRec!ModEquation
  <2>2. c \in Int /\ k * x = p * c
    <3>1. k * x \in Int
      BY <1>2
    <3> QED
      BY <1>2, <3>1, Multiples
  <2> HIDE DEF q, r, c
  <2>3. r * x = p * (x - c * q)
    <3>1. r = p - k * q
      BY <1>2, <2>1
    <3>2. r * x = p * x - (k * q) * x
      BY <1>2, <2>1, <3>1
    <3>3. (k * q) * x = (k * x) * q
      BY <1>2, <2>1
    <3>4. (p * c) * q = p * (c * q)
      BY <1>2, <2>1, <2>2
    <3>5. p * x - p * (c * q) = p * (x - c * q)
      BY <1>2, <2>1, <2>2
    <3> QED
      BY <2>2, <3>2, <3>3, <3>4, <3>5
  <2>4. (r * x) % p = 0
    <3> DEFINE y == x - c * q
    <3>1. y \in Int
      BY <2>1, <2>2
    <3> HIDE DEF y
    <3>2. (p * y) % p = 0
      BY <1>2, <3>1, Multiples
    <3> QED
      BY <2>3, <3>2 DEF y
  <2>5. r \in 1 .. p - 1 /\ r < k
    BY <1>2, <2>1
  <2> QED
    BY <1>1, <1>2, <2>4, <2>5
<1> QED
  BY <1>3, <1>4

-----------------------------------------------------------------------------
(* The key and the signature.                                              *)

\* What the loop of sum_rcv_mod_bjj has added so far, and what is signed with.
KeyInv ==
    /\ phase = "building" => summed = 0
    /\ acc = SumTo(RcvsOf(actions))[summed] % Order
    /\ phase \in {"multiplying", "signed"} => summed = Len(actions)
    /\ phase = "signed" => mul.b = 0 /\ s = ((nonce % Order) + mul.result) % Order

\* It holds initially, of an empty sum.
LEMMA InitKeyInv == Init => KeyInv
<1> SUFFICES ASSUME Init PROVE KeyInv
  OBVIOUS
<1>1. SumTo(RcvsOf(actions))[0] = 0
  BY SumEquation
<1>2. 0 % Order = 0
  BY ScalarAssumption
<1> QED
  BY <1>1, <1>2 DEF Init, KeyInv

\* Every step keeps it.
LEMMA NextKeyInv == IInv /\ KeyInv /\ [Next]_vars => KeyInv'
<1> SUFFICES ASSUME IInv, KeyInv, [Next]_vars PROVE KeyInv'
  OBVIOUS
<1>0. /\ actions \in Seq(Action) /\ Len(actions) \in Nat
      /\ acc \in Scalar /\ summed \in 0 .. Len(actions)
      /\ mul \in [a : Scalar, b : Scalar, result : Scalar] /\ nonce \in Uint
      /\ acc = SumTo(RcvsOf(actions))[summed] % Order
  BY DEF IInv, TypeOK, KeyInv
<1>1. ASSUME NEW net \in Nets, NEW rcv \in Rcvs, AddAction(net, rcv) PROVE KeyInv'
  <2>1. phase = "building" /\ phase' = phase /\ summed = 0 /\ summed' = 0 /\ acc' = acc
    BY <1>1 DEF AddAction, KeyInv
  <2>2. SumTo(RcvsOf(actions'))[0] = 0 /\ SumTo(RcvsOf(actions))[0] = 0
    BY SumEquation
  <2> QED
    BY <1>0, <2>1, <2>2 DEF KeyInv
<1>2. ASSUME NEW amount_sats \in 0 .. U64 - 1, NEW negative \in BOOLEAN,
             Declare(amount_sats, negative)
      PROVE  KeyInv'
  BY <1>2 DEF Declare, KeyInv
<1>3. CASE Sum
  <2> DEFINE xs == RcvsOf(actions)
             x == xs[summed + 1]
             B == SumTo(xs)[summed]
             u == x % Order
  <2>1. summed + 1 \in 1 .. Len(actions) /\ summed \in Nat /\ phase = "summing"
    BY <1>0, <1>3 DEF Sum
  <2>2. x \in Rcvs /\ x = actions[summed + 1].rcv
    <3>1. actions[summed + 1] \in Action
      BY <1>0, <2>1
    <3> QED
      BY <2>1, <3>1 DEF Action, RcvsOf
  <2>3. x \in Int /\ u \in Scalar /\ u \in Int
    <3> HIDE DEF x
    <3>1. x \in Int
      BY <2>2, ScalarAssumption
    <3>2. u \in Scalar
      BY <3>1, Words
    <3> HIDE DEF u
    <3> QED
      BY <3>1, <3>2, Words
  <2>4. B \in Int /\ SumTo(xs)[summed + 1] = B + x
    <3>1. \A i \in 1 .. Len(actions) : xs[i] \in - (FrModulus - 1) .. FrModulus - 1
      <4> TAKE i \in 1 .. Len(actions)
      <4>1. actions[i] \in Action
        BY <1>0
      <4>2. xs[i] \in Rcvs
        BY <4>1 DEF Action, RcvsOf
      <4>3. \A y \in Rcvs : y \in - (FrModulus - 1) .. FrModulus - 1
        BY ScalarAssumption
      <4> QED
        BY <4>2, <4>3
    <3> HIDE DEF xs
    <3>2. FrModulus - 1 \in Nat
      BY ScalarAssumption
    <3>3. B \in Int
      BY <1>0, <3>1, <3>2, SumBound
    <3> QED
      BY <2>1, <3>3, SumEquation
  <2> HIDE DEF xs, x, B
  <2>5. acc' = (acc + u) % Order /\ summed' = summed + 1 /\ phase' = "summing"
        /\ actions' = actions
    <3>1. ~Overflows(acc, u)
      BY <1>0, <2>3, Words
    <3> QED
      BY <1>3, <2>1, <2>2, <3>1 DEF Sum, reduce_mod_bjj_subgroup
  <2>6. (acc + u) % Order = (B + x) % Order
    <3>1. acc = B % Order
      BY <1>0 DEF B, xs
    <3>2. ((B % Order) + (x % Order)) % Order = (B + x) % Order
      BY <2>3, <2>4, ScalarAssumption, SumRec!ModSum
    <3> QED
      BY <3>1, <3>2
  <2>7. acc' = SumTo(RcvsOf(actions'))[summed'] % Order
    BY <2>4, <2>5, <2>6 DEF xs
  <2> QED
    BY <2>5, <2>7 DEF KeyInv
<1>4. ASSUME NEW r \in Nonces, NEW digest \in Digests, Challenge(r, digest) PROVE KeyInv'
  BY <1>4 DEF Challenge, KeyInv
<1>5. CASE Multiply
  <2>1. phase' # "signed" /\ phase = "multiplying"
        /\ UNCHANGED <<actions, summed, acc>>
    BY <1>5 DEF Multiply
  <2>2. phase' # "building"
    BY <1>5, <2>1 DEF Multiply
  <2> QED
    BY <2>1, <2>2 DEF KeyInv
<1>6. CASE Sign
  <2> DEFINE r == nonce % Order
             p == mul.result
  <2>1. r \in Scalar /\ p \in Scalar
    <3>1. nonce \in Int
      BY <1>0, Words
    <3> QED
      BY <1>0, <3>1, Words
  <2>2. ~Overflows(r, p)
    <3> HIDE DEF r, p
    <3> QED
      BY <2>1, Words
  <2>3. s' = (r + p) % Order /\ phase' = "signed" /\ phase = "multiplying" /\ mul.b = 0
        /\ UNCHANGED <<actions, summed, acc, nonce, mul>>
    BY <1>6, <2>2 DEF Sign
  <2> QED
    BY <2>3 DEF KeyInv
<1>7. CASE UNCHANGED vars
  BY <1>7 DEF vars, KeyInv
<1> QED
  BY <1>1, <1>2, <1>3, <1>4, <1>5, <1>6, <1>7 DEF Next

\* It holds in every reachable state.
LEMMA KeyInvariant == Spec => []KeyInv
<1> QED
  BY InductiveInvariant, InitKeyInv, NextKeyInv, PTL DEF Spec

\* The declared balance as a signed number.
Declared ==
    LET d == decode_value_balance_be(balance)
    IN  IF d.negative THEN - d.amount ELSE d.amount

\* The value of the verification key is what the declaration is off by, modulo the
\* order; and that is 0 only if it is off by nothing.
LEMMA KeyValue ==
    ASSUME IInv
    PROVE  /\ bvk.value = (Net - Declared) % Order
           /\ Net \in Int /\ Declared \in Int
           /\ bvk.value = 0 <=> Net = Declared
<1> DEFINE v == decode_value_balance_be(balance).amount
           L == Len(actions)
           b == U64 - 1
<1>1. v \in Nat /\ v <= b /\ b \in Nat /\ b < Order
  <2>1. balance \in Int /\ U64 \in Nat \ {0}
    BY ScalarAssumption, Words DEF IInv, TypeOK
  <2>2. balance % U64 \in 0 .. U64 - 1
    BY <2>1, SumRec!ModEquation
  <2> QED
    BY <2>1, <2>2, ScalarAssumption DEF decode_value_balance_be
<1>2. L \in Nat /\ L <= MaxActions /\ actions \in Seq(Action)
  BY DEF IInv, TypeOK
<1>3. Net \in Int /\ - (L * b) <= Net /\ Net <= L * b
  <2> DEFINE xs == NetsOf(actions)
  <2>1. \A i \in 1 .. L : xs[i] \in - b .. b
    <3> TAKE i \in 1 .. L
    <3>1. actions[i] \in Action
      BY <1>2
    <3>2. xs[i] \in Nets
      BY <3>1 DEF Action, NetsOf
    <3> QED
      BY <3>2, ScalarAssumption
  <2>2. Net = SumTo(xs)[L]
    BY <1>2, Totals
  <2> HIDE DEF xs, b, L
  <2>3. L \in 0 .. L
    BY <1>2
  <2>4. SumTo(xs)[L] \in Int /\ - (L * b) <= SumTo(xs)[L] /\ SumTo(xs)[L] <= L * b
    BY <1>1, <1>2, <2>1, <2>3, SumBound
  <2> QED
    BY <2>2, <2>4
<1>4. Declared = v \/ Declared = - v
  BY DEF Declared
<1>5. PICK k \in {0, 1} : value_balance_to_bjj_scalar(balance) = Declared + Order * k
  <2> DEFINE d == decode_value_balance_be(balance)
  <2>1. CASE ~d.negative \/ d.amount = 0
    <3>1. value_balance_to_bjj_scalar(balance) = v /\ Declared = v
      BY <1>1, <2>1 DEF value_balance_to_bjj_scalar, Declared
    <3>2. v = v + Order * 0
      BY <1>1, ScalarAssumption
    <3> QED
      BY <3>1, <3>2
  <2>2. CASE d.negative /\ d.amount # 0
    <3>1. value_balance_to_bjj_scalar(balance) = Order - (v % Order) /\ Declared = - v
      BY <2>2 DEF value_balance_to_bjj_scalar, Declared
    <3>2. v % Order = v
      BY <1>1, ScalarAssumption
    <3>3. Order - v = - v + Order * 1
      BY <1>1, ScalarAssumption
    <3> QED
      BY <3>1, <3>2, <3>3
  <2> HIDE DEF d
  <2>3. d.negative \in BOOLEAN
    BY DEF d, decode_value_balance_be
  <2> QED
    BY <2>1, <2>2, <2>3
<1> HIDE DEF v, b, L
<1> DEFINE D == Net - Declared
<1>6. Declared \in Int /\ D \in Int
  BY <1>1, <1>3, <1>4
<1>7. bvk.value = D % Order
  <2>1. Net - value_balance_to_bjj_scalar(balance) = D + Order * (- k)
    <3>1. Order \in Int
      BY ScalarAssumption
    <3> QED
      BY <1>3, <1>5, <1>6, <3>1
  <2> HIDE DEF D
  <2>2. (D + Order * (- k)) % Order = D % Order
    BY <1>6, ScalarAssumption, SumRec!ModShift, - k \in Int
  <2> QED
    BY <2>1, <2>2 DEF bvk
<1>8. D < Order /\ - Order < D
  <2> DEFINE p == L * b
             q == MaxActions * b
  <2>1. p \in Nat /\ q \in Nat /\ p <= q
    BY <1>1, <1>2, ScalarAssumption
  <2>2. q + b < Order
    <3>1. (MaxActions + 1) * b = q + b
      BY <1>1, ScalarAssumption
    <3> QED
      BY <3>1, BindingAssumption DEF b
  <2>3. - p <= Net /\ Net <= p
    BY <1>3
  <2> HIDE DEF p, q
  <2>4. - b <= Declared /\ Declared <= b
    BY <1>1, <1>4
  <2> QED
    BY <1>1, <1>3, <1>6, <2>1, <2>2, <2>3, <2>4, ScalarAssumption
<1>9. D % Order = 0 <=> D = 0
  <2> HIDE DEF D
  <2>1. ASSUME D % Order = 0 PROVE D = 0
    <3> DEFINE c == D \div Order
    <3>1. c \in Int /\ D = Order * c
      BY <1>6, <2>1, ScalarAssumption, Multiples
    <3> HIDE DEF c
    <3>2. c = 0
      BY <1>8, <3>1, ScalarAssumption, SumRec!SmallMultiple
    <3> QED
      BY <3>1, <3>2, ScalarAssumption
  <2>2. 0 % Order = 0
    BY ScalarAssumption
  <2> QED
    BY <2>1, <2>2
<1>10. D = 0 <=> Net = Declared
  BY <1>3, <1>6
<1> QED
  BY <1>3, <1>6, <1>7, <1>9, <1>10

\* The signature is the one that the sum of the blinding scalars makes.
LEMMA SignatureExact ==
    ASSUME IInv, KeyInv, phase = "signed"
    PROVE  s = (nonce + e * bvk.random) % Order
<1> DEFINE B == Blinding % Order
           p == mul.result
<1>1. bvk.random = B
  BY DEF bvk
<1>2. acc = B
  <2>1. Len(actions) \in Nat /\ summed = Len(actions)
    BY DEF IInv, KeyInv
  <2> QED
    BY <2>1, Totals DEF KeyInv
<1>3. /\ e \in Int /\ acc \in Int /\ nonce \in Int /\ p \in Scalar /\ p \in Int
      /\ mul.a \in Int
  <2>1. mul \in [a : Scalar, b : Scalar, result : Scalar]
        /\ e \in Scalar /\ acc \in Scalar /\ nonce \in Uint
    BY DEF IInv, TypeOK
  <2>2. mul.a \in Scalar /\ p \in Scalar
    BY <2>1
  <2>3. \A x \in Scalar \union Uint : x \in Int
    BY Words
  <2> HIDE DEF p
  <2> QED
    BY <2>1, <2>2, <2>3
<1>4. s = ((nonce % Order) + p) % Order /\ mul.b = 0
  BY DEF KeyInv
<1> HIDE DEF B
<1>5. p = (e * acc) % Order
  <2>1. (p + mul.a * mul.b) % Order = (e * acc) % Order
    BY DEF IInv, MulmodExact
  <2>2. p + mul.a * mul.b = p
    BY <1>3, <1>4
  <2>3. p % Order = p
    BY <1>3, ScalarMod
  <2> QED
    BY <2>1, <2>2, <2>3
<1> HIDE DEF p
<1>6. s = (nonce + e * acc) % Order
  <2> DEFINE y == e * acc
  <2>1. y \in Int
    BY <1>3
  <2> HIDE DEF y
  <2>2. ((nonce % Order) + (y % Order)) % Order = (nonce + y) % Order
    BY <1>3, <2>1, ScalarAssumption, SumRec!ModSum
  <2> QED
    BY <1>4, <1>5, <2>2 DEF y
<1> QED
  BY <1>1, <1>2, <1>6

\* A bundle's signature verifies exactly if its balance on the wire is what its
\* actions add up to: the blinding is summed modulo the order of the subgroup, so
\* the key is right, and what the declaration is off by is no multiple of the
\* prime order, whatever challenge but 0 it is multiplied with.
THEOREM SignatureBindsBalanceHolds == Spec => []SignatureBindsBalance
<1>1. IInv /\ KeyInv => SignatureBindsBalance
  <2> SUFFICES ASSUME IInv, KeyInv, phase = "signed", e # 0
               PROVE  Verified <=> Net = Declared
    BY DEF SignatureBindsBalance, Declared
  <2> DEFINE v == bvk.value
  <2>1. /\ v = (Net - Declared) % Order /\ Net - Declared \in Int
        /\ v = 0 <=> Net = Declared
    BY KeyValue
  <2>2. v \in Scalar /\ v \in Int
    <3> DEFINE D == Net - Declared
    <3>1. D \in Int /\ v = D % Order
      BY <2>1
    <3> HIDE DEF D, v
    <3>2. v \in Scalar
      BY <3>1, Words
    <3> QED
      BY <3>2, Words
  <2>3. Verified <=> 0 = (e * v) % Order
    BY SignatureExact DEF Verified
  <2> HIDE DEF v
  <2>4. e \in 1 .. Order - 1
    <3>1. e \in Scalar
      BY DEF IInv, TypeOK
    <3> QED
      BY <3>1, ScalarAssumption DEF Scalar
  <2>5. ASSUME (e * v) % Order = 0 PROVE v = 0
    <3>1. v % Order = 0
      BY <2>2, <2>4, <2>5, ScalarAssumption, BindingAssumption, NoZeroDivisors
    <3> QED
      BY <2>2, <3>1, ScalarMod
  <2>6. v = 0 => (e * v) % Order = 0
    BY <2>4, ScalarAssumption
  <2> QED
    BY <2>1, <2>3, <2>5, <2>6
<1> QED
  BY <1>1, InductiveInvariant, KeyInvariant, PTL

-----------------------------------------------------------------------------
(* The message that is signed.                                            *)

LEMMA ConcatLength ==
    ASSUME NEW W
    PROVE  \A a, b \in Seq(W) : a \o b \in Seq(W) /\ Len(a \o b) = Len(a) + Len(b)
BY ConcatProperties

\* A concatenation is taken apart in one way only, once it is known where.
LEMMA PartsEqual ==
    ASSUME NEW W, NEW a \in Seq(W), NEW b \in Seq(W),
           NEW c \in Seq(W), NEW d \in Seq(W),
           Len(a) = Len(c), a \o b = c \o d
    PROVE  a = c /\ b = d
<1> DEFINE At(p, q, i) == IF i <= Len(p) THEN p[i] ELSE q[i - Len(p)]
<1>1. Len(a) \in Nat /\ Len(b) \in Nat /\ Len(c) \in Nat /\ Len(d) \in Nat
  OBVIOUS
<1>2. /\ Len(a \o b) = Len(a) + Len(b)
      /\ \A i \in 1 .. Len(a) + Len(b) : (a \o b)[i] = At(a, b, i)
  BY ConcatProperties
<1>3. /\ Len(c \o d) = Len(c) + Len(d)
      /\ \A i \in 1 .. Len(c) + Len(d) : (c \o d)[i] = At(c, d, i)
  BY ConcatProperties
<1>4. Len(b) = Len(d)
  BY <1>1, <1>2, <1>3
<1>5. \A i \in 1 .. Len(a) + Len(b) : At(a, b, i) = At(c, d, i)
  BY <1>2, <1>3, <1>4
<1>6. \A i \in 1 .. Len(a) : a[i] = c[i]
  BY <1>1, <1>5
<1>7. \A i \in 1 .. Len(b) : b[i] = d[i]
  <2> TAKE i \in 1 .. Len(b)
  <2>1. /\ Len(a) + i \in 1 .. Len(a) + Len(b) /\ ~(Len(a) + i <= Len(a))
        /\ (Len(a) + i) - Len(a) = i
    BY <1>1
  <2>2. At(a, b, Len(a) + i) = b[i] /\ At(c, d, Len(a) + i) = d[i]
    BY <2>1
  <2> QED
    BY <1>5, <2>1, <2>2
<1> QED
  BY <1>4, <1>6, <1>7, SeqEqual

\* The binding sighash of mod.rs commits to every part of a bundle: among
\* bundles with as many nullifiers as each other and as many commitments, two
\* that are signed by one message are the same bundle of the same pool on the
\* same chain.  (Nothing separates the lists, so the numbers matter: every
\* action has one nullifier and one commitment.)
THEOREM SighashBindsBundle ==
    ASSUME NEW W, [tag |-> "PrivacyPool.bundle.v1"] \in W,
           NEW c1 \in W, NEW p1 \in W, NEW n1 \in Seq(W), NEW m1 \in Seq(W),
           NEW v1 \in W, NEW r1 \in W,
           NEW c2 \in W, NEW p2 \in W, NEW n2 \in Seq(W), NEW m2 \in Seq(W),
           NEW v2 \in W, NEW r2 \in W,
           \A x, y \in Seq(W) : Keccak(x) = Keccak(y) => x = y,
           Len(n1) = Len(n2), Len(m1) = Len(m2),
           binding_sighash_privacy_pool_bundle_v1(c1, p1, n1, m1, v1, r1)
             = binding_sighash_privacy_pool_bundle_v1(c2, p2, n2, m2, v2, r2)
    PROVE  /\ c1 = c2 /\ p1 = p2 /\ n1 = n2 /\ m1 = m2
           /\ v1 = v2 /\ r1 = r2
<1> DEFINE T == [tag |-> "PrivacyPool.bundle.v1"]
           H1 == <<T, c1, p1>>
           H2 == <<T, c2, p2>>
           E1 == <<v1, r1>>
           E2 == <<v2, r2>>
<1>1. /\ H1 \in Seq(W) /\ H2 \in Seq(W) /\ E1 \in Seq(W) /\ E2 \in Seq(W)
      /\ Len(H1) = Len(H2)
  OBVIOUS
<1>2. H1 \o n1 \o m1 \o E1 = H2 \o n2 \o m2 \o E2
  <2>1. H1 \o n1 \o m1 \o E1 \in Seq(W) /\ H2 \o n2 \o m2 \o E2 \in Seq(W)
    <3>1. H1 \o n1 \in Seq(W) /\ H2 \o n2 \in Seq(W)
      BY <1>1, ConcatProperties
    <3>2. H1 \o n1 \o m1 \in Seq(W) /\ H2 \o n2 \o m2 \in Seq(W)
      BY <3>1, ConcatProperties
    <3> QED
      BY <1>1, <3>2, ConcatProperties
  <2> QED
    BY <2>1 DEF binding_sighash_privacy_pool_bundle_v1, bundle_v1_preimage
<1>3. H1 = H2 => c1 = c2 /\ p1 = p2
  OBVIOUS
<1>4. E1 = E2 => v1 = v2 /\ r1 = r2
  OBVIOUS
<1> HIDE DEF H1, H2, E1, E2
<1>5. \A a, b \in Seq(W) : a \o b \in Seq(W) /\ Len(a \o b) = Len(a) + Len(b)
  BY ConcatLength
<1>6. /\ H1 \o n1 \in Seq(W) /\ H2 \o n2 \in Seq(W)
      /\ Len(H1 \o n1) = Len(H2 \o n2)
  <2>1. H1 \o n1 \in Seq(W) /\ Len(H1 \o n1) = Len(H1) + Len(n1)
    BY <1>1, <1>5
  <2>2. H2 \o n2 \in Seq(W) /\ Len(H2 \o n2) = Len(H2) + Len(n2)
    BY <1>1, <1>5
  <2> QED
    BY <1>1, <2>1, <2>2
<1>7. /\ H1 \o n1 \o m1 \in Seq(W) /\ H2 \o n2 \o m2 \in Seq(W)
      /\ Len(H1 \o n1 \o m1) = Len(H2 \o n2 \o m2)
  <2>1. H1 \o n1 \o m1 \in Seq(W) /\ Len(H1 \o n1 \o m1) = Len(H1 \o n1) + Len(m1)
    BY <1>6, <1>5
  <2>2. H2 \o n2 \o m2 \in Seq(W) /\ Len(H2 \o n2 \o m2) = Len(H2 \o n2) + Len(m2)
    BY <1>6, <1>5
  <2> QED
    BY <1>6, <2>1, <2>2
<1>8. H1 \o n1 \o m1 = H2 \o n2 \o m2 /\ E1 = E2
  <2> DEFINE A == H1 \o n1 \o m1
             C == H2 \o n2 \o m2
  <2>1. A \in Seq(W) /\ C \in Seq(W) /\ Len(A) = Len(C) /\ A \o E1 = C \o E2
    BY <1>2, <1>7
  <2>2. E1 \in Seq(W) /\ E2 \in Seq(W)
    BY <1>1
  <2> HIDE DEF A, C
  <2>3. A = C /\ E1 = E2
    BY <2>1, <2>2, PartsEqual
  <2> QED
    BY <2>3 DEF A, C
<1>9. H1 \o n1 = H2 \o n2 /\ m1 = m2
  <2> DEFINE A == H1 \o n1
             C == H2 \o n2
  <2>1. A \in Seq(W) /\ C \in Seq(W) /\ Len(A) = Len(C) /\ A \o m1 = C \o m2
    BY <1>6, <1>8
  <2> HIDE DEF A, C
  <2>2. A = C /\ m1 = m2
    BY <2>1, PartsEqual
  <2> QED
    BY <2>2 DEF A, C
<1>10. H1 = H2 /\ n1 = n2
  BY <1>1, <1>9, PartsEqual
<1> QED
  BY <1>3, <1>4, <1>8, <1>9, <1>10
=============================================================================
