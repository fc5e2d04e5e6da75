------------------------------ MODULE Poseidon ------------------------------
(***************************************************************************)
(* The Poseidon permutation of commitment_tree/poseidon_primitives: the    *)
(* search for its matrix (mds.rs) and its rounds (permute, mod.rs), over a *)
(* prime field small enough to check every draw.  What the generator draws *)
(* is arbitrary here; Grain models the generator.                          *)
(***************************************************************************)
EXTENDS Integers, Sequences, FiniteSets, Field

CONSTANTS T,              \* the width
          Draws,          \* the elements the generator may draw
          SecureMds,      \* S::secure_mds
          FullRounds,     \* S::full_rounds
          PartialRounds,  \* S::partial_rounds
          RoundConstants, \* the rows drawn before the matrix
          Inputs          \* the states that are permuted

F == 0 .. Modulus - 1

ASSUME PoseidonAssumption ==
    /\ Modulus \in Nat /\ Modulus > 1 /\ \A a \in 2 .. Modulus - 1 : Modulus % a # 0
    /\ T \in Nat \ {0}
    /\ Draws \subseteq F
    /\ SecureMds \in Nat
    /\ FullRounds \in Nat /\ FullRounds % 2 = 0 /\ PartialRounds \in Nat
    /\ RoundConstants \in [1 .. FullRounds + PartialRounds -> [1 .. T -> F]]
    /\ Inputs \subseteq [1 .. T -> F]

VARIABLES vals,         \* the elements drawn for the matrix
          select,       \* matrices still to be passed over
          mds, mds_inv,
          input,        \* history: the state permute was called with
          state,        \* the state after round rounds
          round,
          phase

vars == <<vals, select, mds, mds_inv, input, state, round, phase>>

Index == 1 .. T
Neg(x) == (Modulus - x) % Modulus
Minus(x, y) == (x + Neg(y)) % Modulus
\* invert().unwrap() is called on nonzero elements only: see Cauchy.
Invert(x) == CHOOSE y \in F : (x * y) % Modulus = 1 \/ x = 0
sbox(x) == (((((((x * x) % Modulus) * x) % Modulus) * x) % Modulus) * x) % Modulus

\* The exponent 5 has no factor in common with the order of the units of F, or
\* the permutation would not be one.
ASSUME SboxAssumption == \A x, y \in F : sbox(x) = sbox(y) => x = y

Dot(u, v) ==
    LET Sum[k \in Nat] == IF k = 0 THEN 0 ELSE (Sum[k - 1] + u[k] * v[k]) % Modulus
    IN  Sum[T]
Apply(matrix, v) == [i \in Index |-> Dot(matrix[i], v)]
Column(matrix, j) == [i \in Index |-> matrix[i][j]]

xs == SubSeq(vals, 1, T)
ys == SubSeq(vals, T + 1, 2 * T)

Unique == Cardinality({vals[k] : k \in DOMAIN vals}) = Len(vals)

CauchyMatrix == [i \in Index |-> [j \in Index |-> Invert((xs[i] + ys[j]) % Modulus)]]

\* The Lagrange polynomial of the j-th node at x.
Lagrange(nodes, j, x) ==
    LET factor(m) == (Minus(x, nodes[m]) * Invert(Minus(nodes[j], nodes[m]))) % Modulus
        L[m \in Nat] == IF m = 0 THEN 1
                           ELSE IF m = j THEN L[m - 1]
                           ELSE (L[m - 1] * factor(m)) % Modulus
    IN  L[T]

\* Variant: ys are not negated.
InverseOfNegative ==
    [i \in Index |-> [j \in Index |->
        (((Minus(xs[j], ys[i]) * Lagrange(xs, j, ys[i])) % Modulus)
            * Lagrange(ys, i, xs[j])) % Modulus]]

\* Schechter's inverse of 1 / (x_i - y_j), with ys negated.
CauchyInverse ==
    LET neg_ys == [i \in Index |-> Neg(ys[i])]
    IN  [i \in Index |-> [j \in Index |->
            (((Minus(xs[j], neg_ys[i]) * Lagrange(xs, j, neg_ys[i])) % Modulus)
                * Lagrange(neg_ys, i, xs[j])) % Modulus]]

-----------------------------------------------------------------------------
Init ==
    /\ vals = << >>
    /\ select = SecureMds
    /\ mds = << >> /\ mds_inv = << >>
    /\ input = << >> /\ state = << >> /\ round = 0
    /\ phase = "drawing"

Draw(v) ==
    /\ phase = "drawing"
    /\ Len(vals) < 2 * T
    /\ vals' = Append(vals, v)
    /\ UNCHANGED <<select, mds, mds_inv, input, state, round, phase>>

\* Repeated elements are drawn again, all of them; the matrix count stays.
Retry ==
    /\ phase = "drawing"
    /\ Len(vals) = 2 * T
    /\ ~Unique
    /\ vals' = << >>
    /\ UNCHANGED <<select, mds, mds_inv, input, state, round, phase>>

PassOver ==
    /\ phase = "drawing"
    /\ Len(vals) = 2 * T
    /\ Unique
    /\ select > 0
    /\ select' = select - 1
    /\ vals' = << >>
    /\ UNCHANGED <<mds, mds_inv, input, state, round, phase>>

\* Variant: a sum of 0 is not asserted against.
CauchyUnchecked ==
    /\ phase = "drawing"
    /\ Len(vals) = 2 * T
    /\ Unique
    /\ select = 0
    /\ mds' = CauchyMatrix /\ mds_inv' = CauchyInverse /\ phase' = "ready"
    /\ UNCHANGED <<vals, select, input, state, round>>

\* Variant: elements that repeat are taken.
CauchyRepeated ==
    /\ phase = "drawing"
    /\ Len(vals) = 2 * T
    /\ select = 0
    /\ \A i, j \in Index : (xs[i] + ys[j]) % Modulus # 0
    /\ mds' = CauchyMatrix /\ mds_inv' = CauchyInverse /\ phase' = "ready"
    /\ UNCHANGED <<vals, select, input, state, round>>

\* The selected draw becomes the matrix, or the assertion on its sums fails.
Cauchy ==
    /\ phase = "drawing"
    /\ Len(vals) = 2 * T
    /\ Unique
    /\ select = 0
    /\ \/ /\ \A i, j \in Index : (xs[i] + ys[j]) % Modulus # 0
          /\ mds' = CauchyMatrix /\ mds_inv' = CauchyInverse /\ phase' = "ready"
       \/ /\ \E i, j \in Index : (xs[i] + ys[j]) % Modulus = 0
          /\ phase' = "panicked"
          /\ UNCHANGED <<mds, mds_inv>>
    /\ UNCHANGED <<vals, select, input, state, round>>

permute(st) ==
    /\ phase = "ready"
    /\ input' = st /\ state' = st
    /\ phase' = "permuting"
    /\ UNCHANGED <<vals, select, mds, mds_inv, round>>

\* Half of the full rounds come before the partial rounds, half after.
IsFull(r) == r < FullRounds \div 2 \/ r >= FullRounds \div 2 + PartialRounds

full_round ==
    /\ phase = "permuting"
    /\ round < FullRounds + PartialRounds
    /\ IsFull(round)
    /\ LET rcs == RoundConstants[round + 1]
       IN  state' = Apply(mds, [i \in Index |-> sbox((state[i] + rcs[i]) % Modulus)])
    /\ round' = round + 1
    /\ UNCHANGED <<vals, select, mds, mds_inv, input, phase>>

\* Variant: the constants of the words without an S-box are left out.
part_round_first_constant ==
    /\ phase = "permuting"
    /\ round < FullRounds + PartialRounds
    /\ ~IsFull(round)
    /\ LET rcs == RoundConstants[round + 1]
       IN  state' = Apply(mds, [state EXCEPT ![1] = sbox((@ + rcs[1]) % Modulus)])
    /\ round' = round + 1
    /\ UNCHANGED <<vals, select, mds, mds_inv, input, phase>>

\* The S-box is applied to the first word only.
part_round ==
    /\ phase = "permuting"
    /\ round < FullRounds + PartialRounds
    /\ ~IsFull(round)
    /\ LET rcs == RoundConstants[round + 1]
           added == [i \in Index |-> (state[i] + rcs[i]) % Modulus]
       IN  state' = Apply(mds, [added EXCEPT ![1] = sbox(@)])
    /\ round' = round + 1
    /\ UNCHANGED <<vals, select, mds, mds_inv, input, phase>>

Next ==
    \/ \E v \in Draws : Draw(v)
    \/ Retry
    \/ PassOver
    \/ Cauchy
    \/ \E st \in Inputs : permute(st)
    \/ full_round
    \/ part_round

Spec == Init /\ [][Next]_vars

-----------------------------------------------------------------------------
(* Properties.                                                             *)

Found == phase \in {"ready", "permuting"}

\* A matrix is only made of nonzero elements of F.
TypeOK ==
    /\ Len(vals) <= 2 * T /\ \A k \in DOMAIN vals : vals[k] \in Draws
    /\ select \in 0 .. SecureMds
    /\ phase \in {"drawing", "ready", "permuting", "panicked"}
    /\ Found => mds \in [Index -> [Index -> F \ {0}]] /\ mds_inv \in [Index -> [Index -> F]]
    /\ phase = "permuting" => state \in [Index -> F] /\ input \in Inputs
    /\ round \in 0 .. FullRounds + PartialRounds

\* The matrix that is found is maximum distance separable: no two by two minor
\* of it is 0 (with InverseCorrect, for T = 3, no minor of any size).
Separable ==
    Found =>
        \A i, j, k, l \in Index :
            i < j /\ k < l =>
                (mds[i][k] * mds[j][l]) % Modulus # (mds[i][l] * mds[j][k]) % Modulus

\* The second matrix that is returned is the inverse of the first, although the
\* formula it comes from is that of differences.
InverseCorrect ==
    Found =>
        \A i, j \in Index :
            Dot(mds[i], Column(mds_inv, j)) = (IF i = j THEN 1 ELSE 0)

\* Undoing the rounds one by one, by the definition of the permutation, gives
\* the input back: no round is left out, taken twice or of the wrong kind, and
\* every row of constants is used in its round.
Unbox(y) == CHOOSE x \in F : sbox(x) = y

Undo(r, st) ==
    LET w == Apply(mds_inv, st)
        full == \/ r <= FullRounds \div 2
                \/ FullRounds + PartialRounds - r < FullRounds \div 2
    IN  [i \in Index |->
           Minus(IF full \/ i = 1 THEN Unbox(w[i]) ELSE w[i], RoundConstants[r][i])]

Undone ==
    LET U[k \in Nat] == IF k = 0 THEN state ELSE Undo(round - k + 1, U[k - 1])
    IN  U[round]

RoundsInvertible == phase = "permuting" => Undone = input
=============================================================================
