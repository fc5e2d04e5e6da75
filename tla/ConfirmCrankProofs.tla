------------------------- MODULE ConfirmCrankProofs -------------------------
(***************************************************************************)
(* Theorems about the frontier tree and about the protocol of the cranks   *)
(* and the chain, for every depth, every pair of hashes, every number of   *)
(* cranks, every sequence of arrivals and every number of faults.          *)
(***************************************************************************)
EXTENDS ConfirmCrank, MerkleTreeProofs

\* p is the pair of the tree and the leaf.
ClimbStep(p, n, prev) ==
    IF Bit(p[1].next_index, n) = 0 THEN Compress(n, prev, Empty[n])
    ELSE Compress(n, p[1].filled[n], prev)
ClimbRec == INSTANCE NatRecursion WITH Step <- ClimbStep

InsertStep(ls, n, prev) == insert(prev, ls[n + 1])
InsertRec == INSTANCE NatRecursion WITH Step <- InsertStep

PlanStep(ls, n, prev) == plan_batch(prev, Chunk(ls, n + 1)).tree
PlanRec == INSTANCE NatRecursion WITH Step <- PlanStep

AppliedStep(updates, n, prev) == Applied(prev, updates[n + 1])
AppliedRec == INSTANCE NatRecursion WITH Step <- AppliedStep

-----------------------------------------------------------------------------
(* The recursive definitions, as equations.                                *)

\* The nodes on the way up from a new leaf, level by level.
LEMMA ClimbEquation ==
    ASSUME NEW t, NEW leaf
    PROVE  /\ Climb(t, leaf)[0] = leaf
           /\ \A l \in Nat :
                 Climb(t, leaf)[l + 1] =
                   IF Bit(t.next_index, l) = 0
                   THEN Compress(l, Climb(t, leaf)[l], Empty[l])
                   ELSE Compress(l, t.filled[l], Climb(t, leaf)[l])
<1> DEFINE R == ClimbRec!Rec(<<t, leaf>>, leaf)
           Eq(N) == N = [l \in Nat |->
                           IF l = 0 THEN leaf
                           ELSE IF Bit(t.next_index, l - 1) = 0
                                THEN Compress(l - 1, N[l - 1], Empty[l - 1])
                                ELSE Compress(l - 1, t.filled[l - 1], N[l - 1])]
           C == Climb(t, leaf)
<1>1. Eq(R)
  BY ClimbRec!RecEquation DEF ClimbStep
<1>2. C = CHOOSE N : Eq(N)
  BY DEF Climb
<1>3. Eq(C)
  <2> HIDE DEF Eq, R, C
  <2> QED
    BY <1>1, <1>2
<1> HIDE DEF C
<1>4. ASSUME NEW l \in Nat
      PROVE  C[l + 1] = IF Bit(t.next_index, l) = 0 THEN Compress(l, C[l], Empty[l])
                        ELSE Compress(l, t.filled[l], C[l])
  <2>1. l + 1 \in Nat /\ l + 1 # 0 /\ (l + 1) - 1 = l
    OBVIOUS
  <2> QED
    BY <1>3, <2>1
<1>5. C[0] = leaf
  BY <1>3
<1> QED
  BY <1>4, <1>5 DEF C

\* The trees that a run of inserts goes through.
LEMMA InsertAllEquation ==
    ASSUME NEW t, NEW ls
    PROVE  /\ InsertAll(t, ls)[0] = t
           /\ \A n \in Nat :
                 InsertAll(t, ls)[n + 1] = insert(InsertAll(t, ls)[n], ls[n + 1])
<1> DEFINE R == InsertRec!Rec(ls, t)
           Eq(T) == T = [n \in Nat |-> IF n = 0 THEN t ELSE insert(T[n - 1], ls[n])]
           A == InsertAll(t, ls)
<1>1. Eq(R)
  <2>1. R = [n \in Nat |-> IF n = 0 THEN t ELSE InsertStep(ls, n - 1, R[n - 1])]
    BY InsertRec!RecEquation
  <2>2. \A n \in Nat : n # 0 => InsertStep(ls, n - 1, R[n - 1]) = insert(R[n - 1], ls[n])
    BY \A n \in Nat : (n - 1) + 1 = n DEF InsertStep
  <2> HIDE DEF R
  <2> QED
    BY <2>1, <2>2
<1>2. A = CHOOSE T : Eq(T)
  BY DEF InsertAll
<1>3. Eq(A)
  <2> HIDE DEF Eq, R, A
  <2> QED
    BY <1>1, <1>2
<1> HIDE DEF A
<1>4. ASSUME NEW n \in Nat PROVE A[n + 1] = insert(A[n], ls[n + 1])
  <2>1. n + 1 \in Nat /\ n + 1 # 0 /\ (n + 1) - 1 = n
    OBVIOUS
  <2> QED
    BY <1>3, <2>1
<1>5. A[0] = t
  BY <1>3
<1> QED
  BY <1>4, <1>5 DEF A

\* The states a transaction takes the chain through.
LEMMA AfterEquation ==
    ASSUME NEW u
    PROVE  /\ After(u)[0] = chain
           /\ \A n \in Nat : After(u)[n + 1] = Applied(After(u)[n], u[n + 1])
<1> DEFINE R == AppliedRec!Rec(u, chain)
           Eq(S) == S = [n \in Nat |-> IF n = 0 THEN chain ELSE Applied(S[n - 1], u[n])]
           A == After(u)
<1>1. Eq(R)
  <2>1. R = [n \in Nat |-> IF n = 0 THEN chain ELSE AppliedStep(u, n - 1, R[n - 1])]
    BY AppliedRec!RecEquation
  <2>2. \A n \in Nat : n # 0 => AppliedStep(u, n - 1, R[n - 1]) = Applied(R[n - 1], u[n])
    BY \A n \in Nat : (n - 1) + 1 = n DEF AppliedStep
  <2> HIDE DEF R
  <2> QED
    BY <2>1, <2>2
<1>2. A = CHOOSE S : Eq(S)
  BY DEF After
<1>3. Eq(A)
  <2> HIDE DEF Eq, R, A
  <2> QED
    BY <1>1, <1>2
<1> HIDE DEF A
<1>4. ASSUME NEW n \in Nat PROVE A[n + 1] = Applied(A[n], u[n + 1])
  <2>1. n + 1 \in Nat /\ n + 1 # 0 /\ (n + 1) - 1 = n
    OBVIOUS
  <2> QED
    BY <1>3, <2>1
<1>5. A[0] = chain
  BY <1>3
<1> QED
  BY <1>4, <1>5 DEF A

\* T is the sequence of trees that plan_batches goes through, one for every chunk.
Plans(t, ls, T) ==
    /\ T[0] = t
    /\ \A n \in Nat : T[n + 1] = plan_batch(T[n], Chunk(ls, n + 1)).tree
    /\ plan_batches(t, ls) =
         [tree   |-> T[Chunks(ls)],
          inputs |-> [k \in 1 .. Chunks(ls) |-> plan_batch(T[k - 1], Chunk(ls, k)).input]]

\* There is such a sequence, for every tree and every run of leaves.
LEMMA PlanEquation ==
    ASSUME NEW t, NEW ls
    PROVE  \E T : Plans(t, ls, T)
<1> DEFINE R == PlanRec!Rec(ls, t)
           Eq(T) == T = [k \in Nat |-> IF k = 0 THEN t
                                       ELSE plan_batch(T[k - 1], Chunk(ls, k)).tree]
           A == CHOOSE T : Eq(T)
<1>1. Eq(R)
  <2>1. R = [n \in Nat |-> IF n = 0 THEN t ELSE PlanStep(ls, n - 1, R[n - 1])]
    BY PlanRec!RecEquation
  <2>2. \A n \in Nat : n # 0 => PlanStep(ls, n - 1, R[n - 1])
                                  = plan_batch(R[n - 1], Chunk(ls, n)).tree
    BY \A n \in Nat : (n - 1) + 1 = n DEF PlanStep
  <2> HIDE DEF R
  <2> QED
    BY <2>1, <2>2
<1>2. Eq(A)
  <2> HIDE DEF Eq, R
  <2> QED
    BY <1>1
<1>3. plan_batches(t, ls) =
        [tree   |-> A[Chunks(ls)],
         inputs |-> [k \in 1 .. Chunks(ls) |-> plan_batch(A[k - 1], Chunk(ls, k)).input]]
  BY DEF plan_batches
<1> HIDE DEF A
<1>4. ASSUME NEW n \in Nat PROVE A[n + 1] = plan_batch(A[n], Chunk(ls, n + 1)).tree
  <2>1. n + 1 \in Nat /\ n + 1 # 0 /\ (n + 1) - 1 = n
    OBVIOUS
  <2> QED
    BY <1>2, <2>1
<1>5. A[0] = t
  BY <1>2
<1> QED
  BY <1>3, <1>4, <1>5 DEF Plans

-----------------------------------------------------------------------------
(* insert keeps the frontier.                                              *)

\* Where the path of leaf n turns right, the node on its left is complete, is the
\* one the frontier keeps, and does not change with the leaf.
LEMMA LeftNode ==
    ASSUME NEW ls, NEW n \in Nat, NEW l \in Levels, Bit(n, l) # 0
    PROVE  LET i == (n \div Pow2[l]) - 1
           IN  /\ i \in Nat
               /\ FrontierOf(ls, n).filled[l] = Digest(Prefix(ls, n))[l][i]
               /\ FrontierOf(ls, n + 1).filled[l] = Digest(Prefix(ls, n))[l][i]
               /\ Digest(Prefix(ls, n + 1))[l][i] = Digest(Prefix(ls, n))[l][i]
<1> DEFINE b == Pow2[l]
           q == n \div b
           r == n % b
           i == q - 1
<1>1. l \in Nat /\ b \in Nat /\ b >= 1
  BY Pow2Positive, DepthAssumption DEF Levels
<1>2. q % 2 # 0
  BY DEF Bit
<1> HIDE DEF b
<1>3. q \in Nat /\ r \in 0 .. b - 1 /\ n = b * q + r
  BY <1>1, DivMod
<1> HIDE DEF q, r
<1>4. q >= 1 /\ i \in Nat /\ i % 2 = 0 /\ q % 2 = 1 /\ q = i + 1
  BY <1>2, <1>3
<1> HIDE DEF i
<1>5. b * q = b * i + b /\ b * i \in Nat /\ (i + 1) * b = b * q /\ b * q \in Nat
  BY <1>1, <1>3, <1>4
<1>6. n # 0 /\ n - 1 \in Nat /\ n >= b * q
  BY <1>1, <1>3, <1>5
<1>7. LastEven(n, l) = i
  <2>1. CASE r = 0
    <3>1. (n - 1) \div b = i
      <4>1. b * i <= n - 1 /\ n - 1 < b * i + b
        BY <1>1, <1>3, <1>5, <2>1
      <4> QED
        BY <1>1, <1>4, <1>6, <4>1, DivUnique
    <3> QED
      BY <1>4, <3>1 DEF LastEven, b
  <2>2. CASE r # 0
    <3>1. (n - 1) \div b = q
      <4>1. b * q <= n - 1 /\ n - 1 < b * q + b
        BY <1>1, <1>3, <1>5, <2>2
      <4> QED
        BY <1>1, <1>3, <1>6, <4>1, DivUnique
    <3> QED
      BY <1>4, <3>1 DEF LastEven, b
  <2> QED
    BY <2>1, <2>2
<1>8. LastEven(n + 1, l) = i
  <2>1. ((n + 1) - 1) \div b = q
    BY (n + 1) - 1 = n DEF q
  <2> QED
    BY <1>4, <2>1 DEF LastEven, b
<1>9. Digest(Prefix(ls, n + 1))[l][i] = Digest(Prefix(ls, n))[l][i]
  <2> DEFINE m == n + 1
  <2>1. (i + 1) * Pow2[l] <= n /\ (i + 1) * Pow2[l] <= m /\ m \in Nat
    BY <1>5, <1>6 DEF b
  <2>2. \A k \in 1 .. m : ls[k] = ls[k]
    OBVIOUS
  <2> HIDE DEF m
  <2>3. Digest(Prefix(ls, m))[l][i] = Digest(Prefix(ls, n))[l][i]
    BY <1>1, <1>4, <2>1, <2>2, SameSubtree, SMTT(30)
  <2> QED
    BY <2>3 DEF m
<1>10. FrontierOf(ls, n).filled[l] = Digest(Prefix(ls, n))[l][i]
  BY <1>6, <1>7 DEF FrontierOf
<1>11. FrontierOf(ls, n + 1).filled[l] = Digest(Prefix(ls, n + 1))[l][i]
  BY <1>8, n + 1 # 0 DEF FrontierOf
<1> QED
  BY <1>4, <1>9, <1>10, <1>11 DEF i, q, b

\* The climb from a new leaf meets the nodes of the tree with that leaf.
LEMMA ClimbDigest ==
    ASSUME NEW ls, NEW n \in Nat
    PROVE  \A l \in 0 .. Depth :
              Climb(FrontierOf(ls, n), ls[n + 1])[l]
                = Digest(Prefix(ls, n + 1))[l][n \div Pow2[l]]
<1> DEFINE t == FrontierOf(ls, n)
           leaf == ls[n + 1]
           C == Climb(t, leaf)
           a == Prefix(ls, n + 1)
           D == Digest(a)
           q(l) == n \div Pow2[l]
           S == {l \in Nat : l <= Depth => C[l] = D[l][q(l)]}
<1>1. /\ C[0] = leaf
      /\ \A l \in Nat : C[l + 1] = IF Bit(n, l) = 0 THEN Compress(l, C[l], Empty[l])
                                   ELSE Compress(l, t.filled[l], C[l])
  <2>1. t.next_index = n
    BY DEF FrontierOf
  <2> HIDE DEF t, leaf
  <2> QED
    BY <2>1, ClimbEquation
<1>2. /\ \A i \in Nat : D[0][i] = a[i]
      /\ \A l, i \in Nat : D[l + 1][i] = Compress(l, D[l][2 * i], D[l][2 * i + 1])
  BY DigestEquation
<1>3. a[n] = leaf /\ \A k \in Nat : k >= n + 1 => a[k] = Zero
  BY DEF Prefix
<1>4. \A l, i \in Nat : i * Pow2[l] >= n + 1 => D[l][i] = Empty[l]
  <2> HIDE DEF a
  <2> QED
    BY <1>3, n + 1 \in Nat, DigestBeyond
<1> HIDE DEF C
<1>5. 0 \in S
  <2>1. q(0) = n
    BY Pow2Equation
  <2> QED
    BY <1>1, <1>2, <1>3, <2>1
<1>6. ASSUME NEW l \in Nat, l \in S PROVE l + 1 \in S
  <2> SUFFICES ASSUME l + 1 <= Depth PROVE C[l + 1] = D[l + 1][q(l + 1)]
    OBVIOUS
  <2>1. l \in Levels /\ C[l] = D[l][q(l)]
    BY <1>6, DepthAssumption DEF Levels
  <2>2. q(l) \in Nat /\ q(l + 1) = q(l) \div 2 /\ Bit(n, l) = q(l) % 2
    BY ShiftTwice DEF Bit
  <2> DEFINE h == q(l) \div 2
  <2>3. CASE Bit(n, l) = 0
    <3>1. D[l][q(l) + 1] = Empty[l]
      <4>1. (q(l) + 1) * Pow2[l] >= n + 1
        <5> DEFINE b == Pow2[l]
                   r == n % b
                   p == n \div b
        <5>1. b \in Nat /\ b >= 1
          BY Pow2Positive
        <5> HIDE DEF b
        <5>2. p \in Nat /\ r \in 0 .. b - 1 /\ n = b * p + r
          BY <5>1, DivMod
        <5> HIDE DEF p, r
        <5>3. (p + 1) * b = b * p + b /\ b * p \in Nat
          BY <5>1, <5>2
        <5> QED
          BY <5>1, <5>2, <5>3 DEF p, b
      <4> HIDE DEF q, D
      <4> QED
        BY <1>4, <2>2, <4>1
    <3> HIDE DEF D, q
    <3>2. h \in Nat /\ q(l) = 2 * h /\ q(l) + 1 = 2 * h + 1
      BY <2>2, <2>3
    <3> HIDE DEF h
    <3>3. D[l + 1][h] = Compress(l, D[l][2 * h], D[l][2 * h + 1])
      BY <1>2, <3>2
    <3>4. C[l + 1] = Compress(l, C[l], Empty[l])
      BY <1>1, <2>3
    <3> QED
      BY <2>1, <2>2, <3>1, <3>2, <3>3, <3>4 DEF h
  <2>4. CASE Bit(n, l) # 0
    <3>1. t.filled[l] = D[l][q(l) - 1]
      BY <2>1, <2>4, LeftNode
    <3> HIDE DEF D, q, t
    <3>2. h \in Nat /\ q(l) = 2 * h + 1 /\ q(l) - 1 = 2 * h
      BY <2>2, <2>4
    <3> HIDE DEF h
    <3>3. D[l + 1][h] = Compress(l, D[l][2 * h], D[l][2 * h + 1])
      BY <1>2, <3>2
    <3>4. C[l + 1] = Compress(l, t.filled[l], C[l])
      BY <1>1, <2>4
    <3> QED
      BY <2>1, <2>2, <3>1, <3>2, <3>3, <3>4 DEF h
  <2> QED
    BY <2>3, <2>4
<1> HIDE DEF S
<1>7. \A l \in Nat : l \in S
  BY <1>5, <1>6, Pow2Rec!SetInduction
<1> QED
  BY <1>7, DepthAssumption DEF S, C

(* insert turns the frontier of a prefix into the frontier of the prefix that *)
(* is one leaf longer, as long as the tree has room.                        *)
THEOREM InsertIsFrontier ==
    ASSUME NEW ls, NEW n \in Nat, n < Capacity
    PROVE  insert(FrontierOf(ls, n), ls[n + 1]) = FrontierOf(ls, n + 1)
<1> DEFINE t == FrontierOf(ls, n)
           C == Climb(t, ls[n + 1])
           D == Digest(Prefix(ls, n + 1))
           u == FrontierOf(ls, n + 1)
<1>1. \A l \in 0 .. Depth : C[l] = D[l][n \div Pow2[l]]
  BY ClimbDigest
<1>2. t.next_index = n /\ u.next_index = n + 1 /\ u.root = D[Depth][0]
  BY DEF FrontierOf, RootOf
<1>3. insert(t, ls[n + 1]) =
        [filled     |-> [l \in Levels |-> IF Bit(n, l) = 0 THEN C[l] ELSE t.filled[l]],
         next_index |-> n + 1,
         root       |-> C[Depth]]
  BY <1>2 DEF insert
<1>4. C[Depth] = D[Depth][0]
  <2>1. n \div Pow2[Depth] = 0
    <3>1. Pow2[Depth] \in Nat /\ Pow2[Depth] >= 1
      BY Pow2Positive, DepthAssumption
    <3> QED
      BY <3>1, DivUnique DEF Capacity
  <2> HIDE DEF C, D
  <2> QED
    BY <1>1, <2>1, DepthAssumption
<1>5. ASSUME NEW l \in Levels
      PROVE  u.filled[l] = IF Bit(n, l) = 0 THEN C[l] ELSE t.filled[l]
  <2>1. CASE Bit(n, l) = 0
    <3>1. LastEven(n + 1, l) = n \div Pow2[l]
      BY <2>1, (n + 1) - 1 = n DEF LastEven, Bit
    <3>2. u.filled[l] = D[l][n \div Pow2[l]]
      BY <3>1, n + 1 # 0 DEF FrontierOf
    <3>3. l \in 0 .. Depth
      BY DepthAssumption DEF Levels
    <3> HIDE DEF C, D, u, t
    <3> QED
      BY <1>1, <2>1, <3>2, <3>3
  <2>2. CASE Bit(n, l) # 0
    BY <2>2, LeftNode
  <2> QED
    BY <2>1, <2>2
<1>6. /\ u.filled = [l \in Levels |-> u.filled[l]]
      /\ u = [filled |-> u.filled, next_index |-> u.next_index, root |-> u.root]
  BY DEF FrontierOf
<1> HIDE DEF C, D, u, t
<1> QED
  BY <1>2, <1>3, <1>4, <1>5, <1>6 DEF t, u

\* The empty tree is the frontier of no leaves.
LEMMA NewIsFrontier == \A ls : NewFrontier = FrontierOf(ls, 0)
<1> SUFFICES ASSUME NEW ls PROVE NewFrontier = FrontierOf(ls, 0)
  OBVIOUS
<1>1. RootOf(ls, 0) = Empty[Depth]
  <2> DEFINE a == Prefix(ls, 0)
  <2>1. \A k \in Nat : k >= 0 => a[k] = Zero
    BY DEF Prefix
  <2> HIDE DEF a
  <2>2. \A l, i \in Nat : i * Pow2[l] >= 0 => Digest(a)[l][i] = Empty[l]
    BY <2>1, DigestBeyond
  <2>3. 0 * Pow2[Depth] >= 0
    BY Pow2Positive, DepthAssumption
  <2> QED
    BY <2>2, <2>3, DepthAssumption DEF RootOf, a
<1> QED
  BY <1>1 DEF NewFrontier, FrontierOf

\* The frontier of a prefix depends on no leaf after it.
LEMMA FrontierPrefix ==
    ASSUME NEW s, NEW t, NEW n \in Nat, \A k \in 1 .. n : s[k] = t[k]
    PROVE  FrontierOf(s, n) = FrontierOf(t, n)
<1>1. Prefix(s, n) = Prefix(t, n)
  <2>1. \A i \in Nat : i < n => s[i + 1] = t[i + 1]
    OBVIOUS
  <2> QED
    BY <2>1 DEF Prefix
<1> QED
  BY <1>1 DEF FrontierOf, RootOf

\* So does a run of inserts.
LEMMA InsertAllFrontier ==
    ASSUME NEW ls, NEW n \in Nat, NEW m \in Nat, n + m <= Capacity, NEW sub,
           \A i \in 1 .. m : sub[i] = ls[n + i]
    PROVE  \A i \in 0 .. m : InsertAll(FrontierOf(ls, n), sub)[i] = FrontierOf(ls, n + i)
<1> DEFINE A == InsertAll(FrontierOf(ls, n), sub)
           S == {i \in Nat : i <= m => A[i] = FrontierOf(ls, n + i)}
<1>1. A[0] = FrontierOf(ls, n) /\ \A i \in Nat : A[i + 1] = insert(A[i], sub[i + 1])
  BY InsertAllEquation
<1>2. Capacity \in Nat
  BY Pow2Positive, DepthAssumption DEF Capacity
<1> HIDE DEF A
<1>3. 0 \in S
  BY <1>1, n + 0 = n
<1>4. ASSUME NEW i \in Nat, i \in S PROVE i + 1 \in S
  <2> SUFFICES ASSUME i + 1 <= m PROVE A[i + 1] = FrontierOf(ls, n + (i + 1))
    OBVIOUS
  <2>1. A[i] = FrontierOf(ls, n + i)
    BY <1>4
  <2>2. A[i + 1] = insert(A[i], sub[i + 1])
    BY <1>1
  <2> DEFINE p == n + i
  <2>3. p \in Nat /\ p < Capacity /\ n + (i + 1) = p + 1
    BY <1>2
  <2>4. sub[i + 1] = ls[p + 1]
    BY <2>3
  <2> HIDE DEF p
  <2>5. insert(FrontierOf(ls, p), ls[p + 1]) = FrontierOf(ls, p + 1)
    BY <2>3, InsertIsFrontier
  <2> QED
    BY <2>1, <2>2, <2>3, <2>4, <2>5 DEF p
<1> HIDE DEF S
<1>5. \A i \in Nat : i \in S
  BY <1>3, <1>4, InsertRec!SetInduction
<1> QED
  BY <1>5 DEF S, A

-----------------------------------------------------------------------------
(* Plans.                                                                  *)

\* The state of the chain with the first n leaves confirmed, and the update that
\* takes it j leaves further.
ChainAt(ls, n) ==
    [root |-> FrontierOf(ls, n).root, count |-> n,
     commit |-> frontier_commit(FrontierOf(ls, n).filled)]

Update(ls, s, j) ==
    LET old == ChainAt(ls, s)
        new == ChainAt(ls, s + j)
    IN  [new_root |-> new.root, new_frontier_commit |-> new.commit, j |-> j,
         proof |-> [old_root |-> old.root, new_root |-> new.root, j |-> j,
                    start_idx |-> s, old_frontier_commit |-> old.commit,
                    new_frontier_commit |-> new.commit,
                    cmxs |-> Padded(SubSeq(ls, s + 1, s + j))]]

From(u) == u.proof.start_idx
To(u) == u.proof.start_idx + u.j

UpdateOk(ls, u) ==
    /\ u.proof.start_idx \in Nat
    /\ u.j \in 1 .. MaxBatch
    /\ To(u) <= Len(ls)
    /\ u = Update(ls, From(u), u.j)

\* A transaction: updates each of which starts where the one before it ends.
TxOk(ls, tx) ==
    /\ Len(tx) \in 1 .. MaxProofs
    /\ DOMAIN tx = 1 .. Len(tx)
    /\ \A k \in 1 .. Len(tx) : UpdateOk(ls, tx[k])
    /\ \A k \in 1 .. Len(tx) - 1 : From(tx[k + 1]) = To(tx[k])

Last(tx) == tx[Len(tx)]

\* Planning one segment from the frontier of a prefix gives the update of that
\* segment, with a witness the prover accepts, and the frontier after it.
LEMMA PlanBatchExact ==
    ASSUME NEW ls, NEW s \in Nat, NEW j \in Nat, s + j <= Capacity, j <= MaxBatch,
           Len(SubSeq(ls, s + 1, s + j)) = j,
           \A i \in 1 .. j : SubSeq(ls, s + 1, s + j)[i] = ls[s + i]
    PROVE  LET plan == plan_batch(FrontierOf(ls, s), SubSeq(ls, s + 1, s + j))
           IN  /\ plan.tree = FrontierOf(ls, s + j)
               /\ RootUpdateArgs(plan.input) = Update(ls, s, j)
               /\ Provable(plan.input)
<1> DEFINE t == FrontierOf(ls, s)
           sub == SubSeq(ls, s + 1, s + j)
           post == FrontierOf(ls, s + j)
           plan == plan_batch(t, sub)
<1>1. t.next_index = s
  BY DEF FrontierOf
<1>2. InsertAll(t, sub)[Len(sub)] = post
  <2> HIDE DEF sub
  <2>1. \A i \in 0 .. j : InsertAll(t, sub)[i] = FrontierOf(ls, s + i)
    BY InsertAllFrontier DEF sub
  <2> QED
    BY <2>1 DEF sub
<1>3. InsertAll(t, Padded(sub))[j] = post
  <2>1. \A i \in 1 .. j : Padded(sub)[i] = ls[s + i]
    <3> HIDE DEF sub
    <3>1. \A i \in 1 .. j : Padded(sub)[i] = sub[i]
      BY BatchAssumption DEF Padded, sub
    <3> QED
      BY <3>1 DEF sub
  <2> DEFINE p == Padded(sub)
  <2> HIDE DEF p
  <2>2. \A i \in 0 .. j : InsertAll(t, p)[i] = FrontierOf(ls, s + i)
    BY <2>1, InsertAllFrontier DEF p
  <2> QED
    BY <2>2 DEF p
<1>4. from_parts(t.filled, s, t.root) = t
  BY DEF from_parts, FrontierOf
<1> HIDE DEF t, sub, post
<1>5. plan.tree = post
  BY <1>2 DEF plan_batch
<1>6. plan.input = [old_root |-> t.root, new_root |-> post.root, j |-> j, start_idx |-> s,
                    old_frontier_commit |-> frontier_commit(t.filled),
                    new_frontier_commit |-> frontier_commit(post.filled),
                    cmxs |-> Padded(sub), filled_start |-> t.filled]
  BY <1>1, <1>2 DEF plan_batch, sub
<1>7. RootUpdateArgs(plan.input) = Update(ls, s, j)
  <2> HIDE DEF plan
  <2> QED
    BY <1>6 DEF RootUpdateArgs, PublicSignals, Update, ChainAt, t, sub, post
<1>8. Provable(plan.input)
  <2> HIDE DEF plan
  <2> QED
    BY <1>3, <1>4, <1>6 DEF Provable
<1> QED
  BY <1>5, <1>7, <1>8 DEF t, sub, post

\* The length and the elements of a segment of a sequence.
LEMMA Segment ==
    ASSUME NEW X, NEW ls \in Seq(X), NEW a \in Nat, NEW b \in Nat, a <= b, b <= Len(ls)
    PROVE  /\ SubSeq(ls, a + 1, b) \in Seq(X)
           /\ Len(SubSeq(ls, a + 1, b)) = b - a
           /\ \A i \in 1 .. b - a : SubSeq(ls, a + 1, b)[i] = ls[a + i]
           /\ SubSeq(ls, a + 1, b) = [i \in 1 .. b - a |-> ls[a + i]]
<1>1. SubSeq(ls, a + 1, b) = [i \in 1 .. b - a |-> ls[a + i]]
  <2>1. SubSeq(ls, a + 1, b) = [i \in 1 .. (1 + b - (a + 1)) |-> ls[i + (a + 1) - 1]]
    OBVIOUS
  <2>2. 1 + b - (a + 1) = b - a /\ \A i \in 1 .. b - a : i + (a + 1) - 1 = a + i
    OBVIOUS
  <2> QED
    BY <2>1, <2>2
<1>2. b - a \in Nat /\ \A i \in 1 .. b - a : a + i \in 1 .. Len(ls)
  OBVIOUS
<1>3. [i \in 1 .. b - a |-> ls[a + i]] \in Seq(X)
  BY <1>2
<1> QED
  BY <1>1, <1>2, <1>3

\* A segment of the segment that starts after s is a segment of the whole.
LEMMA SegmentOfSegment ==
    ASSUME NEW X, NEW ls \in Seq(X), NEW s \in Nat, NEW n \in Nat, s + n <= Len(ls),
           NEW a \in Nat, NEW b \in Nat, a <= b, b <= n
    PROVE  SubSeq(SubSeq(ls, s + 1, s + n), a + 1, b) = SubSeq(ls, (s + a) + 1, s + b)
<1> DEFINE sub == SubSeq(ls, s + 1, s + n)
<1>1. sub \in Seq(X) /\ Len(sub) = n /\ \A i \in 1 .. n : sub[i] = ls[s + i]
  <2> DEFINE e == s + n
  <2>1. e \in Nat /\ s <= e /\ e <= Len(ls) /\ e - s = n
    OBVIOUS
  <2> HIDE DEF e
  <2>2. /\ SubSeq(ls, s + 1, e) \in Seq(X) /\ Len(SubSeq(ls, s + 1, e)) = e - s
        /\ \A i \in 1 .. e - s : SubSeq(ls, s + 1, e)[i] = ls[s + i]
    BY <2>1, Segment, SMTT(30)
  <2> QED
    BY <2>1, <2>2 DEF e
<1> HIDE DEF sub
<1>2. SubSeq(sub, a + 1, b) = [i \in 1 .. b - a |-> sub[a + i]]
  BY <1>1, Segment
<1>3. SubSeq(ls, (s + a) + 1, s + b) = [i \in 1 .. b - a |-> ls[s + (a + i)]]
  <2> DEFINE c == s + a
             d == s + b
  <2>1. c \in Nat /\ d \in Nat /\ c <= d /\ d <= Len(ls) /\ d - c = b - a
        /\ \A i \in Nat : c + i = s + (a + i)
    OBVIOUS
  <2> HIDE DEF c, d
  <2>2. SubSeq(ls, c + 1, d) = [i \in 1 .. d - c |-> ls[c + i]]
    BY <2>1, Segment
  <2>3. SubSeq(ls, c + 1, d) = [i \in 1 .. b - a |-> ls[s + (a + i)]]
    <3>1. \A i \in 1 .. b - a : ls[c + i] = ls[s + (a + i)]
      BY <2>1
    <3> HIDE DEF c, d
    <3>2. 1 .. d - c = 1 .. b - a
      BY <2>1
    <3> QED
      BY <2>2, <3>1, <3>2
  <2> QED
    BY <2>3 DEF c, d
<1>4. \A i \in 1 .. b - a : sub[a + i] = ls[s + (a + i)]
  BY <1>1
<1> QED
  BY <1>2, <1>3, <1>4 DEF sub

\* K chunks are what n leaves fill: all but the last are full, and the last is not
\* empty.
Fill(n, K) ==
    /\ K \in Nat /\ K >= 1 /\ n <= K * MaxBatch
    /\ \A k \in 0 .. K - 1 : k * MaxBatch \in Nat /\ k * MaxBatch < n
    /\ \A P \in Nat : n <= MaxBatch * P => K <= P

\* Rounding up gives the number of chunks.
LEMMA ChunkCount ==
    ASSUME NEW n \in Nat, n >= 1
    PROVE  Fill(n, (n + MaxBatch - 1) \div MaxBatch)
<1> DEFINE B == MaxBatch
           m == n + B - 1
           K == m \div B
           r == m % B
<1>1. B \in Nat /\ B >= 1 /\ m \in Nat
  BY BatchAssumption
<1> HIDE DEF B
<1>2. K \in Nat /\ r \in 0 .. B - 1 /\ m = B * K + r
  BY <1>1, DivMod
<1> HIDE DEF K, r
<1>3. B * K \in Nat /\ B * K = K * B /\ B * K >= n /\ B * K <= n + B - 1
  BY <1>1, <1>2 DEF m
<1>4. K >= 1
  <2>1. K # 0
    BY <1>1, <1>3
  <2> QED
    BY <1>2, <2>1
<1>5. ASSUME NEW k \in 0 .. K - 1 PROVE k * B \in Nat /\ k * B < n
  <2>1. k \in Nat /\ k + 1 <= K /\ k * B \in Nat
    BY <1>1, <1>2
  <2>2. (k + 1) * B = k * B + B
    BY <1>1, <2>1
  <2>3. (k + 1) * B <= K * B
    BY <1>1, <1>2, <2>1
  <2> QED
    BY <1>1, <1>3, <2>1, <2>2, <2>3
<1>6. ASSUME NEW P \in Nat, n <= B * P PROVE K <= P
  <2>1. SUFFICES ASSUME P + 1 <= K PROVE FALSE
    BY <1>2
  <2>2. P * B < n
    BY <1>2, <1>5, <2>1, P \in 0 .. K - 1
  <2>3. P * B = B * P
    BY <1>1
  <2> QED
    BY <1>1, <1>6, <2>2, <2>3
<1> QED
  BY <1>2, <1>3, <1>4, <1>5, <1>6 DEF Fill, K, B, m

\* Where the first k chunks of n leaves end.
Cut(n, k) == IF k * MaxBatch <= n THEN k * MaxBatch ELSE n

\* A chunk holds between one leaf and MaxBatch of them.
LEMMA CutBounds ==
    ASSUME NEW n \in Nat, n >= 1, NEW k \in Nat, k * MaxBatch < n
    PROVE  /\ Cut(n, k) = k * MaxBatch /\ Cut(n, k) \in Nat
           /\ Cut(n, k + 1) \in Nat
           /\ Cut(n, k + 1) - Cut(n, k) \in 1 .. MaxBatch
           /\ Cut(n, k + 1) <= n
<1> DEFINE B == MaxBatch
           p == k * B
           q == (k + 1) * B
<1>1. B \in Nat /\ B >= 1
  BY BatchAssumption
<1> HIDE DEF B
<1>2. p \in Nat /\ q = p + B
  BY <1>1
<1> HIDE DEF p, q
<1>3. Cut(n, k) = p
  BY <1>2 DEF Cut, p, B
<1>4. Cut(n, k + 1) = IF q <= n THEN q ELSE n
  BY DEF Cut, q, B
<1>5. p < n
  BY DEF p, B
<1>6. Cut(n, k + 1) \in Nat /\ Cut(n, k + 1) - p \in 1 .. B /\ Cut(n, k + 1) <= n
  BY <1>1, <1>2, <1>4, <1>5
<1> QED
  BY <1>2, <1>3, <1>6 DEF p, B

(* Planning a run of leaves from the frontier of the prefix before it gives  *)
(* a transaction of chained updates from that prefix to its end, and the    *)
(* frontier there.  The prover accepts every segment of it.                 *)
THEOREM PlanIsExact ==
    ASSUME NEW X, NEW ls \in Seq(X), NEW s \in Nat, NEW n \in Nat, n >= 1,
           s + n <= Len(ls), s + n <= Capacity, n <= MaxBatch * MaxProofs
    PROVE  LET plan == plan_batches(FrontierOf(ls, s), SubSeq(ls, s + 1, s + n))
               tx == Transaction(plan.inputs)
           IN  /\ TxOk(ls, tx) /\ From(tx[1]) = s /\ To(Last(tx)) = s + n
               /\ plan.tree = FrontierOf(ls, s + n)
               /\ \A k \in DOMAIN plan.inputs : Provable(plan.inputs[k])
<1> DEFINE t == FrontierOf(ls, s)
           sub == SubSeq(ls, s + 1, s + n)
           K == Chunks(sub)
           c(k) == s + Cut(n, k)
           U(k) == Update(ls, c(k), Cut(n, k + 1) - Cut(n, k))
           tx == Transaction(plan_batches(t, sub).inputs)
<1>1. Len(sub) = n
  <2> DEFINE e == s + n
  <2>1. e \in Nat /\ s <= e /\ e <= Len(ls) /\ e - s = n
    OBVIOUS
  <2> HIDE DEF e
  <2>2. Len(SubSeq(ls, s + 1, e)) = e - s
    BY <2>1, Segment
  <2> QED
    BY <2>1, <2>2 DEF e
<1>2. /\ K \in Nat /\ K >= 1 /\ K <= MaxProofs /\ n <= K * MaxBatch
      /\ \A k \in 0 .. K - 1 : k * MaxBatch \in Nat /\ k * MaxBatch < n
  <2>1. Fill(n, K)
    BY <1>1, ChunkCount DEF Chunks
  <2> HIDE DEF K
  <2> QED
    BY <2>1, BatchAssumption DEF Fill
<1>3. PICK T : Plans(t, sub, T)
  <2> HIDE DEF t, sub
  <2> QED
    BY PlanEquation
<1>4. ASSUME NEW k \in 0 .. K - 1
      PROVE  /\ Cut(n, k) \in Nat /\ Cut(n, k + 1) \in Nat /\ Cut(n, k + 1) <= n
             /\ Cut(n, k + 1) - Cut(n, k) \in 1 .. MaxBatch
             /\ Cut(n, k) = k * MaxBatch
  BY <1>2, CutBounds
<1>5. ASSUME NEW k \in 0 .. K - 1
      PROVE  LET plan == plan_batch(FrontierOf(ls, c(k)), Chunk(sub, k + 1))
             IN  /\ plan.tree = FrontierOf(ls, c(k + 1))
                 /\ RootUpdateArgs(plan.input) = U(k)
                 /\ Provable(plan.input)
  <2> DEFINE a == Cut(n, k)
             b == Cut(n, k + 1)
             j == b - a
             p == s + a
  <2>1. a \in Nat /\ b \in Nat /\ b <= n /\ j \in 1 .. MaxBatch /\ a = k * MaxBatch
    BY <1>4
  <2>2. Chunk(sub, k + 1) = SubSeq(sub, a + 1, b)
    <3>1. (k + 1) - 1 = k
      BY <1>2
    <3> HIDE DEF sub
    <3> QED
      BY <1>1, <2>1, <3>1 DEF Chunk, Cut
  <2> HIDE DEF a, b
  <2>3. SubSeq(sub, a + 1, b) = SubSeq(ls, p + 1, p + j)
    <3>1. a <= b
      BY <2>1, BatchAssumption
    <3>2. SubSeq(sub, a + 1, b) = SubSeq(ls, (s + a) + 1, s + b)
      <4>1. a \in Nat /\ b \in Nat /\ b <= n
        BY <2>1
      <4> QED
        BY <3>1, <4>1, SegmentOfSegment
    <3>3. s + b = p + j
      BY <2>1
    <3> QED
      BY <3>2, <3>3
  <2>4. /\ j \in Nat /\ p \in Nat /\ p + j = s + b /\ p + j <= Len(ls) /\ p + j <= Capacity
    <3>1. Capacity \in Nat /\ Len(ls) \in Nat
      BY Pow2Positive, DepthAssumption DEF Capacity
    <3> QED
      BY <2>1, <3>1, BatchAssumption
  <2> HIDE DEF j, p
  <2>5. /\ Len(SubSeq(ls, p + 1, p + j)) = j
        /\ \A i \in 1 .. j : SubSeq(ls, p + 1, p + j)[i] = ls[p + i]
    <3> DEFINE e == p + j
    <3>1. e \in Nat /\ p <= e /\ e <= Len(ls) /\ e - p = j
      BY <2>4
    <3> HIDE DEF e
    <3>2. /\ Len(SubSeq(ls, p + 1, e)) = e - p
          /\ \A i \in 1 .. e - p : SubSeq(ls, p + 1, e)[i] = ls[p + i]
      BY <2>4, <3>1, Segment
    <3> QED
      BY <3>1, <3>2 DEF e
  <2>6. LET plan == plan_batch(FrontierOf(ls, p), SubSeq(ls, p + 1, p + j))
        IN  /\ plan.tree = FrontierOf(ls, p + j)
            /\ RootUpdateArgs(plan.input) = Update(ls, p, j)
            /\ Provable(plan.input)
    <3>1. j <= MaxBatch
      BY <2>1, BatchAssumption DEF j
    <3> QED
      BY <2>4, <2>5, <3>1, PlanBatchExact
  <2>7. c(k) = p /\ c(k + 1) = p + j /\ U(k) = Update(ls, p, j)
    BY <2>4 DEF p, j, a, b
  <2> HIDE DEF c, U
  <2> QED
    BY <2>2, <2>3, <2>6, <2>7
<1>6. c(0) = s /\ c(K) = s + n
  <2>1. Cut(n, 0) = 0
    BY <1>2, 0 \in 0 .. K - 1, <1>4, BatchAssumption, 0 * MaxBatch = 0
  <2>2. Cut(n, K) = n
    <3> DEFINE x == K * MaxBatch
    <3>1. x \in Nat /\ n <= x
      BY <1>2, BatchAssumption
    <3> HIDE DEF x, K
    <3> QED
      BY <3>1 DEF Cut, x
  <2> QED
    BY <2>1, <2>2
<1>7. /\ T[0] = t
      /\ \A k \in Nat : T[k + 1] = plan_batch(T[k], Chunk(sub, k + 1)).tree
      /\ plan_batches(t, sub).tree = T[K]
      /\ plan_batches(t, sub).inputs =
           [k \in 1 .. K |-> plan_batch(T[k - 1], Chunk(sub, k)).input]
  <2> HIDE DEF t, sub
  <2> QED
    BY <1>3 DEF Plans
<1> HIDE DEF t, sub, K, c, U, tx
<1> DEFINE S == {k \in Nat : k <= K => T[k] = FrontierOf(ls, c(k))}
<1>8. 0 \in S
  BY <1>7, <1>6 DEF t
<1>9. ASSUME NEW k \in Nat, k \in S PROVE k + 1 \in S
  <2> SUFFICES ASSUME k + 1 <= K PROVE T[k + 1] = FrontierOf(ls, c(k + 1))
    OBVIOUS
  <2>1. k \in 0 .. K - 1 /\ T[k] = FrontierOf(ls, c(k))
    BY <1>2, <1>9
  <2> QED
    BY <1>7, <1>5, <2>1
<1> HIDE DEF S
<1>10. \A k \in Nat : k \in S
  BY <1>8, <1>9, PlanRec!SetInduction
<1>11. \A k \in Nat : k <= K => T[k] = FrontierOf(ls, c(k))
  BY <1>10 DEF S
<1>12. tx = [k \in 1 .. K |-> U(k - 1)]
  <2> DEFINE inputs == [k \in 1 .. K |-> plan_batch(T[k - 1], Chunk(sub, k)).input]
  <2>1. tx = [k \in 1 .. K |-> RootUpdateArgs(inputs[k])]
    <3>1. plan_batches(t, sub).inputs = inputs
      BY <1>7
    <3>2. tx = Transaction(inputs)
      BY <3>1 DEF tx
    <3>3. DOMAIN inputs = 1 .. K
      OBVIOUS
    <3> HIDE DEF inputs
    <3> QED
      BY <3>2, <3>3 DEF Transaction
  <2>2. ASSUME NEW k \in 1 .. K PROVE RootUpdateArgs(inputs[k]) = U(k - 1)
    <3>1. k - 1 \in 0 .. K - 1 /\ (k - 1) + 1 = k /\ k - 1 \in Nat /\ k - 1 <= K
      BY <1>2
    <3>2. inputs[k] = plan_batch(FrontierOf(ls, c(k - 1)), Chunk(sub, k)).input
      BY <1>11, <3>1
    <3> QED
      BY <1>5, <3>1, <3>2
  <2> HIDE DEF inputs
  <2> QED
    BY <2>1, <2>2
<1>13. Len(tx) = K
  BY <1>2, <1>12
<1>14. ASSUME NEW k \in 1 .. K
       PROVE  UpdateOk(ls, tx[k]) /\ From(tx[k]) = c(k - 1) /\ To(tx[k]) = c(k)
  <2> DEFINE a == Cut(n, k - 1)
             b == Cut(n, k)
  <2>1. /\ a \in Nat /\ b \in Nat /\ b <= n /\ b - a \in 1 .. MaxBatch
        /\ tx[k] = Update(ls, s + a, b - a) /\ c(k - 1) = s + a /\ c(k) = s + b
    <3>1. k - 1 \in 0 .. K - 1 /\ (k - 1) + 1 = k
      BY <1>2
    <3>2. tx[k] = U(k - 1)
      BY <1>12
    <3> QED
      BY <1>4, <3>1, <3>2 DEF U, c
  <2> HIDE DEF a, b
  <2>2. From(tx[k]) = s + a /\ tx[k].j = b - a /\ tx[k].proof.start_idx = s + a
    BY <2>1 DEF Update, From
  <2>3. To(tx[k]) = s + b /\ s + b <= Len(ls) /\ s + a \in Nat
    BY <2>1, <2>2 DEF To
  <2> QED
    BY <2>1, <2>2, <2>3 DEF UpdateOk
<1>15. TxOk(ls, tx)
  <2>1. ASSUME NEW k \in 1 .. K - 1 PROVE From(tx[k + 1]) = To(tx[k])
    <3>1. k \in 1 .. K /\ k + 1 \in 1 .. K /\ (k + 1) - 1 = k
      BY <1>2
    <3> QED
      BY <1>14, <3>1
  <2> QED
    <3>1. Len(tx) \in 1 .. MaxProofs
      BY <1>2, <1>13, BatchAssumption
    <3>2. DOMAIN tx = 1 .. Len(tx)
      BY <1>12, <1>13
    <3>3. \A k \in 1 .. Len(tx) : UpdateOk(ls, tx[k])
      BY <1>13, <1>14
    <3>4. \A k \in 1 .. Len(tx) - 1 : From(tx[k + 1]) = To(tx[k])
      BY <1>13, <2>1
    <3> QED
      BY <3>1, <3>2, <3>3, <3>4 DEF TxOk
<1>16. From(tx[1]) = s /\ To(Last(tx)) = s + n
  <2>1. 1 \in 1 .. K /\ K \in 1 .. K /\ 1 - 1 = 0
    BY <1>2
  <2>2. From(tx[1]) = c(0)
    BY <1>14, <2>1
  <2>3. To(tx[K]) = c(K)
    BY <1>14, <2>1
  <2> QED
    BY <1>6, <1>13, <2>2, <2>3 DEF Last
<1>17. plan_batches(t, sub).tree = FrontierOf(ls, s + n)
  <2>1. T[K] = FrontierOf(ls, c(K))
    BY <1>2, <1>11
  <2> QED
    BY <1>6, <1>7, <2>1
<1>18. \A k \in DOMAIN plan_batches(t, sub).inputs : Provable(plan_batches(t, sub).inputs[k])
  <2> DEFINE inputs == [k \in 1 .. K |-> plan_batch(T[k - 1], Chunk(sub, k)).input]
  <2>1. ASSUME NEW k \in 1 .. K PROVE Provable(inputs[k])
    <3>1. k - 1 \in 0 .. K - 1 /\ (k - 1) + 1 = k /\ k - 1 \in Nat /\ k - 1 <= K
      BY <1>2
    <3>2. inputs[k] = plan_batch(FrontierOf(ls, c(k - 1)), Chunk(sub, k)).input
      BY <1>11, <3>1
    <3> QED
      BY <1>5, <3>1, <3>2
  <2>2. plan_batches(t, sub).inputs = inputs /\ DOMAIN inputs = 1 .. K
    BY <1>7
  <2> HIDE DEF inputs
  <2> QED
    BY <2>1, <2>2
<1> QED
  BY <1>15, <1>16, <1>17, <1>18 DEF t, sub, tx

-----------------------------------------------------------------------------
(* The inductive invariant.  The chain is the state of a prefix of the     *)
(* queue; every transaction, wherever it waits, is a chain of exact        *)
(* updates; and a crank's tree, clone and receipt are about that prefix.   *)

Field == {FieldElement(n) : n \in Nat}

\* t is the frontier of a prefix that a chain with n leaves confirmed has confirmed.
Confirmed(q, n, t) ==
    /\ t.next_index \in 0 .. n
    /\ t = FrontierOf(q, t.next_index)

\* The transaction, the clone and the receipt of a crank are about its tree.
InFlight(q, n, r) ==
    /\ r.receipt \in {"none", "success", "reverted"}
    /\ IF r.tx = << >> THEN r.receipt = "none"
       ELSE /\ TxOk(q, r.tx)
            /\ From(r.tx[1]) = r.tree.next_index
            /\ r.clone = FrontierOf(q, To(Last(r.tx)))
            /\ r.receipt = "success" => n >= To(Last(r.tx))
            /\ r.receipt = "reverted" => n > r.tree.next_index

Memory(r) == [tree |-> r.tree, clone |-> r.clone, tx |-> r.tx, receipt |-> r.receipt]

IInv ==
    /\ queue \in Seq(Field) /\ Len(queue) <= Len(Arrivals)
    /\ chain.count \in 0 .. Len(queue)
    /\ chain = ChainAt(queue, chain.count)
    /\ faults \in 0 .. MaxFaults
    /\ \A tx \in mempool : tx.by \in Cranks /\ TxOk(queue, tx.updates)
    /\ crank = [c \in Cranks |-> Memory(crank[c])]
    /\ persisted = [c \in Cranks |-> persisted[c]]
    /\ \A c \in Cranks :
          /\ Confirmed(queue, chain.count, crank[c].tree)
          /\ Confirmed(queue, chain.count, persisted[c])
          /\ InFlight(queue, chain.count, crank[c])

\* What an update, and a transaction, is for an older queue it is for a newer one.
LEMMA Grown ==
    ASSUME NEW X, NEW ls \in Seq(X), NEW x
    PROVE  LET new == Append(ls, x)
           IN  /\ \A n \in 0 .. Len(ls) : FrontierOf(new, n) = FrontierOf(ls, n)
               /\ \A u : UpdateOk(ls, u) => UpdateOk(new, u)
               /\ \A tx : TxOk(ls, tx) => TxOk(new, tx)
<1> DEFINE new == Append(ls, x)
<1>1. /\ Len(ls) \in Nat /\ Len(new) = Len(ls) + 1
      /\ \A k \in 1 .. Len(ls) : new[k] = ls[k]
  OBVIOUS
<1>2. new \in Seq(X \union {x}) /\ ls \in Seq(X \union {x})
  OBVIOUS
<1> HIDE DEF new
<1>3. \A n \in 0 .. Len(ls) : FrontierOf(new, n) = FrontierOf(ls, n)
  <2> TAKE n \in 0 .. Len(ls)
  <2>1. n \in Nat /\ \A k \in 1 .. n : new[k] = ls[k]
    BY <1>1
  <2> QED
    BY <2>1, FrontierPrefix
<1>4. ASSUME NEW u, UpdateOk(ls, u) PROVE UpdateOk(new, u)
  <2> DEFINE s == u.proof.start_idx
             j == u.j
             e == s + j
  <2>1. /\ s \in Nat /\ j \in 1 .. MaxBatch /\ e <= Len(ls) /\ u = Update(ls, s, j)
        /\ From(u) = s /\ To(u) = e
    BY <1>4 DEF UpdateOk, From, To
  <2> HIDE DEF s, j
  <2>2. s \in 0 .. Len(ls) /\ e \in 0 .. Len(ls) /\ s <= e /\ e - s = j
    BY <1>1, <2>1, BatchAssumption
  <2>3. ChainAt(new, s) = ChainAt(ls, s) /\ ChainAt(new, e) = ChainAt(ls, e)
    BY <1>3, <2>2 DEF ChainAt
  <2>4. SubSeq(new, s + 1, e) = SubSeq(ls, s + 1, e)
    <3> HIDE DEF e
    <3>1. SubSeq(ls, s + 1, e) = [i \in 1 .. e - s |-> ls[s + i]]
      BY <1>1, <1>2, <2>1, <2>2, Segment, SMTT(30)
    <3>2. e \in Nat /\ e <= Len(new)
      BY <1>1, <2>2
    <3>3. SubSeq(new, s + 1, e) = [i \in 1 .. e - s |-> new[s + i]]
      BY <1>2, <2>1, <2>2, <3>2, Segment, SMTT(30)
    <3>4. \A i \in 1 .. e - s : new[s + i] = ls[s + i]
      BY <1>1, <2>1, <2>2
    <3> QED
      BY <3>1, <3>3, <3>4
  <2>5. Update(new, s, j) = Update(ls, s, j)
    BY <2>3, <2>4 DEF Update
  <2>6. e <= Len(new)
    BY <1>1, <2>2
  <2> QED
    BY <2>1, <2>5, <2>6 DEF UpdateOk, s, j
<1>5. ASSUME NEW tx, TxOk(ls, tx) PROVE TxOk(new, tx)
  BY <1>4, <1>5 DEF TxOk
<1> QED
  BY <1>3, <1>4, <1>5 DEF new

\* A transaction spans at least one leaf and no more than its proofs can hold.
LEMMA Span ==
    ASSUME NEW ls, NEW tx, TxOk(ls, tx), Len(ls) \in Nat
    PROVE  /\ tx # << >> /\ 1 \in 1 .. Len(tx) /\ Len(tx) \in 1 .. Len(tx)
           /\ From(tx[1]) \in Nat /\ To(Last(tx)) \in Nat
           /\ From(tx[1]) < To(Last(tx)) /\ To(Last(tx)) <= Len(ls)
           /\ To(Last(tx)) <= From(tx[1]) + MaxBatch * MaxProofs
<1> DEFINE n == Len(tx)
           f == From(tx[1])
           S == {k \in Nat : k \in 1 .. n => f < To(tx[k]) /\ To(tx[k]) <= f + MaxBatch * k}
<1>1. /\ n \in Nat /\ n >= 1 /\ n <= MaxProofs /\ MaxBatch \in Nat
      /\ \A k \in 1 .. n : UpdateOk(ls, tx[k])
      /\ \A k \in 1 .. n - 1 : From(tx[k + 1]) = To(tx[k])
  BY BatchAssumption DEF TxOk
<1>2. ASSUME NEW k \in 1 .. n
      PROVE  /\ From(tx[k]) \in Nat /\ To(tx[k]) \in Nat
             /\ From(tx[k]) < To(tx[k]) /\ To(tx[k]) <= From(tx[k]) + MaxBatch
             /\ To(tx[k]) <= Len(ls)
  <2>1. UpdateOk(ls, tx[k])
    BY <1>1
  <2> QED
    BY <1>1, <2>1 DEF UpdateOk, From, To
<1> HIDE DEF n, f
<1>3. tx # << >>
  BY <1>1 DEF n
<1>4. f \in Nat
  BY <1>1, <1>2, 1 \in 1 .. n DEF f
<1>5. 0 \in S
  OBVIOUS
<1>6. ASSUME NEW k \in Nat, k \in S PROVE k + 1 \in S
  <2> SUFFICES ASSUME k + 1 \in 1 .. n
               PROVE  f < To(tx[k + 1]) /\ To(tx[k + 1]) <= f + MaxBatch * (k + 1)
    OBVIOUS
  <2>1. MaxBatch * (k + 1) = MaxBatch * k + MaxBatch /\ MaxBatch * k \in Nat
    BY <1>1
  <2>2. CASE k = 0
    <3>1. From(tx[k + 1]) = f /\ MaxBatch * k = 0
      BY <1>1, <2>2 DEF f
    <3> QED
      BY <1>1, <1>2, <1>4, <2>1, <3>1
  <2>3. CASE k # 0
    <3>1. k \in 1 .. n /\ k \in 1 .. n - 1
      BY <1>1, <2>3
    <3>2. From(tx[k + 1]) = To(tx[k]) /\ f < To(tx[k]) /\ To(tx[k]) <= f + MaxBatch * k
      BY <1>1, <1>6, <3>1
    <3>3. /\ To(tx[k]) \in Nat /\ To(tx[k + 1]) \in Nat /\ To(tx[k]) < To(tx[k + 1])
          /\ To(tx[k + 1]) <= To(tx[k]) + MaxBatch
      BY <1>2, <3>1, <3>2
    <3> QED
      BY <1>1, <1>4, <2>1, <3>2, <3>3
  <2> QED
    BY <2>2, <2>3
<1> HIDE DEF S
<1>7. \A k \in Nat : k \in S
  BY <1>5, <1>6, InsertRec!SetInduction
<1>8. n \in 1 .. n /\ 1 \in 1 .. n
  BY <1>1
<1>9. f < To(tx[n]) /\ To(tx[n]) <= f + MaxBatch * n
  BY <1>7, <1>8 DEF S
<1>10. MaxBatch * n <= MaxBatch * MaxProofs /\ MaxBatch * n \in Nat
       /\ MaxBatch * MaxProofs \in Nat
  BY <1>1, BatchAssumption
<1>11. To(tx[n]) \in Nat /\ To(tx[n]) <= Len(ls)
  BY <1>2, <1>8
<1>12. To(tx[n]) <= f + MaxBatch * MaxProofs
  BY <1>1, <1>4, <1>9, <1>10, <1>11
<1> QED
  BY <1>3, <1>4, <1>8, <1>9, <1>11, <1>12 DEF Last, n, f

-----------------------------------------------------------------------------
(* What the chain does with a transaction.                                 *)

\* The chain accepts an exact update in the state it starts from and in no other.
LEMMA AcceptsExact ==
    ASSUME NEW u, UpdateOk(queue, u), NEW n
    PROVE  Accepts(ChainAt(queue, n), u) <=> n = From(u)
<1> DEFINE st == ChainAt(queue, n)
<1>1. st.count = n /\ st.root = FrontierOf(queue, n).root
      /\ st.commit = frontier_commit(FrontierOf(queue, n).filled)
  BY DEF ChainAt
<1>2. /\ u.proof.start_idx \in Nat /\ u.j \in 1 .. MaxBatch
      /\ From(u) = u.proof.start_idx /\ To(u) = From(u) + u.j /\ To(u) <= Len(queue)
      /\ u = Update(queue, From(u), u.j)
  BY DEF UpdateOk, From, To
<1> HIDE DEF st
<1>3. ASSUME Accepts(st, u) PROVE n = From(u)
  BY <1>1, <1>2, <1>3 DEF Accepts
<1>4. ASSUME n = From(u) PROVE Accepts(st, u)
  <2>1. u.proof =
          [old_root |-> st.root, new_root |-> u.new_root, j |-> u.j,
           start_idx |-> st.count, old_frontier_commit |-> st.commit,
           new_frontier_commit |-> u.new_frontier_commit,
           cmxs |-> Padded(SubSeq(queue, st.count + 1, st.count + u.j))]
    <3> DEFINE s == From(u)
               j == u.j
    <3>1. u = Update(queue, s, j)
      BY <1>2
    <3>2. st.count = s /\ st = ChainAt(queue, s)
      BY <1>1, <1>4 DEF st
    <3> HIDE DEF s, j
    <3>3. u.new_root = ChainAt(queue, s + j).root
          /\ u.new_frontier_commit = ChainAt(queue, s + j).commit /\ u.j = j
      BY <3>1 DEF Update
    <3> QED
      BY <3>1, <3>2, <3>3 DEF Update
  <2>2. st.count + u.j <= Len(queue)
    BY <1>1, <1>2, <1>4
  <2> QED
    BY <1>2, <2>1, <2>2 DEF Accepts
<1> QED
  BY <1>3, <1>4 DEF st

\* Applying an exact update moves the chain to the prefix that it ends at.
LEMMA AppliedExact ==
    ASSUME NEW u, UpdateOk(queue, u)
    PROVE  Applied(ChainAt(queue, From(u)), u) = ChainAt(queue, To(u))
<1> DEFINE s == From(u)
           j == u.j
<1>1. u = Update(queue, s, j) /\ To(u) = s + j
  BY DEF UpdateOk, From, To
<1> HIDE DEF s, j
<1>2. u.new_root = ChainAt(queue, s + j).root
      /\ u.new_frontier_commit = ChainAt(queue, s + j).commit /\ u.j = j
  BY <1>1 DEF Update
<1> QED
  BY <1>1, <1>2 DEF Applied, ChainAt, s

(* A transaction succeeds in the state it was planned from and in no other, *)
(* and takes the chain to the prefix that it ends at.                       *)
LEMMA ExecuteExact ==
    ASSUME NEW tx, TxOk(queue, tx), chain = ChainAt(queue, chain.count), Len(queue) \in Nat
    PROVE  /\ Succeeds(tx) <=> chain.count = From(tx[1])
           /\ Succeeds(tx) => After(tx)[Len(tx)] = ChainAt(queue, To(Last(tx)))
<1> DEFINE n == Len(tx)
           A == After(tx)
           S == {k \in Nat : k \in 1 .. n => /\ A[k - 1] = ChainAt(queue, From(tx[k]))
                                             /\ A[k] = ChainAt(queue, To(tx[k]))}
<1>1. /\ n \in Nat /\ DOMAIN tx = 1 .. n
      /\ \A k \in 1 .. n : UpdateOk(queue, tx[k])
      /\ \A k \in 1 .. n - 1 : From(tx[k + 1]) = To(tx[k])
      /\ 1 \in 1 .. n /\ n \in 1 .. n
  BY Span DEF TxOk
<1>2. A[0] = chain /\ \A k \in Nat : A[k + 1] = Applied(A[k], tx[k + 1])
  BY AfterEquation
<1> HIDE DEF n, A
<1>3. ASSUME Succeeds(tx) PROVE chain.count = From(tx[1])
  <2>1. Accepts(A[1 - 1], tx[1])
    BY <1>1, <1>3 DEF Succeeds, A
  <2>2. Accepts(ChainAt(queue, chain.count), tx[1])
    BY <1>2, <2>1, 1 - 1 = 0
  <2> QED
    BY <1>1, <2>2, AcceptsExact
<1>4. ASSUME chain.count = From(tx[1]) PROVE \A k \in Nat : k \in S
  <2>1. 0 \in S
    OBVIOUS
  <2>2. ASSUME NEW k \in Nat, k \in S PROVE k + 1 \in S
    <3> SUFFICES ASSUME k + 1 \in 1 .. n
                 PROVE  /\ A[(k + 1) - 1] = ChainAt(queue, From(tx[k + 1]))
                        /\ A[k + 1] = ChainAt(queue, To(tx[k + 1]))
      OBVIOUS
    <3>1. (k + 1) - 1 = k
      OBVIOUS
    <3>2. A[k] = ChainAt(queue, From(tx[k + 1]))
      <4>1. CASE k = 0
        BY <1>2, <1>4, <4>1
      <4>2. CASE k # 0
        <5>1. k \in 1 .. n /\ k \in 1 .. n - 1
          BY <1>1, <4>2
        <5> QED
          BY <1>1, <2>2, <5>1
      <4> QED
        BY <4>1, <4>2
    <3>3. A[k + 1] = Applied(A[k], tx[k + 1]) /\ UpdateOk(queue, tx[k + 1])
      BY <1>1, <1>2
    <3> QED
      BY <3>1, <3>2, <3>3, AppliedExact
  <2> HIDE DEF S
  <2> QED
    BY <2>1, <2>2, InsertRec!SetInduction
<1>5. ASSUME chain.count = From(tx[1])
      PROVE  Succeeds(tx) /\ A[n] = ChainAt(queue, To(tx[n]))
  <2>1. \A k \in 1 .. n : /\ A[k - 1] = ChainAt(queue, From(tx[k]))
                          /\ A[k] = ChainAt(queue, To(tx[k]))
    <3>1. \A k \in 1 .. n : k \in Nat
      BY <1>1
    <3> QED
      BY <1>4, <1>5, <3>1
  <2>2. \A k \in 1 .. n : Accepts(A[k - 1], tx[k])
    BY <1>1, <2>1, AcceptsExact
  <2> QED
    BY <1>1, <2>1, <2>2 DEF Succeeds, A
<1> QED
  BY <1>3, <1>5 DEF Last, A, n

-----------------------------------------------------------------------------
(* The steps.                                                              *)

LEMMA InitIInv == Init => IInv
<1> SUFFICES ASSUME Init PROVE IInv
  OBVIOUS
<1> DEFINE r == IdleCrank(NewFrontier)
<1>1. /\ queue = << >> /\ mempool = {} /\ faults = 0 /\ MaxFaults \in Nat
      /\ Len(Arrivals) \in Nat
      /\ crank = [c \in Cranks |-> r] /\ persisted = [c \in Cranks |-> NewFrontier]
  BY CrankAssumption DEF Init
<1>2. NewFrontier = FrontierOf(queue, 0) /\ NewFrontier.next_index = 0
  BY NewIsFrontier DEF NewFrontier
<1>3. chain.count = 0 /\ chain = ChainAt(queue, 0)
  BY <1>2 DEF Init, ChainAt
<1>4. Confirmed(queue, chain.count, NewFrontier)
  BY <1>2, <1>3 DEF Confirmed
<1>5. r = Memory(r) /\ r.tree = NewFrontier /\ InFlight(queue, chain.count, r)
  BY DEF IdleCrank, Memory, InFlight
<1>6. queue \in Seq(Field) /\ Len(queue) = 0
  BY <1>1
<1> HIDE DEF r
<1> QED
  BY <1>1, <1>3, <1>4, <1>5, <1>6 DEF IInv

\* A step that changes the memory of one crank, to a memory that is in order.
LEMMA CrankStep ==
    ASSUME IInv, NEW c \in Cranks, NEW r,
           crank' = [crank EXCEPT ![c] = r], UNCHANGED <<queue, chain, persisted>>,
           faults' \in 0 .. MaxFaults,
           \A tx \in mempool' : tx.by \in Cranks /\ TxOk(queue, tx.updates),
           r = Memory(r), Confirmed(queue, chain.count, r.tree),
           InFlight(queue, chain.count, r)
    PROVE  IInv'
<1>1. crank' = [d \in Cranks |-> IF d = c THEN r ELSE crank[d]]
  BY DEF IInv
<1>2. crank' = [d \in Cranks |-> Memory(crank'[d])]
  BY <1>1 DEF IInv
<1>3. \A d \in Cranks : /\ Confirmed(queue, chain.count, crank'[d].tree)
                        /\ InFlight(queue, chain.count, crank'[d])
  BY <1>1 DEF IInv
<1> QED
  BY <1>2, <1>3 DEF IInv

\* A crank that is not waiting has nothing in flight.
LEMMA IdleOk ==
    \A t : LET r == IdleCrank(t)
           IN  r = Memory(r) /\ r.tree = t /\ InFlight(queue, chain.count, r)
  BY DEF IdleCrank, Memory, InFlight

LEMMA EnqueueIInv == IInv /\ Enqueue => IInv'
<1> SUFFICES ASSUME IInv, Enqueue PROVE IInv'
  OBVIOUS
<1> DEFINE n == Len(queue) + 1
           x == fr_from_be(Arrivals[n])
<1>1. /\ Len(queue) < Len(Arrivals) /\ queue' = Append(queue, x)
      /\ UNCHANGED <<chain, mempool, crank, persisted, faults>>
  BY DEF Enqueue
<1>2. queue \in Seq(Field) /\ Len(queue) \in Nat
  BY DEF IInv
<1>3. x \in Field
  <2>1. n \in 1 .. Len(Arrivals) /\ Arrivals \in Seq(0 .. Modulus - 1) /\ Modulus \in Nat \ {0}
    BY <1>1, <1>2, CrankAssumption
  <2>2. Arrivals[n] \in 0 .. Modulus - 1
    BY <2>1
  <2> HIDE DEF n
  <2>3. Arrivals[n] % Modulus \in Nat
    BY <2>1, <2>2
  <2> QED
    BY <2>3 DEF Field, fr_from_be
<1> HIDE DEF x
<1>4. /\ \A k \in 0 .. Len(queue) : FrontierOf(queue', k) = FrontierOf(queue, k)
      /\ \A tx : TxOk(queue, tx) => TxOk(queue', tx)
  BY <1>1, <1>2, Grown
<1>5. queue' \in Seq(Field) /\ Len(queue') = Len(queue) + 1
  BY <1>1, <1>2, <1>3
<1>6. chain.count \in 0 .. Len(queue) /\ chain = ChainAt(queue, chain.count)
  BY DEF IInv
<1>7. \A k \in 0 .. chain.count : FrontierOf(queue', k) = FrontierOf(queue, k)
  BY <1>2, <1>4, <1>6
<1>8. ChainAt(queue', chain.count) = ChainAt(queue, chain.count)
  BY <1>4, <1>6 DEF ChainAt
<1>9. \A t : Confirmed(queue, chain.count, t) => Confirmed(queue', chain'.count, t)
  BY <1>1, <1>7 DEF Confirmed
<1>10. ASSUME NEW r, InFlight(queue, chain.count, r) PROVE InFlight(queue', chain'.count, r)
  <2>1. CASE r.tx = << >>
    BY <1>10, <2>1 DEF InFlight
  <2>2. CASE r.tx # << >>
    <3>1. TxOk(queue, r.tx) /\ r.clone = FrontierOf(queue, To(Last(r.tx)))
      BY <1>10, <2>2 DEF InFlight
    <3>2. To(Last(r.tx)) \in 0 .. Len(queue)
      BY <1>2, <3>1, Span
    <3>3. TxOk(queue', r.tx) /\ r.clone = FrontierOf(queue', To(Last(r.tx)))
      BY <1>4, <3>1, <3>2
    <3> QED
      BY <1>1, <1>10, <2>2, <3>3 DEF InFlight
  <2> QED
    BY <2>1, <2>2
<1>11. Len(queue') <= Len(Arrivals) /\ chain.count \in 0 .. Len(queue')
  BY <1>1, <1>2, <1>5, <1>6, CrankAssumption
<1> QED
  BY <1>1, <1>4, <1>5, <1>6, <1>8, <1>9, <1>10, <1>11 DEF IInv

LEMMA PlanIInv == \A c \in Cranks : IInv /\ Plan(c) => IInv'
<1> SUFFICES ASSUME NEW c \in Cranks, IInv, Plan(c) PROVE IInv'
  OBVIOUS
<1> DEFINE t == crank[c].tree
           s == chain.count
<1>1. /\ t.next_index = s /\ UNCHANGED <<queue, chain, persisted, faults>>
  BY DEF Plan
<1>2. PICK n \in 1 .. Len(queue) - s, max_proofs \in 1 .. MaxProofs :
        LET ls == SubSeq(queue, s + 1, s + n)
            plan == plan_batches(t, ls)
            tx == Transaction(plan.inputs)
        IN  /\ Plannable(t, ls, max_proofs)
            /\ crank' = [crank EXCEPT ![c].clone = plan.tree, ![c].tx = tx]
            /\ mempool' = mempool \union {[by |-> c, updates |-> tx]}
  <2> HIDE DEF s
  <2> QED
    BY <1>1 DEF Plan, Transaction
<1> DEFINE ls == SubSeq(queue, s + 1, s + n)
           plan == plan_batches(t, ls)
           tx == Transaction(plan.inputs)
           r == [tree |-> t, clone |-> plan.tree, tx |-> tx, receipt |-> crank[c].receipt]
<1>3. /\ queue \in Seq(Field) /\ Len(queue) \in Nat /\ Len(queue) <= Len(Arrivals)
      /\ s \in 0 .. Len(queue) /\ faults \in 0 .. MaxFaults
      /\ Confirmed(queue, chain.count, t) /\ InFlight(queue, chain.count, crank[c])
  BY DEF IInv
<1>4. t = FrontierOf(queue, s)
  BY <1>1, <1>3 DEF Confirmed
<1>5. /\ s \in Nat /\ n \in Nat /\ n >= 1 /\ s + n <= Len(queue) /\ s + n <= Capacity
  <2>1. Capacity \in Nat /\ Len(Arrivals) \in Nat /\ Len(Arrivals) <= Capacity
    BY CrankAssumption, Pow2Positive, DepthAssumption DEF Capacity
  <2> HIDE DEF s
  <2> QED
    BY <1>3, <2>1
<1>6. n <= MaxBatch * MaxProofs
  <2>1. Len(ls) = n
    <3> DEFINE e == s + n
    <3>1. e \in Nat /\ s <= e /\ e <= Len(queue) /\ e - s = n
      BY <1>5
    <3> HIDE DEF e, s
    <3>2. Len(SubSeq(queue, s + 1, e)) = e - s
      BY <1>3, <1>5, <3>1, Segment
    <3> QED
      BY <3>1, <3>2 DEF e, s
  <2>2. n \in 1 .. MaxBatch * max_proofs
    BY <1>2, <2>1 DEF Plannable
  <2>3. MaxBatch * max_proofs <= MaxBatch * MaxProofs /\ MaxBatch * max_proofs \in Nat
        /\ MaxBatch * MaxProofs \in Nat
    BY BatchAssumption
  <2> QED
    BY <1>5, <2>2, <2>3
<1> HIDE DEF s
<1>7. TxOk(queue, tx) /\ From(tx[1]) = s /\ To(Last(tx)) = s + n
      /\ plan.tree = FrontierOf(queue, s + n)
  BY <1>3, <1>4, <1>5, <1>6, PlanIsExact
<1> HIDE DEF plan, tx, ls, t
<1>8. crank[c].receipt = "none" /\ crank[c].tx = << >>
  <2>1. crank[c].tx = << >>
    BY DEF Plan, Waiting
  <2> QED
    BY <1>3, <2>1 DEF InFlight
<1>9. tx # << >>
  BY <1>3, <1>7, Span
<1>10. r = Memory(r) /\ r.tree = t /\ InFlight(queue, chain.count, r)
  BY <1>1, <1>7, <1>8, <1>9 DEF Memory, InFlight
<1>11. crank' = [crank EXCEPT ![c] = r]
  <2>1. crank' = [crank EXCEPT ![c].clone = plan.tree, ![c].tx = tx]
    BY <1>2 DEF plan, tx, ls, t
  <2>2. crank = [d \in Cranks |-> crank[d]] /\ crank[c] = Memory(crank[c])
    BY DEF IInv
  <2> DEFINE m == crank[c]
             g == [crank EXCEPT ![c].clone = plan.tree]
  <2>3. g = [d \in Cranks |-> IF d = c THEN [m EXCEPT !.clone = plan.tree] ELSE crank[d]]
    BY <2>2
  <2>4. [m EXCEPT !.clone = plan.tree]
          = [tree |-> m.tree, clone |-> plan.tree, tx |-> m.tx, receipt |-> m.receipt]
    <3> HIDE DEF m
    <3>1. m = [tree |-> m.tree, clone |-> m.clone, tx |-> m.tx, receipt |-> m.receipt]
      BY <2>2 DEF Memory, m
    <3> QED
      BY <3>1
  <2>5. g[c] = [tree |-> m.tree, clone |-> plan.tree, tx |-> m.tx, receipt |-> m.receipt]
    BY <2>3, <2>4
  <2>6. crank' = [g EXCEPT ![c].tx = tx]
    BY <2>1
  <2> HIDE DEF g
  <2>7. [g[c] EXCEPT !.tx = tx] = r
    BY <2>5 DEF t
  <2> HIDE DEF r, m
  <2>8. crank' = [d \in Cranks |-> IF d = c THEN r ELSE crank[d]]
    <3>1. crank' = [d \in Cranks |-> IF d = c THEN [g[c] EXCEPT !.tx = tx] ELSE g[d]]
      BY <2>3, <2>6
    <3>2. \A d \in Cranks : d # c => g[d] = crank[d]
      BY <2>3
    <3> QED
      BY <2>7, <3>1, <3>2
  <2>9. [crank EXCEPT ![c] = r] = [d \in Cranks |-> IF d = c THEN r ELSE crank[d]]
    BY <2>2
  <2> QED
    BY <2>8, <2>9
<1>12. \A u \in mempool' : u.by \in Cranks /\ TxOk(queue, u.updates)
  <2>1. mempool' = mempool \union {[by |-> c, updates |-> tx]}
    BY <1>2 DEF plan, tx, ls, t
  <2> QED
    BY <1>7, <2>1 DEF IInv
<1> HIDE DEF r
<1> QED
  BY <1>1, <1>3, <1>10, <1>11, <1>12, CrankStep

LEMMA ExecuteIInv == \A tx \in mempool : IInv /\ Execute(tx) => IInv'
<1> SUFFICES ASSUME NEW tx \in mempool, IInv, Execute(tx) PROVE IInv'
  OBVIOUS
<1> DEFINE u == tx.updates
           b == tx.by
<1>1. /\ mempool' = mempool \ {tx} /\ UNCHANGED <<queue, persisted, faults>>
      /\ \/ Succeeds(u) /\ chain' = After(u)[Len(u)] /\ Notify(tx, "success")
         \/ ~Succeeds(u) /\ UNCHANGED chain /\ Notify(tx, "reverted")
  BY DEF Execute
<1>2. /\ queue \in Seq(Field) /\ Len(queue) \in Nat
      /\ chain.count \in 0 .. Len(queue) /\ chain = ChainAt(queue, chain.count)
      /\ b \in Cranks /\ TxOk(queue, u)
      /\ crank = [c \in Cranks |-> Memory(crank[c])]
  BY DEF IInv
<1>3. /\ From(u[1]) \in Nat /\ To(Last(u)) \in Nat /\ From(u[1]) < To(Last(u))
      /\ To(Last(u)) <= Len(queue)
  BY <1>2, Span
<1>4. /\ Succeeds(u) <=> chain.count = From(u[1])
      /\ Succeeds(u) => After(u)[Len(u)] = ChainAt(queue, To(Last(u)))
  BY <1>2, ExecuteExact
<1> HIDE DEF u, b
\* The count does not go back.
<1>5. /\ chain'.count \in 0 .. Len(queue) /\ chain' = ChainAt(queue, chain'.count)
      /\ chain'.count >= chain.count
      /\ Succeeds(u) => chain'.count = To(Last(u))
  <2>1. CASE Succeeds(u)
    <3>1. chain' = ChainAt(queue, To(Last(u)))
      BY <1>1, <1>4, <2>1
    <3>2. chain'.count = To(Last(u))
      BY <3>1 DEF ChainAt
    <3> QED
      BY <1>2, <1>3, <1>4, <2>1, <3>1, <3>2
  <2>2. CASE ~Succeeds(u)
    BY <1>1, <1>2, <2>2
  <2> QED
    BY <2>1, <2>2
<1>6. ASSUME NEW t, Confirmed(queue, chain.count, t) PROVE Confirmed(queue', chain'.count, t)
  BY <1>1, <1>2, <1>5, <1>6 DEF Confirmed
<1>7. ASSUME NEW r, InFlight(queue, chain.count, r), Confirmed(queue, chain.count, r.tree)
      PROVE  InFlight(queue', chain'.count, r)
  <2>1. r.tree.next_index \in Nat /\ (r.tx # << >> => To(Last(r.tx)) \in Nat)
    BY <1>2, <1>7, Span DEF Confirmed, InFlight
  <2> QED
    BY <1>1, <1>2, <1>5, <1>7, <2>1 DEF InFlight
\* The crank that is told the outcome planned the transaction from its own tree.
<1>8. ASSUME NEW outcome \in {"success", "reverted"}, crank[b].tx = u,
             outcome = "success" <=> Succeeds(u)
      PROVE  LET r == [crank[b] EXCEPT !.receipt = outcome]
             IN  r = Memory(r) /\ r.tree = crank[b].tree /\ InFlight(queue', chain'.count, r)
  <2> DEFINE m == crank[b]
             r == [m EXCEPT !.receipt = outcome]
  <2>1. /\ m = Memory(m) /\ InFlight(queue, chain.count, m)
        /\ Confirmed(queue, chain.count, m.tree)
    BY <1>2 DEF IInv
  <2>2. r.tree = m.tree /\ r.clone = m.clone /\ r.tx = u /\ r.receipt = outcome
        /\ r = Memory(r)
    BY <1>8, <2>1 DEF Memory
  <2>3. u # << >>
    BY <1>2, Span
  <2>4. From(u[1]) = m.tree.next_index /\ m.clone = FrontierOf(queue, To(Last(u)))
    BY <1>8, <2>1, <2>3 DEF InFlight
  <2>5. m.tree.next_index \in 0 .. chain.count
    BY <2>1 DEF Confirmed
  <2>6. outcome = "success" => chain'.count >= To(Last(u))
    BY <1>3, <1>5, <1>8
  <2>7. outcome = "reverted" => chain'.count > m.tree.next_index
    <3> SUFFICES ASSUME outcome = "reverted" PROVE chain'.count > m.tree.next_index
      OBVIOUS
    <3>1. chain.count # From(u[1]) /\ UNCHANGED chain
      BY <1>1, <1>4, <1>8
    <3> QED
      BY <1>2, <2>4, <2>5, <3>1
  <2> HIDE DEF r, m
  <2>8. InFlight(queue', chain'.count, r)
    BY <1>1, <1>2, <2>2, <2>3, <2>4, <2>6, <2>7 DEF InFlight
  <2> QED
    BY <2>2, <2>8 DEF r, m
<1>9. PICK outcome \in {"success", "reverted"} :
        Notify(tx, outcome) /\ (outcome = "success" <=> Succeeds(u))
  BY <1>1
<1>10. /\ crank' = [c \in Cranks |-> Memory(crank'[c])]
       /\ \A c \in Cranks : /\ Confirmed(queue', chain'.count, crank'[c].tree)
                            /\ InFlight(queue', chain'.count, crank'[c])
  <2>1. \A c \in Cranks : /\ Confirmed(queue, chain.count, crank[c].tree)
                          /\ InFlight(queue, chain.count, crank[c])
    BY DEF IInv
  <2>2. CASE crank[b].tx = u
    <3> DEFINE r == [crank[b] EXCEPT !.receipt = outcome]
    <3>1. crank' = [crank EXCEPT ![b] = r]
      BY <1>9, <2>2 DEF Notify, u, b
    <3>2. r = Memory(r) /\ r.tree = crank[b].tree /\ InFlight(queue', chain'.count, r)
      BY <1>8, <1>9, <2>2
    <3> HIDE DEF r
    <3>3. crank' = [c \in Cranks |-> IF c = b THEN r ELSE crank[c]]
      BY <1>2, <3>1
    <3> QED
      BY <1>2, <1>6, <1>7, <2>1, <3>2, <3>3
  <2>3. CASE crank[b].tx # u
    <3>1. crank' = crank
      BY <1>9, <2>3 DEF Notify, u, b
    <3> QED
      BY <1>2, <1>6, <1>7, <2>1, <3>1
  <2> QED
    BY <2>2, <2>3
<1> QED
  BY <1>1, <1>5, <1>6, <1>10 DEF IInv

LEMMA DropIInv == \A tx \in mempool : IInv /\ Drop(tx) => IInv'
<1> SUFFICES ASSUME NEW tx \in mempool, IInv, Drop(tx) PROVE IInv'
  OBVIOUS
<1>1. /\ mempool' \subseteq mempool /\ faults' \in 0 .. MaxFaults
      /\ UNCHANGED <<queue, chain, crank, persisted>>
  BY CrankAssumption DEF Drop, IInv
<1> QED
  BY <1>1 DEF IInv, Confirmed, InFlight

LEMMA ReceiveIInv == \A c \in Cranks : IInv /\ Receive(c) => IInv'
<1> SUFFICES ASSUME NEW c \in Cranks, IInv, Receive(c) PROVE IInv'
  OBVIOUS
<1> DEFINE m == crank[c]
           t == IF m.receipt = "success" THEN m.clone ELSE m.tree
           r == IdleCrank(t)
<1>1. /\ m.receipt # "none" /\ crank' = [crank EXCEPT ![c] = r]
      /\ UNCHANGED <<queue, chain, mempool, persisted, faults>>
  BY DEF Receive
<1>2. InFlight(queue, chain.count, m) /\ Confirmed(queue, chain.count, m.tree)
      /\ Len(queue) \in Nat /\ chain.count \in Nat
      /\ faults \in 0 .. MaxFaults
      /\ \A tx \in mempool : tx.by \in Cranks /\ TxOk(queue, tx.updates)
  BY DEF IInv
<1> HIDE DEF m
<1>3. Confirmed(queue, chain.count, t)
  <2>1. CASE m.receipt = "success"
    <3> DEFINE k == To(Last(m.tx))
    <3>1. k \in Nat /\ m.clone = FrontierOf(queue, k) /\ chain.count >= k
      BY <1>1, <1>2, <2>1, Span DEF InFlight
    <3> HIDE DEF k
    <3>2. m.clone.next_index = k
      BY <3>1 DEF FrontierOf
    <3> QED
      BY <1>2, <2>1, <3>1, <3>2 DEF Confirmed
  <2>2. CASE m.receipt # "success"
    BY <1>2, <2>2
  <2> QED
    BY <2>1, <2>2
<1> HIDE DEF t
<1>4. r = Memory(r) /\ r.tree = t /\ InFlight(queue, chain.count, r)
  BY IdleOk
<1> HIDE DEF r
<1> QED
  BY <1>1, <1>2, <1>3, <1>4, CrankStep

\* A crank that goes on from a confirmed tree, with nothing in flight.
LEMMA IdleStep ==
    ASSUME IInv, NEW c \in Cranks, NEW t, Confirmed(queue, chain.count, t),
           crank' = [crank EXCEPT ![c] = IdleCrank(t)],
           UNCHANGED <<queue, chain, mempool, persisted>>, faults' \in 0 .. MaxFaults
    PROVE  IInv'
<1> DEFINE r == IdleCrank(t)
<1>1. r = Memory(r) /\ r.tree = t /\ InFlight(queue, chain.count, r)
  BY IdleOk
<1>2. \A tx \in mempool' : tx.by \in Cranks /\ TxOk(queue, tx.updates)
  BY DEF IInv
<1> HIDE DEF r
<1>3. crank' = [crank EXCEPT ![c] = r]
  BY DEF r
<1> QED
  BY <1>1, <1>2, <1>3, CrankStep

LEMMA GiveUpIInv == \A c \in Cranks : IInv /\ GiveUp(c) => IInv'
<1> SUFFICES ASSUME NEW c \in Cranks, IInv, GiveUp(c) PROVE IInv'
  OBVIOUS
<1>1. faults' \in 0 .. MaxFaults
  <2>1. faults' = faults \/ (faults < MaxFaults /\ faults' = faults + 1)
    BY DEF GiveUp
  <2> QED
    BY <2>1, CrankAssumption DEF IInv
<1>2. Confirmed(queue, chain.count, crank[c].tree)
  BY DEF IInv
<1> QED
  BY <1>1, <1>2, IdleStep DEF GiveUp

LEMMA SyncIInv == \A c \in Cranks : IInv /\ Sync(c) => IInv'
<1> SUFFICES ASSUME NEW c \in Cranks, IInv, Sync(c) PROVE IInv'
  OBVIOUS
<1> DEFINE t == crank[c].tree
           n == t.next_index
           u == insert(t, queue[n + 1])
<1>1. /\ n < chain.count /\ crank' = [crank EXCEPT ![c] = IdleCrank(u)]
      /\ UNCHANGED <<queue, chain, mempool, persisted, faults>>
  BY DEF Sync
<1>2. /\ Confirmed(queue, chain.count, t) /\ faults \in 0 .. MaxFaults
      /\ chain.count \in 0 .. Len(queue) /\ Len(queue) <= Len(Arrivals) /\ queue \in Seq(Field)
  BY DEF IInv
<1> HIDE DEF t
<1>3. n \in Nat /\ t = FrontierOf(queue, n)
  BY <1>2 DEF Confirmed
<1>4. n < Capacity
  <2>1. Capacity \in Nat /\ Len(Arrivals) \in Nat /\ Len(Arrivals) <= Capacity
        /\ Len(queue) \in Nat
    BY <1>2, CrankAssumption, Pow2Positive, DepthAssumption DEF Capacity
  <2> HIDE DEF n
  <2> QED
    BY <1>1, <1>2, <1>3, <2>1
<1> HIDE DEF n
<1>5. u = FrontierOf(queue, n + 1)
  BY <1>3, <1>4, InsertIsFrontier
<1> HIDE DEF u
<1>6. Confirmed(queue, chain.count, u)
  <2>1. u.next_index = n + 1
    BY <1>5 DEF FrontierOf
  <2> QED
    BY <1>1, <1>2, <1>3, <1>5, <2>1 DEF Confirmed
<1> QED
  BY <1>1, <1>2, <1>6, IdleStep

LEMMA SaveIInv == \A c \in Cranks : IInv /\ Save(c) => IInv'
<1> SUFFICES ASSUME NEW c \in Cranks, IInv, Save(c) PROVE IInv'
  OBVIOUS
<1>1. /\ persisted' = [persisted EXCEPT ![c] = crank[c].tree]
      /\ UNCHANGED <<queue, chain, mempool, crank, faults>>
  BY DEF Save
<1>2. persisted' = [d \in Cranks |-> IF d = c THEN crank[c].tree ELSE persisted[d]]
  BY <1>1 DEF IInv
<1>3. persisted' = [d \in Cranks |-> persisted'[d]]
      /\ \A d \in Cranks : Confirmed(queue, chain.count, persisted'[d])
  BY <1>2 DEF IInv
<1> QED
  BY <1>1, <1>3 DEF IInv

LEMMA CrashIInv == \A c \in Cranks : IInv /\ Crash(c) => IInv'
<1> SUFFICES ASSUME NEW c \in Cranks, IInv, Crash(c) PROVE IInv'
  OBVIOUS
<1> DEFINE p == persisted[c]
           t == from_parts(p.filled, p.next_index, p.root)
<1>1. /\ crank' = [crank EXCEPT ![c] = IdleCrank(t)]
      /\ UNCHANGED <<queue, chain, mempool, persisted>>
      /\ faults' = faults + 1 /\ faults < MaxFaults
  BY DEF Crash
<1>2. Confirmed(queue, chain.count, p) /\ faults' \in 0 .. MaxFaults
  BY <1>1, CrankAssumption DEF IInv
<1>3. t = p
  BY <1>2 DEF Confirmed, from_parts, FrontierOf
<1> HIDE DEF t, p
<1> QED
  BY <1>1, <1>2, <1>3, IdleStep

LEMMA NextIInv == IInv /\ [Next]_vars => IInv'
<1> SUFFICES ASSUME IInv, [Next]_vars PROVE IInv'
  OBVIOUS
<1>1. CASE Enqueue
  BY <1>1, EnqueueIInv
<1>2. CASE \E tx \in mempool : Execute(tx) \/ Drop(tx)
  BY <1>2, ExecuteIInv, DropIInv
<1>3. CASE \E c \in Cranks :
             Plan(c) \/ Receive(c) \/ GiveUp(c) \/ Sync(c) \/ Save(c) \/ Crash(c)
  BY <1>3, PlanIInv, ReceiveIInv, GiveUpIInv, SyncIInv, SaveIInv, CrashIInv
<1>4. CASE UNCHANGED vars
  BY <1>4 DEF vars, IInv
<1> QED
  BY <1>1, <1>2, <1>3, <1>4 DEF Next

LEMMA Invariant == Spec => []IInv
<1>1. Init => IInv
  BY InitIInv
<1>2. IInv /\ [Next]_vars => IInv'
  BY NextIInv
<1> QED
  BY <1>1, <1>2, PTL DEF Spec

-----------------------------------------------------------------------------
(* Theorems.                                                               *)

\* The confirmed count never passes the queue, the queue never passes the
\* arrivals, and every transaction has between one update and MaxProofs.
THEOREM TypeCorrect == Spec => []TypeOK
<1>1. IInv => TypeOK
  <2> SUFFICES ASSUME IInv PROVE TypeOK
    OBVIOUS
  <2>1. \A tx \in mempool : tx.by \in Cranks /\ Len(tx.updates) \in 1 .. MaxProofs
    BY DEF IInv, TxOk
  <2>2. ASSUME NEW c \in Cranks
        PROVE  /\ Len(crank[c].tx) \in 0 .. MaxProofs
               /\ crank[c].receipt \in {"none", "success", "reverted"}
               /\ crank[c].receipt # "none" => Waiting(c)
    <3>1. InFlight(queue, chain.count, crank[c])
      BY DEF IInv
    <3>2. CASE crank[c].tx = << >>
      BY <3>1, <3>2, BatchAssumption DEF InFlight
    <3>3. CASE crank[c].tx # << >>
      BY <3>1, <3>3 DEF InFlight, TxOk, Waiting
    <3> QED
      BY <3>2, <3>3
  <2>3. /\ Len(queue) <= Len(Arrivals) /\ chain.count \in 0 .. Len(queue)
        /\ faults \in 0 .. MaxFaults
    BY DEF IInv
  <2> QED
    BY <2>1, <2>2, <2>3 DEF TypeOK
<1> QED
  BY <1>1, Invariant, PTL

\* The root and the frontier commitment on the chain are those of the confirmed
\* prefix of the queue, whichever cranks confirmed it, in whatever batches.
THEOREM ConfirmedPrefixHolds == Spec => []ConfirmedPrefix
<1>1. IInv => ConfirmedPrefix
  <2> SUFFICES ASSUME IInv PROVE ConfirmedPrefix
    OBVIOUS
  <2>1. chain = ChainAt(queue, chain.count)
    BY DEF IInv
  <2>2. /\ chain.root = FrontierOf(queue, chain.count).root
        /\ chain.commit = frontier_commit(FrontierOf(queue, chain.count).filled)
    BY <2>1 DEF ChainAt
  <2> QED
    BY <2>2 DEF ConfirmedPrefix
<1> QED
  BY <1>1, Invariant, PTL

\* No tree and no snapshot of a crank is ever ahead of the chain, or about other
\* leaves, whatever is lost, reverted, overtaken or crashes.
THEOREM CranksNeverAhead == Spec => []CranksFollowChain
<1>1. IInv => CranksFollowChain
  <2> SUFFICES ASSUME IInv, NEW c \in Cranks, NEW t \in {crank[c].tree, persisted[c]}
               PROVE  t.next_index <= chain.count /\ t = FrontierOf(queue, t.next_index)
    BY DEF CranksFollowChain
  <2>1. Confirmed(queue, chain.count, t) /\ chain.count \in Nat
    BY DEF IInv
  <2> QED
    BY <2>1 DEF Confirmed
<1> QED
  BY <1>1, Invariant, PTL

\* A revert means that the chain has moved on since the plan: a transaction that
\* is executed in the state it was planned from cannot fail.
THEOREM RevertsAreStale == Spec => []RevertsOnlyWhenStale
<1>1. IInv => RevertsOnlyWhenStale
  <2> SUFFICES ASSUME IInv, NEW c \in Cranks, crank[c].receipt = "reverted"
               PROVE  chain.count > crank[c].tree.next_index
    BY DEF RevertsOnlyWhenStale
  <2>1. InFlight(queue, chain.count, crank[c])
    BY DEF IInv
  <2> QED
    BY <2>1 DEF InFlight
<1> QED
  BY <1>1, Invariant, PTL

\* No crank is ever stuck with leaves it cannot prove or the chain would refuse:
\* whatever happened before, plan_batches at the confirmed count makes a transaction
\* that goes through.
THEOREM PlansAlwaysGoThrough == Spec => []PlansGoThrough
<1>1. IInv => PlansGoThrough
  <2> DEFINE s == chain.count
             t(c) == crank[c].tree
             ls(n) == SubSeq(queue, s + 1, s + n)
             inputs(c, n) == plan_batches(t(c), ls(n)).inputs
  <2> SUFFICES ASSUME IInv, NEW c \in Cranks, NEW n \in 1 .. Len(queue) - s,
                      t(c).next_index = s, Plannable(t(c), ls(n), MaxProofs)
               PROVE  /\ \A k \in DOMAIN inputs(c, n) : Provable(inputs(c, n)[k])
                      /\ Succeeds(Transaction(inputs(c, n)))
    BY DEF PlansGoThrough
  <2> DEFINE tx == Transaction(inputs(c, n))
  <2>1. /\ queue \in Seq(Field) /\ Len(queue) \in Nat /\ Len(queue) <= Len(Arrivals)
        /\ s \in 0 .. Len(queue) /\ chain = ChainAt(queue, s)
        /\ t(c) = FrontierOf(queue, s)
    BY DEF IInv, Confirmed
  <2>2. Len(ls(n)) \in 1 .. MaxBatch * MaxProofs
    BY DEF Plannable
  <2> HIDE DEF s, t
  <2>3. /\ s \in Nat /\ n \in Nat /\ n >= 1 /\ s + n <= Len(queue) /\ s + n <= Capacity
    <3>1. Capacity \in Nat /\ Len(Arrivals) \in Nat /\ Len(Arrivals) <= Capacity
      BY CrankAssumption, Pow2Positive, DepthAssumption DEF Capacity
    <3> QED
      BY <2>1, <3>1
  <2>4. n <= MaxBatch * MaxProofs
    <3> DEFINE e == s + n
    <3>1. e \in Nat /\ s <= e /\ e <= Len(queue) /\ e - s = n
      BY <2>3
    <3> HIDE DEF e
    <3>2. Len(SubSeq(queue, s + 1, e)) = e - s
      BY <2>1, <2>3, <3>1, Segment
    <3>3. Len(ls(n)) = n
      BY <3>1, <3>2 DEF e
    <3>4. MaxBatch * MaxProofs \in Nat
      BY BatchAssumption
    <3> QED
      BY <2>2, <2>3, <3>3, <3>4
  <2>5. /\ TxOk(queue, tx) /\ From(tx[1]) = s
        /\ \A k \in DOMAIN inputs(c, n) : Provable(inputs(c, n)[k])
    BY <2>1, <2>3, <2>4, PlanIsExact
  <2> HIDE DEF inputs
  <2> HIDE DEF tx
  <2>6. Succeeds(tx)
    BY <2>1, <2>5, ExecuteExact DEF s
  <2> QED
    BY <2>5, <2>6 DEF tx
<1> QED
  BY <1>1, Invariant, PTL

-----------------------------------------------------------------------------
(* The refinement.                                                         *)

\* The abstract log computes frontiers as the cranks do.
LEMMA SameFrontier ==
    /\ \A ls, n : Log!FrontierOf(ls, n) = FrontierOf(ls, n)
    /\ \A f : Log!frontier_commit(f) = frontier_commit(f)
  BY DEF Log!FrontierOf, Log!Levels, Log!Digest, Log!Prefix, Log!LastEven, Log!RootOf,
         Log!Pow2, Log!frontier_commit, FrontierOf, Levels, Digest, Prefix, LastEven,
         RootOf, Pow2, frontier_commit

(* Every step of the cranks and the chain appends to the log, confirms a    *)
(* longer prefix of it, or changes nothing of it.                           *)
THEOREM Implements == Spec => ImplementsConfirmedLog
<1>1. Init => Log!Init
  <2> SUFFICES ASSUME Init PROVE Log!Init
    OBVIOUS
  <2>1. NewFrontier = FrontierOf(queue, 0)
    BY NewIsFrontier
  <2> QED
    BY <2>1, SameFrontier DEF Init, Log!Init, Log!State
<1>2. IInv /\ [Next]_vars => [Log!Next]_<<queue, chain.count, chain.root, chain.commit>>
  <2> SUFFICES ASSUME IInv, [Next]_vars, ~UNCHANGED <<queue, chain>> PROVE Log!Next
    BY DEF Log!Next
  <2>1. CASE Enqueue
    <3> DEFINE x == fr_from_be(Arrivals[Len(queue) + 1])
    <3>1. queue' = Append(queue, x) /\ UNCHANGED chain /\ Len(queue) < Len(Arrivals)
      BY <2>1 DEF Enqueue
    <3>2. Len(queue) + 1 \in DOMAIN Arrivals
      BY <3>1, CrankAssumption DEF IInv
    <3>3. x \in {fr_from_be(Arrivals[i]) : i \in DOMAIN Arrivals}
      BY <3>2
    <3> HIDE DEF x
    <3>4. Log!Enqueue(x)
      BY <3>1 DEF Log!Enqueue
    <3> QED
      BY <3>3, <3>4 DEF Log!Next
  <2>2. CASE \E tx \in mempool : Execute(tx) \/ Drop(tx)
    <3>1. PICK tx \in mempool : Execute(tx)
      BY <2>2 DEF Drop
    <3> DEFINE u == tx.updates
               n == To(Last(u))
    <3>2. Succeeds(u) /\ chain' = After(u)[Len(u)] /\ UNCHANGED queue
      BY <3>1 DEF Execute
    <3>3. TxOk(queue, u) /\ chain = ChainAt(queue, chain.count) /\ Len(queue) \in Nat
      BY DEF IInv
    <3>4. chain.count = From(u[1]) /\ chain' = ChainAt(queue, n)
      BY <3>2, <3>3, ExecuteExact
    <3>5. /\ chain.count \in Nat /\ n \in Nat /\ chain.count < n /\ n <= Len(queue)
          /\ n <= chain.count + MaxBatch * MaxProofs
      BY <3>3, <3>4, Span
    <3> HIDE DEF n
    <3>6. n \in chain.count + 1 .. chain.count + MaxBatch * MaxProofs
      BY <3>5, BatchAssumption
    <3>7. /\ chain'.count = n
          /\ chain'.root = Log!FrontierOf(queue', n).root
          /\ chain'.commit = Log!frontier_commit(Log!FrontierOf(queue', n).filled)
      BY <3>2, <3>4, SameFrontier DEF ChainAt
    <3>8. Log!Confirm
      BY <3>2, <3>5, <3>6, <3>7 DEF Log!Confirm, Log!State
    <3> QED
      BY <3>8 DEF Log!Next
  <2>3. CASE \E c \in Cranks :
               Plan(c) \/ Receive(c) \/ GiveUp(c) \/ Sync(c) \/ Save(c) \/ Crash(c)
    BY <2>3 DEF Plan, Receive, GiveUp, Sync, Save, Crash
  <2>4. CASE UNCHANGED vars
    BY <2>4 DEF vars
  <2> QED
    BY <2>1, <2>2, <2>3, <2>4 DEF Next
<1> QED
  BY <1>1, <1>2, Invariant, PTL DEF Spec, ImplementsConfirmedLog, Log!Spec
=============================================================================
