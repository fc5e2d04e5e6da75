-------------------------- MODULE MerkleTreeProofs --------------------------
(***************************************************************************)
(* What the tree operators compute, for every depth and every hash.        *)
(***************************************************************************)
EXTENDS MerkleTree, TLAPS

Pow2Step(p, n, prev) == 2 * prev
Pow2Rec == INSTANCE NatRecursion WITH Step <- Pow2Step

EmptyStep(p, n, prev) == Compress(n, prev, prev)
EmptyRec == INSTANCE NatRecursion WITH Step <- EmptyStep

DigestStep(a, n, prev) ==
    [i \in Nat |-> Compress(n, prev[2 * i], prev[2 * i + 1])]
DigestRec == INSTANCE NatRecursion WITH Step <- DigestStep

\* p is the pair of the bits and the siblings.
PathStep(p, n, prev) ==
    IF p[1][n] = 0 THEN Compress(n, prev, p[2][n]) ELSE Compress(n, p[2][n], prev)
PathRec == INSTANCE NatRecursion WITH Step <- PathStep

\* The recursion that defines Pow2.
LEMMA Pow2Equation ==
    /\ Pow2[0] = 1
    /\ \A n \in Nat : Pow2[n + 1] = 2 * Pow2[n]
<1> DEFINE R == Pow2Rec!Rec(0, 1)
<1>1. R = [n \in Nat |-> IF n = 0 THEN 1 ELSE 2 * R[n - 1]]
  BY Pow2Rec!RecEquation DEF Pow2Step
<1> HIDE DEF R
<1>2. Pow2 = [n \in Nat |-> IF n = 0 THEN 1 ELSE 2 * Pow2[n - 1]]
  BY <1>1 DEF Pow2
<1>3. ASSUME NEW n \in Nat PROVE Pow2[n + 1] = 2 * Pow2[n]
  <2>1. n + 1 \in Nat /\ n + 1 # 0 /\ (n + 1) - 1 = n
    OBVIOUS
  <2> QED
    BY <1>2, <2>1
<1> QED
  BY <1>2, <1>3

\* A power of two is a positive number.
LEMMA Pow2Positive == \A n \in Nat : Pow2[n] \in Nat /\ Pow2[n] >= 1
<1> DEFINE S == {n \in Nat : Pow2[n] \in Nat /\ Pow2[n] >= 1}
<1>1. 0 \in S
  BY Pow2Equation
<1>2. \A n \in Nat : n \in S => n + 1 \in S
  BY Pow2Equation
<1> HIDE DEF S
<1>3. \A n \in Nat : n \in S
  BY <1>1, <1>2, Pow2Rec!SetInduction
<1> QED
  BY <1>3 DEF S

\* The recursion that defines the roots of absent subtrees.
LEMMA EmptyEquation ==
    /\ Empty[0] = Zero
    /\ \A n \in Nat : Empty[n + 1] = Compress(n, Empty[n], Empty[n])
<1> DEFINE R == EmptyRec!Rec(0, Zero)
<1>1. R = [l \in Nat |-> IF l = 0 THEN Zero ELSE Compress(l - 1, R[l - 1], R[l - 1])]
  BY EmptyRec!RecEquation DEF EmptyStep
<1> HIDE DEF R
<1>2. Empty = [l \in Nat |-> IF l = 0 THEN Zero
                             ELSE Compress(l - 1, Empty[l - 1], Empty[l - 1])]
  BY <1>1 DEF Empty
<1>3. ASSUME NEW n \in Nat PROVE Empty[n + 1] = Compress(n, Empty[n], Empty[n])
  <2>1. n + 1 \in Nat /\ n + 1 # 0 /\ (n + 1) - 1 = n
    OBVIOUS
  <2> QED
    BY <1>2, <2>1
<1> QED
  BY <1>2, <1>3

\* The recursion that defines the digest of a node.
LEMMA DigestEquation ==
    ASSUME NEW a
    PROVE  /\ \A i \in Nat : Digest(a)[0][i] = a[i]
           /\ \A l, i \in Nat :
                 Digest(a)[l + 1][i] =
                   Compress(l, Digest(a)[l][2 * i], Digest(a)[l][2 * i + 1])
<1> DEFINE base == [i \in Nat |-> a[i]]
           R == DigestRec!Rec(a, base)
           Eq(D) == D = [l \in Nat |->
                           [i \in Nat |-> IF l = 0 THEN a[i]
                              ELSE Compress(l - 1, D[l - 1][2 * i], D[l - 1][2 * i + 1])]]
<1>1. R = [l \in Nat |-> IF l = 0 THEN base ELSE DigestStep(a, l - 1, R[l - 1])]
  <2> HIDE DEF base
  <2> QED
    BY DigestRec!RecEquation
<1> HIDE DEF R
<1>2. Eq(R)
  <2>1. ASSUME NEW l \in Nat
        PROVE  R[l] = [i \in Nat |-> IF l = 0 THEN a[i]
                         ELSE Compress(l - 1, R[l - 1][2 * i], R[l - 1][2 * i + 1])]
    <3>1. CASE l = 0
      BY <1>1, <3>1
    <3>2. CASE l # 0
      <4>1. R[l] = DigestStep(a, l - 1, R[l - 1])
        BY <1>1, <3>2
      <4> QED
        BY <3>2, <4>1 DEF DigestStep
    <3> QED
      BY <3>1, <3>2
  <2>2. R = [l \in Nat |-> R[l]]
    BY <1>1
  <2> QED
    BY <2>1, <2>2
<1>3. Digest(a) = CHOOSE D : Eq(D)
  BY DEF Digest
<1>4. Eq(Digest(a))
  <2> HIDE DEF Eq
  <2> QED
    BY <1>2, <1>3
<1>5. ASSUME NEW l \in Nat, NEW i \in Nat
      PROVE  Digest(a)[l + 1][i] =
               Compress(l, Digest(a)[l][2 * i], Digest(a)[l][2 * i + 1])
  <2>1. l + 1 \in Nat /\ l + 1 # 0 /\ (l + 1) - 1 = l
    OBVIOUS
  <2> DEFINE D == Digest(a)
             k == l + 1
  <2>2. Eq(D)
    BY <1>4
  <2> HIDE DEF D, k
  <2>3. D[k] = [j \in Nat |-> IF k = 0 THEN a[j]
                  ELSE Compress(k - 1, D[k - 1][2 * j], D[k - 1][2 * j + 1])]
    BY <2>1, <2>2 DEF k
  <2>4. D[k][i] = IF k = 0 THEN a[i]
                  ELSE Compress(k - 1, D[k - 1][2 * i], D[k - 1][2 * i + 1])
    BY <2>3
  <2> QED
    BY <2>1, <2>4 DEF D, k
<1>6. Digest(a)[0] = [i \in Nat |-> a[i]]
  <2> DEFINE D == Digest(a)
  <2> HIDE DEF D
  <2> QED
    BY <1>4 DEF D
<1> QED
  BY <1>5, <1>6

\* The recursion that folds a path up to a root.
LEMMA PathRootEquation ==
    ASSUME NEW bits, NEW leaf, NEW sib
    PROVE  \E R : /\ PathRoot(bits, leaf, sib) = R[Depth]
                  /\ R[0] = leaf
                  /\ \A l \in Nat :
                        R[l + 1] = IF bits[l] = 0 THEN Compress(l, R[l], sib[l])
                                   ELSE Compress(l, sib[l], R[l])
<1> DEFINE F == PathRec!Rec(<<bits, sib>>, leaf)
           Eq(R) == R = [l \in Nat |->
                           IF l = 0 THEN leaf
                           ELSE IF bits[l - 1] = 0
                                THEN Compress(l - 1, R[l - 1], sib[l - 1])
                                ELSE Compress(l - 1, sib[l - 1], R[l - 1])]
           G == CHOOSE R : Eq(R)
<1>1. Eq(F)
  BY PathRec!RecEquation DEF PathStep
<1>2. Eq(G)
  <2> HIDE DEF Eq, F
  <2> QED
    BY <1>1
<1>3. PathRoot(bits, leaf, sib) = G[Depth]
  BY DEF PathRoot
<1> HIDE DEF G
<1>4. ASSUME NEW l \in Nat
      PROVE  G[l + 1] = IF bits[l] = 0 THEN Compress(l, G[l], sib[l])
                        ELSE Compress(l, sib[l], G[l])
  <2>1. l + 1 \in Nat /\ l + 1 # 0 /\ (l + 1) - 1 = l
    OBVIOUS
  <2> QED
    BY <1>2, <2>1
<1>5. G[0] = leaf
  BY <1>2
<1> QED
  BY <1>3, <1>4, <1>5

-----------------------------------------------------------------------------
\* Quotient and remainder.
LEMMA DivMod ==
    ASSUME NEW a \in Nat, NEW b \in Nat, b >= 1
    PROVE  /\ a \div b \in Nat /\ a % b \in 0 .. b - 1
           /\ a = b * (a \div b) + (a % b)
  OBVIOUS

\* The quotient is the only number that brackets the dividend.
LEMMA DivUnique ==
    ASSUME NEW a \in Nat, NEW b \in Nat, b >= 1, NEW q \in Nat,
           b * q <= a, a < b * q + b
    PROVE  a \div b = q
<1> DEFINE d == a \div b
           r == a % b
<1>1. d \in Nat /\ r \in 0 .. b - 1 /\ a = b * d + r
  BY DivMod
<1> HIDE DEF d, r
<1>2. ~(d < q)
  <2>1. SUFFICES ASSUME d < q PROVE FALSE
    OBVIOUS
  <2>2. d + 1 <= q
    BY <1>1, <2>1
  <2>3. b * (d + 1) <= b * q
    BY <1>1, <2>2
  <2>4. b * (d + 1) = b * d + b
    BY <1>1
  <2> QED
    BY <1>1, <2>3, <2>4
<1>3. ~(q < d)
  <2>1. SUFFICES ASSUME q < d PROVE FALSE
    OBVIOUS
  <2>2. q + 1 <= d
    BY <1>1, <2>1
  <2>3. b * (q + 1) <= b * d
    BY <1>1, <2>2
  <2>4. b * (q + 1) = b * q + b
    BY <1>1
  <2> QED
    BY <1>1, <2>3, <2>4
<1> QED
  BY <1>1, <1>2, <1>3 DEF d

(* pos >> (l + 1) is (pos >> l) >> 1.                                       *)
LEMMA ShiftTwice ==
    ASSUME NEW pos \in Nat, NEW l \in Nat
    PROVE  /\ pos \div Pow2[l] \in Nat
           /\ pos \div Pow2[l + 1] = (pos \div Pow2[l]) \div 2
<1> DEFINE b == Pow2[l]
           q == pos \div b
           r == pos % b
           h == q \div 2
           m == q % 2
<1>1. b \in Nat /\ b >= 1 /\ Pow2[l + 1] = 2 * b
  BY Pow2Positive, Pow2Equation
<1> HIDE DEF b
<1>2. q \in Nat /\ r \in 0 .. b - 1 /\ pos = b * q + r
  BY <1>1, DivMod
<1> HIDE DEF q, r
<1>3. h \in Nat /\ m \in 0 .. 1 /\ q = 2 * h + m
  BY <1>2
<1> HIDE DEF h, m
<1>4. b * q = (2 * b) * h + b * m
  BY <1>1, <1>2, <1>3
<1>5. b * m <= b /\ b * m >= 0 /\ b * m \in Int /\ (m = 0 => b * m = 0)
  <2>1. CASE m = 0
    BY <1>1, <2>1
  <2>2. CASE m = 1
    BY <1>1, <2>2
  <2> QED
    BY <1>3, <2>1, <2>2
<1>6. (2 * b) * h <= pos /\ pos < (2 * b) * h + 2 * b
  <2>1. (2 * b) * h \in Nat
    BY <1>1, <1>3
  <2>2. pos = (2 * b) * h + b * m + r
    BY <1>2, <1>4
  <2> QED
    BY <1>1, <1>2, <1>5, <2>1, <2>2
<1>7. pos \div (2 * b) = h
  BY <1>1, <1>3, <1>6, DivUnique
<1> QED
  BY <1>1, <1>2, <1>7 DEF b, q, h

(* An authentication path made of the digests of the siblings opens to the  *)
(* root: whatever the leaves are, whatever the hash is.                     *)
THEOREM PathOpens ==
    ASSUME NEW a, NEW pos \in Nat, pos < Capacity, NEW sib,
           \A l \in Levels : sib[l] = Digest(a)[l][Sibling(pos \div Pow2[l])]
    PROVE  merkle_root(pos, a[pos], sib) = Digest(a)[Depth][0]
<1> DEFINE bits == PathBits(pos)
           D == Digest(a)
           q(l) == pos \div Pow2[l]
<1>1. PICK R : /\ PathRoot(bits, a[pos], sib) = R[Depth]
               /\ R[0] = a[pos]
               /\ \A l \in Nat :
                     R[l + 1] = IF bits[l] = 0 THEN Compress(l, R[l], sib[l])
                                ELSE Compress(l, sib[l], R[l])
  BY PathRootEquation
<1>2. /\ \A i \in Nat : D[0][i] = a[i]
      /\ \A l, i \in Nat : D[l + 1][i] = Compress(l, D[l][2 * i], D[l][2 * i + 1])
  BY DigestEquation
<1> HIDE DEF D
<1> DEFINE S == {l \in Nat : l <= Depth => R[l] = D[l][q(l)]}
<1>3. 0 \in S
  <2>1. q(0) = pos
    BY Pow2Equation
  <2> QED
    BY <1>1, <1>2, <2>1
<1>4. ASSUME NEW l \in Nat, l \in S PROVE l + 1 \in S
  <2> SUFFICES ASSUME l + 1 <= Depth PROVE R[l + 1] = D[l + 1][q(l + 1)]
    OBVIOUS
  <2>1. l \in Levels /\ R[l] = D[l][q(l)]
    BY <1>4, DepthAssumption DEF Levels
  <2>2. q(l) \in Nat /\ q(l + 1) = q(l) \div 2
    BY ShiftTwice
  <2>3. bits[l] = q(l) % 2 /\ sib[l] = D[l][Sibling(q(l))]
    BY <2>1 DEF PathBits, Bit, D
  <2> DEFINE h == q(l) \div 2
  <2> HIDE DEF bits, q
  <2>4. h \in Nat /\ (q(l) % 2 = 0 => q(l) = 2 * h)
        /\ (q(l) % 2 # 0 => q(l) = 2 * h + 1)
    BY <2>2
  <2>5. R[l + 1] = IF q(l) % 2 = 0 THEN Compress(l, R[l], sib[l])
                   ELSE Compress(l, sib[l], R[l])
    BY <1>1, <2>3
  <2>6. D[l + 1][h] = Compress(l, D[l][2 * h], D[l][2 * h + 1])
    BY <1>2, <2>4
  <2> HIDE DEF h
  <2>7. CASE q(l) % 2 = 0
    <3>1. sib[l] = D[l][2 * h + 1] /\ R[l] = D[l][2 * h]
      BY <2>1, <2>3, <2>4, <2>7 DEF Sibling
    <3> QED
      BY <2>2, <2>5, <2>6, <2>7, <3>1 DEF h
  <2>8. CASE q(l) % 2 # 0
    <3>1. sib[l] = D[l][2 * h] /\ R[l] = D[l][2 * h + 1]
      <4>1. Sibling(q(l)) = 2 * h
        BY <2>4, <2>8 DEF Sibling
      <4> QED
        BY <2>1, <2>3, <2>4, <2>8, <4>1
    <3> QED
      BY <2>2, <2>5, <2>6, <2>8, <3>1 DEF h
  <2> QED
    BY <2>7, <2>8
<1> HIDE DEF S
<1>5. Depth \in S
  BY <1>3, <1>4, DepthAssumption, Pow2Rec!SetInduction
<1>6. q(Depth) = 0
  <2>1. Pow2[Depth] \in Nat /\ Pow2[Depth] >= 1
    BY Pow2Positive, DepthAssumption
  <2> QED
    BY <2>1, DivUnique DEF Capacity
<1> QED
  BY <1>1, <1>5, <1>6, DepthAssumption DEF merkle_root, S, D

(* A subtree beyond the last leaf digests to the empty root of its height.  *)
LEMMA DigestBeyond ==
    ASSUME NEW a, NEW n \in Nat, \A k \in Nat : k >= n => a[k] = Zero
    PROVE  \A l, i \in Nat : i * Pow2[l] >= n => Digest(a)[l][i] = Empty[l]
<1> DEFINE D == Digest(a)
           S == {l \in Nat : \A i \in Nat : i * Pow2[l] >= n => D[l][i] = Empty[l]}
<1>1. /\ \A i \in Nat : D[0][i] = a[i]
      /\ \A l, i \in Nat : D[l + 1][i] = Compress(l, D[l][2 * i], D[l][2 * i + 1])
  BY DigestEquation
<1> HIDE DEF D
<1>2. 0 \in S
  <2> SUFFICES ASSUME NEW i \in Nat, i * Pow2[0] >= n PROVE D[0][i] = Empty[0]
    OBVIOUS
  <2>1. i >= n
    BY Pow2Equation
  <2> QED
    BY <1>1, <2>1, EmptyEquation
<1>3. ASSUME NEW l \in Nat, l \in S PROVE l + 1 \in S
  <2> SUFFICES ASSUME NEW i \in Nat, i * Pow2[l + 1] >= n
               PROVE  D[l + 1][i] = Empty[l + 1]
    OBVIOUS
  <2> DEFINE b == Pow2[l]
  <2>1. b \in Nat /\ b >= 1 /\ Pow2[l + 1] = 2 * b
    BY Pow2Positive, Pow2Equation
  <2>2. (2 * i) * b >= n /\ (2 * i + 1) * b >= n
    <3> HIDE DEF b
    <3>1. i * (2 * b) = (2 * i) * b /\ (2 * i + 1) * b = (2 * i) * b + b
      BY <2>1
    <3>2. (2 * i) * b \in Nat
      BY <2>1
    <3> QED
      BY <2>1, <3>1, <3>2
  <2>3. D[l][2 * i] = Empty[l] /\ D[l][2 * i + 1] = Empty[l]
    BY <1>3, <2>2
  <2> QED
    BY <1>1, <2>3, EmptyEquation
<1> HIDE DEF S
<1>4. \A l \in Nat : l \in S
  BY <1>2, <1>3, Pow2Rec!SetInduction
<1> QED
  BY <1>4 DEF S, D

(* The digest of a subtree depends on its own leaves alone.                 *)
LEMMA DigestLocal ==
    ASSUME NEW a, NEW b
    PROVE  \A l, i \in Nat :
              (\A k \in Nat : i * Pow2[l] <= k /\ k < (i + 1) * Pow2[l] => a[k] = b[k])
              => Digest(a)[l][i] = Digest(b)[l][i]
<1> DEFINE A == Digest(a)
           B == Digest(b)
           Same(l, i) ==
             \A k \in Nat : i * Pow2[l] <= k /\ k < (i + 1) * Pow2[l] => a[k] = b[k]
           S == {l \in Nat : \A i \in Nat : Same(l, i) => A[l][i] = B[l][i]}
<1>1. /\ \A i \in Nat : A[0][i] = a[i] /\ B[0][i] = b[i]
      /\ \A l, i \in Nat : A[l + 1][i] = Compress(l, A[l][2 * i], A[l][2 * i + 1])
      /\ \A l, i \in Nat : B[l + 1][i] = Compress(l, B[l][2 * i], B[l][2 * i + 1])
  BY DigestEquation
<1> HIDE DEF A, B
<1>2. 0 \in S
  <2> SUFFICES ASSUME NEW i \in Nat, Same(0, i) PROVE A[0][i] = B[0][i]
    OBVIOUS
  <2>1. a[i] = b[i]
    BY Pow2Equation
  <2> QED
    BY <1>1, <2>1
<1>3. ASSUME NEW l \in Nat, l \in S PROVE l + 1 \in S
  <2> SUFFICES ASSUME NEW i \in Nat, Same(l + 1, i) PROVE A[l + 1][i] = B[l + 1][i]
    OBVIOUS
  <2> DEFINE p == Pow2[l]
  <2>1. p \in Nat /\ p >= 1 /\ Pow2[l + 1] = 2 * p
    BY Pow2Positive, Pow2Equation
  <2>2. Same(l, 2 * i) /\ Same(l, 2 * i + 1)
    <3> HIDE DEF p
    <3>1. /\ i * (2 * p) = (2 * i) * p
          /\ (2 * i + 1) * p = (2 * i) * p + p
          /\ ((2 * i + 1) + 1) * p = (2 * i) * p + 2 * p
          /\ (i + 1) * (2 * p) = (2 * i) * p + 2 * p
          /\ (2 * i) * p \in Nat
      BY <2>1
    <3>2. \A k \in Nat : (2 * i) * p <= k /\ k < (2 * i) * p + 2 * p => a[k] = b[k]
      BY <2>1, <3>1
    <3>3. \A k \in Nat : (2 * i) * p <= k /\ k < (2 * i + 1) * p => a[k] = b[k]
      BY <2>1, <3>1, <3>2
    <3>4. \A k \in Nat : (2 * i + 1) * p <= k /\ k < ((2 * i + 1) + 1) * p => a[k] = b[k]
      BY <2>1, <3>1, <3>2
    <3> QED
      BY <3>3, <3>4 DEF p
  <2>3. A[l][2 * i] = B[l][2 * i] /\ A[l][2 * i + 1] = B[l][2 * i + 1]
    <3> HIDE DEF Same
    <3>1. 2 * i \in Nat /\ 2 * i + 1 \in Nat
      OBVIOUS
    <3> QED
      BY <1>3, <2>2, <3>1
  <2> HIDE DEF Same
  <2> QED
    BY <1>1, <2>3
<1> HIDE DEF S
<1>4. \A l \in Nat : l \in S
  BY <1>2, <1>3, Pow2Rec!SetInduction
<1> QED
  BY <1>4 DEF S, A, B

\* The first leaf of a subtree, and the first one after it.
LEMMA Bounds ==
    ASSUME NEW l \in Nat, NEW i \in Nat
    PROVE  /\ i * Pow2[l] \in Nat /\ Pow2[l] \in Nat /\ Pow2[l] >= 1
           /\ (i + 1) * Pow2[l] = i * Pow2[l] + Pow2[l]
           /\ Pow2[0] = 1 /\ i * Pow2[0] = i
<1>1. Pow2[l] \in Nat /\ Pow2[l] >= 1 /\ Pow2[0] = 1
  BY Pow2Positive, Pow2Equation
<1> DEFINE b == Pow2[l]
<1> HIDE DEF b
<1>2. b \in Nat => i * b \in Nat /\ (i + 1) * b = i * b + b
  OBVIOUS
<1> QED
  BY <1>1, <1>2 DEF b

\* A complete subtree does not depend on the leaves after it.
LEMMA SameSubtree ==
    ASSUME NEW s, NEW t, NEW n \in Nat, NEW m \in Nat, NEW l \in Nat, NEW i \in Nat,
           (i + 1) * Pow2[l] <= n, (i + 1) * Pow2[l] <= m,
           \A k \in 1 .. n : s[k] = t[k]
    PROVE  Digest(Prefix(s, n))[l][i] = Digest(Prefix(t, m))[l][i]
<1> DEFINE a == Prefix(s, n)
           b == Prefix(t, m)
           e == (i + 1) * Pow2[l]
<1>1. e \in Nat /\ i * Pow2[l] \in Nat
  <2>1. i * Pow2[l] \in Nat /\ Pow2[l] \in Nat /\ e = i * Pow2[l] + Pow2[l]
    BY Bounds
  <2> HIDE DEF e
  <2> QED
    BY <2>1
<1> HIDE DEF e
<1>2. ASSUME NEW k \in Nat, k < e
      PROVE  a[k] = b[k]
  <2>1. k < n /\ k < m /\ k + 1 \in 1 .. n
    BY <1>1, <1>2 DEF e
  <2> QED
    BY <2>1 DEF Prefix
<1> HIDE DEF a, b
<1>3. \A k \in Nat : i * Pow2[l] <= k /\ k < (i + 1) * Pow2[l] => a[k] = b[k]
  BY <1>2 DEF e
<1>4. \A h, j \in Nat :
         (\A k \in Nat : j * Pow2[h] <= k /\ k < (j + 1) * Pow2[h] => a[k] = b[k])
         => Digest(a)[h][j] = Digest(b)[h][j]
  BY DigestLocal
<1>5. Digest(a)[l][i] = Digest(b)[l][i]
  BY <1>3, <1>4
<1> QED
  BY <1>5 DEF a, b
=============================================================================
