--------------------------- MODULE PoseidonProofs ---------------------------
(***************************************************************************)
(* Theorems about the matrix and the rounds of the permutation, for every  *)
(* prime, every width, every draw and any number of rounds, about the      *)
(* sponge over any permutation, and about the generator of the constants.  *)
(***************************************************************************)
EXTENDS Poseidon, PoseidonSponge, Grain, FiniteSetTheorems, SequenceTheorems, TLAPS

-----------------------------------------------------------------------------
(* The field: integers up to multiples of the modulus.                     *)

a \cong b == a % Modulus = b % Modulus

\* The sum of the first n of a sequence of numbers.
SumTo(vs) == LET Sum[n \in Nat] == IF n = 0 THEN 0 ELSE Sum[n - 1] + vs[n] IN Sum
SumOf(vs) == SumTo(vs)[T]

SumStep(vs, n, prev) == prev + vs[n + 1]
SumRec == INSTANCE NatRecursion WITH Step <- SumStep

\* The modulus is a number above 1.
LEMMA ModulusPositive == Modulus \in Nat \ {0} /\ Modulus > 1 /\ 0 \in F /\ 1 \in F
  BY PoseidonAssumption DEF F

\* Numbers that differ by a multiple of the modulus are the same element.
LEMMA CongMultiple ==
    ASSUME NEW a \in Int, NEW b \in Int, NEW k \in Int, a = b + Modulus * k
    PROVE  a \cong b
  BY ModulusPositive, SumRec!ModShift DEF \cong

\* Two numbers of one element differ by a multiple of the modulus.
LEMMA CongWitness ==
    ASSUME NEW a \in Int, NEW b \in Int, a \cong b
    PROVE  \E k \in Int : a = b + Modulus * k
<1> DEFINE p == a \div Modulus
           q == b \div Modulus
           r == a % Modulus
<1>1. /\ p \in Int /\ q \in Int /\ r \in Int
      /\ a = Modulus * p + r /\ b = Modulus * q + r
  BY ModulusPositive, SumRec!ModEquation DEF \cong
<1> HIDE DEF p, q, r
<1>2. Modulus \in Int
  BY ModulusPositive
<1>3. a = b + Modulus * (p - q)
  <2>1. Modulus * (p - q) = Modulus * p - Modulus * q
    BY <1>1, <1>2
  <2> QED
    BY <1>1, <1>2, <2>1
<1> QED
  BY <1>1, <1>3

\* Elements are added, subtracted and multiplied by any of their numbers.
LEMMA CongRing ==
    ASSUME NEW a \in Int, NEW b \in Int, NEW c \in Int, NEW d \in Int, a \cong b, c \cong d
    PROVE  a + c \cong b + d /\ a - c \cong b - d /\ a * c \cong b * d
<1>1. PICK k \in Int : a = b + Modulus * k
  BY CongWitness
<1>2. PICK l \in Int : c = d + Modulus * l
  BY CongWitness
<1>3. Modulus \in Int
  BY ModulusPositive
<1>4. a + c = b + d + Modulus * (k + l) /\ a - c = b - d + Modulus * (k - l)
  BY <1>1, <1>2, <1>3
<1>5. a * c = b * d + Modulus * (k * d + b * l + Modulus * (k * l))
  <2>1. a * c = (b + Modulus * k) * (d + Modulus * l)
    BY <1>1, <1>2
  <2> QED
    BY <1>3, <2>1
<1>6. a + c \in Int /\ b + d \in Int /\ a - c \in Int /\ b - d \in Int /\ a * c \in Int
      /\ b * d \in Int /\ k + l \in Int /\ k - l \in Int
      /\ k * d + b * l + Modulus * (k * l) \in Int
  BY <1>3
<1> QED
  BY <1>4, <1>5, <1>6, CongMultiple

\* A multiple of an element.
LEMMA CongScale ==
    ASSUME NEW a \in Int, NEW b \in Int, NEW c \in Int, a \cong b
    PROVE  c * a \cong c * b
<1>1. c \cong c
  BY DEF \cong
<1> QED
  BY <1>1, CongRing

\* The element of a number.
LEMMA CongMod ==
    ASSUME NEW a \in Int
    PROVE  a % Modulus \in F /\ a % Modulus \cong a
<1> DEFINE p == a \div Modulus
           r == a % Modulus
<1>1. p \in Int /\ r \in 0 .. Modulus - 1 /\ a = Modulus * p + r
  BY ModulusPositive, SumRec!ModEquation
<1> HIDE DEF p, r
<1>2. Modulus \in Int /\ r = a + Modulus * (- p) /\ r \in Int
  BY <1>1, ModulusPositive
<1>3. r \cong a
  BY <1>1, <1>2, CongMultiple, - p \in Int
<1> QED
  BY <1>1, <1>3 DEF F, r

\* An element is its own number.
LEMMA CongElement ==
    ASSUME NEW a \in F, NEW b \in F, a \cong b
    PROVE  a = b
<1>1. PICK k \in Int : a = b + Modulus * k
  BY CongWitness, ModulusPositive DEF F
<1>2. Modulus * k < Modulus /\ - Modulus < Modulus * k
  BY <1>1, ModulusPositive DEF F
<1>3. k = 0
  BY <1>2, ModulusPositive, SumRec!SmallMultiple
<1> QED
  BY <1>1, <1>3, ModulusPositive DEF F

\* Being the same element is an equivalence.
LEMMA CongEquivalence ==
    /\ \A a \in Int : a \cong a
    /\ \A a, b \in Int : a \cong b => b \cong a
    /\ \A a, b, c \in Int : a \cong b /\ b \cong c => a \cong c
  BY Zenon DEF \cong

\* An element that is not 0 has an inverse: of the numbers its multiples have,
\* one that is above 1 leaves a smaller one as the remainder of the modulus.
LEMMA InverseExists ==
    ASSUME NEW a \in Int, ~(a \cong 0)
    PROVE  \E b \in Int : a * b \cong 1
<1> DEFINE M == {n \in 1 .. Modulus - 1 : \E b \in Int : a * b \cong n}
           S == {n \in Nat : \A m \in M : m <= n => 1 \in M}
<1>1. 0 \in S
  OBVIOUS
<1> HIDE DEF M
<1>2. ASSUME NEW n \in Nat, n \in S PROVE n + 1 \in S
  <2> SUFFICES ASSUME NEW m \in M, m <= n + 1, m # 1 PROVE 1 \in M
    OBVIOUS
  <2>1. m \in 2 .. Modulus - 1 /\ m \in Nat \ {0}
    BY ModulusPositive DEF M
  <2>2. PICK b \in Int : a * b \cong m
    <3>1. m \in M
      OBVIOUS
    <3> QED
      BY <3>1, Zenon DEF M
  <2> DEFINE q == Modulus \div m
             r == Modulus % m
  <2>3. q \in Int /\ r \in 0 .. m - 1 /\ Modulus = m * q + r
    BY <2>1, ModulusPositive, SumRec!ModEquation
  <2>4. r # 0
    BY <2>1, PoseidonAssumption
  <2> HIDE DEF q, r
  <2>5. r \in 1 .. Modulus - 1 /\ r <= n
    BY <2>1, <2>3, <2>4
  <2>6. a * ((- q) * b) \cong r
    <3>1. a * ((- q) * b) = (a * b) * (- q) /\ a * b \in Int /\ - q \in Int
      BY <2>3
    <3>2. (a * b) * (- q) \cong m * (- q)
      <4>1. - q \cong - q /\ m \in Int
        BY <2>1, <3>1, CongEquivalence
      <4> QED
        BY <2>2, <3>1, <4>1, CongRing
    <3>3. m * (- q) = r + Modulus * (-1)
      <4>1. m * (- q) = - (m * q)
        BY <2>1, <2>3
      <4> QED
        BY <2>1, <2>3, <4>1, ModulusPositive
    <3>4. m * (- q) \cong r
      <4>1. m * (- q) \in Int /\ r \in Int /\ -1 \in Int
        BY <2>1, <2>3
      <4> QED
        BY <3>3, <4>1, CongMultiple
    <3> QED
      BY <2>1, <2>3, <3>1, <3>2, <3>4, CongEquivalence
  <2>7. r \in M
    <3>1. (- q) * b \in Int
      BY <2>3
    <3> QED
      BY <2>5, <2>6, <3>1 DEF M
  <2> QED
    BY <1>2, <2>5, <2>7
<1>3. \A n \in Nat : n \in S
  <2> HIDE DEF S
  <2> QED
    BY <1>1, <1>2, SumRec!SetInduction
<1>4. a % Modulus \in M
  <2> DEFINE c == a % Modulus
  <2>1. c \in F /\ c \cong a
    BY CongMod
  <2> HIDE DEF c
  <2>2. c \in 0 .. Modulus - 1
    BY <2>1 DEF F
  <2>3. c # 0
    BY <2>1, CongEquivalence
  <2>4. a * 1 \cong c
    BY <2>1, <2>2, CongEquivalence, a * 1 = a
  <2> QED
    BY <2>2, <2>3, <2>4 DEF c, M
<1>5. 1 \in M
  BY <1>3, <1>4 DEF M
<1> QED
  BY <1>5, Zenon DEF M

\* A factor that is not 0 cancels.
LEMMA CongCancel ==
    ASSUME NEW a \in Int, NEW x \in Int, NEW y \in Int, ~(a \cong 0), a * x \cong a * y
    PROVE  x \cong y
<1>1. PICK b \in Int : a * b \cong 1
  BY InverseExists
<1>2. b * (a * x) \cong b * (a * y)
  BY CongRing, CongEquivalence, a * x \in Int, a * y \in Int
<1>3. ASSUME NEW z \in Int PROVE b * (a * z) \cong z
  <2>1. b * (a * z) = (a * b) * z /\ 1 * z = z /\ a * b \in Int
    OBVIOUS
  <2> QED
    BY <1>1, <2>1, CongRing, CongEquivalence
<1>4. b * (a * x) \in Int /\ b * (a * y) \in Int
  OBVIOUS
<1> QED
  BY <1>2, <1>3, <1>4, CongEquivalence

\* A product is 0 only if a factor is.
LEMMA NoZeroDivisors ==
    ASSUME NEW a \in Int, NEW b \in Int, a * b \cong 0
    PROVE  a \cong 0 \/ b \cong 0
<1>1. a * 0 = 0
  OBVIOUS
<1> QED
  BY <1>1, CongCancel

\* Invert of an element that is not 0.
LEMMA InvertCorrect ==
    ASSUME NEW x \in F, x # 0
    PROVE  Invert(x) \in F /\ Invert(x) # 0 /\ x * Invert(x) \cong 1
<1>1. x \in Int /\ ~(x \cong 0)
  BY CongElement, ModulusPositive DEF F
<1>2. PICK b \in Int : x * b \cong 1
  BY <1>1, InverseExists
<1>3. b % Modulus \in F /\ x * (b % Modulus) \cong 1
  <2> DEFINE c == b % Modulus
  <2>1. c \in F /\ c \cong b
    BY CongMod
  <2> HIDE DEF c
  <2>2. c \in Int /\ x * c \in Int /\ x * b \in Int
    BY <1>1, <2>1 DEF F
  <2>3. x * c \cong x * b
    BY <1>1, <2>1, <2>2, CongRing, CongEquivalence
  <2> QED
    BY <1>2, <2>1, <2>2, <2>3, CongEquivalence DEF c
<1>4. \A n \in Int : n % Modulus = 1 <=> n \cong 1
  <2>1. 1 % Modulus = 1
    <3>1. 1 % Modulus \in F /\ 1 % Modulus \cong 1
      BY CongMod
    <3> QED
      BY <3>1, CongElement, ModulusPositive
  <2> QED
    BY <2>1 DEF \cong
<1>5. \A y \in F : x * y \in Int
  BY <1>1 DEF F
<1>6. Invert(x) \in F /\ (x * Invert(x)) % Modulus = 1
  <2>1. \E y \in F : (x * y) % Modulus = 1 \/ x = 0
    BY <1>3, <1>4, <1>5
  <2> DEFINE y == Invert(x)
  <2>2. y \in F /\ ((x * y) % Modulus = 1 \/ x = 0)
    BY <2>1 DEF Invert
  <2> QED
    BY <2>2
<1>7. Invert(x) # 0
  <2> SUFFICES ASSUME Invert(x) = 0 PROVE FALSE
    OBVIOUS
  <2>1. x * Invert(x) = 0
    BY <1>1
  <2>2. 0 \cong 1
    BY <1>4, <1>6, <2>1
  <2> QED
    BY <2>2, CongElement, ModulusPositive
<1> QED
  BY <1>4, <1>5, <1>6, <1>7

-----------------------------------------------------------------------------
(* Sums.                                                                   *)

\* A sum starts at 0 and takes one number at a time.
LEMMA SumEquation ==
    ASSUME NEW vs
    PROVE  SumTo(vs)[0] = 0 /\ \A n \in Nat : SumTo(vs)[n + 1] = SumTo(vs)[n] + vs[n + 1]
<1> DEFINE Eq(S) == S = [n \in Nat |-> IF n = 0 THEN 0 ELSE S[n - 1] + vs[n]]
           R == SumRec!Rec(vs, 0)
           A == SumTo(vs)
<1>1. Eq(R)
  <2>1. R = [n \in Nat |-> IF n = 0 THEN 0 ELSE R[n - 1] + vs[(n - 1) + 1]]
    BY SumRec!RecEquation DEF SumStep
  <2>2. \A n \in Nat : (n - 1) + 1 = n
    OBVIOUS
  <2> HIDE DEF R
  <2> QED
    BY <2>1, <2>2
<1>2. A = CHOOSE S : Eq(S)
  BY DEF SumTo
<1>3. Eq(A)
  <2> HIDE DEF Eq, R, A
  <2> QED
    BY <1>1, <1>2
<1> HIDE DEF A
<1>4. A[0] = 0
  BY <1>3
<1>5. ASSUME NEW n \in Nat PROVE A[n + 1] = A[n] + vs[n + 1]
  <2>1. n + 1 \in Nat /\ n + 1 # 0 /\ (n + 1) - 1 = n
    OBVIOUS
  <2> QED
    BY <1>3, <2>1
<1> QED
  BY <1>4, <1>5 DEF A

\* Sums of integers are integers.
LEMMA SumType ==
    ASSUME NEW vs \in [Index -> Int]
    PROVE  \A n \in 0 .. T : SumTo(vs)[n] \in Int
<1> DEFINE S == {n \in Nat : n <= T => SumTo(vs)[n] \in Int}
<1>1. 0 \in S
  BY SumEquation
<1>2. ASSUME NEW n \in Nat, n \in S PROVE n + 1 \in S
  <2> SUFFICES ASSUME n + 1 <= T PROVE SumTo(vs)[n + 1] \in Int
    OBVIOUS
  <2>1. n + 1 \in Index /\ SumTo(vs)[n] \in Int
    BY <1>2, PoseidonAssumption DEF Index
  <2> QED
    BY <2>1, SumEquation
<1> HIDE DEF S
<1>3. \A n \in Nat : n \in S
  BY <1>1, <1>2, SumRec!SetInduction
<1> QED
  BY <1>3 DEF S

\* Sums of the same elements are the same element.
LEMMA SumCong ==
    ASSUME NEW vs \in [Index -> Int], NEW ts \in [Index -> Int],
           \A k \in Index : vs[k] \cong ts[k]
    PROVE  \A n \in 0 .. T : SumTo(vs)[n] \cong SumTo(ts)[n]
<1> DEFINE S == {n \in Nat : n <= T => SumTo(vs)[n] \cong SumTo(ts)[n]}
<1>1. 0 \in S
  BY SumEquation, CongEquivalence
<1>2. ASSUME NEW n \in Nat, n \in S PROVE n + 1 \in S
  <2> SUFFICES ASSUME n + 1 <= T PROVE SumTo(vs)[n + 1] \cong SumTo(ts)[n + 1]
    OBVIOUS
  <2>1. n + 1 \in Index /\ n \in 0 .. T
    BY PoseidonAssumption DEF Index
  <2>2. SumTo(vs)[n] \in Int /\ SumTo(ts)[n] \in Int /\ SumTo(vs)[n] \cong SumTo(ts)[n]
    BY <1>2, <2>1, SumType
  <2>3. SumTo(vs)[n] + vs[n + 1] \cong SumTo(ts)[n] + ts[n + 1]
    BY <2>1, <2>2, CongRing
  <2> QED
    BY <2>3, SumEquation
<1> HIDE DEF S
<1>3. \A n \in Nat : n \in S
  BY <1>1, <1>2, SumRec!SetInduction
<1> QED
  BY <1>3 DEF S

\* A sum of multiples and sums.
LEMMA SumLinear ==
    ASSUME NEW vs \in [Index -> Int], NEW us \in [Index -> Int], NEW c \in Int,
           NEW ws, \A k \in Index : ws[k] = vs[k] + c * us[k]
    PROVE  \A n \in 0 .. T : SumTo(ws)[n] = SumTo(vs)[n] + c * SumTo(us)[n]
<1> DEFINE S == {n \in Nat : n <= T => SumTo(ws)[n] = SumTo(vs)[n] + c * SumTo(us)[n]}
<1>1. 0 \in S
  BY SumEquation
<1>2. ASSUME NEW n \in Nat, n \in S PROVE n + 1 \in S
  <2> SUFFICES ASSUME n + 1 <= T
               PROVE  SumTo(ws)[n + 1] = SumTo(vs)[n + 1] + c * SumTo(us)[n + 1]
    OBVIOUS
  <2>1. n + 1 \in Index /\ n \in 0 .. T
    BY PoseidonAssumption DEF Index
  <2> DEFINE X == SumTo(vs)[n]
             U == SumTo(us)[n]
             W == SumTo(ws)[n]
             x == vs[n + 1]
             u == us[n + 1]
  <2>2. X \in Int /\ U \in Int /\ x \in Int /\ u \in Int
    BY <2>1, SumType
  <2>3. W = X + c * U /\ ws[n + 1] = x + c * u
    BY <1>2, <2>1
  <2>4. /\ SumTo(ws)[n + 1] = W + ws[n + 1] /\ SumTo(vs)[n + 1] = X + x
        /\ SumTo(us)[n + 1] = U + u
    BY SumEquation
  <2> HIDE DEF X, U, W, x, u
  <2>5. X + c * U + (x + c * u) = X + x + c * (U + u)
    BY <2>2
  <2> QED
    BY <2>3, <2>4, <2>5
<1> HIDE DEF S
<1>3. \A n \in Nat : n \in S
  BY <1>1, <1>2, SumRec!SetInduction
<1> QED
  BY <1>3 DEF S

\* A sum of which one number only is not 0.
LEMMA SumSingle ==
    ASSUME NEW vs \in [Index -> Int], NEW i \in Index, \A k \in Index \ {i} : vs[k] = 0
    PROVE  SumOf(vs) = vs[i]
<1> DEFINE S == {n \in Nat : n <= T => SumTo(vs)[n] = IF n < i THEN 0 ELSE vs[i]}
<1>1. 0 \in S
  BY SumEquation DEF Index
<1>2. ASSUME NEW n \in Nat, n \in S PROVE n + 1 \in S
  <2> SUFFICES ASSUME n + 1 <= T
               PROVE  SumTo(vs)[n + 1] = IF n + 1 < i THEN 0 ELSE vs[i]
    OBVIOUS
  <2>1. n + 1 \in Index /\ i \in Int /\ vs[i] \in Int /\ T \in Int
    BY PoseidonAssumption DEF Index
  <2>2. SumTo(vs)[n] = IF n < i THEN 0 ELSE vs[i]
    BY <1>2, <2>1
  <2>3. SumTo(vs)[n + 1] = SumTo(vs)[n] + vs[n + 1]
    BY SumEquation
  <2>4. n + 1 # i => vs[n + 1] = 0
    BY <2>1
  <2> QED
    BY <2>1, <2>2, <2>3, <2>4
<1> HIDE DEF S
<1>3. \A n \in Nat : n \in S
  BY <1>1, <1>2, SumRec!SetInduction
<1> QED
  BY <1>3, PoseidonAssumption DEF S, SumOf, Index

\* A sum of sums may be taken by rows or by columns.
LEMMA SumSwap ==
    ASSUME NEW a \in [Index -> [Index -> Int]]
    PROVE  SumOf([j \in Index |-> SumOf(a[j])])
             = SumOf([k \in Index |-> SumOf([j \in Index |-> a[j][k]])])
<1> DEFINE rows == [j \in Index |-> SumOf(a[j])]
           col(k) == [j \in Index |-> a[j][k]]
           part(n) == [k \in Index |-> SumTo(col(k))[n]]
           S == {n \in Nat : n <= T => SumTo(rows)[n] = SumOf(part(n))}
<1>0. T \in Nat /\ T \in 0 .. T
  BY PoseidonAssumption
<1>1. \A k \in Index : col(k) \in [Index -> Int]
  OBVIOUS
<1>2. \A n \in 0 .. T : part(n) \in [Index -> Int]
  BY <1>1, SumType
<1>3. rows \in [Index -> Int]
  BY <1>0, SumType DEF SumOf
<1>4. 0 \in S
  <2>1. part(0) = [k \in Index |-> 0]
    BY SumEquation
  <2> DEFINE z == [k \in Index |-> 0]
  <2>2. z \in [Index -> Int] /\ 1 \in Index /\ \A k \in Index \ {1} : z[k] = 0
    BY PoseidonAssumption DEF Index
  <2>3. SumOf(z) = z[1]
    BY <2>2, SumSingle
  <2>4. SumTo(rows)[0] = 0
    BY SumEquation
  <2> QED
    BY <2>1, <2>2, <2>3, <2>4
<1>5. ASSUME NEW n \in Nat, n \in S PROVE n + 1 \in S
  <2> SUFFICES ASSUME n + 1 <= T PROVE SumTo(rows)[n + 1] = SumOf(part(n + 1))
    OBVIOUS
  <2>1. n + 1 \in Index /\ n \in 0 .. T
    BY <1>0 DEF Index
  <2>2. SumTo(rows)[n + 1] = SumOf(part(n)) + SumOf(a[n + 1])
    BY <1>5, <2>1, SumEquation
  <2>3. part(n + 1) = [k \in Index |-> part(n)[k] + 1 * a[n + 1][k]]
    <3>1. ASSUME NEW k \in Index PROVE SumTo(col(k))[n + 1] = part(n)[k] + 1 * a[n + 1][k]
      <4>1. SumTo(col(k))[n + 1] = SumTo(col(k))[n] + col(k)[n + 1]
        BY SumEquation
      <4>2. col(k)[n + 1] = a[n + 1][k] /\ a[n + 1][k] \in Int
        BY <2>1
      <4> QED
        BY <4>1, <4>2
    <3> QED
      BY <3>1
  <2> DEFINE P == part(n)
             Q == part(n + 1)
             A == a[n + 1]
  <2>4. P \in [Index -> Int] /\ A \in [Index -> Int] /\ Q = [k \in Index |-> P[k] + 1 * A[k]]
    BY <1>2, <2>1, <2>3
  <2> HIDE DEF P, Q, A
  <2>5. SumOf(Q) = SumOf(P) + 1 * SumOf(A)
    <3>1. ASSUME NEW c \in Int, c = 1
          PROVE  SumTo(Q)[T] = SumTo(P)[T] + c * SumTo(A)[T]
      <4>1. \A k \in Index : Q[k] = P[k] + c * A[k]
        BY <2>4, <3>1
      <4> QED
        BY <1>0, <2>4, <4>1, SumLinear
    <3>2. SumTo(Q)[T] = SumTo(P)[T] + 1 * SumTo(A)[T]
      BY <3>1, 1 \in Int
    <3> QED
      BY <3>2 DEF SumOf
  <2>6. SumOf(A) \in Int
    BY <1>0, <2>4, SumType DEF SumOf
  <2> QED
    BY <2>2, <2>5, <2>6 DEF P, Q, A
<1> HIDE DEF S
<1>6. \A n \in Nat : n \in S
  BY <1>4, <1>5, SumRec!SetInduction
<1> QED
  BY <1>0, <1>6 DEF S, SumOf

-----------------------------------------------------------------------------
(* Polynomials, by Horner's rule: Polynomials[n] are the functions that a  *)
(* polynomial of n coefficients computes, up to multiples of the modulus.  *)

PolStep(p, n, prev) ==
    {f \in [Int -> Int] : \E g \in prev, c \in Int : \A x \in Int : f[x] \cong x * g[x] + c}

Polynomials ==
    LET P[n \in Nat] == IF n = 0 THEN {f \in [Int -> Int] : \A x \in Int : f[x] \cong 0}
                        ELSE PolStep(0, n - 1, P[n - 1])
    IN  P

PolRec == INSTANCE NatRecursion WITH Step <- PolStep

\* The recursion, coefficient by coefficient.
LEMMA PolynomialEquation ==
    /\ Polynomials[0] = {f \in [Int -> Int] : \A x \in Int : f[x] \cong 0}
    /\ \A n \in Nat : Polynomials[n + 1] = PolStep(0, n, Polynomials[n])
<1> DEFINE base == {f \in [Int -> Int] : \A x \in Int : f[x] \cong 0}
           Eq(P) == P = [n \in Nat |-> IF n = 0 THEN base ELSE PolStep(0, n - 1, P[n - 1])]
           R == PolRec!Rec(0, base)
           A == Polynomials
<1>1. A = CHOOSE P : Eq(P)
  BY DEF Polynomials
<1> HIDE DEF base
<1>2. Eq(R)
  BY PolRec!RecEquation
<1>3. Eq(A)
  <2> HIDE DEF Eq, R, A
  <2> QED
    BY <1>1, <1>2
<1> HIDE DEF A
<1>4. A[0] = base
  BY <1>3
<1>5. ASSUME NEW n \in Nat PROVE A[n + 1] = PolStep(0, n, A[n])
  <2>1. n + 1 \in Nat /\ n + 1 # 0 /\ (n + 1) - 1 = n
    OBVIOUS
  <2> QED
    BY <1>3, <2>1
<1> QED
  BY <1>4, <1>5 DEF A, base

\* Polynomials compute integers.
LEMMA PolynomialType ==
    ASSUME NEW n \in Nat
    PROVE  Polynomials[n] \subseteq [Int -> Int]
<1>1. CASE n = 0
  BY <1>1, PolynomialEquation
<1>2. CASE n # 0
  <2>1. n - 1 \in Nat /\ n = (n - 1) + 1
    BY <1>2
  <2> QED
    BY <2>1, PolynomialEquation DEF PolStep
<1> QED
  BY <1>1, <1>2

\* Closed under multiples and sums.
Linear(P) ==
    \A f, g \in P : \A c \in Int, h \in [Int -> Int] :
        (\A x \in Int : h[x] \cong f[x] + c * g[x]) => h \in P

\* Multiples and sums of polynomials are polynomials.
LEMMA PolynomialLinear == \A n \in Nat : Linear(Polynomials[n])
<1> DEFINE S == {n \in Nat : Linear(Polynomials[n])}
<1>1. 0 \in S
  <2> SUFFICES ASSUME NEW f \in Polynomials[0], NEW g \in Polynomials[0], NEW c \in Int,
                      NEW h \in [Int -> Int], \A x \in Int : h[x] \cong f[x] + c * g[x]
               PROVE  h \in Polynomials[0]
    BY DEF Linear
  <2>1. ASSUME NEW x \in Int PROVE h[x] \cong 0
    <3> DEFINE a == f[x]
               b == g[x]
               d == h[x]
    <3>1. a \in Int /\ b \in Int /\ d \in Int /\ a \cong 0 /\ b \cong 0
      BY PolynomialEquation
    <3>2. d \cong a + c * b
      OBVIOUS
    <3> HIDE DEF a, b, d
    <3>3. c * b \cong c * 0
      BY <3>1, CongScale, 0 \in Int, Zenon
    <3>4. c * b \in Int /\ a + c * b \in Int /\ c * 0 = 0
      BY <3>1
    <3>5. a + c * b \cong 0 + 0
      BY <3>1, <3>3, <3>4, CongRing
    <3>6. d \cong 0
      BY <3>1, <3>2, <3>4, <3>5, CongEquivalence
    <3> QED
      BY <3>6 DEF d
  <2> QED
    BY <2>1, PolynomialEquation
<1>2. ASSUME NEW m \in Nat, m \in S PROVE m + 1 \in S
  <2> SUFFICES Linear(Polynomials[m + 1])
    OBVIOUS
  <2> SUFFICES ASSUME NEW f \in Polynomials[m + 1], NEW g \in Polynomials[m + 1],
                      NEW c \in Int, NEW h \in [Int -> Int],
                      \A x \in Int : h[x] \cong f[x] + c * g[x]
               PROVE  h \in Polynomials[m + 1]
    BY DEF Linear
  <2>1. PICK f1 \in Polynomials[m], f0 \in Int : \A x \in Int : f[x] \cong x * f1[x] + f0
    <3>1. f \in PolStep(0, m, Polynomials[m])
      BY PolynomialEquation
    <3> QED
      BY <3>1, Zenon DEF PolStep
  <2>2. PICK g1 \in Polynomials[m], g0 \in Int : \A x \in Int : g[x] \cong x * g1[x] + g0
    <3>1. g \in PolStep(0, m, Polynomials[m])
      BY PolynomialEquation
    <3> QED
      BY <3>1, Zenon DEF PolStep
  <2>3. /\ f \in [Int -> Int] /\ g \in [Int -> Int]
        /\ f1 \in [Int -> Int] /\ g1 \in [Int -> Int]
    BY PolynomialType, m + 1 \in Nat
  <2> DEFINE h1 == [x \in Int |-> f1[x] + c * g1[x]]
             h0 == f0 + c * g0
  <2>4. h1 \in [Int -> Int] /\ h0 \in Int
    BY <2>3
  <2>5. \A x \in Int : h1[x] \cong f1[x] + c * g1[x]
    BY <2>3, CongEquivalence
  <2>6. h1 \in Polynomials[m]
    <3>1. Linear(Polynomials[m])
      BY <1>2
    <3> HIDE DEF h1
    <3> QED
      BY <2>4, <2>5, <3>1, Zenon DEF Linear
  <2>7. ASSUME NEW x \in Int PROVE h[x] \cong x * h1[x] + h0
    <3> DEFINE a == f[x]
               b == g[x]
               p == f1[x]
               q == g1[x]
    <3>1. a \in Int /\ b \in Int /\ p \in Int /\ q \in Int /\ h[x] \in Int
      BY <2>3
    <3>2. a \cong x * p + f0 /\ b \cong x * q + g0 /\ h[x] \cong a + c * b
      BY <2>1, <2>2
    <3>3. h1[x] = p + c * q
      OBVIOUS
    <3> HIDE DEF a, b, p, q, h1
    <3>4. x * q + g0 \in Int /\ x * p + f0 \in Int
      BY <3>1
    <3>7. c * b \cong c * (x * q + g0)
      BY <3>1, <3>2, <3>4, CongScale
    <3>5. a + c * b \cong (x * p + f0) + c * (x * q + g0)
      BY <3>1, <3>2, <3>4, <3>7, CongRing, c * b \in Int, c * (x * q + g0) \in Int
    <3>6. (x * p + f0) + c * (x * q + g0) = x * h1[x] + h0
      BY <3>1, <3>3
    <3> QED
      BY <3>1, <3>2, <3>4, <3>5, <3>6, CongEquivalence, a + c * b \in Int
  <2> HIDE DEF h1, h0
  <2> QED
    <3>1. h \in PolStep(0, m, Polynomials[m])
      BY <2>4, <2>6, <2>7, Zenon DEF PolStep
    <3> QED
      BY <3>1, PolynomialEquation
<1> HIDE DEF S
<1>3. \A m \in Nat : m \in S
  BY <1>1, <1>2, PolRec!SetInduction
<1> QED
  BY <1>3 DEF S

\* A constant is a polynomial of one coefficient or more.
LEMMA PolynomialConstant ==
    ASSUME NEW c \in Int, NEW h \in [Int -> Int], \A x \in Int : h[x] \cong c
    PROVE  \A n \in Nat : h \in Polynomials[n + 1]
<1> DEFINE z == [x \in Int |-> 0]
           S == {n \in Nat : z \in Polynomials[n]}
<1>1. z \in [Int -> Int] /\ \A x \in Int : x * z[x] = 0 /\ z[x] = 0
  OBVIOUS
<1> HIDE DEF z
<1>2. 0 \in S
  <2>1. \A x \in Int : z[x] \cong 0
    BY <1>1, CongEquivalence
  <2> QED
    BY <1>1, <2>1, PolynomialEquation
<1>3. ASSUME NEW n \in Nat, z \in Polynomials[n], NEW d \in Int, NEW f \in [Int -> Int],
             \A x \in Int : f[x] \cong d
      PROVE  f \in Polynomials[n + 1]
  <2>1. \A x \in Int : f[x] \cong x * z[x] + d
    <3>1. \A x \in Int : x * z[x] + d = d
      BY <1>1
    <3> QED
      BY <1>3, <3>1
  <2>2. f \in PolStep(0, n, Polynomials[n])
    BY <1>3, <2>1, Zenon DEF PolStep
  <2> QED
    BY <2>2, PolynomialEquation
<1>4. ASSUME NEW n \in Nat, n \in S PROVE n + 1 \in S
  <2>1. \A x \in Int : z[x] \cong 0
    BY <1>1, CongEquivalence
  <2>2. z \in Polynomials[n]
    BY <1>4
  <2>3. z \in Polynomials[n + 1]
    BY <1>1, <1>3, <2>1, <2>2, 0 \in Int, Zenon
  <2> QED
    BY <2>3
<1> HIDE DEF S
<1>5. \A n \in Nat : n \in S
  BY <1>2, <1>4, PolRec!SetInduction
<1> QED
  BY <1>3, <1>5 DEF S

\* A coefficient that is not used may be added.
LEMMA PolynomialGrows == \A n \in Nat : Polynomials[n] \subseteq Polynomials[n + 1]
<1> DEFINE S == {n \in Nat : Polynomials[n] \subseteq Polynomials[n + 1]}
<1>1. 0 \in S
  <2> SUFFICES ASSUME NEW f \in Polynomials[0] PROVE f \in Polynomials[0 + 1]
    OBVIOUS
  <2>1. f \in [Int -> Int] /\ \A x \in Int : f[x] \cong 0
    BY PolynomialEquation
  <2> QED
    BY <2>1, PolynomialConstant, 0 \in Nat, 0 \in Int
<1>2. ASSUME NEW n \in Nat, n \in S PROVE n + 1 \in S
  <2> SUFFICES ASSUME NEW f \in Polynomials[n + 1] PROVE f \in Polynomials[(n + 1) + 1]
    OBVIOUS
  <2>1. f \in PolStep(0, n, Polynomials[n])
    BY PolynomialEquation
  <2>2. f \in PolStep(0, n + 1, Polynomials[n + 1])
    BY <1>2, <2>1, Zenon DEF PolStep
  <2> QED
    BY <2>2, PolynomialEquation, n + 1 \in Nat
<1> HIDE DEF S
<1>3. \A n \in Nat : n \in S
  BY <1>1, <1>2, PolRec!SetInduction
<1> QED
  BY <1>3 DEF S

\* A polynomial times a linear factor.
LEMMA PolynomialTimes ==
    ASSUME NEW n \in Nat, NEW f \in Polynomials[n], NEW r \in Int, NEW h \in [Int -> Int],
           \A x \in Int : h[x] \cong (x - r) * f[x]
    PROVE  h \in Polynomials[n + 1]
<1> DEFINE q == [x \in Int |-> x * f[x]]
<1>1. f \in [Int -> Int]
  BY PolynomialType
<1>2. q \in [Int -> Int] /\ \A x \in Int : q[x] = x * f[x] /\ q[x] \in Int
  BY <1>1
<1> HIDE DEF q
<1>3. q \in Polynomials[n + 1]
  <2>1. \A x \in Int : q[x] \cong x * f[x] + 0
    <3>1. \A x \in Int : q[x] = x * f[x] + 0
      BY <1>2
    <3> QED
      BY <1>2, <3>1, CongEquivalence
  <2>2. q \in PolStep(0, n, Polynomials[n])
    BY <1>2, <2>1, 0 \in Int, Zenon DEF PolStep
  <2> QED
    BY <2>2, PolynomialEquation
<1>4. f \in Polynomials[n + 1] /\ Linear(Polynomials[n + 1])
  BY PolynomialGrows, PolynomialLinear, n + 1 \in Nat
<1>5. \A x \in Int : h[x] \cong q[x] + (- r) * f[x]
  <2>1. \A x \in Int : (x - r) * f[x] = q[x] + (- r) * f[x]
    BY <1>1, <1>2
  <2> QED
    BY <2>1
<1> QED
  BY <1>3, <1>4, <1>5, - r \in Int, Zenon DEF Linear

\* A polynomial is its value at a point plus a multiple of the linear factor of
\* the point.
LEMMA PolynomialFactor ==
    ASSUME NEW r \in Int
    PROVE  \A n \in Nat : \A f \in Polynomials[n + 1] :
               \E q \in Polynomials[n] : \A x \in Int : f[x] \cong f[r] + (x - r) * q[x]
<1> DEFINE Ok(n) == \A f \in Polynomials[n + 1] :
                      \E q \in Polynomials[n] : \A x \in Int : f[x] \cong f[r] + (x - r) * q[x]
           S == {n \in Nat : Ok(n)}
<1>1. ASSUME NEW n \in Nat, NEW f \in Polynomials[n + 1]
      PROVE  /\ f \in [Int -> Int]
             /\ \E g \in Polynomials[n], c \in Int :
                  g \in [Int -> Int] /\ \A x \in Int : f[x] \cong x * g[x] + c
  <2>1. f \in PolStep(0, n, Polynomials[n])
    BY PolynomialEquation
  <2>2. Polynomials[n] \subseteq [Int -> Int]
    BY PolynomialType
  <2> QED
    BY <2>1, <2>2, Zenon DEF PolStep
<1>2. 0 \in S
  <2> SUFFICES ASSUME NEW f \in Polynomials[0 + 1]
               PROVE  \E q \in Polynomials[0] :
                        \A x \in Int : f[x] \cong f[r] + (x - r) * q[x]
    OBVIOUS
  <2>1. PICK g \in Polynomials[0], c \in Int :
           f \in [Int -> Int] /\ g \in [Int -> Int] /\ \A x \in Int : f[x] \cong x * g[x] + c
    BY <1>1, 0 \in Nat, Zenon
  <2>2. ASSUME NEW x \in Int, NEW y \in Int PROVE y * g[x] \cong 0
    <3> DEFINE a == g[x]
    <3>1. a \in Int /\ a \cong 0
      BY PolynomialEquation, <2>1
    <3> HIDE DEF a
    <3>2. y * a \cong y * 0
      BY <3>1, CongScale, 0 \in Int, Zenon
    <3> QED
      BY <3>2, y * 0 = 0 DEF a
  <2>3. ASSUME NEW x \in Int PROVE f[x] \cong c
    <3> DEFINE a == x * g[x]
    <3>1. a \in Int /\ f[x] \in Int /\ f[x] \cong a + c
      BY <2>1
    <3>4. a \cong 0
      BY <2>2, Zenon
    <3> HIDE DEF a
    <3>2. c \cong c
      BY CongEquivalence
    <3>3. a + c \cong 0 + c
      BY <3>1, <3>2, <3>4, CongRing, 0 \in Int
    <3> QED
      BY <3>1, <3>3, 0 + c = c, a + c \in Int, CongEquivalence
  <2>4. ASSUME NEW x \in Int PROVE f[x] \cong f[r] + (x - r) * g[x]
    <3> DEFINE a == f[x]
               b == f[r]
               d == (x - r) * g[x]
    <3>1. a \in Int /\ b \in Int /\ d \in Int /\ a \cong c /\ b \cong c /\ d \cong 0
      BY <2>1, <2>2, <2>3, x - r \in Int
    <3> HIDE DEF a, b, d
    <3>2. b + d \cong c + 0
      BY <3>1, CongRing, 0 \in Int
    <3> QED
      BY <3>1, <3>2, c + 0 = c, b + d \in Int, CongEquivalence DEF a, b, d
  <2> QED
    BY <2>4
<1>3. ASSUME NEW n \in Nat, n \in S PROVE n + 1 \in S
  <2> SUFFICES ASSUME NEW f \in Polynomials[(n + 1) + 1]
               PROVE  \E q \in Polynomials[n + 1] :
                        \A x \in Int : f[x] \cong f[r] + (x - r) * q[x]
    OBVIOUS
  <2>1. PICK g \in Polynomials[n + 1], c \in Int :
           f \in [Int -> Int] /\ g \in [Int -> Int] /\ \A x \in Int : f[x] \cong x * g[x] + c
    BY <1>1, n + 1 \in Nat, Zenon
  <2>2. PICK p \in Polynomials[n] : \A x \in Int : g[x] \cong g[r] + (x - r) * p[x]
    BY <1>3
  <2>3. p \in [Int -> Int] /\ p \in Polynomials[n + 1]
    BY PolynomialType, PolynomialGrows
  <2> DEFINE q == [x \in Int |-> g[x] + r * p[x]]
  <2>4. q \in [Int -> Int] /\ \A x \in Int : q[x] = g[x] + r * p[x] /\ q[x] \in Int
    BY <2>1, <2>3
  <2> HIDE DEF q
  <2>5. q \in Polynomials[n + 1]
    <3>1. Linear(Polynomials[n + 1])
      BY PolynomialLinear, n + 1 \in Nat
    <3>2. \A x \in Int : q[x] \cong g[x] + r * p[x]
      BY <2>4, CongEquivalence
    <3> QED
      BY <2>3, <2>4, <3>1, <3>2, Zenon DEF Linear
  <2>6. ASSUME NEW x \in Int PROVE f[x] \cong f[r] + (x - r) * q[x]
    <3> DEFINE a == f[x]
               b == f[r]
               u == g[x]
               v == g[r]
               w == p[x]
    <3>1. a \in Int /\ b \in Int /\ u \in Int /\ v \in Int /\ w \in Int
      BY <2>1, <2>3
    <3>2. a \cong x * u + c /\ b \cong r * v + c /\ u \cong v + (x - r) * w
      BY <2>1, <2>2
    <3>3. q[x] = u + r * w
      BY <2>4
    <3> HIDE DEF a, b, u, v, w
    <3>4. r * u \cong r * (v + (x - r) * w)
      BY <3>1, <3>2, CongScale, v + (x - r) * w \in Int
    <3> DEFINE s == r * v + c
               t == (x - r) * (u + r * w)
    <3>5. s \in Int /\ t \in Int /\ t \cong t /\ b + t \in Int /\ s + t \in Int
      BY <3>1, CongEquivalence
    <3>6. b + t \cong s + t
      <4> HIDE DEF s, t
      <4> QED
        BY <3>1, <3>2, <3>5, CongRing DEF s
    <3>7. s + t = (x * u + c) + (r * (v + (x - r) * w) - r * u)
      BY <3>1
    <3> DEFINE y == r * (v + (x - r) * w)
               z == r * u
    <3>8. y \in Int /\ z \in Int /\ x * u + c \in Int
      BY <3>1
    <3> HIDE DEF s, t, y, z
    <3>9. y - z \cong 0
      <4>1. z \cong y /\ z \cong z /\ y - z \in Int /\ z - z = 0
        BY <3>4, <3>8, CongEquivalence DEF y, z
      <4>2. y \cong z
        BY <3>8, <4>1, CongEquivalence
      <4>3. y - z \cong z - z
        BY <3>8, <4>1, <4>2, CongRing
      <4> QED
        BY <4>1, <4>3
    <3>10. (x * u + c) + (y - z) \cong (x * u + c) + 0
      BY <3>8, <3>9, CongRing, CongEquivalence, y - z \in Int, 0 \in Int
    <3>11. b + t \cong a
      <4> DEFINE o == x * u + c
      <4>1. o \in Int /\ o + 0 = o
        BY <3>1
      <4>2. s + t = o + (y - z) /\ o + (y - z) \cong o + 0 /\ a \cong o
        BY <3>2, <3>7, <3>10 DEF y, z
      <4> HIDE DEF o
      <4> QED
        BY <3>1, <3>5, <3>6, <4>1, <4>2, CongEquivalence
    <3> QED
      BY <3>1, <3>3, <3>5, <3>11, CongEquivalence DEF a, b, t
  <2> QED
    BY <2>5, <2>6
<1> HIDE DEF S
<1>4. \A n \in Nat : n \in S
  BY <1>2, <1>3, PolRec!SetInduction
<1> QED
  BY <1>4 DEF S

\* Nodes that are different elements.
Distinct(nodes) ==
    /\ nodes \in [Index -> Int]
    /\ \A i, j \in Index : nodes[i] \cong nodes[j] => i = j

\* A polynomial of n coefficients that is 0 at n nodes is 0.
LEMMA PolynomialRoots ==
    ASSUME NEW nodes, Distinct(nodes)
    PROVE  \A n \in 0 .. T : \A f \in Polynomials[n] :
               (\A i \in 1 .. n : f[nodes[i]] \cong 0) => \A x \in Int : f[x] \cong 0
<1> DEFINE Ok(n) == \A f \in Polynomials[n] :
                      (\A i \in 1 .. n : f[nodes[i]] \cong 0) => \A x \in Int : f[x] \cong 0
           S == {n \in Nat : n <= T => Ok(n)}
<1>0. T \in Nat
  BY PoseidonAssumption
<1>1. 0 \in S
  BY PolynomialEquation
<1>2. ASSUME NEW n \in Nat, n \in S PROVE n + 1 \in S
  <2> SUFFICES ASSUME n + 1 <= T, NEW f \in Polynomials[n + 1],
                      \A i \in 1 .. n + 1 : f[nodes[i]] \cong 0, NEW x \in Int
               PROVE  f[x] \cong 0
    OBVIOUS
  <2>0. n + 1 \in Index /\ \A i \in 1 .. n : i \in Index /\ i # n + 1
    BY <1>0 DEF Index
  <2> DEFINE r == nodes[n + 1]
  <2>1. r \in Int /\ f[r] \cong 0
    BY <2>0 DEF Distinct
  <2> HIDE DEF r
  <2>2. PICK q \in Polynomials[n] : \A y \in Int : f[y] \cong f[r] + (y - r) * q[y]
    BY <2>1, PolynomialFactor, Zenon
  <2>3. f \in [Int -> Int] /\ q \in [Int -> Int]
    BY PolynomialType, n + 1 \in Nat
  <2>4. ASSUME NEW y \in Int PROVE f[y] \cong (y - r) * q[y]
    <3> DEFINE a == f[y]
               b == f[r]
               d == (y - r) * q[y]
    <3>1. a \in Int /\ b \in Int /\ d \in Int /\ b \cong 0 /\ a \cong b + d
      BY <2>1, <2>2, <2>3
    <3> HIDE DEF a, b, d
    <3>2. b + d \cong 0 + d
      BY <3>1, CongRing, CongEquivalence, 0 \in Int
    <3>3. a \cong d
      BY <3>1, <3>2, 0 + d = d, b + d \in Int, CongEquivalence
    <3> QED
      BY <3>3 DEF a, d
  <2>5. ASSUME NEW i \in 1 .. n PROVE q[nodes[i]] \cong 0
    <3> DEFINE y == nodes[i]
               a == f[y]
               b == q[y]
    <3>1. y \in Int /\ a \in Int /\ b \in Int /\ a \cong 0 /\ a \cong (y - r) * b
      BY <2>0, <2>3, <2>4 DEF Distinct
    <3>2. ~(y \cong r)
      BY <2>0 DEF Distinct, r
    <3> HIDE DEF y, a, b
    <3>3. ~(y - r \cong 0)
      <4> SUFFICES ASSUME y - r \cong 0 PROVE FALSE
        OBVIOUS
      <4>1. (y - r) + r \cong 0 + r
        BY <2>1, <3>1, CongRing, CongEquivalence, y - r \in Int, 0 \in Int
      <4>2. (y - r) + r = y /\ 0 + r = r
        BY <2>1, <3>1
      <4> QED
        BY <3>2, <4>1, <4>2
    <3>4. (y - r) * b \cong 0
      BY <2>1, <3>1, CongEquivalence, (y - r) * b \in Int
    <3>5. b \cong 0
      BY <2>1, <3>1, <3>3, <3>4, NoZeroDivisors, y - r \in Int
    <3> QED
      BY <3>5 DEF b, y
  <2>6. q[x] \cong 0
    <3>1. Ok(n)
      BY <1>2, <1>0
    <3> QED
      BY <2>5, <3>1
  <2>7. f[x] \cong 0
    <3> DEFINE a == f[x]
               b == q[x]
    <3>1. a \in Int /\ b \in Int /\ x - r \in Int /\ b \cong 0 /\ a \cong (x - r) * b
      BY <2>1, <2>3, <2>4, <2>6
    <3> HIDE DEF a, b
    <3>2. (x - r) * b \cong (x - r) * 0
      BY <3>1, CongScale, 0 \in Int, Zenon
    <3>3. (x - r) * 0 = 0 /\ (x - r) * b \in Int
      BY <3>1
    <3> QED
      BY <3>1, <3>2, <3>3, CongEquivalence DEF a
  <2> QED
    BY <2>7
<1> HIDE DEF S
<1>3. \A n \in Nat : n \in S
  BY <1>1, <1>2, PolRec!SetInduction
<1> QED
  BY <1>0, <1>3 DEF S

-----------------------------------------------------------------------------
(* Lagrange polynomials.                                                   *)

\* The product up to the m-th node.
LagrangeTo(nodes, j, x) ==
    LET factor(m) == (Minus(x, nodes[m]) * Invert(Minus(nodes[j], nodes[m]))) % Modulus
        L[m \in Nat] == IF m = 0 THEN 1
                        ELSE IF m = j THEN L[m - 1]
                        ELSE (L[m - 1] * factor(m)) % Modulus
    IN  L

Factor(p, m) ==
    (Minus(p[3], p[1][m]) * Invert(Minus(p[1][p[2]], p[1][m]))) % Modulus

LagrangeStep(p, m, prev) ==
    IF m + 1 = p[2] THEN prev ELSE (prev * Factor(p, m + 1)) % Modulus
LagrangeRec == INSTANCE NatRecursion WITH Step <- LagrangeStep

\* The recursion, node by node.
LEMMA LagrangeEquation ==
    ASSUME NEW nodes, NEW j, NEW x
    PROVE  /\ Lagrange(nodes, j, x) = LagrangeTo(nodes, j, x)[T]
           /\ LagrangeTo(nodes, j, x)[0] = 1
           /\ \A m \in Nat : LagrangeTo(nodes, j, x)[m + 1]
                = IF m + 1 = j THEN LagrangeTo(nodes, j, x)[m]
                  ELSE (LagrangeTo(nodes, j, x)[m]
                          * ((Minus(x, nodes[m + 1]) * Invert(Minus(nodes[j], nodes[m + 1])))
                               % Modulus)) % Modulus
<1> DEFINE p == <<nodes, j, x>>
           f(m) == Factor(p, m)
           Eq(L) == L = [m \in Nat |-> IF m = 0 THEN 1
                                       ELSE IF m = j THEN L[m - 1]
                                       ELSE (L[m - 1] * f(m)) % Modulus]
           R == LagrangeRec!Rec(p, 1)
           A == LagrangeTo(nodes, j, x)
<1>1. A = CHOOSE L : Eq(L)
  BY DEF LagrangeTo, Factor
<1>2. Lagrange(nodes, j, x) = A[T]
  BY DEF LagrangeTo, Lagrange
<1>3. \A m : f(m) = (Minus(x, nodes[m]) * Invert(Minus(nodes[j], nodes[m]))) % Modulus
  BY DEF Factor
<1> HIDE DEF f
<1>4. Eq(R)
  <2>1. R = [m \in Nat |-> IF m = 0 THEN 1 ELSE LagrangeStep(p, m - 1, R[m - 1])]
    BY LagrangeRec!RecEquation
  <2>2. \A m \in Nat : (m - 1) + 1 = m
    OBVIOUS
  <2>3. ASSUME NEW m \in Nat, NEW prev
        PROVE  LagrangeStep(p, m - 1, prev)
                 = IF m = j THEN prev ELSE (prev * f(m)) % Modulus
    BY <2>2 DEF LagrangeStep, f
  <2> HIDE DEF R, p
  <2> QED
    BY <2>1, <2>3
<1>5. Eq(A)
  <2> HIDE DEF Eq, R, A
  <2> QED
    BY <1>1, <1>4
<1> HIDE DEF A
<1>6. A[0] = 1
  BY <1>5
<1>7. ASSUME NEW m \in Nat
      PROVE  A[m + 1] = IF m + 1 = j THEN A[m] ELSE (A[m] * f(m + 1)) % Modulus
  <2>1. m + 1 \in Nat /\ m + 1 # 0 /\ (m + 1) - 1 = m
    OBVIOUS
  <2> QED
    BY <1>5, <2>1
<1> QED
  BY <1>2, <1>3, <1>6, <1>7 DEF A

\* Subtraction in the field.
LEMMA MinusCorrect ==
    ASSUME NEW x \in Int, NEW y \in F
    PROVE  Minus(x, y) \in F /\ Minus(x, y) \cong x - y
<1> DEFINE n == Neg(y)
<1>1. n \in F /\ n \cong Modulus - y /\ Modulus - y \in Int /\ y \in Int /\ n \in Int
  BY CongMod, ModulusPositive, Modulus - y \in Int DEF Neg, F
<1>2. Minus(x, y) \in F /\ Minus(x, y) \cong x + n
  BY <1>1, CongMod, x + n \in Int DEF Minus
<1> HIDE DEF n
<1>3. x + n \cong x + (Modulus - y)
  BY <1>1, CongRing, CongEquivalence
<1>4. x + (Modulus - y) \cong x - y
  <2>1. PICK k \in Int : k = 1
    BY 1 \in Int
  <2>2. /\ x + (Modulus - y) = (x - y) + Modulus * k
        /\ x + (Modulus - y) \in Int /\ x - y \in Int
    BY <1>1, <2>1, ModulusPositive
  <2> QED
    BY <2>2, CongMultiple
<1>5. Minus(x, y) \in Int /\ x + n \in Int /\ x + (Modulus - y) \in Int /\ x - y \in Int
  BY <1>1, <1>2, ModulusPositive DEF F
<1> QED
  BY <1>2, <1>3, <1>4, <1>5, CongEquivalence

\* A polynomial times any linear polynomial with a root.
LEMMA PolynomialProduct ==
    ASSUME NEW n \in Nat, NEW f \in Polynomials[n], NEW r \in Int, NEW e \in Int,
           NEW h \in [Int -> Int], \A x \in Int : h[x] \cong f[x] * ((x - r) * e)
    PROVE  h \in Polynomials[n + 1]
<1>1. f \in [Int -> Int]
  BY PolynomialType
<1> DEFINE g == [x \in Int |-> e * f[x]]
<1>2. g \in [Int -> Int] /\ \A x \in Int : g[x] = e * f[x] /\ g[x] = f[x] + (e - 1) * f[x]
  BY <1>1
<1> HIDE DEF g
<1>3. g \in Polynomials[n]
  <2>1. \A x \in Int : g[x] \cong f[x] + (e - 1) * f[x]
    BY <1>2, CongEquivalence
  <2>2. Linear(Polynomials[n])
    BY PolynomialLinear
  <2> QED
    BY <1>2, <2>1, <2>2, e - 1 \in Int, Zenon DEF Linear
<1>4. \A x \in Int : h[x] \cong (x - r) * g[x]
  <2>1. \A x \in Int : f[x] * ((x - r) * e) = (x - r) * g[x]
    BY <1>1, <1>2
  <2> QED
    BY <2>1
<1> QED
  BY <1>3, <1>4, PolynomialTimes

\* A factor of a Lagrange polynomial: 0 at its node and 1 at the polynomial's.
LEMMA LagrangeFactor ==
    ASSUME NEW u \in F, NEW r \in F, u # r
    PROVE  \E e \in F :
             /\ (u - r) * e \cong 1
             /\ \A x \in Int : LET v == (Minus(x, r) * Invert(Minus(u, r))) % Modulus
                               IN  v \in F /\ v \cong (x - r) * e
<1> DEFINE d == Minus(u, r)
           e == Invert(d)
<1>1. u \in Int /\ r \in Int
  BY ModulusPositive DEF F
<1>2. d \in F /\ d \cong u - r
  BY <1>1, MinusCorrect
<1>3. d # 0
  <2> SUFFICES ASSUME d = 0 PROVE FALSE
    OBVIOUS
  <2> HIDE DEF d
  <2>1. 0 \cong u - r
    BY <1>2
  <2>2. 0 + r \cong (u - r) + r
    BY <1>1, <2>1, CongRing, CongEquivalence, 0 \in Int, u - r \in Int
  <2>3. 0 + r = r /\ (u - r) + r = u
    BY <1>1
  <2>4. r \cong u
    BY <2>2, <2>3
  <2> QED
    BY <2>4, CongElement
<1> HIDE DEF d
<1>4. e \in F /\ d * e \cong 1
  BY <1>2, <1>3, InvertCorrect
<1>5. e \in Int /\ d \in Int
  BY <1>2, <1>4, ModulusPositive DEF F
<1> HIDE DEF e
<1>6. (u - r) * e \cong 1
  <2>1. d * e \cong (u - r) * e
    BY <1>1, <1>2, <1>5, CongRing, CongEquivalence, u - r \in Int
  <2> QED
    BY <1>1, <1>4, <1>5, <2>1, CongEquivalence, d * e \in Int, (u - r) * e \in Int, 1 \in Int
<1>7. ASSUME NEW x \in Int
      PROVE  (Minus(x, r) * e) % Modulus \in F /\ (Minus(x, r) * e) % Modulus \cong (x - r) * e
  <2> DEFINE m == Minus(x, r)
             v == (m * e) % Modulus
  <2>1. m \in F /\ m \cong x - r
    BY MinusCorrect
  <2>2. m \in Int /\ x - r \in Int /\ (x - r) * e \in Int
    BY <1>1, <1>5, <2>1, ModulusPositive DEF F
  <2> HIDE DEF m
  <2>3. m * e \in Int /\ m * e \cong (x - r) * e
    <3>1. e \cong e
      BY <1>5, CongEquivalence
    <3> QED
      BY <1>5, <2>1, <2>2, <3>1, CongRing
  <2>4. v \in F /\ v \cong m * e
    BY <2>3, CongMod
  <2>5. v \in Int
    BY <2>4, ModulusPositive DEF F
  <2> HIDE DEF v
  <2>6. v \cong (x - r) * e
    BY <2>2, <2>3, <2>4, <2>5, CongEquivalence
  <2> QED
    BY <2>4, <2>6 DEF v, m
<1> QED
  BY <1>4, <1>6, <1>7 DEF d, e

\* The j-th Lagrange polynomial of different nodes, up to the n-th: a polynomial
\* that is 1 at the j-th node and 0 at the others.
LEMMA LagrangePolynomial ==
    ASSUME NEW nodes \in [Index -> F], Distinct(nodes), NEW j \in Index
    PROVE  \A n \in 0 .. T :
             LET A == [x \in Int |-> LagrangeTo(nodes, j, x)[n]]
             IN  /\ \A x \in Int : A[x] \in F
                 /\ A \in Polynomials[IF n < j THEN n + 1 ELSE n]
                 /\ A[nodes[j]] \cong 1
                 /\ \A i \in 1 .. n : i # j => A[nodes[i]] \cong 0
<1> DEFINE A(n) == [x \in Int |-> LagrangeTo(nodes, j, x)[n]]
           Ok(n) == /\ \A x \in Int : A(n)[x] \in F
                    /\ A(n) \in Polynomials[IF n < j THEN n + 1 ELSE n]
                    /\ A(n)[nodes[j]] \cong 1
                    /\ \A i \in 1 .. n : i # j => A(n)[nodes[i]] \cong 0
           S == {n \in Nat : n <= T => Ok(n)}
<1>0. /\ T \in Nat /\ \A i \in Index : i \in Nat /\ i > 0 /\ nodes[i] \in F /\ nodes[i] \in Int
      /\ \A i, k \in Index : i # k => nodes[i] # nodes[k]
  BY PoseidonAssumption, ModulusPositive, CongEquivalence DEF Index, F, Distinct
<1>1. 0 \in S
  <2> DEFINE B == A(0)
  <2>1. \A x \in Int : B[x] = 1
    BY LagrangeEquation
  <2>2. B \in [Int -> Int] /\ 1 \cong 1
    BY <2>1, CongEquivalence, 1 \in Int
  <2>3. \A x \in Int : B[x] \cong 1
    BY <2>1, <2>2
  <2> HIDE DEF B
  <2>4. B \in Polynomials[0 + 1]
    BY <2>2, <2>3, PolynomialConstant, 0 \in Nat, 1 \in Int
  <2>5. Ok(0)
    BY <1>0, <2>1, <2>3, <2>4, ModulusPositive DEF B
  <2> QED
    BY <2>5
<1>2. ASSUME NEW n \in Nat, n \in S PROVE n + 1 \in S
  <2> SUFFICES ASSUME n + 1 <= T PROVE Ok(n + 1)
    OBVIOUS
  <2>1. Ok(n) /\ n + 1 \in Index
    BY <1>0, <1>2 DEF Index
  <2> DEFINE B == A(n)
             C == A(n + 1)
             k == IF n < j THEN n + 1 ELSE n
             r == nodes[n + 1]
             u == nodes[j]
  <2>2. /\ \A x \in Int : B[x] \in F /\ B[x] \in Int
        /\ B \in Polynomials[k] /\ k \in Nat
        /\ r \in F /\ r \in Int /\ u \in F /\ u \in Int /\ B[u] \cong 1
        /\ \A i \in 1 .. n : i # j => B[nodes[i]] \cong 0
    BY <1>0, <2>1, ModulusPositive DEF F
  <2>3. CASE n + 1 = j
    <3>1. \A x \in Int : LagrangeTo(nodes, j, x)[n + 1] = LagrangeTo(nodes, j, x)[n]
      BY <2>3, LagrangeEquation
    <3>2. C = B
      BY <3>1
    <3>3. k = n + 1 /\ ~(n + 1 < j) /\ \A i \in 1 .. n + 1 : i # j => i \in 1 .. n
      BY <2>3, <1>0
    <3> HIDE DEF B, C
    <3> QED
      BY <2>2, <3>2, <3>3 DEF C
  <2>4. CASE n + 1 # j
    <3>1. PICK e \in F :
             /\ (u - r) * e \cong 1
             /\ \A x \in Int : LET v == (Minus(x, r) * Invert(Minus(u, r))) % Modulus
                               IN  v \in F /\ v \cong (x - r) * e
      <4>1. u # r
        BY <1>0, <2>1, <2>4
      <4> HIDE DEF u, r
      <4> QED
        BY <2>2, <4>1, LagrangeFactor
    <3> DEFINE v(x) == (Minus(x, r) * Invert(Minus(u, r))) % Modulus
    <3>2. \A x \in Int : C[x] = (B[x] * v(x)) % Modulus
      BY <2>4, LagrangeEquation
    <3>3. \A x \in Int : v(x) \in F /\ v(x) \in Int /\ v(x) \cong (x - r) * e
      BY <3>1, ModulusPositive DEF F
    <3>4. e \in Int
      BY ModulusPositive DEF F
    <3>c. C \in [Int -> Int] <=> \A x \in Int : C[x] \in Int
      OBVIOUS
    <3> HIDE DEF B, C, r, u, v
    <3>5. ASSUME NEW x \in Int
          PROVE  C[x] \in F /\ C[x] \in Int /\ C[x] \cong B[x] * ((x - r) * e)
      <4> DEFINE b == B[x]
                 w == v(x)
                 c == C[x]
                 t == (x - r) * e
      <4>1. b \in Int /\ w \in Int /\ t \in Int /\ w \cong t /\ c = (b * w) % Modulus
        BY <2>2, <3>2, <3>3, <3>4, x - r \in Int
      <4> HIDE DEF b, w, c, t
      <4>2. b * w \cong b * t
        BY <4>1, CongScale
      <4>3. c \in F /\ c \cong b * w
        BY <4>1, CongMod, b * w \in Int
      <4>4. c \in Int
        BY <4>3, ModulusPositive DEF F
      <4> QED
        BY <4>1, <4>2, <4>3, <4>4, b * w \in Int, b * t \in Int, CongEquivalence DEF b, c, t
    <3>6. C \in Polynomials[k + 1]
      <4>1. C \in [Int -> Int]
        BY <3>5, <3>c
      <4> HIDE DEF k
      <4> QED
        BY <2>2, <3>4, <3>5, <4>1, PolynomialProduct
    <3>7. k + 1 = IF n + 1 < j THEN (n + 1) + 1 ELSE n + 1
      BY <1>0, <2>4
    <3> HIDE DEF k
    <3>8. C[u] \cong 1
      <4> DEFINE b == B[u]
                 c == C[u]
                 t == (u - r) * e
      <4>1. b \in Int /\ c \in Int /\ t \in Int /\ b \cong 1 /\ t \cong 1 /\ c \cong b * t
        BY <2>2, <3>1, <3>4, <3>5, u - r \in Int
      <4> HIDE DEF b, c, t
      <4>2. b * t \cong 1 * 1
        BY <4>1, CongRing, 1 \in Int
      <4> QED
        BY <4>1, <4>2, 1 * 1 = 1, b * t \in Int, CongEquivalence DEF c
    <3>9. ASSUME NEW i \in 1 .. n + 1, i # j PROVE C[nodes[i]] \cong 0
      <4> DEFINE x == nodes[i]
                 b == B[x]
                 c == C[x]
                 t == (x - r) * e
      <4>1. x \in Int
        BY <1>0 DEF Index
      <4>2. b \in Int /\ c \in Int /\ t \in Int /\ c \cong b * t
        BY <2>2, <3>4, <3>5, <4>1, x - r \in Int
      <4>3. b \cong 0 \/ t = 0
        <5>1. CASE i = n + 1
          <6>1. x - r = 0
            BY <2>2, <5>1 DEF r
          <6> QED
            BY <3>4, <6>1
        <5>2. CASE i # n + 1
          BY <2>2, <3>9, <5>2
        <5> QED
          BY <5>1, <5>2
      <4> HIDE DEF x, b, c, t
      <4>4. b * t \cong 0
        <5>1. CASE t = 0
          BY <4>2, <5>1, CongEquivalence, b * 0 = 0
        <5>2. CASE b \cong 0
          <6>1. t * b \cong t * 0
            BY <4>2, <5>2, CongScale, 0 \in Int, Zenon
          <6> QED
            BY <4>2, <6>1, t * 0 = 0, t * b = b * t
        <5> QED
          BY <4>3, <5>1, <5>2
      <4> QED
        BY <4>2, <4>4, b * t \in Int, CongEquivalence DEF c, x
    <3>10. \A x \in Int : C[x] \in F
      BY <3>5
    <3> QED
      BY <3>6, <3>7, <3>8, <3>9, <3>10 DEF C, u
  <2> QED
    BY <2>3, <2>4
<1> HIDE DEF S
<1>3. \A n \in Nat : n \in S
  BY <1>1, <1>2, SumRec!SetInduction
<1>4. ASSUME NEW n \in 0 .. T PROVE Ok(n)
  <2>1. n \in S /\ n <= T
    BY <1>0, <1>3
  <2> HIDE DEF Ok
  <2> QED
    BY <2>1 DEF S
<1> QED
  BY <1>4

\* The Lagrange polynomials of different nodes.
LEMMA LagrangeFacts ==
    ASSUME NEW nodes \in [Index -> F], Distinct(nodes), NEW j \in Index
    PROVE  /\ \A x \in Int : Lagrange(nodes, j, x) \in F
           /\ [x \in Int |-> Lagrange(nodes, j, x)] \in Polynomials[T]
           /\ Lagrange(nodes, j, nodes[j]) \cong 1
           /\ \A i \in Index : i # j => Lagrange(nodes, j, nodes[i]) \cong 0
<1> DEFINE A == [x \in Int |-> LagrangeTo(nodes, j, x)[T]]
<1>1. T \in Nat /\ T \in 0 .. T /\ ~(T < j) /\ \A i \in Index : nodes[i] \in Int
  BY PoseidonAssumption, ModulusPositive DEF Index, F
<1>2. /\ \A x \in Int : A[x] \in F
      /\ A \in Polynomials[T]
      /\ A[nodes[j]] \cong 1
      /\ \A i \in Index : i # j => A[nodes[i]] \cong 0
  BY <1>1, LagrangePolynomial DEF Index
<1>3. \A x : Lagrange(nodes, j, x) = LagrangeTo(nodes, j, x)[T]
  BY LagrangeEquation
<1> QED
  BY <1>1, <1>2, <1>3

\* A combination of polynomials is a polynomial.
LEMMA PolynomialSum ==
    ASSUME NEW c \in [Index -> Int], NEW fs \in [Index -> Polynomials[T]]
    PROVE  [x \in Int |-> SumOf([k \in Index |-> c[k] * fs[k][x]])] \in Polynomials[T]
<1> DEFINE g(x) == [k \in Index |-> c[k] * fs[k][x]]
           h(n) == [x \in Int |-> SumTo(g(x))[n]]
           S == {n \in Nat : n <= T => h(n) \in Polynomials[T]}
<1>0. T \in Nat /\ T - 1 \in Nat /\ (T - 1) + 1 = T
  BY PoseidonAssumption
<1>1. \A k \in Index : fs[k] \in [Int -> Int]
  BY <1>0, PolynomialType
<1>2. \A x \in Int : g(x) \in [Index -> Int]
  BY <1>1
<1>3. \A n \in 0 .. T : h(n) \in [Int -> Int]
  BY <1>2, SumType
<1>4. 0 \in S
  <2> DEFINE z == h(0)
  <2>1. z \in [Int -> Int] /\ \A x \in Int : z[x] = 0
    BY <1>0, <1>3, SumEquation
  <2>2. \A x \in Int : z[x] \cong 0
    BY <2>1, CongEquivalence
  <2> HIDE DEF z
  <2>3. z \in Polynomials[(T - 1) + 1]
    BY <1>0, <2>1, <2>2, PolynomialConstant, 0 \in Int
  <2> QED
    BY <1>0, <2>3 DEF z
<1>5. ASSUME NEW n \in Nat, n \in S PROVE n + 1 \in S
  <2> SUFFICES ASSUME n + 1 <= T PROVE h(n + 1) \in Polynomials[T]
    OBVIOUS
  <2>1. n + 1 \in Index /\ n \in 0 .. T /\ n + 1 \in 0 .. T /\ h(n) \in Polynomials[T]
    BY <1>0, <1>5 DEF Index
  <2> DEFINE p == h(n)
             q == h(n + 1)
             b == c[n + 1]
             f == fs[n + 1]
  <2>2. /\ p \in Polynomials[T] /\ f \in Polynomials[T] /\ b \in Int
        /\ p \in [Int -> Int] /\ q \in [Int -> Int] /\ f \in [Int -> Int]
    BY <1>1, <1>3, <2>1
  <2>3. \A x \in Int : q[x] = p[x] + b * f[x]
    BY <2>1, SumEquation
  <2> HIDE DEF p, q, b, f
  <2>4. \A x \in Int : q[x] \cong p[x] + b * f[x]
    BY <2>2, <2>3, CongEquivalence
  <2>5. Linear(Polynomials[T])
    BY <1>0, PolynomialLinear
  <2>6. q \in Polynomials[T]
    BY <2>2, <2>4, <2>5, Zenon DEF Linear
  <2> QED
    BY <2>6 DEF q
<1> HIDE DEF S
<1>6. \A n \in Nat : n \in S
  BY <1>4, <1>5, SumRec!SetInduction
<1>7. h(T) \in Polynomials[T]
  BY <1>0, <1>6 DEF S
<1> QED
  BY <1>7 DEF SumOf

\* A polynomial of T coefficients is the combination of the Lagrange polynomials
\* that its values at the nodes make.
LEMMA Interpolation ==
    ASSUME NEW nodes \in [Index -> F], Distinct(nodes), NEW f \in Polynomials[T], NEW x \in Int
    PROVE  SumOf([k \in Index |-> f[nodes[k]] * Lagrange(nodes, k, x)]) \cong f[x]
<1> DEFINE c == [k \in Index |-> f[nodes[k]]]
           fs == [k \in Index |-> [y \in Int |-> Lagrange(nodes, k, y)]]
           g(y) == [k \in Index |-> c[k] * Lagrange(nodes, k, y)]
           s == [y \in Int |-> SumOf(g(y))]
           d == [y \in Int |-> f[y] + (-1) * s[y]]
<1>0. T \in Nat /\ T \in 0 .. T /\ \A i \in Index : nodes[i] \in Int
  BY PoseidonAssumption, ModulusPositive DEF F
<1>1. f \in [Int -> Int]
  BY <1>0, PolynomialType
<1>2. c \in [Index -> Int] /\ fs \in [Index -> Polynomials[T]]
  BY <1>0, <1>1, LagrangeFacts
<1>3. \A k \in Index, y \in Int : Lagrange(nodes, k, y) \in Int
  <2>1. \A k \in Index, y \in Int : Lagrange(nodes, k, y) \in F
    BY LagrangeFacts
  <2> QED
    BY <2>1, ModulusPositive DEF F
<1>4. \A y \in Int : g(y) \in [Index -> Int] /\ g(y) = [k \in Index |-> c[k] * fs[k][y]]
  BY <1>2, <1>3
<1>5. s \in Polynomials[T] /\ s \in [Int -> Int]
  <2>1. s = [y \in Int |-> SumOf([k \in Index |-> c[k] * fs[k][y]])]
    BY <1>4
  <2> HIDE DEF c, fs, s
  <2>2. s \in Polynomials[T]
    BY <1>2, <2>1, PolynomialSum
  <2> QED
    BY <1>0, <2>2, PolynomialType
<1>6. ASSUME NEW i \in Index PROVE s[nodes[i]] \cong f[nodes[i]]
  <2> DEFINE y == nodes[i]
             v == f[y]
             e == [k \in Index |-> IF k = i THEN v ELSE 0]
             a == g(y)
  <2>1. y \in Int /\ v \in Int /\ e \in [Index -> Int] /\ a \in [Index -> Int]
    BY <1>0, <1>1, <1>4
  <2>2. ASSUME NEW k \in Index PROVE a[k] \cong e[k]
    <3> DEFINE l == Lagrange(nodes, k, y)
    <3>1. l \in Int /\ a[k] = c[k] * l /\ c[k] \in Int /\ c[k] * l \in Int
      BY <1>2, <1>3, <2>1
    <3>2. CASE k = i
      <4>1. l \cong 1 /\ c[k] = v
        BY <3>2, LagrangeFacts
      <4> HIDE DEF l, v, a, c, y
      <4>2. v * l \cong v * 1
        BY <2>1, <3>1, <4>1, CongScale, 1 \in Int, Zenon
      <4> QED
        BY <2>1, <3>1, <3>2, <4>1, <4>2, v * 1 = v
    <3>3. CASE k # i
      <4>1. l \cong 0
        BY <3>3, LagrangeFacts
      <4> DEFINE b == c[k]
      <4>3. b \in Int /\ a[k] = b * l
        BY <3>1
      <4> HIDE DEF l, v, a, c, y, b
      <4>2. b * l \cong b * 0
        BY <3>1, <4>1, <4>3, CongScale, 0 \in Int, Zenon
      <4> QED
        BY <3>3, <4>2, <4>3, b * 0 = 0
    <3> QED
      BY <3>2, <3>3
  <2>3. e[i] = v /\ \A k \in Index \ {i} : e[k] = 0
    OBVIOUS
  <2>4. s[y] = SumTo(a)[T]
    BY <2>1 DEF SumOf
  <2> HIDE DEF y, v, e, a, s
  <2>5. SumTo(a)[T] \cong SumTo(e)[T]
    BY <1>0, <2>1, <2>2, SumCong
  <2>6. SumTo(e)[T] = v
    BY <2>1, <2>3, SumSingle DEF SumOf
  <2> QED
    BY <2>4, <2>5, <2>6 DEF v, y
<1>7. d \in [Int -> Int] /\ \A y \in Int : d[y] = f[y] + (-1) * s[y]
  BY <1>1, <1>5
<1> HIDE DEF d, s
<1>8. d \in Polynomials[T]
  <2>1. \A y \in Int : d[y] \cong f[y] + (-1) * s[y]
    BY <1>7, CongEquivalence
  <2>2. Linear(Polynomials[T])
    BY <1>0, PolynomialLinear
  <2> QED
    BY <1>5, <1>7, <2>1, <2>2, -1 \in Int, Zenon DEF Linear
<1>9. \A y \in Int : d[y] = f[y] - s[y]
  BY <1>1, <1>5, <1>7
<1>10. ASSUME NEW i \in 1 .. T PROVE d[nodes[i]] \cong 0
  <2> DEFINE a == f[nodes[i]]
             b == s[nodes[i]]
  <2>1. a \in Int /\ b \in Int /\ b \cong a /\ d[nodes[i]] = a - b
    BY <1>0, <1>1, <1>5, <1>6, <1>9 DEF Index
  <2> HIDE DEF a, b
  <2>2. a \cong a
    BY <2>1, CongEquivalence
  <2>3. a - b \cong a - a
    BY <2>1, <2>2, CongRing, CongEquivalence
  <2> QED
    BY <2>1, <2>3, a - a = 0
<1>11. d[x] \cong 0
  BY <1>0, <1>8, <1>10, PolynomialRoots
<1>12. s[x] \cong f[x]
  <2> DEFINE a == f[x]
             b == s[x]
  <2>1. a \in Int /\ b \in Int /\ a - b \cong 0
    BY <1>1, <1>5, <1>9, <1>11
  <2> HIDE DEF a, b
  <2>2. (a - b) + b \cong 0 + b
    BY <2>1, CongRing, CongEquivalence, a - b \in Int, 0 \in Int
  <2>3. (a - b) + b = a /\ 0 + b = b
    BY <2>1
  <2> QED
    BY <2>1, <2>2, <2>3, CongEquivalence DEF a, b
<1> QED
  BY <1>12 DEF s

\* Schechter's formula: a row of the inverses of the differences between two
\* families of nodes, times a column of the formula.
LEMMA CauchyPair ==
    ASSUME NEW u \in [Index -> F], NEW w \in [Index -> F], Distinct(u), Distinct(w),
           NEW i \in Index, NEW j \in Index, NEW v \in [Index -> Int],
           \A k \in Index : v[k] * (u[i] - w[k]) \cong 1
    PROVE  SumOf([k \in Index |-> v[k] * (((u[j] - w[k]) * Lagrange(u, j, w[k]))
                                            * Lagrange(w, k, u[j]))])
             \cong (IF i = j THEN 1 ELSE 0)
<1> DEFINE A == [x \in Int |-> Lagrange(u, j, x)]
           B(k) == Lagrange(w, k, u[j])
           sum == [k \in Index |-> v[k] * (((u[j] - w[k]) * A[w[k]]) * B(k))]
           y == u[j]
           z == u[i]
<1>0. /\ T \in Nat /\ T - 1 \in Nat /\ (T - 1) + 1 = T /\ T \in 0 .. T
      /\ \A k \in Index : u[k] \in Int /\ w[k] \in Int
  BY PoseidonAssumption, ModulusPositive DEF F
<1>1. \A k \in Index : B(k) \in Int
  <2>1. \A k \in Index : B(k) \in F
    BY <1>0, LagrangeFacts
  <2> QED
    BY <2>1, ModulusPositive DEF F
<1>2. A \in Polynomials[T] /\ A \in [Int -> Int]
  <2>1. A \in Polynomials[T]
    BY LagrangeFacts
  <2> HIDE DEF A
  <2> QED
    BY <1>0, <2>1, PolynomialType
<1>3. A[y] \cong 1 /\ (i # j => A[z] \cong 0) /\ y \in Int /\ z \in Int
  BY <1>0, LagrangeFacts
<1>4. \A k \in Index : v[k] \in Int
  OBVIOUS
<1>5. sum = [k \in Index |-> v[k] * (((u[j] - w[k]) * Lagrange(u, j, w[k]))
                                       * Lagrange(w, k, u[j]))]
  BY <1>0
<1> HIDE DEF A
<1>6. sum \in [Index -> Int]
  BY <1>0, <1>1, <1>2
<1>7. ASSUME NEW f \in Polynomials[T], \A k \in Index : sum[k] \cong f[w[k]] * B(k)
      PROVE  SumOf(sum) \cong f[y]
  <2> DEFINE g == [k \in Index |-> f[w[k]] * B(k)]
  <2>1. f \in [Int -> Int]
    BY <1>0, PolynomialType
  <2>2. g \in [Index -> Int]
    BY <1>0, <1>1, <2>1
  <2>3. \A k \in Index : sum[k] \cong g[k]
    BY <1>7
  <2>4. SumOf(g) \cong f[y]
    BY <1>3, Interpolation
  <2> HIDE DEF g, sum, y
  <2>5. SumOf(sum) \cong SumOf(g) /\ SumOf(sum) \in Int /\ SumOf(g) \in Int /\ f[y] \in Int
    BY <1>0, <1>3, <1>6, <2>1, <2>2, <2>3, SumCong, SumType DEF SumOf
  <2> QED
    BY <2>4, <2>5, CongEquivalence
<1>8. CASE i = j
  <2>1. ASSUME NEW k \in Index PROVE sum[k] \cong A[w[k]] * B(k)
    <3> DEFINE a == A[w[k]]
               b == B(k)
               c == v[k]
               d == y - w[k]
    <3>1. a \in Int /\ b \in Int /\ c \in Int /\ d \in Int /\ c * d \cong 1
      BY <1>0, <1>1, <1>2, <1>8
    <3>2. sum[k] = c * ((d * a) * b)
      OBVIOUS
    <3> HIDE DEF a, b, c, d, sum
    <3>3. c * ((d * a) * b) = (a * b) * (c * d) /\ (a * b) * 1 = a * b
      BY <3>1
    <3>4. (a * b) * (c * d) \cong (a * b) * 1
      BY <3>1, CongScale, a * b \in Int, c * d \in Int, 1 \in Int, Zenon
    <3> QED
      BY <3>2, <3>3, <3>4 DEF a, b
  <2> HIDE DEF sum, y, B
  <2>2. SumOf(sum) \cong A[y]
    BY <1>2, <1>7, <2>1
  <2>3. SumOf(sum) \in Int /\ A[y] \in Int
    BY <1>0, <1>2, <1>3, <1>6, SumType DEF SumOf
  <2> QED
    BY <1>3, <1>5, <1>8, <2>2, <2>3, CongEquivalence, 1 \in Int
<1>9. CASE i # j
  <2>1. PICK q \in Polynomials[T - 1] : \A x \in Int : A[x] \cong A[z] + (x - z) * q[x]
    <3> HIDE DEF z
    <3> QED
      BY <1>0, <1>2, <1>3, PolynomialFactor
  <2>2. q \in [Int -> Int]
    BY <1>0, PolynomialType
  <2> DEFINE p == [x \in Int |-> (x - y) * q[x]]
  <2>3. p \in [Int -> Int] /\ \A x \in Int : p[x] = (x - y) * q[x]
    BY <1>3, <2>2
  <2> HIDE DEF p
  <2>4. p \in Polynomials[T]
    <3>1. \A x \in Int : p[x] \cong (x - y) * q[x]
      BY <2>3, CongEquivalence
    <3> HIDE DEF y
    <3>2. p \in Polynomials[(T - 1) + 1]
      BY <1>0, <1>3, <2>3, <3>1, PolynomialTimes
    <3> QED
      BY <1>0, <3>2
  <2>5. ASSUME NEW k \in Index PROVE sum[k] \cong p[w[k]] * B(k)
    <3> DEFINE o == w[k]
               a == A[o]
               b == B(k)
               c == v[k]
               d == y - o
               e == z - o
               s == q[o]
               m == A[z]
    <3>1. /\ a \in Int /\ b \in Int /\ c \in Int /\ d \in Int /\ e \in Int /\ s \in Int
          /\ o \in Int /\ c * e \cong 1 /\ m \in Int /\ m \cong 0
      BY <1>0, <1>1, <1>2, <1>3, <1>9, <2>2
    <3>2. sum[k] = c * ((d * a) * b)
      OBVIOUS
    <3>3. a \cong m + (o - z) * s
      BY <1>0, <2>1
    <3>4. (o - z) * s = (- e) * s /\ p[o] * b = ((- d) * s) * b
      <4>1. o - z = - e /\ o - y = - d
        BY <1>0, <1>3
      <4>2. p[o] = (o - y) * s
        BY <1>0, <2>3
      <4> QED
        BY <4>1, <4>2
    <3> HIDE DEF a, b, c, d, e, s, m, sum
    <3> DEFINE t == (- e) * s
    <3>5. t \in Int /\ a \cong m + t
      BY <3>1, <3>3, <3>4
    <3>6. c * t = (- s) * (c * e)
      BY <3>1
    <3> HIDE DEF t
    <3>7. a \cong t
      <4>1. m + t \cong 0 + t
        BY <3>1, <3>5, CongRing, CongEquivalence, 0 \in Int
      <4> QED
        BY <3>1, <3>5, <4>1, 0 + t = t, m + t \in Int, CongEquivalence
    <3>8. c * a \cong (- s) * (c * e)
      BY <3>1, <3>5, <3>6, <3>7, CongScale
    <3>9. (- s) * (c * e) \cong (- s) * 1
      BY <3>1, CongScale, - s \in Int, c * e \in Int, 1 \in Int, Zenon
    <3>10. c * a \cong - s
      BY <3>1, <3>8, <3>9, (- s) * 1 = - s, (- s) * (c * e) \in Int, c * a \in Int,
         CongEquivalence
    <3>11. (d * b) * (c * a) \cong (d * b) * (- s)
      BY <3>1, <3>10, CongScale, d * b \in Int, c * a \in Int, - s \in Int
    <3>12. c * ((d * a) * b) = (d * b) * (c * a) /\ ((- d) * s) * b = (d * b) * (- s)
      BY <3>1
    <3> QED
      BY <3>2, <3>4, <3>11, <3>12 DEF b
  <2>6. p[y] = 0
    BY <1>3, <2>2, <2>3
  <2> HIDE DEF sum, y, B
  <2>7. SumOf(sum) \cong p[y]
    BY <1>7, <2>4, <2>5
  <2> QED
    BY <1>5, <1>9, <2>6, <2>7
<1> QED
  BY <1>8, <1>9

-----------------------------------------------------------------------------
(* Matrices.                                                               *)

\* A multiple of a sum.
LEMMA SumScale ==
    ASSUME NEW us \in [Index -> Int], NEW c \in Int, NEW ws, \A k \in Index : ws[k] = c * us[k]
    PROVE  SumOf(ws) = c * SumOf(us)
<1> DEFINE z == [k \in Index |-> 0]
<1>0. T \in 0 .. T
  BY PoseidonAssumption
<1>1. z \in [Index -> Int] /\ 1 \in Index /\ \A k \in Index : z[k] = 0
  BY PoseidonAssumption DEF Index
<1> HIDE DEF z
<1>2. SumOf(z) = 0
  BY <1>1, SumSingle
<1>3. \A k \in Index : ws[k] = z[k] + c * us[k]
  BY <1>1
<1>4. SumTo(ws)[T] = SumTo(z)[T] + c * SumTo(us)[T]
  BY <1>0, <1>1, <1>3, SumLinear
<1>5. SumTo(us)[T] \in Int
  BY <1>0, SumType
<1> QED
  BY <1>2, <1>4, <1>5 DEF SumOf

DotTo(u, v) ==
    LET Sum[k \in Nat] == IF k = 0 THEN 0 ELSE (Sum[k - 1] + u[k] * v[k]) % Modulus IN Sum

DotStep(p, n, prev) == (prev + p[1][n + 1] * p[2][n + 1]) % Modulus
DotRec == INSTANCE NatRecursion WITH Step <- DotStep

\* The recursion, product by product.
LEMMA DotEquation ==
    ASSUME NEW u, NEW v
    PROVE  /\ Dot(u, v) = DotTo(u, v)[T]
           /\ DotTo(u, v)[0] = 0
           /\ \A n \in Nat :
                DotTo(u, v)[n + 1] = (DotTo(u, v)[n] + u[n + 1] * v[n + 1]) % Modulus
<1> DEFINE p == <<u, v>>
           Eq(S) == S = [n \in Nat |-> IF n = 0 THEN 0 ELSE (S[n - 1] + u[n] * v[n]) % Modulus]
           R == DotRec!Rec(p, 0)
           A == DotTo(u, v)
<1>1. A = CHOOSE S : Eq(S)
  BY DEF DotTo
<1>2. Dot(u, v) = A[T]
  BY DEF DotTo, Dot
<1>3. Eq(R)
  <2>1. R = [n \in Nat |-> IF n = 0 THEN 0 ELSE DotStep(p, n - 1, R[n - 1])]
    BY DotRec!RecEquation
  <2>2. \A n \in Nat : (n - 1) + 1 = n
    OBVIOUS
  <2>3. ASSUME NEW n \in Nat, NEW prev
        PROVE  DotStep(p, n - 1, prev) = (prev + u[n] * v[n]) % Modulus
    BY <2>2 DEF DotStep
  <2> HIDE DEF R, p
  <2> QED
    BY <2>1, <2>3
<1>4. Eq(A)
  <2> HIDE DEF Eq, R, A
  <2> QED
    BY <1>1, <1>3
<1> HIDE DEF A
<1>5. A[0] = 0
  BY <1>4
<1>6. ASSUME NEW n \in Nat PROVE A[n + 1] = (A[n] + u[n + 1] * v[n + 1]) % Modulus
  <2>1. n + 1 \in Nat /\ n + 1 # 0 /\ (n + 1) - 1 = n
    OBVIOUS
  <2> QED
    BY <1>4, <2>1
<1> QED
  BY <1>2, <1>5, <1>6 DEF A

\* Dot is the sum of the products.
LEMMA DotCorrect ==
    ASSUME NEW u \in [Index -> Int], NEW v \in [Index -> Int]
    PROVE  Dot(u, v) \in F /\ Dot(u, v) \cong SumOf([k \in Index |-> u[k] * v[k]])
<1> DEFINE ws == [k \in Index |-> u[k] * v[k]]
           S == {n \in Nat : n <= T => /\ DotTo(u, v)[n] \in F
                                       /\ DotTo(u, v)[n] \cong SumTo(ws)[n]}
<1>0. T \in Nat /\ T \in 0 .. T
  BY PoseidonAssumption
<1>1. ws \in [Index -> Int] /\ \A k \in Index : ws[k] = u[k] * v[k]
  OBVIOUS
<1> HIDE DEF ws
<1>2. 0 \in S
  BY DotEquation, SumEquation, ModulusPositive, CongEquivalence
<1>3. ASSUME NEW n \in Nat, n \in S PROVE n + 1 \in S
  <2> SUFFICES ASSUME n + 1 <= T
               PROVE  DotTo(u, v)[n + 1] \in F /\ DotTo(u, v)[n + 1] \cong SumTo(ws)[n + 1]
    OBVIOUS
  <2> DEFINE a == DotTo(u, v)[n]
             b == SumTo(ws)[n]
             c == ws[n + 1]
             d == DotTo(u, v)[n + 1]
             e == SumTo(ws)[n + 1]
  <2>0. n + 1 \in Index /\ n \in 0 .. T /\ n <= T
    BY <1>0 DEF Index
  <2>1. a \in F /\ a \cong b /\ b \in Int /\ c \in Int
    BY <1>1, <1>3, <2>0, SumType
  <2>2. a \in Int
    BY <2>1, ModulusPositive DEF F
  <2>3. d = (a + c) % Modulus /\ e = b + c
    BY <1>1, <2>0, DotEquation, SumEquation
  <2> HIDE DEF a, b, c, d, e
  <2>4. d \in F /\ d \cong a + c
    BY <2>1, <2>2, <2>3, CongMod, a + c \in Int
  <2>5. a + c \cong b + c
    BY <2>1, <2>2, CongRing, CongEquivalence
  <2>6. d \in Int /\ a + c \in Int /\ b + c \in Int
    BY <2>1, <2>2, <2>4, ModulusPositive DEF F
  <2>7. d \cong e
    BY <2>3, <2>4, <2>5, <2>6, CongEquivalence
  <2> QED
    BY <2>4, <2>7 DEF d, e
<1> HIDE DEF S
<1>4. \A n \in Nat : n \in S
  BY <1>2, <1>3, SumRec!SetInduction
<1>5. DotTo(u, v)[T] \in F /\ DotTo(u, v)[T] \cong SumTo(ws)[T]
  BY <1>0, <1>4 DEF S
<1> QED
  BY <1>5, DotEquation DEF SumOf, ws

Matrix == [Index -> [Index -> F]]
Identity(i, j) == IF i = j THEN 1 ELSE 0
Inverses(a, b) == \A i, j \in Index : Dot(a[i], Column(b, j)) = Identity(i, j)

\* A matrix undoes a matrix of which it is the inverse.
LEMMA ApplyInverse ==
    ASSUME NEW a \in Matrix, NEW b \in Matrix, Inverses(a, b), NEW v \in [Index -> F]
    PROVE  Apply(b, v) \in [Index -> F] /\ Apply(a, Apply(b, v)) = v
<1> DEFINE bv == Apply(b, v)
<1>0. /\ T \in 0 .. T /\ F \subseteq Int
      /\ v \in [Index -> Int] /\ \A i \in Index : a[i] \in [Index -> F] /\ b[i] \in [Index -> F]
      /\ \A i \in Index : a[i] \in [Index -> Int] /\ b[i] \in [Index -> Int]
  BY PoseidonAssumption, ModulusPositive DEF F, Matrix
<1>1. /\ bv \in [Index -> F]
      /\ \A k \in Index : bv[k] = Dot(b[k], v)
  BY <1>0, DotCorrect DEF Apply
<1>2. bv \in [Index -> Int]
  BY <1>0, <1>1
<1> HIDE DEF bv
<1>3. ASSUME NEW i \in Index PROVE Apply(a, bv)[i] = v[i]
  <2> DEFINE t == [k \in Index |-> [j \in Index |-> a[i][k] * (b[k][j] * v[j])]]
             rows == [k \in Index |-> SumOf(t[k])]
             cols == [j \in Index |-> SumOf([k \in Index |-> t[k][j]])]
             prods == [k \in Index |-> a[i][k] * bv[k]]
             single == [j \in Index |-> IF j = i THEN v[i] ELSE 0]
  <2>1. /\ t \in [Index -> [Index -> Int]]
        /\ prods \in [Index -> Int] /\ single \in [Index -> Int]
        /\ \A k \in Index : t[k] \in [Index -> Int] /\ [m \in Index |-> t[m][k]] \in [Index -> Int]
    BY <1>0, <1>2
  <2>2. rows \in [Index -> Int] /\ cols \in [Index -> Int]
    BY <1>0, <2>1, SumType DEF SumOf
  <2>3. ASSUME NEW k \in Index PROVE prods[k] \cong rows[k]
    <3> DEFINE g == [j \in Index |-> b[k][j] * v[j]]
               c == a[i][k]
               d == bv[k]
               s == SumOf(g)
    <3>1. g \in [Index -> Int] /\ c \in Int /\ d \in Int
      BY <1>0, <1>2
    <3>2. d \cong s
      BY <1>0, <1>1, DotCorrect
    <3>3. \A j \in Index : t[k][j] = c * g[j]
      OBVIOUS
    <3>4. rows[k] = SumOf(t[k]) /\ prods[k] = c * d
      OBVIOUS
    <3> HIDE DEF g, c, d, t, rows, prods
    <3>5. SumOf(t[k]) = c * SumOf(g)
      BY <3>1, <3>3, SumScale
    <3>6. s \in Int
      BY <1>0, <3>1, SumType DEF SumOf
    <3> HIDE DEF s
    <3>7. c * d \cong c * s
      BY <3>1, <3>2, <3>6, CongScale
    <3> QED
      BY <3>4, <3>5, <3>7 DEF s
  <2>4. ASSUME NEW j \in Index PROVE cols[j] \cong single[j]
    <3> DEFINE g == [k \in Index |-> a[i][k] * Column(b, j)[k]]
               c == v[j]
               h == [k \in Index |-> t[k][j]]
               s == SumOf(g)
               d == Dot(a[i], Column(b, j))
    <3>1. /\ Column(b, j) \in [Index -> Int] /\ g \in [Index -> Int] /\ c \in Int /\ c \in F
          /\ h \in [Index -> Int]
      BY <1>0, <2>1 DEF Column
    <3>2. d \cong s /\ d = Identity(i, j)
      BY <1>0, <3>1, DotCorrect DEF Inverses
    <3>3. ASSUME NEW k \in Index PROVE h[k] = c * g[k]
      <4> DEFINE aa == a[i][k]
                 bb == b[k][j]
      <4>1. aa \in Int /\ bb \in Int /\ g[k] = aa * bb /\ h[k] = aa * (bb * c)
        BY <1>0 DEF Column
      <4> HIDE DEF aa, bb, g, h, c
      <4> QED
        BY <3>1, <4>1
    <3>4. cols[j] = SumOf(h)
      OBVIOUS
    <3> HIDE DEF g, c, h, d, cols
    <3>5. SumOf(h) = c * SumOf(g)
      BY <3>1, <3>3, SumScale
    <3>6. s \in Int
      BY <1>0, <3>1, SumType DEF SumOf
    <3>7. d \in Int
      BY <3>2 DEF Identity
    <3> HIDE DEF s
    <3>8. c * s \cong c * d
      BY <3>1, <3>2, <3>6, <3>7, CongScale, CongEquivalence
    <3>9. c * d = single[j]
      <4>1. CASE i = j
        BY <3>1, <3>2, <4>1 DEF Identity, c
      <4>2. CASE i # j
        BY <3>1, <3>2, <4>2 DEF Identity, c
      <4> QED
        BY <4>1, <4>2
    <3> QED
      BY <3>4, <3>5, <3>8, <3>9 DEF s
  <2>5. SumOf(rows) = SumOf(cols)
    BY <2>1, SumSwap
  <2>6. SumOf(single) = v[i]
    BY <2>1, SumSingle
  <2>7. Apply(a, bv)[i] \in F /\ Apply(a, bv)[i] \cong SumOf(prods)
    BY <1>0, <1>2, DotCorrect DEF Apply
  <2> DEFINE r == Apply(a, bv)[i]
  <2> HIDE DEF rows, cols, prods, single, t, r
  <2>8. SumOf(prods) \cong SumOf(rows) /\ SumOf(cols) \cong SumOf(single)
    BY <1>0, <2>1, <2>2, <2>3, <2>4, SumCong DEF SumOf
  <2>9. SumOf(prods) \in Int /\ SumOf(rows) \in Int /\ v[i] \in Int /\ v[i] \in F /\ r \in Int
    BY <1>0, <2>1, <2>2, <2>7, SumType DEF SumOf, r
  <2>10. r \cong v[i]
    BY <2>5, <2>6, <2>7, <2>8, <2>9, CongEquivalence DEF r
  <2> QED
    BY <2>7, <2>9, <2>10, CongElement DEF r
<1>4. Apply(a, bv) = v
  BY <1>3 DEF Apply
<1> QED
  BY <1>1, <1>4 DEF bv

\* The matrix of the inverses of differences, and that of Schechter's formula.
CauchyOf(a, u, w) ==
    /\ a \in Matrix
    /\ \A i, k \in Index : a[i][k] * (u[i] - w[k]) \cong 1
SchechterOf(b, u, w) ==
    /\ b \in Matrix
    /\ \A k, j \in Index :
         b[k][j] \cong ((u[j] - w[k]) * Lagrange(u, j, w[k])) * Lagrange(w, k, u[j])

\* Each is the inverse of the other.
LEMMA CauchyInverses ==
    ASSUME NEW u \in [Index -> F], NEW w \in [Index -> F], Distinct(u), Distinct(w),
           NEW a, NEW b, CauchyOf(a, u, w), SchechterOf(b, u, w)
    PROVE  Inverses(a, b) /\ Inverses(b, a)
<1>0. /\ T \in 0 .. T /\ F \subseteq Int
      /\ a \in Matrix /\ b \in Matrix
      /\ \A i \in Index : a[i] \in [Index -> Int] /\ b[i] \in [Index -> Int]
      /\ \A i \in Index : Column(a, i) \in [Index -> Int] /\ Column(b, i) \in [Index -> Int]
      /\ \A k \in Index : u[k] \in Int /\ w[k] \in Int
  BY PoseidonAssumption, ModulusPositive DEF F, Matrix, Column, CauchyOf, SchechterOf
<1>1. \A j, k \in Index : Lagrange(u, j, w[k]) \in Int /\ Lagrange(w, k, u[j]) \in Int
  <2>1. \A j, k \in Index : Lagrange(u, j, w[k]) \in F /\ Lagrange(w, k, u[j]) \in F
    BY <1>0, LagrangeFacts
  <2> QED
    BY <1>0, <2>1
<1>2. ASSUME NEW d \in F, NEW s, NEW i \in Index, NEW j \in Index,
             NEW x \in [Index -> Int], NEW y \in [Index -> Int],
             d \cong SumOf(x), \A k \in Index : x[k] \cong y[k], SumOf(y) \cong Identity(i, j)
      PROVE  d = Identity(i, j)
  <2>1. SumOf(x) \cong SumOf(y) /\ SumOf(x) \in Int /\ SumOf(y) \in Int
    BY <1>0, <1>2, SumCong, SumType DEF SumOf
  <2>2. Identity(i, j) \in F
    BY ModulusPositive DEF Identity
  <2>3. d \in Int /\ Identity(i, j) \in Int
    BY <1>0, <2>2
  <2>4. d \cong Identity(i, j)
    BY <1>2, <2>1, <2>3, CongEquivalence
  <2> QED
    BY <2>2, <2>4, CongElement
<1>3. ASSUME NEW i \in Index, NEW j \in Index PROVE Dot(a[i], Column(b, j)) = Identity(i, j)
  <2> DEFINE g(k) == ((u[j] - w[k]) * Lagrange(u, j, w[k])) * Lagrange(w, k, u[j])
             v == [k \in Index |-> a[i][k]]
             x == [k \in Index |-> a[i][k] * Column(b, j)[k]]
             y == [k \in Index |-> v[k] * g(k)]
  <2>1. /\ \A k \in Index : g(k) \in Int
        /\ v \in [Index -> Int] /\ x \in [Index -> Int]
    BY <1>0, <1>1
  <2>2. y \in [Index -> Int]
    BY <2>1
  <2>3. SumOf(y) \cong Identity(i, j)
    <3>1. \A k \in Index : v[k] * (u[i] - w[k]) \cong 1
      BY DEF CauchyOf
    <3> HIDE DEF v
    <3> QED
      BY <2>1, <3>1, CauchyPair DEF Identity
  <2>4. ASSUME NEW k \in Index PROVE x[k] \cong y[k]
    <3> DEFINE c == a[i][k]
               d == b[k][j]
               e == g(k)
    <3>1. c \in Int /\ d \in Int /\ e \in Int /\ d \cong e
      BY <1>0, <2>1 DEF SchechterOf, Matrix
    <3>2. x[k] = c * d /\ y[k] = c * e
      BY DEF Column
    <3> HIDE DEF c, d, e, x, y
    <3> QED
      BY <3>1, <3>2, CongScale
  <2>5. Dot(a[i], Column(b, j)) \in F /\ Dot(a[i], Column(b, j)) \cong SumOf(x)
    BY <1>0, DotCorrect
  <2> HIDE DEF x, y
  <2> QED
    BY <1>2, <2>1, <2>2, <2>3, <2>4, <2>5
<1>4. ASSUME NEW i \in Index, NEW j \in Index PROVE Dot(b[i], Column(a, j)) = Identity(i, j)
  <2> DEFINE g(k) == ((w[i] - u[k]) * Lagrange(w, i, u[k])) * Lagrange(u, k, w[i])
             v == [k \in Index |-> - a[k][j]]
             x == [k \in Index |-> b[i][k] * Column(a, j)[k]]
             y == [k \in Index |-> v[k] * g(k)]
  <2>1. /\ \A k \in Index : g(k) \in Int /\ a[k][j] \in Int
        /\ v \in [Index -> Int] /\ x \in [Index -> Int]
    BY <1>0, <1>1 DEF Matrix
  <2>2. y \in [Index -> Int]
    BY <2>1
  <2>3. SumOf(y) \cong Identity(i, j)
    <3>1. ASSUME NEW k \in Index PROVE v[k] * (w[j] - u[k]) \cong 1
      <4>1. a[k][j] * (u[k] - w[j]) \cong 1
        BY DEF CauchyOf
      <4>2. v[k] * (w[j] - u[k]) = a[k][j] * (u[k] - w[j])
        <5> DEFINE c == a[k][j]
                   o == u[k]
                   m == w[j]
        <5>1. c \in Int /\ o \in Int /\ m \in Int /\ v[k] = - c
          BY <1>0, <2>1
        <5> HIDE DEF c, o, m, v
        <5>2. (- c) * (m - o) = c * (o - m)
          BY <5>1
        <5> QED
          BY <5>1, <5>2 DEF c, o, m
      <4> QED
        BY <4>1, <4>2
    <3> HIDE DEF v
    <3>2. SumOf(y) \cong IF j = i THEN 1 ELSE 0
      BY <2>1, <3>1, CauchyPair
    <3> QED
      BY <3>2 DEF Identity
  <2>4. ASSUME NEW k \in Index PROVE x[k] \cong y[k]
    <3> DEFINE c == a[k][j]
               d == b[i][k]
               e == ((u[k] - w[i]) * Lagrange(u, k, w[i])) * Lagrange(w, i, u[k])
    <3>1. c \in Int /\ d \in Int /\ e \in Int /\ d \cong e
      BY <1>0, <1>1, <2>1 DEF SchechterOf, Matrix
    <3>2. x[k] = d * c /\ y[k] = (- c) * g(k)
      BY DEF Column
    <3>3. (- c) * g(k) = c * e
      <4> DEFINE o == u[k]
                 m == w[i]
                 p == Lagrange(w, i, u[k])
                 q == Lagrange(u, k, w[i])
      <4>1. o \in Int /\ m \in Int /\ p \in Int /\ q \in Int
        BY <1>0, <1>1
      <4> HIDE DEF o, m, p, q, c
      <4>2. (- c) * (((m - o) * p) * q) = c * (((o - m) * q) * p)
        BY <3>1, <4>1
      <4> QED
        BY <4>2 DEF o, m, p, q
    <3> HIDE DEF c, d, e, x, y, g
    <3>4. c * d \cong c * e
      BY <3>1, CongScale
    <3>5. c * d = d * c
      BY <3>1
    <3> QED
      BY <3>2, <3>3, <3>4, <3>5
  <2>5. Dot(b[i], Column(a, j)) \in F /\ Dot(b[i], Column(a, j)) \cong SumOf(x)
    BY <1>0, DotCorrect
  <2> HIDE DEF x, y
  <2> QED
    BY <1>2, <2>1, <2>2, <2>3, <2>4, <2>5
<1> QED
  BY <1>3, <1>4 DEF Inverses

\* Of the inverses of differences no two by two minor is 0.
LEMMA CauchySeparable ==
    ASSUME NEW u \in [Index -> F], NEW w \in [Index -> F], Distinct(u), Distinct(w),
           NEW a, CauchyOf(a, u, w),
           NEW i \in Index, NEW j \in Index, NEW k \in Index, NEW l \in Index, i # j, k # l
    PROVE  (a[i][k] * a[j][l]) % Modulus # (a[i][l] * a[j][k]) % Modulus
<1> DEFINE x == u[i]
           y == u[j]
           m == w[k]
           n == w[l]
           p == a[i][k]
           q == a[j][l]
           r == a[i][l]
           s == a[j][k]
<1>1. /\ x \in Int /\ y \in Int /\ m \in Int /\ n \in Int
      /\ p \in Int /\ q \in Int /\ r \in Int /\ s \in Int
  BY ModulusPositive DEF F, CauchyOf, Matrix
<1>2. /\ p * (x - m) \cong 1 /\ q * (y - n) \cong 1
      /\ r * (x - n) \cong 1 /\ s * (y - m) \cong 1
  BY DEF CauchyOf
<1>3. ~(x \cong y) /\ ~(n \cong m)
  BY DEF Distinct
<1> SUFFICES ASSUME p * q \cong r * s PROVE FALSE
  BY DEF \cong
<1> HIDE DEF x, y, m, n, p, q, r, s
<1>4. ASSUME NEW b \in Int, NEW c \in Int, NEW d \in Int, NEW e \in Int, NEW f \in Int,
             b * c \cong 1, d * e \cong 1
      PROVE  (b * d) * ((c * e) * f) \cong f
  <2>1. (b * c) * (d * e) \cong 1 * 1
    BY <1>4, CongRing, b * c \in Int, d * e \in Int, 1 \in Int
  <2> DEFINE g == (b * c) * (d * e)
  <2>2. g \in Int /\ f * g = (b * d) * ((c * e) * f) /\ g \cong 1
    BY <2>1, 1 * 1 = 1
  <2> HIDE DEF g
  <2>3. f * g \cong f * 1
    BY <2>2, CongScale, 1 \in Int, Zenon
  <2> QED
    BY <2>2, <2>3, f * 1 = f
<1> DEFINE d1 == x - m
           d2 == y - n
           d3 == x - n
           d4 == y - m
<1>5. d1 \in Int /\ d2 \in Int /\ d3 \in Int /\ d4 \in Int
  BY <1>1
<1>6. d1 * d2 - d3 * d4 = (x - y) * (m - n)
  BY <1>1
<1>7. p * d1 \cong 1 /\ q * d2 \cong 1 /\ r * d3 \cong 1 /\ s * d4 \cong 1
  BY <1>2
<1> HIDE DEF d1, d2, d3, d4
<1>8. (p * q) * ((d1 * d2) * (d3 * d4)) \cong d3 * d4
  BY <1>1, <1>4, <1>5, <1>7, d3 * d4 \in Int
<1>9. (r * s) * ((d3 * d4) * (d1 * d2)) \cong d1 * d2
  BY <1>1, <1>4, <1>5, <1>7, d1 * d2 \in Int
<1>10. d1 * d2 \cong d3 * d4
  <2> DEFINE e == d1 * d2
             f == d3 * d4
             g == p * q
             h == r * s
  <2>1. /\ e \in Int /\ f \in Int /\ g \in Int /\ h \in Int /\ g \cong h
        /\ g * (e * f) \cong f /\ h * (f * e) \cong e
    BY <1>1, <1>5, <1>8, <1>9
  <2> HIDE DEF e, f, g, h
  <2>2. f * e = e * f /\ e * f \in Int
    BY <2>1
  <2>3. g * (e * f) \cong h * (e * f)
    <3>1. e * f \cong e * f
      BY <2>2, CongEquivalence
    <3> QED
      BY <2>1, <2>2, <3>1, CongRing
  <2>4. h * (e * f) \cong e /\ g * (e * f) \in Int /\ h * (e * f) \in Int
    BY <2>1, <2>2
  <2>5. e \cong f
    BY <2>1, <2>3, <2>4, CongEquivalence
  <2> QED
    BY <2>5 DEF e, f
<1>11. d1 * d2 - d3 * d4 \cong 0
  <2> DEFINE e == d1 * d2
             f == d3 * d4
  <2>1. e \in Int /\ f \in Int /\ e \cong f
    BY <1>5, <1>10
  <2> HIDE DEF e, f
  <2>2. f \cong f
    BY <2>1, CongEquivalence
  <2>3. e - f \cong f - f
    BY <2>1, <2>2, CongRing
  <2> QED
    BY <2>1, <2>3, f - f = 0 DEF e, f
<1>12. ASSUME NEW b \in Int, NEW c \in Int, b - c \cong 0 PROVE b \cong c
  <2>1. c \cong c /\ b - c \in Int
    BY CongEquivalence
  <2>2. (b - c) + c \cong 0 + c
    BY <1>12, <2>1, CongRing, 0 \in Int
  <2> QED
    BY <2>2, (b - c) + c = b, 0 + c = c
<1>13. ASSUME NEW b \in Int, NEW c \in Int, NEW d \in Int, NEW e \in Int,
              (b - c) * (d - e) \cong 0
       PROVE  b \cong c \/ d \cong e
  BY <1>12, <1>13, NoZeroDivisors, b - c \in Int, d - e \in Int
<1>14. (x - y) * (m - n) \cong 0
  BY <1>6, <1>11, Zenon
<1>15. x \cong y \/ m \cong n
  BY <1>1, <1>13, <1>14, Zenon
<1> QED
  BY <1>1, <1>3, <1>15, CongEquivalence

-----------------------------------------------------------------------------
(* The matrix that is found.                                               *)

neg_ys == [i \in Index |-> Neg(ys[i])]

\* A draw from which a matrix is made.
Selected ==
    /\ vals \in Seq(F)
    /\ Len(vals) = 2 * T
    /\ Unique
    /\ \A i, j \in Index : (xs[i] + ys[j]) % Modulus # 0

\* Negation in the field.
LEMMA NegCorrect ==
    ASSUME NEW y \in F
    PROVE  Neg(y) \in F /\ Neg(y) \cong - y
<1>1. y \in Int /\ Modulus - y \in Int
  BY ModulusPositive DEF F
<1> DEFINE n == Neg(y)
<1>2. n \in F /\ n \cong Modulus - y
  BY <1>1, CongMod DEF Neg
<1>3. Modulus - y \cong - y
  <2>1. PICK k \in Int : k = 1
    BY 1 \in Int
  <2>2. Modulus - y = - y + Modulus * k /\ - y \in Int
    BY <1>1, <2>1, ModulusPositive
  <2> QED
    BY <1>1, <2>2, CongMultiple
<1> HIDE DEF n
<1>4. n \in Int /\ - y \in Int
  BY <1>1, <1>2, ModulusPositive DEF F
<1> QED
  BY <1>1, <1>2, <1>3, <1>4, CongEquivalence DEF n

\* The elements of a draw of which none repeats are different.
LEMMA ElementsDiffer ==
    ASSUME Selected, NEW i \in 1 .. 2 * T, NEW j \in 1 .. 2 * T, vals[i] = vals[j]
    PROVE  i = j
<1> DEFINE D == 1 .. 2 * T
           R == {vals[k] : k \in D}
<1>1. 2 * T \in Nat /\ DOMAIN vals = D /\ Len(vals) = 2 * T /\ vals \in [D -> R]
  BY PoseidonAssumption DEF Selected
<1>2. IsFiniteSet(D) /\ Cardinality(D) = 2 * T
  <2>1. PICK n \in Nat \ {0} : n = 2 * T
    BY PoseidonAssumption
  <2>2. IsFiniteSet(1 .. n) /\ Cardinality(1 .. n) = n
    <3>1. IsFiniteSet(1 .. n) /\ Cardinality(1 .. n) = IF 1 > n THEN 0 ELSE n - 1 + 1
      BY FS_Interval, 1 \in Int, n \in Int, Zenon
    <3> QED
      BY <3>1
  <2> QED
    BY <2>1, <2>2
<1>3. vals \in Surjection(D, R)
  BY <1>1 DEF Surjection
<1>4. Cardinality(R) = 2 * T
  BY <1>1 DEF Selected, Unique
<1> HIDE DEF D, R
<1>5. vals \in Injection(D, R)
  BY <1>2, <1>3, <1>4, FS_Surjection
<1> QED
  BY <1>5 DEF Injection, IsInjective, D

\* The two halves of a draw, and the second one negated, are families of
\* different elements.
LEMMA NodesDiffer ==
    ASSUME Selected
    PROVE  /\ xs \in [Index -> F] /\ ys \in [Index -> F] /\ neg_ys \in [Index -> F]
           /\ Distinct(xs) /\ Distinct(neg_ys)
<1>0. T \in Nat /\ F \subseteq Int /\ \A i \in Index : i \in 1 .. 2 * T /\ T + i \in 1 .. 2 * T
  BY PoseidonAssumption, ModulusPositive DEF Index, F
<1>1. \A k \in 1 .. 2 * T : vals[k] \in F
  BY DEF Selected
<1>2. /\ xs = [i \in Index |-> vals[i]] /\ ys = [i \in Index |-> vals[T + i]]
  <2>1. /\ SubSeq(vals, 1, T) = [i \in 1 .. T - 1 + 1 |-> vals[i + 1 - 1]]
        /\ SubSeq(vals, T + 1, 2 * T) = [i \in 1 .. 2 * T - (T + 1) + 1 |-> vals[i + (T + 1) - 1]]
    BY <1>0 DEF Selected
  <2>2. /\ 1 .. T - 1 + 1 = Index /\ 1 .. 2 * T - (T + 1) + 1 = Index
        /\ \A i \in Index : i + 1 - 1 = i /\ i + (T + 1) - 1 = T + i
    BY <1>0 DEF Index
  <2> QED
    BY <2>1, <2>2 DEF xs, ys
<1>3. xs \in [Index -> F] /\ ys \in [Index -> F]
  BY <1>0, <1>1, <1>2
<1>4. neg_ys \in [Index -> F] /\ \A i \in Index : neg_ys[i] \cong - ys[i]
  BY <1>3, NegCorrect DEF neg_ys
<1>5. Distinct(xs)
  <2> SUFFICES ASSUME NEW i \in Index, NEW j \in Index, xs[i] \cong xs[j] PROVE i = j
    BY <1>0, <1>3 DEF Distinct
  <2>1. xs[i] = xs[j]
    BY <1>3, CongElement
  <2> QED
    BY <1>0, <1>2, <2>1, ElementsDiffer
<1>6. Distinct(neg_ys)
  <2> SUFFICES ASSUME NEW i \in Index, NEW j \in Index, neg_ys[i] \cong neg_ys[j] PROVE i = j
    BY <1>0, <1>4 DEF Distinct
  <2> DEFINE a == neg_ys[i]
             b == neg_ys[j]
             c == ys[i]
             d == ys[j]
  <2>1. /\ a \in Int /\ b \in Int /\ c \in Int /\ d \in Int /\ c \in F /\ d \in F
        /\ a \cong b /\ a \cong - c /\ b \cong - d
    BY <1>0, <1>3, <1>4
  <2>2. c = vals[T + i] /\ d = vals[T + j]
    BY <1>2
  <2> HIDE DEF a, b, c, d
  <2>3. - c \in Int /\ - d \in Int /\ 0 \in Int
    BY <2>1
  <2>4. - c \cong - d
    BY <2>1, <2>3, CongEquivalence
  <2>5. 0 - (- c) \cong 0 - (- d)
    BY <2>3, <2>4, CongRing, CongEquivalence
  <2>6. 0 - (- c) = c /\ 0 - (- d) = d
    BY <2>1
  <2>7. c = d
    BY <2>1, <2>5, <2>6, CongElement
  <2>8. T + i = T + j
    BY <1>0, <2>2, <2>7, ElementsDiffer
  <2> QED
    BY <1>0, <2>8 DEF Index
<1> QED
  BY <1>3, <1>4, <1>5, <1>6

\* The entries of the two matrices.
LEMMA EntriesCorrect ==
    ASSUME Selected
    PROVE  /\ CauchyOf(CauchyMatrix, xs, neg_ys)
           /\ CauchyMatrix \in [Index -> [Index -> F \ {0}]]
           /\ SchechterOf(CauchyInverse, xs, neg_ys)
<1>0. /\ F \subseteq Int
      /\ xs \in [Index -> F] /\ ys \in [Index -> F] /\ neg_ys \in [Index -> F]
      /\ Distinct(xs) /\ Distinct(neg_ys)
      /\ \A i \in Index : xs[i] \in Int /\ ys[i] \in Int /\ neg_ys[i] \in Int
  BY NodesDiffer, ModulusPositive DEF F
<1>1. ASSUME NEW i \in Index, NEW k \in Index
      PROVE  LET a == Invert((xs[i] + ys[k]) % Modulus)
             IN  a \in F /\ a # 0 /\ a * (xs[i] - neg_ys[k]) \cong 1
  <2> DEFINE x == xs[i]
             y == ys[k]
             n == neg_ys[k]
             s == (x + y) % Modulus
             a == Invert(s)
  <2>1. x \in Int /\ y \in Int /\ n \in Int /\ n \cong - y
    BY <1>0, NegCorrect DEF neg_ys
  <2>2. s \in F /\ s \cong x + y /\ s # 0
    BY <2>1, CongMod, x + y \in Int DEF Selected
  <2> HIDE DEF x, y, n, s
  <2>3. a \in F /\ a # 0 /\ s * a \cong 1
    BY <2>2, InvertCorrect
  <2>4. s \in Int /\ a \in Int
    BY <1>0, <2>2, <2>3
  <2> HIDE DEF a
  <2>5. x - n \cong x - (- y)
    BY <2>1, CongRing, CongEquivalence, - y \in Int
  <2>6. x - (- y) = x + y /\ x + y \in Int /\ x - n \in Int
    BY <2>1
  <2>7. s \cong x - n
    BY <2>1, <2>2, <2>4, <2>5, <2>6, CongEquivalence
  <2>8. a * s \cong a * (x - n)
    BY <2>4, <2>6, <2>7, CongScale
  <2>9. a * s = s * a /\ a * s \in Int /\ a * (x - n) \in Int
    BY <2>4, <2>6
  <2>10. a * (x - n) \cong 1
    BY <2>3, <2>8, <2>9, CongEquivalence
  <2> QED
    BY <2>3, <2>10 DEF x, y, n, s, a
<1>2. ASSUME NEW k \in Index, NEW j \in Index
      PROVE  LET b == (((Minus(xs[j], neg_ys[k]) * Lagrange(xs, j, neg_ys[k])) % Modulus)
                         * Lagrange(neg_ys, k, xs[j])) % Modulus
             IN  /\ b \in F
                 /\ b \cong ((xs[j] - neg_ys[k]) * Lagrange(xs, j, neg_ys[k]))
                              * Lagrange(neg_ys, k, xs[j])
  <2> DEFINE x == xs[j]
             n == neg_ys[k]
             m == Minus(x, n)
             p == Lagrange(xs, j, n)
             q == Lagrange(neg_ys, k, x)
             c == (m * p) % Modulus
             b == (c * q) % Modulus
  <2>1. x \in Int /\ n \in Int /\ n \in F
    BY <1>0
  <2>2. p \in F /\ q \in F
    BY <1>0, <2>1, LagrangeFacts
  <2>3. m \in F /\ m \cong x - n
    BY <2>1, MinusCorrect
  <2>4. p \in Int /\ q \in Int /\ m \in Int
    BY <1>0, <2>2, <2>3
  <2> HIDE DEF x, n, m, p, q
  <2>5. c \in F /\ c \cong m * p
    BY <2>4, CongMod, m * p \in Int
  <2>6. c \in Int
    BY <1>0, <2>5
  <2> HIDE DEF c
  <2>7. b \in F /\ b \cong c * q
    BY <2>4, <2>6, CongMod, c * q \in Int
  <2>8. b \in Int
    BY <1>0, <2>7
  <2> HIDE DEF b
  <2> DEFINE d == (x - n) * p
  <2>9. d \in Int /\ m * p \in Int /\ c * q \in Int
    BY <2>1, <2>4, <2>6
  <2>10. m * p \cong d
    BY <2>1, <2>3, <2>4, CongRing, CongEquivalence, x - n \in Int
  <2> HIDE DEF d
  <2>11. c \cong d
    BY <2>5, <2>6, <2>9, <2>10, CongEquivalence
  <2>12. c * q \cong d * q
    BY <2>4, <2>6, <2>9, <2>11, CongRing, CongEquivalence
  <2>13. b \cong d * q
    BY <2>4, <2>7, <2>8, <2>9, <2>12, CongEquivalence, d * q \in Int
  <2> QED
    BY <2>7, <2>13 DEF d, b, c, m, p, q, x, n
<1>3. CauchyMatrix \in [Index -> [Index -> F \ {0}]]
  BY <1>1 DEF CauchyMatrix
<1>4. CauchyOf(CauchyMatrix, xs, neg_ys)
  <2>1. CauchyMatrix \in Matrix
    BY <1>3 DEF Matrix
  <2>2. \A i, k \in Index : CauchyMatrix[i][k] * (xs[i] - neg_ys[k]) \cong 1
    BY <1>1 DEF CauchyMatrix
  <2> QED
    BY <2>1, <2>2 DEF CauchyOf
<1>5. SchechterOf(CauchyInverse, xs, neg_ys)
  <2>1. CauchyInverse = [k \in Index |-> [j \in Index |->
            (((Minus(xs[j], neg_ys[k]) * Lagrange(xs, j, neg_ys[k])) % Modulus)
                * Lagrange(neg_ys, k, xs[j])) % Modulus]]
    BY DEF CauchyInverse, neg_ys
  <2> QED
    BY <1>2, <2>1 DEF SchechterOf, Matrix
<1> QED
  BY <1>3, <1>4, <1>5

\* The matrix of a draw has no entry of 0, and it and the second matrix undo each
\* other.
LEMMA MatrixCorrect ==
    ASSUME Selected
    PROVE  /\ CauchyMatrix \in [Index -> [Index -> F \ {0}]]
           /\ CauchyMatrix \in Matrix /\ CauchyInverse \in Matrix
           /\ Inverses(CauchyMatrix, CauchyInverse) /\ Inverses(CauchyInverse, CauchyMatrix)
<1>1. CauchyMatrix \in Matrix /\ CauchyInverse \in Matrix
  BY EntriesCorrect DEF CauchyOf, SchechterOf
<1>2. Inverses(CauchyMatrix, CauchyInverse) /\ Inverses(CauchyInverse, CauchyMatrix)
  BY EntriesCorrect, NodesDiffer, CauchyInverses
<1> QED
  BY <1>1, <1>2, EntriesCorrect

-----------------------------------------------------------------------------
(* Undoing the rounds.                                                     *)

\* Undo with a matrix given, and the states it leads to, round by round.
UndoWith(m, r, st) ==
    LET w == Apply(m, st)
        full == \/ r <= FullRounds \div 2
                \/ FullRounds + PartialRounds - r < FullRounds \div 2
    IN  [i \in Index |->
           Minus(IF full \/ i = 1 THEN Unbox(w[i]) ELSE w[i], RoundConstants[r][i])]

UndoneTo(m, st, n) ==
    LET U[k \in Nat] == IF k = 0 THEN st ELSE UndoWith(m, n - k + 1, U[k - 1]) IN U

UndoStep(p, k, prev) == UndoWith(p[1], p[3] - k, prev)
UndoRec == INSTANCE NatRecursion WITH Step <- UndoStep

\* The recursion, round by round.
LEMMA UndoneEquation ==
    ASSUME NEW m, NEW st, NEW n \in Nat
    PROVE  /\ UndoneTo(m, st, n)[0] = st
           /\ \A k \in Nat :
                UndoneTo(m, st, n)[k + 1] = UndoWith(m, n - k, UndoneTo(m, st, n)[k])
<1> DEFINE p == <<m, st, n>>
           Eq(U) == U = [k \in Nat |-> IF k = 0 THEN st ELSE UndoWith(m, n - k + 1, U[k - 1])]
           R == UndoRec!Rec(p, st)
           A == UndoneTo(m, st, n)
<1>1. A = CHOOSE U : Eq(U)
  BY DEF UndoneTo
<1>2. Eq(R)
  <2>1. R = [k \in Nat |-> IF k = 0 THEN st ELSE UndoStep(p, k - 1, R[k - 1])]
    BY UndoRec!RecEquation
  <2>2. \A k \in Nat : n - (k - 1) = n - k + 1
    OBVIOUS
  <2>3. ASSUME NEW k \in Nat, NEW prev
        PROVE  UndoStep(p, k - 1, prev) = UndoWith(m, n - k + 1, prev)
    BY <2>2 DEF UndoStep
  <2> HIDE DEF R, p
  <2> QED
    BY <2>1, <2>3
<1>3. Eq(A)
  <2> HIDE DEF Eq, R, A
  <2> QED
    BY <1>1, <1>2
<1> HIDE DEF A
<1>4. A[0] = st
  BY <1>3
<1>5. ASSUME NEW k \in Nat PROVE A[k + 1] = UndoWith(m, n - k, A[k])
  <2>1. k + 1 \in Nat /\ k + 1 # 0 /\ (k + 1) - 1 = k /\ n - (k + 1) + 1 = n - k
    OBVIOUS
  <2> QED
    BY <1>3, <2>1
<1> QED
  BY <1>4, <1>5 DEF A

\* If undoing the last round leads to a state, undoing them all leads to where
\* undoing the earlier ones leads from it.
LEMMA UndoneShift ==
    ASSUME NEW m, NEW st, NEW new, NEW n \in Nat, UndoWith(m, n + 1, new) = st
    PROVE  UndoneTo(m, new, n + 1)[n + 1] = UndoneTo(m, st, n)[n]
<1> DEFINE A == UndoneTo(m, new, n + 1)
           B == UndoneTo(m, st, n)
           S == {k \in Nat : A[k + 1] = B[k]}
<1>1. /\ A[0] = new /\ B[0] = st
      /\ \A k \in Nat : A[k + 1] = UndoWith(m, n + 1 - k, A[k])
      /\ \A k \in Nat : B[k + 1] = UndoWith(m, n - k, B[k])
  BY UndoneEquation, n + 1 \in Nat
<1> HIDE DEF A, B
<1>2. 0 \in S
  BY <1>1, n + 1 - 0 = n + 1
<1>3. ASSUME NEW k \in Nat, k \in S PROVE k + 1 \in S
  BY <1>1, <1>3, k + 1 \in Nat, n + 1 - (k + 1) = n - k
<1> HIDE DEF S
<1>4. \A k \in Nat : k \in S
  BY <1>2, <1>3, UndoRec!SetInduction
<1> QED
  BY <1>4 DEF S, A, B

\* The S-box leads to elements and is undone by Unbox.
LEMMA SboxCorrect ==
    ASSUME NEW x \in F
    PROVE  sbox(x) \in F /\ Unbox(sbox(x)) = x
<1> DEFINE x2 == (x * x) % Modulus
           x3 == (x2 * x) % Modulus
           x4 == (x3 * x) % Modulus
           x5 == (x4 * x) % Modulus
<1>1. x \in Int /\ F \subseteq Int
  BY ModulusPositive DEF F
<1>2. x2 \in Int
  BY <1>1, CongMod, x * x \in Int
<1> HIDE DEF x2
<1>3. x3 \in Int
  BY <1>1, <1>2, CongMod, x2 * x \in Int
<1> HIDE DEF x3
<1>4. x4 \in Int
  BY <1>1, <1>3, CongMod, x3 * x \in Int
<1> HIDE DEF x4
<1>5. x5 \in F
  BY <1>1, <1>4, CongMod, x4 * x \in Int
<1>6. sbox(x) = x5
  BY DEF sbox, x2, x3, x4
<1> DEFINE y == Unbox(sbox(x))
<1>7. y \in F /\ sbox(y) = sbox(x)
  BY DEF Unbox
<1>8. y = x
  BY <1>7, SboxAssumption
<1> QED
  BY <1>5, <1>6, <1>8

\* An element added and subtracted.
LEMMA MinusAdd ==
    ASSUME NEW x \in F, NEW c \in F
    PROVE  (x + c) % Modulus \in F /\ Minus((x + c) % Modulus, c) = x
<1> DEFINE s == (x + c) % Modulus
           d == Minus(s, c)
<1>1. x \in Int /\ c \in Int /\ F \subseteq Int
  BY ModulusPositive DEF F
<1>2. s \in F /\ s \cong x + c
  BY <1>1, CongMod, x + c \in Int
<1> HIDE DEF s
<1>3. d \in F /\ d \cong s - c
  BY <1>1, <1>2, MinusCorrect
<1> HIDE DEF d
<1>4. s - c \cong (x + c) - c
  BY <1>1, <1>2, CongRing, CongEquivalence, x + c \in Int
<1>5. (x + c) - c = x /\ s - c \in Int /\ d \in Int
  BY <1>1, <1>2, <1>3
<1>6. d \cong x
  BY <1>1, <1>3, <1>4, <1>5, CongEquivalence
<1> QED
  BY <1>2, <1>3, <1>6, CongElement DEF s, d

\* A round leads to a state of elements, and undoing it back.
LEMMA UndoRound ==
    ASSUME NEW a \in Matrix, NEW b \in Matrix, Inverses(b, a), NEW st \in [Index -> F],
           NEW n \in 0 .. FullRounds + PartialRounds - 1, NEW w,
           w = [i \in Index |->
                  IF IsFull(n) \/ i = 1 THEN sbox((st[i] + RoundConstants[n + 1][i]) % Modulus)
                                        ELSE (st[i] + RoundConstants[n + 1][i]) % Modulus]
    PROVE  Apply(a, w) \in [Index -> F] /\ UndoWith(b, n + 1, Apply(a, w)) = st
<1> DEFINE full == \/ n + 1 <= FullRounds \div 2
                   \/ FullRounds + PartialRounds - (n + 1) < FullRounds \div 2
           rc(i) == RoundConstants[n + 1][i]
<1>1. full <=> IsFull(n)
  <2>1. PICK h \in Nat : FullRounds = 2 * h /\ FullRounds \div 2 = h
    BY PoseidonAssumption
  <2> QED
    BY <2>1, PoseidonAssumption DEF IsFull
<1>2. \A i \in Index : rc(i) \in F
  <2>1. n + 1 \in 1 .. FullRounds + PartialRounds
    BY PoseidonAssumption
  <2> QED
    BY <2>1, PoseidonAssumption DEF Index
<1>3. w \in [Index -> F]
  BY <1>2, MinusAdd, SboxCorrect
<1>4. Apply(a, w) \in [Index -> F] /\ Apply(b, Apply(a, w)) = w
  BY <1>3, ApplyInverse
<1>5. UndoWith(b, n + 1, Apply(a, w))
        = [i \in Index |-> Minus(IF full \/ i = 1 THEN Unbox(w[i]) ELSE w[i], rc(i))]
  BY <1>4 DEF UndoWith
<1>6. ASSUME NEW i \in Index
      PROVE  Minus(IF full \/ i = 1 THEN Unbox(w[i]) ELSE w[i], rc(i)) = st[i]
  <2> DEFINE s == (st[i] + rc(i)) % Modulus
  <2>1. s \in F /\ Minus(s, rc(i)) = st[i]
    BY <1>2, MinusAdd
  <2>2. Unbox(sbox(s)) = s
    BY <2>1, SboxCorrect
  <2>3. w[i] = IF full \/ i = 1 THEN sbox(s) ELSE s
    BY <1>1
  <2> HIDE DEF s, full
  <2> QED
    BY <2>1, <2>2, <2>3
<1>7. UndoWith(b, n + 1, Apply(a, w)) = st
  BY <1>5, <1>6
<1> QED
  BY <1>4, <1>7

-----------------------------------------------------------------------------
(* The inductive invariant.                                                *)

\* The matrices are those of the draw; before the first round nothing is undone,
\* and every round keeps what undoing the rounds leads to.
IInv ==
    /\ TypeOK
    /\ vals \in Seq(Draws)
    /\ Found => Selected /\ mds = CauchyMatrix /\ mds_inv = CauchyInverse
    /\ phase # "permuting" => round = 0
    /\ RoundsInvertible

\* What undoing the rounds leads to, before and after a step.
LEMMA UndoneIs ==
    /\ Undone = UndoneTo(mds_inv, state, round)[round]
    /\ Undone' = UndoneTo(mds_inv', state', round')[round']
  BY DEF Undone, Undo, UndoneTo, UndoWith

\* A draw that stays makes the same matrices.
LEMMA SameDraw ==
    ASSUME vals' = vals
    PROVE  /\ Selected' <=> Selected
           /\ CauchyMatrix' = CauchyMatrix /\ CauchyInverse' = CauchyInverse
<1>1. xs' = xs /\ ys' = ys /\ (Unique' <=> Unique)
  BY DEF xs, ys, Unique
<1>2. Selected' <=> Selected
  BY <1>1 DEF Selected
<1>3. CauchyMatrix' = CauchyMatrix
  BY <1>1 DEF CauchyMatrix
<1>4. CauchyInverse' = CauchyInverse
  BY <1>1 DEF CauchyInverse
<1> QED
  BY <1>2, <1>3, <1>4

\* The search starts with nothing drawn.
LEMMA InitIInv == Init => IInv
<1> SUFFICES ASSUME Init PROVE IInv
  OBVIOUS
<1>1. phase = "drawing" /\ vals = << >> /\ select = SecureMds /\ round = 0
  BY DEF Init
<1>2. TypeOK
  BY <1>1, PoseidonAssumption DEF TypeOK, Found
<1> QED
  BY <1>1, <1>2 DEF IInv, Found, RoundsInvertible

\* Every step of the search and of the permutation keeps the invariant.
LEMMA StepIInv == IInv /\ [Next]_vars => IInv'
<1> SUFFICES ASSUME IInv, [Next]_vars PROVE IInv'
  OBVIOUS
<1>0. /\ T \in Nat \ {0} /\ Draws \subseteq F /\ SecureMds \in Nat
      /\ FullRounds \in Nat /\ PartialRounds \in Nat /\ FullRounds + PartialRounds \in Nat
      /\ Inputs \subseteq [Index -> F]
  BY PoseidonAssumption DEF Index
<1>1. /\ vals \in Seq(Draws) /\ Len(vals) <= 2 * T /\ select \in 0 .. SecureMds
      /\ phase \in {"drawing", "ready", "permuting", "panicked"}
      /\ round \in 0 .. FullRounds + PartialRounds
      /\ phase # "permuting" => round = 0
  BY DEF IInv, TypeOK
<1>2. CASE phase = "drawing" /\ phase' = "drawing" /\ round' = round
           /\ vals' \in Seq(Draws) /\ Len(vals') <= 2 * T /\ select' \in 0 .. SecureMds
  <2>1. TypeOK'
    BY <1>1, <1>2 DEF TypeOK, Found
  <2> QED
    BY <1>1, <1>2, <2>1 DEF IInv, Found, RoundsInvertible
<1>3. ASSUME NEW v \in Draws, Draw(v) PROVE IInv'
  <2>1. vals' = Append(vals, v) /\ Len(vals) < 2 * T
    BY <1>3 DEF Draw
  <2>2. vals' \in Seq(Draws) /\ Len(vals') <= 2 * T
    BY <1>0, <1>1, <2>1
  <2> QED
    BY <1>1, <1>2, <1>3, <2>2 DEF Draw
<1>4. CASE Retry
  BY <1>0, <1>1, <1>2, <1>4 DEF Retry
<1>5. CASE PassOver
  BY <1>0, <1>1, <1>2, <1>5 DEF PassOver
<1>6. CASE Cauchy
  <2>1. /\ vals' = vals /\ select' = select /\ round' = round /\ phase = "drawing"
        /\ Len(vals) = 2 * T /\ Unique
    BY <1>6 DEF Cauchy
  <2>2. CASE phase' = "ready"
    <3>1. /\ \A i, j \in Index : (xs[i] + ys[j]) % Modulus # 0
          /\ mds' = CauchyMatrix /\ mds_inv' = CauchyInverse
      BY <1>6, <2>2 DEF Cauchy
    <3>2. Selected
      <4>1. vals \in Seq(F)
        BY <1>0, <1>1
      <4> QED
        BY <2>1, <3>1, <4>1 DEF Selected
    <3>3. Selected' /\ mds' = CauchyMatrix' /\ mds_inv' = CauchyInverse'
      BY <2>1, <3>1, <3>2, SameDraw
    <3>4. mds' \in [Index -> [Index -> F \ {0}]] /\ mds_inv' \in [Index -> [Index -> F]]
      BY <3>1, <3>2, MatrixCorrect DEF Matrix
    <3>5. TypeOK'
      BY <1>1, <2>1, <2>2, <3>4 DEF TypeOK, Found
    <3> QED
      BY <1>1, <2>1, <2>2, <3>3, <3>5 DEF IInv, Found, RoundsInvertible
  <2>3. CASE phase' = "panicked"
    <3>1. TypeOK'
      BY <1>1, <2>1, <2>3 DEF TypeOK, Found
    <3> QED
      BY <1>1, <2>1, <2>3, <3>1 DEF IInv, Found, RoundsInvertible
  <2> QED
    BY <1>6, <2>2, <2>3 DEF Cauchy
<1>7. ASSUME Found, vals' = vals, mds' = mds, mds_inv' = mds_inv, select' = select,
             phase' = "permuting", state' \in [Index -> F], input' \in Inputs,
             round' \in 0 .. FullRounds + PartialRounds, Undone' = input'
      PROVE  IInv'
  <2>1. Selected' /\ mds' = CauchyMatrix' /\ mds_inv' = CauchyInverse'
    BY <1>7, SameDraw DEF IInv
  <2>2. mds \in [Index -> [Index -> F \ {0}]] /\ mds_inv \in [Index -> [Index -> F]]
    BY <1>7 DEF IInv, TypeOK
  <2>3. TypeOK'
    BY <1>1, <1>7, <2>2 DEF TypeOK, Found
  <2> QED
    BY <1>1, <1>7, <2>1, <2>3 DEF IInv, Found, RoundsInvertible
<1>8. ASSUME NEW st \in Inputs, permute(st) PROVE IInv'
  <2>1. /\ phase = "ready" /\ input' = st /\ state' = st /\ phase' = "permuting"
        /\ vals' = vals /\ select' = select /\ mds' = mds /\ mds_inv' = mds_inv
        /\ round' = 0 /\ round = 0
    BY <1>1, <1>8 DEF permute
  <2>2. Undone' = st
    BY <2>1, UndoneIs, UndoneEquation, 0 \in Nat
  <2>3. st \in [Index -> F] /\ Found /\ 0 \in 0 .. FullRounds + PartialRounds
    BY <1>0, <2>1 DEF Found
  <2> QED
    BY <1>7, <2>1, <2>2, <2>3
<1>9. ASSUME phase = "permuting", round < FullRounds + PartialRounds, NEW w,
             w = [i \in Index |->
                    IF IsFull(round) \/ i = 1
                    THEN sbox((state[i] + RoundConstants[round + 1][i]) % Modulus)
                    ELSE (state[i] + RoundConstants[round + 1][i]) % Modulus],
             state' = Apply(mds, w), round' = round + 1,
             UNCHANGED <<vals, select, mds, mds_inv, input, phase>>
      PROVE  IInv'
  <2>1. /\ Found /\ Selected /\ mds = CauchyMatrix /\ mds_inv = CauchyInverse
        /\ state \in [Index -> F] /\ input \in Inputs /\ Undone = input
    BY <1>9 DEF IInv, TypeOK, Found, RoundsInvertible
  <2>2. mds \in Matrix /\ mds_inv \in Matrix /\ Inverses(mds_inv, mds)
    BY <2>1, MatrixCorrect
  <2>3. round \in 0 .. FullRounds + PartialRounds - 1 /\ round \in Nat
    BY <1>0, <1>1, <1>9
  <2>4. state' \in [Index -> F] /\ UndoWith(mds_inv, round + 1, state') = state
    BY <1>9, <2>1, <2>2, <2>3, UndoRound
  <2>5. Undone' = Undone
    BY <1>9, <2>3, <2>4, UndoneIs, UndoneShift
  <2>6. round + 1 \in 0 .. FullRounds + PartialRounds
    BY <1>0, <2>3
  <2> QED
    BY <1>7, <1>9, <2>1, <2>4, <2>5, <2>6
<1>10. CASE full_round
  <2> DEFINE w == [i \in Index |-> sbox((state[i] + RoundConstants[round + 1][i]) % Modulus)]
  <2>1. /\ phase = "permuting" /\ round < FullRounds + PartialRounds /\ IsFull(round)
        /\ state' = Apply(mds, w) /\ round' = round + 1
        /\ UNCHANGED <<vals, select, mds, mds_inv, input, phase>>
    BY <1>10 DEF full_round
  <2>2. w = [i \in Index |->
               IF IsFull(round) \/ i = 1
               THEN sbox((state[i] + RoundConstants[round + 1][i]) % Modulus)
               ELSE (state[i] + RoundConstants[round + 1][i]) % Modulus]
    BY <2>1
  <2> HIDE DEF w
  <2> QED
    BY <1>9, <2>1, <2>2
<1>11. CASE part_round
  <2> DEFINE added == [i \in Index |-> (state[i] + RoundConstants[round + 1][i]) % Modulus]
             w == [added EXCEPT ![1] = sbox(@)]
  <2>1. /\ phase = "permuting" /\ round < FullRounds + PartialRounds /\ ~IsFull(round)
        /\ state' = Apply(mds, w) /\ round' = round + 1
        /\ UNCHANGED <<vals, select, mds, mds_inv, input, phase>>
    BY <1>11 DEF part_round
  <2>2. w = [i \in Index |->
               IF IsFull(round) \/ i = 1
               THEN sbox((state[i] + RoundConstants[round + 1][i]) % Modulus)
               ELSE (state[i] + RoundConstants[round + 1][i]) % Modulus]
    BY <2>1
  <2> HIDE DEF w
  <2> QED
    BY <1>9, <2>1, <2>2
<1>12. CASE UNCHANGED vars
  <2>1. /\ vals' = vals /\ select' = select /\ mds' = mds /\ mds_inv' = mds_inv
        /\ input' = input /\ state' = state /\ round' = round /\ phase' = phase
    BY <1>12 DEF vars
  <2>2. Undone' = Undone
    BY <2>1, UndoneIs
  <2>3. TypeOK' /\ (Found' <=> Found)
    BY <2>1 DEF IInv, TypeOK, Found
  <2>4. RoundsInvertible'
    BY <2>1, <2>2 DEF IInv, RoundsInvertible
  <2>5. Found' => Selected' /\ mds' = CauchyMatrix' /\ mds_inv' = CauchyInverse'
    BY <2>1, <2>3, SameDraw DEF IInv
  <2> QED
    BY <2>1, <2>3, <2>4, <2>5 DEF IInv
<1> QED
  BY <1>3, <1>4, <1>5, <1>6, <1>8, <1>10, <1>11, <1>12 DEF Next

\* The invariant holds in every state.
LEMMA Invariant == Spec => []IInv
  BY InitIInv, StepIInv, PTL DEF Spec

\* The elements drawn, the matrix, its inverse and the state are of the field, and
\* no entry of the matrix is 0.
THEOREM TypeCorrect == Spec => []TypeOK
<1>1. IInv => TypeOK
  BY DEF IInv
<1> QED
  BY <1>1, Invariant, PTL

\* generate_mds: whatever the generator draws, no two by two minor of the matrix
\* that is found is 0.
THEOREM SeparableHolds == Spec => []Separable
<1>1. IInv => Separable
  <2> SUFFICES ASSUME IInv, Found, NEW i \in Index, NEW j \in Index, NEW k \in Index,
                      NEW l \in Index, i < j, k < l
               PROVE  (mds[i][k] * mds[j][l]) % Modulus # (mds[i][l] * mds[j][k]) % Modulus
    BY DEF Separable
  <2>1. Selected /\ mds = CauchyMatrix /\ i # j /\ k # l
    BY PoseidonAssumption DEF IInv, Index
  <2> QED
    <3>1. (CauchyMatrix[i][k] * CauchyMatrix[j][l]) % Modulus
            # (CauchyMatrix[i][l] * CauchyMatrix[j][k]) % Modulus
      <4> DEFINE u == xs
                 w == neg_ys
                 a == CauchyMatrix
      <4>1. /\ u \in [Index -> F] /\ w \in [Index -> F] /\ Distinct(u) /\ Distinct(w)
            /\ CauchyOf(a, u, w)
        BY <2>1, NodesDiffer, EntriesCorrect
      <4> HIDE DEF u, w, a
      <4>2. (a[i][k] * a[j][l]) % Modulus # (a[i][l] * a[j][k]) % Modulus
        BY <2>1, <4>1, CauchySeparable, Zenon
      <4> QED
        BY <4>2 DEF a
    <3> QED
      BY <2>1, <3>1
<1> QED
  BY <1>1, Invariant, PTL

\* generate_mds: the second matrix, by Schechter's formula with the second half
\* of the draw negated, is the inverse of the first.
THEOREM InverseIsCorrect == Spec => []InverseCorrect
<1>1. IInv => InverseCorrect
  BY MatrixCorrect DEF IInv, InverseCorrect, Inverses, Identity
<1> QED
  BY <1>1, Invariant, PTL

\* permute: its rounds, undone one by one with the second matrix, lead back to
\* the state it was called with.
THEOREM RoundsAreInvertible == Spec => []RoundsInvertible
<1>1. IInv => RoundsInvertible
  BY DEF IInv
<1> QED
  BY <1>1, Invariant, PTL

-----------------------------------------------------------------------------
(* The sponge over the permutation, mod.rs beside mds.rs: for every rate,  *)
(* every field, every permutation of the state, and messages of every      *)
(* length.                                                                 *)

\* m is the message and n the number of blocks before.
BlockStep(m, n, prev) ==
    Permute([i \in 1 .. Rate + 1 |-> IF i <= Rate THEN Add(prev[i], Element(m, n * Rate + i))
                                     ELSE prev[i]])
BlockRec == INSTANCE NatRecursion WITH Step <- BlockStep

-----------------------------------------------------------------------------
(* Blocks.                                                                 *)

\* A message is padded to whole blocks, at least one, with zeroes.
LEMMA Padding ==
    ASSUME NEW m \in Messages
    PROVE  /\ Len(m) \in Nat /\ Blocks(m) \in Nat /\ Blocks(m) >= 1
           /\ Len(m) <= Blocks(m) * Rate
           /\ Padded(m) \in Seq(Fr) /\ Len(Padded(m)) = Blocks(m) * Rate
           /\ \A i \in 1 .. Blocks(m) * Rate : Padded(m)[i] = Element(m, i)
<1>1. PICK n \in 1 .. MaxLength : m \in [1 .. n -> Fr]
  BY DEF Messages
<1>2. n \in Nat /\ n >= 1 /\ Rate \in Nat \ {0} /\ Zero \in Fr
  BY SpongeAssumption
<1>3. m \in Seq(Fr) /\ Len(m) = n
  BY <1>1, <1>2
<1> DEFINE K == (n + Rate - 1) \div Rate
           W == K * Rate
<1>4. K \in Nat /\ K >= 1 /\ W \in Nat /\ W >= n
  <2> DEFINE a == n + Rate - 1
             q == a % Rate
  <2>1. a \in Nat /\ a >= Rate
    BY <1>2
  <2> HIDE DEF a
  <2>2. K \in Nat /\ q \in 0 .. Rate - 1 /\ a = Rate * K + q
    BY <1>2, <2>1 DEF a
  <2> HIDE DEF K, q
  <2>3. K # 0
    BY <1>2, <2>1, <2>2
  <2>4. Rate * K = K * Rate /\ K * Rate \in Nat
    BY <1>2, <2>2
  <2> QED
    BY <1>2, <2>2, <2>3, <2>4 DEF a
<1>5. Blocks(m) = K
  BY <1>3 DEF Blocks
<1>6. padding(Len(m)) = [i \in 1 .. W - n |-> Zero]
  BY <1>3 DEF padding
<1> HIDE DEF K, W
<1> DEFINE p == [i \in 1 .. W - n |-> Zero]
<1>7. p \in Seq(Fr) /\ Len(p) = W - n /\ \A i \in 1 .. W - n : p[i] = Zero
  BY <1>2, <1>4
<1> HIDE DEF p
<1>8. Padded(m) = m \o p
  BY <1>6 DEF Padded, p
<1>9. /\ m \o p \in Seq(Fr) /\ Len(m \o p) = W
      /\ \A i \in 1 .. W : (m \o p)[i] = IF i <= n THEN m[i] ELSE Zero
  BY <1>2, <1>3, <1>4, <1>7
<1> QED
  BY <1>2, <1>3, <1>4, <1>5, <1>8, <1>9 DEF Element, W

\* The state after each block, as an equation.
LEMMA StateEquation ==
    ASSUME NEW m
    PROVE  /\ StateOf(m)[0] = InitialState(Len(m))
           /\ \A k \in Nat : StateOf(m)[k + 1] = BlockStep(m, k, StateOf(m)[k])
<1> DEFINE base == [i \in 1 .. Rate + 1 |->
                      IF i <= Rate THEN Zero ELSE initial_capacity_element(Len(m))]
           R == BlockRec!Rec(m, base)
           Eq(S) == S = [k \in Nat |->
                      IF k = 0 THEN base
                      ELSE Permute([i \in 1 .. Rate + 1 |->
                             IF i <= Rate THEN Add(S[k - 1][i], Element(m, (k - 1) * Rate + i))
                             ELSE S[k - 1][i]])]
           A == StateOf(m)
<1>1. Eq(R)
  <2>1. R = [k \in Nat |-> IF k = 0 THEN base ELSE BlockStep(m, k - 1, R[k - 1])]
    <3> HIDE DEF base
    <3> QED
      BY BlockRec!RecEquation
  <2> HIDE DEF R, base
  <2> QED
    BY <2>1 DEF BlockStep
<1>2. A = CHOOSE S : Eq(S)
  BY DEF StateOf
<1>3. Eq(A)
  <2> HIDE DEF Eq, R, A
  <2> QED
    BY <1>1, <1>2
<1> HIDE DEF A, base
<1>4. ASSUME NEW k \in Nat PROVE A[k + 1] = BlockStep(m, k, A[k])
  <2>1. k + 1 \in Nat /\ k + 1 # 0 /\ (k + 1) - 1 = k
    OBVIOUS
  <2> QED
    BY <1>3, <2>1 DEF BlockStep
<1>5. A[0] = base
  BY <1>3
<1>6. base = InitialState(Len(m))
  <2>1. \A i \in 1 .. Rate + 1 : i <= Rate <=> i # Rate + 1
    BY SpongeAssumption
  <2> QED
    BY <2>1 DEF base, InitialState
<1> QED
  BY <1>4, <1>5, <1>6 DEF A

-----------------------------------------------------------------------------
(* The inductive invariant: b blocks have been permuted into the state and *)
(* the slots hold the first r elements of the next one.  A full block      *)
(* waits in the slots until the element after it, or the end, is there.    *)

Slots(m, b, r) == [i \in 1 .. Rate |-> IF i <= r THEN {Element(m, b * Rate + i)} ELSE {}]

AtBlock(b, r) ==
    /\ absorbed = b * Rate + r
    /\ b = 0 \/ r > 0
    /\ sponge_state = StateOf(message)[b]
    /\ slots = Slots(message, b, r)

Absorbing ==
    /\ output = {}
    /\ absorbed <= Blocks(message) * Rate
    /\ \E b \in Nat, r \in 0 .. Rate : AtBlock(b, r)

Squeezing ==
    /\ output = {}
    /\ slots = [i \in 1 .. Rate |-> {StateOf(message)[Blocks(message)][i]}]

SpongeInv ==
    /\ message \in Messages
    /\ mode \in {"absorbing", "squeezing", "done"}
    /\ mode = "absorbing" => Absorbing
    /\ mode # "absorbing" => absorbed = Blocks(message) * Rate
    /\ mode = "squeezing" => Squeezing
    /\ mode = "done" => output = {HashOf(message)}

\* The slots behind the first r are free, and the first of them is the next.
LEMMA FreeSlots ==
    ASSUME NEW b \in Nat, NEW r \in 0 .. Rate, slots = Slots(message, b, r)
    PROVE  /\ Free = r + 1 .. Rate
           /\ r < Rate => First(Free) = r + 1
           /\ Filled <=> r = Rate
<1>1. Rate \in Nat \ {0}
  BY SpongeAssumption
<1>2. \A i \in 1 .. Rate : slots[i] = {} <=> i > r
  BY <1>1 DEF Slots
<1>3. Free = r + 1 .. Rate
  BY <1>1, <1>2 DEF Free
<1>4. ASSUME r < Rate PROVE First(Free) = r + 1
  <2> DEFINE i == First(Free)
             Least(k) == k \in r + 1 .. Rate /\ \A j \in r + 1 .. Rate : k <= j
  <2>1. i = CHOOSE k \in r + 1 .. Rate : \A j \in r + 1 .. Rate : k <= j
    BY <1>3 DEF First
  <2>2. Least(r + 1)
    BY <1>1, <1>4
  <2>3. Least(i)
    BY <2>1, <2>2
  <2> HIDE DEF i
  <2> QED
    BY <1>1, <2>2, <2>3 DEF i
<1>5. Filled <=> r = Rate
  BY <1>1, <1>2, Rate \in 1 .. Rate DEF Filled
<1> QED
  BY <1>3, <1>4, <1>5

\* Permuting a full block into the state gives the state after that block.
LEMMA Permuted ==
    ASSUME NEW m, NEW b \in Nat
    PROVE  poseidon_sponge(StateOf(m)[b], Slots(m, b, Rate)) = StateOf(m)[b + 1]
<1> DEFINE st == StateOf(m)[b]
           sl == Slots(m, b, Rate)
<1>1. StateOf(m)[b + 1] = BlockStep(m, b, st)
  BY StateEquation
<1>2. ASSUME NEW i \in 1 .. Rate PROVE Some(sl[i]) = Element(m, b * Rate + i)
  <2>1. sl[i] = {Element(m, b * Rate + i)}
    BY DEF Slots
  <2> QED
    BY <2>1 DEF Some
<1> HIDE DEF st, sl
<1>3. [i \in 1 .. Rate + 1 |-> IF i <= Rate THEN Add(st[i], Some(sl[i])) ELSE st[i]]
        = [i \in 1 .. Rate + 1 |-> IF i <= Rate THEN Add(st[i], Element(m, b * Rate + i))
                                   ELSE st[i]]
  <2>1. \A i \in 1 .. Rate + 1 : i <= Rate => i \in 1 .. Rate
    BY SpongeAssumption
  <2> QED
    BY <1>2, <2>1
<1> QED
  BY <1>1, <1>3 DEF poseidon_sponge, BlockStep, st, sl

\* The invariant holds before the first element.
LEMMA InitSponge == SpongeInit => SpongeInv
<1> SUFFICES ASSUME SpongeInit PROVE SpongeInv
  OBVIOUS
<1>1. Rate \in Nat \ {0} /\ 0 \in Nat /\ 0 \in 0 .. Rate /\ 0 = 0 * Rate + 0
  BY SpongeAssumption
<1>2. slots = Slots(message, 0, 0)
  BY <1>1 DEF SpongeInit, Empty, Slots
<1>3. sponge_state = StateOf(message)[0]
  BY StateEquation DEF SpongeInit
<1>4. AtBlock(0, 0)
  BY <1>1, <1>2, <1>3 DEF AtBlock, SpongeInit
<1>5. message \in Messages /\ 0 <= Blocks(message) * Rate
  <2>1. message \in Messages
    BY DEF SpongeInit
  <2>2. Blocks(message) \in Nat
    BY <2>1, Padding
  <2> QED
    BY <1>1, <2>1, <2>2
<1>6. Absorbing
  BY <1>1, <1>4, <1>5 DEF Absorbing, SpongeInit
<1> QED
  BY <1>5, <1>6 DEF SpongeInv, SpongeInit

\* absorb puts the next element in its slot; a full block goes into the state first.
LEMMA AbsorbSponge == SpongeInv /\ absorb => SpongeInv'
<1> SUFFICES ASSUME SpongeInv, absorb PROVE SpongeInv'
  OBVIOUS
<1> DEFINE value == Padded(message)[absorbed + 1]
<1>1. /\ mode = "absorbing" /\ mode' = mode /\ message' = message /\ output' = output
      /\ absorbed < Len(Padded(message)) /\ absorbed' = absorbed + 1
      /\ \/ Free # {} /\ slots' = [slots EXCEPT ![First(Free)] = {value}] /\ sponge_state' = sponge_state
         \/ /\ Free = {} /\ sponge_state' = poseidon_sponge(sponge_state, slots)
            /\ slots' = [Empty EXCEPT ![1] = {value}]
  BY DEF absorb
<1>2. message \in Messages /\ output = {}
  BY <1>1 DEF SpongeInv, Absorbing
<1>3. PICK b \in Nat, r \in 0 .. Rate : AtBlock(b, r)
  BY <1>1 DEF SpongeInv, Absorbing
<1>4. Rate \in Nat \ {0} /\ r \in Nat /\ r <= Rate /\ b * Rate \in Nat
  BY SpongeAssumption
<1>5. /\ absorbed = b * Rate + r /\ (b = 0 \/ r > 0)
      /\ sponge_state = StateOf(message)[b] /\ slots = Slots(message, b, r)
  BY <1>3 DEF AtBlock
<1>6. value = Element(message, absorbed + 1) /\ absorbed' <= Blocks(message) * Rate
  <2>1. /\ Len(Padded(message)) = Blocks(message) * Rate /\ Blocks(message) * Rate \in Nat
        /\ \A i \in 1 .. Blocks(message) * Rate : Padded(message)[i] = Element(message, i)
    BY <1>2, <1>4, Padding
  <2>2. absorbed + 1 \in 1 .. Blocks(message) * Rate
    BY <1>1, <1>4, <1>5, <2>1
  <2> QED
    BY <1>1, <2>1, <2>2
<1> HIDE DEF value
<1>7. \E c \in Nat, q \in 0 .. Rate : AtBlock(c, q)'
  <2>1. CASE r < Rate
    <3>1. Free # {} /\ First(Free) = r + 1
      <4>1. Free = r + 1 .. Rate /\ First(Free) = r + 1
        BY <1>5, <2>1, FreeSlots
      <4>2. r + 1 \in r + 1 .. Rate
        BY <1>4, <2>1
      <4> QED
        BY <4>1, <4>2
    <3>2. slots' = [slots EXCEPT ![r + 1] = {value}] /\ sponge_state' = sponge_state
      BY <1>1, <3>1
    <3>3. absorbed' = b * Rate + (r + 1) /\ r + 1 \in 0 .. Rate /\ r + 1 > 0
      BY <1>1, <1>4, <1>5, <2>1
    <3>4. slots' = Slots(message, b, r + 1)
      <4>1. value = Element(message, b * Rate + (r + 1))
        BY <1>1, <1>6, <3>3
      <4>2. \A i \in 1 .. Rate : i <= r + 1 <=> i <= r \/ i = r + 1
        BY <1>4
      <4> QED
        BY <1>5, <3>2, <4>1, <4>2 DEF Slots
    <3>5. AtBlock(b, r + 1)'
      BY <1>1, <1>5, <3>2, <3>3, <3>4 DEF AtBlock
    <3> QED
      BY <3>3, <3>5
  <2>2. CASE r = Rate
    <3>1. Free = {}
      BY <1>4, <1>5, <2>2, FreeSlots
    <3>2. sponge_state' = poseidon_sponge(sponge_state, slots) /\ slots' = [Empty EXCEPT ![1] = {value}]
      BY <1>1, <3>1
    <3>3. sponge_state' = StateOf(message)[b + 1]
      BY <1>5, <2>2, <3>2, Permuted
    <3>4. absorbed' = (b + 1) * Rate + 1 /\ b + 1 \in Nat /\ 1 \in 0 .. Rate
      <4>1. (b + 1) * Rate = b * Rate + Rate
        BY <1>4
      <4> QED
        BY <1>1, <1>4, <1>5, <2>2, <4>1
    <3>5. slots' = Slots(message, b + 1, 1)
      <4>1. value = Element(message, (b + 1) * Rate + 1)
        BY <1>1, <1>6, <3>4
      <4>2. \A i \in 1 .. Rate : i <= 1 <=> i = 1
        BY <1>4
      <4> QED
        BY <3>2, <4>1, <4>2 DEF Slots, Empty
    <3>6. AtBlock(b + 1, 1)'
      BY <1>1, <3>3, <3>4, <3>5 DEF AtBlock
    <3> QED
      BY <3>4, <3>6
  <2> QED
    BY <1>4, <2>1, <2>2
<1>8. Absorbing'
  BY <1>1, <1>2, <1>6, <1>7 DEF Absorbing
<1> QED
  BY <1>1, <1>2, <1>8 DEF SpongeInv

\* finish_absorbing permutes the last block, which is full, whatever the length.
LEMMA FinishSponge == SpongeInv /\ finish_absorbing => SpongeInv'
<1> SUFFICES ASSUME SpongeInv, finish_absorbing PROVE SpongeInv'
  OBVIOUS
<1> DEFINE K == Blocks(message)
<1>1. mode = "absorbing" /\ message \in Messages /\ output = {}
  BY DEF finish_absorbing, SpongeInv, Absorbing
<1>2. PICK b \in Nat, r \in 0 .. Rate : AtBlock(b, r)
  BY <1>1 DEF SpongeInv, Absorbing
<1>3. /\ absorbed = b * Rate + r /\ (b = 0 \/ r > 0)
      /\ sponge_state = StateOf(message)[b] /\ slots = Slots(message, b, r)
  BY <1>2 DEF AtBlock
<1>4. K \in Nat /\ K >= 1 /\ absorbed = K * Rate
  BY <1>1, Padding DEF finish_absorbing
<1> HIDE DEF K
<1>5. r = Rate /\ b + 1 = K
  <2>1. Rate \in Nat \ {0} /\ r \in Nat /\ r <= Rate
    BY SpongeAssumption
  <2>2. K * Rate = (K - 1) * Rate + Rate /\ K * Rate > 0
    BY <1>4, <2>1
  <2>3. r > 0
    BY <1>3, <1>4, <2>1, <2>2
  <2>4. b * Rate + (r - 1) = (K - 1) * Rate + (Rate - 1)
    BY <1>3, <1>4, <2>1, <2>2
  <2>5. K - 1 \in Nat /\ r - 1 \in 0 .. Rate - 1 /\ Rate - 1 \in 0 .. Rate - 1
    BY <1>4, <2>1, <2>3
  <2> DEFINE c == K - 1
             p == r - 1
             q == Rate - 1
  <2>6. /\ b \in Nat /\ c \in Nat /\ p \in 0 .. q /\ q \in 0 .. q
        /\ b * Rate + p = c * Rate + q
    BY <2>4, <2>5
  <2>7. q = Rate - 1 /\ c = K - 1 /\ p = r - 1
    OBVIOUS
  <2> HIDE DEF c, p, q
  <2>8. p \in 0 .. Rate - 1 /\ q \in 0 .. Rate - 1
    BY <2>6, <2>7
  <2>9. b = c /\ p = q
    BY <2>1, <2>6, <2>8, BlockRec!Divided
  <2> QED
    BY <1>4, <2>1, <2>7, <2>9
<1>6. Filled
  BY <1>3, <1>5, FreeSlots
<1>7. poseidon_sponge(sponge_state, slots) = StateOf(message)[K]
  BY <1>3, <1>5, Permuted
<1>8. /\ sponge_state' = poseidon_sponge(sponge_state, slots) /\ slots' = [i \in 1 .. Rate |-> {sponge_state'[i]}]
      /\ mode' = "squeezing" /\ UNCHANGED <<message, absorbed, output>>
  BY <1>6 DEF finish_absorbing
<1>9. Squeezing'
  BY <1>1, <1>7, <1>8 DEF Squeezing, K
<1> QED
  BY <1>1, <1>4, <1>8, <1>9 DEF SpongeInv, K

\* squeeze takes the first element of the state.
LEMMA SqueezeSponge == SpongeInv /\ squeeze => SpongeInv'
<1> SUFFICES ASSUME SpongeInv, squeeze PROVE SpongeInv'
  OBVIOUS
<1> DEFINE st == StateOf(message)[Blocks(message)]
           i == First((1 .. Rate) \ Free)
<1>1. /\ mode = "squeezing" /\ mode' = "done" /\ output' = slots[i]
      /\ UNCHANGED <<message, absorbed, sponge_state>>
  BY DEF squeeze
<1>2. slots = [j \in 1 .. Rate |-> {st[j]}]
  BY <1>1 DEF SpongeInv, Squeezing
<1>3. i = 1
  <2>1. 1 \in 1 .. Rate /\ \A j \in 1 .. Rate : 1 <= j
    BY SpongeAssumption
  <2>2. Free = {}
    BY <1>2 DEF Free
  <2>3. i = CHOOSE k \in 1 .. Rate : \A j \in 1 .. Rate : k <= j
    BY <2>2 DEF First
  <2> HIDE DEF i
  <2>4. i \in 1 .. Rate /\ \A j \in 1 .. Rate : i <= j
    BY <2>1, <2>3
  <2> QED
    BY <2>1, <2>4
<1> HIDE DEF i
<1>4. output' = {st[1]}
  BY <1>1, <1>2, <1>3, SpongeAssumption
<1>5. output' = {HashOf(message')}
  BY <1>1, <1>4 DEF HashOf
<1> QED
  BY <1>1, <1>5 DEF SpongeInv

\* The inductive invariant holds in every reachable state.
LEMMA SpongeInvariant == SpongeSpec => []SpongeInv
<1>1. SpongeInit => SpongeInv
  BY InitSponge
<1>2. SpongeInv /\ [SpongeNext]_sponge_vars => SpongeInv'
  <2> SUFFICES ASSUME SpongeInv, [SpongeNext]_sponge_vars PROVE SpongeInv'
    OBVIOUS
  <2>1. CASE absorb
    BY <2>1, AbsorbSponge
  <2>2. CASE finish_absorbing
    BY <2>2, FinishSponge
  <2>3. CASE squeeze
    BY <2>3, SqueezeSponge
  <2>4. CASE UNCHANGED sponge_vars
    BY <2>4 DEF sponge_vars, SpongeInv, Absorbing, AtBlock, Squeezing
  <2> QED
    BY <2>1, <2>2, <2>3, <2>4 DEF SpongeNext
<1> QED
  BY <1>1, <1>2, PTL DEF SpongeSpec

-----------------------------------------------------------------------------
(* Theorems.                                                               *)

\* absorb, finish_absorbing and squeeze never find a slot that is None where they
\* take an element from it, and the slots are emptied only for the next element.
THEOREM SpongeTypeCorrect == SpongeSpec => []SpongeTypeOK
<1>1. SpongeInv => SpongeTypeOK
  <2> SUFFICES ASSUME SpongeInv PROVE SpongeTypeOK
    OBVIOUS
  <2>1. /\ message \in Messages /\ Blocks(message) \in Nat /\ Rate \in Nat \ {0}
        /\ Len(Padded(message)) = Blocks(message) * Rate
    BY Padding, SpongeAssumption DEF SpongeInv
  <2>2. absorbed \in 0 .. Len(Padded(message))
    <3>1. CASE mode = "absorbing"
      <4>1. PICK b \in Nat, r \in 0 .. Rate : AtBlock(b, r)
        BY <3>1 DEF SpongeInv, Absorbing
      <4>2. absorbed \in Nat /\ absorbed <= Blocks(message) * Rate
        BY <2>1, <3>1, <4>1 DEF AtBlock, SpongeInv, Absorbing
      <4> QED
        BY <2>1, <4>2
    <3>2. CASE mode # "absorbing"
      BY <2>1, <3>2 DEF SpongeInv
    <3> QED
      BY <3>1, <3>2
  <2>3. ASSUME mode = "absorbing", absorbed > 0
        PROVE  Free = (IF absorbed % Rate = 0 THEN {} ELSE (absorbed % Rate) + 1 .. Rate)
    <3>1. PICK b \in Nat, r \in 0 .. Rate : AtBlock(b, r)
      BY <2>3 DEF SpongeInv, Absorbing
    <3>2. absorbed = b * Rate + r /\ (b = 0 \/ r > 0) /\ slots = Slots(message, b, r)
      BY <3>1 DEF AtBlock
    <3>3. Free = r + 1 .. Rate
      BY <3>2, FreeSlots
    <3>4. r > 0
      BY <2>1, <2>3, <3>2
    <3>5. CASE r = Rate
      <4>1. absorbed = (b + 1) * Rate + 0 /\ b + 1 \in Nat /\ 0 \in 0 .. Rate - 1
        BY <2>1, <3>2, <3>5
      <4>2. absorbed % Rate = 0
        BY <2>1, <4>1, BlockRec!Remainder
      <4>3. r + 1 .. Rate = {}
        BY <2>1, <3>5
      <4> QED
        BY <3>3, <4>2, <4>3
    <3>6. CASE r # Rate
      <4>1. r \in 0 .. Rate - 1
        BY <2>1, <3>6
      <4>2. absorbed % Rate = r
        BY <2>1, <3>2, <4>1, BlockRec!Remainder
      <4> QED
        BY <3>3, <3>4, <4>2
    <3> QED
      BY <3>5, <3>6
  <2> QED
    BY <2>1, <2>2, <2>3 DEF SpongeTypeOK, SpongeInv
<1> QED
  BY <1>1, SpongeInvariant, PTL

\* Hash::hash of a message, absorbed element by element, is the hash of its blocks,
\* for every length: multiples of the rate, lengths between them and one element.
THEOREM HashIsOfBlocks == SpongeSpec => []HashOfBlocks
<1>1. SpongeInv => HashOfBlocks
  BY DEF SpongeInv, HashOfBlocks, Absorbing, Squeezing
<1> QED
  BY <1>1, SpongeInvariant, PTL

\* A block is added to the state and permuted.
LEMMA StatePermuted ==
    ASSUME NEW m, NEW k \in Nat, k >= 1
    PROVE  /\ StateOf(m)[k] = Permute(Permutand(m, k))
           /\ Permutand(m, k)[Rate + 1] = StateOf(m)[k - 1][Rate + 1]
           /\ \A i \in 1 .. Rate : Permutand(m, k)[i]
                = Add(StateOf(m)[k - 1][i], Element(m, (k - 1) * Rate + i))
<1>1. k - 1 \in Nat /\ k = (k - 1) + 1
  OBVIOUS
<1>2. StateOf(m)[k] = BlockStep(m, k - 1, StateOf(m)[k - 1])
  BY <1>1, StateEquation
<1>3. Rate + 1 \in 1 .. Rate + 1 /\ ~(Rate + 1 <= Rate) /\ 1 .. Rate \subseteq 1 .. Rate + 1
  BY SpongeAssumption
<1>4. BlockStep(m, k - 1, StateOf(m)[k - 1]) = Permute(Permutand(m, k))
  BY DEF BlockStep, Permutand
<1>5. /\ Permutand(m, k)[Rate + 1] = StateOf(m)[k - 1][Rate + 1]
      /\ \A i \in 1 .. Rate : Permutand(m, k)[i]
           = Add(StateOf(m)[k - 1][i], Element(m, (k - 1) * Rate + i))
  <2> DEFINE st == StateOf(m)[k - 1]
             e(i) == Element(m, (k - 1) * Rate + i)
  <2>1. Permutand(m, k) = [i \in 1 .. Rate + 1 |-> IF i <= Rate THEN Add(st[i], e(i)) ELSE st[i]]
    BY DEF Permutand
  <2> HIDE DEF st, e
  <2>2. Permutand(m, k)[Rate + 1] = st[Rate + 1]
    BY <1>3, <2>1
  <2>3. ASSUME NEW i \in 1 .. Rate PROVE Permutand(m, k)[i] = Add(st[i], e(i))
    <3>1. i \in 1 .. Rate + 1 /\ i <= Rate
      BY SpongeAssumption
    <3> QED
      BY <2>1, <3>1
  <2> QED
    BY <2>2, <2>3 DEF st, e
<1> QED
  BY <1>2, <1>4, <1>5

\* Messages with the same hash of which the hashes permute no collision are the
\* same: their last permutands are, and every permutand gives the one before.
LEMMA HashSeparates ==
    ASSUME NEW m \in Messages, NEW n \in Messages, FieldLaws, ~Collision(m, n),
           HashOf(m) = HashOf(n)
    PROVE  m = n
<1> DEFINE K == Blocks(m)
           L == Blocks(n)
           P(k) == Permutand(m, k)
           Q(k) == Permutand(n, k)
           R == Rate + 1
           S == {d \in Nat : d < K /\ d < L => P(K - d) = Q(L - d)}
<1>1. /\ K \in Nat /\ K >= 1 /\ L \in Nat /\ L >= 1
      /\ Len(m) \in 1 .. MaxLength /\ m \in [1 .. Len(m) -> Fr]
      /\ Len(n) \in 1 .. MaxLength /\ n \in [1 .. Len(n) -> Fr]
  <2>1. ASSUME NEW o \in Messages PROVE Len(o) \in 1 .. MaxLength /\ o \in [1 .. Len(o) -> Fr]
    <3>1. PICK l \in 1 .. MaxLength : o \in [1 .. l -> Fr]
      BY DEF Messages
    <3>2. l \in Nat
      BY SpongeAssumption
    <3> QED
      BY <3>1, <3>2
  <2> QED
    BY <2>1, Padding
<1> HIDE DEF K, L
<1>2. ASSUME NEW k \in 1 .. K, NEW l \in 1 .. L
      PROVE  /\ Permute(P(k))[1] = Permute(Q(l))[1] => P(k) = Q(l)
             /\ Permute(P(k))[R] = Permute(Q(l))[R] => P(k) = Q(l)
             /\ Permute(P(k))[R] # Capacity(Len(n))
             /\ Permute(Q(l))[R] # Capacity(Len(m))
  BY DEF Collision, K, L
<1>3. /\ \A k \in 1 .. K : StateOf(m)[k] = Permute(P(k)) /\ P(k)[R] = StateOf(m)[k - 1][R]
      /\ \A k \in 1 .. L : StateOf(n)[k] = Permute(Q(k)) /\ Q(k)[R] = StateOf(n)[k - 1][R]
  BY <1>1, StatePermuted
<1>4. StateOf(m)[0][R] = Capacity(Len(m)) /\ StateOf(n)[0][R] = Capacity(Len(n))
  <2>1. \A o : StateOf(o)[0][R] = Capacity(Len(o))
    <3>1. Rate + 1 \in 1 .. Rate + 1
      BY SpongeAssumption
    <3> QED
      BY <3>1, StateEquation DEF InitialState, initial_capacity_element
  <2> QED
    BY <2>1
<1>5. 0 \in S
  <2>1. Permute(P(K))[1] = Permute(Q(L))[1] /\ K \in 1 .. K /\ L \in 1 .. L
    BY <1>1, <1>3 DEF HashOf, K, L
  <2>2. P(K) = Q(L)
    BY <1>2, <2>1
  <2> HIDE DEF P, Q
  <2> QED
    BY <1>1, <2>2, K - 0 = K, L - 0 = L
<1> HIDE DEF P, Q, R
<1>6. ASSUME NEW d \in Nat, d \in S PROVE d + 1 \in S
  <2> SUFFICES ASSUME d + 1 < K, d + 1 < L PROVE P(K - (d + 1)) = Q(L - (d + 1))
    OBVIOUS
  <2> DEFINE k == K - (d + 1)
             l == L - (d + 1)
  <2>1. /\ k \in 1 .. K /\ l \in 1 .. L /\ k + 1 \in 1 .. K /\ l + 1 \in 1 .. L
        /\ K - d = k + 1 /\ L - d = l + 1 /\ (k + 1) - 1 = k /\ (l + 1) - 1 = l
        /\ d < K /\ d < L
    BY <1>1
  <2>2. P(k + 1) = Q(l + 1)
    BY <1>6, <2>1
  <2> HIDE DEF k, l
  <2>3. StateOf(m)[k][R] = StateOf(n)[l][R]
    BY <1>3, <2>1, <2>2
  <2>4. Permute(P(k))[R] = Permute(Q(l))[R]
    BY <1>3, <2>1, <2>3
  <2>5. P(k) = Q(l)
    BY <1>2, <2>1, <2>4
  <2> QED
    BY <2>5 DEF k, l
<1> HIDE DEF S
<1>7. \A d \in Nat : d \in S
  BY <1>5, <1>6, BlockRec!SetInduction
<1>8. K = L
  <2>1. ASSUME K < L PROVE FALSE
    <3>1. /\ P(1) = Q(L - K + 1) /\ 1 \in 1 .. K /\ 1 - 1 = 0
          /\ L - K + 1 \in 1 .. L /\ L - K \in 1 .. L /\ (L - K + 1) - 1 = L - K
      <4>1. K - 1 \in Nat /\ K - 1 < K /\ K - 1 < L /\ K - (K - 1) = 1 /\ L - (K - 1) = L - K + 1
        BY <1>1, <2>1
      <4>2. P(K - (K - 1)) = Q(L - (K - 1))
        BY <1>7, <4>1 DEF S
      <4> QED
        BY <1>1, <2>1, <4>1, <4>2
    <3>2. Capacity(Len(m)) = Permute(Q(L - K))[R]
      BY <1>3, <1>4, <3>1
    <3> QED
      BY <1>2, <3>1, <3>2
  <2>2. ASSUME L < K PROVE FALSE
    <3>1. /\ P(K - L + 1) = Q(1) /\ 1 \in 1 .. L /\ 1 - 1 = 0
          /\ K - L + 1 \in 1 .. K /\ K - L \in 1 .. K /\ (K - L + 1) - 1 = K - L
      <4>1. L - 1 \in Nat /\ L - 1 < K /\ L - 1 < L /\ L - (L - 1) = 1 /\ K - (L - 1) = K - L + 1
        BY <1>1, <2>2
      <4>2. P(K - (L - 1)) = Q(L - (L - 1))
        BY <1>7, <4>1 DEF S
      <4> QED
        BY <1>1, <2>2, <4>1, <4>2
    <3>2. Capacity(Len(n)) = Permute(P(K - L))[R]
      BY <1>3, <1>4, <3>1
    <3> QED
      BY <1>2, <3>1, <3>2
  <2> QED
    BY <1>1, <2>1, <2>2
<1>9. \A k \in 1 .. K : P(k) = Q(k)
  <2> TAKE k \in 1 .. K
  <2>1. K - k \in Nat /\ K - k < K /\ K - (K - k) = k
    BY <1>1
  <2> QED
    BY <1>7, <1>8, <2>1 DEF S
<1>10. Len(m) = Len(n)
  <2>1. 1 \in 1 .. K /\ 1 - 1 = 0
    BY <1>1
  <2>2. Capacity(Len(m)) = Capacity(Len(n))
    BY <1>3, <1>4, <1>8, <1>9, <2>1
  <2> QED
    BY <1>1, <2>2 DEF FieldLaws
<1>11. \A k \in 0 .. K - 1 : StateOf(m)[k] = StateOf(n)[k]
  <2> TAKE k \in 0 .. K - 1
  <2>1. CASE k = 0
    BY <1>10, <2>1, StateEquation
  <2>2. CASE k # 0
    <3>1. k \in 1 .. K
      BY <1>1, <2>2
    <3> QED
      BY <1>3, <1>8, <1>9, <3>1
  <2> QED
    BY <2>1, <2>2
<1>12. ASSUME NEW k \in 0 .. K - 1, NEW i \in 1 .. Rate
       PROVE  Element(m, k * Rate + i) = Element(n, k * Rate + i)
  <2> DEFINE j == k * Rate + i
             x == Element(m, j)
             y == Element(n, j)
             a == StateOf(m)[k][i]
  <2>1. k + 1 \in Nat /\ k + 1 >= 1 /\ (k + 1) - 1 = k /\ k + 1 \in 1 .. K
    BY <1>1
  <2>2. j \in Nat /\ j >= 1
    <3>1. k * Rate \in Nat /\ i \in Nat /\ i >= 1
      BY <1>1, SpongeAssumption
    <3> QED
      BY <3>1
  <2>3. P(k + 1)[i] = Add(StateOf(m)[k][i], x) /\ Q(k + 1)[i] = Add(StateOf(n)[k][i], y)
    <3>1. /\ Permutand(m, k + 1)[i]
               = Add(StateOf(m)[(k + 1) - 1][i], Element(m, ((k + 1) - 1) * Rate + i))
          /\ Permutand(n, k + 1)[i]
               = Add(StateOf(n)[(k + 1) - 1][i], Element(n, ((k + 1) - 1) * Rate + i))
      BY <2>1, StatePermuted, Zenon
    <3> QED
      BY <2>1, <3>1 DEF P, Q
  <2> HIDE DEF j
  <2>4. x \in Fr /\ y \in Fr
    BY <1>1, <2>2, SpongeAssumption DEF Element
  <2>5. Add(a, x) = Add(a, y)
    BY <1>9, <1>11, <2>1, <2>3
  <2> HIDE DEF x, y
  <2> QED
    BY <2>4, <2>5 DEF FieldLaws, K, x, y, j
<1>13. ASSUME NEW j \in 1 .. Len(m) PROVE m[j] = n[j]
  <2> DEFINE q == (j - 1) \div Rate
             r == (j - 1) % Rate
  <2>1. Rate \in Nat \ {0} /\ j - 1 \in Nat /\ j \in Int
    BY <1>1, SpongeAssumption
  <2>2. q \in Int /\ r \in 0 .. Rate - 1 /\ j - 1 = Rate * q + r
    <3> DEFINE x == j - 1
    <3>1. x \in Int /\ x \in Nat
      BY <2>1
    <3>2. q = x \div Rate /\ r = x % Rate
      OBVIOUS
    <3> HIDE DEF x, q, r
    <3>3. q \in Int /\ r \in 0 .. Rate - 1 /\ x = Rate * q + r
      BY <2>1, <3>1, <3>2, BlockRec!ModEquation
    <3> QED
      BY <3>3 DEF x
  <2>3. j <= K * Rate
    BY <1>1, Padding DEF K
  <2> HIDE DEF q, r
  <2>4. q \in 0 .. K - 1
    <3>1. Rate * q <= j - 1 /\ j - 1 < Rate * q + Rate /\ K * Rate = Rate * K /\ Rate * K \in Nat
      BY <1>1, <2>1, <2>2
    <3>2. q < K
      <4> SUFFICES ASSUME q >= K PROVE FALSE
        BY <1>1, <2>2
      <4>1. PICK c \in Nat : q = K + c
        BY <1>1, <2>2, q - K \in Nat
      <4>2. Rate * q = Rate * K + Rate * c /\ Rate * c >= 0
        BY <1>1, <2>1, <4>1
      <4> QED
        BY <2>1, <2>3, <3>1, <4>2
    <3>3. q >= 0
      <4> SUFFICES ASSUME q < 0 PROVE FALSE
        BY <2>2
      <4>1. PICK c \in Nat : q = - 1 - c
        BY <2>2, - 1 - q \in Nat
      <4>2. Rate * q = - Rate - Rate * c /\ Rate * c >= 0
        BY <2>1, <4>1
      <4> QED
        BY <2>1, <3>1, <4>2
    <3> QED
      BY <1>1, <2>2, <3>2, <3>3
  <2>5. r + 1 \in 1 .. Rate /\ j = q * Rate + (r + 1)
    BY <2>1, <2>2
  <2>6. Element(m, j) = Element(n, j)
    BY <1>12, <2>4, <2>5
  <2> QED
    BY <1>1, <1>10, <2>6 DEF Element
<1> QED
  BY <1>1, <1>10, <1>13

\* Whatever the permutation: a hash two messages share, of one length or of two,
\* comes with a collision among the states their hashes permute.
THEOREM HashCollisionIsOfPermutation ==
    ASSUME FieldLaws
    PROVE  SpongeSpec => [](output # {} =>
                        \A m \in Messages :
                            output = {HashOf(m)} => m = message \/ Collision(m, message))
<1> DEFINE Reduced == output # {} =>
                        \A m \in Messages :
                            output = {HashOf(m)} => m = message \/ Collision(m, message)
<1>1. SpongeInv => Reduced
  <2> SUFFICES ASSUME SpongeInv, output # {}, NEW m \in Messages, output = {HashOf(m)},
                      ~Collision(m, message)
               PROVE  m = message
    OBVIOUS
  <2>1. message \in Messages /\ output = {HashOf(message)}
    BY DEF SpongeInv, Absorbing, Squeezing
  <2>2. HashOf(m) = HashOf(message)
    BY <2>1
  <2> QED
    BY <2>1, <2>2, HashSeparates
<1> QED
  BY <1>1, SpongeInvariant, PTL

-----------------------------------------------------------------------------
(* Grain, for elements of every width, every modulus, every seed and any   *)
(* number of elements.                                                     *)

Bit == {0, 1}

\* One turn of the three recursive definitions: b, c and s are their arguments,
\* n is how far they are.
ValueStep(b, n, prev) == 2 * prev + b[n + 1]

ShrinkStep(c, n, prev) ==
    IF c[2 * (n + 1) - 1] = 1 THEN Append(prev, c[2 * (n + 1)]) ELSE prev

GroupStep(s, n, prev) ==
    LET v == ValueOf(SubSeq(s, n * NumBits + 1, (n + 1) * NumBits))
    IN  IF v >= Modulus /\ Len(prev) < Constants THEN prev ELSE Append(prev, v % Modulus)

ValueRec == INSTANCE NatRecursion WITH Step <- ValueStep
ShrinkRec == INSTANCE NatRecursion WITH Step <- ShrinkStep
GroupRec == INSTANCE NatRecursion WITH Step <- GroupStep

-----------------------------------------------------------------------------
(* What the recursive definitions compute, as equations.                   *)

\* The value of bits is a number.
LEMMA ValueType ==
    ASSUME NEW b \in Seq(Bit)
    PROVE  ValueOf(b) \in Nat
<1> DEFINE n == Len(b)
           R == ValueRec!Rec(b, 0)
           Eq(V) == V = [i \in 0 .. n |-> IF i = 0 THEN 0 ELSE 2 * V[i - 1] + b[i]]
           A == CHOOSE V : Eq(V)
<1>1. n \in Nat
  OBVIOUS
<1>2. ValueOf(b) = A[n]
  BY DEF ValueOf
<1>3. ASSUME NEW V PROVE Eq(V) <=> ValueRec!Approx(b, 0, V, n)
  <2> DEFINE f == [i \in 0 .. n |-> IF i = 0 THEN 0 ELSE 2 * V[i - 1] + b[i]]
             g == [i \in 0 .. n |-> IF i = 0 THEN 0 ELSE ValueStep(b, i - 1, V[i - 1])]
  <2>1. \A i \in 0 .. n : f[i] = g[i]
    BY <1>1 DEF ValueStep
  <2>2. f = g
    BY <2>1
  <2> HIDE DEF f, g
  <2>3. Eq(V) <=> V = f
    BY DEF f
  <2>4. ValueRec!Approx(b, 0, V, n) <=> V = g
    BY DEF g, ValueRec!Approx
  <2> QED
    BY <2>2, <2>3, <2>4
<1> HIDE DEF Eq, n
<1>4. Eq(A)
  <2>1. \E V : Eq(V)
    BY <1>1, <1>3, ValueRec!ApproxExists
  <2> QED
    BY <2>1
<1> HIDE DEF A
<1>5. A[n] = R[n]
  BY <1>1, <1>3, <1>4, ValueRec!ApproxIsRec, n \in 0 .. n
<1> DEFINE S == {k \in Nat : k <= n => R[k] \in Nat}
<1>6. R = [k \in Nat |-> IF k = 0 THEN 0 ELSE ValueStep(b, k - 1, R[k - 1])]
  BY ValueRec!RecEquation
<1> HIDE DEF R
<1>7. 0 \in S
  BY <1>6
<1>8. ASSUME NEW k \in Nat, k \in S PROVE k + 1 \in S
  <2> SUFFICES ASSUME k + 1 <= n PROVE R[k + 1] \in Nat
    OBVIOUS
  <2>1. k + 1 \in Nat /\ k + 1 # 0 /\ (k + 1) - 1 = k
    OBVIOUS
  <2>2. R[k] \in Nat
    BY <1>1, <1>8
  <2>3. R[k + 1] = 2 * R[k] + b[k + 1]
    BY <1>6, <2>1 DEF ValueStep
  <2>4. b[k + 1] \in Nat
    BY <1>1 DEF n, Bit
  <2> QED
    BY <2>2, <2>3, <2>4
<1> HIDE DEF S
<1>9. \A k \in Nat : k \in S
  BY <1>7, <1>8, ValueRec!SetInduction
<1> QED
  BY <1>1, <1>2, <1>5, <1>9 DEF S

ShrunkAt(c) == ShrinkRec!Rec(c, << >>)

\* Shrinking, pair by pair.
LEMMA ShrinkEquation ==
    ASSUME NEW c
    PROVE  /\ ShrunkAt(c)[0] = << >>
           /\ \A k \in Nat : ShrunkAt(c)[k + 1] = ShrinkStep(c, k, ShrunkAt(c)[k])
<1> DEFINE R == ShrunkAt(c)
<1>1. R = [k \in Nat |-> IF k = 0 THEN << >> ELSE ShrinkStep(c, k - 1, R[k - 1])]
  BY ShrinkRec!RecEquation DEF ShrunkAt
<1> HIDE DEF R
<1>2. ASSUME NEW k \in Nat PROVE R[k + 1] = ShrinkStep(c, k, R[k])
  <2>1. k + 1 \in Nat /\ k + 1 # 0 /\ (k + 1) - 1 = k
    OBVIOUS
  <2> QED
    BY <1>1, <2>1
<1>3. R[0] = << >>
  BY <1>1
<1> QED
  BY <1>2, <1>3 DEF R

\* The reference's shrunk stream is given by that equation.
LEMMA ShrunkIsRec ==
    ASSUME NEW c, NEW n \in Nat, Len(c) \div 2 = n
    PROVE  ShrunkOf(c) = ShrunkAt(c)[n]
<1> DEFINE Eq(S) == S = [k \in 0 .. n |->
                           IF k = 0 THEN << >>
                           ELSE IF c[2 * k - 1] = 1 THEN Append(S[k - 1], c[2 * k])
                                ELSE S[k - 1]]
           A == CHOOSE S : Eq(S)
<1>1. ShrunkOf(c) = A[n]
  BY DEF ShrunkOf
<1>2. ASSUME NEW S PROVE Eq(S) <=> ShrinkRec!Approx(c, << >>, S, n)
  <2> DEFINE f == [k \in 0 .. n |->
                     IF k = 0 THEN << >>
                     ELSE IF c[2 * k - 1] = 1 THEN Append(S[k - 1], c[2 * k]) ELSE S[k - 1]]
             g == [k \in 0 .. n |->
                     IF k = 0 THEN << >> ELSE ShrinkStep(c, k - 1, S[k - 1])]
  <2>1. ASSUME NEW k \in 0 .. n PROVE f[k] = g[k]
    <3>1. (k - 1) + 1 = k
      OBVIOUS
    <3> QED
      BY <3>1 DEF ShrinkStep
  <2>2. f = g
    BY <2>1
  <2> HIDE DEF f, g
  <2>3. Eq(S) <=> S = f
    BY DEF f
  <2>4. ShrinkRec!Approx(c, << >>, S, n) <=> S = g
    BY DEF g, ShrinkRec!Approx
  <2> QED
    BY <2>2, <2>3, <2>4
<1> HIDE DEF Eq
<1>3. Eq(A)
  <2>1. \E S : Eq(S)
    BY <1>2, ShrinkRec!ApproxExists
  <2> QED
    BY <2>1
<1> HIDE DEF A
<1>4. A[n] = ShrunkAt(c)[n]
  BY <1>2, <1>3, ShrinkRec!ApproxIsRec, n \in 0 .. n DEF ShrunkAt
<1> QED
  BY <1>1, <1>4

\* Shrinking leaves bits.
LEMMA ShrinkType ==
    ASSUME NEW c \in Seq(Bit)
    PROVE  \A k \in Nat : 2 * k <= Len(c) => ShrunkAt(c)[k] \in Seq(Bit)
<1> DEFINE R == ShrunkAt(c)
           S == {k \in Nat : 2 * k <= Len(c) => R[k] \in Seq(Bit)}
<1>1. R[0] = << >> /\ \A k \in Nat : R[k + 1] = ShrinkStep(c, k, R[k])
  BY ShrinkEquation
<1> HIDE DEF R
<1>2. 0 \in S
  <2>1. << >> \in Seq(Bit)
    OBVIOUS
  <2> QED
    BY <1>1, <2>1
<1>3. ASSUME NEW k \in Nat, k \in S PROVE k + 1 \in S
  <2> SUFFICES ASSUME 2 * (k + 1) <= Len(c) PROVE R[k + 1] \in Seq(Bit)
    OBVIOUS
  <2>1. R[k] \in Seq(Bit)
    BY <1>3
  <2>2. c[2 * (k + 1)] \in Bit
    BY 2 * (k + 1) \in 1 .. Len(c)
  <2>3. Append(R[k], c[2 * (k + 1)]) \in Seq(Bit)
    BY <2>1, <2>2
  <2> QED
    BY <1>1, <2>1, <2>3 DEF ShrinkStep
<1> HIDE DEF S
<1>4. \A k \in Nat : k \in S
  BY <1>2, <1>3, ShrinkRec!SetInduction
<1> QED
  BY <1>4 DEF S, R

\* The first pairs are shrunk the same whatever follows them.
LEMMA ShrinkSame ==
    ASSUME NEW c, NEW d, NEW n \in Nat, \A i \in 1 .. 2 * n : c[i] = d[i]
    PROVE  ShrunkAt(c)[n] = ShrunkAt(d)[n]
<1> DEFINE P == ShrunkAt(c)
           Q == ShrunkAt(d)
           S == {k \in Nat : k <= n => P[k] = Q[k]}
<1>1. /\ P[0] = << >> /\ \A k \in Nat : P[k + 1] = ShrinkStep(c, k, P[k])
      /\ Q[0] = << >> /\ \A k \in Nat : Q[k + 1] = ShrinkStep(d, k, Q[k])
  BY ShrinkEquation
<1> HIDE DEF P, Q
<1>2. 0 \in S
  BY <1>1
<1>3. ASSUME NEW k \in Nat, k \in S PROVE k + 1 \in S
  <2> SUFFICES ASSUME k + 1 <= n PROVE P[k + 1] = Q[k + 1]
    OBVIOUS
  <2>1. P[k] = Q[k]
    BY <1>3
  <2>2. 2 * (k + 1) - 1 \in 1 .. 2 * n /\ 2 * (k + 1) \in 1 .. 2 * n
    OBVIOUS
  <2>3. c[2 * (k + 1) - 1] = d[2 * (k + 1) - 1] /\ c[2 * (k + 1)] = d[2 * (k + 1)]
    BY <2>2
  <2> QED
    BY <1>1, <2>1, <2>3 DEF ShrinkStep
<1> HIDE DEF S
<1>4. \A k \in Nat : k \in S
  BY <1>2, <1>3, ShrinkRec!SetInduction
<1> QED
  BY <1>4 DEF S, P, Q

DrawnFrom(s) == GroupRec!Rec(s, << >>)

\* Drawing elements, group by group.
LEMMA GroupEquation ==
    ASSUME NEW s
    PROVE  /\ DrawnFrom(s)[0] = << >>
           /\ \A k \in Nat : DrawnFrom(s)[k + 1] = GroupStep(s, k, DrawnFrom(s)[k])
<1> DEFINE R == DrawnFrom(s)
<1>1. R = [k \in Nat |-> IF k = 0 THEN << >> ELSE GroupStep(s, k - 1, R[k - 1])]
  BY GroupRec!RecEquation DEF DrawnFrom
<1> HIDE DEF R
<1>2. ASSUME NEW k \in Nat PROVE R[k + 1] = GroupStep(s, k, R[k])
  <2>1. k + 1 \in Nat /\ k + 1 # 0 /\ (k + 1) - 1 = k
    OBVIOUS
  <2> QED
    BY <1>1, <2>1
<1>3. R[0] = << >>
  BY <1>1
<1> QED
  BY <1>2, <1>3 DEF R

\* The reference's elements are given by that equation.
LEMMA ElementsIsRec ==
    ASSUME NEW s, NEW n \in Nat
    PROVE  ElementsOf(s, n) = DrawnFrom(s)[n]
<1> DEFINE Turn(k, prev) ==
             LET v == ValueOf(SubSeq(s, (k - 1) * NumBits + 1, k * NumBits))
             IN  IF v >= Modulus /\ Len(prev) < Constants THEN prev
                 ELSE Append(prev, v % Modulus)
           Eq(E) == E = [k \in 0 .. n |-> IF k = 0 THEN << >> ELSE Turn(k, E[k - 1])]
           A == CHOOSE E : Eq(E)
<1>1. ElementsOf(s, n) = A[n]
  BY DEF ElementsOf
<1>2. ASSUME NEW E PROVE Eq(E) <=> GroupRec!Approx(s, << >>, E, n)
  <2> DEFINE f == [k \in 0 .. n |-> IF k = 0 THEN << >> ELSE Turn(k, E[k - 1])]
             g == [k \in 0 .. n |-> IF k = 0 THEN << >> ELSE GroupStep(s, k - 1, E[k - 1])]
  <2>1. ASSUME NEW k \in 0 .. n PROVE f[k] = g[k]
    <3>1. (k - 1) + 1 = k
      OBVIOUS
    <3>2. Turn(k, E[k - 1]) = GroupStep(s, k - 1, E[k - 1])
      BY <3>1 DEF GroupStep
    <3> HIDE DEF Turn
    <3> QED
      BY <3>2
  <2>2. f = g
    <3> HIDE DEF Turn
    <3> QED
      BY <2>1
  <2> HIDE DEF f, g
  <2>3. Eq(E) <=> E = f
    BY DEF f
  <2>4. GroupRec!Approx(s, << >>, E, n) <=> E = g
    BY DEF g, GroupRec!Approx
  <2> QED
    BY <2>2, <2>3, <2>4
<1> HIDE DEF Eq
<1>3. Eq(A)
  <2>1. \E E : Eq(E)
    BY <1>2, GroupRec!ApproxExists
  <2> QED
    BY <2>1
<1> HIDE DEF A
<1>4. A[n] = DrawnFrom(s)[n]
  BY <1>2, <1>3, GroupRec!ApproxIsRec, n \in 0 .. n DEF DrawnFrom
<1> QED
  BY <1>1, <1>4

\* The first groups give the same elements whatever follows them.
LEMMA GroupSame ==
    ASSUME NEW s, NEW t, NEW n \in Nat, \A i \in 1 .. n * NumBits : s[i] = t[i]
    PROVE  DrawnFrom(s)[n] = DrawnFrom(t)[n]
<1> DEFINE P == DrawnFrom(s)
           Q == DrawnFrom(t)
           S == {k \in Nat : k <= n => P[k] = Q[k]}
<1>1. /\ P[0] = << >> /\ \A k \in Nat : P[k + 1] = GroupStep(s, k, P[k])
      /\ Q[0] = << >> /\ \A k \in Nat : Q[k + 1] = GroupStep(t, k, Q[k])
  BY GroupEquation
<1> HIDE DEF P, Q
<1>2. 0 \in S
  BY <1>1
<1>3. ASSUME NEW k \in Nat, k \in S PROVE k + 1 \in S
  <2> SUFFICES ASSUME k + 1 <= n PROVE P[k + 1] = Q[k + 1]
    OBVIOUS
  <2> DEFINE a == k * NumBits
             b == (k + 1) * NumBits
             m == n * NumBits
  <2>1. P[k] = Q[k]
    BY <1>3
  <2>2. a \in Nat /\ b \in Nat /\ m \in Nat /\ b <= m
    <3>1. NumBits \in Nat
      BY GrainAssumption
    <3>2. n - (k + 1) \in Nat
      OBVIOUS
    <3>3. (n - (k + 1)) * NumBits \in Nat
      BY <3>1, <3>2
    <3>4. m = b + (n - (k + 1)) * NumBits
      BY <3>1
    <3>5. a \in Nat /\ b \in Nat /\ m \in Nat
      BY <3>1
    <3> HIDE DEF a, b, m
    <3> QED
      BY <3>3, <3>4, <3>5
  <2>3. \A i \in 1 .. m : s[i] = t[i]
    OBVIOUS
  <2>4. P[k + 1] = GroupStep(s, k, P[k]) /\ Q[k + 1] = GroupStep(t, k, Q[k])
    BY <1>1
  <2>5. SubSeq(s, a + 1, b) = SubSeq(t, a + 1, b)
    <3> HIDE DEF a, b, m
    <3>1. \A i \in 1 .. (1 + b) - (a + 1) : (i + (a + 1)) - 1 \in 1 .. m
      BY <2>2
    <3>2. \A i \in 1 .. (1 + b) - (a + 1) : s[(i + (a + 1)) - 1] = t[(i + (a + 1)) - 1]
      BY <2>3, <3>1
    <3> QED
      BY <2>2, <3>2
  <2> QED
    BY <2>1, <2>4, <2>5 DEF GroupStep
<1> HIDE DEF S
<1>4. \A k \in Nat : k \in S
  BY <1>2, <1>3, GroupRec!SetInduction
<1> QED
  BY <1>4 DEF S, P, Q

-----------------------------------------------------------------------------
(* The register.                                                           *)

\* The sequences of bits and the contents of a register, as sets of their own.
BitSeqs == Seq(Bit)
Registers == [Indices -> Bit]

\* A sequence of bits has a length, and bits.
LEMMA BitSeqType ==
    \A b \in BitSeqs : Len(b) \in Nat /\ \A i \in 1 .. Len(b) : b[i] \in Bit
BY DEF BitSeqs

\* The places in the register.
LEMMA IndexRange ==
    \A i : i \in Indices <=> i \in Int /\ 0 <= i /\ i <= 79
BY DEF Indices, StateBits

\* A tap is at most 62 places behind the bit that is made.
LEMMA TapRange ==
    \A t \in Taps : t \in Int /\ 0 <= t /\ t <= 62
BY DEF Taps

StreamOf(first, made) == [i \in 1 .. StateBits |-> first[i - 1]] \o made

Feedback(s, k) == Cardinality({t \in Taps : s[k + t] = 1}) % 2

\* The parity of the taps is a bit.
LEMMA ParityType ==
    ASSUME NEW S \in SUBSET Taps
    PROVE  Cardinality(S) % 2 \in Bit
<1>1. S \subseteq 0 .. 62
  BY TapRange
<1>2. IsFiniteSet(0 .. 62)
  BY FS_Interval, 0 \in Int, 62 \in Int
<1>3. IsFiniteSet(S)
  BY <1>1, <1>2, FS_Subset
<1>4. Cardinality(S) \in Nat
  BY <1>3, FS_CardinalityType
<1> QED
  BY <1>4 DEF Bit

\* A concatenation, part by part.
LEMMA ConcatParts ==
    ASSUME NEW h \in BitSeqs, NEW b \in BitSeqs
    PROVE  /\ h \o b \in BitSeqs /\ Len(h \o b) = Len(h) + Len(b)
           /\ \A i \in 1 .. Len(h) : (h \o b)[i] = h[i]
           /\ \A k \in 1 .. Len(b) : (h \o b)[Len(h) + k] = b[k]
<1>1. /\ h \o b \in BitSeqs /\ Len(h \o b) = Len(h) + Len(b)
      /\ \A i \in 1 .. Len(h) + Len(b) :
             (h \o b)[i] = IF i <= Len(h) THEN h[i] ELSE b[i - Len(h)]
  BY ConcatProperties DEF BitSeqs
<1>2. Len(h) \in Nat /\ Len(b) \in Nat
  BY BitSeqType
<1>3. ASSUME NEW i \in 1 .. Len(h) PROVE (h \o b)[i] = h[i]
  BY <1>1, <1>2
<1>4. ASSUME NEW k \in 1 .. Len(b) PROVE (h \o b)[Len(h) + k] = b[k]
  <2>1. /\ Len(h) + k \in 1 .. Len(h) + Len(b) /\ ~(Len(h) + k <= Len(h))
        /\ (Len(h) + k) - Len(h) = k
    BY <1>2
  <2> QED
    BY <1>1, <2>1
<1> QED
  BY <1>1, <1>3, <1>4

\* The bits of the stream: first the register, then those made since.
LEMMA StreamBits ==
    ASSUME NEW first \in Registers, NEW made \in BitSeqs
    PROVE  /\ \A i \in Indices : StreamOf(first, made)[i + 1] = first[i]
           /\ \A k \in 1 .. Len(made) : StreamOf(first, made)[StateBits + k] = made[k]
<1> DEFINE h == [i \in 1 .. StateBits |-> first[i - 1]]
<1>1. \A i \in 1 .. 80 : i - 1 \in Indices
  BY IndexRange DEF StateBits
<1>2. \A i \in 1 .. 80 : first[i - 1] \in Bit
  BY <1>1 DEF Registers
<1>3. h \in BitSeqs /\ Len(h) = 80 /\ \A i \in 1 .. 80 : h[i] = first[i - 1]
  BY <1>2 DEF StateBits, BitSeqs
<1>4. StreamOf(first, made) = h \o made
  BY DEF StreamOf
<1> DEFINE w == h \o made
<1> HIDE DEF h
<1>5. /\ \A i \in 1 .. Len(h) : w[i] = h[i]
      /\ \A k \in 1 .. Len(made) : w[Len(h) + k] = made[k]
  <2>1. h \in BitSeqs
    BY <1>3
  <2> QED
    BY <2>1, ConcatParts
<1> HIDE DEF w
<1>6. \A i \in Indices : StreamOf(first, made)[i + 1] = first[i]
  <2> TAKE i \in Indices
  <2>1. i + 1 \in 1 .. 80 /\ (i + 1) - 1 = i
    BY IndexRange DEF StateBits
  <2> DEFINE j == i + 1
  <2>2. j \in 1 .. 80 /\ j - 1 = i
    BY <2>1
  <2> HIDE DEF j
  <2>3. h[j] = first[i]
    BY <1>3, <2>2
  <2>4. w[j] = h[j]
    BY <1>3, <1>5, <2>2
  <2> QED
    BY <1>4, <2>3, <2>4 DEF w, j
<1> QED
  BY <1>3, <1>4, <1>5, <1>6 DEF StateBits, w

\* Bits made later change none of the stream.
LEMMA StreamGrows ==
    ASSUME NEW first \in Registers, NEW made \in BitSeqs, NEW more \in BitSeqs
    PROVE  \A i \in 1 .. StateBits + Len(made) :
               StreamOf(first, made \o more)[i] = StreamOf(first, made)[i]
<1> TAKE i \in 1 .. StateBits + Len(made)
<1>1. made \o more \in BitSeqs /\ Len(made \o more) = Len(made) + Len(more)
      /\ \A k \in 1 .. Len(made) : (made \o more)[k] = made[k]
  BY ConcatParts
<1>2. CASE i <= 80
  <2> DEFINE j == i - 1
  <2>1. j \in Indices /\ j + 1 = i
    BY <1>2, IndexRange DEF StateBits
  <2> HIDE DEF j
  <2> QED
    BY <1>1, <2>1, StreamBits
<1>3. CASE i > 80
  <2> DEFINE k == i - 80
  <2>1. k \in 1 .. Len(made) /\ StateBits + k = i
    BY <1>3 DEF StateBits
  <2> HIDE DEF k
  <2>2. k \in 1 .. Len(made \o more)
    BY <1>1, <2>1
  <2> QED
    BY <1>1, <2>1, <2>2, StreamBits
<1> QED
  BY <1>2, <1>3

\* The register is the window of the last StateBits bits of the stream, and every
\* bit made is the feedback of the bits before it.
Window(reg, first, made) ==
    \A i \in Indices : reg[i] = StreamOf(first, made)[Len(made) + i + 1]

Recurrence(first, made) ==
    \A k \in 1 .. Len(made) :
        StreamOf(first, made)[StateBits + k] = Feedback(StreamOf(first, made), k)

\* load_next_8_bits keeps both, when the register has been read to its end.
LEMMA Load ==
    ASSUME NEW first \in Registers, NEW made \in BitSeqs,
           NEW reg \in Registers, Window(reg, first, made), Recurrence(first, made)
    PROVE  /\ NewBits(reg) \in BitSeqs /\ Len(NewBits(reg)) = 8
           /\ Loaded(reg, StateBits - 8) \in Registers
           /\ Window(Loaded(reg, StateBits - 8), first, made \o NewBits(reg))
           /\ Recurrence(first, made \o NewBits(reg))
<1> DEFINE n == Len(made)
           more == NewBits(reg)
           all == made \o more
           s == StreamOf(first, made)
           z == StreamOf(first, all)
           new == Loaded(reg, StateBits - 8)
<1>1. \A i \in Int : NewBit(reg, i) \in Bit
  <2> TAKE i \in Int
  <2>1. {t \in Taps : reg[i + t] = 1} \in SUBSET Taps
    OBVIOUS
  <2> QED
    BY <2>1, ParityType DEF NewBit
<1>2. more \in BitSeqs /\ Len(more) = 8 /\ \A j \in 1 .. 8 : more[j] = NewBit(reg, j - 1)
  BY <1>1 DEF NewBits, BitSeqs
<1>3. n \in Nat /\ all \in BitSeqs /\ Len(all) = n + 8
      /\ (\A k \in 1 .. n : all[k] = made[k]) /\ \A j \in 1 .. 8 : all[n + j] = more[j]
  <2> HIDE DEF more
  <2>1. n \in Nat
    BY BitSeqType
  <2>2. /\ all \in BitSeqs /\ Len(all) = n + Len(more)
        /\ \A k \in 1 .. n : all[k] = made[k]
        /\ \A j \in 1 .. Len(more) : all[n + j] = more[j]
    BY <1>2, ConcatParts
  <2> HIDE DEF all, n
  <2> QED
    BY <1>2, <2>1, <2>2
<1>4. \A i \in Indices : new[i] = IF i >= 72 THEN NewBit(reg, i - 72) ELSE reg[i + 8]
  <2> TAKE i \in Indices
  <2>1. i \in 0 .. 79 /\ (i < 72 => (i + 8) % 80 = i + 8) /\ (i \in 72 .. 79 <=> i >= 72)
    BY IndexRange DEF StateBits
  <2> QED
    BY <2>1 DEF Loaded, StateBits
<1>5. new \in Registers
  <2>1. new = [i \in Indices |-> new[i]]
    BY DEF Loaded
  <2>2. \A i \in Indices : new[i] \in Bit
    <3> TAKE i \in Indices
    <3>1. i < 72 => i + 8 \in Indices
      BY IndexRange DEF StateBits
    <3>2. i \in Int /\ i - 72 \in Int
      BY IndexRange
    <3>3. i < 72 => reg[i + 8] \in Bit
      BY <3>1 DEF Registers
    <3> QED
      BY <1>1, <1>4, <3>2, <3>3
  <2> HIDE DEF new
  <2> QED
    BY <2>1, <2>2 DEF Registers
<1>6. \A i \in 1 .. 80 + n : z[i] = s[i]
  <2> HIDE DEF more
  <2> QED
    BY <1>2, StreamGrows DEF StateBits
<1>7. \A j \in 1 .. 8 : z[80 + n + j] = more[j]
  <2> TAKE j \in 1 .. 8
  <2>1. n + j \in 1 .. Len(all) /\ StateBits + (n + j) = 80 + n + j
    <3>1. n \in Nat /\ Len(all) = n + 8 /\ StateBits = 80
      BY <1>3 DEF StateBits
    <3> HIDE DEF n, all
    <3> QED
      BY <3>1
  <2>2. z[StateBits + (n + j)] = all[n + j]
    BY <1>3, <2>1, StreamBits
  <2> QED
    BY <1>3, <2>1, <2>2
<1> HIDE DEF more, all, new, s, z
<1>8. \A i \in Indices : reg[i] = s[n + i + 1]
  BY DEF Window, s
<1> HIDE DEF n
<1>9. n \in Nat /\ Len(all) = n + 8
  BY <1>3
<1>10. Window(new, first, all)
  <2>1. ASSUME NEW i \in Indices PROVE new[i] = z[Len(all) + i + 1]
    <3>1. i \in 0 .. 79
      BY IndexRange DEF StateBits
    <3>2. CASE i >= 72
      <4> DEFINE j == i - 71
      <4>1. j \in 1 .. 8 /\ Len(all) + i + 1 = 80 + n + j /\ j - 1 = i - 72
        BY <1>9, <3>1, <3>2
      <4> HIDE DEF j
      <4>2. new[i] = NewBit(reg, i - 72)
        BY <1>4, <3>2
      <4>3. more[j] = NewBit(reg, j - 1)
        BY <1>2, <4>1
      <4>4. z[80 + n + j] = more[j]
        BY <1>7, <4>1
      <4> QED
        BY <4>1, <4>2, <4>3, <4>4
    <3>3. CASE i < 72
      <4> DEFINE j == i + 8
      <4>1. j \in Indices /\ Len(all) + i + 1 = n + j + 1 /\ n + j + 1 \in 1 .. 80 + n
        BY <1>9, <3>1, <3>3, IndexRange
      <4>2. ~(i >= 72)
        BY <3>1, <3>3
      <4>3. new[i] = reg[j]
        BY <1>4, <4>2
      <4> HIDE DEF j
      <4>4. reg[j] = s[n + j + 1]
        BY <1>8, <4>1
      <4>5. z[n + j + 1] = s[n + j + 1]
        BY <1>6, <4>1
      <4> QED
        BY <4>1, <4>3, <4>4, <4>5
    <3>4. i >= 72 \/ i < 72
      BY <3>1
    <3> QED
      BY <3>2, <3>3, <3>4
  <2> QED
    BY <2>1 DEF Window, z
<1>11. Recurrence(first, all)
  <2>1. ASSUME NEW k \in 1 .. n + 8 PROVE z[80 + k] = Feedback(z, k)
    <3>1. CASE k <= n
      <4>1. \A t \in Taps : k + t \in 1 .. 80 + n
        BY <1>9, <3>1, TapRange
      <4>2. {t \in Taps : z[k + t] = 1} = {t \in Taps : s[k + t] = 1}
        BY <1>6, <4>1
      <4>3. k \in 1 .. n /\ 80 + k \in 1 .. 80 + n
        BY <1>3, <3>1
      <4>4. s[80 + k] = Feedback(s, k)
        BY <4>3 DEF Recurrence, StateBits, s, n
      <4> QED
        BY <1>6, <4>2, <4>3, <4>4 DEF Feedback
    <3>2. CASE k > n
      <4> DEFINE j == k - n
      <4>1. j \in 1 .. 8 /\ 80 + k = 80 + n + j /\ j - 1 \in Int /\ k = n + j
        BY <1>3, <3>2
      <4> HIDE DEF j
      <4>2. \A t \in Taps : (j - 1) + t \in Indices /\ n + ((j - 1) + t) + 1 = k + t
                            /\ k + t \in 1 .. 80 + n
        <5> TAKE t \in Taps
        <5>1. t \in Int /\ 0 <= t /\ t <= 62
          BY TapRange
        <5>2. (j - 1) + t \in Int /\ 0 <= (j - 1) + t /\ (j - 1) + t <= 79
          BY <4>1, <5>1
        <5>3. n + ((j - 1) + t) + 1 = k + t /\ k + t \in 1 .. 80 + n
          BY <1>9, <4>1, <5>1
        <5> QED
          BY <5>2, <5>3, IndexRange
      <4>3. \A t \in Taps : reg[(j - 1) + t] = z[k + t]
        BY <1>6, <1>8, <4>2
      <4>4. {t \in Taps : z[k + t] = 1} = {t \in Taps : reg[(j - 1) + t] = 1}
        BY <4>3
      <4>5. z[80 + k] = NewBit(reg, j - 1)
        BY <1>2, <1>7, <4>1
      <4> QED
        BY <4>4, <4>5 DEF Feedback, NewBit
    <3> QED
      BY <1>3, <3>1, <3>2
  <2> QED
    BY <1>3, <2>1 DEF Recurrence, StateBits, z
<1> QED
  BY <1>2, <1>5, <1>10, <1>11 DEF more, all, new

-----------------------------------------------------------------------------
(* How the references grow with the bits handed out.                       *)

\* A sequence with one bit more.
LEMMA AppendParts ==
    ASSUME NEW c \in BitSeqs, NEW b \in Bit
    PROVE  /\ Append(c, b) \in BitSeqs /\ Len(Append(c, b)) = Len(c) + 1
           /\ \A i \in 1 .. Len(c) : Append(c, b)[i] = c[i]
           /\ Append(c, b)[Len(c) + 1] = b
BY AppendProperties DEF BitSeqs

\* A prefix of the bits made, and the same prefix one bit longer.
LEMMA PrefixGrows ==
    ASSUME NEW made \in BitSeqs, NEW n \in Nat, 160 <= n, n < Len(made)
    PROVE  /\ SubSeq(made, 161, n) \in BitSeqs /\ Len(SubSeq(made, 161, n)) = n - 160
           /\ SubSeq(made, 161, n + 1) = Append(SubSeq(made, 161, n), made[n + 1])
<1> DEFINE c == SubSeq(made, 161, n)
           d == SubSeq(made, 161, n + 1)
           e == Append(c, made[n + 1])
<1>1. Len(made) \in Nat /\ \A i \in 1 .. Len(made) : made[i] \in Bit
  BY BitSeqType
<1>2. (\A i \in 161 .. n : made[i] \in Bit) /\ \A i \in 161 .. n + 1 : made[i] \in Bit
  BY <1>1
<1>3. c \in BitSeqs /\ Len(c) = n - 160 /\ \A i \in 1 .. n - 160 : c[i] = made[160 + i]
  <2>1. /\ c \in Seq(Bit) /\ Len(c) = (IF 161 <= n THEN n - 161 + 1 ELSE 0)
        /\ \A i \in 1 .. n - 161 + 1 : c[i] = made[161 + i - 1]
    BY <1>2, SubSeqProperties, 161 \in Int, n \in Int
  <2> HIDE DEF c
  <2>2. \A i \in 1 .. n - 160 : 161 + i - 1 = 160 + i /\ i \in 1 .. n - 161 + 1
    OBVIOUS
  <2> QED
    BY <2>1, <2>2 DEF BitSeqs
<1>4. d \in BitSeqs /\ Len(d) = n - 159 /\ \A i \in 1 .. n - 159 : d[i] = made[160 + i]
  <2>1. /\ d \in Seq(Bit) /\ Len(d) = (IF 161 <= n + 1 THEN (n + 1) - 161 + 1 ELSE 0)
        /\ \A i \in 1 .. (n + 1) - 161 + 1 : d[i] = made[161 + i - 1]
    BY <1>2, SubSeqProperties, 161 \in Int, n + 1 \in Int
  <2> HIDE DEF d
  <2>2. \A i \in 1 .. n - 159 : 161 + i - 1 = 160 + i /\ i \in 1 .. (n + 1) - 161 + 1
    OBVIOUS
  <2> QED
    BY <2>1, <2>2 DEF BitSeqs
<1>5. made[n + 1] \in Bit
  BY <1>1
<1> HIDE DEF c, d
<1>6. /\ e \in BitSeqs /\ Len(e) = Len(c) + 1 /\ e[Len(c) + 1] = made[n + 1]
      /\ \A i \in 1 .. Len(c) : e[i] = c[i]
  BY <1>3, <1>5, AppendParts
<1> HIDE DEF e
<1>7. \A i \in 1 .. n - 159 : d[i] = e[i]
  <2> TAKE i \in 1 .. n - 159
  <2>1. d[i] = made[160 + i]
    BY <1>4
  <2>2. CASE i = n - 159
    BY <1>3, <1>6, <2>1, <2>2
  <2>3. CASE i # n - 159
    <3>1. i \in 1 .. n - 160
      BY <2>3
    <3>2. c[i] = made[160 + i] /\ e[i] = c[i]
      BY <1>3, <1>6, <3>1
    <3> QED
      BY <2>1, <3>2
  <2> QED
    BY <2>2, <2>3
<1>8. d = e
  <2>1. Len(d) = n - 159 /\ Len(e) = n - 159
    BY <1>3, <1>4, <1>6
  <2> QED
    BY <1>4, <1>6, <1>7, <2>1, SeqEqual DEF BitSeqs
<1> QED
  BY <1>3, <1>8 DEF c, d, e

\* More bits made change no prefix.
LEMMA PrefixStays ==
    ASSUME NEW made \in BitSeqs, NEW more \in BitSeqs, NEW n \in Nat, n <= Len(made)
    PROVE  SubSeq(made \o more, 161, n) = SubSeq(made, 161, n)
<1>1. \A i \in 1 .. (1 + n) - 161 : (i + 161) - 1 \in 1 .. Len(made)
  BY BitSeqType
<1>2. \A i \in 1 .. (1 + n) - 161 : (made \o more)[(i + 161) - 1] = made[(i + 161) - 1]
  BY <1>1, ConcatParts
<1> QED
  BY <1>2

\* What one more bit does to the shrunk stream: nothing, unless it is the second
\* of a pair whose first is 1.
LEMMA ShrunkGrows ==
    ASSUME NEW c \in BitSeqs, NEW b \in Bit, NEW h \in Nat
    PROVE  /\ Len(c) = 2 * h =>
                /\ ShrunkOf(c) \in BitSeqs
                /\ ShrunkOf(Append(c, b)) = ShrunkOf(c)
           /\ Len(c) = 2 * h + 1 =>
                /\ ShrunkOf(c) \in BitSeqs
                /\ ShrunkOf(Append(c, b)) = IF c[2 * h + 1] = 1 THEN Append(ShrunkOf(c), b)
                                            ELSE ShrunkOf(c)
<1> DEFINE d == Append(c, b)
<1>1. /\ Len(c) \in Nat /\ d \in BitSeqs /\ Len(d) = Len(c) + 1
      /\ (\A i \in 1 .. Len(c) : d[i] = c[i]) /\ d[Len(c) + 1] = b
  BY AppendParts, BitSeqType
<1> HIDE DEF d
<1>2. ASSUME 2 * h <= Len(c)
      PROVE  ShrunkAt(d)[h] = ShrunkAt(c)[h] /\ ShrunkAt(c)[h] \in BitSeqs
  <2>1. \A i \in 1 .. 2 * h : d[i] = c[i]
    BY <1>1, <1>2
  <2>2. ShrunkAt(d)[h] = ShrunkAt(c)[h]
    BY <2>1, ShrinkSame
  <2>3. ShrunkAt(c)[h] \in BitSeqs
    BY <1>2, ShrinkType DEF BitSeqs
  <2> QED
    BY <2>2, <2>3
<1>3. ASSUME Len(c) = 2 * h
      PROVE  ShrunkOf(c) \in BitSeqs /\ ShrunkOf(d) = ShrunkOf(c)
  <2>1. Len(c) \div 2 = h /\ Len(d) \div 2 = h /\ 2 * h <= Len(c)
    BY <1>1, <1>3
  <2>2. ShrunkOf(c) = ShrunkAt(c)[h] /\ ShrunkOf(d) = ShrunkAt(d)[h]
    BY <2>1, ShrunkIsRec
  <2> QED
    BY <1>2, <2>1, <2>2
<1>4. ASSUME Len(c) = 2 * h + 1
      PROVE  /\ ShrunkOf(c) \in BitSeqs
             /\ ShrunkOf(d) = IF c[2 * h + 1] = 1 THEN Append(ShrunkOf(c), b)
                              ELSE ShrunkOf(c)
  <2>1. Len(c) \div 2 = h /\ Len(d) \div 2 = h + 1 /\ 2 * h <= Len(c) /\ h + 1 \in Nat
    BY <1>1, <1>4
  <2>2. ShrunkOf(c) = ShrunkAt(c)[h] /\ ShrunkOf(d) = ShrunkAt(d)[h + 1]
    BY <2>1, ShrunkIsRec
  <2>3. ShrunkAt(d)[h + 1] = ShrinkStep(d, h, ShrunkAt(d)[h])
    BY ShrinkEquation
  <2>4. 2 * (h + 1) - 1 = 2 * h + 1 /\ 2 * (h + 1) = Len(c) + 1 /\ 2 * h + 1 \in 1 .. Len(c)
    BY <1>1, <1>4
  <2>5. d[2 * (h + 1) - 1] = c[2 * h + 1] /\ d[2 * (h + 1)] = b
    BY <1>1, <2>4
  <2>6. ShrunkAt(d)[h] = ShrunkAt(c)[h] /\ ShrunkAt(c)[h] \in BitSeqs
    BY <1>2, <2>1
  <2> QED
    BY <2>2, <2>3, <2>5, <2>6 DEF ShrinkStep
<1> QED
  BY <1>3, <1>4 DEF d

\* One more bit changes none of the elements of the groups before it.
LEMMA ElementsStay ==
    ASSUME NEW s \in BitSeqs, NEW b \in Bit, NEW m \in Nat, m * NumBits <= Len(s)
    PROVE  ElementsOf(Append(s, b), m) = ElementsOf(s, m)
<1> DEFINE t == Append(s, b)
           n == m * NumBits
<1>1. Len(s) \in Nat /\ \A i \in 1 .. Len(s) : t[i] = s[i]
  BY AppendParts, BitSeqType
<1>2. n \in Nat /\ n <= Len(s)
  BY GrainAssumption
<1> HIDE DEF t
<1>3. \A i \in 1 .. n : t[i] = s[i]
  <2> HIDE DEF n
  <2> QED
    BY <1>1, <1>2
<1>4. DrawnFrom(t)[m] = DrawnFrom(s)[m]
  BY <1>3, GroupSame
<1> QED
  BY <1>4, ElementsIsRec DEF t

-----------------------------------------------------------------------------
(* The inductive invariant: while bits are dropped nothing is drawn; then  *)
(* h whole pairs have been handed out, and what they left is m groups that *)
(* became elements and the bits of the element being drawn.                *)

HandedOut == Len(produced) - (StateBits - next_bit)

Typed ==
    /\ seed \in Registers /\ produced \in BitSeqs /\ grain_state \in Registers
    /\ next_bit \in 72 .. 80 /\ discards \in 0 .. 20
    /\ await \in {"first", "skip", "take"}
    /\ bits \in BitSeqs /\ Len(bits) <= NumBits
    /\ elements \in Seq(0 .. Modulus - 1) /\ Len(elements) <= Elements
    /\ bits = << >> \/ Len(elements) < Elements

Register == Window(grain_state, seed, produced) /\ Recurrence(seed, produced)

Dropping ==
    /\ next_bit = 80 /\ await = "first" /\ bits = << >> /\ elements = << >>
    /\ Len(produced) + 8 * discards = 160

InPair(h) ==
    \/ await = "first" /\ Len(Consumed) = 2 * h
    \/ await = "take" /\ Len(Consumed) = 2 * h + 1 /\ Consumed[2 * h + 1] = 1
    \/ await = "skip" /\ Len(Consumed) = 2 * h + 1 /\ Consumed[2 * h + 1] # 1

InGroup(m) ==
    /\ Len(Shrunk) = m * NumBits + Len(bits)
    /\ bits = SubSeq(Shrunk, m * NumBits + 1, Len(Shrunk))
    /\ elements = ElementsOf(Shrunk, m)

Reading ==
    /\ HandedOut \in Nat /\ HandedOut >= 160
    /\ Consumed \in BitSeqs /\ Len(Consumed) = HandedOut - 160
    /\ Shrunk \in BitSeqs
    /\ \E h \in Nat : InPair(h)
    /\ \E m \in Nat : InGroup(m)

GrainInv ==
    /\ Typed
    /\ Register
    /\ discards > 0 => Dropping
    /\ discards = 0 => Reading

\* Of no bits nothing is left.
LEMMA Nothing ==
    /\ << >> \in BitSeqs /\ Len(<< >>) = 0
    /\ ShrunkOf(<< >>) = << >> /\ ElementsOf(<< >>, 0) = << >>
<1>1. << >> \in BitSeqs /\ Len(<< >>) = 0 /\ Len(<< >>) \div 2 = 0
  BY DEF BitSeqs
<1>2. ShrunkOf(<< >>) = ShrunkAt(<< >>)[0]
  BY <1>1, ShrunkIsRec, 0 \in Nat
<1>3. ElementsOf(<< >>, 0) = DrawnFrom(<< >>)[0]
  BY ElementsIsRec, 0 \in Nat
<1> QED
  BY <1>1, <1>2, <1>3, ShrinkEquation, GroupEquation

\* new starts with the seed in the register and 20 loads to come.
LEMMA InitGrainInv == GrainInit => GrainInv
<1> SUFFICES ASSUME GrainInit PROVE GrainInv
  OBVIOUS
<1>1. seed \in Registers /\ grain_state = seed /\ produced = << >>
  <2>1. PICK p \in Seeds : seed = SeedOf(p)
    BY DEF GrainInit
  <2>2. \A v, k : BitOf(v, k) \in Bit
    BY DEF BitOf, Bit
  <2>3. SeedOf(p) \in Registers
    BY <2>2 DEF SeedOf, Registers, Bit
  <2> QED
    BY <2>1, <2>3 DEF GrainInit
<1>2. << >> \in BitSeqs /\ Len(<< >>) = 0 /\ << >> \in Seq(0 .. Modulus - 1)
  BY DEF BitSeqs
<1>3. /\ next_bit = 80 /\ discards = 20 /\ await = "first" /\ bits = << >>
      /\ elements = << >>
  BY DEF GrainInit, StateBits
<1>4. Typed
  BY <1>1, <1>2, <1>3, GrainAssumption DEF Typed
<1>5. Window(grain_state, seed, produced)
  <2> SUFFICES ASSUME NEW i \in Indices
               PROVE  grain_state[i] = StreamOf(seed, produced)[Len(produced) + i + 1]
    BY DEF Window
  <2>1. Len(produced) + i + 1 = i + 1
    BY <1>1, <1>2, IndexRange
  <2>2. StreamOf(seed, produced)[i + 1] = seed[i]
    BY <1>1, <1>2, StreamBits
  <2> QED
    BY <1>1, <2>1, <2>2
<1>6. Recurrence(seed, produced)
  BY <1>1, <1>2 DEF Recurrence
<1>7. Dropping
  BY <1>1, <1>2, <1>3 DEF Dropping
<1> QED
  BY <1>3, <1>4, <1>5, <1>6, <1>7 DEF GrainInv, Register

\* What load_next_8_bits does to the register of the invariant.
LEMMA LoadGrainInv ==
    ASSUME Typed, Register, next_bit = 80, load_next_8_bits, seed' = seed
    PROVE  /\ produced' = produced \o NewBits(grain_state)
           /\ NewBits(grain_state) \in BitSeqs /\ produced' \in BitSeqs
           /\ Len(produced') = Len(produced) + 8
           /\ grain_state' \in Registers /\ Register'
<1>1. seed \in Registers /\ produced \in BitSeqs /\ grain_state \in Registers
      /\ Window(grain_state, seed, produced) /\ Recurrence(seed, produced)
  BY DEF Typed, Register
<1>2. grain_state' = Loaded(grain_state, StateBits - 8) /\ produced' = produced \o NewBits(grain_state)
  BY DEF load_next_8_bits, StateBits
<1>3. NewBits(grain_state) \in BitSeqs /\ Len(NewBits(grain_state)) = 8
  BY <1>1, Load
<1>4. produced' \in BitSeqs /\ Len(produced') = Len(produced) + 8
  <2> DEFINE more == NewBits(grain_state)
  <2>1. produced \in BitSeqs /\ more \in BitSeqs
    BY <1>1, <1>3
  <2>2. produced' = produced \o more /\ Len(more) = 8
    BY <1>2, <1>3
  <2> HIDE DEF more
  <2>3. produced \o more \in BitSeqs /\ Len(produced \o more) = Len(produced) + Len(more)
    BY <2>1, ConcatParts
  <2> QED
    BY <2>2, <2>3
<1>5. /\ Loaded(grain_state, StateBits - 8) \in Registers
      /\ Window(Loaded(grain_state, StateBits - 8), seed, produced \o NewBits(grain_state))
      /\ Recurrence(seed, produced \o NewBits(grain_state))
  BY <1>1, Load
<1>6. Register'
  BY <1>2, <1>5 DEF Register
<1> QED
  BY <1>2, <1>3, <1>4, <1>5, <1>6

\* The bits of the first 20 loads are dropped.
LEMMA DiscardGrainInv == GrainInv /\ Discard => GrainInv'
<1> SUFFICES ASSUME GrainInv, Discard PROVE GrainInv'
  OBVIOUS
<1>1. Typed /\ Register /\ Dropping /\ discards > 0 /\ load_next_8_bits
      /\ next_bit' = 80 /\ discards' = discards - 1
      /\ UNCHANGED <<seed, await, bits, elements>>
  BY DEF GrainInv, Discard, StateBits
<1>2. /\ produced' \in BitSeqs /\ Len(produced') = Len(produced) + 8
      /\ grain_state' \in Registers /\ Register'
  BY <1>1, LoadGrainInv DEF Dropping
<1>3. Typed'
  BY <1>1, <1>2 DEF Typed
<1>4. Len(produced') + 8 * discards' = 160
  <2>1. Len(produced) \in Nat /\ discards \in Nat
    BY <1>1, BitSeqType DEF Typed
  <2> QED
    BY <1>1, <1>2, <2>1 DEF Dropping
<1>5. Dropping'
  BY <1>1, <1>4 DEF Dropping
<1>6. discards' = 0 => Reading'
  <2> SUFFICES ASSUME discards' = 0 PROVE Reading'
    OBVIOUS
  <2>1. Len(produced') = 160
    <3>1. Len(produced') \in Nat
      BY <1>2, BitSeqType
    <3> QED
      BY <1>4, <3>1
  <2>2. await' = "first" /\ bits' = << >> /\ elements' = << >>
    BY <1>5 DEF Dropping
  <2>3. HandedOut' = 160
    BY <1>1, <2>1 DEF HandedOut, StateBits
  <2>4. Consumed' = << >>
    <3>1. Consumed' = SubSeq(produced', 161, 160)
      BY <2>3 DEF Consumed, HandedOut
    <3> QED
      BY <3>1, SubSeqEmpty, 161 \in Int, 160 \in Int
  <2>5. Shrunk' = << >>
    BY <2>4, Nothing DEF Shrunk
  <2>6. InPair(0)'
    <3>1. Len(Consumed') = 2 * 0
      BY <2>4, Nothing
    <3> QED
      BY <2>2, <3>1 DEF InPair
  <2>7. InGroup(0)'
    <3>1. 0 * NumBits = 0
      BY GrainAssumption
    <3>2. SubSeq(<< >>, 0 + 1, 0) = << >>
      BY SubSeqEmpty, 0 + 1 \in Int, 0 \in Int
    <3> QED
      BY <2>2, <2>5, <3>1, <3>2, Nothing DEF InGroup
  <2> QED
    BY <2>3, <2>4, <2>5, <2>6, <2>7, Nothing DEF Reading
<1> QED
  BY <1>2, <1>3, <1>5, <1>6 DEF GrainInv

\* What follows a place in a sequence grows with the sequence.
LEMMA SuffixGrows ==
    ASSUME NEW s \in BitSeqs, NEW b \in Bit, NEW a \in Nat, a <= Len(s)
    PROVE  SubSeq(Append(s, b), a + 1, Len(s) + 1) = Append(SubSeq(s, a + 1, Len(s)), b)
<1> DEFINE n == Len(s)
           t == Append(s, b)
           c == SubSeq(s, a + 1, n)
           d == SubSeq(t, a + 1, n + 1)
           e == Append(c, b)
<1>1. n \in Nat /\ \A i \in 1 .. n : s[i] \in Bit
  BY BitSeqType
<1>2. /\ t \in BitSeqs /\ Len(t) = n + 1 /\ t[n + 1] = b
      /\ \A i \in 1 .. n : t[i] = s[i]
  BY AppendParts
<1> HIDE DEF n, t
<1>3. c \in BitSeqs /\ Len(c) = n - a /\ \A i \in 1 .. n - a : c[i] = s[a + i]
  <2>1. \A i \in a + 1 .. n : s[i] \in Bit
    BY <1>1
  <2>2. /\ c \in Seq(Bit) /\ Len(c) = (IF a + 1 <= n THEN n - (a + 1) + 1 ELSE 0)
        /\ \A i \in 1 .. n - (a + 1) + 1 : c[i] = s[(a + 1) + i - 1]
    BY <1>1, <2>1, SubSeqProperties, a + 1 \in Int, n \in Int
  <2> HIDE DEF c
  <2>3. \A i \in 1 .. n - a : (a + 1) + i - 1 = a + i /\ i \in 1 .. n - (a + 1) + 1
    BY <1>1
  <2>4. a <= n
    BY DEF n
  <2> QED
    BY <1>1, <2>2, <2>3, <2>4 DEF BitSeqs
<1>4. d \in BitSeqs /\ Len(d) = n + 1 - a /\ \A i \in 1 .. n + 1 - a : d[i] = t[a + i]
  <2>1. \A i \in a + 1 .. n + 1 : t[i] \in Bit
    BY <1>1, <1>2, BitSeqType
  <2>2. /\ d \in Seq(Bit) /\ Len(d) = (IF a + 1 <= n + 1 THEN (n + 1) - (a + 1) + 1 ELSE 0)
        /\ \A i \in 1 .. (n + 1) - (a + 1) + 1 : d[i] = t[(a + 1) + i - 1]
    BY <1>1, <2>1, SubSeqProperties, a + 1 \in Int, n + 1 \in Int
  <2> HIDE DEF d
  <2>3. \A i \in 1 .. n + 1 - a : (a + 1) + i - 1 = a + i /\ i \in 1 .. (n + 1) - (a + 1) + 1
    BY <1>1
  <2>4. a <= n
    BY DEF n
  <2> QED
    BY <1>1, <2>2, <2>3, <2>4 DEF BitSeqs
<1> HIDE DEF c, d
<1>5. /\ e \in BitSeqs /\ Len(e) = Len(c) + 1 /\ e[Len(c) + 1] = b
      /\ \A i \in 1 .. Len(c) : e[i] = c[i]
  BY <1>3, AppendParts
<1> HIDE DEF e
<1>6. \A i \in 1 .. n + 1 - a : d[i] = e[i]
  <2> TAKE i \in 1 .. n + 1 - a
  <2>1. d[i] = t[a + i]
    BY <1>4
  <2>2. CASE i = n + 1 - a
    <3>1. i = Len(c) + 1 /\ a + i = n + 1
      BY <1>1, <1>3, <2>2
    <3> QED
      BY <1>2, <1>5, <2>1, <3>1
  <2>3. CASE i # n + 1 - a
    <3>1. i \in 1 .. n - a /\ a + i \in 1 .. n
      BY <1>1, <2>3
    <3>2. c[i] = s[a + i] /\ e[i] = c[i] /\ t[a + i] = s[a + i]
      BY <1>2, <1>3, <1>5, <3>1
    <3> QED
      BY <2>1, <3>2
  <2> QED
    BY <2>2, <2>3
<1>7. d = e
  <2>1. Len(d) = n + 1 - a /\ Len(e) = n + 1 - a
    BY <1>1, <1>3, <1>4, <1>5
  <2> QED
    BY <1>4, <1>5, <1>6, <2>1, SeqEqual DEF BitSeqs
<1> QED
  BY <1>7 DEF c, d, e, n, t

\* get_next_bit hands out the next bit of the stream, whether the register had to
\* be filled for it or not.
LEMMA BitGrainInv ==
    ASSUME GrainInv, get_next_bit
    PROVE  /\ produced' \in BitSeqs /\ grain_state' \in Registers /\ next_bit' \in 72 .. 80
           /\ Register'
           /\ HandedOut' = HandedOut + 1
           /\ grain_state'[next_bit' - 1] \in Bit
           /\ Consumed' = Append(Consumed, grain_state'[next_bit' - 1])
<1> DEFINE b == grain_state'[next_bit' - 1]
           n == HandedOut
<1>1. /\ Typed /\ Register /\ Reading /\ seed' = seed
      /\ produced \in BitSeqs /\ Len(produced) \in Nat /\ next_bit \in 72 .. 80
  BY BitSeqType DEF GrainInv, get_next_bit, Drawing, Typed
<1>2. n \in Nat /\ n >= 160 /\ n = Len(produced) - (80 - next_bit)
      /\ Consumed = SubSeq(produced, 161, n)
  BY <1>1 DEF Reading, HandedOut, Consumed, StateBits
<1>3. /\ produced' \in BitSeqs /\ grain_state' \in Registers /\ Register'
      /\ next_bit' \in 73 .. 80 /\ n < Len(produced')
      /\ Len(produced') - (80 - next_bit') = n + 1
      /\ SubSeq(produced', 161, n) = Consumed
  <2>1. CASE next_bit = 80
    <3>1. load_next_8_bits /\ next_bit' = 73
      BY <2>1 DEF get_next_bit, StateBits
    <3>2. /\ produced' = produced \o NewBits(grain_state)
          /\ NewBits(grain_state) \in BitSeqs /\ produced' \in BitSeqs
          /\ Len(produced') = Len(produced) + 8
          /\ grain_state' \in Registers /\ Register'
      BY <1>1, <2>1, <3>1, LoadGrainInv
    <3>3. n = Len(produced) /\ n <= Len(produced)
      BY <1>1, <1>2, <2>1
    <3>4. SubSeq(produced', 161, n) = SubSeq(produced, 161, n)
      <4> HIDE DEF n
      <4> QED
        BY <1>1, <1>2, <3>2, <3>3, PrefixStays
    <3>5. next_bit' \in 73 .. 80 /\ n < Len(produced')
          /\ Len(produced') - (80 - next_bit') = n + 1
      <4> HIDE DEF n
      <4> QED
        BY <1>1, <3>1, <3>2, <3>3
    <3> QED
      BY <1>2, <3>2, <3>4, <3>5
  <2>2. CASE next_bit # 80
    <3>1. next_bit' = next_bit + 1 /\ UNCHANGED <<grain_state, produced>>
      BY <2>2 DEF get_next_bit, StateBits
    <3>2. Register' /\ grain_state' \in Registers /\ produced' \in BitSeqs
      BY <1>1, <3>1 DEF Register, Typed
    <3>3. next_bit' \in 73 .. 80 /\ n < Len(produced')
          /\ Len(produced') - (80 - next_bit') = n + 1
      <4> HIDE DEF n
      <4> QED
        BY <1>1, <1>2, <2>2, <3>1
    <3> QED
      BY <1>2, <3>1, <3>2, <3>3
  <2> QED
    BY <2>1, <2>2
<1>4. HandedOut' = n + 1
  BY <1>3 DEF HandedOut, StateBits
<1> HIDE DEF n
<1>5. b = produced'[n + 1]
  <2> DEFINE i == next_bit' - 1
  <2>1. i \in Indices /\ Len(produced') + i + 1 = 80 + (n + 1) /\ n + 1 \in 1 .. Len(produced')
    <3>1. Len(produced') \in Nat
      BY <1>3, BitSeqType
    <3>2. next_bit' \in 73 .. 80 /\ n < Len(produced') /\ n \in Nat
          /\ Len(produced') - (80 - next_bit') = n + 1
      BY <1>2, <1>3
    <3>3. \A x \in 73 .. 80 : x - 1 \in Indices
      BY IndexRange
    <3>4. Len(produced') + i + 1 = 80 + (n + 1)
      BY <3>1, <3>2
    <3>5. n + 1 \in 1 .. Len(produced')
      BY <3>1, <3>2
    <3> QED
      BY <3>2, <3>3, <3>4, <3>5
  <2> HIDE DEF i
  <2>2. grain_state'[i] = StreamOf(seed, produced')[80 + (n + 1)]
    BY <1>1, <1>3, <2>1 DEF Register, Window
  <2>3. StreamOf(seed, produced')[80 + (n + 1)] = produced'[n + 1]
    BY <1>1, <1>3, <2>1, StreamBits DEF Typed, StateBits
  <2> QED
    BY <2>2, <2>3 DEF i
<1> HIDE DEF b
<1>6. b \in Bit
  <2>1. n + 1 \in 1 .. Len(produced')
    <3>1. Len(produced') \in Nat
      BY <1>3, BitSeqType
    <3> QED
      BY <1>2, <1>3, <3>1
  <2> QED
    BY <1>3, <1>5, <2>1, BitSeqType
<1>7. Consumed' = SubSeq(produced', 161, n + 1)
  BY <1>4 DEF HandedOut, Consumed
<1>8. SubSeq(produced', 161, n + 1) = Append(SubSeq(produced', 161, n), produced'[n + 1])
  <2>1. produced' \in BitSeqs /\ n \in Nat /\ 160 <= n /\ n < Len(produced')
    BY <1>2, <1>3
  <2> QED
    BY <2>1, PrefixGrows
<1>9. Consumed' = Append(Consumed, b)
  BY <1>3, <1>5, <1>7, <1>8
<1>10. next_bit' \in 72 .. 80
  BY <1>3
<1> QED
  BY <1>3, <1>4, <1>6, <1>9, <1>10 DEF b, n

\* The four ways in which next() uses a bit.
LEMMA DrawGrainInv == GrainInv /\ get_next_bit => GrainInv'
<1> SUFFICES ASSUME GrainInv, get_next_bit PROVE GrainInv'
  OBVIOUS
<1> DEFINE b == grain_state'[next_bit' - 1]
<1>1. /\ Typed /\ Register /\ Reading /\ discards = 0
      /\ Drawing /\ Use(b) /\ UNCHANGED <<seed, discards, elements>>
  BY DEF GrainInv, get_next_bit, Drawing
<1>2. /\ produced' \in BitSeqs /\ grain_state' \in Registers /\ next_bit' \in 72 .. 80
      /\ Register' /\ HandedOut' = HandedOut + 1
      /\ b \in Bit /\ Consumed' = Append(Consumed, b)
  BY BitGrainInv
<1> HIDE DEF b
<1>3. /\ HandedOut \in Nat /\ HandedOut >= 160
      /\ Consumed \in BitSeqs /\ Len(Consumed) = HandedOut - 160 /\ Shrunk \in BitSeqs
  BY <1>1 DEF Reading
<1>4. PICK h \in Nat : InPair(h)
  BY <1>1 DEF Reading
<1>5. PICK m \in Nat : InGroup(m)
  BY <1>1 DEF Reading
<1>6. /\ Len(Consumed) \in Nat /\ Consumed' \in BitSeqs /\ Len(Consumed') = Len(Consumed) + 1
      /\ (\A i \in 1 .. Len(Consumed) : Consumed'[i] = Consumed[i])
      /\ Consumed'[Len(Consumed) + 1] = b
  BY <1>2, <1>3, AppendParts, BitSeqType
<1>7. /\ HandedOut' \in Nat /\ HandedOut' >= 160 /\ Len(Consumed') = HandedOut' - 160
  BY <1>2, <1>3, <1>6
<1>8. bits \in BitSeqs /\ Len(bits) \in Nat /\ Len(bits) < NumBits /\ NumBits \in Nat
  <2>1. Len(bits) < NumBits /\ bits \in BitSeqs /\ NumBits \in Nat
    BY <1>1, GrainAssumption DEF Drawing, Typed
  <2> QED
    BY <2>1, BitSeqType
\* The bit is not an output: the groups stay as they are.
<1>9. ASSUME bits' = bits, Shrunk' = Shrunk, await' \in {"first", "skip", "take"},
             \E k \in Nat : InPair(k)'
      PROVE  GrainInv'
  <2>1. Typed'
    BY <1>1, <1>2, <1>9 DEF Typed, Drawing
  <2>2. InGroup(m)'
    BY <1>1, <1>5, <1>9 DEF InGroup
  <2>3. Reading'
    BY <1>3, <1>6, <1>7, <1>9, <2>2 DEF Reading
  <2> QED
    BY <1>1, <1>2, <2>1, <2>3 DEF GrainInv
<1>10. CASE await = "first"
  <2>1. Len(Consumed) = 2 * h
    BY <1>4, <1>10 DEF InPair
  <2>2. Shrunk' = Shrunk
    BY <1>2, <1>3, <2>1, ShrunkGrows DEF Shrunk
  <2>3. Len(Consumed') = 2 * h + 1 /\ Consumed'[2 * h + 1] = b
    BY <1>6, <2>1
  <2>4. bits' = bits /\ ((await' = "take" /\ b = 1) \/ (await' = "skip" /\ b = 0))
    <3>1. Use(b)
      BY <1>1
    <3> QED
      BY <1>10, <3>1 DEF Use
  <2>5. InPair(h)'
    BY <2>3, <2>4 DEF InPair
  <2> QED
    BY <1>9, <2>2, <2>4, <2>5
<1>11. CASE await = "skip"
  <2>1. Len(Consumed) = 2 * h + 1 /\ Consumed[2 * h + 1] # 1
    BY <1>4, <1>11 DEF InPair
  <2>2. Shrunk' = Shrunk
    BY <1>2, <1>3, <2>1, ShrunkGrows DEF Shrunk
  <2>3. Len(Consumed') = 2 * (h + 1) /\ h + 1 \in Nat
    BY <1>6, <2>1
  <2>4. bits' = bits /\ await' = "first"
    BY <1>1, <1>11 DEF Use
  <2>5. InPair(h + 1)'
    BY <2>3, <2>4 DEF InPair
  <2> QED
    BY <1>9, <2>2, <2>3, <2>4, <2>5
<1>12. CASE await = "take"
  <2>1. Len(Consumed) = 2 * h + 1 /\ Consumed[2 * h + 1] = 1
    BY <1>4, <1>12 DEF InPair
  <2>2. Shrunk' = Append(Shrunk, b)
    BY <1>2, <1>3, <2>1, ShrunkGrows DEF Shrunk
  <2>3. Len(Consumed') = 2 * (h + 1) /\ h + 1 \in Nat
    BY <1>6, <2>1
  <2>4. bits' = Append(bits, b) /\ await' = "first"
    BY <1>1, <1>12 DEF Use
  <2>5. InPair(h + 1)'
    BY <2>3, <2>4 DEF InPair
  <2>6. Shrunk' \in BitSeqs /\ Len(Shrunk') = Len(Shrunk) + 1 /\ Len(Shrunk) \in Nat
    BY <1>2, <1>3, <2>2, AppendParts, BitSeqType
  <2>7. bits' \in BitSeqs /\ Len(bits') = Len(bits) + 1
    BY <1>2, <1>8, <2>4, AppendParts
  <2>8. Typed'
    <3>1. Len(bits') <= NumBits
      BY <1>8, <2>7
    <3> QED
      BY <1>1, <1>2, <2>4, <2>7, <3>1 DEF Typed, Drawing
  <2>9. InGroup(m)'
    <3> DEFINE a == m * NumBits
    <3>1. a \in Nat
      BY <1>8
    <3>2. /\ Len(Shrunk) = a + Len(bits) /\ bits = SubSeq(Shrunk, a + 1, Len(Shrunk))
          /\ elements = ElementsOf(Shrunk, m)
      BY <1>5 DEF InGroup
    <3>3. ElementsOf(Append(Shrunk, b), m) = ElementsOf(Shrunk, m)
      <4>1. a <= Len(Shrunk)
        <5> HIDE DEF a
        <5> QED
          BY <1>8, <3>1, <3>2
      <4> QED
        BY <1>2, <1>3, <4>1, ElementsStay
    <3> HIDE DEF a
    <3>4. SubSeq(Append(Shrunk, b), a + 1, Len(Shrunk) + 1)
            = Append(SubSeq(Shrunk, a + 1, Len(Shrunk)), b)
      <4>1. a <= Len(Shrunk)
        BY <1>8, <3>1, <3>2
      <4> QED
        BY <1>2, <1>3, <3>1, <4>1, SuffixGrows
    <3>5. Len(Shrunk') = a + Len(bits')
      BY <1>8, <2>6, <2>7, <3>1, <3>2
    <3>6. bits' = SubSeq(Shrunk', a + 1, Len(Shrunk'))
      BY <2>2, <2>4, <2>6, <3>2, <3>4
    <3>7. elements' = ElementsOf(Shrunk', m)
      BY <1>1, <2>2, <3>2, <3>3
    <3> QED
      BY <3>5, <3>6, <3>7 DEF InGroup, a
  <2>10. Reading'
    BY <1>6, <1>7, <2>3, <2>5, <2>6, <2>9 DEF Reading
  <2> QED
    BY <1>1, <1>2, <2>8, <2>10 DEF GrainInv
<1> QED
  BY <1>1, <1>10, <1>11, <1>12 DEF Typed

\* A full group becomes an element, or nothing, as in the reference, and the next
\* group starts empty.
LEMMA GroupGrainInv ==
    ASSUME GrainInv, Len(bits) = NumBits, bits' = << >>,
           elements' = (IF ValueOf(bits) >= Modulus /\ Len(elements) < Constants
                        THEN elements ELSE Append(elements, ValueOf(bits) % Modulus)),
           UNCHANGED <<seed, produced, grain_state, next_bit, discards, await>>
    PROVE  GrainInv'
<1>1. /\ Typed /\ Register /\ NumBits \in Nat \ {0} /\ Modulus \in Nat \ {0}
      /\ bits \in BitSeqs
  BY GrainAssumption DEF GrainInv, Typed
<1>2. discards = 0 /\ Len(elements) < Elements
  <2>1. bits # << >>
    BY <1>1, Nothing
  <2>2. ~(discards > 0)
    BY <2>1 DEF GrainInv, Dropping
  <2> QED
    BY <1>1, <2>1, <2>2 DEF Typed
<1>3. Reading
  BY <1>2 DEF GrainInv
<1>4. PICK m \in Nat : InGroup(m)
  BY <1>3 DEF Reading
<1>5. Consumed' = Consumed /\ Shrunk' = Shrunk /\ HandedOut' = HandedOut
  BY DEF Consumed, Shrunk, HandedOut
<1>6. /\ Len(Shrunk) = m * NumBits + NumBits
      /\ bits = SubSeq(Shrunk, m * NumBits + 1, Len(Shrunk))
      /\ elements = ElementsOf(Shrunk, m)
  BY <1>4 DEF InGroup
<1>7. (m + 1) * NumBits = m * NumBits + NumBits /\ m + 1 \in Nat
      /\ m * NumBits \in Nat
  BY <1>1
<1>8. elements' = ElementsOf(Shrunk, m + 1)
  <2>1. DrawnFrom(Shrunk)[m + 1] = GroupStep(Shrunk, m, DrawnFrom(Shrunk)[m])
    BY GroupEquation
  <2>2. DrawnFrom(Shrunk)[m] = elements
    BY <1>6, ElementsIsRec
  <2>3. SubSeq(Shrunk, m * NumBits + 1, (m + 1) * NumBits) = bits
    BY <1>6, <1>7
  <2>4. GroupStep(Shrunk, m, elements) = elements'
    BY <2>3 DEF GroupStep
  <2>5. ElementsOf(Shrunk, m + 1) = DrawnFrom(Shrunk)[m + 1]
    BY <1>7, ElementsIsRec
  <2> QED
    BY <2>1, <2>2, <2>4, <2>5
<1>9. InGroup(m + 1)'
  <2>1. Len(Shrunk') = (m + 1) * NumBits + Len(bits')
    BY <1>5, <1>6, <1>7, Nothing
  <2> DEFINE n == (m + 1) * NumBits
  <2>2. n \in Nat /\ Len(Shrunk') = n
    BY <1>1, <1>5, <1>6, <1>7
  <2>3. bits' = SubSeq(Shrunk', n + 1, Len(Shrunk'))
    <3> HIDE DEF n
    <3>1. n + 1 \in Int /\ n \in Int /\ n < n + 1
      BY <2>2
    <3>2. SubSeq(Shrunk', n + 1, n) = << >>
      BY <3>1, SubSeqEmpty
    <3> QED
      BY <2>2, <3>2
  <2> QED
    BY <1>5, <1>8, <2>1, <2>3 DEF InGroup
<1>10. \E h \in Nat : InPair(h)'
  BY <1>3, <1>5 DEF Reading, InPair
<1>11. Reading'
  BY <1>3, <1>5, <1>7, <1>9, <1>10 DEF Reading
<1>12. Typed'
  <2>1. elements \in Seq(0 .. Modulus - 1) /\ Len(elements) \in Nat
    BY <1>1 DEF Typed
  <2>2. ValueOf(bits) % Modulus \in 0 .. Modulus - 1
    <3>1. ValueOf(bits) \in Nat
      BY <1>1, ValueType DEF BitSeqs
    <3> QED
      BY <1>1, <3>1
  <2> DEFINE v == ValueOf(bits) % Modulus
  <2> HIDE DEF v
  <2>3. /\ Append(elements, v) \in Seq(0 .. Modulus - 1)
        /\ Len(Append(elements, v)) = Len(elements) + 1
    BY <2>1, <2>2 DEF v
  <2>4. elements' \in Seq(0 .. Modulus - 1) /\ Len(elements') <= Elements
    <3>1. elements' = elements \/ elements' = Append(elements, v)
      BY DEF v
    <3>2. Len(elements) + 1 <= Elements /\ Len(elements) <= Elements
      BY <1>2, <2>1, GrainAssumption
    <3>3. CASE elements' = elements
      BY <2>1, <3>2, <3>3
    <3>4. CASE elements' = Append(elements, v)
      BY <2>3, <3>2, <3>4
    <3> QED
      BY <3>1, <3>3, <3>4
  <2>5. bits' \in BitSeqs /\ Len(bits') <= NumBits
    BY <1>1, Nothing
  <2> QED
    BY <1>1, <2>4, <2>5 DEF Typed
<1>13. Register'
  BY <1>1 DEF Register
<1> QED
  BY <1>2, <1>11, <1>12, <1>13 DEF GrainInv

\* A round constant that is no field element is rejected.
LEMMA ConstantGrainInv == GrainInv /\ next_field_element => GrainInv'
<1> SUFFICES ASSUME GrainInv, next_field_element PROVE GrainInv'
  OBVIOUS
<1>1. /\ Len(bits) = NumBits /\ Len(elements) < Constants /\ bits' = << >>
      /\ elements' = (IF ValueOf(bits) < Modulus THEN Append(elements, ValueOf(bits))
                      ELSE elements)
      /\ UNCHANGED <<seed, produced, grain_state, next_bit, discards, await>>
  BY DEF next_field_element
<1>2. ValueOf(bits) \in Nat /\ Modulus \in Nat \ {0}
  BY ValueType, GrainAssumption DEF GrainInv, Typed, BitSeqs
<1> DEFINE v == ValueOf(bits)
<1>3. v < Modulus => v % Modulus = v
  BY <1>2
<1>5. ~(v < Modulus) <=> v >= Modulus
  BY <1>2
<1> HIDE DEF v
<1>6. elements' = (IF v >= Modulus /\ Len(elements) < Constants
                   THEN elements ELSE Append(elements, v % Modulus))
  <2>1. elements' = (IF v < Modulus THEN Append(elements, v) ELSE elements)
    BY <1>1 DEF v
  <2> QED
    BY <1>1, <1>3, <1>5, <2>1
<1> QED
  BY <1>1, <1>6, GroupGrainInv DEF v

\* A value for the matrix is reduced.
LEMMA MatrixGrainInv == GrainInv /\ next_field_element_without_rejection => GrainInv'
<1> SUFFICES ASSUME GrainInv, next_field_element_without_rejection PROVE GrainInv'
  OBVIOUS
<1>1. /\ Len(bits) = NumBits /\ Len(elements) >= Constants /\ bits' = << >>
      /\ elements' = Append(elements, ValueOf(bits) % Modulus)
      /\ UNCHANGED <<seed, produced, grain_state, next_bit, discards, await>>
  BY DEF next_field_element_without_rejection
<1>2. Len(elements) \in Nat /\ Constants \in Nat
  BY GrainAssumption DEF GrainInv, Typed
<1>3. ~(Len(elements) < Constants)
  BY <1>1, <1>2
<1>4. elements' = (IF ValueOf(bits) >= Modulus /\ Len(elements) < Constants
                   THEN elements ELSE Append(elements, ValueOf(bits) % Modulus))
  BY <1>1, <1>3
<1> QED
  BY <1>1, <1>4, GroupGrainInv

\* Every step keeps the invariant.
LEMMA NextGrainInv == GrainInv /\ [GrainNext]_grain_vars => GrainInv'
<1> SUFFICES ASSUME GrainInv, [GrainNext]_grain_vars PROVE GrainInv'
  OBVIOUS
<1>1. CASE Discard
  BY <1>1, DiscardGrainInv
<1>2. CASE get_next_bit
  BY <1>2, DrawGrainInv
<1>3. CASE next_field_element
  BY <1>3, ConstantGrainInv
<1>4. CASE next_field_element_without_rejection
  BY <1>4, MatrixGrainInv
<1>5. CASE UNCHANGED grain_vars
  <2>1. /\ Typed' <=> Typed
        /\ Register' <=> Register
        /\ Dropping' <=> Dropping
        /\ discards' = discards
    BY <1>5 DEF grain_vars, Typed, Register, Dropping
  <2>2. /\ Consumed' = Consumed /\ HandedOut' = HandedOut
        /\ await' = await /\ bits' = bits /\ elements' = elements
    BY <1>5 DEF grain_vars, Consumed, HandedOut
  <2>3. Shrunk' = Shrunk
    BY <2>2 DEF Shrunk
  <2>4. Reading => Reading'
    BY <2>2, <2>3 DEF Reading, InPair, InGroup
  <2> QED
    BY <2>1, <2>4 DEF GrainInv
<1> QED
  BY <1>1, <1>2, <1>3, <1>4, <1>5 DEF GrainNext

\* The invariant holds.
LEMMA GrainInvariant == GrainSpec => []GrainInv
BY InitGrainInv, NextGrainInv, PTL DEF GrainSpec

-----------------------------------------------------------------------------
(* What follows from it.                                                   *)

\* The fields keep their types and no more elements are drawn than asked for: the
\* index into the register never leaves it (grain.rs, next_bit).
THEOREM GrainTypeCorrect == GrainSpec => []GrainTypeOK
<1>1. GrainInv => GrainTypeOK
  <2> SUFFICES ASSUME GrainInv PROVE GrainTypeOK
    OBVIOUS
  <2>1. Typed
    BY DEF GrainInv
  <2>2. grain_state \in [Indices -> {0, 1}]
    BY <2>1 DEF Typed, Registers, Bit
  <2> QED
    BY <2>1, <2>2 DEF Typed, GrainTypeOK, StateBits
<1> QED
  BY <1>1, GrainInvariant, PTL

\* However many bits are made and wherever the reader stands, the register of
\* load_next_8_bits is the window of the last 80 bits of the recurrence of Grain.
THEOREM RegisterHolds == GrainSpec => []RegisterIsStream
<1>1. GrainInv => RegisterIsStream
  <2> SUFFICES ASSUME GrainInv PROVE RegisterIsStream
    OBVIOUS
  <2>1. Window(grain_state, seed, produced) /\ Recurrence(seed, produced)
    BY DEF GrainInv, Register
  <2>2. Stream = StreamOf(seed, produced)
    BY DEF Stream, StreamOf
  <2> DEFINE n == Len(produced)
  <2>3. n \in Nat
    BY BitSeqType DEF GrainInv, Typed
  <2>4. ASSUME NEW k \in n - 7 .. n, k >= 1
        PROVE  Stream[StateBits + k] = Cardinality({t \in Taps : Stream[k + t] = 1}) % 2
    <3>1. k \in 1 .. n
      BY <2>3, <2>4
    <3> HIDE DEF n
    <3>2. StreamOf(seed, produced)[StateBits + k] = Feedback(StreamOf(seed, produced), k)
      BY <2>1, <3>1 DEF Recurrence, n
    <3> QED
      BY <2>2, <3>2 DEF Feedback
  <2>5. \A i \in Indices : grain_state[i] = Stream[n + i + 1]
    BY <2>1, <2>2 DEF Window
  <2> QED
    BY <2>4, <2>5 DEF RegisterIsStream
<1> QED
  BY <1>1, GrainInvariant, PTL

\* The elements are those of the shrunk stream after the first 160 bits, for every
\* width of an element and every modulus: a refill in the middle of a pair or of an
\* element loses no bit and repeats none (grain.rs, next and next_field_element).
THEOREM ElementsHold == GrainSpec => []ElementsOfStream
<1>1. GrainInv => ElementsOfStream
  <2> SUFFICES ASSUME GrainInv, discards = 0
               PROVE  LET n == Len(Shrunk) - Len(bits)
                      IN  /\ n % NumBits = 0
                          /\ bits = SubSeq(Shrunk, n + 1, Len(Shrunk))
                          /\ elements = ElementsOf(Shrunk, n \div NumBits)
    BY DEF ElementsOfStream
  <2>1. PICK m \in Nat : InGroup(m)
    BY DEF GrainInv, Reading
  <2> DEFINE a == m * NumBits
             n == Len(Shrunk) - Len(bits)
  <2>2. NumBits \in Nat \ {0} /\ a \in Nat
    BY GrainAssumption
  <2>3. /\ Len(Shrunk) = a + Len(bits) /\ bits = SubSeq(Shrunk, a + 1, Len(Shrunk))
        /\ elements = ElementsOf(Shrunk, m)
    BY <2>1 DEF InGroup
  <2>4. Len(bits) \in Nat
    BY BitSeqType DEF GrainInv, Typed
  <2>5. n = a
    <3> HIDE DEF a
    <3> QED
      BY <2>2, <2>3, <2>4
  <2>6. (m * NumBits + 0) % NumBits = 0 /\ (m * NumBits + 0) \div NumBits = m
    <3>1. 0 \in 0 .. NumBits - 1
      BY <2>2
    <3> QED
      BY <2>2, <3>1, ValueRec!Remainder
  <2>7. a + 0 = a
    BY <2>2
  <2>8. a % NumBits = 0 /\ a \div NumBits = m
    BY <2>6, <2>7
  <2> HIDE DEF a, n
  <2> QED
    BY <2>3, <2>5, <2>8 DEF n
<1> QED
  BY <1>1, GrainInvariant, PTL
=============================================================================
