---------------------------- MODULE NatRecursion ----------------------------
(***************************************************************************)
(* Induction, primitive recursion and division over Nat, in the forms the  *)
(* proofs of the components need.  Step is a constant of the module:       *)
(* INSTANCE gives it the step of one recursive definition, and RecEquation *)
(* then says that a function with that recursive equation exists.          *)
(***************************************************************************)
EXTENDS Integers, FiniteSetTheorems, TLAPS

CONSTANT Step(_, _, _)  \* Step(p, n, F[n]) is F[n + 1], for a parameter p

Approx(p, base, f, n) ==
    f = [l \in 0 .. n |-> IF l = 0 THEN base ELSE Step(p, l - 1, f[l - 1])]

Rec(p, base) == [n \in Nat |-> (CHOOSE f : Approx(p, base, f, n))[n]]

-----------------------------------------------------------------------------
(* Induction with the property given as a set: the numbers below a missing *)
(* one would be mapped one to one, but not onto, by the predecessor.       *)
THEOREM SetInduction ==
    ASSUME NEW S, 0 \in S, \A n \in Nat : n \in S => n + 1 \in S
    PROVE  \A n \in Nat : n \in S
<1>1. SUFFICES ASSUME NEW n \in Nat, n \notin S PROVE FALSE
  OBVIOUS
<1> DEFINE T == {m \in 0 .. n : m \notin S}
           f == [m \in T |-> m - 1]
<1>2. IsFiniteSet(T) /\ T \in SUBSET (0 .. n)
  BY FS_Interval, FS_Subset, 0 \in Int, n \in Int, T \in SUBSET (0 .. n)
<1>3. \A m \in T : m - 1 \in T
  <2> TAKE m \in T
  <2>1. m # 0
    BY <1>1
  <2>2. m - 1 \in Nat /\ m - 1 \in 0 .. n
    BY <2>1
  <2>3. m - 1 \notin S
    BY <2>2, m = (m - 1) + 1
  <2> QED
    BY <2>2, <2>3
<1>4. f \in Injection(T, T)
  <2>1. f \in [T -> T]
    BY <1>3
  <2>2. \A a, b \in T : f[a] = f[b] => a = b
    OBVIOUS
  <2> QED
    BY <2>1, <2>2 DEF Injection, IsInjective
<1>5. f \in Surjection(T, T)
  BY <1>2, <1>4, FS_Injection
<1>6. n \in T
  BY <1>1
<1>7. \E m \in T : f[m] = n
  BY <1>5, <1>6 DEF Surjection
<1> QED
  BY <1>7

\* There is an approximation of the recursion up to every number.
LEMMA ApproxExists ==
    ASSUME NEW p, NEW base
    PROVE  \A n \in Nat : \E f : Approx(p, base, f, n)
<1> DEFINE S == {n \in Nat : \E f : Approx(p, base, f, n)}
<1>1. 0 \in S
  <2>1. Approx(p, base, [l \in 0 .. 0 |-> base], 0)
    BY DEF Approx
  <2> QED
    BY <2>1
<1>2. ASSUME NEW n \in Nat, n \in S PROVE n + 1 \in S
  <2>1. PICK f : Approx(p, base, f, n)
    BY <1>2
  <2> DEFINE g == [l \in 0 .. n + 1 |-> IF l = n + 1 THEN Step(p, n, f[n]) ELSE f[l]]
  <2>2. ASSUME NEW l \in 0 .. n + 1
        PROVE  g[l] = IF l = 0 THEN base ELSE Step(p, l - 1, g[l - 1])
    <3>1. CASE l = n + 1
      BY <3>1, g[n] = f[n], (n + 1) - 1 = n
    <3>2. CASE l \in 0 .. n
      <4>1. f[l] = IF l = 0 THEN base ELSE Step(p, l - 1, f[l - 1])
        BY <2>1, <3>2 DEF Approx
      <4>2. g[l] = f[l] /\ (l # 0 => g[l - 1] = f[l - 1])
        BY <3>2
      <4> HIDE DEF g
      <4> QED
        BY <4>1, <4>2
    <3> QED
      BY <3>1, <3>2
  <2>3. g = [l \in 0 .. n + 1 |-> g[l]]
    OBVIOUS
  <2> HIDE DEF g
  <2>4. Approx(p, base, g, n + 1)
    BY <2>2, <2>3 DEF Approx
  <2> QED
    BY <2>4
<1> HIDE DEF S
<1>3. \A n \in Nat : n \in S
  BY <1>1, <1>2, SetInduction
<1> QED
  BY <1>3 DEF S

\* Two approximations agree wherever both are defined.
LEMMA ApproxAgree ==
    ASSUME NEW p, NEW base, NEW m \in Nat, NEW n \in Nat, NEW f, NEW g,
           Approx(p, base, f, m), Approx(p, base, g, n)
    PROVE  \A k \in Nat : k <= m /\ k <= n => f[k] = g[k]
<1> DEFINE S == {k \in Nat : k <= m /\ k <= n => f[k] = g[k]}
<1>1. 0 \in S
  BY DEF Approx
<1>2. ASSUME NEW k \in Nat, k \in S PROVE k + 1 \in S
  <2> SUFFICES ASSUME k + 1 <= m, k + 1 <= n PROVE f[k + 1] = g[k + 1]
    OBVIOUS
  <2>1. f[k] = g[k]
    BY <1>2
  <2>2. f[k + 1] = Step(p, (k + 1) - 1, f[(k + 1) - 1])
    BY DEF Approx
  <2>3. g[k + 1] = Step(p, (k + 1) - 1, g[(k + 1) - 1])
    BY DEF Approx
  <2> QED
    BY <2>1, <2>2, <2>3, (k + 1) - 1 = k
<1> HIDE DEF S
<1>3. \A k \in Nat : k \in S
  BY <1>1, <1>2, SetInduction
<1> QED
  BY <1>3 DEF S

(* A function with the recursive equation exists.                          *)
THEOREM RecEquation ==
    ASSUME NEW p, NEW base
    PROVE  Rec(p, base) =
             [l \in Nat |-> IF l = 0 THEN base
                            ELSE Step(p, l - 1, Rec(p, base)[l - 1])]
<1> DEFINE A(n) == CHOOSE f : Approx(p, base, f, n)
           R == Rec(p, base)
<1>1. \A n \in Nat : Approx(p, base, A(n), n)
  BY ApproxExists
<1>2. R = [l \in Nat |-> A(l)[l]]
  BY DEF Rec
<1> HIDE DEF A, R
<1>3. ASSUME NEW l \in Nat
      PROVE  A(l)[l] = IF l = 0 THEN base ELSE Step(p, l - 1, R[l - 1])
  <2>1. CASE l = 0
    BY <1>1, <2>1 DEF Approx
  <2>2. CASE l # 0
    <3>1. A(l)[l] = Step(p, l - 1, A(l)[l - 1])
      BY <1>1, <2>2 DEF Approx
    <3>2. l - 1 \in Nat /\ l - 1 <= l
      BY <2>2
    <3>3. A(l)[l - 1] = A(l - 1)[l - 1]
      BY <1>1, <3>2, ApproxAgree
    <3>4. R[l - 1] = A(l - 1)[l - 1]
      BY <1>2, <3>2
    <3> QED
      BY <2>2, <3>1, <3>3, <3>4
  <2> QED
    BY <2>1, <2>2
<1> QED
  BY <1>2, <1>3 DEF R

\* A function with that equation up to a number is part of this one.
LEMMA ApproxIsRec ==
    ASSUME NEW p, NEW base, NEW n \in Nat, NEW f, Approx(p, base, f, n)
    PROVE  \A k \in 0 .. n : f[k] = Rec(p, base)[k]
<1> TAKE k \in 0 .. n
<1> DEFINE A(m) == CHOOSE g : Approx(p, base, g, m)
<1>1. k \in Nat /\ k <= n
  OBVIOUS
<1>2. Approx(p, base, A(k), k)
  BY <1>1, ApproxExists
<1>3. Rec(p, base)[k] = A(k)[k]
  BY <1>1 DEF Rec
<1> HIDE DEF A
<1>4. f[k] = A(k)[k]
  BY <1>1, <1>2, ApproxAgree
<1> QED
  BY <1>3, <1>4

-----------------------------------------------------------------------------
(* Division.                                                               *)

\* A number is a quotient times a divisor and a remainder in one way only.
LEMMA Divided ==
    ASSUME NEW R \in Nat \ {0}, NEW b \in Nat, NEW c \in Nat,
           NEW r \in 0 .. R - 1, NEW q \in 0 .. R - 1, b * R + r = c * R + q
    PROVE  b = c /\ r = q
<1>1. ~(b < c)
  <2> SUFFICES ASSUME b < c PROVE FALSE
    OBVIOUS
  <2>1. c - b - 1 \in Nat /\ (c - b - 1) * R >= 0
    OBVIOUS
  <2>2. c * R = b * R + R + (c - b - 1) * R
    OBVIOUS
  <2> QED
    BY <2>1, <2>2
<1>2. ~(c < b)
  <2> SUFFICES ASSUME c < b PROVE FALSE
    OBVIOUS
  <2>1. b - c - 1 \in Nat /\ (b - c - 1) * R >= 0
    OBVIOUS
  <2>2. b * R = c * R + R + (b - c - 1) * R
    OBVIOUS
  <2> QED
    BY <2>1, <2>2
<1>3. b = c
  BY <1>1, <1>2
<1> QED
  BY <1>3

\* Quotient and remainder of a number that is given by them.
LEMMA Remainder ==
    ASSUME NEW R \in Nat \ {0}, NEW b \in Nat, NEW r \in 0 .. R - 1
    PROVE  (b * R + r) % R = r /\ (b * R + r) \div R = b
<1> DEFINE a == b * R + r
           c == a \div R
           q == a % R
<1>1. a \in Nat
  OBVIOUS
<1> HIDE DEF a
<1>2. c \in Nat /\ q \in 0 .. R - 1 /\ a = R * c + q
  BY <1>1
<1> HIDE DEF c, q
<1>3. b * R + r = c * R + q
  <2>1. R * c = c * R
    BY <1>2
  <2> QED
    BY <1>2, <2>1 DEF a
<1>4. r = q /\ b = c
  BY <1>2, <1>3, Divided
<1> QED
  BY <1>4 DEF q, c, a

\* A number is its quotient times the divisor plus its remainder.
LEMMA ModEquation ==
    ASSUME NEW m \in Nat \ {0}, NEW x \in Int
    PROVE  /\ x % m \in 0 .. m - 1
           /\ x \div m \in Int
           /\ x = m * (x \div m) + (x % m)
  OBVIOUS

\* A product of a difference.
LEMMA Distribute ==
    ASSUME NEW m \in Int, NEW a \in Int, NEW b \in Int, NEW c \in Int
    PROVE  m * (a - b - c) = m * a - m * b - m * c
  OBVIOUS

\* A multiple of a positive number that is smaller in size than it is 0.
LEMMA SmallMultiple ==
    ASSUME NEW m \in Nat \ {0}, NEW d \in Int, m * d < m, - m < m * d
    PROVE  d = 0
<1>1. ~(d >= 1)
  <2>1. SUFFICES ASSUME d >= 1 PROVE FALSE
    OBVIOUS
  <2>2. m * d = m * (d - 1) + m
    OBVIOUS
  <2>3. m * (d - 1) >= 0
    BY <2>1
  <2> QED
    BY <2>2, <2>3
<1>2. ~(d <= -1)
  <2>1. SUFFICES ASSUME d <= -1 PROVE FALSE
    OBVIOUS
  <2>2. m * d = - m - m * (-1 - d)
    OBVIOUS
  <2>3. m * (-1 - d) >= 0
    BY <2>1
  <2> QED
    BY <2>2, <2>3
<1> QED
  BY <1>1, <1>2

\* Numbers that differ by a multiple of the divisor have the same remainder.
LEMMA ModShift ==
    ASSUME NEW m \in Nat \ {0}, NEW x \in Int, NEW k \in Int
    PROVE  (x + m * k) % m = x % m
<1>1. PICK q1 \in Int, r1 \in 0 .. m - 1 : x = m * q1 + r1 /\ x % m = r1
  BY ModEquation
<1>2. PICK q2 \in Int, r2 \in 0 .. m - 1 :
        x + m * k = m * q2 + r2 /\ (x + m * k) % m = r2
  BY ModEquation, x + m * k \in Int
<1>3. m * (q2 - q1 - k) = r1 - r2
  BY <1>1, <1>2, Distribute
<1>4. q2 - q1 - k = 0
  <2>1. r1 - r2 < m /\ - m < r1 - r2
    OBVIOUS
  <2> QED
    BY <1>3, <2>1, SmallMultiple, q2 - q1 - k \in Int
<1>5. r1 = r2
  BY <1>3, <1>4
<1> QED
  BY <1>1, <1>2, <1>5

\* A remainder that is left in a linear term changes no remainder of the whole.
LEMMA ModAbsorb ==
    ASSUME NEW m \in Nat \ {0}, NEW x \in Int, NEW y \in Int, NEW q \in Int
    PROVE  ((x % m) + (y % m) * q) % m = (x + y * q) % m
<1>1. PICK q1 \in Int, r1 \in 0 .. m - 1 : x = m * q1 + r1 /\ x % m = r1
  BY ModEquation
<1>2. PICK q2 \in Int, r2 \in 0 .. m - 1 : y = m * q2 + r2 /\ y % m = r2
  BY ModEquation
<1>3. x + y * q = (r1 + r2 * q) + m * (q1 + q2 * q)
  <2>1. (m * q2 + r2) * q = m * (q2 * q) + r2 * q
    OBVIOUS
  <2>2. m * (q1 + q2 * q) = m * q1 + m * (q2 * q)
    OBVIOUS
  <2> QED
    BY <1>1, <1>2, <2>1, <2>2
<1>4. r1 + r2 * q \in Int /\ q1 + q2 * q \in Int
  OBVIOUS
<1>5. ((r1 + r2 * q) + m * (q1 + q2 * q)) % m = (r1 + r2 * q) % m
  BY <1>4, ModShift
<1>6. (x + y * q) % m = (r1 + r2 * q) % m
  BY <1>3, <1>5
<1> QED
  BY <1>1, <1>2, <1>6

\* The terms of a sum may be reduced first.
LEMMA ModSum ==
    ASSUME NEW m \in Nat \ {0}, NEW x \in Int, NEW y \in Int
    PROVE  ((x % m) + (y % m)) % m = (x + y) % m
<1> DEFINE z == y % m
<1>1. z \in Int
  BY ModEquation
<1>2. \A q \in Int : ((x % m) + z * q) % m = (x + y * q) % m
  BY ModAbsorb
<1> HIDE DEF z
<1>3. z * 1 = z /\ y * 1 = y
  BY <1>1
<1> QED
  BY <1>2, <1>3, 1 \in Int DEF z
=============================================================================
