--------------------------- MODULE CalldataProofs ----------------------------
(***************************************************************************)
(* What is encoded is read back: for every type and every value that fits  *)
(* it, whatever its length; then for actions, private calls and the        *)
(* parameters of every call and log.  With that, for any number of         *)
(* transactions and any hash: what an indexer rebuilds of a pool is what   *)
(* the wallets sent and the pool accepted (Indexing), and the two relayers *)
(* of a swap and its coordinator agree on it (Swap).                       *)
(***************************************************************************)
EXTENDS Swap, Indexing, SequenceTheorems, TLAPS

-----------------------------------------------------------------------------
(* Sequences of anything.                                                  *)

IsSeq(s) == \E S : s \in Seq(S)

LEMMA SeqFacts ==
    ASSUME NEW s, IsSeq(s)
    PROVE  Len(s) \in Nat /\ DOMAIN s = 1 .. Len(s) /\ s = [i \in 1 .. Len(s) |-> s[i]]
BY LenProperties DEF IsSeq

LEMMA FunctionIsSeq ==
    ASSUME NEW n \in Nat, NEW f, f = [i \in 1 .. n |-> f[i]]
    PROVE  IsSeq(f) /\ Len(f) = n /\ DOMAIN f = 1 .. n
<1>1. f \in [1 .. n -> {f[i] : i \in 1 .. n}]
  OBVIOUS
<1>2. f \in Seq({f[i] : i \in 1 .. n})
  BY <1>1
<1>3. Len(f) \in Nat /\ DOMAIN f = 1 .. Len(f) /\ DOMAIN f = 1 .. n
  BY <1>1, <1>2, LenProperties
<1>4. Len(f) = n
  BY <1>3
<1> QED
  BY <1>2, <1>3, <1>4 DEF IsSeq

LEMMA SeqEquality ==
    ASSUME NEW s, NEW t, IsSeq(s), IsSeq(t), Len(s) = Len(t),
           \A i \in 1 .. Len(s) : s[i] = t[i]
    PROVE  s = t
BY SeqFacts

\* One set for the elements of both.
LEMMA CommonSet ==
    ASSUME NEW s, NEW t, IsSeq(s), IsSeq(t)
    PROVE  \E S : s \in Seq(S) /\ t \in Seq(S)
<1>1. PICK A : s \in Seq(A)
  BY DEF IsSeq
<1>2. PICK B : t \in Seq(B)
  BY DEF IsSeq
<1> QED
  BY <1>1, <1>2, SeqMonotonic, A \subseteq A \cup B, B \subseteq A \cup B

LEMMA ConcatIsSeq ==
    ASSUME NEW s, NEW t, IsSeq(s), IsSeq(t)
    PROVE  /\ IsSeq(s \o t) /\ Len(s \o t) = Len(s) + Len(t)
           /\ \A i \in 1 .. Len(s) : (s \o t)[i] = s[i]
           /\ \A i \in 1 .. Len(t) : (s \o t)[Len(s) + i] = t[i]
<1>1. PICK S : s \in Seq(S) /\ t \in Seq(S)
  BY CommonSet
<1>2. Len(s) \in Nat /\ Len(t) \in Nat
  BY SeqFacts
<1>3. /\ s \o t \in Seq(S) /\ Len(s \o t) = Len(s) + Len(t)
      /\ \A i \in 1 .. Len(s) + Len(t) :
           (s \o t)[i] = IF i <= Len(s) THEN s[i] ELSE t[i - Len(s)]
  BY <1>1, ConcatProperties
<1>4. \A i \in 1 .. Len(s) : (s \o t)[i] = s[i]
  BY <1>2, <1>3
<1>5. ASSUME NEW i \in 1 .. Len(t) PROVE (s \o t)[Len(s) + i] = t[i]
  <2>1. /\ Len(s) + i \in 1 .. Len(s) + Len(t) /\ ~(Len(s) + i <= Len(s))
        /\ (Len(s) + i) - Len(s) = i
    BY <1>2
  <2> QED
    BY <1>3, <2>1
<1> QED
  BY <1>3, <1>4, <1>5 DEF IsSeq

LEMMA AppendIsSeq ==
    ASSUME NEW f, NEW e, IsSeq(f)
    PROVE  /\ IsSeq(Append(f, e)) /\ Len(f) \in Nat /\ Len(Append(f, e)) = Len(f) + 1
           /\ \A k \in 1 .. Len(f) : Append(f, e)[k] = f[k]
           /\ Append(f, e)[Len(f) + 1] = e
<1>1. PICK S : f \in Seq(S)
  BY DEF IsSeq
<1>2. f \in Seq(S \cup {e}) /\ e \in S \cup {e}
  BY <1>1
<1>3. Append(f, e) \in Seq(S \cup {e})
  BY <1>2, AppendProperties
<1> QED
  BY <1>2, <1>3, AppendProperties, LenProperties DEF IsSeq

LEMMA SubSeqIsSeq ==
    ASSUME NEW s, IsSeq(s), NEW m \in Nat, NEW n \in Nat, m >= 1, n <= Len(s), m <= n + 1
    PROVE  /\ IsSeq(SubSeq(s, m, n)) /\ Len(SubSeq(s, m, n)) = n - m + 1
           /\ \A i \in 1 .. n - m + 1 : SubSeq(s, m, n)[i] = s[m + i - 1]
<1>1. PICK S : s \in Seq(S)
  BY DEF IsSeq
<1>2. Len(s) \in Nat /\ \A i \in m .. n : i \in 1 .. Len(s)
  BY SeqFacts
<1>3. \A i \in m .. n : s[i] \in S
  BY <1>1, <1>2, ElementOfSeq
<1>4. /\ SubSeq(s, m, n) \in Seq(S)
      /\ Len(SubSeq(s, m, n)) = IF m <= n THEN n - m + 1 ELSE 0
      /\ \A i \in 1 .. n - m + 1 : SubSeq(s, m, n)[i] = s[m + i - 1]
  BY <1>3, SubSeqProperties
<1>5. Len(SubSeq(s, m, n)) = n - m + 1
  BY <1>4
<1> QED
  BY <1>4, <1>5 DEF IsSeq

LEMMA PrefixIsSeq ==
    ASSUME NEW s, IsSeq(s), NEW n \in Nat, n <= Len(s)
    PROVE  /\ IsSeq(SubSeq(s, 1, n)) /\ Len(SubSeq(s, 1, n)) = n
           /\ \A i \in 1 .. n : SubSeq(s, 1, n)[i] = s[i]
<1>1. 1 \in Nat /\ 1 >= 1 /\ 1 <= n + 1
  OBVIOUS
<1>2. /\ IsSeq(SubSeq(s, 1, n)) /\ Len(SubSeq(s, 1, n)) = n - 1 + 1
      /\ \A i \in 1 .. n - 1 + 1 : SubSeq(s, 1, n)[i] = s[1 + i - 1]
  BY <1>1, SubSeqIsSeq
<1>3. n - 1 + 1 = n /\ \A i \in 1 .. n : 1 + i - 1 = i
  OBVIOUS
<1> QED
  BY <1>2, <1>3

\* Listing a sequence changes nothing.
LEMMA ListedIs ==
    ASSUME NEW s, IsSeq(s)
    PROVE  Listed(s) = s
<1>1. Len(s) \in Nat
  BY SeqFacts
<1>2. /\ IsSeq(SubSeq(s, 1, Len(s))) /\ Len(SubSeq(s, 1, Len(s))) = Len(s)
      /\ \A i \in 1 .. Len(s) : SubSeq(s, 1, Len(s))[i] = s[i]
  BY <1>1, PrefixIsSeq
<1> QED
  BY <1>1, <1>2, SeqEquality DEF Listed

-----------------------------------------------------------------------------
(* The recursive definitions, as equations.                                *)

WidthStep(ts, n, prev) == prev + ts[n + 1].width
LengthStep(parts, n, prev) == prev + Len(parts[n + 1])
JoinStep(parts, n, prev) == prev \o parts[n + 2]

WidthRec == INSTANCE NatRecursion WITH Step <- WidthStep
LengthRec == INSTANCE NatRecursion WITH Step <- LengthStep
JoinRec == INSTANCE NatRecursion WITH Step <- JoinStep

LEMMA HeadEndEquation ==
    ASSUME NEW ts, Len(ts) \in Nat
    PROVE  /\ HeadEnd(ts)[0] = 0
           /\ \A i \in 1 .. Len(ts) : HeadEnd(ts)[i] = HeadEnd(ts)[i - 1] + ts[i].width
<1> DEFINE n == Len(ts)
           Eq(W) == W = [i \in 0 .. n |-> IF i = 0 THEN 0 ELSE W[i - 1] + ts[i].width]
           A == CHOOSE W : Eq(W)
<1>1. HeadEnd(ts) = A
  BY DEF HeadEnd
<1>2. ASSUME NEW W PROVE Eq(W) <=> WidthRec!Approx(ts, 0, W, n)
  <2> DEFINE f == [i \in 0 .. n |-> IF i = 0 THEN 0 ELSE W[i - 1] + ts[i].width]
             g == [i \in 0 .. n |-> IF i = 0 THEN 0 ELSE WidthStep(ts, i - 1, W[i - 1])]
  <2>1. \A i \in 0 .. n : f[i] = g[i]
    BY DEF WidthStep
  <2>2. f = g
    BY <2>1
  <2> HIDE DEF f, g
  <2>3. Eq(W) <=> W = f
    BY DEF f
  <2>4. WidthRec!Approx(ts, 0, W, n) <=> W = g
    BY DEF g, WidthRec!Approx
  <2> QED
    BY <2>2, <2>3, <2>4
<1> HIDE DEF Eq
<1>3. Eq(A)
  <2>1. \E W : Eq(W)
    BY <1>2, WidthRec!ApproxExists
  <2> QED
    BY <2>1
<1> HIDE DEF A
<1>4. A = [i \in 0 .. n |-> IF i = 0 THEN 0 ELSE A[i - 1] + ts[i].width]
  BY <1>3 DEF Eq
<1>5. A[0] = 0
  BY <1>4
<1>6. ASSUME NEW i \in 1 .. n PROVE A[i] = A[i - 1] + ts[i].width
  BY <1>4, i \in 0 .. n, i # 0
<1> QED
  BY <1>1, <1>5, <1>6

\* Where the parts of a sequence of sequences end.
Ends(parts) == LengthRec!Rec(parts, 0)

LEMMA EndsEquation ==
    ASSUME NEW parts
    PROVE  /\ Ends(parts)[0] = 0
           /\ \A i \in Nat : Ends(parts)[i + 1] = Ends(parts)[i] + Len(parts[i + 1])
<1> DEFINE R == LengthRec!Rec(parts, 0)
<1>1. R = [i \in Nat |-> IF i = 0 THEN 0 ELSE LengthStep(parts, i - 1, R[i - 1])]
  BY LengthRec!RecEquation
<1> HIDE DEF R
<1>2. R[0] = 0
  BY <1>1
<1>3. ASSUME NEW i \in Nat PROVE R[i + 1] = R[i] + Len(parts[i + 1])
  <2>1. i + 1 \in Nat /\ i + 1 # 0 /\ (i + 1) - 1 = i
    OBVIOUS
  <2>2. R[i + 1] = LengthStep(parts, i, R[i])
    BY <1>1, <2>1
  <2> QED
    BY <2>2 DEF LengthStep
<1> QED
  BY <1>2, <1>3 DEF R, Ends

LEMMA JoinEquation ==
    ASSUME NEW parts, Len(parts) \in Nat \ {0}
    PROVE  \E R : /\ FlattenSeq(parts) = R[Len(parts)]
                  /\ R[1] = parts[1]
                  /\ \A i \in 2 .. Len(parts) : R[i] = R[i - 1] \o parts[i]
<1> DEFINE n == Len(parts)
           Eq(f) == f = [i \in 1 .. n |-> IF i = 1 THEN parts[i] ELSE f[i - 1] \o parts[i]]
           A == CHOOSE f : Eq(f)
           R == JoinRec!Rec(parts, parts[1])
           g == [i \in 1 .. n |-> R[i - 1]]
<1>1. FlattenSeq(parts) = A[n]
  BY DEF FlattenSeq
<1>2. R = [i \in Nat |-> IF i = 0 THEN parts[1] ELSE JoinStep(parts, i - 1, R[i - 1])]
  BY JoinRec!RecEquation
<1> HIDE DEF R
<1>3. Eq(g)
  <2> DEFINE h == [i \in 1 .. n |-> IF i = 1 THEN parts[i] ELSE g[i - 1] \o parts[i]]
  <2>1. ASSUME NEW i \in 1 .. n PROVE g[i] = h[i]
    <3>1. CASE i = 1
      BY <1>2, <3>1
    <3>2. CASE i # 1
      <4>1. i - 1 \in Nat /\ i - 1 # 0 /\ i - 1 \in 1 .. n /\ (i - 1) - 1 + 2 = i
        BY <3>2
      <4>2. R[i - 1] = JoinStep(parts, (i - 1) - 1, R[(i - 1) - 1])
        BY <1>2, <4>1
      <4>3. g[i] = R[i - 1] /\ g[i - 1] = R[(i - 1) - 1]
        BY <4>1
      <4> QED
        BY <3>2, <4>1, <4>2, <4>3 DEF JoinStep
    <3> QED
      BY <3>1, <3>2
  <2>2. g = h
    BY <2>1
  <2> HIDE DEF h, g
  <2> QED
    BY <2>2 DEF h
<1> HIDE DEF Eq, g
<1>4. Eq(A)
  BY <1>3
<1> HIDE DEF A
<1>5. A = [i \in 1 .. n |-> IF i = 1 THEN parts[i] ELSE A[i - 1] \o parts[i]]
  BY <1>4 DEF Eq
<1>6. A[1] = parts[1]
  BY <1>5, n \in Nat \ {0}, 1 \in 1 .. n
<1>7. ASSUME NEW i \in 2 .. n PROVE A[i] = A[i - 1] \o parts[i]
  BY <1>5, n \in Nat \ {0}, i \in 1 .. n, i # 1
<1> QED
  BY <1>1, <1>6, <1>7

-----------------------------------------------------------------------------
(* Words in their places.                                                  *)

\* The words of s are in data, from a place on.
Holds(data, at, s) ==
    at + Len(s) <= Len(data) /\ \A i \in 1 .. Len(s) : data[at + i] = s[i]

LEMMA HoldsWithin ==
    ASSUME NEW data, NEW s, NEW t, NEW at \in Nat, NEW inner \in Nat,
           IsSeq(data), IsSeq(s), IsSeq(t), Holds(data, at, s), Holds(s, inner, t)
    PROVE  Holds(data, at + inner, t)
<1>1. Len(data) \in Nat /\ Len(s) \in Nat /\ Len(t) \in Nat
  BY SeqFacts
<1>2. at + Len(s) <= Len(data) /\ inner + Len(t) <= Len(s)
  BY DEF Holds
<1>3. at + inner + Len(t) <= Len(data)
  BY <1>1, <1>2
<1>4. ASSUME NEW i \in 1 .. Len(t) PROVE data[at + inner + i] = t[i]
  <2>1. inner + i \in 1 .. Len(s) /\ at + (inner + i) = at + inner + i
    BY <1>1, <1>2
  <2>2. data[at + (inner + i)] = s[inner + i]
    BY <2>1 DEF Holds
  <2>3. s[inner + i] = t[i]
    BY DEF Holds
  <2> QED
    BY <2>1, <2>2, <2>3
<1> QED
  BY <1>3, <1>4 DEF Holds

LEMMA HoldsConcat ==
    ASSUME NEW s, NEW t, IsSeq(s), IsSeq(t)
    PROVE  Holds(s \o t, 0, s) /\ Holds(s \o t, Len(s), t)
<1>1. Len(s) \in Nat /\ Len(t) \in Nat /\ \A i \in 1 .. Len(s) : 0 + i = i
  BY SeqFacts
<1>2. /\ Len(s \o t) = Len(s) + Len(t)
      /\ \A i \in 1 .. Len(s) : (s \o t)[i] = s[i]
      /\ \A i \in 1 .. Len(t) : (s \o t)[Len(s) + i] = t[i]
  BY ConcatIsSeq
<1> QED
  BY <1>1, <1>2 DEF Holds

Parts(parts) == IsSeq(parts) /\ \A i \in 1 .. Len(parts) : IsSeq(parts[i])

LEMMA EndsGrow ==
    ASSUME NEW parts, Parts(parts)
    PROVE  \A i \in 0 .. Len(parts) :
             Ends(parts)[i] \in Nat /\ \A j \in 0 .. i : Ends(parts)[j] <= Ends(parts)[i]
<1> DEFINE E == Ends(parts)
           n == Len(parts)
           S == {i \in Nat : i <= n => E[i] \in Nat /\ \A j \in 0 .. i : E[j] \in Nat /\ E[j] <= E[i]}
<1>1. n \in Nat
  BY SeqFacts DEF Parts
<1>2. E[0] = 0 /\ \A i \in Nat : E[i + 1] = E[i] + Len(parts[i + 1])
  BY EndsEquation
<1> HIDE DEF E
<1>3. 0 \in S
  BY <1>2
<1>4. ASSUME NEW i \in Nat, i \in S PROVE i + 1 \in S
  <2> SUFFICES ASSUME i + 1 <= n
               PROVE  E[i + 1] \in Nat /\ \A j \in 0 .. i + 1 : E[j] \in Nat /\ E[j] <= E[i + 1]
    OBVIOUS
  <2>1. i + 1 \in 1 .. n /\ i <= n
    BY <1>1
  <2>2. Len(parts[i + 1]) \in Nat
    BY <2>1, SeqFacts DEF Parts
  <2>3. E[i] \in Nat /\ \A j \in 0 .. i : E[j] \in Nat /\ E[j] <= E[i]
    BY <1>4, <2>1
  <2>4. E[i + 1] \in Nat /\ E[i] <= E[i + 1]
    <3>1. E[i + 1] = E[i] + Len(parts[i + 1])
      BY <1>2
    <3>2. E[i] \in Nat
      BY <2>3
    <3> QED
      BY <2>2, <3>1, <3>2
  <2>5. ASSUME NEW j \in 0 .. i + 1 PROVE E[j] \in Nat /\ E[j] <= E[i + 1]
    <3>1. CASE j = i + 1
      BY <2>4, <3>1
    <3>2. CASE j # i + 1
      <4>1. j \in 0 .. i
        BY <3>2
      <4> QED
        BY <2>3, <2>4, <4>1
    <3> QED
      BY <3>1, <3>2
  <2> QED
    BY <2>4, <2>5
<1> HIDE DEF S
<1>5. \A i \in Nat : i \in S
  BY <1>3, <1>4, LengthRec!SetInduction
<1> QED
  BY <1>1, <1>5 DEF S, E

\* Joined, every part is where the parts before it end.
LEMMA FlattenHolds ==
    ASSUME NEW parts, Parts(parts)
    PROVE  /\ IsSeq(FlattenSeq(parts))
           /\ Len(FlattenSeq(parts)) = Ends(parts)[Len(parts)]
           /\ \A i \in 1 .. Len(parts) : Holds(FlattenSeq(parts), Ends(parts)[i - 1], parts[i])
<1> DEFINE n == Len(parts)
           E == Ends(parts)
<1>1. n \in Nat /\ \A i \in 1 .. n : IsSeq(parts[i]) /\ Len(parts[i]) \in Nat
  BY SeqFacts DEF Parts
<1>2. E[0] = 0 /\ \A i \in Nat : E[i + 1] = E[i] + Len(parts[i + 1])
  BY EndsEquation
<1>3. \A i \in 0 .. n : E[i] \in Nat
  BY EndsGrow
<1> HIDE DEF E
<1>4. CASE n = 0
  <2>1. FlattenSeq(parts) = parts /\ IsSeq(parts)
    BY <1>4 DEF FlattenSeq, Parts
  <2>2. Len(FlattenSeq(parts)) = E[n]
    BY <1>2, <1>4, <2>1
  <2>3. \A i \in 1 .. n : FALSE
    BY <1>4
  <2> QED
    BY <2>1, <2>2, <2>3 DEF E
<1>5. CASE n # 0
  <2>1. PICK R : /\ FlattenSeq(parts) = R[n] /\ R[1] = parts[1]
                 /\ \A i \in 2 .. n : R[i] = R[i - 1] \o parts[i]
    BY <1>1, <1>5, JoinEquation, n \in Nat \ {0}
  <2> DEFINE Good(k) == /\ IsSeq(R[k]) /\ Len(R[k]) = E[k]
                        /\ \A i \in 1 .. k : Holds(R[k], E[i - 1], parts[i])
             S == {k \in Nat : k < n => Good(k + 1)}
  <2>2. 0 \in S
    <3>1. IsSeq(R[1])
      BY <1>1, <1>5, <2>1, 1 \in 1 .. n
    <3>2. E[0 + 1] = E[0] + Len(parts[0 + 1])
      BY <1>2
    <3>3. Len(R[1]) = E[1]
      BY <1>1, <1>2, <1>5, <2>1, <3>2, 1 \in 1 .. n
    <3>4. Holds(R[1], E[0], parts[1])
      <4>1. \A i \in 1 .. Len(parts[1]) : 0 + i = i
        OBVIOUS
      <4>2. Len(parts[1]) \in Nat
        BY <1>1, <1>5, 1 \in 1 .. n
      <4> QED
        BY <1>2, <2>1, <4>1, <4>2 DEF Holds
    <3>5. \A i \in 1 .. 0 + 1 : i = 1 /\ i - 1 = 0
      OBVIOUS
    <3>6. Good(0 + 1)
      BY <3>1, <3>3, <3>4, <3>5
    <3> QED
      BY <3>6
  <2>3. ASSUME NEW k \in Nat, k \in S PROVE k + 1 \in S
    <3> SUFFICES ASSUME k + 1 < n PROVE Good((k + 1) + 1)
      OBVIOUS
    <3>1. /\ k < n /\ k + 2 \in 2 .. n /\ k + 2 \in 1 .. n /\ k + 1 \in 0 .. n
          /\ (k + 2) - 1 = k + 1 /\ (k + 1) + 1 = k + 2 /\ k + 1 \in Nat
      BY <1>1
    <3>2. Good(k + 1)
      BY <2>3, <3>1
    <3>3. R[k + 2] = R[k + 1] \o parts[k + 2]
      BY <2>1, <3>1
    <3>4. IsSeq(R[k + 1]) /\ IsSeq(parts[k + 2]) /\ Len(parts[k + 2]) \in Nat
      BY <1>1, <3>1, <3>2
    <3>5. IsSeq(R[k + 2]) /\ Len(R[k + 2]) = E[k + 2]
      <4>1. E[k + 2] = E[k + 1] + Len(parts[k + 2])
        BY <1>2, <3>1
      <4>2. Len(R[k + 1]) = E[k + 1]
        BY <3>2
      <4>3. /\ IsSeq(R[k + 1] \o parts[k + 2])
            /\ Len(R[k + 1] \o parts[k + 2]) = Len(R[k + 1]) + Len(parts[k + 2])
        BY <3>4, ConcatIsSeq
      <4> QED
        BY <3>3, <4>1, <4>2, <4>3
    <3>6. Holds(R[k + 2], 0, R[k + 1]) /\ Holds(R[k + 2], E[k + 1], parts[k + 2])
      BY <3>2, <3>3, <3>4, HoldsConcat
    <3>7. ASSUME NEW i \in 1 .. k + 2 PROVE Holds(R[k + 2], E[i - 1], parts[i])
      <4>1. CASE i = k + 2
        BY <3>1, <3>6, <4>1
      <4>2. CASE i # k + 2
        <5>1. i \in 1 .. k + 1 /\ i - 1 \in 0 .. n /\ i \in 1 .. n
          BY <3>1, <4>2
        <5>2. Holds(R[k + 1], E[i - 1], parts[i]) /\ E[i - 1] \in Nat /\ IsSeq(parts[i])
          BY <1>1, <1>3, <3>2, <5>1
        <5>3. 0 + E[i - 1] = E[i - 1]
          BY <5>2
        <5>4. Holds(R[k + 2], 0 + E[i - 1], parts[i])
          BY <3>4, <3>5, <3>6, <5>2, HoldsWithin, 0 \in Nat
        <5> QED
          BY <5>3, <5>4
      <4> QED
        BY <4>1, <4>2
    <3>8. Good(k + 2)
      BY <3>5, <3>7
    <3> QED
      BY <3>1, <3>8
  <2> HIDE DEF S, Good
  <2>4. \A k \in Nat : k \in S
    BY <2>2, <2>3, LengthRec!SetInduction
  <2>5. n - 1 \in S /\ n - 1 \in Nat /\ n - 1 < n /\ (n - 1) + 1 = n
    BY <1>1, <1>5, <2>4, n - 1 \in Nat
  <2>6. Good(n)
    BY <2>5 DEF S
  <2> QED
    BY <2>1, <2>6 DEF Good, E
<1> QED
  BY <1>4, <1>5

-----------------------------------------------------------------------------
(* Heads and tails.                                                        *)

Types(ts) ==
    /\ IsSeq(ts)
    /\ \A i \in 1 .. Len(ts) : /\ ts[i].dynamic \in BOOLEAN /\ ts[i].width \in Nat \ {0}
                               /\ ts[i].dynamic => ts[i].width = 1

Bodies(ts, bodies) ==
    /\ IsSeq(bodies) /\ Len(bodies) = Len(ts)
    /\ \A i \in 1 .. Len(ts) : /\ IsSeq(bodies[i])
                               /\ ~ts[i].dynamic => Len(bodies[i]) = ts[i].width

\* There is at least a word for every type.
LEMMA HeadEndGrows ==
    ASSUME NEW ts, Types(ts)
    PROVE  \A i \in 0 .. Len(ts) : HeadEnd(ts)[i] \in Nat /\ HeadEnd(ts)[i] >= i
<1> DEFINE n == Len(ts)
           W == HeadEnd(ts)
           S == {i \in Nat : i <= n => W[i] \in Nat /\ W[i] >= i}
<1>1. n \in Nat
  BY SeqFacts DEF Types
<1>2. W[0] = 0 /\ \A i \in 1 .. n : W[i] = W[i - 1] + ts[i].width
  BY <1>1, HeadEndEquation
<1> HIDE DEF W
<1>3. 0 \in S
  BY <1>2
<1>4. ASSUME NEW i \in Nat, i \in S PROVE i + 1 \in S
  <2> SUFFICES ASSUME i + 1 <= n PROVE W[i + 1] \in Nat /\ W[i + 1] >= i + 1
    OBVIOUS
  <2>1. i + 1 \in 1 .. n /\ i <= n /\ (i + 1) - 1 = i
    BY <1>1
  <2>2. W[i + 1] = W[i] + ts[i + 1].width
    BY <1>2, <2>1
  <2>3. ts[i + 1].width \in Nat \ {0} /\ W[i] \in Nat /\ W[i] >= i
    BY <1>4, <2>1 DEF Types
  <2> QED
    BY <2>2, <2>3
<1> HIDE DEF S
<1>5. \A i \in Nat : i \in S
  BY <1>3, <1>4, WidthRec!SetInduction
<1> QED
  BY <1>1, <1>5 DEF S, W

\* Parts as wide as the types end where the types do.
LEMMA EndsOfWidths ==
    ASSUME NEW ts, Types(ts), NEW parts, Len(parts) = Len(ts),
           \A i \in 1 .. Len(ts) : Len(parts[i]) = ts[i].width
    PROVE  \A i \in 0 .. Len(ts) : Ends(parts)[i] = HeadEnd(ts)[i]
<1> DEFINE n == Len(ts)
           W == HeadEnd(ts)
           E == Ends(parts)
           S == {i \in Nat : i <= n => E[i] = W[i]}
<1>1. n \in Nat
  BY SeqFacts DEF Types
<1>2. W[0] = 0 /\ \A i \in 1 .. n : W[i] = W[i - 1] + ts[i].width
  BY <1>1, HeadEndEquation
<1>3. E[0] = 0 /\ \A i \in Nat : E[i + 1] = E[i] + Len(parts[i + 1])
  BY EndsEquation
<1> HIDE DEF W, E
<1>4. 0 \in S
  BY <1>2, <1>3
<1>5. ASSUME NEW i \in Nat, i \in S PROVE i + 1 \in S
  <2> SUFFICES ASSUME i + 1 <= n PROVE E[i + 1] = W[i + 1]
    OBVIOUS
  <2>1. i + 1 \in 1 .. n /\ i <= n /\ (i + 1) - 1 = i
    BY <1>1
  <2>2. W[i + 1] = W[i] + ts[i + 1].width /\ E[i + 1] = E[i] + Len(parts[i + 1])
    BY <1>2, <1>3, <2>1
  <2>3. E[i] = W[i] /\ Len(parts[i + 1]) = ts[i + 1].width
    BY <1>5, <2>1
  <2> QED
    BY <2>2, <2>3
<1> HIDE DEF S
<1>6. \A i \in Nat : i \in S
  BY <1>4, <1>5, WidthRec!SetInduction
<1> QED
  BY <1>1, <1>6 DEF S, W, E

\* The parts before one end where they do among all.
LEMMA EndsOfPrefix ==
    ASSUME NEW parts, Parts(parts), NEW k \in 0 .. Len(parts)
    PROVE  /\ Parts(SubSeq(parts, 1, k)) /\ Len(SubSeq(parts, 1, k)) = k
           /\ Ends(SubSeq(parts, 1, k))[k] = Ends(parts)[k]
<1> DEFINE p == SubSeq(parts, 1, k)
           E == Ends(parts)
           P == Ends(p)
           S == {i \in Nat : i <= k => P[i] = E[i]}
<1>1. Len(parts) \in Nat /\ k \in Nat /\ k <= Len(parts)
  BY SeqFacts DEF Parts
<1>2. IsSeq(p) /\ Len(p) = k /\ \A i \in 1 .. k : p[i] = parts[i]
  <2>1. /\ IsSeq(p) /\ Len(p) = k - 1 + 1
        /\ \A i \in 1 .. k - 1 + 1 : p[i] = parts[1 + i - 1]
    BY <1>1, SubSeqIsSeq, 1 <= k + 1 DEF Parts
  <2>2. k - 1 + 1 = k /\ \A i \in 1 .. k : 1 + i - 1 = i
    BY <1>1
  <2> QED
    BY <2>1, <2>2
<1> HIDE DEF p
<1>3. Parts(p)
  BY <1>1, <1>2 DEF Parts
<1>4. E[0] = 0 /\ \A i \in Nat : E[i + 1] = E[i] + Len(parts[i + 1])
  BY EndsEquation
<1>5. P[0] = 0 /\ \A i \in Nat : P[i + 1] = P[i] + Len(p[i + 1])
  BY EndsEquation
<1> HIDE DEF E, P
<1>6. 0 \in S
  BY <1>4, <1>5
<1>7. ASSUME NEW i \in Nat, i \in S PROVE i + 1 \in S
  <2> SUFFICES ASSUME i + 1 <= k PROVE P[i + 1] = E[i + 1]
    OBVIOUS
  <2>1. i + 1 \in 1 .. k /\ i <= k
    BY <1>1
  <2>2. P[i + 1] = P[i] + Len(p[i + 1]) /\ E[i + 1] = E[i] + Len(parts[i + 1])
    BY <1>4, <1>5
  <2>3. P[i] = E[i] /\ p[i + 1] = parts[i + 1]
    BY <1>2, <1>7, <2>1
  <2> QED
    BY <2>2, <2>3
<1> HIDE DEF S
<1>8. \A i \in Nat : i \in S
  BY <1>6, <1>7, WidthRec!SetInduction
<1>9. P[k] = E[k]
  BY <1>1, <1>8 DEF S
<1> QED
  BY <1>2, <1>3, <1>9 DEF p, E, P

\* A static value is in its place in the head; in that of a dynamic one is where
\* in the tail it is.
LEMMA LayoutHolds ==
    ASSUME NEW ts, NEW bodies, Types(ts), Bodies(ts, bodies)
    PROVE  /\ IsSeq(Layout(ts, bodies)) /\ Len(Layout(ts, bodies)) >= HeadEnd(ts)[Len(ts)]
           /\ \A i \in 1 .. Len(ts) :
                IF ts[i].dynamic
                THEN /\ HeadEnd(ts)[i - 1] < Len(Layout(ts, bodies))
                     /\ \E o \in Nat : /\ Layout(ts, bodies)[HeadEnd(ts)[i - 1] + 1] = Num(o)
                                       /\ Holds(Layout(ts, bodies), o, bodies[i])
                ELSE Holds(Layout(ts, bodies), HeadEnd(ts)[i - 1], bodies[i])
<1> DEFINE n == Len(ts)
           W == HeadEnd(ts)
           rawTail == [i \in DOMAIN ts |-> IF ts[i].dynamic THEN bodies[i] ELSE << >>]
           tail == Listed(rawTail)
           Start(i) == W[n] + Len(FlattenSeq(SubSeq(tail, 1, i - 1)))
           rawHead == [i \in DOMAIN ts |-> IF ts[i].dynamic THEN <<Num(Start(i))>> ELSE bodies[i]]
           head == Listed(rawHead)
           fh == FlattenSeq(head)
           ft == FlattenSeq(tail)
           L == fh \o ft
<1>1. Layout(ts, bodies) = L
  BY DEF Layout
<1>2. /\ n \in Nat /\ DOMAIN ts = 1 .. n
      /\ \A i \in 1 .. n : ts[i].dynamic \in BOOLEAN /\ IsSeq(bodies[i]) /\ Len(bodies[i]) \in Nat
  BY SeqFacts DEF Types, Bodies
<1>3. \A i \in 0 .. n : W[i] \in Nat
  BY HeadEndGrows
<1>4. IsSeq(<< >>) /\ Len(<< >>) = 0
  BY EmptySeq DEF IsSeq
<1>5. /\ Parts(tail) /\ Len(tail) = n
      /\ \A i \in 1 .. n : tail[i] = IF ts[i].dynamic THEN bodies[i] ELSE << >>
  <2>1. IsSeq(rawTail) /\ Len(rawTail) = n
    BY <1>2, FunctionIsSeq
  <2>2. tail = rawTail
    BY <2>1, ListedIs
  <2>3. \A i \in 1 .. n : rawTail[i] = IF ts[i].dynamic THEN bodies[i] ELSE << >>
    BY <1>2
  <2> QED
    BY <1>2, <1>4, <2>1, <2>2, <2>3 DEF Parts
<1> HIDE DEF tail
<1>6. ASSUME NEW i \in 1 .. n
      PROVE  Start(i) \in Nat /\ Start(i) = W[n] + Ends(tail)[i - 1]
  <2>1. i - 1 \in 0 .. Len(tail) /\ n \in 0 .. n
    BY <1>2, <1>5
  <2>2. /\ Parts(SubSeq(tail, 1, i - 1)) /\ Len(SubSeq(tail, 1, i - 1)) = i - 1
        /\ Ends(SubSeq(tail, 1, i - 1))[i - 1] = Ends(tail)[i - 1]
    BY <1>5, <2>1, EndsOfPrefix
  <2>3. Len(FlattenSeq(SubSeq(tail, 1, i - 1))) = Ends(tail)[i - 1]
    BY <2>2, FlattenHolds
  <2>4. Ends(tail)[i - 1] \in Nat
    BY <1>5, <2>1, EndsGrow
  <2> QED
    BY <1>3, <2>1, <2>3, <2>4
<1> HIDE DEF Start
<1>7. /\ Parts(head) /\ Len(head) = n
      /\ \A i \in 1 .. n : head[i] = IF ts[i].dynamic THEN <<Num(Start(i))>> ELSE bodies[i]
  <2>1. IsSeq(rawHead) /\ Len(rawHead) = n
    BY <1>2, FunctionIsSeq
  <2>2. head = rawHead
    BY <2>1, ListedIs
  <2>3. \A i \in 1 .. n : rawHead[i] = IF ts[i].dynamic THEN <<Num(Start(i))>> ELSE bodies[i]
    BY <1>2
  <2>4. \A w : IsSeq(<<w>>)
    BY FunctionIsSeq, 1 \in Nat, \A w : <<w>> = [j \in 1 .. 1 |-> <<w>>[j]]
  <2>5. IsSeq(head) /\ Len(head) = n
    BY <2>1, <2>2
  <2>6. \A i \in 1 .. n : head[i] = IF ts[i].dynamic THEN <<Num(Start(i))>> ELSE bodies[i]
    BY <2>2, <2>3
  <2> HIDE DEF head, rawHead
  <2>7. \A i \in 1 .. n : IsSeq(head[i])
    BY <1>2, <2>4, <2>6
  <2> QED
    BY <2>5, <2>6, <2>7 DEF Parts
<1> HIDE DEF head
<1>8. \A i \in 0 .. n : Ends(head)[i] = W[i]
  <2>1. ASSUME NEW i \in 1 .. n PROVE Len(head[i]) = ts[i].width
    <3>1. CASE ts[i].dynamic
      BY <1>7, <3>1 DEF Types
    <3>2. CASE ~ts[i].dynamic
      BY <1>7, <3>2 DEF Bodies
    <3> QED
      BY <3>1, <3>2
  <2> QED
    BY <1>7, <2>1, EndsOfWidths
<1>9. /\ IsSeq(fh) /\ Len(fh) = W[n]
      /\ \A i \in 1 .. n : Holds(fh, W[i - 1], head[i])
  <2>1. /\ IsSeq(fh) /\ Len(fh) = Ends(head)[n]
        /\ \A i \in 1 .. n : Holds(fh, Ends(head)[i - 1], head[i])
    BY <1>7, FlattenHolds
  <2>2. n \in 0 .. n /\ \A i \in 1 .. n : i - 1 \in 0 .. n
    BY <1>2
  <2> QED
    BY <1>8, <2>1, <2>2
<1>10. /\ IsSeq(ft) /\ Len(ft) \in Nat
       /\ \A i \in 1 .. n : Ends(tail)[i - 1] \in Nat /\ Holds(ft, Ends(tail)[i - 1], tail[i])
  <2>1. \A i \in 1 .. n : i - 1 \in 0 .. n
    BY <1>2
  <2> QED
    BY <1>5, <2>1, FlattenHolds, EndsGrow, SeqFacts
<1> HIDE DEF fh, ft, W
<1>11. IsSeq(L) /\ Len(L) = W[n] + Len(ft) /\ Holds(L, 0, fh) /\ Holds(L, W[n], ft)
  <2>1. IsSeq(L) /\ Len(L) = Len(fh) + Len(ft)
    BY <1>9, <1>10, ConcatIsSeq
  <2>2. Holds(L, 0, fh) /\ Holds(L, Len(fh), ft)
    BY <1>9, <1>10, HoldsConcat
  <2> HIDE DEF L
  <2> QED
    BY <1>9, <2>1, <2>2
<1> HIDE DEF L
<1>12. ASSUME NEW i \in 1 .. n
       PROVE  IF ts[i].dynamic
              THEN /\ W[i - 1] < Len(L)
                   /\ \E o \in Nat : L[W[i - 1] + 1] = Num(o) /\ Holds(L, o, bodies[i])
              ELSE Holds(L, W[i - 1], bodies[i])
  <2>1. i - 1 \in 0 .. n /\ n \in 0 .. n /\ W[i - 1] \in Nat /\ W[n] \in Nat /\ 0 + W[i - 1] = W[i - 1]
    BY <1>2, <1>3
  <2>2. IsSeq(head[i]) /\ IsSeq(tail[i])
    BY <1>5, <1>7 DEF Parts
  <2>3. Holds(L, W[i - 1], head[i])
    <3>1. Holds(L, 0 + W[i - 1], head[i])
      BY <1>9, <1>11, <2>1, <2>2, HoldsWithin, 0 \in Nat
    <3> QED
      BY <2>1, <3>1
  <2>4. CASE ts[i].dynamic
    <3>1. head[i] = <<Num(Start(i))>> /\ tail[i] = bodies[i] /\ Start(i) \in Nat
      BY <1>5, <1>6, <1>7, <2>4
    <3>2. Holds(L, W[i - 1], <<Num(Start(i))>>)
      BY <2>3, <3>1
    <3>3. Len(L) \in Nat
      BY <1>11, SeqFacts
    <3>4. W[i - 1] < Len(L) /\ L[W[i - 1] + 1] = Num(Start(i))
      <4>1. /\ Len(<<Num(Start(i))>>) = 1 /\ <<Num(Start(i))>>[1] = Num(Start(i))
            /\ 1 \in 1 .. Len(<<Num(Start(i))>>)
        OBVIOUS
      <4> QED
        BY <2>1, <3>2, <3>3, <4>1 DEF Holds
    <3>5. Holds(L, W[n] + Ends(tail)[i - 1], tail[i])
      BY <1>10, <1>11, <2>1, <2>2, HoldsWithin
    <3>6. Holds(L, Start(i), bodies[i])
      BY <1>6, <3>1, <3>5
    <3> QED
      BY <2>4, <3>1, <3>4, <3>6
  <2>5. CASE ~ts[i].dynamic
    BY <1>7, <2>3, <2>5
  <2> QED
    BY <1>2, <2>4, <2>5
<1>13. W[n] \in Nat /\ Len(L) >= W[n]
  BY <1>2, <1>3, <1>10, <1>11, n \in 0 .. n
<1> QED
  BY <1>1, <1>11, <1>12, <1>13 DEF W

-----------------------------------------------------------------------------
(* Reading back.                                                           *)

\* What fits a type: any word a word, an address an address, and what a tuple or
\* an array has inside the types inside.
FieldFits(t, v) ==
    \/ t = Word
    \/ (t = Address /\ AddressOf(v) = v)
    \/ (t = Bytes /\ IsSeq(v))
    \/ \E k \in Nat \ {0} : t = FixedArray(k) /\ IsSeq(v) /\ Len(v) = k

TupleFits(ts, vs, Fits(_, _)) ==
    IsSeq(ts) /\ IsSeq(vs) /\ Len(ts) = Len(vs) /\ \A i \in 1 .. Len(ts) : Fits(ts[i], vs[i])

ElementFits(t, v) ==
    \/ FieldFits(t, v)
    \/ \E ts : t = StructOf(ts) /\ TupleFits(ts, v, FieldFits)

ValueFits(t, v) ==
    \/ ElementFits(t, v)
    \/ \E u : t = ArrayOf(u) /\ IsSeq(v) /\ \A i \in 1 .. Len(v) : ElementFits(u, v[i])

\* A type with the words of a value of it.
Body(t, words) ==
    /\ t.dynamic \in BOOLEAN /\ t.width \in Nat \ {0} /\ (t.dynamic => t.width = 1)
    /\ IsSeq(words) /\ (~t.dynamic => Len(words) = t.width)

Placed(data, at, t, words) ==
    IF t.dynamic
    THEN /\ at < Len(data)
         /\ \E o \in Nat : data[at + 1] = Num(o) /\ Holds(data, o, words)
    ELSE Holds(data, at, words)

LEMMA LayoutPlaced ==
    ASSUME NEW ts, NEW bodies, IsSeq(ts), IsSeq(bodies), Len(bodies) = Len(ts),
           \A i \in 1 .. Len(ts) : Body(ts[i], bodies[i])
    PROVE  /\ IsSeq(Layout(ts, bodies)) /\ Len(Layout(ts, bodies)) >= Len(ts)
           /\ \A data : IsSeq(data) /\ Holds(data, 0, Layout(ts, bodies)) =>
                \A i \in 1 .. Len(ts) :
                  /\ HeadEnd(ts)[i - 1] \in Nat
                  /\ Placed(data, HeadEnd(ts)[i - 1], ts[i], bodies[i])
<1> DEFINE L == Layout(ts, bodies)
           W == HeadEnd(ts)
           n == Len(ts)
<1>1. Types(ts) /\ Bodies(ts, bodies)
  BY DEF Types, Bodies, Body
<1>2. n \in Nat /\ n \in 0 .. n
  BY SeqFacts
<1>3. \A i \in 0 .. n : W[i] \in Nat /\ W[i] >= i
  BY <1>1, HeadEndGrows
<1>4. /\ IsSeq(L) /\ Len(L) >= W[n]
      /\ \A i \in 1 .. n :
           IF ts[i].dynamic
           THEN W[i - 1] < Len(L) /\ \E o \in Nat : L[W[i - 1] + 1] = Num(o) /\ Holds(L, o, bodies[i])
           ELSE Holds(L, W[i - 1], bodies[i])
  BY <1>1, LayoutHolds
<1> HIDE DEF L, W
<1>5. Len(L) >= n
  <2>1. Len(L) \in Nat
    BY <1>4, SeqFacts
  <2>2. W[n] \in Nat /\ W[n] >= n
    BY <1>2, <1>3
  <2> QED
    BY <1>2, <1>4, <2>1, <2>2
<1>6. ASSUME NEW data, IsSeq(data), Holds(data, 0, L), NEW i \in 1 .. n
      PROVE  W[i - 1] \in Nat /\ Placed(data, W[i - 1], ts[i], bodies[i])
  <2>1. W[i - 1] \in Nat /\ IsSeq(bodies[i]) /\ Len(L) \in Nat /\ Len(data) \in Nat
    <3>1. IsSeq(bodies[i])
      BY DEF Body
    <3>2. i - 1 \in 0 .. n
      BY <1>2
    <3> QED
      BY <1>3, <1>4, <1>6, <3>1, <3>2, SeqFacts
  <2>2. \A o \in Nat : Holds(L, o, bodies[i]) => Holds(data, o, bodies[i])
    <3> TAKE o \in Nat
    <3>1. Holds(L, o, bodies[i]) => Holds(data, 0 + o, bodies[i])
      BY <1>4, <1>6, <2>1, HoldsWithin, 0 \in Nat
    <3> QED
      BY <3>1, 0 + o = o
  <2>3. \A o \in 1 .. Len(L) : data[o] = L[o]
    BY <1>6, \A o \in 1 .. Len(L) : 0 + o = o DEF Holds
  <2>4. Len(L) <= Len(data)
    BY <1>6, <2>1, 0 + Len(L) = Len(L) DEF Holds
  <2>5. CASE ts[i].dynamic
    <3>1. PICK o \in Nat : L[W[i - 1] + 1] = Num(o) /\ Holds(L, o, bodies[i])
      BY <1>4, <2>5
    <3>2. W[i - 1] < Len(L)
      BY <1>4, <2>5
    <3>3. data[W[i - 1] + 1] = Num(o)
      BY <2>1, <2>3, <3>1, <3>2, W[i - 1] + 1 \in 1 .. Len(L)
    <3>4. W[i - 1] < Len(data)
      BY <2>1, <2>4, <3>2
    <3> QED
      BY <2>1, <2>2, <2>5, <3>1, <3>3, <3>4 DEF Placed
  <2>6. CASE ~ts[i].dynamic
    BY <1>4, <2>1, <2>2, <2>6 DEF Placed
  <2> QED
    BY <2>5, <2>6
<1> QED
  BY <1>4, <1>5, <1>6 DEF L, W

LEMMA FromIsSeq ==
    ASSUME NEW data, IsSeq(data), NEW at \in Nat, at <= Len(data)
    PROVE  /\ IsSeq(From(data, at)) /\ Len(From(data, at)) = Len(data) - at
           /\ \A i \in 1 .. Len(data) - at : From(data, at)[i] = data[at + i]
<1>1. Len(data) \in Nat
  BY SeqFacts
<1>2. From(data, at) = SubSeq(data, at + 1, Len(data))
  BY DEF From
<1>3. /\ IsSeq(From(data, at)) /\ Len(From(data, at)) = Len(data) - (at + 1) + 1
      /\ \A i \in 1 .. Len(data) - (at + 1) + 1 : From(data, at)[i] = data[(at + 1) + i - 1]
  BY <1>1, <1>2, SubSeqIsSeq, at + 1 \in Nat, at + 1 >= 1, at + 1 <= Len(data) + 1
<1>4. Len(data) - (at + 1) + 1 = Len(data) - at
  BY <1>1
<1>5. \A i \in 1 .. Len(data) - at : (at + 1) + i - 1 = at + i
  BY <1>1
<1> QED
  BY <1>3, <1>4, <1>5

LEMMA ConsIsSeq ==
    ASSUME NEW w, NEW s, IsSeq(s)
    PROVE  /\ IsSeq(<<w>> \o s) /\ Len(<<w>> \o s) = 1 + Len(s) /\ (<<w>> \o s)[1] = w
           /\ \A i \in 1 .. Len(s) : (<<w>> \o s)[1 + i] = s[i]
<1> DEFINE c == <<w>>
<1>1. Len(c) = 1 /\ c[1] = w /\ c = [j \in 1 .. 1 |-> c[j]]
  OBVIOUS
<1> HIDE DEF c
<1>2. IsSeq(c)
  BY <1>1, FunctionIsSeq, 1 \in Nat
<1>3. /\ IsSeq(c \o s) /\ Len(c \o s) = Len(c) + Len(s)
      /\ \A i \in 1 .. Len(c) : (c \o s)[i] = c[i]
      /\ \A i \in 1 .. Len(s) : (c \o s)[Len(c) + i] = s[i]
  BY <1>2, ConcatIsSeq
<1>4. (c \o s)[1] = w
  BY <1>1, <1>3, 1 \in 1 .. 1
<1>5. /\ IsSeq(c \o s) /\ Len(c \o s) = 1 + Len(s) /\ (c \o s)[1] = w
      /\ \A i \in 1 .. Len(s) : (c \o s)[1 + i] = s[i]
  BY <1>1, <1>3, <1>4
<1> QED
  BY <1>5 DEF c

\* The tail that is read at an offset is that of the value.
LEMMA IndirectHolds ==
    ASSUME NEW data, NEW at \in Nat, NEW o \in Nat, NEW s, IsSeq(data), IsSeq(s),
           Len(data) < U32, at < Len(data), data[at + 1] = Num(o), Holds(data, o, s)
    PROVE  /\ IsSeq(Indirect(data, at)) /\ Len(Indirect(data, at)) < U32
           /\ Holds(Indirect(data, at), 0, s)
<1>1. Len(data) \in Nat /\ Len(s) \in Nat /\ U32 \in Nat /\ o + Len(s) <= Len(data)
  BY SeqFacts, AbiAssumption DEF Holds
<1>2. IsBelow(Num(o), U32)
  BY <1>1 DEF IsBelow, Num
<1>3. Num(o).n = o
  BY DEF Num
<1> DEFINE f == From(data, o)
<1>4. Indirect(data, at) = f
  BY <1>2, <1>3 DEF Indirect
<1>5. /\ IsSeq(f) /\ Len(f) = Len(data) - o
      /\ \A i \in 1 .. Len(data) - o : f[i] = data[o + i]
  BY <1>1, FromIsSeq, o <= Len(data)
<1> HIDE DEF f
<1>6. Len(f) = Len(data) - o /\ 0 + Len(s) <= Len(f) /\ Len(f) < U32
  BY <1>1, <1>5
<1>7. ASSUME NEW i \in 1 .. Len(s) PROVE f[0 + i] = s[i]
  <2>1. i \in 1 .. Len(data) - o /\ 0 + i = i
    BY <1>1
  <2> QED
    BY <1>5, <2>1 DEF Holds
<1> QED
  BY <1>4, <1>5, <1>6, <1>7 DEF Holds, f

\* A count and what it counts.
LEMMA CountHolds ==
    ASSUME NEW rest, NEW k \in Nat, NEW s, IsSeq(rest), IsSeq(s), k < U32,
           Holds(rest, 0, <<Num(k)>> \o s)
    PROVE  /\ HasCount(rest) /\ rest[1].n = k /\ Holds(rest, 1, s)
           /\ IsSeq(From(rest, 1)) /\ Len(From(rest, 1)) <= Len(rest) /\ Holds(From(rest, 1), 0, s)
<1> DEFINE c == <<Num(k)>> \o s
           f == From(rest, 1)
<1>1. Len(rest) \in Nat /\ Len(s) \in Nat
  BY SeqFacts
<1>2. /\ IsSeq(c) /\ Len(c) = 1 + Len(s)
      /\ c[1] = Num(k) /\ \A i \in 1 .. Len(s) : c[1 + i] = s[i]
  BY ConsIsSeq
<1>3. 0 + Len(c) <= Len(rest) /\ \A i \in 1 .. Len(c) : rest[0 + i] = c[i]
  BY DEF Holds
<1> HIDE DEF c
<1>4. rest[1] = Num(k) /\ 1 + Len(s) <= Len(rest)
  BY <1>1, <1>2, <1>3, 0 + 1 = 1, 1 \in 1 .. 1 + Len(s)
<1>5. ASSUME NEW i \in 1 .. Len(s) PROVE rest[1 + i] = s[i]
  BY <1>1, <1>2, <1>3, 0 + (1 + i) = 1 + i, 1 + i \in 1 .. 1 + Len(s)
<1>6. HasCount(rest) /\ rest[1].n = k
  <2>1. IsBelow(Num(k), U32) /\ Num(k).n = k
    BY DEF IsBelow, Num
  <2>2. rest # << >>
    BY <1>1, <1>4, EmptySeq
  <2> QED
    BY <1>4, <2>1, <2>2 DEF HasCount
<1>7. Holds(rest, 1, s)
  BY <1>4, <1>5 DEF Holds
<1>8. /\ IsSeq(f) /\ Len(f) = Len(rest) - 1
      /\ \A i \in 1 .. Len(rest) - 1 : f[i] = rest[1 + i]
  BY <1>1, <1>4, FromIsSeq, 1 \in Nat, 1 <= Len(rest)
<1> HIDE DEF f
<1>9. Len(f) <= Len(rest) /\ 0 + Len(s) <= Len(f)
  BY <1>1, <1>4, <1>8
<1>10. ASSUME NEW i \in 1 .. Len(s) PROVE f[0 + i] = s[i]
  BY <1>1, <1>4, <1>5, <1>8, 0 + i = i, i \in 1 .. Len(rest) - 1
<1> QED
  BY <1>6, <1>7, <1>8, <1>9, <1>10 DEF Holds, f

\* Reads of all the values are a read of the sequence.
LEMMA CollectedIs ==
    ASSUME NEW v, IsSeq(v), NEW reads, reads = [i \in 1 .. Len(v) |-> reads[i]],
           \A i \in 1 .. Len(v) : reads[i] = Readable(v[i])
    PROVE  Collected(Listed(reads)) = Readable(v)
<1> DEFINE values == [i \in DOMAIN reads |-> reads[i].value]
<1>1. Len(v) \in Nat /\ v = [i \in 1 .. Len(v) |-> v[i]]
  BY SeqFacts
<1>2. IsSeq(reads) /\ DOMAIN reads = 1 .. Len(v)
  BY <1>1, FunctionIsSeq
<1>3. Listed(reads) = reads
  BY <1>2, ListedIs
<1>4. \A i \in 1 .. Len(v) : reads[i].ok = TRUE /\ reads[i].value = v[i]
  BY DEF Readable
<1>5. values = v
  <2>1. values = [i \in 1 .. Len(v) |-> v[i]]
    BY <1>2, <1>4
  <2> QED
    BY <1>1, <2>1
<1>6. Listed(values) = v
  BY <1>5, ListedIs
<1>7. Collected(reads) = [ok |-> \A i \in DOMAIN reads : reads[i].ok, value |-> v]
  BY <1>6 DEF Collected
<1>8. \A i \in DOMAIN reads : reads[i].ok
  BY <1>2, <1>4
<1>9. [ok |-> \A i \in DOMAIN reads : reads[i].ok, value |-> v] = [ok |-> TRUE, value |-> v]
  BY <1>8
<1> QED
  BY <1>3, <1>7, <1>9, Zenon DEF Readable

\* The words of a sequence that is held are read as it.
LEMMA HeldIsRead ==
    ASSUME NEW data, NEW at \in Nat, NEW s, IsSeq(data), IsSeq(s), Holds(data, at, s)
    PROVE  SubSeq(data, at + 1, at + Len(s)) = s
<1> DEFINE r == SubSeq(data, at + 1, at + Len(s))
<1>1. Len(data) \in Nat /\ Len(s) \in Nat /\ at + Len(s) <= Len(data)
  BY SeqFacts DEF Holds
<1>2. /\ IsSeq(r) /\ Len(r) = (at + Len(s)) - (at + 1) + 1
      /\ \A i \in 1 .. (at + Len(s)) - (at + 1) + 1 : r[i] = data[(at + 1) + i - 1]
  BY <1>1, SubSeqIsSeq, at + 1 \in Nat, at + Len(s) \in Nat, at + 1 >= 1,
     at + 1 <= (at + Len(s)) + 1
<1> HIDE DEF r
<1>3. (at + Len(s)) - (at + 1) + 1 = Len(s)
  BY <1>1
<1>4. ASSUME NEW i \in 1 .. Len(s) PROVE r[i] = s[i]
  BY <1>1, <1>2, <1>3, (at + 1) + i - 1 = at + i DEF Holds
<1>5. r = s
  BY <1>2, <1>3, <1>4, SeqEquality
<1> QED
  BY <1>5 DEF r

LEMMA FieldBody ==
    ASSUME NEW t, NEW v, FieldFits(t, v)
    PROVE  Body(t, EncodeField(t, v))
<1>1. CASE t = Word \/ t = Address
  <2>1. EncodeField(t, v) = <<v>>
    BY <1>1 DEF EncodeField, Word, Address, Type
  <2>2. IsSeq(<<v>>) /\ Len(<<v>>) = 1
    BY FunctionIsSeq, 1 \in Nat, <<v>> = [j \in 1 .. 1 |-> <<v>>[j]]
  <2>3. t.dynamic \in BOOLEAN /\ ~t.dynamic /\ t.width = 1
    <3>1. CASE t = Word
      BY <3>1 DEF Word, Type
    <3>2. CASE t = Address
      BY <3>2 DEF Address, Type
    <3> QED
      BY <1>1, <3>1, <3>2
  <2> QED
    BY <2>1, <2>2, <2>3 DEF Body
<1>2. CASE t = Bytes /\ IsSeq(v)
  <2>1. EncodeField(t, v) = <<Num(Len(v))>> \o v
    BY <1>2 DEF EncodeField, Bytes, Type
  <2>2. IsSeq(<<Num(Len(v))>> \o v)
    BY <1>2, ConsIsSeq
  <2>3. t.dynamic \in BOOLEAN /\ t.dynamic /\ t.width = 1
    BY <1>2 DEF Bytes, Type
  <2> QED
    BY <2>1, <2>2, <2>3 DEF Body
<1>3. CASE \E k \in Nat \ {0} : t = FixedArray(k) /\ IsSeq(v) /\ Len(v) = k
  <2>1. PICK k \in Nat \ {0} : t = FixedArray(k) /\ IsSeq(v) /\ Len(v) = k
    BY <1>3
  <2>2. EncodeField(t, v) = v /\ t.dynamic = FALSE /\ t.width = k
    BY <2>1 DEF EncodeField, FixedArray, Type
  <2> QED
    BY <2>1, <2>2 DEF Body
<1> QED
  BY <1>1, <1>2, <1>3 DEF FieldFits

LEMMA BytesRead ==
    ASSUME NEW rest, NEW v, IsSeq(rest), IsSeq(v), Len(rest) < U32,
           Holds(rest, 0, <<Num(Len(v))>> \o v)
    PROVE  ReadBytes(rest) = Readable(v)
<1>1. Len(rest) \in Nat /\ Len(v) \in Nat /\ U32 \in Nat
  BY SeqFacts, AbiAssumption
<1>2. 1 + Len(v) <= Len(rest)
  <2>1. Len(<<Num(Len(v))>> \o v) = 1 + Len(v)
    BY ConsIsSeq
  <2> QED
    BY <1>1, <2>1 DEF Holds
<1>3. HasCount(rest) /\ rest[1].n = Len(v) /\ Holds(rest, 1, v)
  BY <1>1, <1>2, CountHolds
<1>4. SubSeq(rest, 1 + 1, 1 + Len(v)) = v
  BY <1>1, <1>3, HeldIsRead, 1 \in Nat
<1>5. Len(v) < Len(rest) /\ 1 + 1 = 2 /\ 1 + Len(v) = Len(v) + 1
  BY <1>1, <1>2
<1> QED
  BY <1>3, <1>4, <1>5 DEF ReadBytes

LEMMA FieldReads ==
    ASSUME NEW t, NEW v, NEW data, NEW at \in Nat, FieldFits(t, v), IsSeq(data), Len(data) < U32,
           Placed(data, at, t, EncodeField(t, v))
    PROVE  ReadField(t, data, at) = Readable(v)
<1>1. Len(data) \in Nat
  BY SeqFacts
<1>2. CASE t = Word \/ (t = Address /\ AddressOf(v) = v)
  <2>1. EncodeField(t, v) = <<v>> /\ t.dynamic = FALSE
    BY <1>2 DEF EncodeField, Word, Address, Type
  <2>2. Holds(data, at, <<v>>)
    BY <2>1 DEF Placed
  <2>3. Len(<<v>>) = 1 /\ <<v>>[1] = v
    OBVIOUS
  <2>4. at < Len(data) /\ data[at + 1] = v
    BY <1>1, <2>2, <2>3, 1 \in 1 .. 1 DEF Holds
  <2>5. t.kind \in {"word", "address"} /\ (t.kind = "address" => AddressOf(v) = v)
    BY <1>2 DEF Word, Address, Type
  <2>6. ReadField(t, data, at) =
          Readable(IF t.kind = "address" THEN AddressOf(data[at + 1]) ELSE data[at + 1])
    BY <1>1, <2>4, <2>5 DEF ReadField
  <2> QED
    BY <2>4, <2>5, <2>6
<1>3. CASE t = Bytes /\ IsSeq(v)
  <2>1. EncodeField(t, v) = <<Num(Len(v))>> \o v /\ t.dynamic = TRUE /\ t.kind = "bytes"
    BY <1>3 DEF EncodeField, Bytes, Type
  <2>2. at < Len(data) /\ \E o \in Nat : data[at + 1] = Num(o)
                                        /\ Holds(data, o, <<Num(Len(v))>> \o v)
    BY <2>1 DEF Placed
  <2>3. PICK o \in Nat : data[at + 1] = Num(o) /\ Holds(data, o, <<Num(Len(v))>> \o v)
    BY <2>2
  <2>4. IsSeq(<<Num(Len(v))>> \o v)
    BY <1>3, ConsIsSeq
  <2>5. /\ IsSeq(Indirect(data, at)) /\ Len(Indirect(data, at)) < U32
        /\ Holds(Indirect(data, at), 0, <<Num(Len(v))>> \o v)
    BY <2>2, <2>3, <2>4, IndirectHolds
  <2>6. ReadBytes(Indirect(data, at)) = Readable(v)
    BY <1>3, <2>5, BytesRead
  <2> QED
    BY <2>1, <2>6 DEF ReadField
<1>4. CASE \E k \in Nat \ {0} : t = FixedArray(k) /\ IsSeq(v) /\ Len(v) = k
  <2>1. PICK k \in Nat \ {0} : t = FixedArray(k) /\ IsSeq(v) /\ Len(v) = k
    BY <1>4
  <2>2. EncodeField(t, v) = v /\ t.dynamic = FALSE /\ t.width = k /\ t.kind = "fixed"
    BY <2>1 DEF EncodeField, FixedArray, Type
  <2>3. Holds(data, at, v)
    BY <2>2 DEF Placed
  <2>4. SubSeq(data, at + 1, at + Len(v)) = v
    BY <2>1, <2>3, HeldIsRead
  <2>5. ~(at + t.width > Len(data))
    BY <1>1, <2>1, <2>2, <2>3 DEF Holds
  <2> QED
    BY <2>1, <2>2, <2>4, <2>5 DEF ReadField
<1> QED
  BY <1>2, <1>3, <1>4 DEF FieldFits

\* The words of a struct's fields, at their places.
FieldBodies(ts, v) == [i \in DOMAIN ts |-> EncodeField(ts[i], v[i])]

LEMMA StructBody ==
    ASSUME NEW ts, NEW v, IsSeq(ts), \A i \in 1 .. Len(ts) : FieldFits(ts[i], v[i])
    PROVE  /\ IsSeq(FieldBodies(ts, v)) /\ Len(FieldBodies(ts, v)) = Len(ts)
           /\ Listed(FieldBodies(ts, v)) = FieldBodies(ts, v)
           /\ \A i \in 1 .. Len(ts) : /\ FieldBodies(ts, v)[i] = EncodeField(ts[i], v[i])
                                      /\ Body(ts[i], FieldBodies(ts, v)[i])
<1> DEFINE bodies == FieldBodies(ts, v)
<1>1. Len(ts) \in Nat /\ DOMAIN ts = 1 .. Len(ts)
  BY SeqFacts
<1>2. IsSeq(bodies) /\ Len(bodies) = Len(ts)
  BY <1>1, FunctionIsSeq DEF FieldBodies
<1>3. \A i \in 1 .. Len(ts) : bodies[i] = EncodeField(ts[i], v[i])
  BY <1>1 DEF FieldBodies
<1> HIDE DEF bodies
<1>4. Listed(bodies) = bodies /\ \A i \in 1 .. Len(ts) : Body(ts[i], bodies[i])
  BY <1>2, <1>3, ListedIs, FieldBody
<1> QED
  BY <1>2, <1>3, <1>4 DEF bodies

LEMMA StructReads ==
    ASSUME NEW ts, NEW v, NEW rest, IsSeq(rest), Len(rest) < U32,
           IsSeq(ts), IsSeq(v), Len(ts) = Len(v), \A i \in 1 .. Len(ts) : FieldFits(ts[i], v[i]),
           Holds(rest, 0, Layout(ts, Listed(FieldBodies(ts, v))))
    PROVE  ReadStruct(ts, rest) = Readable(v)
<1> DEFINE bodies == FieldBodies(ts, v)
           W == HeadEnd(ts)
           reads == [i \in DOMAIN ts |-> ReadField(ts[i], rest, W[i - 1])]
<1>1. /\ IsSeq(ts) /\ DOMAIN ts = 1 .. Len(ts) /\ IsSeq(v) /\ Len(v) = Len(ts)
      /\ \A i \in 1 .. Len(ts) : FieldFits(ts[i], v[i])
  BY SeqFacts
<1>2. /\ IsSeq(bodies) /\ Len(bodies) = Len(ts) /\ Listed(bodies) = bodies
      /\ \A i \in 1 .. Len(ts) : /\ FieldFits(ts[i], v[i])
                                 /\ bodies[i] = EncodeField(ts[i], v[i])
                                 /\ Body(ts[i], bodies[i])
  BY <1>1, StructBody
<1>3. Holds(rest, 0, Layout(ts, bodies))
  BY <1>2
<1> HIDE DEF bodies
<1>4. \A i \in 1 .. Len(ts) : W[i - 1] \in Nat /\ Placed(rest, W[i - 1], ts[i], bodies[i])
  BY <1>1, <1>2, <1>3, LayoutPlaced
<1>5. \A i \in 1 .. Len(ts) : ReadField(ts[i], rest, W[i - 1]) = Readable(v[i])
  BY <1>2, <1>4, FieldReads
<1>6. ReadStruct(ts, rest) = Collected(Listed(reads))
  BY DEF ReadStruct
<1>7. reads = [i \in 1 .. Len(v) |-> reads[i]] /\ \A i \in 1 .. Len(v) : reads[i] = Readable(v[i])
  BY <1>1, <1>5
<1> HIDE DEF reads
<1> QED
  BY <1>1, <1>6, <1>7, CollectedIs

LEMMA FieldKind ==
    ASSUME NEW t, NEW v, FieldFits(t, v)
    PROVE  t.kind \notin {"struct", "array"}
<1>1. CASE t = Word
  BY <1>1 DEF Word, Type
<1>2. CASE t = Address
  BY <1>2 DEF Address, Type
<1>3. CASE t = Bytes
  BY <1>3 DEF Bytes, Type
<1>4. CASE \E k \in Nat \ {0} : t = FixedArray(k)
  BY <1>4 DEF FixedArray, Type
<1> QED
  BY <1>1, <1>2, <1>3, <1>4 DEF FieldFits

LEMMA ElementBody ==
    ASSUME NEW t, NEW v, ElementFits(t, v)
    PROVE  Body(t, EncodeElement(t, v)) /\ t.kind # "array"
<1>1. CASE FieldFits(t, v)
  <2>1. t.kind # "struct" /\ t.kind # "array"
    BY <1>1, FieldKind
  <2> QED
    BY <1>1, <2>1, FieldBody DEF EncodeElement
<1>2. CASE \E ts : t = StructOf(ts) /\ TupleFits(ts, v, FieldFits)
  <2>1. PICK ts : t = StructOf(ts) /\ TupleFits(ts, v, FieldFits)
    BY <1>2
  <2> DEFINE bodies == FieldBodies(ts, v)
  <2>2. t.kind = "struct" /\ t.of = ts /\ t.width = 1
    BY <2>1 DEF StructOf, Type
  <2>3. t.dynamic \in BOOLEAN /\ t.dynamic
    BY <2>1 DEF StructOf, Type
  <2>4. EncodeElement(t, v) = Layout(ts, Listed(bodies))
    BY <2>2 DEF EncodeElement, FieldBodies
  <2>5. /\ IsSeq(bodies) /\ Len(bodies) = Len(ts) /\ Listed(bodies) = bodies
        /\ \A i \in 1 .. Len(ts) : Body(ts[i], bodies[i])
    <3>1. IsSeq(ts) /\ \A i \in 1 .. Len(ts) : FieldFits(ts[i], v[i])
      BY <2>1 DEF TupleFits
    <3> QED
      BY <3>1, StructBody
  <2>6. IsSeq(ts)
    BY <2>1 DEF TupleFits
  <2> HIDE DEF bodies
  <2>7. IsSeq(EncodeElement(t, v))
    BY <2>4, <2>5, <2>6, LayoutPlaced
  <2> QED
    BY <2>2, <2>3, <2>7 DEF Body
<1> QED
  BY <1>1, <1>2 DEF ElementFits

LEMMA ElementReads ==
    ASSUME NEW t, NEW v, NEW data, NEW at \in Nat, ElementFits(t, v), IsSeq(data), Len(data) < U32,
           Placed(data, at, t, EncodeElement(t, v))
    PROVE  ReadElement(t, data, at) = Readable(v)
<1>1. CASE FieldFits(t, v)
  <2>1. t.kind # "struct"
    BY <1>1, FieldKind
  <2> QED
    BY <1>1, <2>1, FieldReads DEF EncodeElement, ReadElement
<1>2. CASE \E ts : t = StructOf(ts) /\ TupleFits(ts, v, FieldFits)
  <2>1. PICK ts : t = StructOf(ts) /\ TupleFits(ts, v, FieldFits)
    BY <1>2
  <2> DEFINE words == Layout(ts, Listed(FieldBodies(ts, v)))
  <2>2. t.kind = "struct" /\ t.of = ts
    BY <2>1 DEF StructOf, Type
  <2>3. t.dynamic
    BY <2>1 DEF StructOf, Type
  <2>4. EncodeElement(t, v) = words
    BY <2>2 DEF EncodeElement, FieldBodies
  <2>5. IsSeq(words)
    BY <2>4, ElementBody DEF Body
  <2> HIDE DEF words
  <2>6. at < Len(data) /\ \E o \in Nat : data[at + 1] = Num(o) /\ Holds(data, o, words)
    BY <2>3, <2>4 DEF Placed
  <2>7. IsSeq(Indirect(data, at)) /\ Len(Indirect(data, at)) < U32 /\ Holds(Indirect(data, at), 0, words)
    BY <2>5, <2>6, IndirectHolds
  <2>8. ReadStruct(ts, Indirect(data, at)) = Readable(v)
    <3>1. IsSeq(ts) /\ IsSeq(v) /\ Len(ts) = Len(v) /\ \A i \in 1 .. Len(ts) : FieldFits(ts[i], v[i])
      BY <2>1 DEF TupleFits
    <3>2. Holds(Indirect(data, at), 0, Layout(ts, Listed(FieldBodies(ts, v))))
      BY <2>7 DEF words
    <3> QED
      BY <2>7, <3>1, <3>2, StructReads
  <2> QED
    BY <2>2, <2>8 DEF ReadElement
<1> QED
  BY <1>1, <1>2 DEF ElementFits

LEMMA ArrayReads ==
    ASSUME NEW t, NEW v, NEW rest, IsSeq(v), \A i \in 1 .. Len(v) : ElementFits(t, v[i]),
           IsSeq(rest), Len(rest) < U32,
           Holds(rest, 0, <<Num(Len(v))>> \o
                          Layout([i \in DOMAIN v |-> t],
                                 Listed([i \in DOMAIN v |-> EncodeElement(t, v[i])])))
    PROVE  ReadArray(t, rest) = Readable(v)
<1> DEFINE ts == [i \in 1 .. Len(v) |-> t]
           raw == [i \in 1 .. Len(v) |-> EncodeElement(t, v[i])]
           L == Layout(ts, Listed(raw))
           W == HeadEnd(ts)
           f == From(rest, 1)
           reads == [i \in DOMAIN ts |-> ReadElement(t, f, W[i - 1])]
<1>1. Len(v) \in Nat /\ DOMAIN v = 1 .. Len(v) /\ Len(rest) \in Nat /\ U32 \in Nat
  BY SeqFacts, AbiAssumption
<1>2. IsSeq(ts) /\ Len(ts) = Len(v) /\ \A i \in 1 .. Len(v) : ts[i] = t
  BY <1>1, FunctionIsSeq
<1>3. IsSeq(raw) /\ Len(raw) = Len(v) /\ \A i \in 1 .. Len(v) : raw[i] = EncodeElement(t, v[i])
  BY <1>1, FunctionIsSeq
<1>4. Listed(raw) = raw
  BY <1>3, ListedIs
<1>5. Holds(rest, 0, <<Num(Len(v))>> \o L)
  BY <1>1
<1>6. DOMAIN ts = 1 .. Len(v)
  OBVIOUS
<1>7. ReadArray(t, rest) = IF ~HasCount(rest) THEN Unreadable
                           ELSE LET us == [i \in 1 .. rest[1].n |-> t]
                                IN  Collected(Listed([i \in DOMAIN us |->
                                      ReadElement(t, f, HeadEnd(us)[i - 1])]))
  BY DEF ReadArray
<1> HIDE DEF ts, raw, f
<1>8. \A i \in 1 .. Len(ts) : Body(ts[i], raw[i])
  BY <1>2, <1>3, ElementBody
<1>9. IsSeq(L) /\ Len(L) >= Len(v)
  BY <1>2, <1>3, <1>4, <1>8, LayoutPlaced
<1>10. Len(v) < U32
  <2>1. Len(<<Num(Len(v))>> \o L) = 1 + Len(L) /\ Len(L) \in Nat
    BY <1>9, ConsIsSeq, SeqFacts
  <2>2. 0 + Len(<<Num(Len(v))>> \o L) <= Len(rest)
    BY <1>5 DEF Holds
  <2> HIDE DEF L
  <2> QED
    BY <1>1, <1>9, <2>1, <2>2
<1>11. /\ HasCount(rest) /\ rest[1].n = Len(v)
       /\ IsSeq(f) /\ Len(f) <= Len(rest) /\ Holds(f, 0, L)
  BY <1>1, <1>5, <1>9, <1>10, CountHolds DEF f
<1>12. Len(f) < U32
  BY <1>1, <1>11, SeqFacts
<1>13. \A i \in 1 .. Len(v) : W[i - 1] \in Nat /\ Placed(f, W[i - 1], t, EncodeElement(t, v[i]))
  BY <1>2, <1>3, <1>4, <1>8, <1>11, LayoutPlaced
<1>14. \A i \in 1 .. Len(v) : ReadElement(t, f, W[i - 1]) = Readable(v[i])
  BY <1>11, <1>12, <1>13, ElementReads
<1>15. ReadArray(t, rest) = Collected(Listed(reads))
  BY <1>7, <1>11 DEF ts
<1>16. reads = [i \in 1 .. Len(v) |-> reads[i]] /\ \A i \in 1 .. Len(v) : reads[i] = Readable(v[i])
  BY <1>6, <1>14
<1> HIDE DEF reads
<1> QED
  BY <1>15, <1>16, CollectedIs

LEMMA ValueBody ==
    ASSUME NEW t, NEW v, ValueFits(t, v)
    PROVE  Body(t, EncodeValue(t, v))
<1>1. CASE ElementFits(t, v)
  BY <1>1, ElementBody DEF EncodeValue
<1>2. CASE \E u : t = ArrayOf(u) /\ IsSeq(v) /\ \A i \in 1 .. Len(v) : ElementFits(u, v[i])
  <2>1. PICK u : t = ArrayOf(u) /\ IsSeq(v) /\ \A i \in 1 .. Len(v) : ElementFits(u, v[i])
    BY <1>2
  <2> DEFINE ts == [i \in DOMAIN v |-> u]
             raw == [i \in DOMAIN v |-> EncodeElement(u, v[i])]
  <2>2. t.kind = "array" /\ t.of[1] = u /\ t.width = 1
    BY <2>1 DEF ArrayOf, Type
  <2>3. t.dynamic \in BOOLEAN /\ t.dynamic
    BY <2>1 DEF ArrayOf, Type
  <2>4. Len(v) \in Nat /\ DOMAIN v = 1 .. Len(v)
    BY <2>1, SeqFacts
  <2>5. IsSeq(ts) /\ Len(ts) = Len(v) /\ \A i \in 1 .. Len(v) : ts[i] = u
    BY <2>4, FunctionIsSeq
  <2>6. IsSeq(raw) /\ Len(raw) = Len(v) /\ \A i \in 1 .. Len(v) : raw[i] = EncodeElement(u, v[i])
    BY <2>4, FunctionIsSeq
  <2>7. EncodeValue(t, v) = <<Num(Len(v))>> \o Layout(ts, Listed(raw))
    BY <2>2 DEF EncodeValue
  <2> HIDE DEF ts, raw
  <2>8. Listed(raw) = raw
    BY <2>6, ListedIs
  <2>9. IsSeq(Layout(ts, raw))
    BY <2>1, <2>5, <2>6, ElementBody, LayoutPlaced
  <2>10. IsSeq(EncodeValue(t, v))
    BY <2>7, <2>8, <2>9, ConsIsSeq
  <2> QED
    BY <2>2, <2>3, <2>10 DEF Body
<1> QED
  BY <1>1, <1>2 DEF ValueFits

LEMMA ValueReads ==
    ASSUME NEW t, NEW v, NEW data, NEW at \in Nat, ValueFits(t, v), IsSeq(data), Len(data) < U32,
           Placed(data, at, t, EncodeValue(t, v))
    PROVE  ReadValue(t, data, at) = Readable(v)
<1>1. CASE ElementFits(t, v)
  BY <1>1, ElementBody, ElementReads DEF EncodeValue, ReadValue
<1>2. CASE \E u : t = ArrayOf(u) /\ IsSeq(v) /\ \A i \in 1 .. Len(v) : ElementFits(u, v[i])
  <2>1. PICK u : t = ArrayOf(u) /\ IsSeq(v) /\ \A i \in 1 .. Len(v) : ElementFits(u, v[i])
    BY <1>2
  <2> DEFINE words == <<Num(Len(v))>> \o
                      Layout([i \in DOMAIN v |-> u],
                             Listed([i \in DOMAIN v |-> EncodeElement(u, v[i])]))
  <2>2. t.kind = "array" /\ t.of[1] = u
    BY <2>1 DEF ArrayOf, Type
  <2>3. t.dynamic
    BY <2>1 DEF ArrayOf, Type
  <2>4. EncodeValue(t, v) = words
    BY <2>2 DEF EncodeValue
  <2>5. IsSeq(words)
    BY <2>4, ValueBody DEF Body
  <2> HIDE DEF words
  <2>6. at < Len(data) /\ \E o \in Nat : data[at + 1] = Num(o) /\ Holds(data, o, words)
    BY <2>3, <2>4 DEF Placed
  <2>7. IsSeq(Indirect(data, at)) /\ Len(Indirect(data, at)) < U32 /\ Holds(Indirect(data, at), 0, words)
    BY <2>5, <2>6, IndirectHolds
  <2>8. ReadArray(u, Indirect(data, at)) = Readable(v)
    BY <2>1, <2>7, ArrayReads DEF words
  <2> QED
    BY <2>2, <2>8 DEF ReadValue
<1> QED
  BY <1>1, <1>2 DEF ValueFits

\* Decoding reads back what was encoded.
THEOREM RoundTrip ==
    ASSUME NEW ts, NEW vs, TupleFits(ts, vs, ValueFits), Len(Encode(ts, vs)) < U32
    PROVE  Decode(ts, Encode(ts, vs)) = Readable(vs)
<1> DEFINE raw == [i \in DOMAIN ts |-> EncodeValue(ts[i], vs[i])]
           L == Encode(ts, vs)
           W == HeadEnd(ts)
           reads == [i \in DOMAIN ts |-> ReadValue(ts[i], L, W[i - 1])]
<1>1. /\ IsSeq(ts) /\ Len(ts) \in Nat /\ DOMAIN ts = 1 .. Len(ts) /\ IsSeq(vs) /\ Len(vs) = Len(ts)
      /\ \A i \in 1 .. Len(ts) : ValueFits(ts[i], vs[i])
  BY SeqFacts DEF TupleFits
<1>2. IsSeq(raw) /\ Len(raw) = Len(ts) /\ \A i \in 1 .. Len(ts) : raw[i] = EncodeValue(ts[i], vs[i])
  BY <1>1, FunctionIsSeq
<1>3. L = Layout(ts, Listed(raw)) /\ Decode(ts, L) = Collected(Listed(reads))
  BY DEF Encode, Decode
<1> HIDE DEF raw, L
<1>4. Listed(raw) = raw
  BY <1>2, ListedIs
<1>5. \A i \in 1 .. Len(ts) : Body(ts[i], raw[i])
  BY <1>1, <1>2, ValueBody
<1>6. IsSeq(L)
  BY <1>1, <1>2, <1>3, <1>4, <1>5, LayoutPlaced
<1>7. Holds(L, 0, L)
  BY <1>6, SeqFacts, \A i \in 1 .. Len(L) : 0 + i = i DEF Holds
<1>8. \A i \in 1 .. Len(ts) : W[i - 1] \in Nat /\ Placed(L, W[i - 1], ts[i], EncodeValue(ts[i], vs[i]))
  BY <1>1, <1>2, <1>3, <1>4, <1>5, <1>6, <1>7, LayoutPlaced
<1>9. Len(L) < U32
  BY DEF L
<1>10. \A i \in 1 .. Len(ts) : ReadValue(ts[i], L, W[i - 1]) = Readable(vs[i])
  BY <1>1, <1>6, <1>8, <1>9, ValueReads
<1>11. reads = [i \in 1 .. Len(vs) |-> reads[i]] /\ \A i \in 1 .. Len(vs) : reads[i] = Readable(vs[i])
  BY <1>1, <1>10
<1> HIDE DEF reads
<1>12. Decode(ts, L) = Readable(vs)
  BY <1>1, <1>3, <1>11, CollectedIs
<1> QED
  BY <1>12 DEF L

-----------------------------------------------------------------------------
(* How long an encoding can be.                                            *)

LEMMA SumBound ==
    ASSUME NEW a \in Nat, NEW b \in Nat, NEW x \in Nat, NEW y \in Nat, NEW p \in Nat, NEW c \in Nat,
           a + b <= p, x + y <= c
    PROVE  (a + x) + (b + y) <= p + c
OBVIOUS

\* Parts two by two: what both together are at most, times how many.
LEMMA EndsBound ==
    ASSUME NEW parts, NEW more, Parts(parts), Parts(more), Len(more) = Len(parts), NEW c \in Nat,
           \A i \in 1 .. Len(parts) : Len(parts[i]) + Len(more[i]) <= c
    PROVE  Ends(parts)[Len(parts)] + Ends(more)[Len(parts)] <= Len(parts) * c
<1> DEFINE n == Len(parts)
           E == Ends(parts)
           M == Ends(more)
           S == {i \in Nat : i <= n => E[i] + M[i] <= i * c}
<1>1. n \in Nat /\ \A i \in 1 .. n : Len(parts[i]) \in Nat /\ Len(more[i]) \in Nat
  BY SeqFacts DEF Parts
<1>2. E[0] = 0 /\ \A i \in Nat : E[i + 1] = E[i] + Len(parts[i + 1])
  BY EndsEquation
<1>3. M[0] = 0 /\ \A i \in Nat : M[i + 1] = M[i] + Len(more[i + 1])
  BY EndsEquation
<1>4. \A i \in 0 .. n : E[i] \in Nat /\ M[i] \in Nat
  BY EndsGrow
<1> HIDE DEF E, M
<1>5. 0 \in S
  <2>1. 0 * c = 0 /\ E[0] + M[0] = 0 /\ 0 \in Nat
    BY <1>2, <1>3
  <2>2. E[0] + M[0] <= 0 * c
    BY <2>1
  <2> QED
    BY <2>1, <2>2, Zenon
<1>6. ASSUME NEW i \in Nat, i \in S PROVE i + 1 \in S
  <2> SUFFICES ASSUME i + 1 <= n PROVE E[i + 1] + M[i + 1] <= (i + 1) * c
    OBVIOUS
  <2>1. i + 1 \in 1 .. n /\ i \in 0 .. n
    BY <1>1
  <2>2. E[i + 1] = E[i] + Len(parts[i + 1]) /\ M[i + 1] = M[i] + Len(more[i + 1])
    BY <1>2, <1>3
  <2>3. E[i] + M[i] <= i * c /\ E[i] \in Nat /\ M[i] \in Nat
    BY <1>4, <1>6, <2>1
  <2>4. /\ Len(parts[i + 1]) \in Nat /\ Len(more[i + 1]) \in Nat
        /\ Len(parts[i + 1]) + Len(more[i + 1]) <= c
    BY <1>1, <2>1
  <2> DEFINE p == i * c
             q == (i + 1) * c
  <2>5. q = p + c /\ p \in Nat
    OBVIOUS
  <2>6. E[i] + M[i] <= p
    BY <2>3
  <2> HIDE DEF p, q
  <2>7. (E[i] + Len(parts[i + 1])) + (M[i] + Len(more[i + 1])) <= p + c
    BY <2>3, <2>4, <2>5, <2>6, SumBound
  <2>8. E[i + 1] + M[i + 1] <= q
    BY <2>2, <2>5, <2>7
  <2> QED
    BY <2>8 DEF q
<1> HIDE DEF S
<1>7. \A i \in Nat : i \in S
  BY <1>5, <1>6, WidthRec!SetInduction
<1> QED
  BY <1>1, <1>7 DEF S, E, M

LEMMA LayoutWords ==
    ASSUME NEW ts, NEW bodies, IsSeq(ts), IsSeq(bodies), Len(bodies) = Len(ts), NEW c \in Nat,
           \A i \in 1 .. Len(ts) : /\ Body(ts[i], bodies[i])
                                   /\ Len(bodies[i]) + (IF ts[i].dynamic THEN 1 ELSE 0) <= c
    PROVE  Len(Layout(ts, bodies)) <= Len(ts) * c
<1> DEFINE n == Len(ts)
           rawTail == [i \in DOMAIN ts |-> IF ts[i].dynamic THEN bodies[i] ELSE << >>]
           tail == Listed(rawTail)
           Start(i) == HeadEnd(ts)[n] + Len(FlattenSeq(SubSeq(tail, 1, i - 1)))
           rawHead == [i \in DOMAIN ts |-> IF ts[i].dynamic THEN <<Num(Start(i))>> ELSE bodies[i]]
           head == Listed(rawHead)
<1>1. Layout(ts, bodies) = FlattenSeq(head) \o FlattenSeq(tail)
  BY DEF Layout
<1>2. /\ n \in Nat /\ DOMAIN ts = 1 .. n
      /\ \A i \in 1 .. n : ts[i].dynamic \in BOOLEAN /\ IsSeq(bodies[i]) /\ Len(bodies[i]) \in Nat
  BY SeqFacts DEF Body
<1>3. IsSeq(<< >>) /\ Len(<< >>) = 0
  BY EmptySeq DEF IsSeq
<1>4. /\ Parts(tail) /\ Len(tail) = n
      /\ \A i \in 1 .. n : tail[i] = IF ts[i].dynamic THEN bodies[i] ELSE << >>
  <2>1. IsSeq(rawTail) /\ Len(rawTail) = n
    BY <1>2, FunctionIsSeq
  <2>2. tail = rawTail
    BY <2>1, ListedIs
  <2>3. \A i \in 1 .. n : rawTail[i] = IF ts[i].dynamic THEN bodies[i] ELSE << >>
    BY <1>2
  <2> QED
    BY <1>2, <1>3, <2>1, <2>2, <2>3 DEF Parts
<1> HIDE DEF tail, Start
<1>5. \A w : IsSeq(<<w>>) /\ Len(<<w>>) = 1
  BY FunctionIsSeq, 1 \in Nat, \A w : <<w>> = [j \in 1 .. 1 |-> <<w>>[j]]
<1>6. /\ Parts(head) /\ Len(head) = n
      /\ \A i \in 1 .. n : head[i] = IF ts[i].dynamic THEN <<Num(Start(i))>> ELSE bodies[i]
  <2>1. IsSeq(rawHead) /\ Len(rawHead) = n
    BY <1>2, FunctionIsSeq
  <2>2. head = rawHead
    BY <2>1, ListedIs
  <2>3. \A i \in 1 .. n : rawHead[i] = IF ts[i].dynamic THEN <<Num(Start(i))>> ELSE bodies[i]
    BY <1>2
  <2>4. IsSeq(head) /\ Len(head) = n
    BY <2>1, <2>2
  <2>5. \A i \in 1 .. n : head[i] = IF ts[i].dynamic THEN <<Num(Start(i))>> ELSE bodies[i]
    BY <2>2, <2>3
  <2> HIDE DEF head, rawHead
  <2>6. \A i \in 1 .. n : IsSeq(head[i])
    BY <1>2, <1>5, <2>5
  <2> QED
    BY <2>4, <2>5, <2>6 DEF Parts
<1> HIDE DEF head
<1>7. ASSUME NEW i \in 1 .. n PROVE Len(head[i]) + Len(tail[i]) <= c
  <2>1. /\ Len(bodies[i]) \in Nat
        /\ Len(bodies[i]) + (IF ts[i].dynamic THEN 1 ELSE 0) <= c
    BY <1>2
  <2>2. CASE ts[i].dynamic
    <3>1. Len(head[i]) = 1 /\ Len(tail[i]) = Len(bodies[i])
      BY <1>4, <1>5, <1>6, <2>2
    <3> QED
      BY <2>1, <2>2, <3>1
  <2>3. CASE ~ts[i].dynamic
    <3>1. Len(head[i]) = Len(bodies[i]) /\ Len(tail[i]) = 0
      BY <1>3, <1>4, <1>6, <2>3
    <3> QED
      BY <2>1, <2>3, <3>1
  <2> QED
    BY <1>2, <2>2, <2>3
<1>8. Ends(head)[n] + Ends(tail)[n] <= n * c
  BY <1>4, <1>6, <1>7, EndsBound
<1>9. /\ IsSeq(FlattenSeq(head)) /\ Len(FlattenSeq(head)) = Ends(head)[n]
      /\ IsSeq(FlattenSeq(tail)) /\ Len(FlattenSeq(tail)) = Ends(tail)[n]
  BY <1>4, <1>6, FlattenHolds
<1>10. Len(Layout(ts, bodies)) = Ends(head)[n] + Ends(tail)[n]
  <2> DEFINE x == FlattenSeq(head)
             y == FlattenSeq(tail)
  <2>1. Layout(ts, bodies) = x \o y
    BY <1>1
  <2>2. IsSeq(x) /\ IsSeq(y) /\ Len(x) = Ends(head)[n] /\ Len(y) = Ends(tail)[n]
    BY <1>9
  <2> HIDE DEF x, y
  <2>3. Len(x \o y) = Len(x) + Len(y)
    BY <2>2, ConcatIsSeq
  <2> QED
    BY <2>1, <2>2, <2>3
<1> QED
  BY <1>8, <1>10

LEMMA LayoutBound ==
    ASSUME NEW ts, NEW bodies, IsSeq(ts), IsSeq(bodies), Len(bodies) = Len(ts), NEW b \in Nat,
           \A i \in 1 .. Len(ts) : Body(ts[i], bodies[i]) /\ Len(bodies[i]) <= b
    PROVE  Len(Layout(ts, bodies)) <= Len(ts) * (1 + b)
<1> DEFINE c == 1 + b
<1>1. c \in Nat
  OBVIOUS
<1>2. ASSUME NEW i \in 1 .. Len(ts)
      PROVE  Body(ts[i], bodies[i]) /\ Len(bodies[i]) + (IF ts[i].dynamic THEN 1 ELSE 0) <= c
  <2>1. Len(bodies[i]) \in Nat /\ Len(bodies[i]) <= b /\ Body(ts[i], bodies[i])
    BY SeqFacts DEF Body
  <2>2. CASE ts[i].dynamic
    BY <2>1, <2>2
  <2>3. CASE ~ts[i].dynamic
    BY <2>1, <2>3
  <2> QED
    BY <2>2, <2>3
<1> HIDE DEF c
<1>3. Len(Layout(ts, bodies)) <= Len(ts) * c
  BY <1>1, <1>2, LayoutWords
<1> QED
  BY <1>3 DEF c

LEMMA EncodeBound ==
    ASSUME NEW ts, NEW vs, TupleFits(ts, vs, ValueFits), NEW b \in Nat,
           \A i \in 1 .. Len(ts) : Len(EncodeValue(ts[i], vs[i])) <= b
    PROVE  IsSeq(Encode(ts, vs)) /\ Len(Encode(ts, vs)) <= Len(ts) * (1 + b)
<1> DEFINE raw == [i \in DOMAIN ts |-> EncodeValue(ts[i], vs[i])]
<1>1. /\ IsSeq(ts) /\ Len(ts) \in Nat /\ DOMAIN ts = 1 .. Len(ts)
      /\ \A i \in 1 .. Len(ts) : ValueFits(ts[i], vs[i])
  BY SeqFacts DEF TupleFits
<1>2. IsSeq(raw) /\ Len(raw) = Len(ts) /\ \A i \in 1 .. Len(ts) : raw[i] = EncodeValue(ts[i], vs[i])
  BY <1>1, FunctionIsSeq
<1>3. Encode(ts, vs) = Layout(ts, Listed(raw))
  BY DEF Encode
<1> HIDE DEF raw
<1>4. Listed(raw) = raw
  BY <1>2, ListedIs
<1>5. \A i \in 1 .. Len(ts) : Body(ts[i], raw[i]) /\ Len(raw[i]) <= b
  BY <1>1, <1>2, ValueBody
<1> QED
  BY <1>1, <1>2, <1>3, <1>4, <1>5, LayoutPlaced, LayoutBound

\* A field is at most this long, and so is a value of its type.
LEMMA FieldBound ==
    ASSUME NEW t, NEW v, FieldFits(t, v), NEW b \in Nat,
           t = Bytes => Len(v) < b, \A k \in Nat \ {0} : t = FixedArray(k) => k <= b, 1 <= b
    PROVE  Len(EncodeValue(t, v)) <= b /\ Len(EncodeField(t, v)) <= b
<1>1. EncodeValue(t, v) = EncodeField(t, v)
  BY FieldKind DEF EncodeValue, EncodeElement
<1>2. CASE t = Bytes
  <2>0. Bytes # Word /\ Bytes # Address /\ \A k \in Nat \ {0} : Bytes # FixedArray(k)
    BY DEF Bytes, Word, Address, FixedArray, Type
  <2>. IsSeq(v)
    BY <1>2, <2>0 DEF FieldFits
  <2>1. EncodeField(t, v) = <<Num(Len(v))>> \o v
    BY <1>2 DEF EncodeField, Bytes, Type
  <2>2. Len(EncodeField(t, v)) = 1 + Len(v) /\ Len(v) \in Nat
    BY <1>2, <2>1, ConsIsSeq, SeqFacts
  <2> QED
    BY <1>1, <1>2, <2>2
<1>3. CASE t # Bytes
  <2>1. Body(t, EncodeField(t, v))
    BY FieldBody
  <2>2. CASE t = Word
    BY <1>1, <2>1, <2>2 DEF Body, Word, Type
  <2>3. CASE t = Address
    BY <1>1, <2>1, <2>3 DEF Body, Address, Type
  <2>4. CASE \E k \in Nat \ {0} : t = FixedArray(k) /\ IsSeq(v) /\ Len(v) = k
    <3>1. PICK k \in Nat \ {0} : t = FixedArray(k) /\ IsSeq(v) /\ Len(v) = k
      BY <2>4
    <3>2. EncodeField(t, v) = v
      BY <3>1 DEF EncodeField, FixedArray, Type
    <3> QED
      BY <1>1, <3>1, <3>2
  <2> QED
    BY <1>3, <2>2, <2>3, <2>4 DEF FieldFits
<1> QED
  BY <1>2, <1>3

LEMMA StructBound ==
    ASSUME NEW ts, NEW v, TupleFits(ts, v, FieldFits), NEW b \in Nat,
           \A i \in 1 .. Len(ts) : Len(EncodeField(ts[i], v[i])) <= b
    PROVE  /\ Len(EncodeElement(StructOf(ts), v)) <= Len(ts) * (1 + b)
           /\ EncodeValue(StructOf(ts), v) = EncodeElement(StructOf(ts), v)
<1> DEFINE bodies == FieldBodies(ts, v)
           t == StructOf(ts)
<1>1. t.kind = "struct" /\ t.of = ts
  BY DEF StructOf, Type
<1> HIDE DEF t
<1>2. EncodeElement(t, v) = Layout(ts, Listed(bodies)) /\ EncodeValue(t, v) = EncodeElement(t, v)
  BY <1>1 DEF EncodeElement, EncodeValue, FieldBodies
<1>3. /\ IsSeq(bodies) /\ Len(bodies) = Len(ts) /\ Listed(bodies) = bodies
      /\ \A i \in 1 .. Len(ts) : bodies[i] = EncodeField(ts[i], v[i]) /\ Body(ts[i], bodies[i])
  <2>1. IsSeq(ts) /\ \A i \in 1 .. Len(ts) : FieldFits(ts[i], v[i])
    BY DEF TupleFits
  <2> QED
    BY <2>1, StructBody
<1>4. IsSeq(ts)
  BY DEF TupleFits
<1> HIDE DEF bodies
<1>5. Len(Layout(ts, bodies)) <= Len(ts) * (1 + b)
  BY <1>3, <1>4, LayoutBound
<1> QED
  BY <1>2, <1>3, <1>5 DEF t

LEMMA ArrayBound ==
    ASSUME NEW t, NEW v, IsSeq(v), \A i \in 1 .. Len(v) : ElementFits(t, v[i]), NEW b \in Nat,
           \A i \in 1 .. Len(v) : Len(EncodeElement(t, v[i])) <= b
    PROVE  Len(EncodeValue(ArrayOf(t), v)) <= 1 + Len(v) * (1 + b)
<1> DEFINE ts == [i \in DOMAIN v |-> t]
           raw == [i \in DOMAIN v |-> EncodeElement(t, v[i])]
           a == ArrayOf(t)
<1>1. a.kind = "array" /\ a.of[1] = t
  BY DEF ArrayOf, Type
<1> HIDE DEF a
<1>2. Len(v) \in Nat /\ DOMAIN v = 1 .. Len(v)
  BY SeqFacts
<1>3. IsSeq(ts) /\ Len(ts) = Len(v) /\ \A i \in 1 .. Len(v) : ts[i] = t
  BY <1>2, FunctionIsSeq
<1>4. IsSeq(raw) /\ Len(raw) = Len(v) /\ \A i \in 1 .. Len(v) : raw[i] = EncodeElement(t, v[i])
  BY <1>2, FunctionIsSeq
<1>5. EncodeValue(a, v) = <<Num(Len(v))>> \o Layout(ts, Listed(raw))
  BY <1>1 DEF EncodeValue
<1> HIDE DEF ts, raw
<1>6. Listed(raw) = raw
  BY <1>4, ListedIs
<1>7. IsSeq(Layout(ts, raw)) /\ Len(Layout(ts, raw)) <= Len(v) * (1 + b)
  BY <1>3, <1>4, ElementBody, LayoutPlaced, LayoutBound
<1>8. Len(EncodeValue(a, v)) = 1 + Len(Layout(ts, raw)) /\ Len(Layout(ts, raw)) \in Nat
  BY <1>5, <1>6, <1>7, ConsIsSeq, SeqFacts
<1>9. Len(v) * (1 + b) \in Nat
  BY <1>2
<1>10. Len(EncodeValue(a, v)) <= 1 + Len(v) * (1 + b)
  BY <1>7, <1>8, <1>9
<1> QED
  BY <1>10 DEF a

\* One-word types: the encoding is the words themselves.
LEMMA WordsEncode ==
    ASSUME NEW ts, NEW vs, IsSeq(ts), IsSeq(vs), Len(ts) = Len(vs),
           \A i \in 1 .. Len(ts) : ts[i] \in {Word, Address}
    PROVE  Encode(ts, vs) = vs
<1> DEFINE n == Len(ts)
           raw == [i \in DOMAIN ts |-> EncodeValue(ts[i], vs[i])]
           W == HeadEnd(ts)
           S == {i \in Nat : i <= n => W[i] = i}
           L == Layout(ts, raw)
<1>1. n \in Nat /\ DOMAIN ts = 1 .. n
  BY SeqFacts
<1>2. ASSUME NEW i \in 1 .. n
      PROVE  /\ ts[i].dynamic \in BOOLEAN /\ ~ts[i].dynamic /\ ts[i].width = 1
             /\ ts[i].kind \in {"word", "address"}
  <2>1. CASE ts[i] = Word
    BY <2>1 DEF Word, Type
  <2>2. CASE ts[i] = Address
    BY <2>2 DEF Address, Type
  <2> QED
    BY <2>1, <2>2
<1>3. \A w : IsSeq(<<w>>) /\ Len(<<w>>) = 1 /\ <<w>>[1] = w
  BY FunctionIsSeq, 1 \in Nat, \A w : <<w>> = [j \in 1 .. 1 |-> <<w>>[j]]
<1>4. IsSeq(raw) /\ Len(raw) = n /\ \A i \in 1 .. n : raw[i] = EncodeValue(ts[i], vs[i])
  BY <1>1, FunctionIsSeq
<1>5. Encode(ts, vs) = Layout(ts, Listed(raw))
  BY DEF Encode
<1> HIDE DEF raw
<1>6. \A i \in 1 .. n : raw[i] = <<vs[i]>>
  BY <1>2, <1>4 DEF EncodeValue, EncodeElement, EncodeField
<1>7. Listed(raw) = raw
  BY <1>4, ListedIs
<1>8. \A i \in 1 .. n : Body(ts[i], raw[i]) /\ Len(raw[i]) + (IF ts[i].dynamic THEN 1 ELSE 0) <= 1
  <2> TAKE i \in 1 .. n
  <2>1. IsSeq(raw[i]) /\ Len(raw[i]) = 1
    BY <1>3, <1>6
  <2>2. Body(ts[i], raw[i])
    BY <1>2, <2>1 DEF Body
  <2>3. (IF ts[i].dynamic THEN 1 ELSE 0) = 0
    BY <1>2
  <2> QED
    BY <2>1, <2>2, <2>3
<1>9. /\ IsSeq(L) /\ Len(L) >= n
      /\ \A data : IsSeq(data) /\ Holds(data, 0, L) =>
           \A i \in 1 .. n : W[i - 1] \in Nat /\ Placed(data, W[i - 1], ts[i], raw[i])
  BY <1>4, <1>8, LayoutPlaced
<1>10. Len(L) <= n * 1
  BY <1>4, <1>8, LayoutWords, 1 \in Nat
<1> HIDE DEF L
<1>11. Len(L) = n
  BY <1>1, <1>9, <1>10, SeqFacts
<1>12. W[0] = 0 /\ \A i \in 1 .. n : W[i] = W[i - 1] + ts[i].width
  BY <1>1, HeadEndEquation
<1> HIDE DEF W
<1>13. 0 \in S
  BY <1>12
<1>14. ASSUME NEW i \in Nat, i \in S PROVE i + 1 \in S
  <2> SUFFICES ASSUME i + 1 <= n PROVE W[i + 1] = i + 1
    OBVIOUS
  <2>1. i + 1 \in 1 .. n /\ i <= n /\ (i + 1) - 1 = i
    BY <1>1
  <2> QED
    BY <1>2, <1>12, <1>14, <2>1
<1> HIDE DEF S
<1>15. \A i \in Nat : i \in S
  BY <1>13, <1>14, WidthRec!SetInduction
<1>16. Holds(L, 0, L)
  BY <1>9, SeqFacts, \A i \in 1 .. Len(L) : 0 + i = i DEF Holds
<1>17. ASSUME NEW i \in 1 .. n PROVE L[i] = vs[i]
  <2>1. i - 1 \in Nat /\ i - 1 <= n /\ (i - 1) + 1 = i
    BY <1>1
  <2>2. W[i - 1] = i - 1
    BY <1>15, <2>1 DEF S
  <2>3. Placed(L, i - 1, ts[i], <<vs[i]>>)
    BY <1>6, <1>9, <1>16, <2>2
  <2>4. Holds(L, i - 1, <<vs[i]>>)
    BY <1>2, <2>3 DEF Placed
  <2>5. L[(i - 1) + 1] = <<vs[i]>>[1]
    BY <1>3, <2>4, 1 \in 1 .. 1 DEF Holds
  <2> QED
    BY <1>3, <2>1, <2>5
<1>18. L = vs
  BY <1>9, <1>11, <1>17, SeqEquality
<1> QED
  BY <1>5, <1>7, <1>18 DEF L

LEMMA TuplesAreSeqs ==
    /\ \A a : IsSeq(<<a>>) /\ Len(<<a>>) = 1
    /\ \A a, b : IsSeq(<<a, b>>) /\ Len(<<a, b>>) = 2
    /\ \A a, b, c : IsSeq(<<a, b, c>>) /\ Len(<<a, b, c>>) = 3
    /\ \A a, b, c, d : IsSeq(<<a, b, c, d>>) /\ Len(<<a, b, c, d>>) = 4
    /\ \A a, b, c, d, e : IsSeq(<<a, b, c, d, e>>) /\ Len(<<a, b, c, d, e>>) = 5
    /\ \A a, b, c, d, e, f, g :
         IsSeq(<<a, b, c, d, e, f, g>>) /\ Len(<<a, b, c, d, e, f, g>>) = 7
    /\ \A a, b, c, d, e, f, g, h :
         IsSeq(<<a, b, c, d, e, f, g, h>>) /\ Len(<<a, b, c, d, e, f, g, h>>) = 8
<1>1. \A a : IsSeq(<<a>>) /\ Len(<<a>>) = 1
  <2> TAKE a
  <2> DEFINE s == <<a>>
  <2>1. s = [j \in 1 .. 1 |-> s[j]]
    OBVIOUS
  <2> HIDE DEF s
  <2>2. IsSeq(s) /\ Len(s) = 1
    BY <2>1, FunctionIsSeq, 1 \in Nat
  <2> QED
    BY <2>2 DEF s
<1>2. \A a, b : IsSeq(<<a, b>>) /\ Len(<<a, b>>) = 2
  <2> TAKE a, b
  <2> DEFINE s == <<a, b>>
  <2>1. s = [j \in 1 .. 2 |-> s[j]]
    OBVIOUS
  <2> HIDE DEF s
  <2>2. IsSeq(s) /\ Len(s) = 2
    BY <2>1, FunctionIsSeq, 2 \in Nat
  <2> QED
    BY <2>2 DEF s
<1>3. \A a, b, c : IsSeq(<<a, b, c>>) /\ Len(<<a, b, c>>) = 3
  <2> TAKE a, b, c
  <2> DEFINE s == <<a, b, c>>
  <2>1. s = [j \in 1 .. 3 |-> s[j]]
    OBVIOUS
  <2> HIDE DEF s
  <2>2. IsSeq(s) /\ Len(s) = 3
    BY <2>1, FunctionIsSeq, 3 \in Nat
  <2> QED
    BY <2>2 DEF s
<1>4. \A a, b, c, d : IsSeq(<<a, b, c, d>>) /\ Len(<<a, b, c, d>>) = 4
  <2> TAKE a, b, c, d
  <2> DEFINE s == <<a, b, c, d>>
  <2>1. s = [j \in 1 .. 4 |-> s[j]]
    OBVIOUS
  <2> HIDE DEF s
  <2>2. IsSeq(s) /\ Len(s) = 4
    BY <2>1, FunctionIsSeq, 4 \in Nat
  <2> QED
    BY <2>2 DEF s
<1>5. \A a, b, c, d, e : IsSeq(<<a, b, c, d, e>>) /\ Len(<<a, b, c, d, e>>) = 5
  <2> TAKE a, b, c, d, e
  <2> DEFINE s == <<a, b, c, d, e>>
  <2>1. s = [j \in 1 .. 5 |-> s[j]]
    OBVIOUS
  <2> HIDE DEF s
  <2>2. IsSeq(s) /\ Len(s) = 5
    BY <2>1, FunctionIsSeq, 5 \in Nat
  <2> QED
    BY <2>2 DEF s
<1>6. \A a, b, c, d, e, f, g :
        IsSeq(<<a, b, c, d, e, f, g>>) /\ Len(<<a, b, c, d, e, f, g>>) = 7
  <2> TAKE a, b, c, d, e, f, g
  <2> DEFINE s == <<a, b, c, d, e, f, g>>
  <2>1. s = [j \in 1 .. 7 |-> s[j]]
    OBVIOUS
  <2> HIDE DEF s
  <2>2. IsSeq(s) /\ Len(s) = 7
    BY <2>1, FunctionIsSeq, 7 \in Nat
  <2> QED
    BY <2>2 DEF s
<1>7. \A a, b, c, d, e, f, g, h :
        IsSeq(<<a, b, c, d, e, f, g, h>>) /\ Len(<<a, b, c, d, e, f, g, h>>) = 8
  <2> TAKE a, b, c, d, e, f, g, h
  <2> DEFINE s == <<a, b, c, d, e, f, g, h>>
  <2>1. s = [j \in 1 .. 8 |-> s[j]]
    OBVIOUS
  <2> HIDE DEF s
  <2>2. IsSeq(s) /\ Len(s) = 8
    BY <2>1, FunctionIsSeq, 8 \in Nat
  <2> QED
    BY <2>2 DEF s
<1> QED
  BY <1>1, <1>2, <1>3, <1>4, <1>5, <1>6, <1>7

LEMMA FieldsFit ==
    /\ \A v : FieldFits(Word, v)
    /\ \A v : AddressOf(v) = v => FieldFits(Address, v)
    /\ \A v : IsSeq(v) => FieldFits(Bytes, v)
    /\ \A v : IsSeq(v) /\ Len(v) = 3 => FieldFits(FixedArray(3), v)
    /\ \A v : IsSeq(v) /\ Len(v) = 8 => FieldFits(FixedArray(8), v)
BY 3 \in Nat \ {0}, 8 \in Nat \ {0} DEF FieldFits

-----------------------------------------------------------------------------
(* Actions *)

ActionFits(a) ==
    /\ a = [cmx |-> a.cmx, enc_ciphertext |-> a.enc_ciphertext,
            out_ciphertext |-> a.out_ciphertext, epk |-> a.epk, nf_old |-> a.nf_old,
            anchor |-> a.anchor, proof |-> a.proof, pub_fields |-> a.pub_fields]
    /\ IsSeq(a.enc_ciphertext) /\ Len(a.enc_ciphertext) = EncWords
    /\ IsSeq(a.out_ciphertext) /\ Len(a.out_ciphertext) <= 8
    /\ IsSeq(a.proof) /\ Len(a.proof) <= 8
    /\ IsSeq(a.pub_fields) /\ Len(a.pub_fields) = 8

ActionsFit(actions) == IsSeq(actions) /\ \A i \in 1 .. Len(actions) : ActionFits(actions[i])

LEMMA ActionTokenFits ==
    ASSUME NEW a, ActionFits(a)
    PROVE  /\ TupleFits(bundle_action_param.of, action_token(a), FieldFits)
           /\ ElementFits(bundle_action_param, action_token(a))
           /\ parse_action(action_token(a)) = a
<1> DEFINE ts == <<Word, Bytes, Bytes, Word, Word, Word, Bytes, FixedArray(8)>>
           v == action_token(a)
<1>1. bundle_action_param = StructOf(ts) /\ bundle_action_param.of = ts
  BY DEF bundle_action_param, StructOf, Type
<1>2. IsSeq(ts) /\ Len(ts) = 8 /\ IsSeq(v) /\ Len(v) = 8
  BY TuplesAreSeqs DEF action_token
<1>3. /\ FieldFits(ts[1], v[1]) /\ FieldFits(ts[2], v[2]) /\ FieldFits(ts[3], v[3])
      /\ FieldFits(ts[4], v[4]) /\ FieldFits(ts[5], v[5]) /\ FieldFits(ts[6], v[6])
      /\ FieldFits(ts[7], v[7]) /\ FieldFits(ts[8], v[8])
  <2>1. /\ IsSeq(a.enc_ciphertext) /\ IsSeq(a.out_ciphertext) /\ IsSeq(a.proof)
        /\ IsSeq(a.pub_fields) /\ Len(a.pub_fields) = 8
    BY DEF ActionFits
  <2>2. /\ v[2] = a.enc_ciphertext /\ v[3] = a.out_ciphertext /\ v[7] = a.proof
        /\ v[8] = a.pub_fields
    BY DEF action_token
  <2>3. /\ ts[1] = Word /\ ts[2] = Bytes /\ ts[3] = Bytes /\ ts[4] = Word /\ ts[5] = Word
        /\ ts[6] = Word /\ ts[7] = Bytes /\ ts[8] = FixedArray(8)
    OBVIOUS
  <2> HIDE DEF ts, v
  <2> QED
    BY <2>1, <2>2, <2>3, FieldsFit
<1>4. \A i \in 1 .. 8 : i = 1 \/ i = 2 \/ i = 3 \/ i = 4 \/ i = 5 \/ i = 6 \/ i = 7 \/ i = 8
  OBVIOUS
<1>5. parse_action(v) = a
  BY DEF ActionFits, parse_action, action_token
<1> HIDE DEF ts, v
<1>6. \A i \in 1 .. 8 : FieldFits(ts[i], v[i])
  BY <1>3, <1>4
<1>7. TupleFits(ts, v, FieldFits)
  BY <1>2, <1>6 DEF TupleFits
<1> QED
  BY <1>1, <1>5, <1>7 DEF ElementFits, v

\* The words of an action with e in-band words, and of one field of it.
FieldWords == EncWords + 9
ActionWords == 9 * (1 + FieldWords)

LEMMA WordsAreNat == FieldWords \in Nat /\ ActionWords \in Nat /\ FieldWords >= 9
BY BundleAssumption DEF FieldWords, ActionWords

LEMMA TypesDiffer ==
    /\ Word # Bytes /\ Address # Bytes /\ \A k : FixedArray(k) # Bytes
    /\ \A k : FixedArray(k) # Word /\ FixedArray(k) # Address
    /\ \A k, l : FixedArray(k) = FixedArray(l) => k = l
BY DEF Word, Address, Bytes, FixedArray, Type

LEMMA FieldWordsBound ==
    ASSUME NEW t, NEW v, FieldFits(t, v), t = Bytes => Len(v) < FieldWords,
           \A k \in Nat \ {0} : t = FixedArray(k) => k <= 8
    PROVE  Len(EncodeField(t, v)) <= FieldWords /\ Len(EncodeValue(t, v)) <= FieldWords
<1>1. \A k \in Nat \ {0} : t = FixedArray(k) => k <= FieldWords
  BY WordsAreNat
<1> QED
  BY <1>1, WordsAreNat, FieldBound

LEMMA ActionFieldBound ==
    ASSUME NEW a, ActionFits(a)
    PROVE  \A i \in 1 .. 8 :
             Len(EncodeField(bundle_action_param.of[i], action_token(a)[i])) <= FieldWords
<1> DEFINE ts == <<Word, Bytes, Bytes, Word, Word, Word, Bytes, FixedArray(8)>>
           v == action_token(a)
<1>1. bundle_action_param.of = ts
  BY DEF bundle_action_param, StructOf, Type
<1>2. Len(ts) = 8 /\ TupleFits(ts, v, FieldFits)
  BY <1>1, ActionTokenFits
<1>3. \A i \in 1 .. 8 : ts[i] \in {Word, FixedArray(8)} \/ (ts[i] = Bytes /\ i \in {2, 3, 7})
  BY \A i \in 1 .. 8 : i = 1 \/ i = 2 \/ i = 3 \/ i = 4 \/ i = 5 \/ i = 6 \/ i = 7 \/ i = 8
<1>4. Len(v[2]) < FieldWords /\ Len(v[3]) < FieldWords /\ Len(v[7]) < FieldWords
  <2>1. v[2] = a.enc_ciphertext /\ v[3] = a.out_ciphertext /\ v[7] = a.proof
    BY DEF action_token
  <2>2. /\ Len(a.enc_ciphertext) = EncWords
        /\ Len(a.out_ciphertext) <= 8 /\ Len(a.out_ciphertext) \in Nat
        /\ Len(a.proof) <= 8 /\ Len(a.proof) \in Nat
    BY SeqFacts DEF ActionFits
  <2> QED
    BY <2>1, <2>2, BundleAssumption DEF FieldWords
<1> HIDE DEF ts, v
<1>5. ASSUME NEW i \in 1 .. 8 PROVE Len(EncodeField(ts[i], v[i])) <= FieldWords
  <2>1. FieldFits(ts[i], v[i])
    BY <1>2 DEF TupleFits
  <2>2. ts[i] = Bytes => Len(v[i]) < FieldWords
    BY <1>3, <1>4, TypesDiffer
  <2>3. \A k \in Nat \ {0} : ts[i] = FixedArray(k) => k <= 8
    BY <1>3, TypesDiffer
  <2> QED
    BY <2>1, <2>2, <2>3, FieldWordsBound
<1> QED
  BY <1>1, <1>5 DEF v

LEMMA ActionBound ==
    ASSUME NEW a, ActionFits(a)
    PROVE  Len(EncodeElement(bundle_action_param, action_token(a))) <= ActionWords
<1> DEFINE ts == <<Word, Bytes, Bytes, Word, Word, Word, Bytes, FixedArray(8)>>
           v == action_token(a)
<1>1. bundle_action_param = StructOf(ts) /\ bundle_action_param.of = ts
  BY DEF bundle_action_param, StructOf, Type
<1>2. Len(ts) = 8 /\ TupleFits(ts, v, FieldFits)
  BY <1>1, ActionTokenFits
<1>3. \A i \in 1 .. 8 : Len(EncodeField(ts[i], v[i])) <= FieldWords
  BY <1>1, ActionFieldBound
<1> HIDE DEF ts, v
<1>4. Len(EncodeElement(StructOf(ts), v)) <= 8 * (1 + FieldWords)
  BY <1>2, <1>3, StructBound, WordsAreNat
<1>5. Len(EncodeElement(StructOf(ts), v)) \in Nat
  BY <1>1, ActionTokenFits, ElementBody, SeqFacts DEF Body, v
<1> QED
  BY <1>1, <1>4, <1>5, WordsAreNat DEF ActionWords, v

\* An action of the oldest layout has a spend authorisation, too.
LEMMA LegacyTokenFits ==
    ASSUME NEW a, ActionFits(a), NEW sig, IsSeq(sig), Len(sig) = 3
    PROVE  /\ ElementFits(legacy_bundle_action_param, Append(action_token(a), sig))
           /\ Len(EncodeElement(legacy_bundle_action_param, Append(action_token(a), sig)))
                <= ActionWords
           /\ \A i \in 1 .. 8 : Append(action_token(a), sig)[i] = action_token(a)[i]
           /\ Append(action_token(a), sig)[9] = sig
<1> DEFINE us == bundle_action_param.of
           w == action_token(a)
           ts == Append(us, FixedArray(3))
           v == Append(w, sig)
<1>1. TupleFits(us, w, FieldFits) /\ Len(us) = 8 /\ Len(w) = 8 /\ IsSeq(us) /\ IsSeq(w)
  <2>1. TupleFits(us, w, FieldFits)
    BY ActionTokenFits
  <2>2. us = <<Word, Bytes, Bytes, Word, Word, Word, Bytes, FixedArray(8)>>
    BY DEF bundle_action_param, StructOf, Type
  <2>3. Len(us) = 8
    BY <2>2
  <2> HIDE DEF us, w
  <2> QED
    BY <2>1, <2>3 DEF TupleFits
<1>2. legacy_bundle_action_param = StructOf(ts)
  BY DEF legacy_bundle_action_param
<1>3. \A i \in 1 .. 8 : Len(EncodeField(us[i], w[i])) <= FieldWords
  BY ActionFieldBound
<1> HIDE DEF us, w
<1>4. /\ IsSeq(ts) /\ Len(ts) = 9 /\ ts[9] = FixedArray(3) /\ \A i \in 1 .. 8 : ts[i] = us[i]
      /\ IsSeq(v) /\ Len(v) = 9 /\ v[9] = sig /\ \A i \in 1 .. 8 : v[i] = w[i]
  <2> DEFINE x == FixedArray(3)
  <2>1. Len(us) = 8 /\ Len(w) = 8
    BY <1>1
  <2>2. /\ IsSeq(Append(us, x)) /\ Len(us) \in Nat /\ Len(Append(us, x)) = Len(us) + 1
        /\ \A k \in 1 .. Len(us) : Append(us, x)[k] = us[k]
        /\ Append(us, x)[Len(us) + 1] = x
    <3> HIDE DEF x
    <3> QED
      BY <1>1, AppendIsSeq
  <2>3. /\ IsSeq(Append(w, sig)) /\ Len(w) \in Nat /\ Len(Append(w, sig)) = Len(w) + 1
        /\ \A k \in 1 .. Len(w) : Append(w, sig)[k] = w[k]
        /\ Append(w, sig)[Len(w) + 1] = sig
    BY <1>1, AppendIsSeq
  <2>4. ts = Append(us, x) /\ v = Append(w, sig)
    OBVIOUS
  <2> HIDE DEF ts, v
  <2>5. /\ IsSeq(ts) /\ Len(ts) = 8 + 1 /\ ts[8 + 1] = x /\ \A i \in 1 .. 8 : ts[i] = us[i]
    BY <2>1, <2>2, <2>4
  <2>6. /\ IsSeq(v) /\ Len(v) = 8 + 1 /\ v[8 + 1] = sig /\ \A i \in 1 .. 8 : v[i] = w[i]
    BY <2>1, <2>3, <2>4
  <2> QED
    BY <2>5, <2>6, 8 + 1 = 9
<1>5. FieldFits(FixedArray(3), sig) /\ Len(EncodeField(FixedArray(3), sig)) <= FieldWords
  <2>1. FieldFits(FixedArray(3), sig)
    BY FieldsFit
  <2>2. FixedArray(3) # Bytes /\ \A k \in Nat \ {0} : FixedArray(3) = FixedArray(k) => k <= 8
    BY TypesDiffer
  <2> QED
    BY <2>1, <2>2, FieldWordsBound
<1> HIDE DEF ts, v
<1>6. \A i \in 1 .. 9 : i \in 1 .. 8 \/ i = 9
  OBVIOUS
<1>7. \A i \in 1 .. 9 : FieldFits(ts[i], v[i]) /\ Len(EncodeField(ts[i], v[i])) <= FieldWords
  BY <1>1, <1>3, <1>4, <1>5, <1>6 DEF TupleFits
<1>8. TupleFits(ts, v, FieldFits)
  BY <1>4, <1>7 DEF TupleFits
<1>9. ElementFits(StructOf(ts), v)
  BY <1>8 DEF ElementFits
<1>10. Len(EncodeElement(StructOf(ts), v)) <= 9 * (1 + FieldWords)
  BY <1>4, <1>7, <1>8, StructBound, WordsAreNat
<1> QED
  BY <1>2, <1>4, <1>9, <1>10 DEF ActionWords, v, w

\* The words of n actions.
ActionsWords(n) == 1 + n * (1 + ActionWords)

LEMMA ActionsWordsNat == \A n \in Nat : ActionsWords(n) \in Nat
BY WordsAreNat DEF ActionsWords

\* An array of actions of that layout.
LEMMA LegacyTokensFit ==
    ASSUME NEW actions, ActionsFit(actions), NEW v, IsSeq(v), Len(v) = Len(actions),
           \A i \in 1 .. Len(actions) : \E sig :
             IsSeq(sig) /\ Len(sig) = 3 /\ v[i] = Append(action_token(actions[i]), sig)
    PROVE  /\ ValueFits(ArrayOf(legacy_bundle_action_param), v)
           /\ Len(EncodeValue(ArrayOf(legacy_bundle_action_param), v)) <= ActionsWords(Len(actions))
<1>1. \A i \in 1 .. Len(v) : /\ ElementFits(legacy_bundle_action_param, v[i])
                             /\ Len(EncodeElement(legacy_bundle_action_param, v[i])) <= ActionWords
  <2> TAKE i \in 1 .. Len(v)
  <2>1. PICK sig : IsSeq(sig) /\ Len(sig) = 3 /\ v[i] = Append(action_token(actions[i]), sig)
    OBVIOUS
  <2>2. ActionFits(actions[i])
    BY DEF ActionsFit
  <2> QED
    BY <2>1, <2>2, LegacyTokenFits
<1>2. ValueFits(ArrayOf(legacy_bundle_action_param), v)
  BY <1>1 DEF ValueFits
<1>3. Len(EncodeValue(ArrayOf(legacy_bundle_action_param), v)) <= ActionsWords(Len(v))
  BY <1>1, ArrayBound, WordsAreNat DEF ActionsWords
<1> QED
  BY <1>2, <1>3

LEMMA ActionsTokenFits ==
    ASSUME NEW actions, ActionsFit(actions)
    PROVE  /\ ValueFits(ArrayOf(bundle_action_param), actions_token(actions))
           /\ IsSeq(actions_token(actions)) /\ Len(actions_token(actions)) = Len(actions)
           /\ parse_actions(actions_token(actions)) = actions
           /\ Len(EncodeValue(ArrayOf(bundle_action_param), actions_token(actions)))
                <= ActionsWords(Len(actions))
<1> DEFINE v == actions_token(actions)
           n == Len(actions)
<1>1. n \in Nat /\ DOMAIN actions = 1 .. n /\ actions = [i \in 1 .. n |-> actions[i]]
  BY SeqFacts DEF ActionsFit
<1>2. v = [i \in 1 .. n |-> action_token(actions[i])]
  BY <1>1 DEF actions_token
<1> HIDE DEF v
<1>3. IsSeq(v) /\ Len(v) = n /\ DOMAIN v = 1 .. n /\ \A i \in 1 .. n : v[i] = action_token(actions[i])
  BY <1>1, <1>2, FunctionIsSeq
<1>4. \A i \in 1 .. n : /\ ElementFits(bundle_action_param, v[i])
                        /\ Len(EncodeElement(bundle_action_param, v[i])) <= ActionWords
                        /\ parse_action(v[i]) = actions[i]
  BY <1>3, ActionTokenFits, ActionBound DEF ActionsFit
<1>5. ValueFits(ArrayOf(bundle_action_param), v)
  BY <1>3, <1>4 DEF ValueFits
<1>6. parse_actions(v) = actions
  BY <1>1, <1>3, <1>4 DEF parse_actions
<1>7. Len(EncodeValue(ArrayOf(bundle_action_param), v)) <= ActionsWords(n)
  BY <1>3, <1>4, ArrayBound, WordsAreNat DEF ActionsWords
<1> QED
  BY <1>3, <1>5, <1>6, <1>7 DEF v

-----------------------------------------------------------------------------
(* Private calls *)

CallFits(call) ==
    /\ call = [actions |-> call.actions, binding_proof |-> call.binding_proof]
    /\ ActionsFit(call.actions) /\ IsSeq(call.binding_proof) /\ Len(call.binding_proof) = 8

InnerWords(n) == FieldWords + ActionsWords(n)
CallWords(n) == 2 * (2 + InnerWords(n))

LEMMA CallWordsNat == \A n \in Nat : InnerWords(n) \in Nat /\ CallWords(n) \in Nat
BY ActionsWordsNat, WordsAreNat DEF InnerWords, CallWords

LEMMA CalldataWordsNat == \A n \in Nat : CalldataWords(n) \in Nat
BY BundleAssumption DEF CalldataWords

\* The eight parameters of the longest call are words, or calls.
LEMMA CalldataBound ==
    ASSUME NEW n \in Nat
    PROVE  8 * (1 + CallWords(n)) <= CalldataWords(n) /\ CallWords(n) <= CalldataWords(n)
           /\ InnerWords(n) <= CalldataWords(n) /\ 72 <= CalldataWords(n)
<1> DEFINE c == 9 * EncWords + 91
           p == n * c
<1>1. EncWords \in Nat /\ c \in Nat
  BY BundleAssumption
<1>2. 1 + ActionWords = c
  BY <1>1 DEF ActionWords, FieldWords
<1>3. p \in Nat
  BY <1>1
<1>4. InnerWords(n) = EncWords + 10 + p /\ CalldataWords(n) = 200 + 16 * (EncWords + p)
  <2>1. ActionsWords(n) = 1 + p
    BY <1>2 DEF ActionsWords
  <2>2. InnerWords(n) = (EncWords + 9) + (1 + p)
    BY <2>1 DEF InnerWords, FieldWords
  <2>3. CalldataWords(n) = 200 + 16 * (EncWords + p)
    BY DEF CalldataWords
  <2> HIDE DEF p
  <2> QED
    BY <1>1, <1>3, <2>2, <2>3
<1> HIDE DEF p
<1>5. CallWords(n) = 24 + 2 * EncWords + 2 * p
  BY <1>1, <1>3, <1>4 DEF CallWords
<1> QED
  BY <1>1, <1>3, <1>4, <1>5

\* A private call that is a field of calldata: it fits, it is no longer than
\* this, and it is parsed as what it was.
LEMMA CallTokenFits ==
    ASSUME NEW call, CallFits(call), CalldataWords(Len(call.actions)) < U32
    PROVE  /\ ElementFits(privacy_call_param, privacy_call_token(call))
           /\ Len(EncodeValue(privacy_call_param, privacy_call_token(call)))
                <= CallWords(Len(call.actions))
           /\ Decode(<<ArrayOf(bundle_action_param)>>, privacy_call_token(call)[1])
                = Readable(<<actions_token(call.actions)>>)
           /\ parse_privacy_call(privacy_call_token(call)) = Ok(call)
<1> DEFINE n == Len(call.actions)
           us == <<ArrayOf(bundle_action_param)>>
           ws == <<actions_token(call.actions)>>
           inner == Encode(us, ws)
           ts == <<Bytes, FixedArray(8)>>
           v == privacy_call_token(call)
<1>1. n \in Nat /\ InnerWords(n) \in Nat /\ CallWords(n) \in Nat /\ ActionsWords(n) \in Nat
  BY SeqFacts, CallWordsNat, ActionsWordsNat DEF CallFits, ActionsFit
<1>2. v = <<inner, call.binding_proof>>
  BY DEF privacy_call_token
<1>3. IsSeq(us) /\ Len(us) = 1 /\ IsSeq(ws) /\ Len(ws) = 1
  BY TuplesAreSeqs
<1>4. ValueFits(us[1], ws[1]) /\ Len(EncodeValue(us[1], ws[1])) <= ActionsWords(n)
  BY ActionsTokenFits DEF CallFits
<1>5. \A i \in 1 .. 1 : i = 1
  OBVIOUS
<1> HIDE DEF us, ws
<1>6. \A i \in 1 .. Len(us) : /\ ValueFits(us[i], ws[i])
                              /\ Len(EncodeValue(us[i], ws[i])) <= ActionsWords(n)
  BY <1>3, <1>4, <1>5
<1>7. TupleFits(us, ws, ValueFits)
  BY <1>3, <1>6 DEF TupleFits
<1>8. IsSeq(inner) /\ Len(inner) <= InnerWords(n)
  <2> DEFINE b == ActionsWords(n)
  <2> b \in Nat
    BY <1>1
  <2> HIDE DEF b
  <2>1. \A i \in 1 .. Len(us) : Len(EncodeValue(us[i], ws[i])) <= b
    BY <1>6 DEF b
  <2>2. IsSeq(inner) /\ Len(inner) <= Len(us) * (1 + b)
    BY <1>7, <2>1, EncodeBound
  <2>3. Len(us) * (1 + b) = 1 + b
    BY <1>3
  <2>4. InnerWords(n) = FieldWords + b /\ FieldWords \in Nat /\ FieldWords >= 9
    BY WordsAreNat DEF InnerWords, b
  <2>5. Len(inner) \in Nat
    BY <2>2, SeqFacts
  <2> HIDE DEF inner
  <2> QED
    BY <2>2, <2>3, <2>4, <2>5
<1>9. Len(inner) < U32
  <2>1. InnerWords(n) <= CalldataWords(n) /\ 72 <= CalldataWords(n)
    BY <1>1, CalldataBound
  <2>2. CalldataWords(n) < U32 /\ CalldataWords(n) \in Nat
    BY <1>1, CalldataWordsNat
  <2>3. Len(inner) \in Nat
    BY <1>8, SeqFacts
  <2> HIDE DEF n, inner
  <2> QED
    BY <1>1, <1>8, <2>1, <2>2, <2>3, AbiAssumption
<1>10. Decode(us, inner) = Readable(ws)
  BY <1>7, <1>9, RoundTrip
<1> HIDE DEF inner
<1>11. IsSeq(ts) /\ Len(ts) = 2 /\ IsSeq(v) /\ Len(v) = 2
  BY <1>2, TuplesAreSeqs
<1>12. FieldFits(ts[1], v[1]) /\ FieldFits(ts[2], v[2])
  BY <1>2, <1>8, FieldsFit DEF CallFits
<1>13. v[1] = inner /\ v[2] = call.binding_proof /\ ts[1] = Bytes /\ ts[2] = FixedArray(8)
  BY <1>2
<1>14. privacy_call_param = StructOf(ts)
  BY DEF privacy_call_param
<1> HIDE DEF ts, v
<1>15. \A i \in 1 .. 2 : i = 1 \/ i = 2
  OBVIOUS
<1>16. TupleFits(ts, v, FieldFits)
  BY <1>11, <1>12, <1>15 DEF TupleFits
<1>17. /\ Len(EncodeField(ts[1], v[1])) <= 1 + InnerWords(n)
       /\ Len(EncodeField(ts[2], v[2])) <= 1 + InnerWords(n)
  <2>1. Len(v[1]) < 1 + InnerWords(n) /\ 8 <= 1 + InnerWords(n)
    <3>1. Len(inner) \in Nat
      BY <1>8, SeqFacts
    <3>2. InnerWords(n) >= 8
      BY <1>1, WordsAreNat DEF InnerWords
    <3> QED
      BY <1>1, <1>8, <1>13, <3>1, <3>2
  <2>2. Len(EncodeField(ts[1], v[1])) <= 1 + InnerWords(n)
    BY <1>1, <1>12, <1>13, <2>1, TypesDiffer, FieldBound
  <2>3. Len(EncodeField(ts[2], v[2])) <= 1 + InnerWords(n)
    BY <1>1, <1>12, <1>13, <2>1, TypesDiffer, FieldBound
  <2> QED
    BY <2>2, <2>3
<1>18. /\ Len(EncodeElement(StructOf(ts), v)) <= 2 * (1 + (1 + InnerWords(n)))
       /\ EncodeValue(StructOf(ts), v) = EncodeElement(StructOf(ts), v)
  <2> DEFINE b == 1 + InnerWords(n)
  <2>1. b \in Nat
    BY <1>1
  <2> HIDE DEF b
  <2>2. \A i \in 1 .. Len(ts) : Len(EncodeField(ts[i], v[i])) <= b
    BY <1>11, <1>15, <1>17 DEF b
  <2>3. /\ Len(EncodeElement(StructOf(ts), v)) <= Len(ts) * (1 + b)
        /\ EncodeValue(StructOf(ts), v) = EncodeElement(StructOf(ts), v)
    BY <1>16, <2>1, <2>2, StructBound
  <2> QED
    BY <1>11, <2>3 DEF b
<1>19. Len(EncodeValue(StructOf(ts), v)) <= CallWords(n)
  BY <1>1, <1>18 DEF CallWords
<1>20. ElementFits(StructOf(ts), v)
  BY <1>16 DEF ElementFits
<1>21. parse_privacy_call(v) = Ok(call)
  <2>1. parse_actions(actions_token(call.actions)) = call.actions
    BY ActionsTokenFits DEF CallFits
  <2>2. Decode(us, v[1]).ok /\ Decode(us, v[1]).value[1] = actions_token(call.actions)
    BY <1>10, <1>13 DEF Readable, ws
  <2>3. parse_privacy_call(v) = Ok([actions |-> call.actions, binding_proof |-> call.binding_proof])
    BY <1>13, <2>1, <2>2 DEF parse_privacy_call, us
  <2> QED
    BY <2>3 DEF CallFits
<1> QED
  BY <1>10, <1>13, <1>14, <1>19, <1>20, <1>21 DEF v, us, ws

-----------------------------------------------------------------------------
(* Updates of the root, one or two at a time *)

UpdateTokens(v) ==
    /\ IsSeq(v) /\ Len(v) <= 2
    /\ \A i \in 1 .. Len(v) : \E root, commit, j, proof :
         IsSeq(proof) /\ Len(proof) <= 1 /\ v[i] = <<root, commit, j, proof>>

LEMMA UpdateTokensFit ==
    ASSUME NEW v, UpdateTokens(v)
    PROVE  /\ ValueFits(ArrayOf(StructOf(root_update_params)), v)
           /\ Len(EncodeValue(ArrayOf(StructOf(root_update_params)), v)) <= 27
<1> DEFINE ts == <<Word, Word, Word, Bytes>>
<1>1. root_update_params = ts
  BY DEF root_update_params
<1>2. /\ IsSeq(ts) /\ Len(ts) = 4
      /\ ts[1] = Word /\ ts[2] = Word /\ ts[3] = Word /\ ts[4] = Bytes
  BY TuplesAreSeqs
<1>3. \A i \in 1 .. 4 : i = 1 \/ i = 2 \/ i = 3 \/ i = 4
  OBVIOUS
<1> HIDE DEF ts
<1>4. ASSUME NEW i \in 1 .. Len(v)
      PROVE  TupleFits(ts, v[i], FieldFits) /\ Len(EncodeElement(StructOf(ts), v[i])) <= 12
  <2>1. PICK root, commit, j, proof :
          IsSeq(proof) /\ Len(proof) <= 1 /\ v[i] = <<root, commit, j, proof>>
    BY DEF UpdateTokens
  <2> DEFINE u == <<root, commit, j, proof>>
  <2>2. IsSeq(u) /\ Len(u) = 4 /\ u[4] = proof
    BY TuplesAreSeqs
  <2> HIDE DEF u
  <2>3. \A k \in 1 .. 4 : FieldFits(ts[k], u[k])
    BY <1>2, <1>3, <2>1, <2>2, FieldsFit
  <2>4. \A k \in 1 .. 4 : /\ ts[k] = Bytes => Len(u[k]) < 2
                         /\ \A m \in Nat \ {0} : ts[k] = FixedArray(m) => m <= 2
    <3>1. Len(proof) < 2
      BY <2>1, SeqFacts
    <3> QED
      BY <1>2, <1>3, <2>2, <3>1, TypesDiffer
  <2>5. \A k \in 1 .. 4 : Len(EncodeField(ts[k], u[k])) <= 2
    BY <2>3, <2>4, FieldBound, 2 \in Nat, 1 <= 2
  <2>6. TupleFits(ts, u, FieldFits)
    BY <1>2, <2>2, <2>3 DEF TupleFits
  <2>7. Len(EncodeElement(StructOf(ts), u)) <= 4 * (1 + 2)
    BY <1>2, <2>5, <2>6, StructBound, 2 \in Nat
  <2>8. 4 * (1 + 2) = 12 /\ v[i] = u
    BY <2>1 DEF u
  <2> QED
    BY <2>6, <2>7, <2>8
<1>5. \A i \in 1 .. Len(v) : ElementFits(StructOf(ts), v[i])
  BY <1>4 DEF ElementFits
<1>6. ValueFits(ArrayOf(StructOf(ts)), v)
  BY <1>5 DEF ValueFits, UpdateTokens
<1>7. Len(EncodeValue(ArrayOf(StructOf(ts)), v)) <= 1 + Len(v) * (1 + 12)
  <2>1. IsSeq(v) /\ \A i \in 1 .. Len(v) : Len(EncodeElement(StructOf(ts), v[i])) <= 12
    BY <1>4 DEF UpdateTokens
  <2> QED
    BY <1>5, <2>1, ArrayBound, 12 \in Nat
<1>8. 1 + Len(v) * (1 + 12) <= 27 /\ 1 + Len(v) * (1 + 12) \in Nat
  <2>1. Len(v) \in Nat /\ Len(v) <= 2
    BY SeqFacts DEF UpdateTokens
  <2> QED
    BY <2>1
<1>9. Len(EncodeValue(ArrayOf(StructOf(ts)), v)) \in Nat
  BY <1>6, ValueBody, SeqFacts DEF Body
<1> QED
  BY <1>1, <1>6, <1>7, <1>8, <1>9

-----------------------------------------------------------------------------
(* Calldata and the data of logs *)

\* What the parameters of calls and logs are, with at most n actions.
ParameterFits(t, v, n) ==
    \/ t \in {Word, Address, FixedArray(3), FixedArray(8)} /\ FieldFits(t, v)
    \/ t = Bytes /\ IsSeq(v) /\ Len(v) < FieldWords
    \/ /\ t = ArrayOf(bundle_action_param)
       /\ \E actions : ActionsFit(actions) /\ Len(actions) <= n /\ v = actions_token(actions)
    \/ /\ t = privacy_call_param
       /\ \E call : CallFits(call) /\ Len(call.actions) <= n /\ v = privacy_call_token(call)
    \/ /\ t = ArrayOf(legacy_bundle_action_param)
       /\ \E actions :
            /\ ActionsFit(actions) /\ Len(actions) <= n /\ IsSeq(v) /\ Len(v) = Len(actions)
            /\ \A i \in 1 .. Len(actions) : \E sig :
                 IsSeq(sig) /\ Len(sig) = 3 /\ v[i] = Append(action_token(actions[i]), sig)
    \/ t = ArrayOf(StructOf(root_update_params)) /\ n > 0 /\ UpdateTokens(v)

LEMMA WordsGrow ==
    ASSUME NEW m \in Nat, NEW n \in Nat, m <= n
    PROVE  /\ CallWords(m) <= CallWords(n) /\ CalldataWords(m) <= CalldataWords(n)
           /\ ActionsWords(n) <= CallWords(n) /\ FieldWords <= CallWords(n)
<1> DEFINE c == 9 * EncWords + 91
           p == m * c
           q == n * c
<1>1. EncWords \in Nat /\ c \in Nat
  BY BundleAssumption
<1>2. 1 + ActionWords = c
  BY <1>1 DEF ActionWords, FieldWords
<1>3. p \in Nat /\ q \in Nat /\ p <= q
  <2>1. \A a \in Nat : a * c \in Nat /\ m * c + a * c = (m + a) * c
    BY <1>1
  <2>2. n - m \in Nat /\ m + (n - m) = n
    OBVIOUS
  <2>3. p + (n - m) * c = q /\ (n - m) * c \in Nat /\ p \in Nat
    BY <1>1, <2>1, <2>2
  <2> HIDE DEF c
  <2> QED
    BY <2>3
<1>4. ActionsWords(m) = 1 + p /\ ActionsWords(n) = 1 + q
  BY <1>2 DEF ActionsWords
<1>5. /\ CalldataWords(m) = 200 + 16 * (EncWords + p)
      /\ CalldataWords(n) = 200 + 16 * (EncWords + q)
  BY DEF CalldataWords
<1> HIDE DEF p, q
<1>6. /\ InnerWords(m) = (EncWords + 9) + (1 + p)
      /\ InnerWords(n) = (EncWords + 9) + (1 + q)
  BY <1>4 DEF InnerWords, FieldWords
<1>7. /\ CallWords(m) = 2 * (2 + ((EncWords + 9) + (1 + p)))
      /\ CallWords(n) = 2 * (2 + ((EncWords + 9) + (1 + q)))
  BY <1>6 DEF CallWords
<1>8. FieldWords = EncWords + 9
  BY DEF FieldWords
<1> QED
  BY <1>1, <1>3, <1>4, <1>5, <1>7, <1>8

LEMMA ParameterWords ==
    ASSUME NEW t, NEW v, NEW n \in Nat, ParameterFits(t, v, n), CalldataWords(n) < U32
    PROVE  ValueFits(t, v) /\ Len(EncodeValue(t, v)) <= CallWords(n)
<1>1. CallWords(n) \in Nat /\ FieldWords <= CallWords(n) /\ FieldWords \in Nat
  BY CallWordsNat, WordsGrow, WordsAreNat
<1>2. ASSUME FieldFits(t, v), t = Bytes => Len(v) < FieldWords,
             \A k \in Nat \ {0} : t = FixedArray(k) => k <= 8
      PROVE  ValueFits(t, v) /\ Len(EncodeValue(t, v)) <= CallWords(n)
  <2>1. Len(EncodeValue(t, v)) <= FieldWords
    BY <1>2, FieldWordsBound
  <2>2. ValueFits(t, v)
    BY <1>2 DEF ValueFits, ElementFits
  <2>3. Len(EncodeValue(t, v)) \in Nat
    BY <2>2, ValueBody, SeqFacts DEF Body
  <2> QED
    BY <1>1, <2>1, <2>2, <2>3
<1>3. CASE t \in {Word, Address, FixedArray(3), FixedArray(8)} /\ FieldFits(t, v)
  <2>1. t # Bytes /\ \A k \in Nat \ {0} : t = FixedArray(k) => k <= 8
    <3>1. t # Bytes
      BY <1>3, TypesDiffer
    <3>2. ASSUME NEW k \in Nat \ {0}, t = FixedArray(k) PROVE k <= 8
      <4>1. k = 3 \/ k = 8
        BY <1>3, <3>2, TypesDiffer
      <4> QED
        BY <4>1
    <3> QED
      BY <3>1, <3>2
  <2> QED
    BY <1>2, <1>3, <2>1
<1>4. CASE t = Bytes /\ IsSeq(v) /\ Len(v) < FieldWords
  <2>1. FieldFits(t, v) /\ \A k \in Nat \ {0} : t = FixedArray(k) => k <= 8
    BY <1>4, TypesDiffer, FieldsFit
  <2> QED
    BY <1>2, <1>4, <2>1
<1>5. CASE /\ t = ArrayOf(bundle_action_param)
           /\ \E actions : ActionsFit(actions) /\ Len(actions) <= n /\ v = actions_token(actions)
  <2>1. PICK actions : ActionsFit(actions) /\ Len(actions) <= n /\ v = actions_token(actions)
    BY <1>5
  <2>2. Len(actions) \in Nat
    BY <2>1, SeqFacts DEF ActionsFit
  <2>3. ValueFits(t, v) /\ Len(EncodeValue(t, v)) <= ActionsWords(Len(actions))
    BY <1>5, <2>1, ActionsTokenFits
  <2>4. Len(EncodeValue(t, v)) \in Nat
    BY <2>3, ValueBody, SeqFacts DEF Body
  <2>5. /\ ActionsWords(Len(actions)) <= CallWords(Len(actions))
        /\ CallWords(Len(actions)) <= CallWords(n)
    BY <2>1, <2>2, WordsGrow
  <2>6. ActionsWords(Len(actions)) \in Nat /\ CallWords(Len(actions)) \in Nat
    BY <2>2, ActionsWordsNat, CallWordsNat
  <2> QED
    BY <1>1, <2>3, <2>4, <2>5, <2>6
<1>6. CASE /\ t = privacy_call_param
           /\ \E call : /\ CallFits(call) /\ Len(call.actions) <= n
                        /\ v = privacy_call_token(call)
  <2>1. PICK call : /\ CallFits(call) /\ Len(call.actions) <= n
                    /\ v = privacy_call_token(call)
    BY <1>6
  <2>2. Len(call.actions) \in Nat
    BY <2>1, SeqFacts DEF CallFits, ActionsFit
  <2>3. CalldataWords(Len(call.actions)) <= CalldataWords(n) /\ CallWords(Len(call.actions)) <= CallWords(n)
    BY <2>1, <2>2, WordsGrow
  <2>4. CalldataWords(Len(call.actions)) < U32
    <3>1. CalldataWords(Len(call.actions)) \in Nat /\ CalldataWords(n) \in Nat
      BY <2>2, CalldataWordsNat
    <3> QED
      BY <2>3, <3>1, AbiAssumption
  <2>5. ElementFits(t, v) /\ Len(EncodeValue(t, v)) <= CallWords(Len(call.actions))
    BY <1>6, <2>1, <2>4, CallTokenFits
  <2>6. ValueFits(t, v)
    BY <2>5 DEF ValueFits
  <2>7. Len(EncodeValue(t, v)) \in Nat
    BY <2>6, ValueBody, SeqFacts DEF Body
  <2>8. CallWords(Len(call.actions)) \in Nat
    BY <2>2, CallWordsNat
  <2> QED
    BY <1>1, <2>3, <2>5, <2>6, <2>7, <2>8
<1>7. ASSUME NEW k \in Nat, k <= n, ValueFits(t, v), Len(EncodeValue(t, v)) <= ActionsWords(k)
      PROVE  Len(EncodeValue(t, v)) <= CallWords(n)
  <2>1. Len(EncodeValue(t, v)) \in Nat
    BY <1>7, ValueBody, SeqFacts DEF Body
  <2>2. ActionsWords(k) <= CallWords(k) /\ CallWords(k) <= CallWords(n)
    BY <1>7, WordsGrow
  <2>3. ActionsWords(k) \in Nat /\ CallWords(k) \in Nat
    BY ActionsWordsNat, CallWordsNat
  <2> QED
    BY <1>1, <1>7, <2>1, <2>2, <2>3
<1>8. CASE /\ t = ArrayOf(legacy_bundle_action_param)
           /\ \E actions :
                /\ ActionsFit(actions) /\ Len(actions) <= n /\ IsSeq(v) /\ Len(v) = Len(actions)
                /\ \A i \in 1 .. Len(actions) : \E sig :
                     IsSeq(sig) /\ Len(sig) = 3 /\ v[i] = Append(action_token(actions[i]), sig)
  <2>1. PICK actions :
          /\ ActionsFit(actions) /\ Len(actions) <= n /\ IsSeq(v) /\ Len(v) = Len(actions)
          /\ \A i \in 1 .. Len(actions) : \E sig :
               IsSeq(sig) /\ Len(sig) = 3 /\ v[i] = Append(action_token(actions[i]), sig)
    BY <1>8
  <2>2. Len(actions) \in Nat
    BY <2>1, SeqFacts DEF ActionsFit
  <2>3. ValueFits(t, v) /\ Len(EncodeValue(t, v)) <= ActionsWords(Len(actions))
    BY <1>8, <2>1, LegacyTokensFit
  <2> QED
    BY <1>7, <2>1, <2>2, <2>3
<1>9. CASE t = ArrayOf(StructOf(root_update_params)) /\ n > 0 /\ UpdateTokens(v)
  <2>1. ValueFits(t, v) /\ Len(EncodeValue(t, v)) <= 27
    BY <1>9, UpdateTokensFit
  <2>2. Len(EncodeValue(t, v)) \in Nat
    BY <2>1, ValueBody, SeqFacts DEF Body
  <2>3. 27 <= ActionsWords(1) /\ ActionsWords(1) \in Nat
    BY BundleAssumption DEF ActionsWords, ActionWords, FieldWords
  <2> QED
    BY <1>7, <1>9, <2>1, <2>2, <2>3, 1 \in Nat, 1 <= n
<1> QED
  BY <1>3, <1>4, <1>5, <1>6, <1>8, <1>9 DEF ParameterFits

\* What calldata or a log carries is read back.
LEMMA ParametersRead ==
    ASSUME NEW ts, NEW vs, NEW n \in Nat, CalldataWords(n) < U32,
           IsSeq(ts), IsSeq(vs), Len(ts) = Len(vs), Len(ts) <= 8,
           \A i \in 1 .. Len(ts) : ParameterFits(ts[i], vs[i], n)
    PROVE  Decode(ts, Encode(ts, vs)) = Readable(vs) /\ IsSeq(Encode(ts, vs))
<1> DEFINE b == CallWords(n)
<1>1. b \in Nat /\ Len(ts) \in Nat
  BY CallWordsNat, SeqFacts
<1>2. 8 * (1 + b) <= CalldataWords(n)
  BY CalldataBound
<1>3. \A i \in 1 .. Len(ts) : ValueFits(ts[i], vs[i]) /\ Len(EncodeValue(ts[i], vs[i])) <= b
  BY ParameterWords
<1> HIDE DEF b
<1>4. TupleFits(ts, vs, ValueFits)
  BY <1>3 DEF TupleFits
<1>5. IsSeq(Encode(ts, vs)) /\ Len(Encode(ts, vs)) <= Len(ts) * (1 + b)
  BY <1>1, <1>3, <1>4, EncodeBound
<1>6. Len(ts) * (1 + b) <= 8 * (1 + b)
  <2>1. \A k \in 0 .. 8 : k * (1 + b) <= 8 * (1 + b)
    BY <1>1
  <2> QED
    BY <1>1, <2>1
<1>7. Len(Encode(ts, vs)) < U32
  <2>1. Len(Encode(ts, vs)) \in Nat
    BY <1>5, SeqFacts
  <2>2. CalldataWords(n) \in Nat
    BY CalldataWordsNat
  <2>3. Len(ts) * (1 + b) \in Nat /\ 8 * (1 + b) \in Nat
    BY <1>1
  <2> QED
    BY <1>2, <1>5, <1>6, <2>1, <2>2, <2>3, AbiAssumption
<1> QED
  BY <1>4, <1>5, <1>7, RoundTrip

-----------------------------------------------------------------------------
(* The wallet's actions *)

LastStep(p, n, prev) == IF p.acts[n + 1].cmx = p.cmx THEN n + 1 ELSE prev

LastRec == INSTANCE NatRecursion WITH Step <- LastStep

\* The last action with a commitment.
LastWith(acts, c) == LastIndex(acts, LAMBDA a : a.cmx = c)

LEMMA LastWithIs ==
    ASSUME NEW acts, Len(acts) \in Nat, NEW c
    PROVE  /\ LastWith(acts, c) \in 0 .. Len(acts)
           /\ LastWith(acts, c) # 0 => acts[LastWith(acts, c)].cmx = c
           /\ \A j \in 1 .. Len(acts) : acts[j].cmx = c => j <= LastWith(acts, c)
<1> DEFINE n == Len(acts)
           Eq(W) == W = [i \in 0 .. n |-> IF i = 0 THEN 0 ELSE IF acts[i].cmx = c THEN i ELSE W[i - 1]]
           p == [acts |-> acts, cmx |-> c]
           A == CHOOSE W : Eq(W)
           S == {i \in Nat : i <= n => /\ A[i] \in 0 .. i
                                       /\ A[i] # 0 => acts[A[i]].cmx = c
                                       /\ \A j \in 1 .. i : acts[j].cmx = c => j <= A[i]}
<1>1. LastWith(acts, c) = A[n]
  BY DEF LastWith, LastIndex
<1>2. ASSUME NEW W PROVE Eq(W) <=> LastRec!Approx(p, 0, W, n)
  <2> DEFINE f == [i \in 0 .. n |-> IF i = 0 THEN 0 ELSE IF acts[i].cmx = c THEN i ELSE W[i - 1]]
             g == [i \in 0 .. n |-> IF i = 0 THEN 0 ELSE LastStep(p, i - 1, W[i - 1])]
  <2>1. \A i \in 0 .. n : f[i] = g[i]
    BY DEF LastStep
  <2>2. f = g
    BY <2>1
  <2> HIDE DEF f, g
  <2>3. Eq(W) <=> W = f
    BY DEF f
  <2>4. LastRec!Approx(p, 0, W, n) <=> W = g
    BY DEF g, LastRec!Approx
  <2> QED
    BY <2>2, <2>3, <2>4
<1> HIDE DEF Eq
<1>3. Eq(A)
  <2>1. \E W : Eq(W)
    BY <1>2, LastRec!ApproxExists
  <2> QED
    BY <2>1
<1> HIDE DEF A
<1>4. A = [i \in 0 .. n |-> IF i = 0 THEN 0 ELSE IF acts[i].cmx = c THEN i ELSE A[i - 1]]
  BY <1>3 DEF Eq
<1>5. A[0] = 0
  BY <1>4
<1>6. ASSUME NEW i \in 1 .. n PROVE A[i] = IF acts[i].cmx = c THEN i ELSE A[i - 1]
  BY <1>4, i \in 0 .. n, i # 0
<1>7. 0 \in S
  BY <1>5
<1>8. ASSUME NEW i \in Nat, i \in S PROVE i + 1 \in S
  <2> SUFFICES ASSUME i + 1 <= n
               PROVE  /\ A[i + 1] \in 0 .. i + 1
                      /\ A[i + 1] # 0 => acts[A[i + 1]].cmx = c
                      /\ \A j \in 1 .. i + 1 : acts[j].cmx = c => j <= A[i + 1]
    OBVIOUS
  <2>1. i + 1 \in 1 .. n /\ i <= n /\ (i + 1) - 1 = i
    OBVIOUS
  <2>2. /\ A[i] \in 0 .. i /\ (A[i] # 0 => acts[A[i]].cmx = c)
        /\ \A j \in 1 .. i : acts[j].cmx = c => j <= A[i]
    BY <1>8, <2>1
  <2>3. A[i + 1] = IF acts[i + 1].cmx = c THEN i + 1 ELSE A[i]
    BY <1>6, <2>1
  <2>4. CASE acts[i + 1].cmx = c
    <3>1. A[i + 1] = i + 1
      BY <2>3, <2>4
    <3> QED
      BY <2>1, <2>4, <3>1
  <2>5. CASE acts[i + 1].cmx # c
    <3>1. A[i + 1] = A[i]
      BY <2>3, <2>5
    <3> QED
      BY <2>1, <2>2, <2>5, <3>1
  <2> QED
    BY <2>4, <2>5
<1> HIDE DEF S
<1>9. \A i \in Nat : i \in S
  BY <1>7, <1>8, LastRec!SetInduction
<1> QED
  BY <1>1, <1>9 DEF S

\* The words of a proof in the order of the verifier.
LEMMA ProofWords ==
    ASSUME NEW k
    PROVE  encode_groth16_proof_from_snarkjs_json(SnarkJs(k)).value = VerifierOrder(k)
<1> DEFINE a(i) == Coordinate("a", i, k)
           re(i) == Coordinate("b re", i, k)
           im(i) == Coordinate("b im", i, k)
           c(i) == Coordinate("c", i, k)
           j == SnarkJs(k)
           ts == proof_params
           b == <<im(1), re(1)>> \o <<im(2), re(2)>>
           vs == <<<<a(1), a(2)>>, b, <<c(1), c(2)>>>>
           raw == [i \in DOMAIN ts |-> EncodeValue(ts[i], vs[i])]
           tail == [i \in DOMAIN ts |-> IF ts[i].dynamic THEN raw[i] ELSE << >>]
<1> HIDE DEF a, re, im, c
<1>1. /\ j.pi_a = [i \in 1 .. 3 |-> a(i)] /\ j.pi_c = [i \in 1 .. 3 |-> c(i)]
      /\ j.pi_b = [i \in 1 .. 3 |-> <<re(i), im(i)>>]
  BY DEF SnarkJs, a, re, im, c
<1> HIDE DEF j
<1>2. Len(j.pi_a) = 3 /\ Len(j.pi_b) = 3 /\ Len(j.pi_c) = 3
  BY <1>1, 3 \in Nat, FunctionIsSeq
<1>3. /\ j.pi_a[1] = a(1) /\ j.pi_a[2] = a(2) /\ j.pi_c[1] = c(1) /\ j.pi_c[2] = c(2)
      /\ j.pi_b[1] = <<re(1), im(1)>> /\ j.pi_b[2] = <<re(2), im(2)>>
  BY <1>1
<1>4. WellFormed(j)
  <2>1. \A i \in 1 .. 2 : Len(j.pi_b[i]) = 2
    <3>1. \A i \in 1 .. 2 : i = 1 \/ i = 2
      OBVIOUS
    <3> QED
      BY <1>3, <3>1, TuplesAreSeqs
  <2>2. /\ Len(j.pi_a) >= 2 /\ Len(j.pi_b) >= 2 /\ Len(j.pi_c) >= 2
        /\ \A i \in 1 .. 2 : Len(j.pi_b[i]) >= 2
    BY <1>2, <2>1, 3 >= 2, 2 >= 2
  <2> QED
    BY <2>2 DEF WellFormed
<1>5. encode_groth16_proof_from_snarkjs_json(j).value = Encode(ts, vs)
  BY <1>3, <1>4 DEF encode_groth16_proof_from_snarkjs_json, encode_groth16_proof_components,
                    p_a_from_snarkjs_pi_a, p_b_from_snarkjs_pi_b, p_c_from_snarkjs_pi_c
<1>6. /\ IsSeq(ts) /\ Len(ts) = 3 /\ DOMAIN ts = 1 .. 3
      /\ ts[1] = FixedArray(2) /\ ts[2] = FixedArray(4) /\ ts[3] = FixedArray(2)
  BY TuplesAreSeqs, SeqFacts DEF proof_params
<1>7. \A i \in 1 .. 3 : i = 1 \/ i = 2 \/ i = 3
  OBVIOUS
<1>8. \A i \in 1 .. 3 : ~ts[i].dynamic /\ ts[i].dynamic = FALSE /\ ts[i].kind = "fixed"
  BY <1>6, <1>7 DEF FixedArray, Type
<1>9. /\ IsSeq(b) /\ Len(b) = 4 /\ b[1] = im(1) /\ b[2] = re(1) /\ b[3] = im(2) /\ b[4] = re(2)
  <2> DEFINE s == <<im(1), re(1)>>
             t == <<im(2), re(2)>>
  <2>1. IsSeq(s) /\ IsSeq(t) /\ Len(s) = 2 /\ Len(t) = 2
    BY TuplesAreSeqs
  <2>2. s[1] = im(1) /\ s[2] = re(1) /\ t[1] = im(2) /\ t[2] = re(2)
    OBVIOUS
  <2> HIDE DEF s, t
  <2>6. IsSeq(s) /\ IsSeq(t)
    BY <2>1
  <2>3. /\ IsSeq(s \o t) /\ Len(s \o t) = Len(s) + Len(t)
        /\ \A i \in 1 .. Len(s) : (s \o t)[i] = s[i]
        /\ \A i \in 1 .. Len(t) : (s \o t)[Len(s) + i] = t[i]
    BY <2>6, ConcatIsSeq
  <2>4. (s \o t)[3] = t[1] /\ (s \o t)[4] = t[2]
    BY <2>1, <2>3, 1 \in 1 .. 2, 2 \in 1 .. 2, 2 + 1 = 3, 2 + 2 = 4
  <2>5. (s \o t)[1] = s[1] /\ (s \o t)[2] = s[2] /\ Len(s \o t) = 4
    BY <2>1, <2>3
  <2> QED
    BY <2>2, <2>3, <2>4, <2>5 DEF s, t
<1> HIDE DEF b
<1>10. /\ vs[1] = <<a(1), a(2)>> /\ vs[2] = b /\ vs[3] = <<c(1), c(2)>>
       /\ IsSeq(vs[1]) /\ Len(vs[1]) = 2 /\ IsSeq(vs[2]) /\ Len(vs[2]) = 4
       /\ IsSeq(vs[3]) /\ Len(vs[3]) = 2
  BY <1>9, TuplesAreSeqs
<1> HIDE DEF ts, vs
<1>11. Encode(ts, vs) = Layout(ts, Listed(raw))
  BY DEF Encode
<1>12. IsSeq(raw) /\ Len(raw) = 3 /\ \A i \in 1 .. 3 : raw[i] = EncodeValue(ts[i], vs[i])
  BY <1>6, FunctionIsSeq, 3 \in Nat
<1>13. raw = [i \in 1 .. 3 |-> raw[i]]
  BY <1>6
<1> HIDE DEF raw
<1>14. \A i \in 1 .. 3 : raw[i] = vs[i]
  BY <1>8, <1>12 DEF EncodeValue, EncodeElement, EncodeField
<1>15. /\ tail = [i \in 1 .. 3 |-> tail[i]]
       /\ \A i \in 1 .. 3 : tail[i] = << >>
  BY <1>6, <1>8
<1>16. Layout(ts, raw) = FlattenSeq(raw) \o FlattenSeq(tail)
  <2> DEFINE head(Start(_)) == [i \in DOMAIN ts |-> IF ts[i].dynamic THEN <<Num(Start(i))>> ELSE raw[i]]
             S(i) == HeadEnd(ts)[Len(ts)] + Len(FlattenSeq(SubSeq(Listed(tail), 1, i - 1)))
  <2>1. Listed(tail) = tail
    <3> HIDE DEF tail
    <3> QED
      BY <1>15, FunctionIsSeq, 3 \in Nat, ListedIs
  <2>2. [i \in DOMAIN ts |-> IF ts[i].dynamic THEN <<Num(S(i))>> ELSE raw[i]] = raw
    <3> HIDE DEF S
    <3>1. [i \in DOMAIN ts |-> IF ts[i].dynamic THEN <<Num(S(i))>> ELSE raw[i]] = [i \in 1 .. 3 |-> raw[i]]
      BY <1>6, <1>8
    <3> QED
      BY <1>13, <3>1
  <2>3. Listed(raw) = raw
    BY <1>12, ListedIs
  <2>4. Layout(ts, raw) = FlattenSeq(Listed(
                               [i \in DOMAIN ts |-> IF ts[i].dynamic THEN <<Num(S(i))>> ELSE raw[i]]))
                            \o FlattenSeq(Listed(tail))
    BY DEF Layout
  <2> QED
    BY <2>1, <2>2, <2>3, <2>4
<1> HIDE DEF tail
<1>17. Parts(raw) /\ Parts(tail) /\ Len(tail) = 3
  <2>1. \A i \in 1 .. 3 : IsSeq(raw[i]) /\ IsSeq(tail[i])
    <3>1. IsSeq(<< >>)
      BY DEF IsSeq
    <3> QED
      BY <1>7, <1>10, <1>14, <1>15, <3>1
  <2>2. IsSeq(tail) /\ Len(tail) = 3
    BY <1>15, FunctionIsSeq, 3 \in Nat
  <2> QED
    BY <1>12, <2>1, <2>2 DEF Parts
<1>18. /\ Ends(raw)[0] = 0 /\ Ends(raw)[1] = 2 /\ Ends(raw)[2] = 6 /\ Ends(raw)[3] = 8
       /\ Ends(tail)[3] = 0
  <2>1. /\ Len(raw[1]) = 2 /\ Len(raw[2]) = 4 /\ Len(raw[3]) = 2
        /\ Len(tail[1]) = 0 /\ Len(tail[2]) = 0 /\ Len(tail[3]) = 0
    BY <1>10, <1>14, <1>15
  <2>5. /\ \A i \in Nat : Ends(raw)[i + 1] = Ends(raw)[i] + Len(raw[i + 1])
        /\ \A i \in Nat : Ends(tail)[i + 1] = Ends(tail)[i] + Len(tail[i + 1])
    BY EndsEquation
  <2>2. \A i \in {0, 1, 2} : /\ Ends(raw)[i + 1] = Ends(raw)[i] + Len(raw[i + 1])
                             /\ Ends(tail)[i + 1] = Ends(tail)[i] + Len(tail[i + 1])
    BY <2>5, {0, 1, 2} \subseteq Nat
  <2>3. Ends(raw)[0] = 0 /\ Ends(tail)[0] = 0
    BY EndsEquation
  <2>4. /\ Ends(raw)[1] = Ends(raw)[0] + Len(raw[1]) /\ Ends(raw)[2] = Ends(raw)[1] + Len(raw[2])
        /\ Ends(raw)[3] = Ends(raw)[2] + Len(raw[3])
        /\ Ends(tail)[1] = Ends(tail)[0] + Len(tail[1]) /\ Ends(tail)[2] = Ends(tail)[1] + Len(tail[2])
        /\ Ends(tail)[3] = Ends(tail)[2] + Len(tail[3])
    BY <2>2, 0 + 1 = 1, 1 + 1 = 2, 2 + 1 = 3
  <2> QED
    BY <2>1, <2>3, <2>4
<1> DEFINE F == FlattenSeq(raw)
           G == FlattenSeq(tail)
<1>19. /\ IsSeq(F) /\ Len(F) = 8 /\ Holds(F, 0, raw[1]) /\ Holds(F, 2, raw[2]) /\ Holds(F, 6, raw[3])
  <2>1. /\ IsSeq(F) /\ Len(F) = Ends(raw)[3]
        /\ \A i \in 1 .. 3 : Holds(F, Ends(raw)[i - 1], raw[i])
    BY <1>12, <1>17, FlattenHolds
  <2>2. Holds(F, Ends(raw)[0], raw[1]) /\ Holds(F, Ends(raw)[1], raw[2]) /\ Holds(F, Ends(raw)[2], raw[3])
    BY <2>1, 1 - 1 = 0, 2 - 1 = 1, 3 - 1 = 2
  <2> QED
    BY <1>18, <2>1, <2>2
<1>20. IsSeq(G) /\ Len(G) = 0
  BY <1>17, <1>18, FlattenHolds
<1> HIDE DEF F, G
<1>21. /\ IsSeq(F \o G) /\ Len(F \o G) = 8 /\ \A i \in 1 .. 8 : (F \o G)[i] = F[i]
  <2>1. IsSeq(F) /\ IsSeq(G)
    BY <1>19, <1>20
  <2>2. /\ IsSeq(F \o G) /\ Len(F \o G) = Len(F) + Len(G)
        /\ \A i \in 1 .. Len(F) : (F \o G)[i] = F[i]
        /\ \A i \in 1 .. Len(G) : (F \o G)[Len(F) + i] = G[i]
    BY <2>1, ConcatIsSeq
  <2>3. Len(F) = 8 /\ Len(G) = 0 /\ 8 + 0 = 8
    BY <1>19, <1>20
  <2>4. Len(F \o G) = 8 + 0 /\ \A i \in 1 .. 8 : (F \o G)[i] = F[i]
    BY <2>2, <2>3, Zenon
  <2> QED
    BY <2>2, <2>3, <2>4, Zenon
<1>22. /\ F[1] = a(1) /\ F[2] = a(2) /\ F[3] = im(1) /\ F[4] = re(1) /\ F[5] = im(2) /\ F[6] = re(2)
       /\ F[7] = c(1) /\ F[8] = c(2)
  <2>1. /\ F[0 + 1] = vs[1][1] /\ F[0 + 2] = vs[1][2]
        /\ F[2 + 1] = vs[2][1] /\ F[2 + 2] = vs[2][2] /\ F[2 + 3] = vs[2][3] /\ F[2 + 4] = vs[2][4]
        /\ F[6 + 1] = vs[3][1] /\ F[6 + 2] = vs[3][2]
    <3>1. raw[1] = vs[1] /\ raw[2] = vs[2] /\ raw[3] = vs[3]
      BY <1>14
    <3>2. Holds(F, 0, vs[1]) /\ Holds(F, 2, vs[2]) /\ Holds(F, 6, vs[3])
      BY <1>19, <3>1
    <3>3. /\ \A i \in 1 .. Len(vs[1]) : F[0 + i] = vs[1][i]
          /\ \A i \in 1 .. Len(vs[2]) : F[2 + i] = vs[2][i]
          /\ \A i \in 1 .. Len(vs[3]) : F[6 + i] = vs[3][i]
      BY <3>2 DEF Holds
    <3>4. Len(vs[1]) = 2 /\ Len(vs[2]) = 4 /\ Len(vs[3]) = 2
      BY <1>10
    <3>5. /\ \A i \in 1 .. 2 : F[0 + i] = vs[1][i]
          /\ \A i \in 1 .. 4 : F[2 + i] = vs[2][i]
          /\ \A i \in 1 .. 2 : F[6 + i] = vs[3][i]
      BY <3>3, <3>4
    <3> QED
      BY <3>5
  <2>2. vs[1][1] = a(1) /\ vs[1][2] = a(2) /\ vs[3][1] = c(1) /\ vs[3][2] = c(2)
    BY <1>10
  <2> QED
    BY <1>9, <1>10, <2>1, <2>2
<1> DEFINE v == VerifierOrder(k)
<1>23. IsSeq(v) /\ Len(v) = 8
  BY TuplesAreSeqs DEF VerifierOrder
<1>24. /\ v[1] = a(1) /\ v[2] = a(2) /\ v[3] = im(1) /\ v[4] = re(1) /\ v[5] = im(2) /\ v[6] = re(2)
       /\ v[7] = c(1) /\ v[8] = c(2)
  BY DEF VerifierOrder, a, re, im, c
<1> HIDE DEF v
<1>25. \A i \in 1 .. 8 : F[i] = v[i]
  <2>1. \A i \in 1 .. 8 : i = 1 \/ i = 2 \/ i = 3 \/ i = 4 \/ i = 5 \/ i = 6 \/ i = 7 \/ i = 8
    OBVIOUS
  <2> QED
    BY <1>22, <1>24, <2>1
<1>26. F \o G = v
  BY <1>21, <1>23, <1>25, SeqEquality
<1>27. Listed(raw) = raw
  BY <1>12, ListedIs
<1> QED
  BY <1>5, <1>11, <1>16, <1>26, <1>27 DEF F, G, v, j

\* What the wallet makes: an action of some number, for some commitment.
Genuine(a) == \E k, c : a = Action(k, c)

LEMMA GenuineFits ==
    ASSUME NEW a, Genuine(a)
    PROVE  /\ ActionFits(a) /\ ProofVerifies(a)
           /\ IsSeq(a.enc_ciphertext) /\ Len(a.enc_ciphertext) = EncWords
           /\ IsSeq(a.out_ciphertext) /\ Len(a.out_ciphertext) = 1 /\ a.out_ciphertext # << >>
           /\ "n" \notin DOMAIN a.epk
<1>1. PICK k, c : a = Action(k, c)
  BY DEF Genuine
<1> DEFINE W(name) == [name |-> name, of |-> k]
           enc == [i \in 1 .. EncWords |-> [enc |-> k, word |-> i]]
           fields == <<[anchor |-> k], W("cv_x"), W("cv_y"), W("nf"), W("rk_x"), W("rk_y"),
                       [cmx |-> c], [rt_frozen |-> "root"]>>
           proof == encode_groth16_proof_from_snarkjs_json(SnarkJs(k)).value
<1>2. a = [cmx |-> [cmx |-> c], anchor |-> [anchor |-> k], epk |-> W("epk"), nf_old |-> W("nf"),
           enc_ciphertext |-> enc, out_ciphertext |-> <<W("out")>>,
           proof |-> proof, pub_fields |-> fields]
  BY <1>1 DEF Action
<1>3. IsSeq(enc) /\ Len(enc) = EncWords
  BY FunctionIsSeq, BundleAssumption
<1>4. IsSeq(fields) /\ Len(fields) = 8
  BY TuplesAreSeqs
<1>5. proof = VerifierOrder(k) /\ IsSeq(proof) /\ Len(proof) = 8
  BY ProofWords, TuplesAreSeqs DEF VerifierOrder
<1>6. IsSeq(<<W("out")>>) /\ Len(<<W("out")>>) = 1 /\ <<W("out")>> # << >>
  BY TuplesAreSeqs
<1>7. fields[1] = [anchor |-> k] /\ fields[4] = W("nf") /\ fields[7] = [cmx |-> c]
  OBVIOUS
<1>8. W("nf").of = k /\ "n" \notin DOMAIN W("epk")
  OBVIOUS
<1> HIDE DEF enc, fields, proof, W
<1>9. /\ a.enc_ciphertext = enc /\ a.out_ciphertext = <<W("out")>> /\ a.proof = proof
      /\ a.pub_fields = fields /\ a.epk = W("epk") /\ a.nf_old = W("nf")
      /\ a.anchor = [anchor |-> k] /\ a.cmx = [cmx |-> c]
      /\ a = [cmx |-> a.cmx, enc_ciphertext |-> a.enc_ciphertext,
            out_ciphertext |-> a.out_ciphertext, epk |-> a.epk, nf_old |-> a.nf_old,
            anchor |-> a.anchor, proof |-> a.proof, pub_fields |-> a.pub_fields]
  BY <1>2
<1>10. ActionFits(a)
  BY <1>3, <1>4, <1>5, <1>6, <1>9, 1 <= 8, 8 <= 8 DEF ActionFits
<1>11. ProofVerifies(a)
  BY <1>5, <1>7, <1>8, <1>9 DEF ProofVerifies
<1> QED
  BY <1>3, <1>6, <1>8, <1>9, <1>10, <1>11

\* A bundle of them.
IsBundle(actions) ==
    /\ IsSeq(actions) /\ Len(actions) \in 1 .. MaxActions
    /\ \A i \in 1 .. Len(actions) : Genuine(actions[i])

LEMMA BundlesAre ==
    ASSUME NEW actions \in Bundles
    PROVE  IsBundle(actions)
<1> DEFINE k == Len(queue)
           Repeats(n) == {r \in [1 .. n -> BOOLEAN] : ~r[1]}
           Cmx(r, i) == IF r[i] THEN k + i - 1 ELSE k + i
<1>1. PICK n \in 1 .. MaxActions :
        actions \in {[i \in 1 .. n |-> Action(k + i, Cmx(r, i))] : r \in Repeats(n)}
  BY DEF Bundles
<1>2. PICK r \in Repeats(n) : actions = [i \in 1 .. n |-> Action(k + i, Cmx(r, i))]
  BY <1>1
<1> HIDE DEF Cmx
<1>3. \A i \in 1 .. n : Genuine(actions[i])
  BY <1>2 DEF Genuine
<1>4. n \in Nat /\ actions = [i \in 1 .. n |-> actions[i]]
  BY <1>2, IndexingAssumption
<1>5. IsSeq(actions) /\ Len(actions) = n
  BY <1>4, FunctionIsSeq
<1> QED
  BY <1>3, <1>5 DEF IsBundle

LEMMA BundleFits ==
    ASSUME NEW actions, IsBundle(actions)
    PROVE  /\ ActionsFit(actions) /\ Len(actions) \in Nat /\ Len(actions) <= MaxActions
           /\ DOMAIN actions = 1 .. Len(actions)
           /\ MaxActions \in Nat /\ CalldataWords(MaxActions) < U32
           /\ CalldataWords(Len(actions)) < U32
<1>1. IsSeq(actions) /\ Len(actions) \in 1 .. MaxActions
      /\ \A i \in 1 .. Len(actions) : Genuine(actions[i])
  BY DEF IsBundle
<1>2. Len(actions) \in Nat /\ DOMAIN actions = 1 .. Len(actions)
  BY <1>1, SeqFacts
<1>3. MaxActions \in Nat /\ CalldataWords(MaxActions) < U32 /\ Len(actions) <= MaxActions
  BY <1>1, <1>2, IndexingAssumption
<1>4. ActionsFit(actions)
  BY <1>1, GenuineFits DEF ActionsFit
<1>5. CalldataWords(Len(actions)) <= CalldataWords(MaxActions)
  BY <1>2, <1>3, WordsGrow
<1>6. CalldataWords(Len(actions)) \in Nat /\ CalldataWords(MaxActions) \in Nat /\ U32 \in Nat
  BY <1>2, <1>3, CalldataWordsNat, AbiAssumption
<1>7. CalldataWords(Len(actions)) < U32
  BY <1>3, <1>5, <1>6
<1> QED
  BY <1>2, <1>3, <1>4, <1>7

LEMMA BindingIs ==
    ASSUME NEW m, NEW k \in Nat
    PROVE  IsSeq(Binding(m, k)) /\ Len(Binding(m, k)) = k
<1> DEFINE f == [i \in 1 .. k |-> [binds |-> m, word |-> i]]
<1>1. f = [i \in 1 .. k |-> f[i]] /\ Binding(m, k) = f
  BY DEF Binding
<1> HIDE DEF f
<1> QED
  BY <1>1, FunctionIsSeq

LEMMA AmountsAre ==
    ASSUME NEW amount \in {0} \cup Amounts
    PROVE  /\ amount \in Nat /\ amount < U64 /\ amount < U128 /\ Scale * amount \in Nat
           /\ Scale * amount < U128 /\ Num(amount).n = amount
           /\ IsBelow(Num(amount), U64) /\ IsBelow(Num(amount), U128)
           /\ IsBelow(Num(Scale * amount), U128) /\ Num(Scale * amount).n = Scale * amount
           /\ Scale \in Nat /\ Scale < U128 /\ IsBelow(Num(Scale), U128) /\ Num(Scale).n = Scale
<1>1. /\ U64 \in Nat /\ U128 \in Nat /\ Scale \in Nat \ {0} /\ Scale < U128
      /\ Amounts \subseteq 1 .. U64 - 1 /\ \A a \in Amounts : Scale * a < U128
      /\ U32 \in Nat /\ MaxTxs \in Nat /\ MaxActions \in Nat \ {0}
      /\ MaxTxs * MaxActions < U32 /\ U32 <= U64
  BY AbiAssumption, BundleAssumption, IndexingAssumption
<1>2. amount \in Nat /\ amount < U64
  <2>1. MaxTxs * MaxActions \in Nat
    BY <1>1
  <2>2. 0 < U64
    BY <1>1, <2>1
  <2> QED
    BY <1>1, <2>2
<1>3. Scale * amount \in Nat /\ Scale * amount < U128
  <2>1. CASE amount = 0
    BY <1>1, <2>1, Scale * 0 = 0
  <2>2. CASE amount \in Amounts
    BY <1>1, <1>2, <2>2
  <2> QED
    BY <2>1, <2>2
<1>4. amount < U128
  <2>1. amount <= Scale * amount
    BY <1>1, <1>2
  <2> QED
    BY <1>1, <1>2, <1>3, <2>1
<1>5. /\ Num(amount).n = amount /\ Num(Scale * amount).n = Scale * amount /\ Num(Scale).n = Scale
      /\ "n" \in DOMAIN Num(amount) /\ "n" \in DOMAIN Num(Scale * amount) /\ "n" \in DOMAIN Num(Scale)
  BY DEF Num
<1> QED
  BY <1>1, <1>2, <1>3, <1>4, <1>5 DEF IsBelow

-----------------------------------------------------------------------------
(* The calls of bundle pools *)

\* The map that bundle_actions_by_cmx makes.
ByCmx(actions) ==
    Ok([c \in {actions[i].cmx : i \in DOMAIN actions} |->
          [out_ciphertext |-> actions[LastWith(actions, c)].out_ciphertext,
           cv_net_x       |-> actions[LastWith(actions, c)].pub_fields[2]]])

LEMMA ByCmxIs ==
    ASSUME NEW calldata, decode_bundle_calldata(calldata).ok
    PROVE  bundle_actions_by_cmx(calldata) = ByCmx(decode_bundle_calldata(calldata).value.actions)
BY DEF bundle_actions_by_cmx, ByCmx, LastWith

\* What the pool makes of a call: the actions, an amount, and no refusal; and
\* what the indexer makes of its calldata.
Delivered(call, calldata, actions, amount) ==
    /\ calldata.ok
    /\ Receive(calldata.value).actions = actions
    /\ Receive(calldata.value).amount = Num(amount)
    /\ AcceptsBundle(call, Receive(calldata.value))
    /\ bundle_actions_by_cmx(calldata.value) =
         IF call \in BundleCalls THEN ByCmx(actions) ELSE Err("BadSelector")

WalletBalance(call, amount) == bundle_value_balance_be(amount, call \in {"shield", "shield.erc"})
WalletMeta(call, amount) ==
    IF call \in {"shield", "shield.erc"} \/ amount = 0 THEN NoMeta
    ELSE evm_address_to_recipient_meta(Other)
WalletSighash(call, actions, amount) ==
    binding_sighash_privacy_pool_bundle_v1(
      Chain, Contract, Of(actions, "nf_old"), Of(actions, "cmx"),
      WalletBalance(call, amount), WalletMeta(call, amount))
BindingWords(call) == IF call = "bundle" THEN 8 ELSE 3

\* A bundle binds what the pool expects it to.
LEMMA BundleBinding ==
    ASSUME NEW call \in BundleCalls \cup {"shield.erc"}, NEW actions, NEW amount, NEW r,
           r.actions = actions, r.value_balance = WalletBalance(call, amount),
           r.meta = WalletMeta(call, amount)
    PROVE  ExpectedBinding(call, r) = Binding(WalletSighash(call, actions, amount), BindingWords(call))
BY DEF ExpectedBinding, WalletSighash, BindingWords, binding_sighash_privacy_pool_bundle_v1,
       bundle_v1_preimage

BundleElement(call) ==
    IF call = "bundle.spend_auth" THEN legacy_bundle_action_param ELSE bundle_action_param

LEMMA BundleSignature ==
    ASSUME NEW call \in BundleCalls
    PROVE  /\ Signature(call) = <<ArrayOf(BundleElement(call)), Word, Word, Word,
                                  FixedArray(BindingWords(call))>>
           /\ Signature(call) = bundle_top_params(call = "bundle.spend_auth", BindingWords(call))
<1> DEFINE ts(e, k) == <<ArrayOf(e), Word, Word, Word, FixedArray(k)>>
<1>1. StructOf(ActionStruct) = bundle_action_param
  BY DEF ActionStruct, bundle_action_param
<1>2. StructOf(Append(ActionStruct, FixedArray(3))) = legacy_bundle_action_param
  BY DEF ActionStruct, bundle_action_param, legacy_bundle_action_param, StructOf, Type
<1>3. CASE call = "bundle"
  <2>1. Signature(call) = ts(StructOf(ActionStruct), 8)
    BY <1>3 DEF Signature
  <2> QED
    BY <1>1, <1>3, <2>1 DEF BundleElement, BindingWords, bundle_top_params
<1>4. CASE call = "bundle.schnorr"
  <2>1. Signature(call) = ts(StructOf(ActionStruct), 3)
    BY <1>4 DEF Signature
  <2> QED
    BY <1>1, <1>4, <2>1 DEF BundleElement, BindingWords, bundle_top_params
<1>5. CASE call = "bundle.spend_auth"
  <2>1. Signature(call) = ts(StructOf(Append(ActionStruct, FixedArray(3))), 3)
    BY <1>5 DEF Signature
  <2> QED
    BY <1>2, <1>5, <2>1 DEF BundleElement, BindingWords, bundle_top_params
<1> QED
  BY <1>3, <1>4, <1>5 DEF BundleCalls

\* Calldata of a bundle, with these words for its actions.
LEMMA BundleRead ==
    ASSUME NEW call \in BundleCalls, NEW tokens, NEW vb, NEW amount \in {0} \cup Amounts,
           NEW meta, NEW binding, NEW actions, IsBundle(actions),
           ParameterFits(ArrayOf(BundleElement(call)), tokens, MaxActions),
           parse_actions(tokens) = actions,
           IsSeq(binding), Len(binding) = BindingWords(call),
           NEW calldata,
           calldata = Calldata(call, Encode(Signature(call), <<tokens, vb, Num(amount), meta, binding>>))
    PROVE  /\ Receive(calldata) = Received(NoExecutor, tokens, Num(amount), vb, meta, binding)
           /\ bundle_actions_by_cmx(calldata) = ByCmx(actions)
<1> DEFINE k == BindingWords(call)
           ts == <<ArrayOf(BundleElement(call)), Word, Word, Word, FixedArray(k)>>
           vs == <<tokens, vb, Num(amount), meta, binding>>
           body == Encode(Signature(call), vs)
           legacy == call = "bundle.spend_auth"
<1>1. Signature(call) = ts /\ Signature(call) = bundle_top_params(legacy, k)
  BY BundleSignature
<1>2. IsSeq(ts) /\ Len(ts) = 5 /\ IsSeq(vs) /\ Len(vs) = 5
  BY TuplesAreSeqs
<1>3. /\ ts[1] = ArrayOf(BundleElement(call)) /\ ts[2] = Word /\ ts[3] = Word /\ ts[4] = Word
      /\ ts[5] = FixedArray(k)
  OBVIOUS
<1>4. vs[1] = tokens /\ vs[2] = vb /\ vs[3] = Num(amount) /\ vs[4] = meta /\ vs[5] = binding
  OBVIOUS
<1>5. calldata.sel = call /\ calldata.body = body
  BY DEF Calldata
<1>6. k = 3 \/ k = 8
  BY DEF BindingWords
<1> HIDE DEF ts, vs, k
<1>7. ParameterFits(ts[5], vs[5], MaxActions)
  <2>1. CASE k = 3
    BY <1>3, <1>4, <2>1, FieldsFit DEF ParameterFits, k
  <2>2. CASE k = 8
    BY <1>3, <1>4, <2>2, FieldsFit DEF ParameterFits, k
  <2> QED
    BY <1>6, <2>1, <2>2
<1>8. \A i \in 1 .. 5 : ParameterFits(ts[i], vs[i], MaxActions)
  <2>1. \A i \in 1 .. 5 : i = 1 \/ i = 2 \/ i = 3 \/ i = 4 \/ i = 5
    OBVIOUS
  <2>2. \A v : ParameterFits(Word, v, MaxActions)
    BY FieldsFit DEF ParameterFits
  <2> QED
    BY <1>3, <1>4, <1>7, <2>1, <2>2
<1>9. Decode(ts, Encode(ts, vs)) = Readable(vs)
  BY <1>2, <1>8, BundleFits, ParametersRead, 5 <= 8
<1>10. Decode(Signature(call), body).ok /\ Decode(Signature(call), body).value = vs
  BY <1>1, <1>9 DEF Readable
<1> HIDE DEF body
<1>11. Receive(calldata) = Received(NoExecutor, tokens, Num(amount), vb, meta, binding)
  <2> DEFINE v == Decode(Signature(calldata.sel), calldata.body).value
  <2>1. /\ calldata.sel \in BundleCalls
        /\ calldata.sel \notin {"shield.erc", "transfer", "transfer.executor", "shield", "unshield"}
    BY <1>5 DEF BundleCalls
  <2>2. v = vs
    BY <1>5, <1>10
  <2>3. Receive(calldata) = Received(NoExecutor, v[1], v[3], v[2], v[4], v[5])
    BY <2>1 DEF Receive
  <2> QED
    BY <1>4, <2>2, <2>3
<1>12. decode_bundle_calldata(calldata).ok /\ decode_bundle_calldata(calldata).value.actions = actions
  <2> DEFINE legacy_v2 == calldata.sel = "bundle.schnorr" \/ legacy
             t == Decode(bundle_top_params(calldata.sel = "bundle.spend_auth", IF legacy_v2 THEN 3 ELSE 8),
                         calldata.body)
  <2>1. (IF legacy_v2 THEN 3 ELSE 8) = k /\ (calldata.sel = "bundle.spend_auth") = legacy
    BY <1>5 DEF BundleCalls, BindingWords, k
  <2>2. t.ok /\ t.value = vs
    BY <1>1, <1>5, <1>10, <2>1
  <2>3. calldata.sel # "" /\ (calldata.sel = "bundle" \/ legacy_v2)
    BY <1>5 DEF BundleCalls
  <2>4. IsBelow(t.value[3], U64)
    BY <1>4, <2>2, AmountsAre
  <2>5. parse_actions(t.value[1]) = actions
    BY <1>4, <2>2
  <2>6. decode_bundle_calldata(calldata) =
          Ok([actions            |-> parse_actions(t.value[1]),
              value_balance      |-> t.value[2],
              amount             |-> t.value[3].n,
              recipient_meta     |-> t.value[4],
              binding_proof      |-> IF legacy_v2 THEN Absent ELSE t.value[5],
              legacy_binding_sig |-> IF legacy_v2 THEN t.value[5] ELSE Absent])
    <3>1. t.ok /\ calldata.sel # "" /\ (calldata.sel = "bundle" \/ legacy_v2) /\ IsBelow(t.value[3], U64)
      BY <2>2, <2>3, <2>4
    <3> QED
      BY <1>5, <3>1 DEF decode_bundle_calldata
  <2> HIDE DEF t
  <2> QED
    BY <2>5, <2>6 DEF Ok
<1>13. bundle_actions_by_cmx(calldata) = ByCmx(actions)
  BY <1>12, ByCmxIs
<1> QED
  BY <1>11, <1>13

BundleTokens(call, actions) ==
    IF call = "bundle.spend_auth"
    THEN [i \in DOMAIN actions |-> Append(action_token(actions[i]), SpendAuth(actions[i]))]
    ELSE actions_token(actions)

LEMMA BundleTokensAre ==
    ASSUME NEW call \in BundleCalls, NEW actions, IsBundle(actions)
    PROVE  /\ ParameterFits(ArrayOf(BundleElement(call)), BundleTokens(call, actions), MaxActions)
           /\ parse_actions(BundleTokens(call, actions)) = actions
           /\ DOMAIN BundleTokens(call, actions) = DOMAIN actions
           /\ call = "bundle.spend_auth" =>
                \A i \in DOMAIN actions : BundleTokens(call, actions)[i][9] = SpendAuth(actions[i])
<1>1. /\ ActionsFit(actions) /\ Len(actions) \in Nat /\ Len(actions) <= MaxActions
      /\ DOMAIN actions = 1 .. Len(actions)
  BY BundleFits
<1>2. CASE call # "bundle.spend_auth"
  <2>1. BundleTokens(call, actions) = actions_token(actions) /\ BundleElement(call) = bundle_action_param
    BY <1>2 DEF BundleTokens, BundleElement
  <2>2. parse_actions(actions_token(actions)) = actions
    BY <1>1, ActionsTokenFits
  <2>3. ParameterFits(ArrayOf(bundle_action_param), actions_token(actions), MaxActions)
    BY <1>1 DEF ParameterFits
  <2>4. DOMAIN actions_token(actions) = DOMAIN actions
    BY DEF actions_token
  <2> QED
    BY <1>2, <2>1, <2>2, <2>3, <2>4
<1>3. CASE call = "bundle.spend_auth"
  <2> DEFINE v == [i \in DOMAIN actions |-> Append(action_token(actions[i]), SpendAuth(actions[i]))]
             n == Len(actions)
  <2>1. BundleTokens(call, actions) = v /\ BundleElement(call) = legacy_bundle_action_param
    BY <1>3 DEF BundleTokens, BundleElement
  <2>2. /\ DOMAIN v = 1 .. n /\ v = [i \in 1 .. n |-> v[i]]
        /\ \A i \in 1 .. n : v[i] = Append(action_token(actions[i]), SpendAuth(actions[i]))
    BY <1>1
  <2> HIDE DEF v
  <2>3. \A a : IsSeq(SpendAuth(a)) /\ Len(SpendAuth(a)) = 3
    BY BindingIs, 3 \in Nat DEF SpendAuth
  <2>4. IsSeq(v) /\ Len(v) = n
    BY <1>1, <2>2, FunctionIsSeq
  <2>5. ParameterFits(ArrayOf(legacy_bundle_action_param), v, MaxActions)
    <3>1. \A i \in 1 .. n : \E sig :
            IsSeq(sig) /\ Len(sig) = 3 /\ v[i] = Append(action_token(actions[i]), sig)
      BY <2>2, <2>3
    <3> QED
      BY <1>1, <2>4, <3>1 DEF ParameterFits
  <2>6. ASSUME NEW i \in 1 .. n
        PROVE  parse_action(v[i]) = actions[i] /\ v[i][9] = SpendAuth(actions[i])
    <3> DEFINE a == actions[i]
               t == Append(action_token(a), SpendAuth(a))
    <3>1. ActionFits(a) /\ v[i] = t
      BY <1>1, <2>2 DEF ActionsFit
    <3>2. IsSeq(SpendAuth(a)) /\ Len(SpendAuth(a)) = 3
      BY <2>3
    <3> HIDE DEF a
    <3>6. ActionFits(a)
      BY <3>1
    <3>7. /\ ElementFits(legacy_bundle_action_param, Append(action_token(a), SpendAuth(a)))
          /\ Len(EncodeElement(legacy_bundle_action_param, Append(action_token(a), SpendAuth(a))))
               <= ActionWords
          /\ \A l \in 1 .. 8 : Append(action_token(a), SpendAuth(a))[l] = action_token(a)[l]
          /\ Append(action_token(a), SpendAuth(a))[9] = SpendAuth(a)
      BY <3>6, <3>2, LegacyTokenFits
    <3>3. (\A j \in 1 .. 8 : t[j] = action_token(a)[j]) /\ t[9] = SpendAuth(a)
      BY <3>7
    <3> HIDE DEF t
    <3>4. parse_action(t) = parse_action(action_token(a))
      BY <3>3 DEF parse_action
    <3>5. parse_action(action_token(a)) = a
      BY <3>1, ActionTokenFits
    <3> QED
      BY <3>1, <3>3, <3>4, <3>5 DEF a
  <2>7. parse_actions(v) = actions
    <3>1. parse_actions(v) = [i \in 1 .. n |-> actions[i]]
      BY <2>2, <2>6 DEF parse_actions
    <3>2. actions = [i \in 1 .. n |-> actions[i]]
      BY SeqFacts DEF IsBundle
    <3> QED
      BY <3>1, <3>2
  <2>8. DOMAIN v = DOMAIN actions /\ \A i \in DOMAIN actions : v[i][9] = SpendAuth(actions[i])
    BY <1>1, <2>2, <2>6
  <2> QED
    BY <2>1, <2>5, <2>7, <2>8
<1> QED
  BY <1>2, <1>3

LEMMA BundleCalldata ==
    ASSUME NEW call \in BundleCalls, NEW actions, NEW amount
    PROVE  CalldataFor(call, actions, amount) =
             Ok(Calldata(call, Encode(Signature(call),
                  <<BundleTokens(call, actions), WalletBalance(call, amount), Num(amount),
                    WalletMeta(call, amount),
                    Binding(WalletSighash(call, actions, amount), BindingWords(call))>>)))
<1> DEFINE binding == Binding(WalletSighash(call, actions, amount), BindingWords(call))
           vb == WalletBalance(call, amount)
           meta == WalletMeta(call, amount)
           args == [actions |-> actions, value_balance |-> vb, amount |-> amount,
                    recipient_meta |-> meta,
                    binding_proof |-> IF call = "bundle" THEN binding ELSE Absent,
                    legacy_binding_sig |-> IF call = "bundle" THEN Absent ELSE binding]
<1>1. call \notin {"shield", "shield.erc", "transfer", "transfer.executor", "unshield"}
  BY DEF BundleCalls
<1> DEFINE signed(k) == Binding(WalletSighash(call, actions, amount), k)
           bundle == [actions |-> actions, value_balance |-> vb, amount |-> amount,
                      recipient_meta |-> meta,
                      binding_proof |-> IF call = "bundle" THEN signed(8) ELSE Absent,
                      legacy_binding_sig |-> IF call = "bundle" THEN Absent ELSE signed(3)]
<1>2. CalldataFor(call, actions, amount) =
        IF call = "bundle" THEN encode_bundle_calldata(bundle) ELSE HistoricCalldata(call, bundle)
  <2>1. CASE call = "bundle"
    BY <2>1 DEF CalldataFor, WalletBalance, WalletMeta, WalletSighash
  <2>2. CASE call # "bundle"
    <3>1. call \in {"bundle.schnorr", "bundle.spend_auth"}
      BY <2>2 DEF BundleCalls
    <3> QED
      BY <2>2, <3>1 DEF CalldataFor, WalletBalance, WalletMeta, WalletSighash
  <2> QED
    BY <2>1, <2>2
<1>3. call = "bundle" => BindingWords(call) = 8
  BY DEF BindingWords
<1>4. call # "bundle" => BindingWords(call) = 3
  BY DEF BindingWords
<1>5. CASE call = "bundle"
  <2>1. CalldataFor(call, actions, amount) = encode_bundle_calldata(args)
    BY <1>2, <1>3, <1>5
  <2>2. binding # Absent
    <3>1. IsSeq(binding) /\ Len(binding) = 8
      BY <1>3, <1>5, BindingIs, 8 \in Nat
    <3>2. Len(Absent) = 0
      BY DEF Absent
    <3> HIDE DEF binding
    <3> QED
      BY <3>1, <3>2
  <2> HIDE DEF binding, vb, meta
  <2>3. /\ args.binding_proof = binding /\ args.legacy_binding_sig = Absent
        /\ args.actions = actions /\ args.value_balance = vb /\ args.amount = amount
        /\ args.recipient_meta = meta
    BY <1>5
  <2> HIDE DEF args
  <2>4. encode_bundle_calldata(args) =
          Ok(Calldata("bundle", Encode(bundle_top_params(FALSE, 8),
               <<actions_token(actions), vb, Num(amount), meta, binding>>)))
    BY <2>2, <2>3 DEF encode_bundle_calldata
  <2>5. Signature(call) = bundle_top_params(FALSE, 8)
    <3>1. (call = "bundle.spend_auth") = FALSE
      BY <1>5
    <3> QED
      BY <1>3, <1>5, <3>1, BundleSignature
  <2>6. BundleTokens(call, actions) = actions_token(actions)
    BY <1>5 DEF BundleTokens
  <2> QED
    BY <1>5, <2>1, <2>4, <2>5, <2>6 DEF binding, vb, meta
<1>6. CASE call # "bundle"
  <2>1. CalldataFor(call, actions, amount) = HistoricCalldata(call, args)
    BY <1>2, <1>4, <1>6
  <2> HIDE DEF binding, vb, meta
  <2>2. /\ args.legacy_binding_sig = binding
        /\ args.actions = actions /\ args.value_balance = vb /\ args.amount = amount
        /\ args.recipient_meta = meta
    BY <1>6
  <2> HIDE DEF args
  <2>3. BundleTokens(call, actions) =
          [i \in DOMAIN args.actions |->
             IF call = "bundle.spend_auth"
             THEN Append(action_token(args.actions[i]), SpendAuth(args.actions[i]))
             ELSE action_token(args.actions[i])]
    BY <2>2 DEF BundleTokens, actions_token
  <2> QED
    BY <2>1, <2>2, <2>3 DEF HistoricCalldata, binding, vb, meta
<1> QED
  BY <1>5, <1>6

LEMMA BundleDelivered ==
    ASSUME NEW call \in BundleCalls, NEW actions, IsBundle(actions), NEW amount \in {0} \cup Amounts
    PROVE  Delivered(call, CalldataFor(call, actions, amount), actions, amount)
<1> DEFINE tokens == BundleTokens(call, actions)
           binding == Binding(WalletSighash(call, actions, amount), BindingWords(call))
           vb == WalletBalance(call, amount)
           meta == WalletMeta(call, amount)
           cd == Calldata(call, Encode(Signature(call), <<tokens, vb, Num(amount), meta, binding>>))
           r == Received(NoExecutor, tokens, Num(amount), vb, meta, binding)
<1>1. CalldataFor(call, actions, amount) = Ok(cd)
  BY BundleCalldata
<1>2. /\ ParameterFits(ArrayOf(BundleElement(call)), tokens, MaxActions)
      /\ parse_actions(tokens) = actions /\ DOMAIN tokens = DOMAIN actions
      /\ call = "bundle.spend_auth" => \A i \in DOMAIN actions : tokens[i][9] = SpendAuth(actions[i])
  BY BundleTokensAre
<1>3. IsSeq(binding) /\ Len(binding) = BindingWords(call)
  <2>1. BindingWords(call) \in Nat
    BY DEF BindingWords
  <2> QED
    BY <2>1, BindingIs
<1> HIDE DEF tokens, binding, vb, meta, cd
<1>4. Receive(cd) = r /\ bundle_actions_by_cmx(cd) = ByCmx(actions)
  <2>1. cd = Calldata(call, Encode(Signature(call), <<tokens, vb, Num(amount), meta, binding>>))
    BY DEF cd
  <2> QED
    BY <1>2, <1>3, <2>1, BundleRead
<1>5. AsActions(tokens) = actions
  BY <1>2 DEF AsActions, AsAction, parse_actions, parse_action
<1>6. /\ r.actions = actions /\ r.tokens = tokens /\ r.amount = Num(amount) /\ r.value_balance = vb
      /\ r.meta = meta /\ r.binding = binding /\ r.executor = NoExecutor
  BY <1>5 DEF Received
<1> HIDE DEF r
<1>7. r.binding = ExpectedBinding(call, r)
  BY <1>6, BundleBinding DEF vb, meta, binding
<1>8. \A i \in DOMAIN r.actions : ProofVerifies(r.actions[i])
  BY <1>6, BundleFits, GenuineFits DEF IsBundle
<1>9. call = "bundle.spend_auth" => \A i \in DOMAIN r.tokens : r.tokens[i][9] = ExpectedSpendAuth(r.actions[i])
  <2>1. \A a : SpendAuth(a) = ExpectedSpendAuth(a)
    BY DEF SpendAuth, ExpectedSpendAuth, spend_auth_sighash_v1
  <2> QED
    BY <1>2, <1>6, <2>1
<1>10. AcceptsBundle(call, r)
  BY <1>6, <1>7, <1>8, <1>9 DEF AcceptsBundle
<1>11. CalldataFor(call, actions, amount).ok /\ CalldataFor(call, actions, amount).value = cd
  BY <1>1 DEF Ok
<1> QED
  BY <1>4, <1>6, <1>10, <1>11 DEF Delivered

-----------------------------------------------------------------------------
(* The calls of the other pools *)

LEMMA NotABundle ==
    ASSUME NEW calldata, calldata.sel \notin BundleCalls, calldata.sel # ""
    PROVE  bundle_actions_by_cmx(calldata) = Err("BadSelector")
<1>1. calldata.sel # "bundle" /\ calldata.sel # "bundle.schnorr" /\ calldata.sel # "bundle.spend_auth"
  BY DEF BundleCalls
<1>2. decode_bundle_calldata(calldata) = Err("BadSelector")
  BY <1>1 DEF decode_bundle_calldata
<1>3. ~Err("BadSelector").ok
  BY DEF Err
<1> QED
  BY <1>2, <1>3 DEF bundle_actions_by_cmx

PrivateOf(actions, m) == [actions |-> actions, binding_proof |-> Binding(m, 8)]

LEMMA ActionsRead ==
    ASSUME NEW actions, IsBundle(actions)
    PROVE  /\ AsActions(actions_token(actions)) = actions
           /\ \A i \in DOMAIN actions : ProofVerifies(actions[i])
           /\ ParameterFits(ArrayOf(bundle_action_param), actions_token(actions), MaxActions)
           /\ bundle_action_param = StructOf(ActionStruct)
<1>1. /\ ActionsFit(actions) /\ Len(actions) \in Nat /\ Len(actions) <= MaxActions
      /\ DOMAIN actions = 1 .. Len(actions)
  BY BundleFits
<1>2. parse_actions(actions_token(actions)) = actions
  BY <1>1, ActionsTokenFits
<1>3. AsActions(actions_token(actions)) = actions
  BY <1>2 DEF AsActions, AsAction, parse_actions, parse_action
<1>4. \A i \in DOMAIN actions : ProofVerifies(actions[i])
  BY <1>1, GenuineFits DEF IsBundle
<1>5. ParameterFits(ArrayOf(bundle_action_param), actions_token(actions), MaxActions)
  BY <1>1 DEF ParameterFits
<1>6. bundle_action_param = StructOf(ActionStruct)
  BY DEF bundle_action_param, ActionStruct
<1> QED
  BY <1>3, <1>4, <1>5, <1>6

LEMMA PrivateFits ==
    ASSUME NEW actions, IsBundle(actions), NEW m
    PROVE  LET token == privacy_call_token(PrivateOf(actions, m))
           IN  /\ ParameterFits(privacy_call_param, token, MaxActions)
               /\ Decode(<<ArrayOf(StructOf(ActionStruct))>>, token[1]).value[1] = actions_token(actions)
               /\ token[2] = Binding(m, 8)
<1> DEFINE call == PrivateOf(actions, m)
           token == privacy_call_token(call)
<1>1. call.actions = actions /\ call.binding_proof = Binding(m, 8)
      /\ call = [actions |-> call.actions, binding_proof |-> call.binding_proof]
  BY DEF PrivateOf
<1> HIDE DEF call
<1>2. /\ ActionsFit(actions) /\ Len(actions) \in Nat /\ Len(actions) <= MaxActions
      /\ CalldataWords(Len(actions)) < U32
  BY BundleFits
<1>3. IsSeq(Binding(m, 8)) /\ Len(Binding(m, 8)) = 8
  BY BindingIs, 8 \in Nat
<1>4. CallFits(call)
  BY <1>1, <1>2, <1>3 DEF CallFits
<1>5. CalldataWords(Len(call.actions)) < U32
  BY <1>1, <1>2
<1>6. Decode(<<ArrayOf(bundle_action_param)>>, token[1]) = Readable(<<actions_token(call.actions)>>)
  BY <1>4, <1>5, CallTokenFits
<1>7. token[2] = call.binding_proof
  BY DEF privacy_call_token
<1> HIDE DEF token
<1>8. Decode(<<ArrayOf(StructOf(ActionStruct))>>, token[1]).value[1] = actions_token(actions)
  <2>1. bundle_action_param = StructOf(ActionStruct)
    BY ActionsRead
  <2>2. Decode(<<ArrayOf(StructOf(ActionStruct))>>, token[1]).value = <<actions_token(actions)>>
    BY <1>1, <1>6, <2>1 DEF Readable
  <2> QED
    BY <2>2
<1>9. ParameterFits(privacy_call_param, token, MaxActions)
  BY <1>1, <1>2, <1>4 DEF ParameterFits, token
<1> QED
  BY <1>1, <1>7, <1>8, <1>9 DEF token, call

WalletExecutor(call) == IF call = "transfer.executor" THEN User ELSE NoExecutor
WalletV3(call, actions, amount) ==
    V3Message(WalletExecutor(call), Of(actions, "nf_old"), Of(actions, "cmx"),
              WalletBalance(call, amount), WalletMeta(call, amount))

PrivateCalls == {"transfer", "transfer.executor", "shield", "unshield"}

LEMMA PrivateAccepted ==
    ASSUME NEW call \in PrivateCalls, NEW actions, IsBundle(actions), NEW amount,
           NEW r, r = Received(WalletExecutor(call), actions_token(actions), Num(amount),
                               WalletBalance(call, amount), WalletMeta(call, amount),
                               Binding(WalletV3(call, actions, amount), 8))
    PROVE  r.actions = actions /\ r.amount = Num(amount) /\ AcceptsBundle(call, r)
<1>1. /\ r.actions = actions /\ r.amount = Num(amount) /\ r.executor = WalletExecutor(call)
      /\ r.value_balance = WalletBalance(call, amount) /\ r.meta = WalletMeta(call, amount)
      /\ r.binding = Binding(WalletV3(call, actions, amount), 8)
  BY ActionsRead DEF Received
<1>2. call \notin BundleCalls \cup {"shield.erc"} /\ call # "bundle.spend_auth"
  BY DEF PrivateCalls, BundleCalls
<1>3. r.binding = ExpectedBinding(call, r)
  BY <1>1, <1>2 DEF ExpectedBinding, WalletV3
<1>4. \A i \in DOMAIN r.actions : ProofVerifies(r.actions[i])
  BY <1>1, ActionsRead
<1>5. r.executor \in {NoExecutor, User}
  BY <1>1 DEF WalletExecutor
<1> QED
  BY <1>1, <1>2, <1>3, <1>4, <1>5 DEF AcceptsBundle

PrivateToken(call, actions, amount) ==
    privacy_call_token(PrivateOf(actions, WalletV3(call, actions, amount)))

LEMMA PrivateCalldata ==
    ASSUME NEW call \in PrivateCalls, NEW actions, NEW amount
    PROVE  /\ call = "transfer" =>
                CalldataFor(call, actions, amount) =
                  Ok(Calldata(call, Encode(<<privacy_call_param>>,
                                           <<PrivateToken(call, actions, amount)>>)))
           /\ call = "transfer.executor" =>
                CalldataFor(call, actions, amount) =
                  Ok(Calldata(call, Encode(<<Address, privacy_call_param>>,
                                           <<User, PrivateToken(call, actions, amount)>>)))
           /\ call = "shield" =>
                CalldataFor(call, actions, amount) =
                  Ok(Calldata(call, Encode(<<Word, privacy_call_param>>,
                                           <<Num(amount), PrivateToken(call, actions, amount)>>)))
           /\ call = "unshield" =>
                CalldataFor(call, actions, amount) =
                  Ok(Calldata(call, Encode(<<Word, Address, privacy_call_param>>,
                                           <<Num(amount), Other, PrivateToken(call, actions, amount)>>)))
<1> DEFINE private == PrivateOf(actions, WalletV3(call, actions, amount))
<1>1. CASE call = "transfer"
  <2>1. CalldataFor(call, actions, amount) = Ok(encode_perc20_transfer_calldata(private))
    BY <1>1 DEF CalldataFor, PrivateOf, WalletV3, WalletExecutor, WalletBalance, WalletMeta
  <2> QED
    BY <1>1, <2>1 DEF PrivateToken, encode_perc20_transfer_calldata
<1>2. CASE call = "transfer.executor"
  <2>1. CalldataFor(call, actions, amount) = Ok(encode_perc20_transfer_executor_calldata(User, private))
    BY <1>2 DEF CalldataFor, PrivateOf, WalletV3, WalletExecutor, WalletBalance, WalletMeta
  <2> QED
    BY <1>2, <2>1 DEF PrivateToken, encode_perc20_transfer_executor_calldata
<1>3. CASE call = "shield"
  <2>1. CalldataFor(call, actions, amount) = Ok(encode_wrapped_shield_calldata(amount, private))
    BY <1>3 DEF CalldataFor, PrivateOf, WalletV3, WalletExecutor, WalletBalance, WalletMeta
  <2> QED
    BY <1>3, <2>1 DEF PrivateToken, encode_wrapped_shield_calldata
<1>4. CASE call = "unshield"
  <2>1. CalldataFor(call, actions, amount) = Ok(encode_wrapped_unshield_calldata(amount, Other, private))
    BY <1>4 DEF CalldataFor, PrivateOf, WalletV3, WalletExecutor, WalletBalance, WalletMeta
  <2> QED
    BY <1>4, <2>1 DEF PrivateToken, encode_wrapped_unshield_calldata
<1> QED
  BY <1>1, <1>2, <1>3, <1>4 DEF PrivateCalls

\* The amounts of a private call, and the balance and the recipient they give.
LEMMA PrivateAmounts ==
    ASSUME NEW call \in PrivateCalls, NEW amount \in AmountsOf(call)
    PROVE  /\ amount \in {0} \cup Amounts
           /\ call \in {"transfer", "transfer.executor"} =>
                amount = 0 /\ WalletBalance(call, amount) = Num(0) /\ WalletMeta(call, amount) = NoMeta
           /\ call = "shield" =>
                /\ WalletBalance(call, amount) = bundle_value_balance_be(amount, TRUE)
                /\ WalletMeta(call, amount) = NoMeta
           /\ call = "unshield" =>
                /\ WalletBalance(call, amount) = Num(amount)
                /\ WalletMeta(call, amount) = evm_address_to_recipient_meta(Other)
<1>1. CASE call \in {"transfer", "transfer.executor"}
  <2>1. amount = 0 /\ call \notin {"shield", "shield.erc"} /\ call # "shield" /\ call # "unshield"
    BY <1>1 DEF AmountsOf
  <2>2. bundle_value_balance_be(amount, FALSE) = Num(amount)
    BY DEF bundle_value_balance_be
  <2>3. (call \in {"shield", "shield.erc"}) = FALSE
    BY <2>1
  <2> QED
    BY <2>1, <2>2, <2>3 DEF WalletBalance, WalletMeta
<1>2. CASE call = "shield"
  <2>1. amount \in Amounts /\ call \notin {"transfer", "transfer.executor"} /\ call # "unshield"
    BY <1>2 DEF AmountsOf
  <2>2. (call \in {"shield", "shield.erc"}) = TRUE
    BY <1>2
  <2> QED
    BY <1>2, <2>1, <2>2 DEF WalletBalance, WalletMeta
<1>3. CASE call = "unshield"
  <2>1. amount \in Amounts /\ call \notin {"transfer", "transfer.executor"} /\ call # "shield"
    BY <1>3 DEF AmountsOf
  <2>2. (call \in {"shield", "shield.erc"}) = FALSE
    BY <1>3
  <2>3. bundle_value_balance_be(amount, FALSE) = Num(amount)
    BY DEF bundle_value_balance_be
  <2>4. amount # 0
    BY <2>1, IndexingAssumption
  <2> QED
    BY <1>3, <2>1, <2>2, <2>3, <2>4 DEF WalletBalance, WalletMeta
<1> QED
  BY <1>1, <1>2, <1>3 DEF PrivateCalls

LEMMA PrivateSignature ==
    /\ Signature("transfer") = <<privacy_call_param>>
    /\ Signature("transfer.executor") = <<Address, privacy_call_param>>
    /\ Signature("shield") = <<Word, privacy_call_param>>
    /\ Signature("unshield") = <<Word, Address, privacy_call_param>>
<1>1. PrivacyCall = privacy_call_param
  BY DEF PrivacyCall, privacy_call_param
<1> QED
  BY <1>1 DEF Signature

LEMMA WordsFit ==
    /\ \A w : ParameterFits(Word, w, MaxActions)
    /\ \A w : AddressOf(w) = w => ParameterFits(Address, w, MaxActions)
    /\ \A s : IsSeq(s) /\ Len(s) < FieldWords => ParameterFits(Bytes, s, MaxActions)
    /\ AddressOf(User) = User /\ AddressOf(Other) = Other /\ AddressOf(Contract) = Contract
    /\ AddressOf(Underlying) = Underlying
<1>1. /\ AddressOf(User) = User /\ AddressOf(Other) = Other /\ AddressOf(Contract) = Contract
      /\ AddressOf(Underlying) = Underlying
  BY DEF AddressOf, User, Other, Contract, Underlying
<1> QED
  BY <1>1, FieldsFit DEF ParameterFits

\* What is encoded in calldata and in logs is decoded.
LEMMA Reading ==
    ASSUME NEW ts, NEW vs, IsSeq(ts), IsSeq(vs), Len(ts) = Len(vs), Len(ts) <= 8,
           \A i \in 1 .. Len(ts) : ParameterFits(ts[i], vs[i], MaxActions)
    PROVE  Decode(ts, Encode(ts, vs)).ok /\ Decode(ts, Encode(ts, vs)).value = vs
<1>1. MaxActions \in Nat /\ CalldataWords(MaxActions) < U32
  BY IndexingAssumption
<1>2. Decode(ts, Encode(ts, vs)) = Readable(vs)
  BY <1>1, ParametersRead
<1> QED
  BY <1>2 DEF Readable

PrivateArgs(call, token, amount) ==
    CASE call = "transfer" -> <<token>>
      [] call = "transfer.executor" -> <<User, token>>
      [] call = "shield" -> <<Num(amount), token>>
      [] call = "unshield" -> <<Num(amount), Other, token>>

\* The parameters of a private call are read, whatever their number.
LEMMA PrivateRead ==
    ASSUME NEW call \in PrivateCalls, NEW actions, IsBundle(actions), NEW amount \in AmountsOf(call),
           NEW calldata, CalldataFor(call, actions, amount) = Ok(calldata)
    PROVE  /\ calldata.sel = call
           /\ Decode(Signature(call), calldata.body).value =
                PrivateArgs(call, PrivateToken(call, actions, amount), amount)
<1> DEFINE token == PrivateToken(call, actions, amount)
<1>1. ParameterFits(privacy_call_param, token, MaxActions)
  BY PrivateFits DEF PrivateToken
<1> HIDE DEF token
<1>2. \A sel, body : Ok(calldata) = Ok(Calldata(sel, body)) => calldata.sel = sel /\ calldata.body = body
  BY DEF Ok, Calldata
<1>7. /\ call = "transfer" =>
           CalldataFor(call, actions, amount) =
             Ok(Calldata(call, Encode(<<privacy_call_param>>,
                                      <<PrivateToken(call, actions, amount)>>)))
      /\ call = "transfer.executor" =>
           CalldataFor(call, actions, amount) =
             Ok(Calldata(call, Encode(<<Address, privacy_call_param>>,
                                      <<User, PrivateToken(call, actions, amount)>>)))
      /\ call = "shield" =>
           CalldataFor(call, actions, amount) =
             Ok(Calldata(call, Encode(<<Word, privacy_call_param>>,
                                      <<Num(amount), PrivateToken(call, actions, amount)>>)))
      /\ call = "unshield" =>
           CalldataFor(call, actions, amount) =
             Ok(Calldata(call, Encode(<<Word, Address, privacy_call_param>>,
                                      <<Num(amount), Other, PrivateToken(call, actions, amount)>>)))
  BY PrivateCalldata
<1>3. CASE call = "transfer"
  <2> DEFINE ts == <<privacy_call_param>>
             vs == <<token>>
  <2>1. Ok(calldata) = Ok(Calldata(call, Encode(ts, vs)))
    <3>1. CalldataFor(call, actions, amount) = Ok(Calldata(call, Encode(ts, vs)))
      BY <1>3, <1>7 DEF token
    <3> QED
      BY <3>1
  <2>2. IsSeq(ts) /\ IsSeq(vs) /\ Len(ts) = Len(vs) /\ Len(ts) <= 8
    BY TuplesAreSeqs, 1 <= 8
  <2>3. \A i \in 1 .. Len(ts) : ParameterFits(ts[i], vs[i], MaxActions)
    <3>1. ts[1] = privacy_call_param /\ vs[1] = token /\ Len(ts) = 1
      BY TuplesAreSeqs
    <3>2. \A i \in 1 .. 1 : i = 1
      OBVIOUS
    <3> HIDE DEF ts, vs
    <3> QED
      BY <1>1, <3>1, <3>2
  <2>4. Signature(call) = ts
    BY <1>3, PrivateSignature
  <2> HIDE DEF ts, vs
  <2>5. Decode(ts, Encode(ts, vs)).value = vs
    BY <2>2, <2>3, Reading
  <2>6. calldata.sel = call /\ calldata.body = Encode(ts, vs)
    BY <1>2, <2>1
  <2> QED
    BY <1>3, <2>4, <2>5, <2>6 DEF vs, token, PrivateArgs
<1>4. CASE call = "transfer.executor"
  <2> DEFINE ts == <<Address, privacy_call_param>>
             vs == <<User, token>>
  <2>1. Ok(calldata) = Ok(Calldata(call, Encode(ts, vs)))
    <3>1. CalldataFor(call, actions, amount) = Ok(Calldata(call, Encode(ts, vs)))
      BY <1>4, <1>7 DEF token
    <3> QED
      BY <3>1
  <2>2. IsSeq(ts) /\ IsSeq(vs) /\ Len(ts) = Len(vs) /\ Len(ts) <= 8
    BY TuplesAreSeqs, 2 <= 8
  <2>3. \A i \in 1 .. Len(ts) : ParameterFits(ts[i], vs[i], MaxActions)
    <3>1. ts[1] = Address /\ vs[1] = User /\ ts[2] = privacy_call_param /\ vs[2] = token /\ Len(ts) = 2
      BY TuplesAreSeqs
    <3>2. \A i \in 1 .. 2 : i = 1 \/ i = 2
      OBVIOUS
    <3> HIDE DEF ts, vs
    <3> QED
      BY <1>1, <3>1, <3>2, WordsFit
  <2>4. Signature(call) = ts
    BY <1>4, PrivateSignature
  <2> HIDE DEF ts, vs
  <2>5. Decode(ts, Encode(ts, vs)).value = vs
    BY <2>2, <2>3, Reading
  <2>6. calldata.sel = call /\ calldata.body = Encode(ts, vs)
    BY <1>2, <2>1
  <2> QED
    BY <1>4, <2>4, <2>5, <2>6 DEF vs, token, PrivateArgs
<1>5. CASE call = "shield"
  <2> DEFINE ts == <<Word, privacy_call_param>>
             vs == <<Num(amount), token>>
  <2>1. Ok(calldata) = Ok(Calldata(call, Encode(ts, vs)))
    <3>1. CalldataFor(call, actions, amount) = Ok(Calldata(call, Encode(ts, vs)))
      BY <1>5, <1>7 DEF token
    <3> QED
      BY <3>1
  <2>2. IsSeq(ts) /\ IsSeq(vs) /\ Len(ts) = Len(vs) /\ Len(ts) <= 8
    BY TuplesAreSeqs, 2 <= 8
  <2>3. \A i \in 1 .. Len(ts) : ParameterFits(ts[i], vs[i], MaxActions)
    <3>1. ts[1] = Word /\ ts[2] = privacy_call_param /\ vs[2] = token /\ Len(ts) = 2
      BY TuplesAreSeqs
    <3>2. \A i \in 1 .. 2 : i = 1 \/ i = 2
      OBVIOUS
    <3> HIDE DEF ts, vs
    <3> QED
      BY <1>1, <3>1, <3>2, WordsFit
  <2>4. Signature(call) = ts
    BY <1>5, PrivateSignature
  <2> HIDE DEF ts, vs
  <2>5. Decode(ts, Encode(ts, vs)).value = vs
    BY <2>2, <2>3, Reading
  <2>6. calldata.sel = call /\ calldata.body = Encode(ts, vs)
    BY <1>2, <2>1
  <2> QED
    BY <1>5, <2>4, <2>5, <2>6 DEF vs, token, PrivateArgs
<1>6. CASE call = "unshield"
  <2> DEFINE ts == <<Word, Address, privacy_call_param>>
             vs == <<Num(amount), Other, token>>
  <2>1. Ok(calldata) = Ok(Calldata(call, Encode(ts, vs)))
    <3>1. CalldataFor(call, actions, amount) = Ok(Calldata(call, Encode(ts, vs)))
      BY <1>6, <1>7 DEF token
    <3> QED
      BY <3>1
  <2>2. IsSeq(ts) /\ IsSeq(vs) /\ Len(ts) = Len(vs) /\ Len(ts) <= 8
    BY TuplesAreSeqs, 3 <= 8
  <2>3. \A i \in 1 .. Len(ts) : ParameterFits(ts[i], vs[i], MaxActions)
    <3>1. /\ ts[1] = Word /\ ts[2] = Address /\ ts[3] = privacy_call_param
          /\ vs[2] = Other /\ vs[3] = token /\ Len(ts) = 3
      BY TuplesAreSeqs
    <3>2. \A i \in 1 .. 3 : i = 1 \/ i = 2 \/ i = 3
      OBVIOUS
    <3> HIDE DEF ts, vs
    <3> QED
      BY <1>1, <3>1, <3>2, WordsFit
  <2>4. Signature(call) = ts
    BY <1>6, PrivateSignature
  <2> HIDE DEF ts, vs
  <2>5. Decode(ts, Encode(ts, vs)).value = vs
    BY <2>2, <2>3, Reading
  <2>6. calldata.sel = call /\ calldata.body = Encode(ts, vs)
    BY <1>2, <2>1
  <2> QED
    BY <1>6, <2>4, <2>5, <2>6 DEF vs, token, PrivateArgs
<1> QED
  BY <1>3, <1>4, <1>5, <1>6 DEF PrivateCalls

LEMMA PrivateDelivered ==
    ASSUME NEW call \in PrivateCalls, NEW actions, IsBundle(actions), NEW amount \in AmountsOf(call)
    PROVE  Delivered(call, CalldataFor(call, actions, amount), actions, amount)
<1> DEFINE token == PrivateToken(call, actions, amount)
           tokens == actions_token(actions)
           binding == Binding(WalletV3(call, actions, amount), 8)
           vb == WalletBalance(call, amount)
           meta == WalletMeta(call, amount)
           r == Received(WalletExecutor(call), tokens, Num(amount), vb, meta, binding)
           cd == CalldataFor(call, actions, amount).value
           v == Decode(Signature(cd.sel), cd.body).value
<1>1. CalldataFor(call, actions, amount).ok /\ CalldataFor(call, actions, amount) = Ok(cd)
  <2>1. \E c : CalldataFor(call, actions, amount) = Ok(c)
    <3>1. call = "transfer" \/ call = "transfer.executor" \/ call = "shield" \/ call = "unshield"
      BY DEF PrivateCalls
    <3>2. /\ call = "transfer" =>
               CalldataFor(call, actions, amount) =
                 Ok(Calldata(call, Encode(<<privacy_call_param>>,
                                          <<PrivateToken(call, actions, amount)>>)))
          /\ call = "transfer.executor" =>
               CalldataFor(call, actions, amount) =
                 Ok(Calldata(call, Encode(<<Address, privacy_call_param>>,
                                          <<User, PrivateToken(call, actions, amount)>>)))
          /\ call = "shield" =>
               CalldataFor(call, actions, amount) =
                 Ok(Calldata(call, Encode(<<Word, privacy_call_param>>,
                                          <<Num(amount), PrivateToken(call, actions, amount)>>)))
          /\ call = "unshield" =>
               CalldataFor(call, actions, amount) =
                 Ok(Calldata(call, Encode(<<Word, Address, privacy_call_param>>,
                                          <<Num(amount), Other, PrivateToken(call, actions, amount)>>)))
      BY PrivateCalldata
    <3> QED
      BY <3>1, <3>2
  <2>2. PICK c : CalldataFor(call, actions, amount) = Ok(c)
    BY <2>1
  <2> QED
    BY <2>2 DEF Ok
<1> HIDE DEF cd
<1>2. /\ cd.sel = call
      /\ v = PrivateArgs(call, token, amount)
  <2>1. CalldataFor(call, actions, amount) = Ok(cd)
    BY <1>1
  <2>2. /\ cd.sel = call
        /\ Decode(Signature(call), cd.body).value = PrivateArgs(call, token, amount)
    BY <2>1, PrivateRead
  <2> QED
    BY <2>2
<1>3. /\ Decode(<<ArrayOf(StructOf(ActionStruct))>>, token[1]).value[1] = tokens
      /\ token[2] = binding
  BY PrivateFits DEF PrivateToken
<1>4. call \notin BundleCalls /\ call # "" /\ call # "shield.erc"
  BY DEF PrivateCalls, BundleCalls
<1> HIDE DEF token, tokens, binding, r, v
<1>5. Receive(cd) = r
  <2> DEFINE Nested(t) == Decode(<<ArrayOf(StructOf(ActionStruct))>>, t[1]).value[1]
             Minus(w) == bundle_value_balance_be(w.n, TRUE)
  <2>1. Receive(cd) =
          CASE call = "transfer" -> Received(NoExecutor, Nested(v[1]), Num(0), Num(0), NoMeta, v[1][2])
            [] call = "transfer.executor" -> Received(v[1], Nested(v[2]), Num(0), Num(0), NoMeta, v[2][2])
            [] call = "shield" -> Received(NoExecutor, Nested(v[2]), v[1], Minus(v[1]), NoMeta, v[2][2])
            [] call = "unshield" ->
                 Received(NoExecutor, Nested(v[3]), v[1], v[1], evm_address_to_recipient_meta(v[2]), v[3][2])
    <3>1. CASE call = "transfer"
      BY <1>2, <1>4, <3>1 DEF Receive, v
    <3>2. CASE call = "transfer.executor"
      BY <1>2, <1>4, <3>2 DEF Receive, v
    <3>3. CASE call = "shield"
      BY <1>2, <1>4, <3>3 DEF Receive, v
    <3>4. CASE call = "unshield"
      BY <1>2, <1>4, <3>4 DEF Receive, v
    <3> QED
      BY <3>1, <3>2, <3>3, <3>4 DEF PrivateCalls
  <2>2. Nested(token) = tokens
    BY <1>3
  <2> HIDE DEF Nested
  <2>3. CASE call = "transfer"
    <3>1. v[1] = token
      BY <1>2, <2>3 DEF PrivateArgs
    <3>2. WalletExecutor(call) = NoExecutor /\ amount = 0 /\ vb = Num(0) /\ meta = NoMeta
      BY <2>3, PrivateAmounts DEF WalletExecutor
    <3>3. Receive(cd) = Received(NoExecutor, Nested(v[1]), Num(0), Num(0), NoMeta, v[1][2])
      BY <2>1, <2>3
    <3> QED
      BY <1>3, <2>2, <3>1, <3>2, <3>3 DEF r
  <2>4. CASE call = "transfer.executor"
    <3>1. v[1] = User /\ v[2] = token
      BY <1>2, <2>4 DEF PrivateArgs
    <3>2. WalletExecutor(call) = User /\ amount = 0 /\ vb = Num(0) /\ meta = NoMeta
      BY <2>4, PrivateAmounts DEF WalletExecutor
    <3>3. Receive(cd) = Received(v[1], Nested(v[2]), Num(0), Num(0), NoMeta, v[2][2])
      BY <2>1, <2>4
    <3> QED
      BY <1>3, <2>2, <3>1, <3>2, <3>3 DEF r
  <2>5. CASE call = "shield"
    <3>1. v[1] = Num(amount) /\ v[2] = token
      BY <1>2, <2>5 DEF PrivateArgs
    <3>2. /\ WalletExecutor(call) = NoExecutor /\ vb = bundle_value_balance_be(amount, TRUE)
          /\ meta = NoMeta /\ Num(amount).n = amount
      BY <2>5, PrivateAmounts DEF WalletExecutor, Num
    <3>3. Receive(cd) = Received(NoExecutor, Nested(v[2]), v[1], Minus(v[1]), NoMeta, v[2][2])
      BY <2>1, <2>5
    <3>4. Minus(v[1]) = vb
      BY <3>1, <3>2
    <3> QED
      BY <1>3, <2>2, <3>1, <3>2, <3>3, <3>4 DEF r
  <2>6. CASE call = "unshield"
    <3>1. v[1] = Num(amount) /\ v[2] = Other /\ v[3] = token
      BY <1>2, <2>6 DEF PrivateArgs
    <3>2. /\ WalletExecutor(call) = NoExecutor /\ vb = Num(amount)
          /\ meta = evm_address_to_recipient_meta(Other)
      BY <2>6, PrivateAmounts DEF WalletExecutor
    <3>3. Receive(cd) = Received(NoExecutor, Nested(v[3]), v[1], v[1],
                                 evm_address_to_recipient_meta(v[2]), v[3][2])
      BY <2>1, <2>6
    <3> QED
      BY <1>3, <2>2, <3>1, <3>2, <3>3 DEF r
  <2> QED
    BY <2>3, <2>4, <2>5, <2>6 DEF PrivateCalls
<1>6. r.actions = actions /\ r.amount = Num(amount) /\ AcceptsBundle(call, r)
  BY PrivateAccepted DEF r, tokens, binding
<1>7. bundle_actions_by_cmx(cd) = Err("BadSelector")
  BY <1>2, <1>4, NotABundle
<1> QED
  BY <1>1, <1>4, <1>5, <1>6, <1>7 DEF Delivered, cd

LEMMA ErcShieldDelivered ==
    ASSUME NEW actions, IsBundle(actions), NEW amount \in Amounts
    PROVE  Delivered("shield.erc", CalldataFor("shield.erc", actions, amount), actions, amount)
<1> DEFINE call == "shield.erc"
           vb == WalletBalance(call, amount)
           meta == WalletMeta(call, amount)
           sig == Binding(WalletSighash(call, actions, amount), 3)
           permit_r == [permit |-> "r"]
           permit_s == [permit |-> "s"]
           args == [actions |-> actions, amount |-> amount, owner |-> User, deadline |-> 0,
                    permit_v |-> Num(27), permit_r |-> permit_r,
                    permit_s |-> permit_s, binding_sig |-> sig]
           tokens == actions_token(actions)
           ts == erc_shield_params
           vs == <<tokens, Num(amount), User, Num(0), Num(27), permit_r, permit_s, sig>>
           cd == Calldata(call, Encode(ts, vs))
           r == Received(NoExecutor, tokens, Num(amount), vb, meta, sig)
<1>1. CalldataFor(call, actions, amount) = encode_erc_shield_calldata(args)
  BY DEF CalldataFor, WalletBalance, WalletMeta, WalletSighash, BundleCalls
<1>2. IsSeq(sig) /\ Len(sig) = 3
  BY BindingIs, 3 \in Nat
<1>3. \A i \in DOMAIN actions : Len(actions[i].enc_ciphertext) = EncWords
  BY BundleFits, GenuineFits DEF IsBundle
<1> HIDE DEF sig, tokens, vb, meta, permit_r, permit_s
<1>4. /\ args.actions = actions /\ args.amount = amount /\ args.owner = User /\ args.deadline = 0
      /\ args.permit_v = Num(27) /\ args.permit_r = permit_r /\ args.permit_s = permit_s
      /\ args.binding_sig = sig
  OBVIOUS
<1> HIDE DEF args
<1>5. encode_erc_shield_calldata(args) = Ok(cd)
  BY <1>3, <1>4 DEF encode_erc_shield_calldata, tokens
<1>6. IsSeq(ts) /\ IsSeq(vs) /\ Len(ts) = 8 /\ Len(vs) = 8
  BY TuplesAreSeqs DEF erc_shield_params
<1>7. /\ ts[1] = ArrayOf(bundle_action_param) /\ ts[2] = Word /\ ts[3] = Address /\ ts[4] = Word
      /\ ts[5] = Word /\ ts[6] = Word /\ ts[7] = Word /\ ts[8] = FixedArray(3)
  BY DEF erc_shield_params
<1>8. vs[1] = tokens /\ vs[2] = Num(amount) /\ vs[3] = User /\ vs[8] = sig
  OBVIOUS
<1>9. Signature(call) = ts
  BY ActionsRead DEF Signature, erc_shield_params
<1>10. cd.sel = call /\ cd.body = Encode(ts, vs)
  BY DEF Calldata
<1> HIDE DEF ts, vs, cd
<1>11. \A i \in 1 .. 8 : ParameterFits(ts[i], vs[i], MaxActions)
  <2>1. ParameterFits(ts[1], vs[1], MaxActions)
    BY <1>7, <1>8, ActionsRead DEF tokens
  <2>2. ParameterFits(ts[8], vs[8], MaxActions)
    BY <1>2, <1>7, <1>8, FieldsFit DEF ParameterFits
  <2>3. \A i \in 1 .. 8 : i = 1 \/ i = 2 \/ i = 3 \/ i = 4 \/ i = 5 \/ i = 6 \/ i = 7 \/ i = 8
    OBVIOUS
  <2> QED
    BY <1>7, <1>8, <2>1, <2>2, <2>3, WordsFit
<1>12. IsSeq(ts) /\ IsSeq(vs) /\ Len(ts) = Len(vs) /\ Len(ts) <= 8
       /\ \A i \in 1 .. Len(ts) : ParameterFits(ts[i], vs[i], MaxActions)
  BY <1>6, <1>11, 8 <= 8
<1>13. Decode(ts, Encode(ts, vs)).value = vs
  BY <1>12, Reading
<1>14. vb = bundle_value_balance_be(amount, TRUE) /\ meta = NoMeta /\ Num(amount).n = amount
  <2>1. (call \in {"shield", "shield.erc"}) = TRUE
    OBVIOUS
  <2> QED
    BY <2>1 DEF WalletBalance, WalletMeta, vb, meta, Num
<1>15. Receive(cd) = r
  <2> DEFINE v == Decode(Signature(cd.sel), cd.body).value
  <2>1. v = vs
    BY <1>9, <1>10, <1>13
  <2>2. Receive(cd) = Received(NoExecutor, v[1], v[2], bundle_value_balance_be(v[2].n, TRUE), NoMeta, v[8])
    BY <1>10 DEF Receive, BundleCalls
  <2> QED
    BY <1>8, <1>14, <2>1, <2>2
<1>16. /\ r.actions = actions /\ r.tokens = tokens /\ r.amount = Num(amount) /\ r.value_balance = vb
       /\ r.meta = meta /\ r.binding = sig /\ r.executor = NoExecutor
  BY ActionsRead DEF Received, tokens
<1> HIDE DEF r
<1>17. r.binding = ExpectedBinding(call, r)
  <2>1. BindingWords(call) = 3
    BY DEF BindingWords
  <2>2. ExpectedBinding(call, r) = Binding(WalletSighash(call, actions, amount), BindingWords(call))
    BY <1>16, BundleBinding DEF vb, meta
  <2> QED
    BY <1>16, <2>1, <2>2 DEF sig
<1>18. \A i \in DOMAIN r.actions : ProofVerifies(r.actions[i])
  BY <1>16, ActionsRead
<1>19. AcceptsBundle(call, r)
  BY <1>16, <1>17, <1>18 DEF AcceptsBundle
<1>20. bundle_actions_by_cmx(cd) = Err("BadSelector")
  <2>1. cd.sel \notin BundleCalls /\ cd.sel # ""
    BY <1>10 DEF BundleCalls
  <2> QED
    BY <2>1, NotABundle
<1>21. CalldataFor(call, actions, amount).ok /\ CalldataFor(call, actions, amount).value = cd
  BY <1>1, <1>5 DEF Ok
<1>22. call \notin BundleCalls
  BY DEF BundleCalls
<1> QED
  BY <1>15, <1>16, <1>19, <1>20, <1>21, <1>22 DEF Delivered

LEMMA CallsAre ==
    ASSUME NEW g \in Generations, NEW call \in g.calls
    PROVE  call \in BundleCalls \/ call = "shield.erc" \/ call \in PrivateCalls
BY DEF Generations, Generation, BundleCalls, PrivateCalls

\* A pool understands every call the wallet makes.
LEMMA CallDelivered ==
    ASSUME NEW g \in Generations, NEW call \in g.calls, NEW actions, IsBundle(actions),
           NEW amount \in AmountsOf(call)
    PROVE  /\ Delivered(call, CalldataFor(call, actions, amount), actions, amount)
           /\ amount \in {0} \cup Amounts
<1>1. CASE call \in BundleCalls
  <2>1. amount \in {0} \cup Amounts
    BY <1>1 DEF AmountsOf, BundleCalls
  <2> QED
    BY <1>1, <2>1, BundleDelivered
<1>2. CASE call = "shield.erc"
  <2>1. amount \in Amounts
    BY <1>2 DEF AmountsOf
  <2> QED
    BY <1>2, <2>1, ErcShieldDelivered
<1>3. CASE call \in PrivateCalls
  BY <1>3, PrivateDelivered, PrivateAmounts
<1> QED
  BY <1>1, <1>2, <1>3, CallsAre

-----------------------------------------------------------------------------
(* Logs *)

NoteRecord(a, ciphers) ==
    [cmx |-> a.cmx, enc_ciphertext |-> a.enc_ciphertext, out_ciphertext |-> ciphers[1],
     epk |-> a.epk, nf_old |-> a.nf_old, cv_net_x |-> ciphers[2]]

CiphersOf(a) == <<a.out_ciphertext, <<a.pub_fields[2]>>>>

LEMMA LegacyBody ==
    ASSUME NEW a, Genuine(a), NEW data,
           data = Encode(<<Bytes, Word, Word>>, <<a.enc_ciphertext, a.epk, a.nf_old>>)
    PROVE  data[2] = a.epk
<1> DEFINE ts == <<Bytes, Word, Word>>
           vs == <<a.enc_ciphertext, a.epk, a.nf_old>>
           raw == [i \in DOMAIN ts |-> EncodeValue(ts[i], vs[i])]
<1>1. IsSeq(ts) /\ Len(ts) = 3 /\ DOMAIN ts = 1 .. 3
  BY TuplesAreSeqs, SeqFacts
<1>2. ts[1] = Bytes /\ ts[2] = Word /\ ts[3] = Word
  OBVIOUS
<1>3. vs[1] = a.enc_ciphertext /\ vs[2] = a.epk /\ vs[3] = a.nf_old
  OBVIOUS
<1> HIDE DEF ts, vs
<1>4. /\ IsSeq(raw) /\ Len(raw) = 3
      /\ \A i \in 1 .. 3 : raw[i] = EncodeValue(ts[i], vs[i])
  BY <1>1, FunctionIsSeq, 3 \in Nat
<1> HIDE DEF raw
<1>5. data = Layout(ts, raw)
  <2>1. Listed(raw) = raw
    BY <1>4, ListedIs
  <2> QED
    BY <2>1 DEF Encode, raw, ts, vs
<1>6. \A i \in 1 .. 3 : Body(ts[i], raw[i])
  <2>1. \A i \in 1 .. 3 : ValueFits(ts[i], vs[i])
    <3>1. \A i \in 1 .. 3 : i = 1 \/ i = 2 \/ i = 3
      OBVIOUS
    <3>2. FieldFits(ts[1], vs[1]) /\ FieldFits(ts[2], vs[2]) /\ FieldFits(ts[3], vs[3])
      BY <1>2, <1>3, FieldsFit, GenuineFits
    <3> QED
      BY <3>1, <3>2 DEF ValueFits, ElementFits
  <2> QED
    BY <1>4, <2>1, ValueBody
<1>7. /\ IsSeq(Layout(ts, raw)) /\ Len(Layout(ts, raw)) >= Len(ts)
      /\ \A d : IsSeq(d) /\ Holds(d, 0, Layout(ts, raw)) =>
           \A i \in 1 .. Len(ts) :
             /\ HeadEnd(ts)[i - 1] \in Nat
             /\ Placed(d, HeadEnd(ts)[i - 1], ts[i], raw[i])
  <2>1. Len(raw) = Len(ts) /\ \A i \in 1 .. Len(ts) : Body(ts[i], raw[i])
    BY <1>1, <1>4, <1>6
  <2> QED
    BY <1>1, <1>4, <2>1, LayoutPlaced
<1>8. Holds(data, 0, data)
  BY <1>5, <1>7, SeqFacts, \A i \in 1 .. Len(data) : 0 + i = i DEF Holds
<1>9. Placed(data, HeadEnd(ts)[1], Word, raw[2])
  <2>1. Placed(data, HeadEnd(ts)[2 - 1], ts[2], raw[2])
    BY <1>1, <1>5, <1>7, <1>8, 2 \in 1 .. 3
  <2> QED
    BY <1>2, <2>1, 2 - 1 = 1
<1>10. HeadEnd(ts)[1] = 1
  <2>1. HeadEnd(ts)[0] = 0 /\ HeadEnd(ts)[1] = HeadEnd(ts)[1 - 1] + ts[1].width
    BY <1>1, HeadEndEquation, 1 \in 1 .. 3, 3 \in Nat
  <2>2. ts[1].width = 1
    BY <1>2 DEF Bytes, Type
  <2> QED
    BY <2>1, <2>2, 1 - 1 = 0, 0 + 1 = 1
<1>11. raw[2] = <<a.epk>>
  <2>1. raw[2] = EncodeValue(Word, a.epk)
    BY <1>2, <1>3, <1>4, 2 \in 1 .. 3
  <2> QED
    BY <2>1 DEF EncodeValue, EncodeElement, EncodeField, Word, Type
<1>12. Holds(data, 1, <<a.epk>>)
  BY <1>9, <1>10, <1>11 DEF Placed, Word, Type
<1> QED
  <2>1. Len(<<a.epk>>) = 1 /\ <<a.epk>>[1] = a.epk
    BY TuplesAreSeqs
  <2>2. data[1 + 1] = <<a.epk>>[1]
    BY <1>12, <2>1, 1 \in 1 .. 1 DEF Holds
  <2> QED
    BY <2>1, <2>2, 1 + 1 = 2

\* A log of the first layout is not one of the current layout: its second word
\* is a key, and no offset.
LEMMA LegacyIsNotV2 ==
    ASSUME NEW data, "n" \notin DOMAIN data[2]
    PROVE  ~decode_note_added_v2(data).ok
<1> DEFINE ts == <<Bytes, Bytes, Word, Word, Word>>
           end == HeadEnd(ts)
           reads == [i \in DOMAIN ts |-> ReadValue(ts[i], data, end[i - 1])]
<1>1. IsSeq(ts) /\ Len(ts) = 5 /\ DOMAIN ts = 1 .. 5
  BY TuplesAreSeqs, SeqFacts
<1>2. ts[1] = Bytes /\ ts[2] = Bytes
  OBVIOUS
<1>3. end[1] = 1
  <2>1. HeadEnd(ts)[0] = 0 /\ HeadEnd(ts)[1] = HeadEnd(ts)[1 - 1] + ts[1].width
    BY <1>1, HeadEndEquation, 1 \in 1 .. 5, 5 \in Nat
  <2>2. ts[1].width = 1
    BY <1>2 DEF Bytes, Type
  <2> QED
    BY <2>1, <2>2, 1 - 1 = 0, 0 + 1 = 1
<1>4. Decode(ts, data) = Collected(Listed(reads))
  BY DEF Decode
<1> HIDE DEF ts, end
<1>5. /\ IsSeq(reads) /\ Len(reads) = 5 /\ DOMAIN reads = 1 .. 5
      /\ reads[2] = ReadValue(Bytes, data, 1)
  BY <1>1, <1>2, <1>3, FunctionIsSeq, 5 \in Nat, 2 \in 1 .. 5, 2 - 1 = 1
<1> HIDE DEF reads
<1>6. Indirect(data, 1) = << >>
  BY 1 + 1 = 2 DEF Indirect, IsBelow
<1>7. ReadValue(Bytes, data, 1) = ReadBytes(Indirect(data, 1))
  BY DEF ReadValue, ReadElement, ReadField, Bytes, Type
<1>8. ReadBytes(<< >>) = Unreadable
  BY DEF ReadBytes, HasCount
<1>9. ~reads[2].ok
  BY <1>5, <1>6, <1>7, <1>8 DEF Unreadable
<1>10. Listed(reads) = reads
  BY <1>5, ListedIs
<1>11. ~Decode(ts, data).ok
  BY <1>4, <1>5, <1>9, <1>10, 2 \in 1 .. 5 DEF Collected
<1> QED
  BY <1>11 DEF decode_note_added_v2, ts, Err

\* The topic and the layout of every generation.
LEMMA GenerationsAre ==
    ASSUME NEW g \in Generations
    PROVE  /\ g.body \in {"legacy", "extended"} /\ g.topic \in {"NoteAdded", "NoteAdded.legacy"}
           /\ g.body = "legacy" => g.topic = "NoteAdded.legacy"
           /\ g.confirms \in {"NoteConfirmed", "RootUpdated"}
BY DEF Generations, Generation

LEMMA Projections ==
    /\ \A a : CiphersOf(a)[1] = a.out_ciphertext /\ CiphersOf(a)[2] = <<a.pub_fields[2]>>
    /\ <<<< >>, Absent>>[1] = << >> /\ <<<< >>, Absent>>[2] = Absent
BY DEF CiphersOf

LEMMA NoteAddedRead ==
    ASSUME pool \in Generations, NEW a, Genuine(a)
    PROVE  /\ NoteAdded(a).topics[1].event = pool.topic
           /\ decode_note_added_log(NoteAdded(a).topics, NoteAdded(a).data) =
                Ok(NoteRecord(a, IF pool.body = "extended" THEN CiphersOf(a) ELSE <<<< >>, Absent>>))
<1> DEFINE topics == <<Topic0(pool.topic), a.cmx>>
           data == NoteAdded(a).data
           v2 == decode_note_added_v2(data)
<1>1. NoteAdded(a).topics = topics
  BY DEF NoteAdded, Emitted
<1>2. /\ Len(topics) = 2 /\ topics[1] = Topic0(pool.topic) /\ topics[2] = a.cmx
      /\ topics[1].event = pool.topic
  BY TuplesAreSeqs DEF Topic0
<1>3. HasArguments(topics, 1)
  BY <1>2 DEF HasArguments
<1>4. /\ IsSeq(a.enc_ciphertext) /\ Len(a.enc_ciphertext) = EncWords
      /\ IsSeq(a.out_ciphertext) /\ Len(a.out_ciphertext) = 1 /\ "n" \notin DOMAIN a.epk
  BY GenuineFits
<1>5. EncWords < FieldWords /\ 1 < FieldWords
  BY WordsAreNat, BundleAssumption DEF FieldWords
<1>6. ParameterFits(Bytes, a.enc_ciphertext, MaxActions) /\ ParameterFits(Bytes, a.out_ciphertext, MaxActions)
  BY <1>4, <1>5, WordsFit
<1> HIDE DEF topics
<1>7. CASE pool.body = "extended"
  <2> DEFINE ts == <<Bytes, Bytes, Word, Word, Word>>
             vs == <<a.enc_ciphertext, a.out_ciphertext, a.epk, a.nf_old, a.pub_fields[2]>>
  <2>1. data = Encode(ts, vs)
    BY <1>7 DEF NoteAdded, Emitted
  <2>2. IsSeq(ts) /\ Len(ts) = 5 /\ IsSeq(vs) /\ Len(vs) = 5
    BY TuplesAreSeqs
  <2>3. ts[1] = Bytes /\ ts[2] = Bytes /\ ts[3] = Word /\ ts[4] = Word /\ ts[5] = Word
    OBVIOUS
  <2>4. /\ vs[1] = a.enc_ciphertext /\ vs[2] = a.out_ciphertext /\ vs[3] = a.epk
        /\ vs[4] = a.nf_old /\ vs[5] = a.pub_fields[2]
    OBVIOUS
  <2> HIDE DEF ts, vs, data
  <2>5. \A i \in 1 .. 5 : ParameterFits(ts[i], vs[i], MaxActions)
    <3>1. \A i \in 1 .. 5 : i = 1 \/ i = 2 \/ i = 3 \/ i = 4 \/ i = 5
      OBVIOUS
    <3> QED
      BY <1>6, <2>3, <2>4, <3>1, WordsFit
  <2>6. Decode(ts, data).ok /\ Decode(ts, data).value = vs
    <3>1. /\ IsSeq(ts) /\ IsSeq(vs) /\ Len(ts) = Len(vs) /\ Len(ts) <= 8
          /\ \A i \in 1 .. Len(ts) : ParameterFits(ts[i], vs[i], MaxActions)
      BY <2>2, <2>5, 5 <= 8
    <3> QED
      BY <2>1, <3>1, Reading
  <2>7. v2 = Ok([enc_ciphertext |-> a.enc_ciphertext, out_ciphertext |-> a.out_ciphertext,
                 epk |-> a.epk, nf_old |-> a.nf_old, cv_net_x |-> <<a.pub_fields[2]>>])
    <3>1. <<Bytes, Bytes, Word, Word, Word>> = ts
      BY DEF ts
    <3> QED
      BY <2>4, <2>6, <3>1 DEF decode_note_added_v2
  <2>8. v2.ok
    BY <2>7 DEF Ok
  <2>9. decode_note_added_log(topics, data) = WithCmx(v2, a.cmx)
    BY <1>2, <1>3, <2>8 DEF decode_note_added_log
  <2>10. WithCmx(v2, a.cmx) = Ok(NoteRecord(a, CiphersOf(a)))
    <3> DEFINE d == [enc_ciphertext |-> a.enc_ciphertext, out_ciphertext |-> a.out_ciphertext,
                     epk |-> a.epk, nf_old |-> a.nf_old, cv_net_x |-> <<a.pub_fields[2]>>]
    <3>1. /\ d.enc_ciphertext = a.enc_ciphertext /\ d.out_ciphertext = CiphersOf(a)[1]
          /\ d.epk = a.epk /\ d.nf_old = a.nf_old /\ d.cv_net_x = CiphersOf(a)[2]
      BY Projections
    <3>2. v2.ok /\ v2.value = d
      BY <2>7 DEF Ok
    <3> HIDE DEF d, v2
    <3> QED
      BY <3>1, <3>2 DEF WithCmx, NoteRecord
  <2> QED
    BY <1>1, <1>2, <1>7, <2>9, <2>10 DEF data
<1>8. CASE pool.body # "extended"
  <2> DEFINE ts == <<Bytes, Word, Word>>
             vs == <<a.enc_ciphertext, a.epk, a.nf_old>>
             legacy == decode_note_added_legacy(data)
  <2>1. pool.body = "legacy" /\ pool.topic = "NoteAdded.legacy"
    BY <1>8, GenerationsAre
  <2>2. data = Encode(ts, vs)
    BY <2>1 DEF NoteAdded, Emitted
  <2>3. "n" \notin DOMAIN data[2]
    BY <1>4, <2>2, LegacyBody
  <2>4. IsSeq(ts) /\ Len(ts) = 3 /\ IsSeq(vs) /\ Len(vs) = 3
    BY TuplesAreSeqs
  <2>5. ts[1] = Bytes /\ ts[2] = Word /\ ts[3] = Word
    OBVIOUS
  <2>6. vs[1] = a.enc_ciphertext /\ vs[2] = a.epk /\ vs[3] = a.nf_old
    OBVIOUS
  <2> HIDE DEF ts, vs, data
  <2>7. ~v2.ok
    BY <2>3, LegacyIsNotV2
  <2>8. \A i \in 1 .. 3 : ParameterFits(ts[i], vs[i], MaxActions)
    <3>1. \A i \in 1 .. 3 : i = 1 \/ i = 2 \/ i = 3
      OBVIOUS
    <3> QED
      BY <1>6, <2>5, <2>6, <3>1, WordsFit
  <2>9. Decode(ts, data).ok /\ Decode(ts, data).value = vs
    <3>1. /\ IsSeq(ts) /\ IsSeq(vs) /\ Len(ts) = Len(vs) /\ Len(ts) <= 8
          /\ \A i \in 1 .. Len(ts) : ParameterFits(ts[i], vs[i], MaxActions)
      BY <2>4, <2>8, 3 <= 8
    <3> QED
      BY <2>2, <3>1, Reading
  <2>10. legacy = Ok([enc_ciphertext |-> a.enc_ciphertext, out_ciphertext |-> << >>,
                      epk |-> a.epk, nf_old |-> a.nf_old, cv_net_x |-> Absent])
    <3>1. <<Bytes, Word, Word>> = ts
      BY DEF ts
    <3> QED
      BY <2>6, <2>9, <3>1 DEF decode_note_added_legacy
  <2>11. decode_note_added_log(topics, data) = WithCmx(legacy, a.cmx)
    <3>1. topics[1] # Topic0("NoteAdded")
      BY <1>2, <2>1 DEF Topic0
    <3> QED
      BY <1>2, <1>3, <2>7, <3>1 DEF decode_note_added_log
  <2>12. WithCmx(legacy, a.cmx) = Ok(NoteRecord(a, <<<< >>, Absent>>))
    <3> DEFINE d == [enc_ciphertext |-> a.enc_ciphertext, out_ciphertext |-> << >>,
                     epk |-> a.epk, nf_old |-> a.nf_old, cv_net_x |-> Absent]
               none == <<<< >>, Absent>>
    <3>1. /\ d.enc_ciphertext = a.enc_ciphertext /\ d.out_ciphertext = none[1]
          /\ d.epk = a.epk /\ d.nf_old = a.nf_old /\ d.cv_net_x = none[2]
      BY Projections
    <3>2. legacy.ok /\ legacy.value = d
      BY <2>10 DEF Ok
    <3> HIDE DEF d, legacy, none
    <3>3. WithCmx(legacy, a.cmx) = Ok(NoteRecord(a, none))
      BY <3>1, <3>2 DEF WithCmx, NoteRecord
    <3> QED
      BY <3>3 DEF none
  <2> QED
    BY <1>1, <1>2, <1>8, <2>11, <2>12 DEF data
<1> QED
  BY <1>7, <1>8

\* The ciphertexts an indexer has for action i of a call.
IndexedCiphers(call, actions, i) ==
    IF pool.body = "extended" THEN CiphersOf(actions[i])
    ELSE IF call \in BundleCalls THEN CiphersOf(actions[LastWith(actions, actions[i].cmx)])
    ELSE <<<< >>, Absent>>

LEMMA NoteLogIs ==
    ASSUME pool \in Generations, NEW call, NEW actions, IsBundle(actions), NEW i \in 1 .. Len(actions),
           NEW by_cmx, by_cmx = IF call \in BundleCalls THEN ByCmx(actions) ELSE Err("BadSelector"),
           NEW tx
    PROVE  Log(tx, by_cmx, NoteAdded(actions[i])) =
             [tx |-> tx, event |-> pool.topic,
              read |-> Ok(NoteRecord(actions[i], IndexedCiphers(call, actions, i)))]
<1> DEFINE a == actions[i]
           e == NoteAdded(a)
           l == LastWith(actions, a.cmx)
<1>1. Genuine(a) /\ DOMAIN actions = 1 .. Len(actions) /\ Len(actions) \in Nat
  BY BundleFits DEF IsBundle
<1> HIDE DEF e
<1>2. /\ e.topics[1].event = pool.topic
      /\ decode_note_added_log(e.topics, e.data) =
           Ok(NoteRecord(a, IF pool.body = "extended" THEN CiphersOf(a) ELSE <<<< >>, Absent>>))
  BY <1>1, NoteAddedRead DEF e
<1>3. ReadLog(e.topics, e.data, by_cmx) = Completed(decode_note_added_log(e.topics, e.data), by_cmx)
  BY <1>2, GenerationsAre DEF ReadLog
<1>4. Completed(decode_note_added_log(e.topics, e.data), by_cmx) =
        Ok(NoteRecord(a, IndexedCiphers(call, actions, i)))
  <2>1. CASE pool.body = "extended"
    <3> DEFINE note == NoteRecord(a, CiphersOf(a))
    <3>1. note.out_ciphertext # << >>
      BY <1>1, GenuineFits DEF NoteRecord, CiphersOf
    <3>2. IndexedCiphers(call, actions, i) = CiphersOf(a)
      BY <2>1 DEF IndexedCiphers
    <3>3. decode_note_added_log(e.topics, e.data) = Ok(note)
      BY <1>2, <2>1
    <3> HIDE DEF note
    <3>4. Completed(Ok(note), by_cmx) = Ok(note)
      BY <3>1 DEF Completed, Ok
    <3> QED
      BY <3>2, <3>3, <3>4 DEF note
  <2>2. CASE pool.body # "extended" /\ call \in BundleCalls
    <3> DEFINE note == NoteRecord(a, <<<< >>, Absent>>)
               map == ByCmx(actions).value
               entry == [out_ciphertext |-> actions[l].out_ciphertext,
                         cv_net_x |-> actions[l].pub_fields[2]]
    <3>1. /\ note = [cmx |-> a.cmx, enc_ciphertext |-> a.enc_ciphertext, out_ciphertext |-> << >>,
                     epk |-> a.epk, nf_old |-> a.nf_old, cv_net_x |-> Absent]
          /\ note.out_ciphertext = << >> /\ note.cmx = a.cmx
      BY DEF NoteRecord
    <3>2. decode_note_added_log(e.topics, e.data) = Ok(note)
      BY <1>2, <2>2
    <3>3. by_cmx.ok /\ by_cmx.value = map
      BY <2>2 DEF ByCmx, Ok
    <3>4. a.cmx \in DOMAIN map /\ map[a.cmx] = entry
      BY <1>1 DEF ByCmx, Ok
    <3> HIDE DEF note, map
    <3>5. Completed(Ok(note), by_cmx) =
            Ok([note EXCEPT !.out_ciphertext = map[note.cmx].out_ciphertext,
                            !.cv_net_x = <<map[note.cmx].cv_net_x>>])
      BY <3>1, <3>3, <3>4 DEF Completed, Ok
    <3>6. /\ map[note.cmx].out_ciphertext = actions[l].out_ciphertext
          /\ map[note.cmx].cv_net_x = actions[l].pub_fields[2]
      BY <3>1, <3>4
    <3>7. [note EXCEPT !.out_ciphertext = map[note.cmx].out_ciphertext,
                       !.cv_net_x = <<map[note.cmx].cv_net_x>>]
            = NoteRecord(a, CiphersOf(actions[l]))
      <4> DEFINE x == map[note.cmx].out_ciphertext
                 y == <<map[note.cmx].cv_net_x>>
                 b == actions[l]
      <4>1. x = CiphersOf(b)[1] /\ y = CiphersOf(b)[2]
        BY <3>6, Projections
      <4> HIDE DEF x, y, b
      <4>2. [note EXCEPT !.out_ciphertext = x, !.cv_net_x = y] =
              [cmx |-> a.cmx, enc_ciphertext |-> a.enc_ciphertext, out_ciphertext |-> x,
               epk |-> a.epk, nf_old |-> a.nf_old, cv_net_x |-> y]
        <5> DEFINE m == [note EXCEPT !.out_ciphertext = x]
        <5>1. m = [cmx |-> a.cmx, enc_ciphertext |-> a.enc_ciphertext, out_ciphertext |-> x,
                   epk |-> a.epk, nf_old |-> a.nf_old, cv_net_x |-> Absent]
          BY <3>1
        <5>2. [note EXCEPT !.out_ciphertext = x, !.cv_net_x = y] = [m EXCEPT !.cv_net_x = y]
          OBVIOUS
        <5> HIDE DEF m
        <5>3. [m EXCEPT !.cv_net_x = y] =
                [cmx |-> a.cmx, enc_ciphertext |-> a.enc_ciphertext, out_ciphertext |-> x,
                 epk |-> a.epk, nf_old |-> a.nf_old, cv_net_x |-> y]
          BY <5>1
        <5> QED
          BY <5>2, <5>3
      <4>3. NoteRecord(a, CiphersOf(b)) =
              [cmx |-> a.cmx, enc_ciphertext |-> a.enc_ciphertext, out_ciphertext |-> x,
               epk |-> a.epk, nf_old |-> a.nf_old, cv_net_x |-> y]
        BY <4>1 DEF NoteRecord
      <4> QED
        BY <4>2, <4>3 DEF x, y, b
    <3>8. IndexedCiphers(call, actions, i) = CiphersOf(actions[l])
      BY <2>2 DEF IndexedCiphers
    <3> QED
      BY <3>2, <3>5, <3>7, <3>8
  <2>3. CASE pool.body # "extended" /\ call \notin BundleCalls
    <3> DEFINE note == NoteRecord(a, <<<< >>, Absent>>)
    <3>1. decode_note_added_log(e.topics, e.data) = Ok(note)
      BY <1>2, <2>3
    <3>2. ~by_cmx.ok
      BY <2>3 DEF Err
    <3>3. IndexedCiphers(call, actions, i) = <<<< >>, Absent>>
      BY <2>3 DEF IndexedCiphers
    <3> HIDE DEF note
    <3>4. Completed(Ok(note), by_cmx) = Ok(note)
      BY <3>2 DEF Completed
    <3> QED
      BY <3>1, <3>3, <3>4 DEF note
  <2> QED
    BY <2>1, <2>2, <2>3
<1> QED
  BY <1>2, <1>3, <1>4 DEF Log, e

LEMMA WordsRead ==
    /\ \A x : /\ Decode(<<Word>>, Encode(<<Word>>, <<x>>)).ok
              /\ Decode(<<Word>>, Encode(<<Word>>, <<x>>)).value[1] = x
    /\ \A x, y : /\ Decode(<<Word, Word>>, Encode(<<Word, Word>>, <<x, y>>)).ok
                 /\ Decode(<<Word, Word>>, Encode(<<Word, Word>>, <<x, y>>)).value[1] = x
                 /\ Decode(<<Word, Word>>, Encode(<<Word, Word>>, <<x, y>>)).value[2] = y
    /\ \A x, y, z :
         /\ Decode(<<Word, Word, Word>>, Encode(<<Word, Word, Word>>, <<x, y, z>>)).ok
         /\ Decode(<<Word, Word, Word>>, Encode(<<Word, Word, Word>>, <<x, y, z>>)).value[1] = x
         /\ Decode(<<Word, Word, Word>>, Encode(<<Word, Word, Word>>, <<x, y, z>>)).value[2] = y
         /\ Decode(<<Word, Word, Word>>, Encode(<<Word, Word, Word>>, <<x, y, z>>)).value[3] = z
<1>1. ASSUME NEW x
      PROVE  /\ Decode(<<Word>>, Encode(<<Word>>, <<x>>)).ok
             /\ Decode(<<Word>>, Encode(<<Word>>, <<x>>)).value[1] = x
  <2> DEFINE ts == <<Word>>
             vs == <<x>>
  <2>1. IsSeq(ts) /\ IsSeq(vs) /\ Len(ts) = 1 /\ Len(vs) = 1
    BY TuplesAreSeqs
  <2>2. ts[1] = Word /\ vs[1] = x
    OBVIOUS
  <2> HIDE DEF ts, vs
  <2>3. /\ IsSeq(ts) /\ IsSeq(vs) /\ Len(ts) = Len(vs) /\ Len(ts) <= 8
        /\ \A i \in 1 .. Len(ts) : ParameterFits(ts[i], vs[i], MaxActions)
    <3>1. \A i \in 1 .. 1 : i = 1
      OBVIOUS
    <3> QED
      BY <2>1, <2>2, <3>1, WordsFit, 1 <= 8
  <2>4. Decode(ts, Encode(ts, vs)).ok /\ Decode(ts, Encode(ts, vs)).value = vs
    BY <2>3, Reading
  <2> QED
    BY <2>2, <2>4 DEF ts, vs
<1>2. ASSUME NEW x, NEW y
      PROVE  /\ Decode(<<Word, Word>>, Encode(<<Word, Word>>, <<x, y>>)).ok
             /\ Decode(<<Word, Word>>, Encode(<<Word, Word>>, <<x, y>>)).value[1] = x
             /\ Decode(<<Word, Word>>, Encode(<<Word, Word>>, <<x, y>>)).value[2] = y
  <2> DEFINE ts == <<Word, Word>>
             vs == <<x, y>>
  <2>1. IsSeq(ts) /\ IsSeq(vs) /\ Len(ts) = 2 /\ Len(vs) = 2
    BY TuplesAreSeqs
  <2>2. ts[1] = Word /\ ts[2] = Word /\ vs[1] = x /\ vs[2] = y
    OBVIOUS
  <2> HIDE DEF ts, vs
  <2>3. /\ IsSeq(ts) /\ IsSeq(vs) /\ Len(ts) = Len(vs) /\ Len(ts) <= 8
        /\ \A i \in 1 .. Len(ts) : ParameterFits(ts[i], vs[i], MaxActions)
    <3>1. \A i \in 1 .. 2 : i = 1 \/ i = 2
      OBVIOUS
    <3> QED
      BY <2>1, <2>2, <3>1, WordsFit, 2 <= 8
  <2>4. Decode(ts, Encode(ts, vs)).ok /\ Decode(ts, Encode(ts, vs)).value = vs
    BY <2>3, Reading
  <2> QED
    BY <2>2, <2>4 DEF ts, vs
<1>3. ASSUME NEW x, NEW y, NEW z
      PROVE  /\ Decode(<<Word, Word, Word>>, Encode(<<Word, Word, Word>>, <<x, y, z>>)).ok
             /\ Decode(<<Word, Word, Word>>, Encode(<<Word, Word, Word>>, <<x, y, z>>)).value[1] = x
             /\ Decode(<<Word, Word, Word>>, Encode(<<Word, Word, Word>>, <<x, y, z>>)).value[2] = y
             /\ Decode(<<Word, Word, Word>>, Encode(<<Word, Word, Word>>, <<x, y, z>>)).value[3] = z
  <2> DEFINE ts == <<Word, Word, Word>>
             vs == <<x, y, z>>
  <2>1. IsSeq(ts) /\ IsSeq(vs) /\ Len(ts) = 3 /\ Len(vs) = 3
    BY TuplesAreSeqs
  <2>2. /\ ts[1] = Word /\ ts[2] = Word /\ ts[3] = Word
        /\ vs[1] = x /\ vs[2] = y /\ vs[3] = z
    OBVIOUS
  <2> HIDE DEF ts, vs
  <2>3. /\ IsSeq(ts) /\ IsSeq(vs) /\ Len(ts) = Len(vs) /\ Len(ts) <= 8
        /\ \A i \in 1 .. Len(ts) : ParameterFits(ts[i], vs[i], MaxActions)
    <3>1. \A i \in 1 .. 3 : i = 1 \/ i = 2 \/ i = 3
      OBVIOUS
    <3> QED
      BY <2>1, <2>2, <3>1, WordsFit, 3 <= 8
  <2>4. Decode(ts, Encode(ts, vs)).ok /\ Decode(ts, Encode(ts, vs)).value = vs
    BY <2>3, Reading
  <2> QED
    BY <2>2, <2>4 DEF ts, vs
<1> QED
  BY <1>1, <1>2, <1>3

\* A log with one indexed argument.
LEMMA LogIs ==
    ASSUME NEW tx, NEW by_cmx, NEW event, NEW arg, NEW data
    PROVE  LET e == Emitted(<<Topic0(event), arg>>, data)
           IN  /\ Log(tx, by_cmx, e) =
                    [tx |-> tx, event |-> event,
                     read |-> ReadLog(<<Topic0(event), arg>>, data, by_cmx)]
               /\ <<Topic0(event), arg>>[1].event = event /\ <<Topic0(event), arg>>[2] = arg
               /\ HasArguments(<<Topic0(event), arg>>, 1)
<1> DEFINE topics == <<Topic0(event), arg>>
           e == Emitted(topics, data)
<1>1. Len(topics) = 2 /\ topics[1] = Topic0(event) /\ topics[2] = arg
  BY TuplesAreSeqs
<1>2. topics[1].event = event
  BY <1>1 DEF Topic0
<1> HIDE DEF topics
<1>3. e.topics = topics /\ e.data = data
  BY DEF Emitted
<1> HIDE DEF e
<1>4. Log(tx, by_cmx, e) = [tx |-> tx, event |-> event, read |-> ReadLog(topics, data, by_cmx)]
  BY <1>2, <1>3 DEF Log
<1>5. HasArguments(topics, 1)
  BY <1>1 DEF HasArguments
<1> QED
  BY <1>1, <1>2, <1>4, <1>5 DEF topics, e

LEMMA ConfirmedLogIs ==
    ASSUME NEW cmx, NEW root, NEW p \in Nat, p < U64
    PROVE  Log(0, Relayed, Emitted(<<Topic0("NoteConfirmed"), cmx>>,
                                   Encode(<<Word, Word>>, <<root, Num(p)>>)))
             = [tx |-> 0, event |-> "NoteConfirmed",
                read |-> Ok([cmx |-> cmx, new_root |-> root, position |-> p])]
<1> DEFINE topics == <<Topic0("NoteConfirmed"), cmx>>
           data == Encode(<<Word, Word>>, <<root, Num(p)>>)
           t == Decode(<<Word, Word>>, data)
<1>1. t.ok /\ t.value[1] = root /\ t.value[2] = Num(p)
  BY WordsRead
<1>2. IsBelow(Num(p), U64) /\ Num(p).n = p
  BY DEF IsBelow, Num
<1>3. /\ Log(0, Relayed, Emitted(topics, data)) =
           [tx |-> 0, event |-> "NoteConfirmed", read |-> ReadLog(topics, data, Relayed)]
      /\ topics[1].event = "NoteConfirmed" /\ topics[2] = cmx /\ HasArguments(topics, 1)
  BY LogIs
<1> HIDE DEF topics, data
<1>4. ReadLog(topics, data, Relayed) = decode_note_confirmed_log(topics, data)
  BY <1>3 DEF ReadLog
<1>5. decode_note_confirmed_log(topics, data) = Ok([cmx |-> cmx, new_root |-> root, position |-> p])
  BY <1>1, <1>2, <1>3 DEF decode_note_confirmed_log
<1> QED
  BY <1>3, <1>4, <1>5 DEF topics, data

LEMMA RootUpdatedLogIs ==
    ASSUME NEW root, NEW x, NEW y, NEW n \in Nat, NEW j \in Nat, n + j < U64, j < U32
    PROVE  Log(0, Relayed, RootUpdated(n, <<root, x, Num(j), y>>))
             = [tx |-> 0, event |-> "RootUpdated",
                read |-> Ok([new_root |-> root, from_count |-> n, to_count |-> n + j,
                             batch_size |-> j])]
<1> DEFINE topics == <<Topic0("RootUpdated"), root>>
           data == Encode(<<Word, Word, Word>>, <<Num(n), Num(n + j), Num(j)>>)
           t == Decode(<<Word, Word, Word>>, data)
           u == <<root, x, Num(j), y>>
<1>1. u[1] = root /\ u[3] = Num(j) /\ Num(j).n = j
  BY DEF Num
<1>2. RootUpdated(n, u) = Emitted(topics, data)
  <2> HIDE DEF u
  <2> QED
    BY <1>1 DEF RootUpdated
<1>3. t.ok /\ t.value[1] = Num(n) /\ t.value[2] = Num(n + j) /\ t.value[3] = Num(j)
  BY WordsRead
<1>4. /\ IsBelow(Num(n), U64) /\ IsBelow(Num(n + j), U64) /\ IsBelow(Num(j), U64)
      /\ Num(n).n = n /\ Num(n + j).n = n + j
  <2>1. U64 \in Nat /\ n < U64 /\ j < U64
    BY BundleAssumption
  <2> QED
    BY <2>1 DEF IsBelow, Num
<1>5. j % U32 = j
  BY AbiAssumption
<1>6. /\ Log(0, Relayed, Emitted(topics, data)) =
           [tx |-> 0, event |-> "RootUpdated", read |-> ReadLog(topics, data, Relayed)]
      /\ topics[1].event = "RootUpdated" /\ topics[2] = root /\ HasArguments(topics, 1)
  BY LogIs
<1> HIDE DEF topics, data, t
<1>7. ReadLog(topics, data, Relayed) = decode_root_updated_log(topics, data)
  BY <1>6 DEF ReadLog
<1>8. \A i \in 1 .. 3 : IsBelow(t.value[i], U64)
  <2>1. \A i \in 1 .. 3 : i = 1 \/ i = 2 \/ i = 3
    OBVIOUS
  <2> QED
    BY <1>3, <1>4, <2>1
<1>9. decode_root_updated_log(topics, data) =
        Ok([new_root |-> root, from_count |-> n, to_count |-> n + j, batch_size |-> j])
  <2>1. decode_root_updated_log(topics, data) =
          Ok([new_root |-> topics[2], from_count |-> t.value[1].n, to_count |-> t.value[2].n,
              batch_size |-> t.value[3].n % U32])
    BY <1>3, <1>6, <1>8 DEF decode_root_updated_log, t
  <2> QED
    BY <1>1, <1>3, <1>4, <1>5, <1>6, <2>1
<1> QED
  BY <1>2, <1>6, <1>7, <1>9 DEF topics, data, u


LEMMA MovedLogIs ==
    ASSUME NEW event \in {"Shielded", "Unshielded"}, NEW account \in Accounts,
           NEW amount \in {0} \cup Amounts, NEW tx, NEW by_cmx
    PROVE  Log(tx, by_cmx, Emitted(<<Topic0(event), account>>,
                                   Encode(<<Word, Word>>, <<Num(amount), Num(Scale * amount)>>)))
             = [tx |-> tx, event |-> event,
                read |-> Ok([actor |-> account, amount_units |-> amount,
                             wei_amount |-> Scale * amount])]
<1> DEFINE wei == Scale * amount
           topics == <<Topic0(event), account>>
           data == Encode(<<Word, Word>>, <<Num(amount), Num(wei)>>)
           t == Decode(<<Word, Word>>, data)
<1>1. /\ IsBelow(Num(amount), U128) /\ Num(amount).n = amount
      /\ IsBelow(Num(wei), U128) /\ Num(wei).n = wei
  BY AmountsAre
<1> HIDE DEF wei
<1>2. t.ok /\ t.value[1] = Num(amount) /\ t.value[2] = Num(wei)
  BY WordsRead
<1>3. topic_to_address(account) = account
  BY WordsFit DEF topic_to_address, Accounts
<1>4. /\ Log(tx, by_cmx, Emitted(topics, data)) =
           [tx |-> tx, event |-> event, read |-> ReadLog(topics, data, by_cmx)]
      /\ topics[1].event = event /\ topics[2] = account /\ HasArguments(topics, 1)
  BY LogIs
<1> HIDE DEF topics, data, t
<1>5. ReadLog(topics, data, by_cmx) = decode_shielded_like(topics, data)
  BY <1>4 DEF ReadLog
<1>6. \A i \in 1 .. 2 : IsBelow(t.value[i], U128)
  <2>1. \A i \in 1 .. 2 : i = 1 \/ i = 2
    OBVIOUS
  <2> QED
    BY <1>1, <1>2, <2>1
<1>7. decode_shielded_like(topics, data) =
        Ok([actor |-> account, amount_units |-> amount, wei_amount |-> wei])
  <2>1. decode_shielded_like(topics, data) =
          Ok([actor |-> topic_to_address(topics[2]), amount_units |-> t.value[1].n,
              wei_amount |-> t.value[2].n])
    BY <1>2, <1>4, <1>6 DEF decode_shielded_like, t
  <2> QED
    BY <1>1, <1>2, <1>3, <1>4, <2>1
<1> QED
  BY <1>4, <1>5, <1>7 DEF topics, data, wei

LEMMA DepositLogIs ==
    ASSUME NEW cmx, NEW amount \in {0} \cup Amounts, NEW tx, NEW by_cmx
    PROVE  Log(tx, by_cmx, Emitted(<<Topic0("ShieldCompleted"), cmx>>,
                                   Encode(<<Word>>, <<Num(amount)>>)))
             = [tx |-> tx, event |-> "ShieldCompleted",
                read |-> Ok([cmx |-> cmx, amount |-> amount])]
<1> DEFINE topics == <<Topic0("ShieldCompleted"), cmx>>
           data == Encode(<<Word>>, <<Num(amount)>>)
           t == Decode(<<Word>>, data)
<1>1. IsBelow(Num(amount), U128) /\ Num(amount).n = amount
  BY AmountsAre
<1>2. t.ok /\ t.value[1] = Num(amount)
  BY WordsRead
<1>3. /\ Log(tx, by_cmx, Emitted(topics, data)) =
           [tx |-> tx, event |-> "ShieldCompleted", read |-> ReadLog(topics, data, by_cmx)]
      /\ topics[1].event = "ShieldCompleted" /\ topics[2] = cmx /\ HasArguments(topics, 1)
  BY LogIs
<1> HIDE DEF topics, data
<1>4. ReadLog(topics, data, by_cmx) = decode_shield_completed_log(topics, data)
  BY <1>3 DEF ReadLog
<1>5. decode_shield_completed_log(topics, data) = Ok([cmx |-> cmx, amount |-> amount])
  BY <1>1, <1>2, <1>3 DEF decode_shield_completed_log
<1> QED
  BY <1>3, <1>4, <1>5 DEF topics, data

\* The log of a deployment gives the scale.
LEMMA CreationLogIs ==
    /\ Log(0, Relayed, Creation).tx = 0
    /\ Log(0, Relayed, Creation).event = "ShieldPoolCreated"
    /\ Log(0, Relayed, Creation).read.ok
    /\ Log(0, Relayed, Creation).read.value.scale = Scale
<1> DEFINE ts == <<Word, Bytes, Bytes, Word>>
           name == <<[text |-> "name"]>>
           symbol == <<[text |-> "symbol"]>>
           vs == <<Num(Scale), name, symbol, Num(8)>>
           topics == <<Topic0("ShieldPoolCreated"), Contract, Underlying>>
           data == Encode(ts, vs)
           t == Decode(ts, data)
<1>1. IsBelow(Num(Scale), U128) /\ Num(Scale).n = Scale
  BY AmountsAre
<1>2. IsBelow(Num(8), 256)
  BY 8 < 256 DEF IsBelow, Num
<1>3. IsSeq(name) /\ Len(name) = 1 /\ IsSeq(symbol) /\ Len(symbol) = 1
  BY TuplesAreSeqs
<1>4. 1 < FieldWords
  BY WordsAreNat
<1> HIDE DEF name, symbol
<1>5. /\ IsSeq(ts) /\ Len(ts) = 4 /\ IsSeq(vs) /\ Len(vs) = 4
      /\ ts[1] = Word /\ ts[2] = Bytes /\ ts[3] = Bytes /\ ts[4] = Word
      /\ vs[1] = Num(Scale) /\ vs[2] = name /\ vs[3] = symbol /\ vs[4] = Num(8)
  BY TuplesAreSeqs
<1> HIDE DEF vs
<1>6. t.ok /\ t.value = vs
  <2> HIDE DEF ts
  <2>1. \A i \in 1 .. 4 : i = 1 \/ i = 2 \/ i = 3 \/ i = 4
    OBVIOUS
  <2>2. \A i \in 1 .. 4 : ParameterFits(ts[i], vs[i], MaxActions)
    BY <1>3, <1>4, <1>5, <2>1, WordsFit
  <2>3. /\ IsSeq(ts) /\ IsSeq(vs) /\ Len(ts) = Len(vs) /\ Len(ts) <= 8
        /\ \A i \in 1 .. Len(ts) : ParameterFits(ts[i], vs[i], MaxActions)
    BY <1>5, <2>2, 4 <= 8
  <2> QED
    BY <2>3, Reading
<1>7. Len(topics) = 3 /\ topics[1].event = "ShieldPoolCreated"
  BY TuplesAreSeqs DEF Topic0
<1>8. HasArguments(topics, 2)
  <2> HIDE DEF topics
  <2> QED
    BY <1>7 DEF HasArguments
<1>9. Creation = Emitted(topics, data)
  BY DEF Creation, name, symbol, vs
<1> HIDE DEF topics, data, t
<1>10. Log(0, Relayed, Creation) = [tx |-> 0, event |-> "ShieldPoolCreated",
                                    read |-> ReadLog(topics, data, Relayed)]
  BY <1>7, <1>9 DEF Log, Emitted
<1>11. ReadLog(topics, data, Relayed) = decode_shield_pool_created_log(topics, data)
  BY <1>7 DEF ReadLog
<1>12. /\ decode_shield_pool_created_log(topics, data).ok
       /\ decode_shield_pool_created_log(topics, data).value.scale = Scale
  BY <1>1, <1>2, <1>5, <1>6, <1>8 DEF decode_shield_pool_created_log, t, Ok
<1> QED
  BY <1>10, <1>11, <1>12

-----------------------------------------------------------------------------
(* Updates of the root *)

UpdateToken(n, j) ==
    <<RootOf(n + j), [frontier |-> n + j], Num(j), <<[confirms |-> RootOf(n + j), from |-> n]>>>>

LEMMA UpdateTokenIs ==
    ASSUME NEW n, NEW j
    PROVE  /\ root_update_token(Update(n, j)) = UpdateToken(n, j)
           /\ UpdateToken(n, j)[1] = RootOf(n + j) /\ UpdateToken(n, j)[2] = [frontier |-> n + j]
           /\ UpdateToken(n, j)[3] = Num(j)
           /\ UpdateToken(n, j)[4] = <<[confirms |-> RootOf(n + j), from |-> n]>>
           /\ IsSeq(UpdateToken(n, j)) /\ Len(UpdateToken(n, j)) = 4
           /\ IsSeq(UpdateToken(n, j)[4]) /\ Len(UpdateToken(n, j)[4]) = 1
<1> DEFINE root == RootOf(n + j)
           commit == [frontier |-> n + j]
           proof == <<[confirms |-> RootOf(n + j), from |-> n]>>
           u == Update(n, j)
           t == <<root, commit, Num(j), proof>>
<1>1. UpdateToken(n, j) = t
  BY DEF UpdateToken
<1>2. u = [new_root |-> root, new_frontier_commit |-> commit, j |-> j, proof |-> proof]
  BY DEF Update
<1>3. IsSeq(proof) /\ Len(proof) = 1
  BY TuplesAreSeqs
<1> HIDE DEF root, commit, proof, u
<1>4. root_update_token(u) = t
  BY <1>2 DEF root_update_token
<1>5. t[1] = root /\ t[2] = commit /\ t[3] = Num(j) /\ t[4] = proof /\ IsSeq(t) /\ Len(t) = 4
  BY TuplesAreSeqs
<1> HIDE DEF t
<1> QED
  BY <1>1, <1>3, <1>4, <1>5 DEF root, commit, proof, u

LEMMA OneUpdateRead ==
    ASSUME NEW n, NEW j
    PROVE  ReadUpdates(encode_update_root_calldata(Update(n, j))) = <<UpdateToken(n, j)>>
<1> DEFINE ts == <<Word, Word, Word, Bytes>>
           vs == UpdateToken(n, j)
           cd == encode_update_root_calldata(Update(n, j))
<1>1. IsSeq(ts) /\ Len(ts) = 4 /\ ts[1] = Word /\ ts[2] = Word /\ ts[3] = Word /\ ts[4] = Bytes
  BY TuplesAreSeqs
<1>2. root_update_params = ts /\ Signature("updateRoot") = ts
  BY DEF root_update_params, Signature
<1>3. root_update_token(Update(n, j)) = vs
  BY UpdateTokenIs
<1>4. IsSeq(vs) /\ Len(vs) = 4 /\ IsSeq(vs[4]) /\ Len(vs[4]) = 1
  BY UpdateTokenIs
<1> HIDE DEF ts, vs
<1>5. cd.sel = "updateRoot" /\ cd.body = Encode(ts, vs)
  BY <1>2, <1>3 DEF encode_update_root_calldata, Calldata
<1>6. \A i \in 1 .. 4 : ParameterFits(ts[i], vs[i], MaxActions)
  <2>1. \A i \in 1 .. 4 : i = 1 \/ i = 2 \/ i = 3 \/ i = 4
    OBVIOUS
  <2>2. 1 < FieldWords
    BY WordsAreNat
  <2> QED
    BY <1>1, <1>4, <2>1, <2>2, WordsFit
<1>7. /\ IsSeq(ts) /\ IsSeq(vs) /\ Len(ts) = Len(vs) /\ Len(ts) <= 8
      /\ \A i \in 1 .. Len(ts) : ParameterFits(ts[i], vs[i], MaxActions)
  BY <1>1, <1>4, <1>6, 4 <= 8
<1>8. Decode(ts, Encode(ts, vs)).value = vs
  BY <1>7, Reading
<1> HIDE DEF cd
<1>9. ReadUpdates(cd) = <<vs>>
  BY <1>2, <1>5, <1>8 DEF ReadUpdates
<1> QED
  BY <1>9 DEF cd, vs

\* The elements of an array of updates.
LEMMA UpdatesRead ==
    ASSUME NEW updates, IsSeq(updates), Len(updates) \in 1 .. 2,
           \A i \in 1 .. Len(updates) : \E n, j : updates[i] = Update(n, j)
    PROVE  ReadUpdates(encode_update_roots_calldata(updates)) =
             [i \in DOMAIN updates |-> root_update_token(updates[i])]
<1> DEFINE t == ArrayOf(StructOf(root_update_params))
           v == [i \in DOMAIN updates |-> root_update_token(updates[i])]
           ts == <<t>>
           vs == <<v>>
           cd == encode_update_roots_calldata(updates)
<1>1. Len(updates) \in Nat /\ DOMAIN updates = 1 .. Len(updates)
  BY SeqFacts
<1>2. IsSeq(v) /\ Len(v) = Len(updates) /\ \A i \in 1 .. Len(v) : v[i] = root_update_token(updates[i])
  <2>1. v = [i \in 1 .. Len(updates) |-> v[i]]
    BY <1>1
  <2>2. \A i \in 1 .. Len(updates) : v[i] = root_update_token(updates[i])
    BY <1>1
  <2> HIDE DEF v
  <2> QED
    BY <1>1, <2>1, <2>2, FunctionIsSeq
<1> HIDE DEF v
<1>3. \A i \in 1 .. Len(v) : \E root, commit, k, proof :
        IsSeq(proof) /\ Len(proof) <= 1 /\ v[i] = <<root, commit, k, proof>>
  <2> TAKE i \in 1 .. Len(v)
  <2>1. PICK n, j : updates[i] = Update(n, j)
    BY <1>2
  <2>2. v[i] = UpdateToken(n, j)
    BY <1>2, <2>1, UpdateTokenIs
  <2> DEFINE root == RootOf(n + j)
             commit == [frontier |-> n + j]
             proof == <<[confirms |-> RootOf(n + j), from |-> n]>>
  <2>3. v[i] = <<root, commit, Num(j), proof>>
    BY <2>2 DEF UpdateToken
  <2>4. IsSeq(proof) /\ Len(proof) <= 1
    BY TuplesAreSeqs
  <2> HIDE DEF root, commit, proof
  <2> QED
    BY <2>3, <2>4
<1>4. UpdateTokens(v)
  BY <1>2, <1>3 DEF UpdateTokens
<1>5. MaxActions > 0
  BY IndexingAssumption
<1>6. ParameterFits(t, v, MaxActions)
  BY <1>4, <1>5 DEF ParameterFits
<1>7. Signature("updateRoots") = ts
  BY DEF Signature, root_update_params
<1>8. cd.sel = "updateRoots" /\ cd.body = Encode(ts, vs)
  BY <1>1 DEF MaxUpdates, encode_update_roots_calldata, Calldata, v
<1>9. IsSeq(ts) /\ Len(ts) = 1 /\ IsSeq(vs) /\ Len(vs) = 1 /\ ts[1] = t /\ vs[1] = v
  BY TuplesAreSeqs
<1> HIDE DEF ts, vs, cd, t
<1>10. /\ IsSeq(ts) /\ IsSeq(vs) /\ Len(ts) = Len(vs) /\ Len(ts) <= 8
       /\ \A i \in 1 .. Len(ts) : ParameterFits(ts[i], vs[i], MaxActions)
  <2>1. \A i \in 1 .. 1 : i = 1
    OBVIOUS
  <2> QED
    BY <1>6, <1>9, <2>1, 1 <= 8
<1>11. Decode(ts, Encode(ts, vs)).value = vs
  BY <1>10, Reading
<1>12. ReadUpdates(cd) = v
  BY <1>7, <1>8, <1>9, <1>11 DEF ReadUpdates
<1> QED
  BY <1>12 DEF cd, v

\* A pool accepts the update that is of its own leaves.
LEMMA UpdateAccepted ==
    ASSUME NEW n \in Nat, NEW j \in Nat, Len(queue) \in Nat, n + j <= Len(queue)
    PROVE  AcceptsUpdate(n, UpdateToken(n, j))
<1> DEFINE u == UpdateToken(n, j)
           left == Len(queue) - n + 1
<1>1. /\ u[1] = RootOf(n + j) /\ u[2] = [frontier |-> n + j] /\ u[3] = Num(j)
      /\ u[4] = <<[confirms |-> RootOf(n + j), from |-> n]>>
  BY UpdateTokenIs
<1>2. Num(j).n = j /\ "n" \in DOMAIN Num(j) /\ j < left
  BY DEF Num
<1> HIDE DEF u, left
<1>3. IsBelow(u[3], left)
  BY <1>1, <1>2 DEF IsBelow
<1>4. u[3].n = j
  BY <1>1, <1>2
<1>5. u[4] = <<[confirms |-> u[1], from |-> n]>>
  BY <1>1
<1>6. u[1] = RootOf(n + u[3].n) /\ u[2] = [frontier |-> n + u[3].n]
  BY <1>1, <1>4
<1>7. AcceptsUpdate(n, u)
  BY <1>3, <1>5, <1>6 DEF AcceptsUpdate, left
<1> QED
  BY <1>7 DEF u

-----------------------------------------------------------------------------
(* What the logs have told so far: a view of the pool after every log.     *)

\* The root of the first n leaves, and where the ciphertexts of note i come from.
Leaves(q, n) == Root([i \in 1 .. n |-> q[i].action.cmx])

Twin(q, i, j) == q[i].tx = q[j].tx /\ q[i].action.cmx = q[j].action.cmx

Sources(p, t, q, i) ==
    IF p.body = "extended" THEN {i}
    ELSE IF t[q[i].tx] \notin BundleCalls THEN {}
    ELSE {j \in DOMAIN q : Twin(q, i, j) /\ \A l \in DOMAIN q : Twin(q, i, l) => l <= j}

\* The ciphertexts w an indexer has for note i are those of such a source.
Sourced(p, t, q, i, w) ==
    IF Sources(p, t, q, i) = {} THEN w = <<<< >>, Absent>>
    ELSE \E j \in Sources(p, t, q, i) : w = CiphersOf(q[j].action)

\* How many notes were added and confirmed, what every account has paid in, the
\* shields whose amount has not been told yet, and the scale.
View(notes, seen, units, owed, scale) ==
    [notes |-> notes, confirmed |-> seen, units |-> units, owed |-> owed, scale |-> scale]

IsView(q, h) ==
    /\ h = View(h.notes, h.confirmed, h.units, h.owed, h.scale)
    /\ h.notes \in 0 .. Len(q) /\ h.confirmed \in 0 .. h.notes
    /\ h.units \in [Accounts -> Int]

\* A log l takes view h to view k.
TellsNote(p, q, w, h, l, k) ==
    LET i == h.notes + 1
    IN  /\ i <= Len(q)
        /\ l = [tx |-> q[i].tx, event |-> p.topic, read |-> Ok(NoteRecord(q[i].action, w[i]))]
        /\ k = View(i, h.confirmed, h.units,
                    IF q[i].shielded = Absent THEN h.owed ELSE h.owed \cup {i}, h.scale)

TellsConfirmed(q, h, l, k) ==
    LET i == h.confirmed + 1
    IN  /\ i <= h.notes
        /\ l = [tx |-> 0, event |-> "NoteConfirmed",
                read |-> Ok([cmx |-> q[i].action.cmx, new_root |-> Leaves(q, i), position |-> h.confirmed])]
        /\ k = View(h.notes, i, h.units, h.owed, h.scale)

TellsUpdate(q, h, l, k) ==
    \E j \in Nat \ {0} :
        LET to == h.confirmed + j
        IN  /\ to <= h.notes
            /\ l = [tx |-> 0, event |-> "RootUpdated",
                    read |-> Ok([new_root |-> Leaves(q, to), from_count |-> h.confirmed,
                                 to_count |-> to, batch_size |-> j])]
            /\ k = View(h.notes, to, h.units, h.owed, h.scale)

TellsDeposit(q, h, l, k) ==
    \E i \in 1 .. h.notes, amount \in Nat :
        /\ q[i].shielded = <<amount>> /\ \A j \in 1 .. i - 1 : q[j].tx # q[i].tx
        /\ l = [tx |-> q[i].tx, event |-> "ShieldCompleted",
                read |-> Ok([cmx |-> q[i].action.cmx, amount |-> amount])]
        /\ k = View(h.notes, h.confirmed, h.units, h.owed \ {i}, h.scale)

TellsMoved(event, sign, h, l, k) ==
    \E account \in Accounts, amount \in Nat :
        /\ l.event = event
        /\ l.read = Ok([actor |-> account, amount_units |-> amount, wei_amount |-> Scale * amount])
        /\ k = View(h.notes, h.confirmed, [h.units EXCEPT ![account] = @ + sign * amount],
                    h.owed, h.scale)

TellsScale(h, l, k) ==
    /\ l.event = "ShieldPoolCreated" /\ l.read.ok /\ l.read.value.scale = Scale
    /\ k = View(h.notes, h.confirmed, h.units, h.owed, Scale)

Tells(p, q, w, h, l, k) ==
    \/ TellsNote(p, q, w, h, l, k) \/ TellsConfirmed(q, h, l, k) \/ TellsUpdate(q, h, l, k)
    \/ TellsDeposit(q, h, l, k) \/ TellsMoved("Shielded", 1, h, l, k)
    \/ TellsMoved("Unshielded", -1, h, l, k) \/ TellsScale(h, l, k)

\* The indexer that has read c logs and has this view.
NoteAt(q, w, h, i) ==
    [cmx |-> q[i].action.cmx, enc_ciphertext |-> q[i].action.enc_ciphertext,
     epk |-> q[i].action.epk, nf_old |-> q[i].action.nf_old,
     out_ciphertext |-> w[i][1], cv_net_x |-> w[i][2], tx |-> q[i].tx, cmx_position |-> i - 1,
     shield_amount |-> IF i \in h.owed THEN Absent ELSE q[i].shielded,
     is_confirmed |-> IF i <= h.confirmed THEN TRUE ELSE FALSE]

NotesAt(q, w, h) == [i \in 1 .. h.notes |-> NoteAt(q, w, h, i)]
RootAt(q, h) == IF h.confirmed = 0 THEN Absent ELSE <<Leaves(q, h.confirmed)>>
AccountsAt(h) == [a \in Accounts |-> [units |-> h.units[a], wei |-> Scale * h.units[a]]]

IndexAt(q, w, c, h) ==
    [cursor |-> c, notes |-> NotesAt(q, w, h), watermark |-> h.confirmed,
     latest_root |-> RootAt(q, h), accounts |-> AccountsAt(h), scale |-> h.scale]

\* The action of the indexer is the one for the event.
LEMMA WhoReads ==
    ASSUME IndexNext
    PROVE  LET event == Unread[1].event
           IN  /\ event \in {"NoteAdded", "NoteAdded.legacy"} => IndexNoteAdded
               /\ event = "NoteConfirmed" => IndexNoteConfirmed
               /\ event = "RootUpdated" => IndexRootUpdated
               /\ event = "ShieldCompleted" => IndexShieldCompleted
               /\ event = "Shielded" => IndexShielded
               /\ event = "Unshielded" => IndexUnshielded
               /\ event = "ShieldPoolCreated" => IndexPoolCreated
<1> DEFINE event == Unread[1].event
<1>1. IndexNoteAdded => event \in {"NoteAdded", "NoteAdded.legacy"}
  BY DEF IndexNoteAdded, Reads
<1>2. IndexNoteConfirmed => event = "NoteConfirmed"
  BY DEF IndexNoteConfirmed, Reads
<1>3. IndexRootUpdated => event = "RootUpdated"
  BY DEF IndexRootUpdated, Reads
<1>4. IndexShieldCompleted => event = "ShieldCompleted"
  BY DEF IndexShieldCompleted, Reads
<1>5. IndexShielded => event = "Shielded"
  BY DEF IndexShielded, IndexCustody, Reads
<1>6. IndexUnshielded => event = "Unshielded"
  BY DEF IndexUnshielded, IndexCustody, Reads
<1>7. IndexPoolCreated => event = "ShieldPoolCreated"
  BY DEF IndexPoolCreated, Reads
<1> HIDE DEF event
<1>8. \/ IndexNoteAdded \/ IndexNoteConfirmed \/ IndexRootUpdated \/ IndexShieldCompleted
      \/ IndexShielded \/ IndexUnshielded \/ IndexPoolCreated
  BY DEF IndexNext
<1> QED
  BY <1>1, <1>2, <1>3, <1>4, <1>5, <1>6, <1>7, <1>8 DEF event

\* Apart from its notes, what an indexer has is set field by field.
LEMMA IndexAtFields ==
    ASSUME NEW q, NEW w, NEW c, NEW h
    PROVE  /\ IndexAt(q, w, c, h).cursor = c /\ IndexAt(q, w, c, h).notes = NotesAt(q, w, h)
           /\ IndexAt(q, w, c, h).watermark = h.confirmed
           /\ IndexAt(q, w, c, h).latest_root = RootAt(q, h)
           /\ IndexAt(q, w, c, h).accounts = AccountsAt(h)
           /\ IndexAt(q, w, c, h).scale = h.scale
BY DEF IndexAt

LEMMA NotesAtIs ==
    ASSUME NEW q, NEW w, NEW h, h.notes \in Nat
    PROVE  /\ IsSeq(NotesAt(q, w, h)) /\ Len(NotesAt(q, w, h)) = h.notes
           /\ DOMAIN NotesAt(q, w, h) = 1 .. h.notes
           /\ \A i \in 1 .. h.notes : NotesAt(q, w, h)[i] = NoteAt(q, w, h, i)
<1> DEFINE f == NotesAt(q, w, h)
<1>1. f = [i \in 1 .. h.notes |-> f[i]] /\ \A i \in 1 .. h.notes : f[i] = NoteAt(q, w, h, i)
  BY DEF NotesAt
<1> HIDE DEF f
<1> QED
  BY <1>1, FunctionIsSeq DEF f

\* What an index is made of, set field by field.
IndexRecord(c, notes, watermark, root, accounts, scale) ==
    [cursor |-> c, notes |-> notes, watermark |-> watermark, latest_root |-> root,
     accounts |-> accounts, scale |-> scale]

LEMMA IndexRecords ==
    ASSUME NEW c, NEW n, NEW m, NEW x, NEW a, NEW s, NEW r, r = IndexRecord(c, n, m, x, a, s)
    PROVE  /\ r.cursor = c /\ r.notes = n /\ r.watermark = m /\ r.latest_root = x
           /\ r.accounts = a /\ r.scale = s
           /\ \A y : [r EXCEPT !.cursor = y] = IndexRecord(y, n, m, x, a, s)
           /\ \A y : [r EXCEPT !.notes = y] = IndexRecord(c, y, m, x, a, s)
           /\ \A y : [r EXCEPT !.watermark = y] = IndexRecord(c, n, y, x, a, s)
           /\ \A y : [r EXCEPT !.latest_root = y] = IndexRecord(c, n, m, y, a, s)
           /\ \A y : [r EXCEPT !.accounts = y] = IndexRecord(c, n, m, x, y, s)
           /\ \A y : [r EXCEPT !.scale = y] = IndexRecord(c, n, m, x, a, y)
BY DEF IndexRecord

LEMMA IndexAtIs ==
    ASSUME NEW q, NEW w, NEW c, NEW h
    PROVE  IndexAt(q, w, c, h) =
             IndexRecord(c, NotesAt(q, w, h), h.confirmed, RootAt(q, h), AccountsAt(h), h.scale)
BY DEF IndexAt, IndexRecord

LEMMA ViewIs ==
    ASSUME NEW n, NEW m, NEW u, NEW o, NEW s
    PROVE  /\ View(n, m, u, o, s).notes = n /\ View(n, m, u, o, s).confirmed = m
           /\ View(n, m, u, o, s).units = u /\ View(n, m, u, o, s).owed = o
           /\ View(n, m, u, o, s).scale = s
BY DEF View

LEMMA NoteIndexed ==
    ASSUME NEW w, NEW h, NEW l, NEW k, NEW c \in Nat, IsView(queue, h), Len(queue) \in Nat,
           index = IndexAt(queue, w, c, h), Unread[1] = l, TellsNote(pool, queue, w, h, l, k),
           pool \in Generations, IndexNext
    PROVE  index' = IndexAt(queue, w, c + 1, k)
<1> DEFINE i == h.notes + 1
           a == queue[i].action
           old == NotesAt(queue, w, h)
           new == NoteAt(queue, w, k, i)
<1>1. /\ i <= Len(queue) /\ h.notes \in Nat /\ h.confirmed \in Nat /\ h.confirmed <= h.notes
      /\ i \in Nat
  BY DEF IsView, TellsNote
<1>2. /\ l.tx = queue[i].tx /\ l.event = pool.topic /\ l.read = Ok(NoteRecord(a, w[i]))
      /\ k.notes = i /\ k.confirmed = h.confirmed /\ k.units = h.units /\ k.scale = h.scale
      /\ k.owed = IF queue[i].shielded = Absent THEN h.owed ELSE h.owed \cup {i}
  BY ViewIs DEF TellsNote
<1>3. IndexNoteAdded
  BY <1>2, GenerationsAre, WhoReads
<1>4. /\ index.cursor = c /\ index.notes = old
      /\ index = IndexRecord(c, old, h.confirmed, RootAt(queue, h), AccountsAt(h), h.scale)
  BY IndexAtIs, IndexRecords
<1>5. IsSeq(old) /\ Len(old) = h.notes /\ \A j \in 1 .. h.notes : old[j] = NoteAt(queue, w, h, j)
  BY <1>1, NotesAtIs
<1>6. /\ Item.cmx = a.cmx /\ Item.enc_ciphertext = a.enc_ciphertext /\ Item.epk = a.epk
      /\ Item.nf_old = a.nf_old /\ Item.out_ciphertext = w[i][1] /\ Item.cv_net_x = w[i][2]
  <2>1. Item = NoteRecord(a, w[i])
    BY <1>2 DEF Item, Ok
  <2> QED
    BY <2>1 DEF NoteRecord
<1>7. IndexedNote = new
  <2>1. (IF i \in k.owed THEN Absent ELSE queue[i].shielded) = Absent
    BY <1>2
  <2>2. (IF i <= k.confirmed THEN TRUE ELSE FALSE) = FALSE
    BY <1>1, <1>2
  <2>3. Len(index.notes) = i - 1
    BY <1>1, <1>4, <1>5
  <2>4. Unread[1].tx = queue[i].tx
    BY <1>2
  <2>5. new = [cmx |-> a.cmx, enc_ciphertext |-> a.enc_ciphertext, epk |-> a.epk, nf_old |-> a.nf_old,
               out_ciphertext |-> w[i][1], cv_net_x |-> w[i][2], tx |-> queue[i].tx,
               cmx_position |-> i - 1, shield_amount |-> Absent, is_confirmed |-> FALSE]
    BY <2>1, <2>2 DEF NoteAt
  <2> HIDE DEF new, a, i
  <2> QED
    BY <1>6, <2>3, <2>4, <2>5 DEF IndexedNote
<1>8. \A j \in 1 .. h.notes : NoteAt(queue, w, h, j) = NoteAt(queue, w, k, j)
  <2> TAKE j \in 1 .. h.notes
  <2>1. j # i
    BY <1>1
  <2>2. j \in h.owed <=> j \in k.owed
    BY <1>2, <2>1
  <2> QED
    BY <1>2, <2>2 DEF NoteAt
<1>9. Append(old, IndexedNote) = NotesAt(queue, w, k)
  <2> DEFINE s == Append(old, IndexedNote)
             t == NotesAt(queue, w, k)
  <2>1. k.notes \in Nat
    BY <1>1, <1>2
  <2>2. IsSeq(t) /\ Len(t) = i /\ \A j \in 1 .. i : t[j] = NoteAt(queue, w, k, j)
    BY <1>2, <2>1, NotesAtIs
  <2> HIDE DEF old, new, i, t
  <2>3. IsSeq(s) /\ Len(s) = Len(old) + 1 /\ s[Len(old) + 1] = IndexedNote
        /\ \A j \in 1 .. Len(old) : s[j] = old[j]
    BY <1>5, AppendIsSeq
  <2>4. Len(s) = i /\ s[i] = new
    BY <1>5, <1>7, <2>3 DEF i
  <2> HIDE DEF s
  <2>5. \A j \in 1 .. Len(s) : s[j] = t[j]
    <3> TAKE j \in 1 .. Len(s)
    <3>1. CASE j = i
      BY <1>1, <2>2, <2>4, <3>1 DEF new
    <3>2. CASE j # i
      <4>1. j \in 1 .. h.notes
        BY <1>1, <2>4, <3>2 DEF i
      <4> QED
        BY <1>1, <1>5, <1>8, <2>2, <2>3, <2>4, <4>1
    <3> QED
      BY <3>1, <3>2
  <2>6. s = t
    BY <2>2, <2>3, <2>4, <2>5, SeqEquality
  <2> QED
    BY <2>6 DEF s, t
<1>10. index' = IndexRecord(c + 1, NotesAt(queue, w, k), h.confirmed, RootAt(queue, h), AccountsAt(h), h.scale)
  <2> DEFINE r == [index EXCEPT !.notes = Append(index.notes, IndexedNote)]
  <2>1. index' = [r EXCEPT !.cursor = r.cursor + 1]
    BY <1>3 DEF IndexNoteAdded, Becomes
  <2>2. r = IndexRecord(c, NotesAt(queue, w, k), h.confirmed, RootAt(queue, h), AccountsAt(h), h.scale)
    BY <1>4, <1>9, IndexRecords
  <2> HIDE DEF r
  <2> QED
    BY <2>1, <2>2, IndexRecords
<1>11. RootAt(queue, h) = RootAt(queue, k) /\ AccountsAt(h) = AccountsAt(k)
  BY <1>2 DEF RootAt, AccountsAt
<1> QED
  BY <1>2, <1>10, <1>11, IndexAtIs

LEMMA ConfirmingIs ==
    ASSUME NEW q, NEW w, NEW h, NEW k, h.notes \in Nat, h.confirmed \in Nat, k.notes = h.notes,
           k.owed = h.owed, k.confirmed \in Nat, h.confirmed <= k.confirmed
    PROVE  Confirming(NotesAt(q, w, h), h.confirmed, k.confirmed) = NotesAt(q, w, k)
<1> DEFINE old == NotesAt(q, w, h)
           new == NotesAt(q, w, k)
           from == h.confirmed
           to == k.confirmed
<1>1. DOMAIN old = 1 .. h.notes /\ \A i \in 1 .. h.notes : old[i] = NoteAt(q, w, h, i)
  BY NotesAtIs
<1>2. new = [i \in 1 .. h.notes |-> NoteAt(q, w, k, i)]
  BY DEF NotesAt
<1>3. ASSUME NEW i \in 1 .. h.notes
      PROVE  (IF i \in from + 1 .. to THEN [old[i] EXCEPT !.is_confirmed = TRUE] ELSE old[i])
               = NoteAt(q, w, k, i)
  <2> DEFINE N(b) == [cmx |-> q[i].action.cmx, enc_ciphertext |-> q[i].action.enc_ciphertext,
                      epk |-> q[i].action.epk, nf_old |-> q[i].action.nf_old,
                      out_ciphertext |-> w[i][1], cv_net_x |-> w[i][2], tx |-> q[i].tx,
                      cmx_position |-> i - 1,
                      shield_amount |-> IF i \in h.owed THEN Absent ELSE q[i].shielded,
                      is_confirmed |-> b]
  <2>1. NoteAt(q, w, h, i) = N(IF i <= from THEN TRUE ELSE FALSE)
    BY DEF NoteAt
  <2>2. NoteAt(q, w, k, i) = N(IF i <= to THEN TRUE ELSE FALSE)
    BY DEF NoteAt
  <2>3. \A b : [N(b) EXCEPT !.is_confirmed = TRUE] = N(TRUE)
    <3> TAKE b
    <3> DEFINE shield == IF i \in h.owed THEN Absent ELSE q[i].shielded
               n == N(b)
               yes == TRUE
    <3>1. n = [cmx |-> q[i].action.cmx, enc_ciphertext |-> q[i].action.enc_ciphertext,
               epk |-> q[i].action.epk, nf_old |-> q[i].action.nf_old,
               out_ciphertext |-> w[i][1], cv_net_x |-> w[i][2], tx |-> q[i].tx,
               cmx_position |-> i - 1, shield_amount |-> shield, is_confirmed |-> b]
      OBVIOUS
    <3> HIDE DEF n, shield, yes
    <3>2. [n EXCEPT !.is_confirmed = yes] =
              [cmx |-> q[i].action.cmx, enc_ciphertext |-> q[i].action.enc_ciphertext,
               epk |-> q[i].action.epk, nf_old |-> q[i].action.nf_old,
               out_ciphertext |-> w[i][1], cv_net_x |-> w[i][2], tx |-> q[i].tx,
               cmx_position |-> i - 1, shield_amount |-> shield, is_confirmed |-> yes]
      BY <3>1
    <3> QED
      BY <3>2 DEF n, shield, yes
  <2> HIDE DEF N, old
  <2>4. CASE i \in from + 1 .. to
    <3>1. i <= to
      BY <2>4
    <3>2. NoteAt(q, w, k, i) = N(TRUE)
      BY <2>2, <3>1
    <3>3. [old[i] EXCEPT !.is_confirmed = TRUE] = N(TRUE)
      BY <1>1, <2>1, <2>3
    <3> QED
      BY <2>4, <3>2, <3>3
  <2>5. CASE i \notin from + 1 .. to
    <3>1. i <= to <=> i <= from
      BY <2>5
    <3>2. NoteAt(q, w, k, i) = NoteAt(q, w, h, i)
      <4>1. CASE i <= from
        BY <2>1, <2>2, <3>1, <4>1
      <4>2. CASE ~(i <= from)
        BY <2>1, <2>2, <3>1, <4>2
      <4> QED
        BY <4>1, <4>2
    <3> QED
      BY <1>1, <2>5, <3>2
  <2> QED
    BY <2>4, <2>5
<1> HIDE DEF old, new, from, to
<1>4. Confirming(old, from, to) = new
  BY <1>1, <1>2, <1>3 DEF Confirming
<1> QED
  BY <1>4 DEF old, new, from, to

\* A watermark goes from the confirmed notes of one view to those of the next.
LEMMA SeenIndexed ==
    ASSUME NEW w, NEW h, NEW k, NEW c \in Nat, IsView(queue, h), index = IndexAt(queue, w, c, h),
           NEW to \in Nat, h.confirmed < to, to <= h.notes,
           k = View(h.notes, to, h.units, h.owed, h.scale),
           Becomes([index EXCEPT !.notes = Confirming(@, h.confirmed, to), !.watermark = to,
                                 !.latest_root = <<Leaves(queue, to)>>])
    PROVE  index' = IndexAt(queue, w, c + 1, k)
<1> DEFINE old == NotesAt(queue, w, h)
           new == NotesAt(queue, w, k)
           root == <<Leaves(queue, to)>>
           accounts == AccountsAt(h)
<1>1. h.notes \in Nat /\ h.confirmed \in Nat
  BY DEF IsView
<1>2. k.notes = h.notes /\ k.confirmed = to /\ k.units = h.units /\ k.owed = h.owed /\ k.scale = h.scale
  BY ViewIs
<1>3. Confirming(old, h.confirmed, to) = new
  BY <1>1, <1>2, ConfirmingIs
<1>4. RootAt(queue, k) = root /\ AccountsAt(k) = accounts
  BY <1>1, <1>2 DEF RootAt, AccountsAt
<1>5. /\ index.notes = old
      /\ index = IndexRecord(c, old, h.confirmed, RootAt(queue, h), accounts, h.scale)
  BY IndexAtIs, IndexRecords
<1> HIDE DEF old, new, root, accounts
<1>6. index' = IndexRecord(c + 1, new, to, root, accounts, h.scale)
  <2> DEFINE r == [index EXCEPT !.notes = new]
             s == [r EXCEPT !.watermark = to]
             t == [s EXCEPT !.latest_root = root]
  <2>1. index' = [t EXCEPT !.cursor = t.cursor + 1]
    BY <1>3, <1>5 DEF Becomes, root
  <2>2. r = IndexRecord(c, new, h.confirmed, RootAt(queue, h), accounts, h.scale)
    BY <1>5, IndexRecords
  <2> HIDE DEF r
  <2>3. s = IndexRecord(c, new, to, RootAt(queue, h), accounts, h.scale)
    BY <2>2, IndexRecords
  <2> HIDE DEF s
  <2>4. t = IndexRecord(c, new, to, root, accounts, h.scale)
    BY <2>3, IndexRecords
  <2> HIDE DEF t
  <2> QED
    BY <2>1, <2>4, IndexRecords
<1> QED
  BY <1>2, <1>4, <1>6, IndexAtIs DEF new

LEMMA ConfirmedIndexed ==
    ASSUME NEW w, NEW h, NEW l, NEW k, NEW c \in Nat, IsView(queue, h),
           index = IndexAt(queue, w, c, h), Unread[1] = l, TellsConfirmed(queue, h, l, k), IndexNext
    PROVE  index' = IndexAt(queue, w, c + 1, k)
<1> DEFINE to == h.confirmed + 1
           v == [cmx |-> queue[to].action.cmx, new_root |-> Leaves(queue, to), position |-> h.confirmed]
<1>1. h.confirmed \in Nat /\ to \in Nat /\ h.confirmed < to
  BY DEF IsView
<1>2. /\ to <= h.notes /\ k = View(h.notes, to, h.units, h.owed, h.scale)
      /\ l.event = "NoteConfirmed" /\ l.read = Ok(v)
  BY DEF TellsConfirmed
<1>3. IndexNoteConfirmed
  BY <1>2, WhoReads
<1>4. Item = v
  BY <1>2 DEF Item, Ok
<1>5. Item.position = h.confirmed /\ Item.new_root = Leaves(queue, to)
  BY <1>4
<1> HIDE DEF v
<1>6. Becomes([index EXCEPT !.notes = Confirming(@, h.confirmed, to), !.watermark = to,
                            !.latest_root = <<Leaves(queue, to)>>])
  BY <1>3, <1>5 DEF IndexNoteConfirmed
<1> HIDE DEF to
<1> QED
  BY <1>1, <1>2, <1>6, SeenIndexed

LEMMA UpdateIndexed ==
    ASSUME NEW w, NEW h, NEW l, NEW k, NEW c \in Nat, IsView(queue, h),
           index = IndexAt(queue, w, c, h), Unread[1] = l, TellsUpdate(queue, h, l, k), IndexNext
    PROVE  index' = IndexAt(queue, w, c + 1, k)
<1>1. h.confirmed \in Nat
  BY DEF IsView
<1>2. PICK j \in Nat \ {0} :
        LET to == h.confirmed + j
        IN  /\ to <= h.notes
            /\ l = [tx |-> 0, event |-> "RootUpdated",
                    read |-> Ok([new_root |-> Leaves(queue, to), from_count |-> h.confirmed,
                                 to_count |-> to, batch_size |-> j])]
            /\ k = View(h.notes, to, h.units, h.owed, h.scale)
  BY DEF TellsUpdate
<1> DEFINE to == h.confirmed + j
           v == [new_root |-> Leaves(queue, to), from_count |-> h.confirmed,
                 to_count |-> to, batch_size |-> j]
<1>3. to \in Nat /\ h.confirmed < to
  BY <1>1
<1>4. /\ to <= h.notes /\ k = View(h.notes, to, h.units, h.owed, h.scale)
      /\ l.event = "RootUpdated" /\ l.read = Ok(v)
  BY <1>2
<1>5. IndexRootUpdated
  BY <1>4, WhoReads
<1>6. Item = v
  BY <1>4 DEF Item, Ok
<1>7. /\ Item.new_root = Leaves(queue, to) /\ Item.from_count = h.confirmed
      /\ Item.to_count = to /\ Item.from_count + Item.batch_size = to
  BY <1>6
<1> HIDE DEF v
<1>8. Becomes([index EXCEPT !.notes = Confirming(@, h.confirmed, to), !.watermark = to,
                            !.latest_root = <<Leaves(queue, to)>>])
  BY <1>5, <1>7 DEF IndexRootUpdated
<1> HIDE DEF to
<1> QED
  BY <1>3, <1>4, <1>8, SeenIndexed

LEMMA DepositIndexed ==
    ASSUME NEW w, NEW h, NEW l, NEW k, NEW c \in Nat, IsView(queue, h),
           index = IndexAt(queue, w, c, h), Unread[1] = l, TellsDeposit(queue, h, l, k), IndexNext
    PROVE  index' = IndexAt(queue, w, c + 1, k)
<1>1. PICK i \in 1 .. h.notes, amount \in Nat :
        /\ queue[i].shielded = <<amount>> /\ \A j \in 1 .. i - 1 : queue[j].tx # queue[i].tx
        /\ l = [tx |-> queue[i].tx, event |-> "ShieldCompleted",
                read |-> Ok([cmx |-> queue[i].action.cmx, amount |-> amount])]
        /\ k = View(h.notes, h.confirmed, h.units, h.owed \ {i}, h.scale)
  BY DEF TellsDeposit
<1> DEFINE old == NotesAt(queue, w, h)
           new == NotesAt(queue, w, k)
           cmx == queue[i].action.cmx
           tx == queue[i].tx
           Is(n) == n.cmx = Item.cmx /\ n.tx = Unread[1].tx
<1>2. h.notes \in Nat
  BY DEF IsView
<1>3. /\ k.notes = h.notes /\ k.confirmed = h.confirmed /\ k.units = h.units
      /\ k.owed = h.owed \ {i} /\ k.scale = h.scale
  BY <1>1, ViewIs
<1>4. l.event = "ShieldCompleted" /\ l.tx = tx /\ l.read.value.cmx = cmx /\ l.read.value.amount = amount
  BY <1>1 DEF Ok
<1>5. Item.cmx = cmx /\ Item.amount = amount /\ Unread[1].tx = tx
  BY <1>4 DEF Item
<1>6. IndexShieldCompleted
  BY <1>4, WhoReads
<1>7. /\ IsSeq(old) /\ DOMAIN old = 1 .. h.notes
      /\ \A j \in 1 .. h.notes : old[j] = NoteAt(queue, w, h, j)
  BY <1>2, NotesAtIs
<1>8. /\ index.notes = old
      /\ index = IndexRecord(c, old, h.confirmed, RootAt(queue, h), AccountsAt(h), h.scale)
  BY IndexAtIs, IndexRecords
<1>9. \A j \in 1 .. h.notes : old[j].cmx = queue[j].action.cmx /\ old[j].tx = queue[j].tx
  <2>1. \A j \in 1 .. h.notes :
          NoteAt(queue, w, h, j).cmx = queue[j].action.cmx /\ NoteAt(queue, w, h, j).tx = queue[j].tx
    BY DEF NoteAt
  <2> HIDE DEF old
  <2> QED
    BY <1>7, <2>1
<1> HIDE DEF old, new
<1>10. Is(old[i]) /\ \A j \in 1 .. i - 1 : ~Is(old[j])
  BY <1>1, <1>2, <1>5, <1>9
<1>11. FirstIndex(old, Is) = i
  <2> DEFINE Q(x) == Is(old[x]) /\ \A j \in 1 .. x - 1 : ~Is(old[j])
  <2>1. i \in DOMAIN old /\ Q(i)
    BY <1>7, <1>10
  <2>2. \A x \in DOMAIN old : Q(x) => x = i
    <3> TAKE x \in DOMAIN old
    <3> HAVE Q(x)
    <3>1. x \in Nat /\ i \in Nat /\ x >= 1 /\ i >= 1
      BY <1>2, <1>7
    <3>2. ~(x < i)
      BY <1>10, <3>1
    <3>3. ~(i < x)
      BY <1>10, <3>1
    <3> QED
      BY <3>1, <3>2, <3>3
  <2>3. (CHOOSE x \in DOMAIN old : Q(x)) = i
    <3> HIDE DEF Q
    <3> QED
      BY <2>1, <2>2
  <2>4. FirstIndex(old, Is) = CHOOSE x \in DOMAIN old : Q(x)
    BY <1>7, <1>10 DEF FirstIndex
  <2> QED
    BY <2>3, <2>4
<1>12. i # 0
  BY <1>2
<1>13. Becomes([index EXCEPT !.notes[i].shield_amount = <<amount>>])
  BY <1>5, <1>6, <1>8, <1>11, <1>12 DEF IndexShieldCompleted
<1>14. [old EXCEPT ![i].shield_amount = <<amount>>] = new
  <2> DEFINE paid == <<amount>>
             s == [old EXCEPT ![i].shield_amount = paid]
  <2>1. s = [j \in 1 .. h.notes |-> IF j = i THEN [old[i] EXCEPT !.shield_amount = paid] ELSE old[j]]
    <3>1. old = [j \in 1 .. h.notes |-> old[j]]
      BY <1>7, SeqFacts
    <3> HIDE DEF paid
    <3> QED
      BY <3>1
  <2> HIDE DEF s, paid
  <2>2. new = [j \in 1 .. h.notes |-> NoteAt(queue, w, k, j)]
    BY <1>3 DEF new, NotesAt
  <2>3. \A j \in 1 .. h.notes : j # i => old[j] = NoteAt(queue, w, k, j)
    <3> TAKE j \in 1 .. h.notes
    <3> HAVE j # i
    <3>1. j \in h.owed <=> j \in k.owed
      BY <1>3
    <3>2. NoteAt(queue, w, h, j) = NoteAt(queue, w, k, j)
      BY <1>3, <3>1 DEF NoteAt
    <3> QED
      BY <1>7, <3>2
  <2>4. [old[i] EXCEPT !.shield_amount = paid] = NoteAt(queue, w, k, i)
    <3> DEFINE flag == IF i <= h.confirmed THEN TRUE ELSE FALSE
               before == IF i \in h.owed THEN Absent ELSE queue[i].shielded
               n == NoteAt(queue, w, h, i)
    <3>1. n = [cmx |-> queue[i].action.cmx, enc_ciphertext |-> queue[i].action.enc_ciphertext,
               epk |-> queue[i].action.epk, nf_old |-> queue[i].action.nf_old,
               out_ciphertext |-> w[i][1], cv_net_x |-> w[i][2], tx |-> queue[i].tx,
               cmx_position |-> i - 1, shield_amount |-> before, is_confirmed |-> flag]
      BY DEF NoteAt
    <3>2. (IF i \in k.owed THEN Absent ELSE queue[i].shielded) = paid
      BY <1>1, <1>3 DEF paid
    <3>3. NoteAt(queue, w, k, i) =
            [cmx |-> queue[i].action.cmx, enc_ciphertext |-> queue[i].action.enc_ciphertext,
             epk |-> queue[i].action.epk, nf_old |-> queue[i].action.nf_old,
             out_ciphertext |-> w[i][1], cv_net_x |-> w[i][2], tx |-> queue[i].tx,
             cmx_position |-> i - 1, shield_amount |-> paid, is_confirmed |-> flag]
      BY <1>3, <3>2 DEF NoteAt
    <3> HIDE DEF flag, before, n
    <3>4. [n EXCEPT !.shield_amount = paid] =
            [cmx |-> queue[i].action.cmx, enc_ciphertext |-> queue[i].action.enc_ciphertext,
             epk |-> queue[i].action.epk, nf_old |-> queue[i].action.nf_old,
             out_ciphertext |-> w[i][1], cv_net_x |-> w[i][2], tx |-> queue[i].tx,
             cmx_position |-> i - 1, shield_amount |-> paid, is_confirmed |-> flag]
      BY <3>1
    <3> QED
      BY <1>7, <3>3, <3>4 DEF n
  <2>5. s = new
    BY <2>1, <2>2, <2>3, <2>4
  <2> QED
    BY <2>5 DEF s, paid
<1>15. index' = IndexRecord(c + 1, new, h.confirmed, RootAt(queue, h), AccountsAt(h), h.scale)
  <2> DEFINE paid == <<amount>>
             r == [index EXCEPT !.notes[i].shield_amount = paid]
  <2>1. index' = [r EXCEPT !.cursor = r.cursor + 1]
    BY <1>13 DEF Becomes
  <2>2. r = [index EXCEPT !.notes = [index.notes EXCEPT ![i].shield_amount = paid]]
    <3> HIDE DEF paid
    <3> QED
      OBVIOUS
  <2> HIDE DEF r
  <2>3. r = [index EXCEPT !.notes = new]
    BY <1>8, <1>14, <2>2
  <2>4. r = IndexRecord(c, new, h.confirmed, RootAt(queue, h), AccountsAt(h), h.scale)
    BY <1>8, <2>3, IndexRecords
  <2> QED
    BY <2>1, <2>4, IndexRecords
<1>16. RootAt(queue, h) = RootAt(queue, k) /\ AccountsAt(h) = AccountsAt(k)
  BY <1>3 DEF RootAt, AccountsAt
<1> QED
  BY <1>3, <1>15, <1>16, IndexAtIs DEF new

LEMMA ScaledSum ==
    \A s, u, n \in Int : s * (u + 1 * n) = s * u + 1 * (s * n) /\ s * (u + -1 * n) = s * u + -1 * (s * n)
OBVIOUS

\* An account's two sums move together.
LEMMA MovedIndexed ==
    ASSUME NEW w, NEW h, NEW l, NEW k, NEW c \in Nat, IsView(queue, h),
           index = IndexAt(queue, w, c, h), Unread[1] = l, NEW event, NEW sign \in {1, -1},
           TellsMoved(event, sign, h, l, k), IndexCustody(event, sign)
    PROVE  index' = IndexAt(queue, w, c + 1, k)
<1>1. PICK account \in Accounts, amount \in Nat :
        /\ l.event = event
        /\ l.read = Ok([actor |-> account, amount_units |-> amount, wei_amount |-> Scale * amount])
        /\ k = View(h.notes, h.confirmed, [h.units EXCEPT ![account] = @ + sign * amount],
                    h.owed, h.scale)
  BY DEF TellsMoved
<1> DEFINE wei == Scale * amount
           old == AccountsAt(h)
           new == AccountsAt(k)
           notes == NotesAt(queue, w, h)
           root == RootAt(queue, h)
<1>2. /\ h.units \in [Accounts -> Int] /\ Scale \in Int /\ wei \in Int
      /\ h.units[account] \in Int
  BY IndexingAssumption DEF IsView
<1>3. /\ k.notes = h.notes /\ k.confirmed = h.confirmed /\ k.owed = h.owed /\ k.scale = h.scale
      /\ k.units = [h.units EXCEPT ![account] = @ + sign * amount]
  BY <1>1, ViewIs
<1>4. Item.actor = account /\ Item.amount_units = amount /\ Item.wei_amount = wei
  BY <1>1 DEF Item, Ok
<1>5. index.accounts = old /\ index = IndexRecord(c, notes, h.confirmed, root, old, h.scale)
  BY IndexAtIs, IndexRecords
<1>6. Becomes([index EXCEPT !.accounts[account].units = index.accounts[account].units + sign * amount,
                            !.accounts[account].wei = index.accounts[account].wei + sign * wei])
  BY <1>4 DEF IndexCustody
<1>7. /\ old = [a \in Accounts |-> old[a]]
      /\ \A a \in Accounts : old[a] = [units |-> h.units[a], wei |-> Scale * h.units[a]]
      /\ new = [a \in Accounts |-> new[a]]
      /\ \A a \in Accounts : new[a] = [units |-> k.units[a], wei |-> Scale * k.units[a]]
  BY DEF AccountsAt
<1> DEFINE units == h.units[account] + sign * amount
           total == Scale * h.units[account] + sign * wei
<1>8. k.units[account] = units /\ Scale * k.units[account] = total
  <2>1. k.units[account] = units
    BY <1>2, <1>3
  <2>2. Scale * units = total
    <3>1. amount \in Int /\ h.units[account] \in Int
      BY <1>2
    <3>2. CASE sign = 1
      BY <1>2, <3>1, <3>2, ScaledSum
    <3>3. CASE sign = -1
      BY <1>2, <3>1, <3>3, ScaledSum
    <3> QED
      BY <3>2, <3>3
  <2> QED
    BY <2>1, <2>2
<1>9. \A a \in Accounts : a # account => new[a] = old[a]
  BY <1>2, <1>3, <1>7
<1>10. new[account] = [units |-> units, wei |-> total]
  BY <1>7, <1>8
<1>11. old[account].units = h.units[account] /\ old[account].wei = Scale * h.units[account]
       /\ old[account] = [units |-> h.units[account], wei |-> Scale * h.units[account]]
  BY <1>7
<1> DEFINE r == [index EXCEPT !.accounts[account].units = units]
           s == [r EXCEPT !.accounts[account].wei = total]
<1>12. index' = [s EXCEPT !.cursor = s.cursor + 1]
  <2>1. /\ index.accounts[account].units = h.units[account]
        /\ index.accounts[account].wei = Scale * h.units[account]
    BY <1>5, <1>11
  <2> HIDE DEF units, total
  <2>2. Becomes([index EXCEPT !.accounts[account].units = units, !.accounts[account].wei = total])
    BY <1>6, <2>1 DEF units, total
  <2>3. [index EXCEPT !.accounts[account].units = units, !.accounts[account].wei = total] = s
    OBVIOUS
  <2> HIDE DEF s
  <2> QED
    BY <2>2, <2>3 DEF Becomes
<1> HIDE DEF old, new, notes, root, wei
<1>13. s = [index EXCEPT !.accounts = new]
  <2> DEFINE o == [units |-> units, wei |-> Scale * h.units[account]]
             m == [old EXCEPT ![account] = o]
  <2>1. r = [index EXCEPT !.accounts = m]
    <3>1. r = [index EXCEPT !.accounts = [index.accounts EXCEPT ![account] =
                 [index.accounts[account] EXCEPT !.units = units]]]
      BY DEF r
    <3>2. [old[account] EXCEPT !.units = units] = o
      BY <1>11
    <3> HIDE DEF r, o
    <3> QED
      BY <1>5, <3>1, <3>2
  <2>2. r = IndexRecord(c, notes, h.confirmed, root, m, h.scale)
    BY <1>5, <2>1, IndexRecords
  <2>3. r.accounts = m
    <3> HIDE DEF r, m, o
    <3> QED
      BY <2>2, IndexRecords
  <2>4. s = [r EXCEPT !.accounts = [r.accounts EXCEPT ![account] =
               [r.accounts[account] EXCEPT !.wei = total]]]
    <3> HIDE DEF r
    <3> QED
      BY DEF s
  <2>5. m[account] = o /\ \A a \in Accounts : a # account => m[a] = old[a]
    BY <1>7
  <2>6. [o EXCEPT !.wei = total] = [units |-> units, wei |-> total]
    OBVIOUS
  <2>7. m = [a \in Accounts |-> m[a]]
    BY <1>7
  <2> HIDE DEF r, s, o, m
  <2>8. s = [r EXCEPT !.accounts = [m EXCEPT ![account] = [units |-> units, wei |-> total]]]
    BY <2>3, <2>4, <2>5, <2>6
  <2>9. [m EXCEPT ![account] = [units |-> units, wei |-> total]] = new
    <3> DEFINE v == [units |-> units, wei |-> total]
    <3> HIDE DEF v
    <3> QED
      BY <1>7, <1>9, <1>10, <2>5, <2>7 DEF v
  <2>10. s = IndexRecord(c, notes, h.confirmed, root, new, h.scale)
    BY <2>2, <2>8, <2>9, IndexRecords
  <2> QED
    BY <1>5, <2>10, IndexRecords
<1>14. index' = IndexRecord(c + 1, notes, h.confirmed, root, new, h.scale)
  <2> HIDE DEF s
  <2>1. s = IndexRecord(c, notes, h.confirmed, root, new, h.scale)
    BY <1>5, <1>13, IndexRecords
  <2> QED
    BY <1>12, <2>1, IndexRecords
<1>15. NotesAt(queue, w, k) = notes /\ RootAt(queue, k) = root
  BY <1>3 DEF NotesAt, NoteAt, RootAt, notes, root
<1> QED
  BY <1>3, <1>14, <1>15, IndexAtIs DEF new

LEMMA ScaleIndexed ==
    ASSUME NEW w, NEW h, NEW l, NEW k, NEW c \in Nat, index = IndexAt(queue, w, c, h),
           Unread[1] = l, TellsScale(h, l, k), IndexNext
    PROVE  index' = IndexAt(queue, w, c + 1, k)
<1>1. /\ k.notes = h.notes /\ k.confirmed = h.confirmed /\ k.units = h.units
      /\ k.owed = h.owed /\ k.scale = Scale /\ l.event = "ShieldPoolCreated"
      /\ l.read.value.scale = Scale
  BY ViewIs DEF TellsScale
<1>2. IndexPoolCreated
  BY <1>1, WhoReads
<1> DEFINE r == [index EXCEPT !.scale = Scale]
           notes == NotesAt(queue, w, h)
           root == RootAt(queue, h)
           accounts == AccountsAt(h)
<1>3. index' = [r EXCEPT !.cursor = r.cursor + 1]
  BY <1>1, <1>2 DEF IndexPoolCreated, Becomes, Item
<1>4. index = IndexRecord(c, notes, h.confirmed, root, accounts, h.scale)
  BY IndexAtIs
<1>5. NotesAt(queue, w, k) = notes /\ RootAt(queue, k) = root /\ AccountsAt(k) = accounts
  BY <1>1 DEF NotesAt, NoteAt, RootAt, AccountsAt
<1> HIDE DEF notes, root, accounts
<1>6. r = IndexRecord(c, notes, h.confirmed, root, accounts, Scale)
  BY <1>4, IndexRecords
<1> HIDE DEF r
<1>7. index' = IndexRecord(c + 1, notes, h.confirmed, root, accounts, Scale)
  BY <1>3, <1>6, IndexRecords
<1> QED
  BY <1>1, <1>5, <1>7, IndexAtIs

\* Whatever the next log tells, reading it is seeing the next view.
LEMMA LogIndexed ==
    ASSUME NEW w, NEW h, NEW l, NEW k, NEW c \in Nat, IsView(queue, h), Len(queue) \in Nat,
           index = IndexAt(queue, w, c, h), Unread[1] = l, Tells(pool, queue, w, h, l, k),
           pool \in Generations, IndexNext
    PROVE  index' = IndexAt(queue, w, c + 1, k)
<1>1. CASE TellsNote(pool, queue, w, h, l, k)
  BY <1>1, NoteIndexed
<1>2. CASE TellsConfirmed(queue, h, l, k)
  BY <1>2, ConfirmedIndexed
<1>3. CASE TellsUpdate(queue, h, l, k)
  BY <1>3, UpdateIndexed
<1>4. CASE TellsDeposit(queue, h, l, k)
  BY <1>4, DepositIndexed
<1>5. CASE TellsMoved("Shielded", 1, h, l, k)
  <2>1. l.event = "Shielded"
    BY <1>5 DEF TellsMoved
  <2>2. IndexCustody("Shielded", 1)
    BY <2>1, WhoReads DEF IndexShielded
  <2> QED
    BY <1>5, <2>2, MovedIndexed
<1>6. CASE TellsMoved("Unshielded", -1, h, l, k)
  <2>1. l.event = "Unshielded"
    BY <1>6 DEF TellsMoved
  <2>2. IndexCustody("Unshielded", -1)
    BY <2>1, WhoReads DEF IndexUnshielded
  <2> QED
    BY <1>6, <2>2, MovedIndexed
<1>7. CASE TellsScale(h, l, k)
  BY <1>7, ScaleIndexed
<1> QED
  BY <1>1, <1>2, <1>3, <1>4, <1>5, <1>6, <1>7 DEF Tells

-----------------------------------------------------------------------------
(* Histories and the invariant.                                            *)

NothingSeen == View(0, 0, [a \in Accounts |-> 0], {}, 0)

\* The views after every log.
History(p, q, w, ls, g) ==
    /\ g[0] = NothingSeen
    /\ \A k \in 0 .. Len(ls) : IsView(q, g[k])
    /\ \A k \in 1 .. Len(ls) : Tells(p, q, w, g[k - 1], ls[k], g[k])

\* Logs that take view h through the views of f to view last.
Continues(p, q, w, h, new, f, last) ==
    /\ IsSeq(new) /\ f[0] = h /\ f[Len(new)] = last
    /\ \A k \in 1 .. Len(new) : IsView(q, f[k]) /\ Tells(p, q, w, f[k - 1], new[k], f[k])

\* New logs continue a history.
Followed(ls, new) == ls \o new

Continued(ls, g, new, f) ==
    [k \in 0 .. Len(ls) + Len(new) |-> IF k <= Len(ls) THEN g[k] ELSE f[k - Len(ls)]]

LEMMA HistoryGrows ==
    ASSUME NEW p, NEW q, NEW w, NEW ls, IsSeq(ls), NEW g, History(p, q, w, ls, g),
           NEW new, NEW f, NEW last, Continues(p, q, w, g[Len(ls)], new, f, last)
    PROVE  History(p, q, w, Followed(ls, new), Continued(ls, g, new, f))
<1> DEFINE n == Len(ls)
           m == Len(new)
           all == Followed(ls, new)
           g2 == Continued(ls, g, new, f)
<1>0. /\ IsSeq(new) /\ f[0] = g[Len(ls)]
      /\ \A k \in 1 .. Len(new) : IsView(q, f[k]) /\ Tells(p, q, w, f[k - 1], new[k], f[k])
  BY DEF Continues
<1>1. n \in Nat /\ m \in Nat
  BY <1>0, SeqFacts
<1>2. /\ IsSeq(all) /\ Len(all) = n + m /\ \A i \in 1 .. n : all[i] = ls[i]
      /\ \A i \in 1 .. m : all[n + i] = new[i]
  BY <1>0, ConcatIsSeq DEF Followed
<1>3. \A k \in 0 .. n : g2[k] = g[k]
  BY <1>1 DEF Continued
<1>4. \A k \in 0 .. m : g2[n + k] = f[k]
  <2> TAKE k \in 0 .. m
  <2>1. CASE k = 0
    BY <1>0, <1>1, <1>3, <2>1
  <2>2. CASE k # 0
    BY <1>1, <2>2 DEF Continued
  <2> QED
    BY <2>1, <2>2
<1> HIDE DEF all, g2
<1>5. \A k \in 0 .. Len(all) : IsView(q, g2[k])
  <2> TAKE k \in 0 .. Len(all)
  <2>1. CASE k <= n
    BY <1>1, <1>2, <1>3, <2>1 DEF History
  <2>2. CASE k > n
    <3>1. k - n \in 1 .. m /\ k = n + (k - n)
      BY <1>1, <1>2, <2>2
    <3>2. g2[k] = f[k - n]
      BY <1>1, <1>4, <3>1
    <3> QED
      BY <1>0, <3>1, <3>2
  <2> QED
    BY <1>1, <1>2, <2>1, <2>2
<1>6. \A k \in 1 .. Len(all) : Tells(p, q, w, g2[k - 1], all[k], g2[k])
  <2> TAKE k \in 1 .. Len(all)
  <2>1. CASE k <= n
    <3>1. g2[k - 1] = g[k - 1] /\ g2[k] = g[k] /\ all[k] = ls[k] /\ k \in 1 .. n
      BY <1>1, <1>2, <1>3, <2>1
    <3> QED
      BY <3>1 DEF History
  <2>2. CASE k > n
    <3> DEFINE i == k - n
    <3>1. i \in 1 .. m /\ k = n + i /\ i - 1 \in 0 .. m /\ k - 1 = n + (i - 1)
      BY <1>1, <1>2, <2>2
    <3> HIDE DEF i
    <3>2. g2[k] = f[i] /\ g2[k - 1] = f[i - 1] /\ all[k] = new[i]
      BY <1>1, <1>2, <1>4, <3>1
    <3> QED
      BY <1>0, <3>1, <3>2
  <2> QED
    BY <1>1, <1>2, <2>1, <2>2
<1>7. g2[0] = NothingSeen
  BY <1>1, <1>3 DEF History
<1>8. History(p, q, w, all, g2)
  BY <1>5, <1>6, <1>7 DEF History
<1> QED
  BY <1>8 DEF all, g2

\* A longer queue tells the same.
Longer(q, w, q2, w2) ==
    /\ Len(q) \in Nat /\ Len(q2) \in Nat /\ Len(q) <= Len(q2)
    /\ \A i \in 1 .. Len(q) : q2[i] = q[i] /\ w2[i] = w[i]

LEMMA LeavesKept ==
    ASSUME NEW q, NEW w, NEW q2, NEW w2, Longer(q, w, q2, w2), NEW n \in Nat, n <= Len(q)
    PROVE  Leaves(q2, n) = Leaves(q, n)
<1>1. \A i \in 1 .. n : q2[i] = q[i]
  BY DEF Longer
<1>2. [i \in 1 .. n |-> q2[i].action.cmx] = [i \in 1 .. n |-> q[i].action.cmx]
  BY <1>1
<1> QED
  BY <1>2 DEF Leaves

LEMMA ViewKept ==
    ASSUME NEW q, NEW w, NEW q2, NEW w2, Longer(q, w, q2, w2), NEW h, IsView(q, h)
    PROVE  IsView(q2, h) /\ \A c : IndexAt(q2, w2, c, h) = IndexAt(q, w, c, h)
<1>1. h.notes \in Nat /\ h.notes <= Len(q) /\ h.confirmed \in Nat /\ h.confirmed <= Len(q)
  BY DEF IsView, Longer
<1>2. IsView(q2, h)
  BY <1>1 DEF IsView, Longer
<1>3. \A i \in 1 .. h.notes : q2[i] = q[i] /\ w2[i] = w[i]
  BY <1>1 DEF Longer
<1>4. \A i \in 1 .. h.notes : NoteAt(q2, w2, h, i) = NoteAt(q, w, h, i)
  BY <1>3 DEF NoteAt
<1>5. NotesAt(q2, w2, h) = NotesAt(q, w, h)
  BY <1>4 DEF NotesAt
<1>6. RootAt(q2, h) = RootAt(q, h)
  BY <1>1, LeavesKept DEF RootAt
<1>7. \A c : IndexAt(q2, w2, c, h) = IndexAt(q, w, c, h)
  BY <1>5, <1>6 DEF IndexAt
<1> QED
  BY <1>2, <1>7

LEMMA TellsKept ==
    ASSUME NEW p, NEW q, NEW w, NEW q2, NEW w2, Longer(q, w, q2, w2), NEW h, IsView(q, h),
           NEW l, NEW k, Tells(p, q, w, h, l, k)
    PROVE  Tells(p, q2, w2, h, l, k)
<1>1. /\ h.notes \in Nat /\ h.notes <= Len(q) /\ h.confirmed \in Nat /\ h.confirmed <= h.notes
      /\ Len(q) \in Nat /\ Len(q2) \in Nat /\ Len(q) <= Len(q2)
      /\ \A i \in 1 .. Len(q) : q2[i] = q[i] /\ w2[i] = w[i]
  BY DEF IsView, Longer
<1>2. CASE TellsNote(p, q, w, h, l, k)
  <2>1. h.notes + 1 \in 1 .. Len(q)
    BY <1>1, <1>2 DEF TellsNote
  <2>2. q2[h.notes + 1] = q[h.notes + 1] /\ w2[h.notes + 1] = w[h.notes + 1] /\ h.notes + 1 <= Len(q2)
    BY <1>1, <2>1
  <2>3. TellsNote(p, q2, w2, h, l, k)
    BY <1>2, <2>2 DEF TellsNote
  <2> QED
    BY <2>3 DEF Tells
<1>3. CASE TellsConfirmed(q, h, l, k)
  <2> DEFINE i == h.confirmed + 1
  <2>1. i \in 1 .. Len(q) /\ i \in Nat /\ i <= Len(q)
    BY <1>1, <1>3 DEF TellsConfirmed
  <2>2. q2[i] = q[i] /\ Leaves(q2, i) = Leaves(q, i)
    <3> HIDE DEF i
    <3> QED
      BY <1>1, <2>1, LeavesKept
  <2>3. TellsConfirmed(q2, h, l, k)
    BY <1>3, <2>2 DEF TellsConfirmed
  <2> QED
    BY <2>3 DEF Tells
<1>4. CASE TellsUpdate(q, h, l, k)
  <2>1. \A j \in Nat \ {0} : h.confirmed + j <= h.notes =>
                            Leaves(q2, h.confirmed + j) = Leaves(q, h.confirmed + j)
    <3> TAKE j \in Nat \ {0}
    <3> DEFINE to == h.confirmed + j
    <3> HAVE to <= h.notes
    <3>1. to \in Nat /\ to <= Len(q)
      BY <1>1
    <3> HIDE DEF to
    <3> QED
      BY <3>1, LeavesKept DEF to
  <2>2. TellsUpdate(q2, h, l, k)
    BY <1>4, <2>1 DEF TellsUpdate
  <2> QED
    BY <2>2 DEF Tells
<1>5. CASE TellsDeposit(q, h, l, k)
  <2>1. PICK i \in 1 .. h.notes, amount \in Nat :
          /\ q[i].shielded = <<amount>> /\ \A j \in 1 .. i - 1 : q[j].tx # q[i].tx
          /\ l = [tx |-> q[i].tx, event |-> "ShieldCompleted",
                  read |-> Ok([cmx |-> q[i].action.cmx, amount |-> amount])]
          /\ k = View(h.notes, h.confirmed, h.units, h.owed \ {i}, h.scale)
    BY <1>5 DEF TellsDeposit
  <2>2. q2[i] = q[i] /\ \A j \in 1 .. i - 1 : q2[j] = q[j]
    BY <1>1
  <2>3. TellsDeposit(q2, h, l, k)
    BY <2>1, <2>2 DEF TellsDeposit
  <2> QED
    BY <2>3 DEF Tells
<1>6. CASE TellsMoved("Shielded", 1, h, l, k) \/ TellsMoved("Unshielded", -1, h, l, k) \/ TellsScale(h, l, k)
  BY <1>6 DEF Tells
<1> QED
  BY <1>2, <1>3, <1>4, <1>5, <1>6 DEF Tells

LEMMA HistoryKept ==
    ASSUME NEW p, NEW q, NEW w, NEW q2, NEW w2, Longer(q, w, q2, w2), NEW ls, IsSeq(ls), NEW g,
           History(p, q, w, ls, g)
    PROVE  History(p, q2, w2, ls, g)
<1>1. Len(ls) \in Nat
  BY SeqFacts
<1>2. g[0] = NothingSeen /\ \A k \in 0 .. Len(ls) : IsView(q, g[k])
  BY DEF History
<1>3. \A k \in 0 .. Len(ls) : IsView(q2, g[k])
  BY <1>2, ViewKept
<1>4. \A k \in 1 .. Len(ls) : Tells(p, q2, w2, g[k - 1], ls[k], g[k])
  <2> TAKE k \in 1 .. Len(ls)
  <2>1. k - 1 \in 0 .. Len(ls)
    BY <1>1
  <2>2. IsView(q, g[k - 1]) /\ Tells(p, q, w, g[k - 1], ls[k], g[k])
    BY <1>2, <2>1 DEF History
  <2> QED
    BY <2>2, TellsKept
<1> QED
  BY <1>2, <1>3, <1>4 DEF History

QueueFits(t, q) ==
    /\ IsSeq(t) /\ Len(t) <= MaxTxs /\ IsSeq(q) /\ Len(q) <= MaxActions * Len(t)
    /\ \A i \in 1 .. Len(q) : q[i].tx \in 1 .. Len(t)

\* The logs have a history that ends with all there is, and an indexer is where
\* its cursor is in it.
Told(p, t, q, seen, ls, b, x) ==
    \E w, g :
        /\ \A i \in 1 .. Len(q) : Sourced(p, t, q, i, w[i])
        /\ History(p, q, w, ls, g)
        /\ g[Len(ls)] = View(Len(q), seen, g[Len(ls)].units, {},
                             IF "shield" \in p.calls THEN Scale ELSE 0)
        /\ b = [a \in Accounts |-> Scale * g[Len(ls)].units[a]]
        /\ x = IndexAt(q, w, x.cursor, g[x.cursor])

IndexingInv ==
    /\ pool \in Generations /\ QueueFits(txs, queue) /\ IsSeq(logs)
    /\ confirmed \in 0 .. Len(queue) /\ refused = FALSE /\ index.cursor \in 0 .. Len(logs)
    /\ Told(pool, txs, queue, confirmed, logs, balances, index)

LEMMA EmptyIs == IsSeq(<< >>) /\ Len(<< >>) = 0
<1>1. << >> \in Seq({}) /\ Len(<< >>) = 0
  BY EmptySeq
<1> QED
  BY <1>1 DEF IsSeq

LEMMA NothingSeenIs ==
    ASSUME NEW s
    PROVE  /\ NothingSeen.notes = 0 /\ NothingSeen.confirmed = 0 /\ NothingSeen.owed = {}
           /\ NothingSeen.scale = 0 /\ NothingSeen.units = [a \in Accounts |-> 0]
           /\ IsView(<< >>, NothingSeen)
           /\ IsView(<< >>, View(0, 0, [a \in Accounts |-> 0], {}, s))
<1> DEFINE zero == [a \in Accounts |-> 0]
           v(x) == View(0, 0, zero, {}, x)
<1>1. zero \in [Accounts -> Int]
  OBVIOUS
<1> HIDE DEF zero
<1>2. \A x : v(x).notes = 0 /\ v(x).confirmed = 0 /\ v(x).owed = {} /\ v(x).scale = x /\ v(x).units = zero
  BY ViewIs
<1>3. NothingSeen = v(0)
  BY DEF NothingSeen, zero
<1> HIDE DEF v
<1>4. \A x : v(x) = View(v(x).notes, v(x).confirmed, v(x).units, v(x).owed, v(x).scale)
  BY <1>2 DEF v
<1>5. \A x : IsView(<< >>, v(x))
  <2> TAKE x
  <2>1. v(x).notes \in 0 .. Len(<< >>) /\ v(x).confirmed \in 0 .. v(x).notes
    BY <1>2, EmptyIs
  <2> QED
    BY <1>1, <1>2, <1>4, <2>1 DEF IsView
<1>6. \A x : v(x) = View(0, 0, zero, {}, x)
  BY DEF v
<1> QED
  BY <1>2, <1>3, <1>5, <1>6 DEF zero

LEMMA IndexingInit == Init => IndexingInv
<1> SUFFICES ASSUME Init PROVE IndexingInv
  OBVIOUS
<1> DEFINE zero == [a \in Accounts |-> 0]
           creation == Log(0, Relayed, Creation)
           scale == IF "shield" \in pool.calls THEN Scale ELSE 0
           last == View(0, 0, zero, {}, scale)
           ls == IF "shield" \in pool.calls THEN <<creation>> ELSE << >>
           g == [k \in {0, 1} |-> IF k = 0 THEN NothingSeen ELSE last]
           n == IF "shield" \in pool.calls THEN 1 ELSE 0
<1>1. /\ pool \in Generations /\ txs = << >> /\ queue = << >> /\ confirmed = 0 /\ refused = FALSE
      /\ logs = ls /\ balances = zero /\ index = NewIndex
  BY DEF Init
<1>2. /\ IsSeq(ls) /\ Len(ls) = n /\ n \in {0, 1}
      /\ n = 1 => ls[1] = creation
  BY TuplesAreSeqs, EmptyIs
<1>3. QueueFits(txs, queue)
  <2>1. MaxTxs \in Nat /\ MaxActions \in Nat /\ MaxActions * 0 = 0
    BY IndexingAssumption
  <2> QED
    BY <1>1, <2>1, EmptyIs DEF QueueFits
<1>4. index.cursor = 0 /\ 0 \in 0 .. Len(logs)
  BY <1>1, <1>2 DEF NewIndex
<1>5. g[0] = NothingSeen /\ g[1] = last
  OBVIOUS
<1>6. g[n] = last
  BY <1>5, NothingSeenIs DEF NothingSeen
<1> HIDE DEF ls, creation, g, n
<1>7. History(pool, queue, << >>, logs, g)
  <2>1. \A k \in 0 .. Len(logs) : IsView(queue, g[k])
    <3>1. \A k \in 0 .. Len(logs) : k = 0 \/ k = 1
      BY <1>1, <1>2
    <3> QED
      BY <1>1, <1>5, <3>1, NothingSeenIs
  <2>2. ASSUME NEW k \in 1 .. Len(logs)
        PROVE  Tells(pool, queue, << >>, g[k - 1], logs[k], g[k])
    <3>1. k = 1 /\ n = 1
      BY <1>1, <1>2, <2>2
    <3>2. "shield" \in pool.calls
      BY <3>1 DEF n
    <3>3. logs[1] = creation /\ g[k - 1] = NothingSeen /\ g[k] = last
      BY <1>1, <1>2, <1>5, <3>1
    <3>4. last = View(0, 0, zero, {}, Scale)
      BY <3>2
    <3>5. TellsScale(NothingSeen, logs[1], last)
      BY <3>3, <3>4, CreationLogIs, NothingSeenIs DEF TellsScale, creation
    <3> QED
      BY <3>1, <3>3, <3>5 DEF Tells
  <2> QED
    BY <1>5, <2>1, <2>2 DEF History
<1>8. index = IndexAt(queue, << >>, 0, g[0])
  <2>1. NotesAt(queue, << >>, NothingSeen) = << >>
    <3>1. /\ IsSeq(NotesAt(queue, << >>, NothingSeen)) /\ Len(NotesAt(queue, << >>, NothingSeen)) = 0
      BY NothingSeenIs, NotesAtIs, 0 \in Nat
    <3>2. \A i \in 1 .. 0 : NotesAt(queue, << >>, NothingSeen)[i] = << >>[i]
      OBVIOUS
    <3> QED
      BY <3>1, <3>2, EmptyIs, SeqEquality
  <2>2. RootAt(queue, NothingSeen) = Absent
    BY NothingSeenIs DEF RootAt
  <2>3. AccountsAt(NothingSeen) = [a \in Accounts |-> [units |-> 0, wei |-> 0]]
    <3>1. \A a \in Accounts : NothingSeen.units[a] = 0
      BY NothingSeenIs
    <3>2. Scale * 0 = 0
      BY IndexingAssumption
    <3> QED
      BY <3>1, <3>2 DEF AccountsAt
  <2> QED
    BY <1>1, <1>5, <2>1, <2>2, <2>3, NothingSeenIs DEF IndexAt, NewIndex
<1>9. Told(pool, txs, queue, confirmed, logs, balances, index)
  <2>1. \A i \in 1 .. Len(queue) : Sourced(pool, txs, queue, i, << >>[i])
    BY <1>1, EmptyIs
  <2>2. g[Len(logs)] = last /\ Len(queue) = 0
    BY <1>1, <1>2, <1>6, EmptyIs
  <2>3. last.units = zero
    BY ViewIs
  <2>4. balances = [a \in Accounts |-> Scale * g[Len(logs)].units[a]]
    <3>1. Scale * 0 = 0
      BY IndexingAssumption
    <3>2. \A a \in Accounts : zero[a] = 0
      OBVIOUS
    <3> HIDE DEF last
    <3> QED
      BY <1>1, <2>2, <2>3, <3>1, <3>2
  <2>5. g[Len(logs)] = View(Len(queue), confirmed, g[Len(logs)].units, {}, scale)
    BY <1>1, <2>2, <2>3
  <2>6. index = IndexAt(queue, << >>, index.cursor, g[index.cursor])
    BY <1>4, <1>8
  <2> HIDE DEF last
  <2> QED
    BY <1>7, <2>1, <2>4, <2>5, <2>6 DEF Told
<1> QED
  BY <1>1, <1>2, <1>3, <1>4, <1>9, EmptyIs DEF IndexingInv

LEMMA IndexingReads == IndexingInv /\ IndexNext => IndexingInv'
<1> SUFFICES ASSUME IndexingInv, IndexNext PROVE IndexingInv'
  OBVIOUS
<1> DEFINE c == index.cursor
<1>1. UNCHANGED <<pool, txs, logs, queue, confirmed, balances, refused>> /\ Unread # << >>
  BY DEF IndexNext, IndexNoteAdded, IndexNoteConfirmed, IndexRootUpdated, IndexShieldCompleted,
         IndexShielded, IndexUnshielded, IndexCustody, IndexPoolCreated, Becomes, Reads
<1>2. /\ IsSeq(logs) /\ Len(logs) \in Nat /\ c \in 0 .. Len(logs) /\ c \in Nat
      /\ pool \in Generations /\ IsSeq(queue) /\ Len(queue) \in Nat
  BY SeqFacts DEF IndexingInv, QueueFits
<1> HIDE DEF c
<1>3. c < Len(logs) /\ Unread[1] = logs[c + 1]
  <2>1. Unread = SubSeq(logs, c + 1, Len(logs))
    BY DEF Unread, c
  <2>2. /\ c + 1 \in Nat /\ c + 1 >= 1 /\ Len(logs) <= Len(logs) /\ c + 1 <= Len(logs) + 1
    BY <1>2
  <2>3. /\ IsSeq(Unread) /\ Len(Unread) = Len(logs) - (c + 1) + 1
        /\ \A i \in 1 .. Len(logs) - (c + 1) + 1 : Unread[i] = logs[c + 1 + i - 1]
    BY <1>2, <2>1, <2>2, SubSeqIsSeq
  <2>4. Len(Unread) # 0
    <3>1. SUFFICES ASSUME Len(Unread) = 0 PROVE FALSE
      OBVIOUS
    <3>2. \A i \in 1 .. Len(Unread) : Unread[i] = << >>[i]
      BY <3>1
    <3> QED
      BY <1>1, <2>3, <3>1, <3>2, EmptyIs, SeqEquality
  <2>5. c < Len(logs) /\ 1 \in 1 .. Len(logs) - (c + 1) + 1
    BY <1>2, <2>3, <2>4
  <2>6. Unread[1] = logs[c + 1 + 1 - 1]
    BY <2>3, <2>5
  <2>7. c + 1 + 1 - 1 = c + 1
    BY <1>2
  <2> QED
    BY <2>5, <2>6, <2>7
<1>4. PICK w, g :
        /\ \A i \in 1 .. Len(queue) : Sourced(pool, txs, queue, i, w[i])
        /\ History(pool, queue, w, logs, g)
        /\ g[Len(logs)] = View(Len(queue), confirmed, g[Len(logs)].units, {},
                               IF "shield" \in pool.calls THEN Scale ELSE 0)
        /\ balances = [a \in Accounts |-> Scale * g[Len(logs)].units[a]]
        /\ index = IndexAt(queue, w, index.cursor, g[index.cursor])
  BY DEF IndexingInv, Told
<1>5. IsView(queue, g[c]) /\ Tells(pool, queue, w, g[c], logs[c + 1], g[c + 1])
  <2>1. c + 1 \in 1 .. Len(logs) /\ (c + 1) - 1 = c
    BY <1>2, <1>3
  <2>2. IsView(queue, g[c])
    BY <1>2, <1>4 DEF History
  <2>3. Tells(pool, queue, w, g[(c + 1) - 1], logs[c + 1], g[c + 1])
    BY <1>4, <2>1 DEF History
  <2> QED
    BY <2>1, <2>2, <2>3
<1>6. index' = IndexAt(queue, w, c + 1, g[c + 1])
  <2>1. index = IndexAt(queue, w, c, g[c])
    BY <1>4 DEF c
  <2> QED
    BY <1>2, <1>3, <1>5, <2>1, LogIndexed
<1>7. index'.cursor = c + 1 /\ c + 1 \in 0 .. Len(logs)
  BY <1>2, <1>3, <1>6, IndexAtFields
<1>8. index' = IndexAt(queue, w, index'.cursor, g[index'.cursor])
  BY <1>6, <1>7
<1>9. Told(pool, txs, queue, confirmed, logs, balances, index')
  BY <1>4, <1>8 DEF Told
<1>10. Told(pool, txs, queue, confirmed, logs, balances, index)'
  BY <1>1, <1>9
<1> QED
  BY <1>1, <1>7, <1>10 DEF IndexingInv

-----------------------------------------------------------------------------
(* The steps of the chain.                                                 *)

PoolScale(p) == IF "shield" \in p.calls THEN Scale ELSE 0
Worth(units) == [a \in Accounts |-> Scale * units[a]]

\* Logs with a history, and an indexer in it.
Knows(p, t, q, ls, x, w, g) ==
    /\ IsSeq(ls) /\ x.cursor \in 0 .. Len(ls)
    /\ \A i \in 1 .. Len(q) : Sourced(p, t, q, i, w[i])
    /\ History(p, q, w, ls, g)
    /\ x = IndexAt(q, w, x.cursor, g[x.cursor])

Grown(p, t, q, seen, ls, b, x) ==
    Told(p, t, q, seen, ls, b, x) /\ IsSeq(ls) /\ x.cursor \in 0 .. Len(ls)

\* Logs that continue a history leave the indexer where it is.
LEMMA ToldGrows ==
    ASSUME NEW p, NEW t, NEW q, NEW ls, NEW x, NEW w, NEW g, Knows(p, t, q, ls, x, w, g),
           NEW new, NEW f, NEW seen, NEW units,
           Continues(p, q, w, g[Len(ls)], new, f, View(Len(q), seen, units, {}, PoolScale(p)))
    PROVE  Grown(p, t, q, seen, Followed(ls, new), Worth(units), x)
<1> DEFINE g2 == Continued(ls, g, new, f)
           all == Followed(ls, new)
           b == Worth(units)
           scale == PoolScale(p)
<1>0. /\ IsSeq(ls) /\ x.cursor \in 0 .. Len(ls)
      /\ \A i \in 1 .. Len(q) : Sourced(p, t, q, i, w[i])
      /\ History(p, q, w, ls, g)
      /\ x = IndexAt(q, w, x.cursor, g[x.cursor])
  BY DEF Knows
<1>1. History(p, q, w, all, g2)
  BY <1>0, HistoryGrows
<1>2. /\ IsSeq(all) /\ Len(all) = Len(ls) + Len(new)
      /\ Len(ls) \in Nat /\ Len(new) \in Nat /\ f[0] = g[Len(ls)]
  BY <1>0, ConcatIsSeq, SeqFacts DEF Continues, Followed
<1> HIDE DEF all, b, scale
<1>3. \A k \in 0 .. Len(ls) : g2[k] = g[k]
  BY <1>2 DEF Continued
<1>4. g2[Len(all)] = f[Len(new)]
  <2> DEFINE n == Len(ls)
             m == Len(new)
  <2>1. CASE m = 0
    BY <1>2, <1>3, <2>1
  <2>2. CASE m # 0
    <3>1. n + m \in 0 .. n + m /\ ~(n + m <= n) /\ (n + m) - n = m
      BY <1>2, <2>2
    <3> QED
      BY <1>2, <3>1 DEF Continued
  <2> QED
    BY <2>1, <2>2
<1> HIDE DEF g2
<1> DEFINE last == View(Len(q), seen, units, {}, scale)
<1>5. g2[Len(all)] = last /\ last.units = units
  BY <1>4, ViewIs DEF Continues, scale
<1>6. x.cursor \in 0 .. Len(all)
  BY <1>0, <1>2
<1>7. x = IndexAt(q, w, x.cursor, g2[x.cursor])
  BY <1>0, <1>3
<1>8. Told(p, t, q, seen, all, b, x)
  <2>1. g2[Len(all)] = View(Len(q), seen, g2[Len(all)].units, {}, scale)
    BY <1>5
  <2>2. b = [a \in Accounts |-> Scale * g2[Len(all)].units[a]]
    BY <1>5 DEF b, Worth
  <2>3. scale = IF "shield" \in p.calls THEN Scale ELSE 0
    BY DEF scale, PoolScale
  <2> HIDE DEF last
  <2> QED
    BY <1>0, <1>1, <1>7, <2>1, <2>2, <2>3 DEF Told
<1> QED
  BY <1>2, <1>6, <1>8 DEF Grown, all, b

LEMMA QueueBound ==
    ASSUME NEW t, NEW q, QueueFits(t, q)
    PROVE  Len(q) \in Nat /\ Len(q) < U32 /\ Len(q) < U64 /\ Len(t) \in Nat
<1>1. /\ Len(t) \in Nat /\ Len(t) <= MaxTxs /\ Len(q) \in Nat /\ Len(q) <= MaxActions * Len(t)
  BY SeqFacts DEF QueueFits
<1>2. /\ MaxTxs \in Nat /\ MaxActions \in Nat /\ MaxTxs * MaxActions < U32 /\ U32 <= U64
      /\ U32 \in Nat /\ U64 \in Nat
  BY IndexingAssumption, AbiAssumption, BundleAssumption
<1>3. MaxActions * Len(t) <= MaxTxs * MaxActions
  <2>1. \A a, b, c \in Nat : a <= b => c * a <= b * c
    OBVIOUS
  <2> QED
    BY <1>1, <1>2, <2>1
<1>4. MaxActions * Len(t) \in Nat /\ MaxTxs * MaxActions \in Nat
  BY <1>1, <1>2
<1> QED
  BY <1>1, <1>2, <1>3, <1>4

\* One more confirmation is one more view.
LEMMA SeenMore ==
    ASSUME NEW q, NEW n \in Nat, n <= Len(q), Len(q) \in Nat, NEW seen \in Nat, seen <= n,
           NEW units \in [Accounts -> Int], NEW owed, NEW scale
    PROVE  IsView(q, View(n, seen, units, owed, scale))
<1> DEFINE v == View(n, seen, units, owed, scale)
<1>1. v.notes = n /\ v.confirmed = seen /\ v.units = units /\ v.owed = owed /\ v.scale = scale
  BY ViewIs
<1>2. v = View(n, seen, units, owed, scale)
  OBVIOUS
<1> HIDE DEF v
<1>3. IsView(q, v)
  BY <1>1, <1>2 DEF IsView
<1> QED
  BY <1>3 DEF v

LEMMA IndexingConfirms == IndexingInv /\ ConfirmNote => IndexingInv'
<1> SUFFICES ASSUME IndexingInv, ConfirmNote PROVE IndexingInv'
  OBVIOUS
<1> DEFINE cmx == queue[confirmed + 1].action.cmx
           root == RootOf(confirmed + 1)
           e == Emitted(<<Topic0("NoteConfirmed"), cmx>>, Encode(<<Word, Word>>, <<root, Num(confirmed)>>))
           events == <<e>>
           log == [tx |-> 0, event |-> "NoteConfirmed",
                   read |-> Ok([cmx |-> cmx, new_root |-> root, position |-> confirmed])]
           new == [i \in DOMAIN events |-> Log(0, Relayed, events[i])]
           scale == IF "shield" \in pool.calls THEN Scale ELSE 0
<1>1. /\ confirmed < Len(queue) /\ confirmed' = confirmed + 1 /\ logs' = logs \o new
      /\ UNCHANGED <<pool, txs, queue, balances, refused, index>>
  BY DEF ConfirmNote, Emit
<1>2. /\ pool \in Generations /\ QueueFits(txs, queue) /\ IsSeq(logs) /\ IsSeq(queue)
      /\ confirmed \in 0 .. Len(queue) /\ refused = FALSE /\ index.cursor \in 0 .. Len(logs)
  BY DEF IndexingInv, QueueFits
<1>3. Len(queue) \in Nat /\ confirmed \in Nat /\ confirmed < U64
  BY <1>1, <1>2, QueueBound, BundleAssumption
<1>4. Log(0, Relayed, e) = log
  <2> HIDE DEF cmx, root
  <2> QED
    BY <1>3, ConfirmedLogIs
<1>5. IsSeq(new) /\ Len(new) = 1 /\ new[1] = log
  <2> HIDE DEF e, log
  <2>1. IsSeq(events) /\ Len(events) = 1 /\ events[1] = e
    BY TuplesAreSeqs
  <2> HIDE DEF events
  <2>2. DOMAIN events = 1 .. 1
    BY <2>1, SeqFacts
  <2>3. new = [i \in 1 .. 1 |-> new[i]] /\ new[1] = log
    BY <1>4, <2>1, <2>2
  <2> HIDE DEF new
  <2> QED
    BY <2>3, FunctionIsSeq, 1 \in Nat
<1> HIDE DEF new, events, e
<1>6. PICK w, g :
        /\ \A i \in 1 .. Len(queue) : Sourced(pool, txs, queue, i, w[i])
        /\ History(pool, queue, w, logs, g)
        /\ g[Len(logs)] = View(Len(queue), confirmed, g[Len(logs)].units, {}, scale)
        /\ balances = [a \in Accounts |-> Scale * g[Len(logs)].units[a]]
        /\ index = IndexAt(queue, w, index.cursor, g[index.cursor])
  BY DEF IndexingInv, Told
<1> DEFINE h == g[Len(logs)]
           u == h.units
           k == View(Len(queue), confirmed + 1, u, {}, scale)
           f == [i \in {0, 1} |-> IF i = 0 THEN h ELSE k]
<1>7. f[0] = h /\ f[1] = k /\ f[Len(new)] = k
  BY <1>5
<1>8. h = View(Len(queue), confirmed, u, {}, scale) /\ u \in [Accounts -> Int]
  <2>1. Len(logs) \in 0 .. Len(logs)
    BY <1>2, SeqFacts
  <2> QED
    BY <1>6, <2>1 DEF History, IsView
<1>9. /\ h.notes = Len(queue) /\ h.confirmed = confirmed /\ h.owed = {} /\ h.scale = scale
      /\ k.units = u
  <2> DEFINE v == View(Len(queue), confirmed, u, {}, scale)
  <2>1. v.notes = Len(queue) /\ v.confirmed = confirmed /\ v.owed = {} /\ v.scale = scale /\ k.units = u
    BY ViewIs
  <2>2. h = v
    BY <1>8
  <2> HIDE DEF v, h, k
  <2> QED
    BY <2>1, <2>2
<1> HIDE DEF h, u, scale, f
<1>10. IsView(queue, k)
  <2>1. confirmed + 1 \in Nat /\ confirmed + 1 <= Len(queue)
    BY <1>1, <1>3
  <2> QED
    BY <1>3, <1>8, <2>1, SeenMore
<1>11. TellsConfirmed(queue, h, log, k)
  <2>1. root = Leaves(queue, confirmed + 1)
    BY DEF RootOf, Leaves
  <2>2. h.confirmed + 1 = confirmed + 1 /\ confirmed + 1 <= h.notes
    BY <1>1, <1>3, <1>9
  <2>3. k = View(h.notes, confirmed + 1, h.units, h.owed, h.scale)
    BY <1>9 DEF u
  <2>4. log = [tx |-> 0, event |-> "NoteConfirmed",
               read |-> Ok([cmx |-> cmx, new_root |-> Leaves(queue, confirmed + 1), position |-> h.confirmed])]
    BY <1>9, <2>1
  <2> HIDE DEF k, log, root
  <2> QED
    BY <2>2, <2>3, <2>4 DEF TellsConfirmed
<1>12. \A i \in 1 .. Len(new) : IsView(queue, f[i]) /\ Tells(pool, queue, w, f[i - 1], new[i], f[i])
  <2> TAKE i \in 1 .. Len(new)
  <2>1. i = 1 /\ i - 1 = 0
    BY <1>5
  <2> HIDE DEF k, log
  <2> QED
    BY <1>5, <1>7, <1>10, <1>11, <2>1 DEF Tells
<1> DEFINE all == logs \o new
<1> HIDE DEF all
<1>13. Continues(pool, queue, w, g[Len(logs)], new, f, k)
  <2> HIDE DEF k, log
  <2> QED
    BY <1>5, <1>7, <1>12 DEF h, Continues
<1>14. all = Followed(logs, new) /\ balances = Worth(u)
  BY <1>6 DEF all, Followed, Worth, h, u
<1>15. /\ Told(pool, txs, queue, confirmed + 1, all, balances, index)
       /\ IsSeq(all) /\ index.cursor \in 0 .. Len(all)
  <2>1. Continues(pool, queue, w, g[Len(logs)], new, f,
                  View(Len(queue), confirmed + 1, u, {}, PoolScale(pool)))
    BY <1>13 DEF scale, PoolScale
  <2>2. Knows(pool, txs, queue, logs, index, w, g)
    BY <1>2, <1>6 DEF Knows
  <2>3. Grown(pool, txs, queue, confirmed + 1, Followed(logs, new), Worth(u), index)
    BY <2>1, <2>2, ToldGrows
  <2>4. Grown(pool, txs, queue, confirmed + 1, all, balances, index)
    BY <1>14, <2>3
  <2> QED
    BY <2>4 DEF Grown
<1>16. confirmed + 1 \in 0 .. Len(queue)
  BY <1>1, <1>3
<1>17. Told(pool, txs, queue, confirmed, logs, balances, index)' /\ IsSeq(logs)'
       /\ (index.cursor \in 0 .. Len(logs))' /\ (confirmed \in 0 .. Len(queue))'
  BY <1>1, <1>15, <1>16 DEF all
<1> QED
  BY <1>1, <1>2, <1>17 DEF IndexingInv

\* A batch is one update or two.
LEMMA BatchesAre ==
    ASSUME Len(queue) \in Nat, confirmed \in Nat, confirmed <= Len(queue), NEW js \in Batches
    PROVE  /\ IsSeq(js) /\ Len(js) \in {1, 2} /\ DOMAIN js = 1 .. Len(js)
           /\ \A i \in 1 .. Len(js) : js[i] \in Nat \ {0}
<1> DEFINE left == Len(queue) - confirmed
<1>1. \A j \in 1 .. left : j \in Nat \ {0}
  OBVIOUS
<1> HIDE DEF left
<1>2. (\E j \in 1 .. left : js = <<j>>) \/ (\E i, j \in 1 .. left : js = <<i, j>>)
  BY DEF Batches, left
<1>3. CASE \E j \in 1 .. left : js = <<j>>
  <2>1. PICK j \in 1 .. left : js = <<j>>
    BY <1>3
  <2>2. IsSeq(js) /\ Len(js) = 1 /\ js[1] = j
    BY <2>1, TuplesAreSeqs
  <2>3. \A i \in 1 .. 1 : i = 1
    OBVIOUS
  <2> QED
    BY <1>1, <2>2, <2>3, SeqFacts
<1>4. CASE \E i, j \in 1 .. left : js = <<i, j>>
  <2>1. PICK i, j \in 1 .. left : js = <<i, j>>
    BY <1>4
  <2>2. IsSeq(js) /\ Len(js) = 2 /\ js[1] = i /\ js[2] = j
    BY <2>1, TuplesAreSeqs
  <2>3. \A l \in 1 .. 2 : l = 1 \/ l = 2
    OBVIOUS
  <2> QED
    BY <1>1, <2>2, <2>3, SeqFacts
<1> QED
  BY <1>2, <1>3, <1>4

\* Where the updates of a batch end.
EndsAt(js, end) ==
    /\ end[0] = confirmed
    /\ \A i \in 1 .. Len(js) : end[i] = end[i - 1] + js[i]

LEMMA EndsAtBounds ==
    ASSUME confirmed \in Nat, NEW js, Len(js) \in {1, 2}, \A i \in 1 .. Len(js) : js[i] \in Nat \ {0},
           NEW end, EndsAt(js, end)
    PROVE  \A i \in 0 .. Len(js) : end[i] \in Nat /\ confirmed <= end[i] /\ end[i] <= end[Len(js)]
<1>1. end[0] = confirmed
  BY DEF EndsAt
<1>2. 1 \in 1 .. Len(js) /\ 1 - 1 = 0
  OBVIOUS
<1>3. end[1] = confirmed + js[1] /\ js[1] \in Nat
  BY <1>1, <1>2 DEF EndsAt
<1>4. CASE Len(js) = 1
  <2>1. \A i \in 0 .. 1 : i = 0 \/ i = 1
    OBVIOUS
  <2> QED
    BY <1>1, <1>3, <1>4, <2>1
<1>5. CASE Len(js) = 2
  <2>1. \A i \in 0 .. 2 : i = 0 \/ i = 1 \/ i = 2
    OBVIOUS
  <2>2. 2 \in 1 .. Len(js) /\ 2 - 1 = 1
    BY <1>5
  <2>3. end[2] = end[1] + js[2] /\ js[2] \in Nat
    BY <2>2 DEF EndsAt
  <2> QED
    BY <1>1, <1>3, <1>5, <2>1, <2>3
<1> QED
  BY <1>4, <1>5

UpdatesFrom(js, end) == [i \in DOMAIN js |-> Update(end[i - 1], js[i])]

BatchCalldata(js, updates) ==
    IF Len(js) = 1 THEN encode_update_root_calldata(updates[1])
    ELSE encode_update_roots_calldata(updates)

\* What the pool reads is the updates the crank encoded.
LEMMA BatchRead ==
    ASSUME NEW js, IsSeq(js), Len(js) \in {1, 2}, NEW end
    PROVE  \A i \in 1 .. Len(js) :
             ReadUpdates(BatchCalldata(js, UpdatesFrom(js, end)))[i] = UpdateToken(end[i - 1], js[i])
<1> DEFINE updates == UpdatesFrom(js, end)
<1>0. updates = [i \in DOMAIN js |-> Update(end[i - 1], js[i])]
  BY DEF UpdatesFrom
<1> HIDE DEF updates
<1>1. DOMAIN js = 1 .. Len(js) /\ Len(js) \in Nat
  BY SeqFacts
<1>2. \A i \in 1 .. Len(js) : updates[i] = Update(end[i - 1], js[i])
  BY <1>0, <1>1
<1>3. CASE Len(js) = 1
  <2> DEFINE u == UpdateToken(end[1 - 1], js[1])
  <2>1. updates[1] = Update(end[1 - 1], js[1])
    BY <1>2, <1>3
  <2>2. ReadUpdates(encode_update_root_calldata(Update(end[1 - 1], js[1]))) = <<u>>
    BY OneUpdateRead
  <2>3. \A i \in 1 .. 1 : i = 1
    OBVIOUS
  <2>4. <<u>>[1] = u
    OBVIOUS
  <2> HIDE DEF u
  <2>5. ReadUpdates(encode_update_root_calldata(updates[1]))[1] = u
    BY <2>1, <2>2, <2>4
  <2> QED
    BY <1>3, <2>3, <2>5 DEF u, BatchCalldata, updates
<1>4. CASE Len(js) = 2
  <2>1. IsSeq(updates) /\ Len(updates) = Len(js)
    <3>1. updates = [i \in 1 .. Len(js) |-> updates[i]]
      BY <1>0, <1>1
    <3> QED
      BY <1>1, <3>1, FunctionIsSeq
  <2>2. \A i \in 1 .. Len(updates) : \E n, j : updates[i] = Update(n, j)
    BY <1>2, <2>1
  <2>3. Len(updates) \in 1 .. 2 /\ DOMAIN updates = 1 .. Len(js)
    BY <1>0, <1>1, <1>4, <2>1
  <2>4. ReadUpdates(encode_update_roots_calldata(updates)) =
          [i \in DOMAIN updates |-> root_update_token(updates[i])]
    BY <2>1, <2>2, <2>3, UpdatesRead
  <2>5. ASSUME NEW i \in 1 .. Len(js)
        PROVE  ReadUpdates(encode_update_roots_calldata(updates))[i] = UpdateToken(end[i - 1], js[i])
    <3>1. ReadUpdates(encode_update_roots_calldata(updates))[i] = root_update_token(updates[i])
      BY <2>3, <2>4
    <3>2. \A n, j : root_update_token(Update(n, j)) = UpdateToken(n, j)
      BY UpdateTokenIs
    <3> QED
      BY <1>2, <3>1, <3>2
  <2>6. Len(js) # 1
    BY <1>4
  <2> QED
    BY <2>5, <2>6 DEF BatchCalldata, updates
<1> QED
  BY <1>3, <1>4

\* All the updates are accepted, each from where the one before it ends.
LEMMA UpdatesAccepted ==
    ASSUME Len(queue) \in Nat, confirmed \in Nat, confirmed <= Len(queue), NEW js \in Batches,
           UpdateRoots(js)
    PROVE  \E end :
             /\ EndsAt(js, end) /\ end[Len(js)] <= Len(queue) /\ confirmed' = end[Len(js)]
             /\ logs' = logs \o [i \in DOMAIN js |->
                                   Log(0, Relayed, RootUpdated(end[i - 1], UpdateToken(end[i - 1], js[i])))]
             /\ UNCHANGED <<pool, txs, queue, balances, refused, index>>
<1> DEFINE End[i \in 0 .. Len(js)] == IF i = 0 THEN confirmed ELSE End[i - 1] + js[i]
           updates == [i \in DOMAIN js |-> Update(End[i - 1], js[i])]
           calldata == IF Len(js) = 1 THEN encode_update_root_calldata(updates[1])
                       ELSE encode_update_roots_calldata(updates)
           read == ReadUpdates(calldata)
           events == [i \in DOMAIN js |-> RootUpdated(End[i - 1], read[i])]
<1>1. /\ IsSeq(js) /\ Len(js) \in {1, 2} /\ DOMAIN js = 1 .. Len(js)
      /\ \A i \in 1 .. Len(js) : js[i] \in Nat \ {0}
  BY BatchesAre
<1>2. /\ End[Len(js)] <= Len(queue)
      /\ IF \A i \in DOMAIN js : AcceptsUpdate(End[i - 1], read[i])
         THEN confirmed' = End[Len(js)] /\ Emit(0, Relayed, events) /\ UNCHANGED refused
         ELSE refused' = TRUE /\ UNCHANGED <<confirmed, logs>>
      /\ UNCHANGED <<pool, txs, queue, balances, index>>
  BY DEF UpdateRoots
<1>3. EndsAt(js, End)
  <2> DEFINE n == Len(js)
             Eq(f) == f = [i \in 0 .. n |-> IF i = 0 THEN confirmed ELSE f[i - 1] + js[i]]
             W == [i \in 0 .. n |-> IF i = 0 THEN confirmed
                                    ELSE IF i = 1 THEN confirmed + js[1] ELSE confirmed + js[1] + js[2]]
  <2>1. Eq(W)
    <3> DEFINE V == [i \in 0 .. n |-> IF i = 0 THEN confirmed ELSE W[i - 1] + js[i]]
    <3>1. \A i \in 0 .. n : i = 0 \/ i = 1 \/ i = 2
      BY <1>1
    <3>2. n \in {1, 2}
      BY <1>1
    <3> HIDE DEF n
    <3>3. \A i \in 0 .. n : W[i] = V[i]
      BY <3>1, <3>2
    <3> QED
      BY <3>3
  <2>2. End = CHOOSE f : Eq(f)
    OBVIOUS
  <2> HIDE DEF Eq, W
  <2>3. Eq(End)
    BY <2>1, <2>2
  <2> HIDE DEF End
  <2>4. End = [i \in 0 .. n |-> IF i = 0 THEN confirmed ELSE End[i - 1] + js[i]]
    BY <2>3 DEF Eq
  <2> QED
    BY <1>1, <2>4 DEF EndsAt
<1> HIDE DEF End
<1>4. \A i \in 1 .. Len(js) : read[i] = UpdateToken(End[i - 1], js[i])
  <2>1. read = ReadUpdates(BatchCalldata(js, UpdatesFrom(js, End)))
    BY DEF BatchCalldata, UpdatesFrom
  <2> HIDE DEF read, updates, calldata, events
  <2> QED
    BY <1>1, <2>1, BatchRead
<1> HIDE DEF read
<1>5. \A i \in DOMAIN js : AcceptsUpdate(End[i - 1], read[i])
  <2> TAKE i \in DOMAIN js
  <2>1. i \in 1 .. Len(js) /\ i - 1 \in 0 .. Len(js) /\ i \in 0 .. Len(js)
    BY <1>1
  <2>2. \A k \in 0 .. Len(js) : End[k] \in Nat /\ confirmed <= End[k] /\ End[k] <= End[Len(js)]
    <3>1. Len(js) \in {1, 2} /\ \A k \in 1 .. Len(js) : js[k] \in Nat \ {0}
      BY <1>1
    <3> HIDE DEF read, calldata, updates, events
    <3> QED
      BY <1>3, <3>1, EndsAtBounds
  <2>3. End[i - 1] \in Nat /\ End[i] = End[i - 1] + js[i] /\ js[i] \in Nat /\ End[i] <= End[Len(js)]
        /\ End[Len(js)] \in Nat
    BY <1>1, <1>3, <2>1, <2>2 DEF EndsAt
  <2>4. End[i - 1] + js[i] <= Len(queue)
    BY <1>2, <2>3
  <2> QED
    BY <1>4, <2>1, <2>3, <2>4, UpdateAccepted
<1>6. confirmed' = End[Len(js)] /\ Emit(0, Relayed, events) /\ UNCHANGED refused
  BY <1>2, <1>5
<1>7. logs' = logs \o [i \in DOMAIN js |->
                         Log(0, Relayed, RootUpdated(End[i - 1], UpdateToken(End[i - 1], js[i])))]
  <2>1. logs' = logs \o [i \in DOMAIN events |-> Log(0, Relayed, events[i])]
    BY <1>6 DEF Emit
  <2>2. DOMAIN events = DOMAIN js
    OBVIOUS
  <2>3. \A i \in DOMAIN js : events[i] = RootUpdated(End[i - 1], UpdateToken(End[i - 1], js[i]))
    BY <1>1, <1>4
  <2> HIDE DEF events
  <2>4. [i \in DOMAIN events |-> Log(0, Relayed, events[i])] =
          [i \in DOMAIN js |-> Log(0, Relayed, RootUpdated(End[i - 1], UpdateToken(End[i - 1], js[i])))]
    BY <2>2, <2>3
  <2> QED
    BY <2>1, <2>4
<1> QED
  BY <1>2, <1>3, <1>6, <1>7

LEMMA IndexingUpdates ==
    ASSUME IndexingInv, NEW js \in Batches, UpdateRoots(js)
    PROVE  IndexingInv'
<1> DEFINE n == Len(js)
           scale == PoolScale(pool)
<1>1. /\ pool \in Generations /\ QueueFits(txs, queue) /\ IsSeq(logs) /\ IsSeq(queue)
      /\ confirmed \in 0 .. Len(queue) /\ refused = FALSE /\ index.cursor \in 0 .. Len(logs)
  BY DEF IndexingInv, QueueFits
<1>2. /\ Len(queue) \in Nat /\ confirmed \in Nat /\ confirmed <= Len(queue)
      /\ Len(queue) < U32 /\ Len(queue) < U64
  BY <1>1, QueueBound
<1>3. /\ n \in {1, 2} /\ DOMAIN js = 1 .. n /\ \A i \in 1 .. n : js[i] \in Nat \ {0}
  BY <1>2, BatchesAre
<1>4. PICK end :
        /\ EndsAt(js, end) /\ end[n] <= Len(queue) /\ confirmed' = end[n]
        /\ logs' = logs \o [i \in DOMAIN js |->
                              Log(0, Relayed, RootUpdated(end[i - 1], UpdateToken(end[i - 1], js[i])))]
        /\ UNCHANGED <<pool, txs, queue, balances, refused, index>>
  BY <1>2, UpdatesAccepted
<1>5. \A i \in 0 .. n : end[i] \in Nat /\ confirmed <= end[i] /\ end[i] <= end[n]
  <2>1. Len(js) \in {1, 2} /\ \A i \in 1 .. Len(js) : js[i] \in Nat \ {0}
    BY <1>3
  <2>2. confirmed \in Nat /\ EndsAt(js, end)
    BY <1>2, <1>4
  <2> QED
    BY <2>1, <2>2, EndsAtBounds
<1>6. \A i \in 0 .. n : end[i] \in Nat /\ end[i] <= Len(queue)
  BY <1>2, <1>3, <1>4, <1>5
<1> DEFINE new == [i \in DOMAIN js |->
                     Log(0, Relayed, RootUpdated(end[i - 1], UpdateToken(end[i - 1], js[i])))]
           log(i) == [tx |-> 0, event |-> "RootUpdated",
                      read |-> Ok([new_root |-> Leaves(queue, end[i]), from_count |-> end[i - 1],
                                   to_count |-> end[i], batch_size |-> js[i]])]
<1>7. ASSUME NEW i \in 1 .. n PROVE new[i] = log(i)
  <2> DEFINE from == end[i - 1]
             j == js[i]
             x == [frontier |-> from + j]
             y == <<[confirms |-> RootOf(from + j), from |-> from]>>
             root == RootOf(from + j)
  <2>1. i - 1 \in 0 .. n /\ i \in 0 .. n
    BY <1>3
  <2>2. from \in Nat /\ j \in Nat /\ end[i] = from + j /\ from + j < U64 /\ j < U32
    <3>1. from \in Nat /\ end[i] \in Nat /\ end[i] <= Len(queue) /\ j \in Nat
      BY <1>3, <1>6, <2>1
    <3>2. end[i] = from + j
      BY <1>4 DEF EndsAt
    <3>3. U32 \in Nat /\ U64 \in Nat
      BY AbiAssumption, BundleAssumption
    <3> HIDE DEF from, j
    <3> QED
      BY <1>2, <3>1, <3>2, <3>3
  <2>3. new[i] = Log(0, Relayed, RootUpdated(from, <<root, x, Num(j), y>>))
    BY <1>3 DEF UpdateToken
  <2>4. root = Leaves(queue, end[i])
    BY <2>2 DEF RootOf, Leaves
  <2> HIDE DEF from, j, x, y, root, new
  <2>5. Log(0, Relayed, RootUpdated(from, <<root, x, Num(j), y>>)) =
          [tx |-> 0, event |-> "RootUpdated",
           read |-> Ok([new_root |-> root, from_count |-> from, to_count |-> from + j, batch_size |-> j])]
    <3>1. from \in Nat /\ j \in Nat /\ from + j < U64 /\ j < U32
      BY <2>2
    <3> HIDE DEF log
    <3> QED
      BY ONLY <3>1, RootUpdatedLogIs
  <2> QED
    BY <2>2, <2>3, <2>4, <2>5 DEF from, j
<1>8. logs' = Followed(logs, new) /\ DOMAIN new = 1 .. n
  BY <1>3, <1>4 DEF Followed
<1>9. IsSeq(new) /\ Len(new) = n
  <2>1. n \in Nat /\ new = [i \in 1 .. n |-> new[i]]
    BY <1>3
  <2> HIDE DEF new, n
  <2> QED
    BY <2>1, FunctionIsSeq
<1>10. PICK w, g :
        /\ \A i \in 1 .. Len(queue) : Sourced(pool, txs, queue, i, w[i])
        /\ History(pool, queue, w, logs, g)
        /\ g[Len(logs)] = View(Len(queue), confirmed, g[Len(logs)].units, {},
                               IF "shield" \in pool.calls THEN Scale ELSE 0)
        /\ balances = [a \in Accounts |-> Scale * g[Len(logs)].units[a]]
        /\ index = IndexAt(queue, w, index.cursor, g[index.cursor])
  BY DEF IndexingInv, Told
<1> DEFINE h == g[Len(logs)]
           u == h.units
           v(i) == View(Len(queue), end[i], u, {}, scale)
           f == [i \in 0 .. n |-> v(i)]
<1>11. h = View(Len(queue), confirmed, u, {}, scale)
  BY <1>10 DEF PoolScale
<1>12. u \in [Accounts -> Int]
  <2>1. Len(logs) \in 0 .. Len(logs)
    BY <1>1, SeqFacts
  <2> QED
    BY <1>10, <2>1 DEF History, IsView
<1> HIDE DEF u, scale, h
<1>13. f[0] = h /\ f[n] = v(n) /\ \A i \in 0 .. n : f[i] = v(i)
  BY <1>3, <1>4, <1>11 DEF EndsAt
<1> HIDE DEF f, new
<1>14. \A i \in 0 .. n : /\ v(i).notes = Len(queue) /\ v(i).confirmed = end[i] /\ v(i).units = u
                         /\ v(i).owed = {} /\ v(i).scale = scale
  BY ViewIs
<1>15. ASSUME NEW i \in 1 .. n
       PROVE  IsView(queue, f[i]) /\ Tells(pool, queue, w, f[i - 1], new[i], f[i])
  <2> DEFINE a == f[i - 1]
             b == f[i]
             j == js[i]
  <2>1. i - 1 \in 0 .. n /\ i \in 0 .. n /\ j \in Nat \ {0}
    BY <1>3
  <2>2. end[i - 1] \in Nat /\ end[i] \in Nat /\ end[i] <= Len(queue)
    BY <1>6, <2>1
  <2>3. end[i] = end[i - 1] + j
    BY <1>4 DEF EndsAt
  <2>4. IsView(queue, b)
    <3>1. IsView(queue, v(i))
      BY <1>2, <1>12, <2>2, SeenMore
    <3> QED
      BY <1>13, <2>1, <3>1
  <2>5. a.notes = Len(queue) /\ a.confirmed = end[i - 1] /\ a.units = u /\ a.owed = {} /\ a.scale = scale
    <3> HIDE DEF v
    <3> QED
      BY <1>13, <1>14, <2>1
  <2>6. b = View(a.notes, end[i], a.units, a.owed, a.scale)
    BY <1>13, <2>1, <2>5
  <2>7. new[i] = [tx |-> 0, event |-> "RootUpdated",
                  read |-> Ok([new_root |-> Leaves(queue, end[i]), from_count |-> a.confirmed,
                               to_count |-> end[i], batch_size |-> j])]
    BY <1>7, <2>5
  <2>8. end[i] = a.confirmed + j /\ end[i] <= a.notes
    BY <2>2, <2>3, <2>5
  <2> HIDE DEF a, b, j, v
  <2>9. TellsUpdate(queue, a, new[i], b)
    BY <2>1, <2>6, <2>7, <2>8 DEF TellsUpdate
  <2>10. Tells(pool, queue, w, a, new[i], b)
    BY <2>9 DEF Tells
  <2> QED
    BY <2>4, <2>10 DEF a, b
<1>16. Continues(pool, queue, w, g[Len(logs)], new, f, View(Len(queue), end[n], u, {}, PoolScale(pool)))
  <2>1. f[Len(new)] = View(Len(queue), end[n], u, {}, PoolScale(pool))
    BY <1>9, <1>13 DEF scale
  <2>2. f[0] = g[Len(logs)]
    BY <1>13 DEF h
  <2>3. \A i \in 1 .. Len(new) : IsView(queue, f[i]) /\ Tells(pool, queue, w, f[i - 1], new[i], f[i])
    BY <1>9, <1>15
  <2> QED
    BY <1>9, <2>1, <2>2, <2>3 DEF Continues
<1>17. Knows(pool, txs, queue, logs, index, w, g)
  BY <1>1, <1>10 DEF Knows
<1>18. Grown(pool, txs, queue, end[n], Followed(logs, new), Worth(u), index)
  <2> HIDE DEF n
  <2> QED
    BY <1>16, <1>17, ToldGrows
<1>19. balances = Worth(u)
  BY <1>10 DEF Worth, u, h
<1>20. Grown(pool, txs, queue, confirmed, logs, balances, index)'
  BY <1>4, <1>8, <1>18, <1>19
<1>21. (confirmed \in 0 .. Len(queue))'
  BY <1>2, <1>3, <1>4, <1>6
<1> QED
  BY <1>1, <1>4, <1>20, <1>21 DEF Grown, IndexingInv

-----------------------------------------------------------------------------
(* A submitted call *)

Items(tx, call, actions, amount) ==
    [i \in DOMAIN actions |->
       [action |-> actions[i], tx |-> tx,
        shielded |-> IF call = "shield.erc" /\ i = 1 THEN <<amount>> ELSE Absent]]

MovedEvent(event, account, amount) ==
    Emitted(<<Topic0(event), account>>, Encode(<<Word, Word>>, <<Num(amount), Num(Scale * amount)>>))
DepositEvent(cmx, amount) ==
    Emitted(<<Topic0("ShieldCompleted"), cmx>>, Encode(<<Word>>, <<Num(amount)>>))

MoneyEvents(call, actions, amount) ==
    CASE call = "shield" -> <<MovedEvent("Shielded", User, amount)>>
      [] call = "unshield" -> <<MovedEvent("Unshielded", Other, amount)>>
      [] call = "shield.erc" -> <<DepositEvent(actions[1].cmx, amount)>>
      [] OTHER -> << >>

NoteEvents(actions) == [i \in DOMAIN actions |-> NoteAdded(actions[i])]
EventsOf(call, actions, amount) == NoteEvents(actions) \o MoneyEvents(call, actions, amount)
CiphersIn(call, actions) == IF call \in BundleCalls THEN ByCmx(actions) ELSE Err("BadSelector")

CallLogs(tx, call, actions, amount) ==
    [i \in DOMAIN EventsOf(call, actions, amount) |->
       Log(tx, CiphersIn(call, actions), EventsOf(call, actions, amount)[i])]

\* A call that moves money emits one log more than it has notes.
MoneyCalls == {"shield", "unshield", "shield.erc"}
MoneyLogs(call) == IF call \in MoneyCalls THEN 1 ELSE 0

LEMMA SubmitIs ==
    ASSUME pool \in Generations, NEW call \in pool.calls, NEW actions \in Bundles,
           NEW amount \in AmountsOf(call), Submit(call, actions, amount)
    PROVE  /\ Len(txs) < MaxTxs /\ IsBundle(actions) /\ amount \in {0} \cup Amounts
           /\ txs' = Append(txs, call)
           /\ queue' = queue \o Items(Len(txs) + 1, call, actions, amount)
           /\ logs' = logs \o CallLogs(Len(txs) + 1, call, actions, amount)
           /\ balances' = Moves(call, Num(amount))
           /\ UNCHANGED <<pool, confirmed, refused, index>>
<1> DEFINE cd == CalldataFor(call, actions, amount)
           r == Receive(cd.value)
           by_cmx == bundle_actions_by_cmx(cd.value)
           tx == Len(txs) + 1
           events == [i \in DOMAIN r.actions |-> NoteAdded(r.actions[i])] \o Custody(call, r)
<1>1. IsBundle(actions)
  BY BundlesAre
<1>2. Delivered(call, cd, actions, amount) /\ amount \in {0} \cup Amounts
  BY <1>1, CallDelivered
<1>3. /\ Len(txs) < MaxTxs
      /\ IF AcceptsBundle(call, r)
         THEN /\ txs' = Append(txs, call) /\ queue' = queue \o Enqueued(tx, call, r)
              /\ Emit(tx, by_cmx, events) /\ balances' = Moves(call, r.amount) /\ UNCHANGED refused
         ELSE refused' = TRUE /\ UNCHANGED <<txs, queue, logs, balances>>
      /\ UNCHANGED <<pool, confirmed, index>>
  BY DEF Submit
<1>4. /\ r.actions = actions /\ r.amount = Num(amount) /\ AcceptsBundle(call, r)
      /\ by_cmx = CiphersIn(call, actions)
  BY <1>2 DEF Delivered, CiphersIn
<1> HIDE DEF r, by_cmx
<1>5. Num(amount).n = amount
  BY DEF Num
<1>6. Enqueued(tx, call, r) = Items(tx, call, actions, amount)
  BY <1>4, <1>5 DEF Enqueued, Items
<1>7. Custody(call, r) = MoneyEvents(call, actions, amount)
  BY <1>4, <1>5 DEF Custody, MoneyEvents, MovedEvent, DepositEvent
<1>8. events = EventsOf(call, actions, amount)
  BY <1>4, <1>7 DEF EventsOf, NoteEvents
<1> HIDE DEF events
<1>9. logs' = logs \o CallLogs(tx, call, actions, amount)
  BY <1>3, <1>4, <1>8 DEF Emit, CallLogs
<1> QED
  BY <1>1, <1>2, <1>3, <1>4, <1>6, <1>9

\* The logs of a transaction that the pool accepts.
TransactionLogs(ls, tx, call, actions, amount) ==
    LET m == Len(actions)
    IN  /\ IsSeq(ls) /\ Len(ls) = m + MoneyLogs(call)
        /\ \A i \in 1 .. m :
             ls[i] = [tx |-> tx, event |-> pool.topic,
                      read |-> Ok(NoteRecord(actions[i], IndexedCiphers(call, actions, i)))]
        /\ call = "shield" =>
             ls[m + 1] = [tx |-> tx, event |-> "Shielded",
                          read |-> Ok([actor |-> User, amount_units |-> amount,
                                       wei_amount |-> Scale * amount])]
        /\ call = "unshield" =>
             ls[m + 1] = [tx |-> tx, event |-> "Unshielded",
                          read |-> Ok([actor |-> Other, amount_units |-> amount,
                                       wei_amount |-> Scale * amount])]
        /\ call = "shield.erc" =>
             ls[m + 1] = [tx |-> tx, event |-> "ShieldCompleted",
                          read |-> Ok([cmx |-> actions[1].cmx, amount |-> amount])]

LEMMA LogsAre ==
    ASSUME pool \in Generations, NEW call, NEW actions, IsBundle(actions),
           NEW amount \in {0} \cup Amounts, NEW tx
    PROVE  TransactionLogs(CallLogs(tx, call, actions, amount), tx, call, actions, amount)
<1> DEFINE ls == CallLogs(tx, call, actions, amount)
           m == Len(actions)
           notes == NoteEvents(actions)
           money == MoneyEvents(call, actions, amount)
           events == EventsOf(call, actions, amount)
           by_cmx == CiphersIn(call, actions)
<1>1. IsSeq(actions) /\ DOMAIN actions = 1 .. m /\ m \in Nat
  BY SeqFacts DEF IsBundle
<1>2. IsSeq(notes) /\ Len(notes) = m /\ \A i \in 1 .. m : notes[i] = NoteAdded(actions[i])
  <2>1. notes = [i \in 1 .. m |-> notes[i]] /\ \A i \in 1 .. m : notes[i] = NoteAdded(actions[i])
    BY <1>1 DEF NoteEvents
  <2> HIDE DEF notes
  <2> QED
    BY <1>1, <2>1, FunctionIsSeq
<1>3. /\ IsSeq(money) /\ Len(money) = MoneyLogs(call)
      /\ call = "shield" => money[1] = MovedEvent("Shielded", User, amount)
      /\ call = "unshield" => money[1] = MovedEvent("Unshielded", Other, amount)
      /\ call = "shield.erc" => money[1] = DepositEvent(actions[1].cmx, amount)
  <2>1. CASE call = "shield"
    BY <2>1, TuplesAreSeqs DEF MoneyEvents, MoneyLogs, MoneyCalls
  <2>2. CASE call = "unshield"
    BY <2>2, TuplesAreSeqs DEF MoneyEvents, MoneyLogs, MoneyCalls
  <2>3. CASE call = "shield.erc"
    BY <2>3, TuplesAreSeqs DEF MoneyEvents, MoneyLogs, MoneyCalls
  <2>4. CASE call \notin MoneyCalls
    BY <2>4, EmptyIs DEF MoneyEvents, MoneyLogs, MoneyCalls
  <2> QED
    BY <2>1, <2>2, <2>3, <2>4 DEF MoneyCalls
<1> DEFINE c == MoneyLogs(call)
<1>4. c \in {0, 1}
  BY DEF MoneyLogs
<1> HIDE DEF notes, money, c
<1>5. /\ IsSeq(events) /\ Len(events) = m + c
      /\ \A i \in 1 .. m : events[i] = notes[i]
      /\ \A i \in 1 .. c : events[m + i] = money[i]
  <2>1. events = notes \o money
    BY DEF EventsOf, notes, money
  <2>2. Len(money) = c
    BY <1>3 DEF c
  <2> HIDE DEF events
  <2>3. /\ IsSeq(notes \o money) /\ Len(notes \o money) = Len(notes) + Len(money)
        /\ \A i \in 1 .. Len(notes) : (notes \o money)[i] = notes[i]
        /\ \A i \in 1 .. Len(money) : (notes \o money)[Len(notes) + i] = money[i]
    BY <1>2, <1>3, ConcatIsSeq
  <2> QED
    BY <1>2, <2>1, <2>2, <2>3
<1> HIDE DEF events
<1>6. DOMAIN events = 1 .. m + c /\ m + c \in Nat
  BY <1>1, <1>4, <1>5, SeqFacts
<1>7. \A i \in 1 .. m + c : ls[i] = Log(tx, by_cmx, events[i])
  BY <1>6 DEF CallLogs, events
<1>8. IsSeq(ls) /\ Len(ls) = m + c
  <2>1. ls = [i \in 1 .. m + c |-> ls[i]]
    BY <1>6 DEF CallLogs, events
  <2> HIDE DEF ls
  <2> QED
    BY <1>6, <2>1, FunctionIsSeq
<1> HIDE DEF ls
<1>9. ASSUME NEW i \in 1 .. m
      PROVE  ls[i] = [tx |-> tx, event |-> pool.topic,
                      read |-> Ok(NoteRecord(actions[i], IndexedCiphers(call, actions, i)))]
  <2>1. ls[i] = Log(tx, by_cmx, NoteAdded(actions[i]))
    BY <1>1, <1>2, <1>4, <1>5, <1>7
  <2>2. by_cmx = IF call \in BundleCalls THEN ByCmx(actions) ELSE Err("BadSelector")
    BY DEF CiphersIn
  <2> HIDE DEF by_cmx
  <2> QED
    BY <2>1, <2>2, NoteLogIs
<1>10. ASSUME c = 1 PROVE ls[m + 1] = Log(tx, by_cmx, money[1])
  <2>1. m + 1 \in 1 .. m + c /\ 1 \in 1 .. c
    BY <1>1, <1>10
  <2> QED
    BY <1>5, <1>7, <2>1
<1>11. ASSUME call = "shield"
       PROVE  ls[m + 1] = [tx |-> tx, event |-> "Shielded",
                           read |-> Ok([actor |-> User, amount_units |-> amount,
                                        wei_amount |-> Scale * amount])]
  <2>1. ls[m + 1] = Log(tx, by_cmx, MovedEvent("Shielded", User, amount))
    BY <1>3, <1>10, <1>11 DEF c, MoneyLogs, MoneyCalls
  <2>2. "Shielded" \in {"Shielded", "Unshielded"} /\ User \in Accounts
    BY DEF Accounts
  <2> QED
    BY <2>1, <2>2, MovedLogIs DEF MovedEvent
<1>12. ASSUME call = "unshield"
       PROVE  ls[m + 1] = [tx |-> tx, event |-> "Unshielded",
                           read |-> Ok([actor |-> Other, amount_units |-> amount,
                                        wei_amount |-> Scale * amount])]
  <2>1. ls[m + 1] = Log(tx, by_cmx, MovedEvent("Unshielded", Other, amount))
    BY <1>3, <1>10, <1>12 DEF c, MoneyLogs, MoneyCalls
  <2>2. "Unshielded" \in {"Shielded", "Unshielded"} /\ Other \in Accounts
    BY DEF Accounts
  <2> QED
    BY <2>1, <2>2, MovedLogIs DEF MovedEvent
<1>13. ASSUME call = "shield.erc"
       PROVE  ls[m + 1] = [tx |-> tx, event |-> "ShieldCompleted",
                           read |-> Ok([cmx |-> actions[1].cmx, amount |-> amount])]
  <2>1. ls[m + 1] = Log(tx, by_cmx, DepositEvent(actions[1].cmx, amount))
    BY <1>3, <1>10, <1>13 DEF c, MoneyLogs, MoneyCalls
  <2> QED
    BY <2>1, DepositLogIs DEF DepositEvent
<1>14. TransactionLogs(ls, tx, call, actions, amount)
  BY <1>8, <1>9, <1>11, <1>12, <1>13 DEF c, TransactionLogs
<1> QED
  BY <1>14 DEF ls

\* The queue behind a call, and the ciphertexts an indexer has for it.
Queued(q, tx, call, actions, amount) == q \o Items(tx, call, actions, amount)
CiphersWith(w, n, call, actions) ==
    [i \in 1 .. n + Len(actions) |-> IF i <= n THEN w[i] ELSE IndexedCiphers(call, actions, i - n)]

\* The items of a call are the last in its queue.
Behind(q2, q, tx, call, actions, amount) ==
    /\ IsSeq(q2) /\ Len(q2) = Len(q) + Len(actions) /\ DOMAIN q2 = 1 .. Len(q) + Len(actions)
    /\ \A i \in 1 .. Len(q) : q2[i] = q[i]
    /\ \A i \in 1 .. Len(actions) :
         /\ q2[Len(q) + i].action = actions[i] /\ q2[Len(q) + i].tx = tx
         /\ q2[Len(q) + i].shielded = IF call = "shield.erc" /\ i = 1 THEN <<amount>> ELSE Absent

LEMMA QueuedIs ==
    ASSUME NEW q, IsSeq(q), NEW tx, NEW call, NEW actions, IsBundle(actions), NEW amount
    PROVE  Behind(Queued(q, tx, call, actions, amount), q, tx, call, actions, amount)
<1> DEFINE items == Items(tx, call, actions, amount)
           q2 == Queued(q, tx, call, actions, amount)
           m == Len(actions)
<1>1. DOMAIN actions = 1 .. m /\ m \in Nat /\ Len(q) \in Nat
  BY SeqFacts DEF IsBundle
<1>2. /\ items = [i \in 1 .. m |-> items[i]]
      /\ \A i \in 1 .. m : /\ items[i].action = actions[i] /\ items[i].tx = tx
                           /\ items[i].shielded = IF call = "shield.erc" /\ i = 1 THEN <<amount>> ELSE Absent
  BY <1>1 DEF Items
<1> HIDE DEF items
<1>3. IsSeq(items) /\ Len(items) = m
  BY <1>1, <1>2, FunctionIsSeq
<1>4. /\ IsSeq(q \o items) /\ Len(q \o items) = Len(q) + Len(items)
      /\ \A i \in 1 .. Len(q) : (q \o items)[i] = q[i]
      /\ \A i \in 1 .. Len(items) : (q \o items)[Len(q) + i] = items[i]
  BY <1>3, ConcatIsSeq
<1>5. q2 = q \o items
  BY DEF Queued, items
<1> HIDE DEF q2
<1>6. Len(q2) = Len(q) + m /\ DOMAIN q2 = 1 .. Len(q) + m /\ IsSeq(q2)
  BY <1>3, <1>4, <1>5, SeqFacts
<1>7. Behind(q2, q, tx, call, actions, amount)
  BY <1>2, <1>3, <1>4, <1>5, <1>6 DEF Behind
<1> QED
  BY <1>7 DEF q2

\* A note's ciphertexts stay the ones of its source when another call is queued.
LEMMA OldSourced ==
    ASSUME QueueFits(txs, queue), NEW call, NEW actions, NEW amount, NEW q2, Len(actions) \in Nat,
           Behind(q2, queue, Len(txs) + 1, call, actions, amount),
           NEW i \in 1 .. Len(queue), NEW c, Sourced(pool, txs, queue, i, c)
    PROVE  Sourced(pool, Append(txs, call), q2, i, c)
<1> DEFINE t2 == Append(txs, call)
           n == Len(queue)
           tx == Len(txs) + 1
<1>1. /\ n \in Nat /\ Len(txs) \in Nat /\ DOMAIN queue = 1 .. n /\ DOMAIN q2 = 1 .. n + Len(actions)
      /\ \A j \in 1 .. n : q2[j] = queue[j] /\ queue[j].tx \in 1 .. Len(txs)
      /\ \A j \in 1 .. Len(txs) : t2[j] = txs[j]
  BY SeqFacts, AppendIsSeq DEF QueueFits, Behind
<1> HIDE DEF t2
<1>2. \A j \in DOMAIN q2 : j \notin 1 .. n => q2[j].tx = tx
  <2> TAKE j \in DOMAIN q2
  <2> HAVE j \notin 1 .. n
  <2>1. j - n \in 1 .. Len(actions) /\ j = n + (j - n)
    BY <1>1
  <2> QED
    BY <2>1 DEF Behind
<1>3. \A j \in DOMAIN q2 : Twin(q2, i, j) <=> j \in DOMAIN queue /\ Twin(queue, i, j)
  <2> TAKE j \in DOMAIN q2
  <2>1. CASE j \in 1 .. n
    BY <1>1, <2>1 DEF Twin
  <2>2. CASE j \notin 1 .. n
    <3>1. q2[i].tx # q2[j].tx
      BY <1>1, <1>2, <2>2
    <3> QED
      BY <1>1, <2>2, <3>1 DEF Twin
  <2> QED
    BY <2>1, <2>2
<1>4. Sources(pool, t2, q2, i) = Sources(pool, txs, queue, i)
  <2>1. t2[q2[i].tx] = txs[queue[i].tx]
    BY <1>1
  <2>2. {j \in DOMAIN q2 : Twin(q2, i, j) /\ \A l \in DOMAIN q2 : Twin(q2, i, l) => l <= j} =
        {j \in DOMAIN queue : Twin(queue, i, j) /\ \A l \in DOMAIN queue : Twin(queue, i, l) => l <= j}
    <3>1. \A j \in DOMAIN queue : j \in DOMAIN q2
      BY <1>1
    <3> QED
      BY <1>3, <3>1
  <2> QED
    BY <2>1, <2>2 DEF Sources
<1>5. \A j \in Sources(pool, txs, queue, i) : q2[j] = queue[j]
  <2>1. Sources(pool, txs, queue, i) \subseteq 1 .. n
    BY <1>1 DEF Sources
  <2> QED
    BY <1>1, <2>1
<1>6. Sourced(pool, t2, q2, i, c)
  BY <1>4, <1>5 DEF Sourced
<1> QED
  BY <1>6 DEF t2

\* A new note has the ciphertexts of the last action with its commitment.
LEMMA NewSourced ==
    ASSUME QueueFits(txs, queue), NEW call, NEW actions, IsBundle(actions), NEW amount, NEW q2,
           Behind(q2, queue, Len(txs) + 1, call, actions, amount), NEW k \in 1 .. Len(actions)
    PROVE  Sourced(pool, Append(txs, call), q2, Len(queue) + k, IndexedCiphers(call, actions, k))
<1> DEFINE t2 == Append(txs, call)
           n == Len(queue)
           tx == Len(txs) + 1
           m == Len(actions)
           i == n + k
           c == IndexedCiphers(call, actions, k)
<1>1. /\ n \in Nat /\ Len(txs) \in Nat /\ m \in Nat /\ DOMAIN q2 = 1 .. n + m
      /\ \A j \in 1 .. n : q2[j] = queue[j] /\ queue[j].tx \in 1 .. Len(txs)
      /\ t2[tx] = call
      /\ \A j \in 1 .. m : q2[n + j].action = actions[j] /\ q2[n + j].tx = tx
  BY SeqFacts, AppendIsSeq DEF QueueFits, Behind, IsBundle
<1> HIDE DEF t2, n, m
<1>2. i \in DOMAIN q2 /\ q2[i].action = actions[k] /\ q2[i].tx = tx
  BY <1>1 DEF m
<1> HIDE DEF i, c
<1>3. CASE pool.body = "extended"
  <2>1. Sources(pool, t2, q2, i) = {i} /\ c = CiphersOf(actions[k])
    BY <1>3 DEF Sources, c, IndexedCiphers
  <2>2. Sourced(pool, t2, q2, i, c)
    BY <1>2, <2>1 DEF Sourced
  <2> QED
    BY <2>2 DEF t2, i, c, n
<1>4. CASE pool.body # "extended" /\ call \notin BundleCalls
  <2>1. Sources(pool, t2, q2, i) = {} /\ c = <<<< >>, Absent>>
    BY <1>1, <1>2, <1>4 DEF Sources, c, IndexedCiphers
  <2>2. Sourced(pool, t2, q2, i, c)
    BY <2>1 DEF Sourced
  <2> QED
    BY <2>2 DEF t2, i, c, n
<1>5. CASE pool.body # "extended" /\ call \in BundleCalls
  <2> DEFINE l == LastWith(actions, actions[k].cmx)
             j == n + l
  <2>1. /\ l \in 0 .. m /\ (l # 0 => actions[l].cmx = actions[k].cmx)
        /\ \A o \in 1 .. m : actions[o].cmx = actions[k].cmx => o <= l
    BY <1>1, LastWithIs DEF m
  <2>2. c = CiphersOf(actions[l])
    BY <1>5 DEF c, IndexedCiphers
  <2> HIDE DEF l
  <2>3. l \in 1 .. m /\ actions[l].cmx = actions[k].cmx /\ l >= k
    <3>1. k \in 1 .. m
      BY DEF m
    <3>2. k <= l
      BY <2>1, <3>1
    <3> QED
      BY <1>1, <2>1, <3>1, <3>2
  <2>4. j \in DOMAIN q2 /\ q2[j].action = actions[l] /\ q2[j].tx = tx
    BY <1>1, <2>3
  <2>5. Twin(q2, i, j)
    BY <1>2, <2>3, <2>4 DEF Twin
  <2>6. \A o \in DOMAIN q2 : Twin(q2, i, o) => o <= j
    <3> TAKE o \in DOMAIN q2
    <3> HAVE Twin(q2, i, o)
    <3>1. q2[o].tx = tx /\ q2[o].action.cmx = actions[k].cmx
      BY <1>2 DEF Twin
    <3>2. CASE o \in 1 .. n
      BY <1>1, <2>3, <3>2
    <3>3. CASE o \notin 1 .. n
      <4>1. o - n \in 1 .. m /\ n + (o - n) = o
        BY <1>1, <3>3
      <4>2. actions[o - n].cmx = actions[k].cmx
        BY <1>1, <3>1, <4>1
      <4>3. o - n <= l
        BY <2>1, <4>1, <4>2
      <4> QED
        BY <1>1, <2>3, <4>1, <4>3
    <3> QED
      BY <3>2, <3>3
  <2>7. t2[q2[i].tx] \in BundleCalls
    BY <1>1, <1>2, <1>5
  <2> HIDE DEF j
  <2>8. j \in Sources(pool, t2, q2, i)
    BY <1>5, <2>4, <2>5, <2>6, <2>7 DEF Sources
  <2>9. Sourced(pool, t2, q2, i, c)
    BY <2>2, <2>4, <2>8 DEF Sourced
  <2> QED
    BY <2>9 DEF t2, i, c, n
<1> QED
  BY <1>3, <1>4, <1>5

LEMMA AllSourced ==
    ASSUME QueueFits(txs, queue), NEW call, NEW actions, IsBundle(actions), NEW amount, NEW q2,
           Behind(q2, queue, Len(txs) + 1, call, actions, amount), NEW w,
           \A i \in 1 .. Len(queue) : Sourced(pool, txs, queue, i, w[i])
    PROVE  \A i \in 1 .. Len(q2) :
             Sourced(pool, Append(txs, call), q2, i, CiphersWith(w, Len(queue), call, actions)[i])
<1> DEFINE n == Len(queue)
           m == Len(actions)
           w2 == CiphersWith(w, n, call, actions)
<1>1. n \in Nat /\ m \in Nat /\ Len(q2) = n + m
  BY SeqFacts DEF QueueFits, Behind, IsBundle
<1> TAKE i \in 1 .. Len(q2)
<1>2. w2[i] = IF i <= n THEN w[i] ELSE IndexedCiphers(call, actions, i - n)
  BY <1>1 DEF CiphersWith
<1> HIDE DEF w2
<1>3. CASE i <= n
  <2>1. i \in 1 .. Len(queue) /\ w2[i] = w[i]
    BY <1>1, <1>2, <1>3
  <2>2. Sourced(pool, txs, queue, i, w[i])
    BY <2>1
  <2>3. Sourced(pool, Append(txs, call), q2, i, w[i])
    BY <1>1, <2>1, <2>2, OldSourced
  <2> QED
    BY <2>1, <2>3 DEF w2
<1>4. CASE ~(i <= n)
  <2> DEFINE k == i - n
  <2>1. k \in 1 .. Len(actions) /\ Len(queue) + k = i
    BY <1>1, <1>4
  <2>2. w2[i] = IndexedCiphers(call, actions, k)
    BY <1>2, <1>4
  <2> HIDE DEF k
  <2>3. Sourced(pool, Append(txs, call), q2, Len(queue) + k, IndexedCiphers(call, actions, k))
    BY <2>1, NewSourced
  <2> QED
    BY <2>1, <2>2, <2>3 DEF w2
<1> QED
  BY <1>3, <1>4

\* What the accounts have paid in once the call is in, in units.
Paid(call, units, amount) ==
    CASE call = "shield" -> [units EXCEPT ![User] = @ + 1 * amount]
      [] call = "unshield" -> [units EXCEPT ![Other] = @ + -1 * amount]
      [] OTHER -> units

LEMMA PaidIs ==
    ASSUME NEW call, NEW units \in [Accounts -> Int], NEW amount \in {0} \cup Amounts,
           balances = Worth(units)
    PROVE  Worth(Paid(call, units, amount)) = Moves(call, Num(amount))
<1> DEFINE paid == Paid(call, units, amount)
           moved == Moves(call, Num(amount))
<1>1. amount \in Int /\ Scale \in Int /\ Num(amount).n = amount
  BY AmountsAre
<1>2. \A a \in Accounts : units[a] \in Int /\ balances[a] = Scale * units[a]
  BY DEF Worth
<1>3. DOMAIN units = Accounts /\ DOMAIN balances = Accounts /\ User \in Accounts /\ Other \in Accounts
  BY DEF Worth, Accounts
<1>4. balances = [a \in Accounts |-> balances[a]]
  BY DEF Worth
<1>5. CASE call = "shield"
  <2>1. paid = [units EXCEPT ![User] = units[User] + 1 * amount]
    BY <1>5 DEF Paid
  <2>2. moved = [balances EXCEPT ![User] = balances[User] + Scale * amount]
    BY <1>1, <1>5 DEF Moves
  <2>3. balances[User] + Scale * amount = Scale * (units[User] + 1 * amount)
    <3>1. Scale * (units[User] + 1 * amount) = Scale * units[User] + 1 * (Scale * amount)
      BY <1>1, <1>2, <1>3, ScaledSum
    <3>2. 1 * (Scale * amount) = Scale * amount
      BY <1>1
    <3> QED
      BY <1>2, <1>3, <3>1, <3>2
  <2> DEFINE x == units[User] + 1 * amount
             y == balances[User] + Scale * amount
  <2>4. y = Scale * x
    BY <2>3
  <2> HIDE DEF x, y, paid, moved
  <2>5. \A a \in Accounts : moved[a] = Scale * paid[a]
    <3> TAKE a \in Accounts
    <3>1. CASE a = User
      BY <1>3, <2>1, <2>2, <2>4, <3>1 DEF x, y
    <3>2. CASE a # User
      BY <1>2, <1>3, <2>1, <2>2, <3>2
    <3> QED
      BY <3>1, <3>2
  <2>6. moved = [a \in Accounts |-> moved[a]]
    BY <1>4, <2>2
  <2>7. moved = [a \in Accounts |-> Scale * paid[a]]
    BY <2>5, <2>6
  <2> QED
    BY <2>7 DEF Worth, paid, moved
<1>6. CASE call = "unshield"
  <2>1. paid = [units EXCEPT ![Other] = units[Other] + -1 * amount]
    BY <1>6 DEF Paid
  <2>2. moved = [balances EXCEPT ![Other] = balances[Other] - Scale * amount]
    BY <1>1, <1>6 DEF Moves
  <2>3. balances[Other] - Scale * amount = Scale * (units[Other] + -1 * amount)
    <3>1. Scale * (units[Other] + -1 * amount) = Scale * units[Other] + -1 * (Scale * amount)
      BY <1>1, <1>2, <1>3, ScaledSum
    <3>2. \A a, b \in Int : a + -1 * b = a - b
      OBVIOUS
    <3>3. Scale * amount \in Int /\ Scale * units[Other] \in Int
      BY <1>1, <1>2, <1>3
    <3> QED
      BY <1>2, <1>3, <3>1, <3>2, <3>3
  <2> DEFINE x == units[Other] + -1 * amount
             y == balances[Other] - Scale * amount
  <2>4. y = Scale * x
    BY <2>3
  <2> HIDE DEF x, y, paid, moved
  <2>5. \A a \in Accounts : moved[a] = Scale * paid[a]
    <3> TAKE a \in Accounts
    <3>1. CASE a = Other
      BY <1>3, <2>1, <2>2, <2>4, <3>1 DEF x, y
    <3>2. CASE a # Other
      BY <1>2, <1>3, <2>1, <2>2, <3>2
    <3> QED
      BY <3>1, <3>2
  <2>6. moved = [a \in Accounts |-> moved[a]]
    BY <1>4, <2>2
  <2>7. moved = [a \in Accounts |-> Scale * paid[a]]
    BY <2>5, <2>6
  <2> QED
    BY <2>7 DEF Worth, paid, moved
<1>7. CASE call \notin {"shield", "unshield"}
  <2>1. paid = units /\ moved = balances
    BY <1>7 DEF Paid, Moves
  <2> QED
    BY <2>1
<1> QED
  BY <1>5, <1>6, <1>7

LEMMA PaidType ==
    ASSUME NEW call, NEW units \in [Accounts -> Int], NEW amount \in {0} \cup Amounts
    PROVE  Paid(call, units, amount) \in [Accounts -> Int]
<1>1. amount \in Int /\ User \in Accounts /\ Other \in Accounts
  BY AmountsAre DEF Accounts
<1>2. units[User] + 1 * amount \in Int /\ units[Other] + -1 * amount \in Int
  BY <1>1
<1> QED
  BY <1>1, <1>2 DEF Paid

\* The views while the logs of a call are told.
ViewsOf(call, amount, n, m, seen, units, scale) ==
    [k \in 0 .. m + MoneyLogs(call) |->
       IF k <= m
       THEN View(n + k, seen, units, IF call = "shield.erc" /\ k >= 1 THEN {n + 1} ELSE {}, scale)
       ELSE View(n + m, seen, Paid(call, units, amount), {}, scale)]

AreViews(f, call, amount, n, m, seen, units, scale) ==
    /\ f[0] = View(n, seen, units, {}, scale)
    /\ \A k \in 0 .. m :
         f[k] = View(n + k, seen, units, IF call = "shield.erc" /\ k >= 1 THEN {n + 1} ELSE {}, scale)
    /\ f[m + MoneyLogs(call)] = View(n + m, seen, Paid(call, units, amount), {}, scale)

LEMMA ViewsAre ==
    ASSUME NEW call, NEW amount, NEW n \in Nat, NEW m \in Nat \ {0}, NEW seen, NEW units, NEW scale
    PROVE  AreViews(ViewsOf(call, amount, n, m, seen, units, scale), call, amount, n, m, seen, units, scale)
<1> DEFINE f == ViewsOf(call, amount, n, m, seen, units, scale)
<1> DEFINE c == MoneyLogs(call)
           v(k) == View(n + k, seen, units, IF call = "shield.erc" /\ k >= 1 THEN {n + 1} ELSE {}, scale)
<1>1. c \in {0, 1}
  BY DEF MoneyLogs
<1>2. \A k \in 0 .. m : f[k] = v(k)
  <2> HIDE DEF v, c
  <2>1. f = [k \in 0 .. m + c |->
               IF k <= m THEN v(k) ELSE View(n + m, seen, Paid(call, units, amount), {}, scale)]
    BY DEF ViewsOf, v, c
  <2>2. \A k \in 0 .. m : k \in 0 .. m + c /\ k <= m
    BY <1>1
  <2> QED
    BY <2>1, <2>2
<1>3. f[0] = View(n, seen, units, {}, scale)
  <2>1. n + 0 = n /\ ~(0 >= 1) /\ 0 \in 0 .. m
    OBVIOUS
  <2> QED
    BY <1>2, <2>1
<1>4. f[m + c] = View(n + m, seen, Paid(call, units, amount), {}, scale)
  <2>1. CASE c = 1
    <3>1. m + c \in 0 .. m + c /\ ~(m + c <= m)
      BY <2>1
    <3> QED
      BY <3>1 DEF ViewsOf, c
  <2>2. CASE c = 0
    <3>1. call \notin {"shield", "unshield", "shield.erc"}
      BY <2>2 DEF c, MoneyLogs, MoneyCalls
    <3>2. Paid(call, units, amount) = units
      BY <3>1 DEF Paid
    <3>3. m + c = m /\ m \in 0 .. m
      BY <2>2
    <3> QED
      BY <1>2, <3>1, <3>2, <3>3
  <2> QED
    BY <1>1, <2>1, <2>2
<1> HIDE DEF f
<1>5. AreViews(f, call, amount, n, m, seen, units, scale)
  BY <1>2, <1>3, <1>4 DEF AreViews
<1> QED
  BY <1>5 DEF f

\* A longer queue has more views.
LEMMA AnyView ==
    ASSUME NEW q, Len(q) \in Nat, NEW n \in Nat, n <= Len(q), NEW seen \in 0 .. n,
           NEW units \in [Accounts -> Int], NEW owed, NEW scale
    PROVE  IsView(q, View(n, seen, units, owed, scale))
<1>1. seen \in Nat /\ seen <= n
  OBVIOUS
<1> QED
  BY <1>1, SeenMore

\* The logs of the notes of a call tell one note each.
LEMMA NotesTold ==
    ASSUME NEW q, IsSeq(q), NEW w, NEW call, NEW actions, IsBundle(actions), NEW amount, NEW tx, NEW q2,
           Behind(q2, q, tx, call, actions, amount), NEW seen \in 0 .. Len(q), NEW units, NEW scale, NEW ls,
           TransactionLogs(ls, tx, call, actions, amount), NEW i \in 1 .. Len(actions), NEW f,
           AreViews(f, call, amount, Len(q), Len(actions), seen, units, scale)
    PROVE  TellsNote(pool, q2, CiphersWith(w, Len(q), call, actions), f[i - 1], ls[i], f[i])
<1> DEFINE n == Len(q)
           m == Len(actions)
           w2 == CiphersWith(w, n, call, actions)
           owed(k) == IF call = "shield.erc" /\ k >= 1 THEN {n + 1} ELSE {}
           h == f[i - 1]
           k == f[i]
           item == q2[n + i]
<1>1. n \in Nat /\ m \in Nat \ {0} /\ Len(q2) = n + m /\ i \in 1 .. m /\ i - 1 \in 0 .. m /\ i \in 0 .. m
  BY SeqFacts DEF Behind, IsBundle
<1>2. h = View(n + (i - 1), seen, units, owed(i - 1), scale) /\ k = View(n + i, seen, units, owed(i), scale)
  BY <1>1 DEF AreViews
<1> HIDE DEF h, k, owed
<1>3. /\ h.notes = n + (i - 1) /\ h.confirmed = seen /\ h.units = units /\ h.owed = owed(i - 1)
      /\ h.scale = scale
  BY <1>2, ViewIs
<1>4. /\ item.action = actions[i] /\ item.tx = tx
      /\ item.shielded = IF call = "shield.erc" /\ i = 1 THEN <<amount>> ELSE Absent
  BY DEF Behind
<1>5. owed(i) = IF item.shielded = Absent THEN owed(i - 1) ELSE owed(i - 1) \cup {n + i}
  <2>1. <<amount>> # Absent
    BY EmptyIs, TuplesAreSeqs DEF Absent
  <2>2. CASE call = "shield.erc" /\ i = 1
    <3>1. owed(i) = {n + 1} /\ owed(i - 1) = {}
      BY <2>2 DEF owed
    <3> QED
      BY <1>4, <2>1, <2>2, <3>1
  <2>3. CASE call = "shield.erc" /\ i # 1
    <3>1. i - 1 >= 1 /\ i >= 1
      BY <1>1, <2>3
    <3>2. owed(i) = {n + 1} /\ owed(i - 1) = {n + 1}
      BY <2>3, <3>1 DEF owed
    <3> QED
      BY <1>4, <2>3, <3>2
  <2>4. CASE call # "shield.erc"
    <3>1. owed(i) = {} /\ owed(i - 1) = {}
      BY <2>4 DEF owed
    <3> QED
      BY <1>4, <2>4, <3>1
  <2> QED
    BY <2>2, <2>3, <2>4
<1>6. w2[n + i] = IndexedCiphers(call, actions, i)
  <2>1. n + i \in 1 .. n + m /\ ~(n + i <= n) /\ n + i - n = i
    BY <1>1
  <2> QED
    BY <2>1 DEF CiphersWith
<1>7. ls[i] = [tx |-> tx, event |-> pool.topic,
               read |-> Ok(NoteRecord(actions[i], IndexedCiphers(call, actions, i)))]
  BY DEF TransactionLogs
<1> HIDE DEF w2
<1>8. h.notes + 1 = n + i /\ n + i <= Len(q2)
  BY <1>1, <1>3
<1>9. TellsNote(pool, q2, w2, h, ls[i], k)
  <2>1. ls[i] = [tx |-> item.tx, event |-> pool.topic, read |-> Ok(NoteRecord(item.action, w2[n + i]))]
    BY <1>4, <1>6, <1>7
  <2>2. k = View(n + i, h.confirmed, h.units,
                 IF item.shielded = Absent THEN h.owed ELSE h.owed \cup {n + i}, h.scale)
    BY <1>2, <1>3, <1>5
  <2> QED
    BY <1>8, <2>1, <2>2 DEF TellsNote
<1> QED
  BY <1>9 DEF h, k, w2

\* The log behind them tells the money that moved.
LEMMA MoneyTold ==
    ASSUME NEW q, IsSeq(q), NEW w2, NEW call \in MoneyCalls, NEW actions, IsBundle(actions),
           NEW amount \in {0} \cup Amounts, NEW tx, NEW q2,
           Behind(q2, q, tx, call, actions, amount), \A i \in 1 .. Len(q) : q[i].tx # tx,
           NEW seen \in 0 .. Len(q), NEW units, NEW scale, NEW ls,
           TransactionLogs(ls, tx, call, actions, amount), NEW f,
           AreViews(f, call, amount, Len(q), Len(actions), seen, units, scale)
    PROVE  Tells(pool, q2, w2, f[Len(actions)], ls[Len(actions) + 1], f[Len(actions) + 1])
<1> DEFINE n == Len(q)
           m == Len(actions)
           owed == IF call = "shield.erc" THEN {n + 1} ELSE {}
           h == f[m]
           k == f[m + 1]
           l == ls[m + 1]
           paid == Paid(call, units, amount)
<1>1. n \in Nat /\ m \in Nat \ {0} /\ Len(q2) = n + m /\ amount \in Nat
  BY SeqFacts, AmountsAre DEF Behind, IsBundle
<1>2. MoneyLogs(call) = 1
  BY DEF MoneyLogs
<1>3. h = View(n + m, seen, units, owed, scale) /\ k = View(n + m, seen, paid, {}, scale)
  <2>1. m \in 0 .. m /\ m >= 1
    BY <1>1
  <2>2. f[m + MoneyLogs(call)] = View(n + m, seen, paid, {}, scale)
    BY <1>1 DEF AreViews
  <2>3. f[m] = View(n + m, seen, units, IF call = "shield.erc" /\ m >= 1 THEN {n + 1} ELSE {}, scale)
    BY <1>1, <2>1 DEF AreViews
  <2> QED
    BY <1>2, <2>1, <2>2, <2>3
<1> HIDE DEF h, k, l, owed
<1>4. h.notes = n + m /\ h.confirmed = seen /\ h.units = units /\ h.owed = owed /\ h.scale = scale
  BY <1>3, ViewIs
<1> HIDE DEF n, m
<1>5. CASE call = "shield"
  <2>1. /\ l.event = "Shielded"
        /\ l.read = Ok([actor |-> User, amount_units |-> amount, wei_amount |-> Scale * amount])
    BY <1>5 DEF TransactionLogs, l, m
  <2>2. owed = {} /\ paid = [units EXCEPT ![User] = @ + 1 * amount]
    BY <1>5 DEF owed, Paid
  <2>3. User \in Accounts
    BY DEF Accounts
  <2>4. k = View(h.notes, h.confirmed, [h.units EXCEPT ![User] = @ + 1 * amount], h.owed, h.scale)
    BY <1>3, <1>4, <2>2
  <2>5. TellsMoved("Shielded", 1, h, l, k)
    BY <1>1, <2>1, <2>3, <2>4 DEF TellsMoved
  <2> QED
    BY <2>5 DEF Tells, h, k, l, m
<1>6. CASE call = "unshield"
  <2>1. /\ l.event = "Unshielded"
        /\ l.read = Ok([actor |-> Other, amount_units |-> amount, wei_amount |-> Scale * amount])
    BY <1>6 DEF TransactionLogs, l, m
  <2>2. owed = {} /\ paid = [units EXCEPT ![Other] = @ + -1 * amount]
    BY <1>6 DEF owed, Paid
  <2>3. Other \in Accounts
    BY DEF Accounts
  <2>4. k = View(h.notes, h.confirmed, [h.units EXCEPT ![Other] = @ + -1 * amount], h.owed, h.scale)
    BY <1>3, <1>4, <2>2
  <2>5. TellsMoved("Unshielded", -1, h, l, k)
    BY <1>1, <2>1, <2>3, <2>4 DEF TellsMoved
  <2> QED
    BY <2>5 DEF Tells, h, k, l, m
<1>7. CASE call = "shield.erc"
  <2> DEFINE i == n + 1
  <2>1. l = [tx |-> tx, event |-> "ShieldCompleted", read |-> Ok([cmx |-> actions[1].cmx, amount |-> amount])]
    BY <1>7 DEF TransactionLogs, l, m
  <2>2. owed = {i} /\ paid = units
    BY <1>7 DEF owed, Paid
  <2>3. q2[i].action = actions[1] /\ q2[i].tx = tx /\ q2[i].shielded = <<amount>>
    <3>1. 1 \in 1 .. Len(actions)
      BY <1>1 DEF m
    <3>2. /\ q2[Len(q) + 1].action = actions[1] /\ q2[Len(q) + 1].tx = tx
          /\ q2[Len(q) + 1].shielded = IF call = "shield.erc" /\ 1 = 1 THEN <<amount>> ELSE Absent
      BY <3>1 DEF Behind
    <3> QED
      BY <1>7, <3>2 DEF n
  <2>4. i \in 1 .. h.notes /\ i - 1 = n
    BY <1>1, <1>4
  <2>5. \A j \in 1 .. i - 1 : q2[j].tx # q2[i].tx
    <3>1. \A j \in 1 .. n : q2[j].tx # tx
      BY DEF Behind, n
    <3> QED
      BY <2>3, <2>4, <3>1
  <2>6. k = View(h.notes, h.confirmed, h.units, h.owed \ {i}, h.scale)
    <3>1. h.owed \ {i} = {}
      BY <1>4, <2>2
    <3> QED
      BY <1>3, <1>4, <2>2, <3>1
  <2>7. l = [tx |-> q2[i].tx, event |-> "ShieldCompleted",
             read |-> Ok([cmx |-> q2[i].action.cmx, amount |-> amount])]
    BY <2>1, <2>3
  <2> HIDE DEF i
  <2>8. TellsDeposit(q2, h, l, k)
    BY <1>1, <2>3, <2>4, <2>5, <2>6, <2>7 DEF TellsDeposit
  <2> QED
    BY <2>8 DEF Tells, h, k, l, m
<1> QED
  BY <1>5, <1>6, <1>7 DEF MoneyCalls

LEMMA SubmitTells ==
    ASSUME NEW q, IsSeq(q), NEW w, NEW call, NEW actions, IsBundle(actions),
           NEW amount \in {0} \cup Amounts, NEW tx, NEW q2,
           Behind(q2, q, tx, call, actions, amount), \A i \in 1 .. Len(q) : q[i].tx # tx,
           NEW seen \in 0 .. Len(q), NEW units \in [Accounts -> Int], NEW scale, NEW ls,
           TransactionLogs(ls, tx, call, actions, amount), NEW f,
           AreViews(f, call, amount, Len(q), Len(actions), seen, units, scale)
    PROVE  Continues(pool, q2, CiphersWith(w, Len(q), call, actions), View(Len(q), seen, units, {}, scale),
                     ls, f, View(Len(q2), seen, Paid(call, units, amount), {}, scale))
<1> DEFINE n == Len(q)
           m == Len(actions)
           c == MoneyLogs(call)
           w2 == CiphersWith(w, n, call, actions)
           paid == Paid(call, units, amount)
<1>1. n \in Nat /\ m \in Nat \ {0} /\ Len(q2) = n + m
  BY SeqFacts DEF Behind, IsBundle
<1>2. c \in {0, 1} /\ IsSeq(ls) /\ Len(ls) = m + c
  BY DEF MoneyLogs, TransactionLogs
<1>3. /\ f[0] = View(n, seen, units, {}, scale)
      /\ f[m + c] = View(n + m, seen, paid, {}, scale)
      /\ \A k \in 0 .. m :
           f[k] = View(n + k, seen, units, IF call = "shield.erc" /\ k >= 1 THEN {n + 1} ELSE {}, scale)
  BY <1>1 DEF AreViews
<1> HIDE DEF n, m, c, w2, paid
<1>4. ASSUME NEW k \in 1 .. m
      PROVE  IsView(q2, f[k]) /\ Tells(pool, q2, w2, f[k - 1], ls[k], f[k])
  <2>1. IsView(q2, f[k])
    <3> DEFINE owed == IF call = "shield.erc" /\ k >= 1 THEN {n + 1} ELSE {}
    <3>1. f[k] = View(n + k, seen, units, owed, scale)
      <4>1. k \in 0 .. m
        BY <1>1
      <4> QED
        BY <1>3, <4>1
    <3>2. n + k \in Nat /\ n + k <= Len(q2) /\ seen \in 0 .. n + k /\ Len(q2) \in Nat
      BY <1>1 DEF n
    <3> HIDE DEF owed
    <3>3. IsView(q2, View(n + k, seen, units, owed, scale))
      BY <3>2, AnyView
    <3> QED
      BY <3>1, <3>3
  <2>2. TellsNote(pool, q2, w2, f[k - 1], ls[k], f[k])
    BY NotesTold DEF m, n, w2
  <2> QED
    BY <2>1, <2>2 DEF Tells
<1>5. ASSUME NEW k \in 1 .. m + c, k \notin 1 .. m
      PROVE  IsView(q2, f[k]) /\ Tells(pool, q2, w2, f[k - 1], ls[k], f[k])
  <2>1. k = m + 1 /\ c = 1 /\ k - 1 = m
    BY <1>1, <1>2, <1>5
  <2>2. call \in MoneyCalls
    BY <2>1 DEF c, MoneyLogs
  <2>3. IsView(q2, f[k])
    <3>1. n + m \in Nat /\ n + m <= Len(q2) /\ seen \in 0 .. n + m /\ Len(q2) \in Nat
      BY <1>1 DEF n
    <3>2. paid \in [Accounts -> Int]
      BY PaidType DEF paid
    <3>3. IsView(q2, View(n + m, seen, paid, {}, scale))
      BY <3>1, <3>2, AnyView
    <3> QED
      BY <1>3, <2>1, <3>3
  <2>4. Tells(pool, q2, w2, f[m], ls[m + 1], f[m + 1])
    BY <2>2, MoneyTold DEF m
  <2> QED
    BY <2>1, <2>3, <2>4
<1>6. \A k \in 1 .. Len(ls) : IsView(q2, f[k]) /\ Tells(pool, q2, w2, f[k - 1], ls[k], f[k])
  BY <1>2, <1>4, <1>5
<1>7. f[Len(ls)] = View(Len(q2), seen, paid, {}, scale)
  BY <1>1, <1>2, <1>3
<1>8. Continues(pool, q2, w2, View(n, seen, units, {}, scale), ls, f, View(Len(q2), seen, paid, {}, scale))
  BY <1>2, <1>3, <1>6, <1>7 DEF Continues
<1> QED
  BY <1>8 DEF n, w2, paid

LEMMA QueueGrows ==
    ASSUME QueueFits(txs, queue), Len(txs) < MaxTxs, NEW call, NEW actions, IsBundle(actions), NEW amount,
           NEW q2, Behind(q2, queue, Len(txs) + 1, call, actions, amount)
    PROVE  QueueFits(Append(txs, call), q2)
<1> DEFINE n == Len(queue)
           m == Len(actions)
           t == Len(txs)
           t2 == Append(txs, call)
<1>1. /\ n \in Nat /\ m \in Nat /\ t \in Nat /\ IsSeq(t2) /\ Len(t2) = t + 1
      /\ m <= MaxActions /\ n <= MaxActions * t /\ IsSeq(q2) /\ Len(q2) = n + m
  BY SeqFacts, AppendIsSeq DEF QueueFits, Behind, IsBundle
<1>2. MaxTxs \in Nat /\ MaxActions \in Nat
  BY IndexingAssumption
<1>3. t + 1 <= MaxTxs
  BY <1>1, <1>2
<1> HIDE DEF t2
<1>4. n + m <= MaxActions * (t + 1)
  <2>1. MaxActions * (t + 1) = MaxActions * t + MaxActions /\ MaxActions * t \in Nat
    BY <1>1, <1>2
  <2> QED
    BY <1>1, <1>2, <2>1
<1>5. \A i \in 1 .. n + m : q2[i].tx \in 1 .. t + 1
  <2> TAKE i \in 1 .. n + m
  <2>1. CASE i \in 1 .. n
    <3>1. q2[i] = queue[i] /\ queue[i].tx \in 1 .. t
      BY <2>1 DEF QueueFits, Behind
    <3> QED
      BY <1>1, <3>1
  <2>2. CASE i \notin 1 .. n
    <3>1. i - n \in 1 .. m /\ n + (i - n) = i
      BY <1>1, <2>2
    <3>2. q2[n + (i - n)].tx = t + 1
      BY <3>1 DEF Behind
    <3> QED
      BY <1>1, <3>1, <3>2
  <2> QED
    BY <2>1, <2>2
<1>6. QueueFits(t2, q2)
  BY <1>1, <1>3, <1>4, <1>5 DEF QueueFits
<1> QED
  BY <1>6 DEF t2

LEMMA IndexingSubmits ==
    ASSUME IndexingInv, NEW call \in pool.calls, NEW actions \in Bundles, NEW amount \in AmountsOf(call),
           Submit(call, actions, amount)
    PROVE  IndexingInv'
<1> DEFINE tx == Len(txs) + 1
           t2 == Append(txs, call)
           q2 == Queued(queue, tx, call, actions, amount)
           new == CallLogs(tx, call, actions, amount)
           n == Len(queue)
           m == Len(actions)
           scale == PoolScale(pool)
<1>1. /\ pool \in Generations /\ QueueFits(txs, queue) /\ IsSeq(logs) /\ IsSeq(queue)
      /\ confirmed \in 0 .. Len(queue) /\ refused = FALSE /\ index.cursor \in 0 .. Len(logs)
  BY DEF IndexingInv, QueueFits
<1>2. /\ Len(txs) < MaxTxs /\ IsBundle(actions) /\ amount \in {0} \cup Amounts
      /\ txs' = t2 /\ queue' = queue \o Items(Len(txs) + 1, call, actions, amount)
      /\ logs' = logs \o CallLogs(Len(txs) + 1, call, actions, amount)
      /\ balances' = Moves(call, Num(amount))
      /\ UNCHANGED <<pool, confirmed, refused, index>>
  BY <1>1, SubmitIs
<1>3. queue' = q2 /\ logs' = Followed(logs, new)
  BY <1>2 DEF Queued, Followed
<1>4. Behind(q2, queue, tx, call, actions, amount)
  BY <1>1, <1>2, QueuedIs
<1> HIDE DEF q2, new, t2
<1>5. n \in Nat /\ m \in Nat \ {0} /\ Len(q2) = n + m
  BY <1>1, <1>2, <1>4, SeqFacts DEF Behind, IsBundle
<1>6. QueueFits(t2, q2)
  BY <1>1, <1>2, <1>4, QueueGrows DEF t2
<1>7. PICK w, g :
        /\ \A i \in 1 .. Len(queue) : Sourced(pool, txs, queue, i, w[i])
        /\ History(pool, queue, w, logs, g)
        /\ g[Len(logs)] = View(Len(queue), confirmed, g[Len(logs)].units, {},
                               IF "shield" \in pool.calls THEN Scale ELSE 0)
        /\ balances = [a \in Accounts |-> Scale * g[Len(logs)].units[a]]
        /\ index = IndexAt(queue, w, index.cursor, g[index.cursor])
  BY DEF IndexingInv, Told
<1> DEFINE w2 == CiphersWith(w, n, call, actions)
           h == g[Len(logs)]
           u == h.units
           f == ViewsOf(call, amount, n, m, confirmed, u, scale)
           paid == Paid(call, u, amount)
           last == View(Len(q2), confirmed, paid, {}, scale)
<1>8. h = View(n, confirmed, u, {}, scale)
  BY <1>7 DEF PoolScale
<1>9. u \in [Accounts -> Int] /\ \A k \in 0 .. Len(logs) : IsView(queue, g[k])
  <2>1. Len(logs) \in 0 .. Len(logs)
    BY <1>1, SeqFacts
  <2> QED
    BY <1>7, <2>1 DEF History, IsView
<1>10. balances = Worth(u)
  BY <1>7 DEF Worth
<1> HIDE DEF u, h, scale
<1>11. \A i \in 1 .. Len(q2) : Sourced(pool, t2, q2, i, w2[i])
  BY <1>1, <1>2, <1>4, <1>7, AllSourced DEF t2
<1>12. Longer(queue, w, q2, w2)
  <2>1. \A i \in 1 .. n : w2[i] = w[i]
    BY <1>5 DEF CiphersWith
  <2>2. \A i \in 1 .. n : q2[i] = queue[i]
    BY <1>4 DEF Behind
  <2> HIDE DEF w2
  <2> QED
    BY <1>5, <2>1, <2>2 DEF Longer
<1> HIDE DEF w2
<1>13. History(pool, q2, w2, logs, g)
  BY <1>1, <1>7, <1>12, HistoryKept
<1>14. index = IndexAt(q2, w2, index.cursor, g[index.cursor])
  <2>1. IsView(queue, g[index.cursor])
    BY <1>1, <1>9
  <2>2. IndexAt(q2, w2, index.cursor, g[index.cursor]) = IndexAt(queue, w, index.cursor, g[index.cursor])
    BY <1>12, <2>1, ViewKept
  <2> QED
    BY <1>7, <2>2
<1>15. Knows(pool, t2, q2, logs, index, w2, g)
  BY <1>1, <1>11, <1>13, <1>14 DEF Knows
<1>16. Continues(pool, q2, w2, g[Len(logs)], new, f, View(Len(q2), confirmed, paid, {}, PoolScale(pool)))
  <2>1. TransactionLogs(new, tx, call, actions, amount)
    BY <1>1, <1>2, LogsAre DEF new
  <2>2. AreViews(f, call, amount, Len(queue), Len(actions), confirmed, u, scale)
    BY <1>5, ViewsAre
  <2>3. \A i \in 1 .. Len(queue) : queue[i].tx # tx
    <3>1. Len(txs) \in Nat /\ \A i \in 1 .. Len(queue) : queue[i].tx \in 1 .. Len(txs)
      BY <1>1, SeqFacts DEF QueueFits
    <3> QED
      BY <3>1
  <2> HIDE DEF f, tx
  <2>4. Continues(pool, q2, CiphersWith(w, Len(queue), call, actions),
                  View(Len(queue), confirmed, u, {}, scale),
                  new, f, View(Len(q2), confirmed, Paid(call, u, amount), {}, scale))
    BY <1>1, <1>2, <1>4, <1>9, <2>1, <2>2, <2>3, SubmitTells
  <2> QED
    BY <1>8, <2>4 DEF h, scale, w2
<1>17. Grown(pool, t2, q2, confirmed, Followed(logs, new), Worth(paid), index)
  <2> HIDE DEF f, paid
  <2> QED
    BY <1>15, <1>16, ToldGrows
<1>18. balances' = Worth(paid)
  BY <1>2, <1>9, <1>10, PaidIs
<1>19. Grown(pool, txs, queue, confirmed, logs, balances, index)'
  BY <1>2, <1>3, <1>17, <1>18
<1>20. (QueueFits(txs, queue) /\ confirmed \in 0 .. Len(queue))'
  <2>1. QueueFits(txs, queue)'
    BY <1>2, <1>3, <1>6
  <2>2. confirmed \in 0 .. Len(q2)
    BY <1>1, <1>5
  <2> QED
    BY <1>2, <1>3, <2>1, <2>2
<1> QED
  BY <1>1, <1>2, <1>19, <1>20 DEF Grown, IndexingInv

LEMMA IndexingStep == IndexingInv /\ [Next]_vars => IndexingInv'
<1> SUFFICES ASSUME IndexingInv, [Next]_vars PROVE IndexingInv'
  OBVIOUS
<1>1. ASSUME NEW call \in pool.calls, NEW actions \in Bundles, NEW amount \in AmountsOf(call),
             Submit(call, actions, amount)
      PROVE  IndexingInv'
  BY <1>1, IndexingSubmits
<1>2. CASE ConfirmNote
  BY <1>2, IndexingConfirms
<1>3. ASSUME NEW js \in Batches, UpdateRoots(js) PROVE IndexingInv'
  BY <1>3, IndexingUpdates
<1>4. CASE IndexNext
  BY <1>4, IndexingReads
<1>5. CASE UNCHANGED vars
  <2>1. UNCHANGED <<pool, txs, logs, queue, confirmed, balances, refused, index>>
    BY <1>5 DEF vars
  <2>2. Told(pool, txs, queue, confirmed, logs, balances, index)'
    BY <2>1 DEF IndexingInv
  <2> QED
    BY <2>1, <2>2 DEF IndexingInv
<1> QED
  BY <1>1, <1>2, <1>3, <1>4, <1>5 DEF Next

\* After every step the logs have a history, from which notes, balances and the
\* indexer's state follow: the encoders, the pool's checks and the decoders of
\* every generation fit together, for any number of transactions and actions.
THEOREM IndexingInvariant == Spec => []IndexingInv
BY IndexingInit, IndexingStep, PTL DEF Spec

-----------------------------------------------------------------------------
(* What the indexer knows. *)

\* The view an indexer has read up to; the last one, when it has read all.
Sees(w, h) ==
    /\ IsView(queue, h)
    /\ \A i \in 1 .. Len(queue) : Sourced(pool, txs, queue, i, w[i])
    /\ index = IndexAt(queue, w, index.cursor, h)
    /\ index.cursor = Len(logs) =>
         /\ h = View(Len(queue), confirmed, h.units, {}, PoolScale(pool))
         /\ balances = Worth(h.units)

LEMMA IndexSeen == IndexingInv => \E w, h : Sees(w, h)
<1> SUFFICES ASSUME IndexingInv PROVE \E w, h : Sees(w, h)
  OBVIOUS
<1>1. PICK w, g :
        /\ \A i \in 1 .. Len(queue) : Sourced(pool, txs, queue, i, w[i])
        /\ History(pool, queue, w, logs, g)
        /\ g[Len(logs)] = View(Len(queue), confirmed, g[Len(logs)].units, {},
                               IF "shield" \in pool.calls THEN Scale ELSE 0)
        /\ balances = [a \in Accounts |-> Scale * g[Len(logs)].units[a]]
        /\ index = IndexAt(queue, w, index.cursor, g[index.cursor])
  BY DEF IndexingInv, Told
<1>2. IsView(queue, g[index.cursor])
  BY <1>1 DEF IndexingInv, History
<1>3. Sees(w, g[index.cursor])
  BY <1>1, <1>2 DEF Sees, PoolScale, Worth
<1> QED
  BY <1>3

\* The fields of what it has.
LEMMA SeenFields ==
    ASSUME IndexingInv, NEW w, NEW h, Sees(w, h)
    PROVE  /\ h.notes \in Nat /\ h.notes <= Len(queue) /\ h.confirmed \in Nat /\ h.confirmed <= h.notes
           /\ h.units \in [Accounts -> Int]
           /\ Len(queue) \in Nat /\ DOMAIN queue = 1 .. Len(queue)
           /\ DOMAIN index.notes = 1 .. h.notes /\ Len(index.notes) = h.notes
           /\ index.watermark = h.confirmed /\ index.latest_root = RootAt(queue, h)
           /\ index.accounts = AccountsAt(h) /\ index.scale = h.scale
           /\ \A i \in 1 .. h.notes : index.notes[i] = NoteAt(queue, w, h, i)
<1>1. IsSeq(queue) /\ Len(queue) \in Nat /\ DOMAIN queue = 1 .. Len(queue)
  BY SeqFacts DEF IndexingInv, QueueFits
<1>2. /\ h.notes \in Nat /\ h.notes <= Len(queue) /\ h.confirmed \in Nat /\ h.confirmed <= h.notes
      /\ h.units \in [Accounts -> Int]
  BY <1>1 DEF Sees, IsView
<1>3. index = IndexAt(queue, w, index.cursor, h)
  BY DEF Sees
<1>4. /\ index.notes = NotesAt(queue, w, h) /\ index.watermark = h.confirmed
      /\ index.latest_root = RootAt(queue, h) /\ index.accounts = AccountsAt(h) /\ index.scale = h.scale
  BY <1>3, IndexAtFields
<1>5. /\ IsSeq(NotesAt(queue, w, h)) /\ Len(NotesAt(queue, w, h)) = h.notes
      /\ DOMAIN NotesAt(queue, w, h) = 1 .. h.notes
      /\ \A i \in 1 .. h.notes : NotesAt(queue, w, h)[i] = NoteAt(queue, w, h, i)
  BY <1>2, NotesAtIs
<1> QED
  BY <1>1, <1>2, <1>4, <1>5

LEMMA InvTypeOK == IndexingInv => TypeOK
<1> SUFFICES ASSUME IndexingInv PROVE TypeOK
  OBVIOUS
<1>1. PICK w, h : Sees(w, h)
  BY IndexSeen
<1>2. /\ h.notes \in Nat /\ h.notes <= Len(queue) /\ h.confirmed \in Nat /\ h.confirmed <= h.notes
      /\ Len(index.notes) = h.notes /\ index.watermark = h.confirmed
  BY <1>1, SeenFields
<1>3. balances \in [Accounts -> Int]
  <2>1. PICK v, g : /\ History(pool, queue, v, logs, g)
                    /\ balances = [a \in Accounts |-> Scale * g[Len(logs)].units[a]]
    BY DEF IndexingInv, Told
  <2>2. Len(logs) \in 0 .. Len(logs)
    BY SeqFacts DEF IndexingInv
  <2>3. g[Len(logs)].units \in [Accounts -> Int]
    BY <2>1, <2>2 DEF History, IsView
  <2> DEFINE u == g[Len(logs)].units
  <2> HIDE DEF u
  <2>4. Scale \in Int /\ \A a \in Accounts : u[a] \in Int
    BY <2>3, IndexingAssumption DEF u
  <2>5. \A a \in Accounts : Scale * u[a] \in Int
    BY <2>4
  <2> QED
    BY <2>1, <2>5 DEF u
<1>4. pool \in Generations /\ confirmed \in 0 .. Len(queue) /\ refused \in BOOLEAN
      /\ index.cursor \in 0 .. Len(logs) /\ Len(txs) <= MaxTxs
  <2>1. refused = FALSE
    BY DEF IndexingInv
  <2> QED
    BY <2>1 DEF IndexingInv, QueueFits
<1>5. index.watermark \in 0 .. Len(index.notes) /\ Len(index.notes) <= Len(queue)
  BY <1>2
<1> QED
  BY <1>3, <1>4, <1>5 DEF TypeOK

LEMMA InvNotesFaithful == IndexingInv => NotesFaithful
<1> SUFFICES ASSUME IndexingInv PROVE NotesFaithful
  OBVIOUS
<1>1. PICK w, h : Sees(w, h)
  BY IndexSeen
<1>2. /\ h.notes \in Nat /\ h.notes <= Len(queue) /\ Len(queue) \in Nat /\ DOMAIN index.notes = 1 .. h.notes
      /\ \A i \in 1 .. h.notes : index.notes[i] = NoteAt(queue, w, h, i)
  BY <1>1, SeenFields
<1>3. ASSUME NEW i \in DOMAIN index.notes
      PROVE  LET n == index.notes[i]
                 a == queue[i].action
             IN  /\ n.cmx_position = i - 1 /\ n.cmx = a.cmx
                 /\ n.enc_ciphertext = a.enc_ciphertext /\ n.epk = a.epk /\ n.nf_old = a.nf_old
                 /\ <<n.out_ciphertext, n.cv_net_x>> \in
                      IF CiphertextsOf(i) = {} THEN {<< << >>, Absent >>}
                      ELSE {<<queue[j].action.out_ciphertext, <<queue[j].action.pub_fields[2]>>>> :
                              j \in CiphertextsOf(i)}
  <2> DEFINE n == index.notes[i]
             a == queue[i].action
  <2>1. i \in 1 .. Len(queue) /\ n = NoteAt(queue, w, h, i)
    BY <1>2
  <2>2. /\ n.cmx_position = i - 1 /\ n.cmx = a.cmx /\ n.enc_ciphertext = a.enc_ciphertext
        /\ n.epk = a.epk /\ n.nf_old = a.nf_old /\ n.out_ciphertext = w[i][1] /\ n.cv_net_x = w[i][2]
    BY <2>1 DEF NoteAt
  <2>3. Sourced(pool, txs, queue, i, w[i])
    BY <1>1, <2>1 DEF Sees
  <2>4. CiphertextsOf(i) = Sources(pool, txs, queue, i)
    BY DEF CiphertextsOf, SameCmx, Sources, Twin
  <2> DEFINE S == CiphertextsOf(i)
             o == n.out_ciphertext
             v == n.cv_net_x
             P == {<<queue[j].action.out_ciphertext, <<queue[j].action.pub_fields[2]>>>> : j \in S}
             none == <<<< >>, Absent>>
  <2> HIDE DEF S, o, v, n
  <2>5. CASE S = {}
    <3>1. w[i] = none
      BY <2>3, <2>4, <2>5 DEF Sourced, S
    <3>2. o = none[1] /\ v = none[2]
      BY <2>2, <3>1 DEF o, v
    <3>3. <<o, v>> = none
      BY <3>2
    <3> QED
      BY <2>2, <2>5, <3>3 DEF S, o, v, n
  <2>6. CASE S # {}
    <3>1. PICK j \in S : w[i] = CiphersOf(queue[j].action)
      BY <2>3, <2>4, <2>6 DEF Sourced, S
    <3>2. o = queue[j].action.out_ciphertext /\ v = <<queue[j].action.pub_fields[2]>>
      BY <2>2, <3>1, Projections DEF o, v
    <3>3. <<o, v>> = <<queue[j].action.out_ciphertext, <<queue[j].action.pub_fields[2]>>>>
      BY <3>2
    <3>4. <<o, v>> \in P
      BY <3>3
    <3> QED
      BY <2>2, <2>6, <3>4 DEF S, o, v, n
  <2> QED
    BY <2>5, <2>6
<1> QED
  BY <1>3 DEF NotesFaithful

LEMMA InvAnchorServed == IndexingInv => AnchorServed
<1> SUFFICES ASSUME IndexingInv PROVE AnchorServed
  OBVIOUS
<1>1. PICK w, h : Sees(w, h)
  BY IndexSeen
<1>2. /\ h.notes \in Nat /\ h.confirmed \in Nat /\ h.confirmed <= h.notes
      /\ DOMAIN index.notes = 1 .. h.notes /\ index.watermark = h.confirmed
      /\ index.latest_root = RootAt(queue, h)
      /\ \A i \in 1 .. h.notes : index.notes[i] = NoteAt(queue, w, h, i)
  BY <1>1, SeenFields
<1>3. \A i \in 1 .. h.notes : /\ index.notes[i].cmx = queue[i].action.cmx
                              /\ index.notes[i].is_confirmed <=> i <= h.confirmed
  <2> TAKE i \in 1 .. h.notes
  <2> DEFINE yes == IF i <= h.confirmed THEN TRUE ELSE FALSE
  <2>1. yes <=> i <= h.confirmed
    OBVIOUS
  <2>2. NoteAt(queue, w, h, i).cmx = queue[i].action.cmx /\ NoteAt(queue, w, h, i).is_confirmed = yes
    <3> HIDE DEF yes
    <3> QED
      BY DEF NoteAt, yes
  <2> HIDE DEF yes
  <2>3. index.notes[i] = NoteAt(queue, w, h, i)
    BY <1>2
  <2> QED
    BY <2>1, <2>2, <2>3
<1>4. [i \in 1 .. h.confirmed |-> index.notes[i].cmx] = [i \in 1 .. h.confirmed |-> queue[i].action.cmx]
  <2>1. \A i \in 1 .. h.confirmed : i \in 1 .. h.notes
    BY <1>2
  <2> QED
    BY <1>3, <2>1
<1>5. index.latest_root = IF index.watermark = 0 THEN Absent
                          ELSE <<Root([i \in 1 .. index.watermark |-> index.notes[i].cmx])>>
  BY <1>2, <1>4 DEF RootAt, Leaves
<1>6. \A i \in DOMAIN index.notes : index.notes[i].is_confirmed <=> i <= index.watermark
  BY <1>2, <1>3
<1> QED
  BY <1>5, <1>6 DEF AnchorServed

LEMMA InvCustodyAgrees == IndexingInv => CustodyAgrees
<1> SUFFICES ASSUME IndexingInv, index.cursor = Len(logs)
             PROVE  /\ \A a \in Accounts : /\ index.accounts[a].wei = balances[a]
                                           /\ index.accounts[a].units * Scale = balances[a]
                    /\ "shield" \in pool.calls => index.scale = Scale
                    /\ \A i \in DOMAIN queue : index.notes[i].shield_amount = queue[i].shielded
  BY DEF CustodyAgrees
<1>1. PICK w, h : Sees(w, h)
  BY IndexSeen
<1>2. h = View(Len(queue), confirmed, h.units, {}, PoolScale(pool)) /\ balances = Worth(h.units)
  BY <1>1 DEF Sees
<1>3. h.notes = Len(queue) /\ h.owed = {} /\ h.scale = PoolScale(pool)
  <2> DEFINE v == View(Len(queue), confirmed, h.units, {}, PoolScale(pool))
  <2>1. v.notes = Len(queue) /\ v.owed = {} /\ v.scale = PoolScale(pool)
    BY ViewIs
  <2> HIDE DEF v
  <2>2. h = v
    BY <1>2 DEF v
  <2> QED
    BY <2>1, <2>2
<1>4. /\ h.units \in [Accounts -> Int] /\ DOMAIN queue = 1 .. Len(queue)
      /\ index.accounts = AccountsAt(h) /\ index.scale = h.scale
      /\ \A i \in 1 .. h.notes : index.notes[i] = NoteAt(queue, w, h, i)
  BY <1>1, SeenFields
<1>5. ASSUME NEW a \in Accounts
      PROVE  index.accounts[a].wei = balances[a] /\ index.accounts[a].units * Scale = balances[a]
  <2> DEFINE x == h.units[a]
  <2>1. x \in Int /\ Scale \in Int
    BY <1>4, IndexingAssumption
  <2>2. index.accounts[a].units = x /\ index.accounts[a].wei = Scale * x /\ balances[a] = Scale * x
    BY <1>2, <1>4 DEF AccountsAt, Worth
  <2> HIDE DEF x
  <2>3. x * Scale = Scale * x
    BY <2>1
  <2> QED
    BY <2>2, <2>3
<1>6. "shield" \in pool.calls => index.scale = Scale
  BY <1>3, <1>4 DEF PoolScale
<1>7. \A i \in DOMAIN queue : index.notes[i].shield_amount = queue[i].shielded
  <2> TAKE i \in DOMAIN queue
  <2>1. index.notes[i] = NoteAt(queue, w, h, i)
    BY <1>3, <1>4
  <2>2. NoteAt(queue, w, h, i).shield_amount = IF i \in h.owed THEN Absent ELSE queue[i].shielded
    BY DEF NoteAt
  <2>3. i \notin h.owed
    BY <1>3
  <2> QED
    BY <2>1, <2>2, <2>3
<1> QED
  BY <1>5, <1>6, <1>7

\* The indexer never gets ahead of the logs, nor its notes of the queue.
THEOREM IndexingTypeCorrect == Spec => []TypeOK
BY IndexingInvariant, InvTypeOK, PTL

\* Whatever the generation of the pool, every indexed note is that of its own
\* action, with the ciphertexts of one action that has its commitment.
THEOREM NotesAreFaithful == Spec => []NotesFaithful
BY IndexingInvariant, InvNotesFaithful, PTL

\* The root an indexer serves is that of its own first watermark notes.
THEOREM ServedAnchorIsRoot == Spec => []AnchorServed
BY IndexingInvariant, InvAnchorServed, PTL

\* An indexer that has read all logs agrees with the pool about the money.
THEOREM CustodyIsAgreed == Spec => []CustodyAgrees
BY IndexingInvariant, InvCustodyAgrees, PTL

\* The pool refuses nothing that the encoders make, for bundles and batches of
\* any size the assumptions admit.
THEOREM NothingIsRefused == Spec => []NothingRefused
<1>1. IndexingInv => NothingRefused
  BY DEF IndexingInv, NothingRefused
<1> QED
  BY <1>1, IndexingInvariant, PTL

-----------------------------------------------------------------------------
(* What a transaction and a log say. *)

Statuses == {"initiated", "joined", "settled", "cancelled"}

Stage(s, commit_b, status) ==
    [initiator |-> Initiator, pool_a |-> PoolA, pool_b |-> PoolB, htlc_hash |-> HtlcHash(s),
     commit_a |-> CommitA[s], rk |-> <<rk_bx(s), rk_by(s)>>, deadline |-> Deadline,
     commit_b |-> commit_b, status |-> status]

Signed(s) == JoinSignature(<<rk_bx(s), rk_by(s)>>, LocalId[s], CommitB[s])

InitiateTerms(s) ==
    [pool_a |-> PoolA, pool_b |-> PoolB, call_a |-> CallA[s], htlc_hash |-> HtlcHash(s),
     rk_bx |-> rk_bx(s), rk_by |-> rk_by(s), deadline |-> Deadline, salt |-> Salt(s)]

JoinTerms(s) == [swap_id |-> LocalId[s], call_b |-> CallB[s], joiner_sig |-> Signed(s)]

InitiateTxOf(s) ==
    [sender |-> Initiator, call |-> "initiateSwap",
     received |-> [id |-> LocalId[s], swap |-> Stage(s, Absent, "initiated")],
     decoded |-> Ok(InitiateTerms(s))]

JoinTxOf(s) ==
    [sender |-> Joiner, call |-> "joinSwap",
     received |-> [id |-> LocalId[s], commit_b |-> CommitB[s], joiner_sig |-> Signed(s)],
     decoded |-> Ok(JoinTerms(s))]

SettleTxOf(s) ==
    [sender |-> Initiator, call |-> "settle",
     received |-> [id |-> LocalId[s], secret |-> Secret(s),
                   commits |-> <<CommitA[s], <<CommitB[s]>>>>],
     decoded |-> Err("BadSelector")]

InitiatedTerms(s) ==
    [swap_id |-> LocalId[s], initiator |-> Initiator, pool_a |-> PoolA, pool_b |-> PoolB,
     htlc_hash |-> HtlcHash(s), deadline |-> Deadline, commit_a |-> CommitA[s],
     rk_bx |-> rk_bx(s), rk_by |-> rk_by(s)]

JoinedTerms(s) ==
    [swap_id |-> LocalId[s], joiner |-> Joiner, commit_b |-> CommitB[s],
     rk_bx |-> rk_bx(s), rk_by |-> rk_by(s)]

InitiatedLogOf(s) ==
    [event |-> "SwapInitiated", decoded |-> Ok(InitiateTerms(s)), read |-> Ok(InitiatedTerms(s))]

JoinedLogOf(s) ==
    [event |-> "SwapJoined", decoded |-> Ok(JoinTerms(s)), read |-> Ok(JoinedTerms(s))]

-----------------------------------------------------------------------------
(* Legs *)

LEMMA SmallWords ==
    /\ 1 \in Nat /\ CalldataWords(1) < U32 /\ CalldataWords(1) \in Nat
    /\ Deadline \in Nat /\ Deadline < U64 /\ IsBelow(Num(Deadline), U64) /\ Num(Deadline).n = Deadline
<1>1. 1 \in Nat /\ CalldataWords(1) < U32 /\ CalldataWords(1) \in Nat
  BY SwapAssumption, CalldataWordsNat
<1>2. Deadline \in Nat /\ Deadline < U64
  BY SwapAssumption, BundleAssumption
<1>3. IsBelow(Num(Deadline), U64) /\ Num(Deadline).n = Deadline
  BY <1>2 DEF IsBelow, Num
<1> QED
  BY <1>1, <1>2, <1>3

LEMMA LegFits ==
    ASSUME NEW side, NEW s
    PROVE  CallFits(Leg(side, s)) /\ Len(Leg(side, s).actions) = 1
<1> DEFINE W(name) == [side |-> side, name |-> name, of |-> s]
           enc == [i \in 1 .. EncWords |-> W("enc")]
           fields == [i \in 1 .. 8 |-> W("field")]
           binding == [i \in 1 .. 8 |-> W("binding")]
           a == [cmx |-> W("cmx"), enc_ciphertext |-> enc, out_ciphertext |-> <<W("out")>>,
                 epk |-> W("epk"), nf_old |-> W("nf"), anchor |-> W("anchor"),
                 proof |-> <<W("proof")>>, pub_fields |-> fields]
<1>1. Leg(side, s) = [actions |-> <<a>>, binding_proof |-> binding]
  BY DEF Leg
<1>2. IsSeq(enc) /\ Len(enc) = EncWords
  BY FunctionIsSeq, BundleAssumption
<1>3. IsSeq(fields) /\ Len(fields) = 8
  <2>1. fields = [i \in 1 .. 8 |-> fields[i]]
    OBVIOUS
  <2> HIDE DEF fields
  <2> QED
    BY <2>1, FunctionIsSeq, 8 \in Nat
<1>4. IsSeq(binding) /\ Len(binding) = 8
  <2>1. binding = [i \in 1 .. 8 |-> binding[i]]
    OBVIOUS
  <2> HIDE DEF binding
  <2> QED
    BY <2>1, FunctionIsSeq, 8 \in Nat
<1>5. IsSeq(<<W("out")>>) /\ Len(<<W("out")>>) = 1 /\ IsSeq(<<W("proof")>>) /\ Len(<<W("proof")>>) = 1
  BY TuplesAreSeqs
<1> HIDE DEF enc, fields, binding, W
<1>6. ActionFits(a)
  BY <1>2, <1>3, <1>5 DEF ActionFits
<1> HIDE DEF a
<1>7. IsSeq(<<a>>) /\ Len(<<a>>) = 1 /\ <<a>>[1] = a
  BY TuplesAreSeqs
<1>8. ActionsFit(<<a>>)
  <2>1. \A i \in 1 .. 1 : i = 1
    OBVIOUS
  <2> QED
    BY <1>6, <1>7, <2>1 DEF ActionsFit
<1> QED
  BY <1>1, <1>4, <1>7, <1>8 DEF CallFits

LEMMA LegParameters ==
    ASSUME NEW s \in Swaps
    PROVE  /\ ParameterFits(privacy_call_param, privacy_call_token(CallA[s]), 1)
           /\ ParameterFits(privacy_call_param, privacy_call_token(CallB[s]), 1)
           /\ parse_privacy_call(privacy_call_token(CallA[s])) = Ok(CallA[s])
           /\ parse_privacy_call(privacy_call_token(CallB[s])) = Ok(CallB[s])
           /\ CommitOf(privacy_call_token(CallA[s])) = CommitA[s]
           /\ CommitOf(privacy_call_token(CallB[s])) = CommitB[s]
<1>1. CallA[s] = Leg("A", s) /\ CallB[s] = Leg("B", s)
  BY DEF CallA, CallB
<1>2. /\ CallFits(CallA[s]) /\ Len(CallA[s].actions) = 1
      /\ CallFits(CallB[s]) /\ Len(CallB[s].actions) = 1
  BY <1>1, LegFits
<1>3. /\ parse_privacy_call(privacy_call_token(CallA[s])) = Ok(CallA[s])
      /\ parse_privacy_call(privacy_call_token(CallB[s])) = Ok(CallB[s])
  BY <1>2, CallTokenFits, SmallWords
<1>4. /\ ParameterFits(privacy_call_param, privacy_call_token(CallA[s]), 1)
      /\ ParameterFits(privacy_call_param, privacy_call_token(CallB[s]), 1)
  BY <1>2, 1 <= 1 DEF ParameterFits
<1>5. LegLayout = privacy_call_param
  BY DEF LegLayout, privacy_call_param
<1>6. CommitA[s] = privacy_call_commit(CallA[s]) /\ CommitB[s] = privacy_call_commit(CallB[s])
  BY DEF CommitA, CommitB
<1>7. \A call : CommitOf(privacy_call_token(call)) = privacy_call_commit(call)
  BY <1>5 DEF CommitOf, privacy_call_commit
<1> QED
  BY <1>3, <1>4, <1>6, <1>7

LEMMA WordParameters ==
    /\ \A w : ParameterFits(Word, w, 1)
    /\ ParameterFits(Address, PoolA, 1) /\ ParameterFits(Address, PoolB, 1)
    /\ ParameterFits(Address, Initiator, 1)
    /\ AddressOf(Initiator) = Initiator /\ AddressOf(Joiner) = Joiner
<1>1. /\ AddressOf(PoolA) = PoolA /\ AddressOf(PoolB) = PoolB
      /\ AddressOf(Initiator) = Initiator /\ AddressOf(Joiner) = Joiner
  BY DEF AddressOf, PoolA, PoolB, Initiator, Joiner
<1> QED
  BY <1>1, FieldsFit DEF ParameterFits

-----------------------------------------------------------------------------
(* Transactions *)

LEMMA IdIsLocal ==
    ASSUME NEW s \in Swaps
    PROVE  LocalId[s] =
             Keccak(<<Initiator, PoolA, PoolB, HtlcHash(s), CommitA[s], rk_bx(s), rk_by(s), Salt(s)>>)
<1> DEFINE ts == swap_id_params
           vs == <<Initiator, PoolA, PoolB, HtlcHash(s), CommitA[s], rk_bx(s), rk_by(s), Salt(s)>>
<1>1. IsSeq(ts) /\ Len(ts) = 8 /\ IsSeq(vs) /\ Len(vs) = 8
  BY TuplesAreSeqs DEF swap_id_params
<1>2. \A i \in 1 .. 8 : ts[i] \in {Word, Address}
  <2>1. \A i \in 1 .. 8 : i = 1 \/ i = 2 \/ i = 3 \/ i = 4 \/ i = 5 \/ i = 6 \/ i = 7 \/ i = 8
    OBVIOUS
  <2>2. /\ ts[1] = Address /\ ts[2] = Address /\ ts[3] = Address /\ ts[4] = Word
        /\ ts[5] = Word /\ ts[6] = Word /\ ts[7] = Word /\ ts[8] = Word
    BY DEF swap_id_params
  <2> HIDE DEF ts
  <2> QED
    BY <2>1, <2>2
<1>3. LocalId[s] = Keccak(Encode(ts, vs))
  BY DEF LocalId, compute_swap_id
<1> HIDE DEF ts, vs
<1>4. Encode(ts, vs) = vs
  BY <1>1, <1>2, WordsEncode
<1> QED
  BY <1>3, <1>4 DEF vs

LEMMA InitiateTxIs ==
    ASSUME NEW s \in Swaps
    PROVE  InitiateTx[s] = InitiateTxOf(s)
<1> DEFINE ts == swap_initiate_params
           vs == <<PoolA, PoolB, privacy_call_token(CallA[s]), HtlcHash(s), rk_bx(s), rk_by(s),
                   Num(Deadline), Salt(s)>>
           body == Encode(ts, vs)
           calldata == Calldata("initiateSwap", body)
<1>1. IsSeq(ts) /\ Len(ts) = 8 /\ IsSeq(vs) /\ Len(vs) = 8
  BY TuplesAreSeqs DEF swap_initiate_params
<1>2. /\ ts[1] = Address /\ ts[2] = Address /\ ts[3] = privacy_call_param /\ ts[4] = Word
      /\ ts[5] = Word /\ ts[6] = Word /\ ts[7] = Word /\ ts[8] = Word
  BY DEF swap_initiate_params
<1>3. /\ vs[1] = PoolA /\ vs[2] = PoolB /\ vs[3] = privacy_call_token(CallA[s])
      /\ vs[4] = HtlcHash(s) /\ vs[5] = rk_bx(s) /\ vs[6] = rk_by(s)
      /\ vs[7] = Num(Deadline) /\ vs[8] = Salt(s)
  OBVIOUS
<1>4. InitiateTx[s] = Tx(Initiator, calldata)
  BY DEF InitiateTx, encode_swap_initiate_calldata
<1>5. InitiateArguments = ts
  BY DEF InitiateArguments, swap_initiate_params, LegLayout, privacy_call_param
<1>6. calldata.sel = "initiateSwap" /\ calldata.body = body
  BY DEF Calldata
<1> HIDE DEF ts, vs
<1>7. \A i \in 1 .. 8 : ParameterFits(ts[i], vs[i], 1)
  <2>1. \A i \in 1 .. 8 : i = 1 \/ i = 2 \/ i = 3 \/ i = 4 \/ i = 5 \/ i = 6 \/ i = 7 \/ i = 8
    OBVIOUS
  <2> QED
    BY <1>2, <1>3, <2>1, LegParameters, WordParameters
<1>8. Decode(ts, body) = Readable(vs)
  BY <1>1, <1>7, SmallWords, ParametersRead, 8 <= 8
<1> HIDE DEF body, calldata
<1>9. Decode(ts, body).ok /\ Decode(ts, body).value = vs
  BY <1>8 DEF Readable
<1>10. ReceiveInitiate(Initiator, body) = [id |-> LocalId[s], swap |-> Stage(s, Absent, "initiated")]
  <2>1. CommitOf(vs[3]) = CommitA[s]
    BY <1>3, LegParameters
  <2>2. Keccak(<<Initiator, vs[1], vs[2], vs[4], CommitA[s], vs[5], vs[6], vs[8]>>) = LocalId[s]
    BY <1>3, IdIsLocal
  <2> QED
    BY <1>3, <1>5, <1>9, <2>1, <2>2, SmallWords DEF ReceiveInitiate, Stage
<1>11. decode_swap_initiate_calldata(calldata) = Ok(InitiateTerms(s))
  <2>1. parse_privacy_call(vs[3]) = Ok(CallA[s]) /\ Ok(CallA[s]).ok /\ Ok(CallA[s]).value = CallA[s]
    BY <1>3, LegParameters DEF Ok
  <2>2. IsBelow(vs[7], U64) /\ vs[7].n = Deadline
    BY <1>3, SmallWords
  <2>3. swap_initiate_params = ts
    BY DEF ts
  <2> QED
    BY <1>3, <1>6, <1>9, <2>1, <2>2, <2>3 DEF decode_swap_initiate_calldata, InitiateTerms
<1> QED
  BY <1>4, <1>6, <1>10, <1>11 DEF Tx, InitiateTxOf

LEMMA JoinTxIs ==
    ASSUME NEW s \in Swaps
    PROVE  Tx(Joiner, encode_swap_join_calldata(LocalId[s], CallB[s],
                        JoinSignature(<<rk_bx(s), rk_by(s)>>, LocalId[s], CommitB[s])))
             = JoinTxOf(s)
<1> DEFINE ts == swap_join_params
           vs == <<LocalId[s], privacy_call_token(CallB[s]), Signed(s)>>
           body == Encode(ts, vs)
           calldata == Calldata("joinSwap", body)
<1>1. IsSeq(ts) /\ Len(ts) = 3 /\ IsSeq(vs) /\ Len(vs) = 3
  BY TuplesAreSeqs DEF swap_join_params
<1>2. ts[1] = Word /\ ts[2] = privacy_call_param /\ ts[3] = FixedArray(3)
  BY DEF swap_join_params
<1>3. vs[1] = LocalId[s] /\ vs[2] = privacy_call_token(CallB[s]) /\ vs[3] = Signed(s)
  OBVIOUS
<1>4. encode_swap_join_calldata(LocalId[s], CallB[s],
        JoinSignature(<<rk_bx(s), rk_by(s)>>, LocalId[s], CommitB[s])) = calldata
  BY DEF encode_swap_join_calldata, Signed
<1>5. JoinArguments = ts
  BY DEF JoinArguments, swap_join_params, LegLayout, privacy_call_param
<1>6. calldata.sel = "joinSwap" /\ calldata.body = body
  BY DEF Calldata
<1> HIDE DEF ts, vs
<1>7. ParameterFits(ts[3], vs[3], 1)
  <2> DEFINE w(i) == [signs |-> <<LocalId[s], CommitB[s]>>, by |-> <<rk_bx(s), rk_by(s)>>, word |-> i]
             f == [i \in 1 .. 3 |-> w(i)]
  <2>1. Signed(s) = f
    BY DEF Signed, JoinSignature
  <2>2. f = [i \in 1 .. 3 |-> f[i]]
    OBVIOUS
  <2> HIDE DEF f
  <2>3. IsSeq(f) /\ Len(f) = 3
    BY <2>2, FunctionIsSeq, 3 \in Nat
  <2> QED
    BY <1>2, <1>3, <2>1, <2>3, FieldsFit DEF ParameterFits
<1>8. \A i \in 1 .. 3 : ParameterFits(ts[i], vs[i], 1)
  <2>1. \A i \in 1 .. 3 : i = 1 \/ i = 2 \/ i = 3
    OBVIOUS
  <2> QED
    BY <1>2, <1>3, <1>7, <2>1, LegParameters, WordParameters
<1>9. Decode(ts, body) = Readable(vs)
  BY <1>1, <1>8, SmallWords, ParametersRead, 3 <= 8
<1> HIDE DEF body, calldata
<1>10. Decode(ts, body).ok /\ Decode(ts, body).value = vs
  BY <1>9 DEF Readable
<1>11. ReceiveJoin(body) = [id |-> LocalId[s], commit_b |-> CommitB[s], joiner_sig |-> Signed(s)]
  <2>1. CommitOf(vs[2]) = CommitB[s]
    BY <1>3, LegParameters
  <2> QED
    BY <1>3, <1>5, <1>10, <2>1 DEF ReceiveJoin
<1>12. decode_swap_join_calldata(calldata) = Ok(JoinTerms(s))
  <2>1. parse_privacy_call(vs[2]) = Ok(CallB[s]) /\ Ok(CallB[s]).ok /\ Ok(CallB[s]).value = CallB[s]
    BY <1>3, LegParameters DEF Ok
  <2>2. swap_join_params = ts
    BY DEF ts
  <2> QED
    BY <1>3, <1>6, <1>10, <2>1, <2>2 DEF decode_swap_join_calldata, JoinTerms
<1> QED
  BY <1>4, <1>6, <1>11, <1>12 DEF Tx, JoinTxOf

LEMMA SettleTxIs ==
    ASSUME NEW s \in Swaps
    PROVE  Tx(Initiator, encode_swap_settle_calldata(LocalId[s], Secret(s), CallA[s], CallB[s]))
             = SettleTxOf(s)
<1> DEFINE ts == swap_settle_params
           vs == <<LocalId[s], Secret(s), privacy_call_token(CallA[s]), privacy_call_token(CallB[s])>>
           body == Encode(ts, vs)
           calldata == Calldata("settle", body)
<1>1. IsSeq(ts) /\ Len(ts) = 4 /\ IsSeq(vs) /\ Len(vs) = 4
  BY TuplesAreSeqs DEF swap_settle_params
<1>2. ts[1] = Word /\ ts[2] = Word /\ ts[3] = privacy_call_param /\ ts[4] = privacy_call_param
  BY DEF swap_settle_params
<1>3. /\ vs[1] = LocalId[s] /\ vs[2] = Secret(s) /\ vs[3] = privacy_call_token(CallA[s])
      /\ vs[4] = privacy_call_token(CallB[s])
  OBVIOUS
<1>4. encode_swap_settle_calldata(LocalId[s], Secret(s), CallA[s], CallB[s]) = calldata
  BY DEF encode_swap_settle_calldata
<1>5. SettleArguments = ts
  BY DEF SettleArguments, swap_settle_params, LegLayout, privacy_call_param
<1>6. calldata.sel = "settle" /\ calldata.body = body
  BY DEF Calldata
<1> HIDE DEF ts, vs
<1>7. \A i \in 1 .. 4 : ParameterFits(ts[i], vs[i], 1)
  <2>1. \A i \in 1 .. 4 : i = 1 \/ i = 2 \/ i = 3 \/ i = 4
    OBVIOUS
  <2> QED
    BY <1>2, <1>3, <2>1, LegParameters, WordParameters
<1>8. Decode(ts, body) = Readable(vs)
  BY <1>1, <1>7, SmallWords, ParametersRead, 4 <= 8
<1> HIDE DEF body, calldata
<1>9. Decode(ts, body).value = vs
  BY <1>8 DEF Readable
<1>10. ReceiveSettle(body) = [id |-> LocalId[s], secret |-> Secret(s),
                              commits |-> <<CommitA[s], <<CommitB[s]>>>>]
  <2>1. CommitOf(vs[3]) = CommitA[s] /\ CommitOf(vs[4]) = CommitB[s]
    BY <1>3, LegParameters
  <2> QED
    BY <1>3, <1>5, <1>9, <2>1 DEF ReceiveSettle
<1> QED
  BY <1>4, <1>6, <1>10 DEF Tx, SettleTxOf

-----------------------------------------------------------------------------
(* Logs *)

LEMMA InitiatedLogIs ==
    ASSUME NEW s \in Swaps
    PROVE  InitiatedLog(InitiateTxOf(s)) = InitiatedLogOf(s)
<1> DEFINE ts == <<Address, Address, Word, Word, Word, Word, Word>>
           vs == <<PoolA, PoolB, HtlcHash(s), Num(Deadline), CommitA[s], rk_bx(s), rk_by(s)>>
           topics == <<Topic0("SwapInitiated"), LocalId[s], Initiator>>
           tx == InitiateTxOf(s)
<1>1. IsSeq(ts) /\ Len(ts) = 7 /\ IsSeq(vs) /\ Len(vs) = 7 /\ Len(topics) = 3
  BY TuplesAreSeqs
<1>2. /\ ts[1] = Address /\ ts[2] = Address /\ ts[3] = Word /\ ts[4] = Word
      /\ ts[5] = Word /\ ts[6] = Word /\ ts[7] = Word
  OBVIOUS
<1>3. /\ vs[1] = PoolA /\ vs[2] = PoolB /\ vs[3] = HtlcHash(s) /\ vs[4] = Num(Deadline)
      /\ vs[5] = CommitA[s] /\ vs[6] = rk_bx(s) /\ vs[7] = rk_by(s)
  OBVIOUS
<1>4. topics[2] = LocalId[s] /\ topics[3] = Initiator
  OBVIOUS
<1>5. /\ tx.received.id = LocalId[s] /\ tx.sender = Initiator /\ tx.decoded = Ok(InitiateTerms(s))
      /\ tx.received.swap = Stage(s, Absent, "initiated")
  BY DEF InitiateTxOf
<1>6. LET w == Stage(s, Absent, "initiated")
      IN  <<w.pool_a, w.pool_b, w.htlc_hash, Num(w.deadline), w.commit_a, w.rk[1], w.rk[2]>> = vs
  BY DEF Stage
<1> HIDE DEF tx
<1>7. InitiatedLog(tx) =
        [event |-> "SwapInitiated", decoded |-> Ok(InitiateTerms(s)),
         read |-> decode_swap_initiated_log(topics, Encode(ts, vs))]
  BY <1>5, <1>6 DEF InitiatedLog
<1> HIDE DEF ts, vs, topics
<1>8. \A i \in 1 .. 7 : ParameterFits(ts[i], vs[i], 1)
  <2>1. \A i \in 1 .. 7 : i = 1 \/ i = 2 \/ i = 3 \/ i = 4 \/ i = 5 \/ i = 6 \/ i = 7
    OBVIOUS
  <2> QED
    BY <1>2, <1>3, <2>1, WordParameters
<1>9. Decode(ts, Encode(ts, vs)) = Readable(vs)
  BY <1>1, <1>8, SmallWords, ParametersRead, 7 <= 8
<1> DEFINE data == Encode(ts, vs)
<1> HIDE DEF data
<1>10. Decode(ts, data).ok /\ Decode(ts, data).value = vs
  BY <1>9 DEF Readable, data
<1>11. decode_swap_initiated_log(topics, data) = Ok(InitiatedTerms(s))
  <2>1. HasArguments(topics, 2) /\ topic_to_address(topics[3]) = Initiator
    BY <1>1, <1>4, WordParameters DEF HasArguments, topic_to_address
  <2>2. IsBelow(vs[4], U64) /\ vs[4].n = Deadline
    BY <1>3, SmallWords
  <2>3. ts = <<Address, Address, Word, Word, Word, Word, Word>>
    BY DEF ts
  <2> QED
    BY <1>3, <1>4, <1>10, <2>1, <2>2, <2>3 DEF decode_swap_initiated_log, InitiatedTerms
<1> QED
  BY <1>7, <1>11 DEF InitiatedLogOf, tx, data

LEMMA JoinedLogIs ==
    ASSUME NEW s \in Swaps, swaps[LocalId[s]].rk = <<rk_bx(s), rk_by(s)>>
    PROVE  JoinedLog(JoinTxOf(s)) = JoinedLogOf(s)
<1> DEFINE ts == <<Word, Word, Word>>
           vs == <<CommitB[s], rk_bx(s), rk_by(s)>>
           topics == <<Topic0("SwapJoined"), LocalId[s], Joiner>>
           tx == JoinTxOf(s)
<1>1. IsSeq(ts) /\ Len(ts) = 3 /\ IsSeq(vs) /\ Len(vs) = 3 /\ Len(topics) = 3
  BY TuplesAreSeqs
<1>2. ts[1] = Word /\ ts[2] = Word /\ ts[3] = Word
  OBVIOUS
<1>3. vs[1] = CommitB[s] /\ vs[2] = rk_bx(s) /\ vs[3] = rk_by(s)
  OBVIOUS
<1>4. topics[2] = LocalId[s] /\ topics[3] = Joiner
  OBVIOUS
<1>5. /\ tx.received.id = LocalId[s] /\ tx.sender = Joiner /\ tx.decoded = Ok(JoinTerms(s))
      /\ tx.received.commit_b = CommitB[s]
  BY DEF JoinTxOf
<1> HIDE DEF tx
<1>6. JoinedLog(tx) =
        [event |-> "SwapJoined", decoded |-> Ok(JoinTerms(s)),
         read |-> decode_swap_joined_log(topics, Encode(ts, vs))]
  <2>1. \A rk : rk = <<rk_bx(s), rk_by(s)>> => <<CommitB[s], rk[1], rk[2]>> = vs
    OBVIOUS
  <2> HIDE DEF vs
  <2> QED
    BY <1>5, <2>1 DEF JoinedLog
<1> HIDE DEF ts, vs, topics
<1>7. \A i \in 1 .. 3 : ParameterFits(ts[i], vs[i], 1)
  <2>1. \A i \in 1 .. 3 : i = 1 \/ i = 2 \/ i = 3
    OBVIOUS
  <2> QED
    BY <1>2, <2>1, WordParameters
<1>8. Decode(ts, Encode(ts, vs)) = Readable(vs)
  BY <1>1, <1>7, SmallWords, ParametersRead, 3 <= 8
<1> DEFINE data == Encode(ts, vs)
<1> HIDE DEF data
<1>9. Decode(ts, data).ok /\ Decode(ts, data).value = vs
  BY <1>8 DEF Readable, data
<1>10. decode_swap_joined_log(topics, data) = Ok(JoinedTerms(s))
  <2>1. HasArguments(topics, 2) /\ topic_to_address(topics[3]) = Joiner
    BY <1>1, <1>4, WordParameters DEF HasArguments, topic_to_address
  <2>2. ts = <<Word, Word, Word>>
    BY DEF ts
  <2> QED
    BY <1>3, <1>4, <1>9, <2>1, <2>2 DEF decode_swap_joined_log, JoinedTerms
<1> QED
  BY <1>6, <1>10 DEF JoinedLogOf, tx, data

-----------------------------------------------------------------------------
(* The invariant *)

Stored(id, swap) ==
    \E s \in Swaps : \E b \in {Absent, <<CommitB[s]>>}, status \in Statuses :
        /\ id = LocalId[s] /\ swap = Stage(s, b, status)
        /\ status = "initiated" => b = Absent
        /\ status \in {"joined", "settled"} => b = <<CommitB[s]>>

Joining(l, id) == l.event = "SwapJoined" /\ l.read.value.swap_id = id

Joined(id) == \E k \in 1 .. Len(swap_logs) : Joining(swap_logs[k], id)

Logged(l, ids) ==
    \/ \E s \in Swaps : l \in {InitiatedLogOf(s), JoinedLogOf(s)}
    \/ \E event \in {"SwapSettled", "SwapCancelled"}, id \in ids : l = EndLog(event, id)

SwapInv ==
    /\ now \in 0 .. Deadline
    /\ IsSeq(swap_logs) /\ cursor \in 0 .. Len(swap_logs)
    /\ \A id \in DOMAIN swaps : Stored(id, swaps[id])
    /\ \A id \in DOMAIN swaps : swaps[id].commit_b = Absent <=> ~Joined(id)
    /\ \A id : Joined(id) => id \in DOMAIN swaps
    /\ \A k \in 1 .. Len(swap_logs) : Logged(swap_logs[k], DOMAIN swaps)
    /\ \A tx \in mempool : \E s \in Swaps : tx \in {InitiateTxOf(s), JoinTxOf(s), SettleTxOf(s)}
    /\ mismatches = {}

LEMMA SwapInvInit == SwapInit => SwapInv
<1> SUFFICES ASSUME SwapInit PROVE SwapInv
  OBVIOUS
<1>1. IsSeq(<< >>) /\ Len(<< >>) = 0
  BY DEF IsSeq
<1>2. swap_logs = << >> /\ swaps = << >> /\ mempool = {} /\ now = 0 /\ cursor = 0 /\ mismatches = {}
  BY DEF SwapInit
<1>3. DOMAIN swaps = {}
  BY <1>2
<1>4. 0 \in 0 .. Deadline /\ 0 \in 0 .. 0 /\ 1 .. 0 = {}
  BY SmallWords
<1> QED
  BY <1>1, <1>2, <1>3, <1>4 DEF SwapInv, Joined

-----------------------------------------------------------------------------
(* Steps of the relayers *)

LEMMA LogFields ==
    /\ \A s : /\ InitiatedLogOf(s).event = "SwapInitiated"
              /\ InitiatedLogOf(s).read.value.swap_id = LocalId[s]
              /\ InitiatedLogOf(s).read.value.rk_bx = rk_bx(s)
              /\ InitiatedLogOf(s).decoded.value.call_a = CallA[s]
    /\ \A s : /\ JoinedLogOf(s).event = "SwapJoined"
              /\ JoinedLogOf(s).read.value.swap_id = LocalId[s]
              /\ JoinedLogOf(s).decoded.value.call_b = CallB[s]
    /\ \A event, id : /\ EndLog(event, id).event = event
                      /\ EndLog(event, id).read.value.swap_id = id
BY DEF InitiatedLogOf, InitiatedTerms, InitiateTerms, JoinedLogOf, JoinedTerms, JoinTerms, EndLog, Ok

LEMMA LoggedAs ==
    ASSUME NEW l, NEW ids, Logged(l, ids)
    PROVE  /\ l.event = "SwapInitiated" => \E s \in Swaps : l = InitiatedLogOf(s)
           /\ l.event = "SwapJoined" => \E s \in Swaps : l = JoinedLogOf(s)
BY LogFields DEF Logged

LEMMA SeenIs ==
    ASSUME SwapInv
    PROVE  DOMAIN Seen = 1 .. cursor /\ \A k \in DOMAIN Seen : Logged(Seen[k], DOMAIN swaps)
<1>1. /\ IsSeq(swap_logs) /\ cursor \in 0 .. Len(swap_logs)
      /\ \A k \in 1 .. Len(swap_logs) : Logged(swap_logs[k], DOMAIN swaps)
  BY DEF SwapInv
<1>2. Len(swap_logs) \in Nat /\ cursor \in Nat /\ cursor <= Len(swap_logs) /\ 1 <= cursor + 1
  BY <1>1, SeqFacts
<1>3. /\ IsSeq(Seen) /\ Len(Seen) = cursor
      /\ \A k \in 1 .. cursor : Seen[k] = swap_logs[k]
  <2>1. IsSeq(swap_logs) /\ cursor \in Nat /\ cursor <= Len(swap_logs)
    BY <1>1, <1>2
  <2> QED
    BY <2>1, PrefixIsSeq DEF Seen
<1>4. \A k \in 1 .. cursor : k \in 1 .. Len(swap_logs)
  BY <1>2
<1>5. DOMAIN Seen = 1 .. cursor
  BY <1>3, SeqFacts
<1> QED
  BY <1>1, <1>3, <1>4, <1>5

LEMMA SendStep ==
    ASSUME SwapInv, NEW tx, Send(tx),
           \E s \in Swaps : tx \in {InitiateTxOf(s), JoinTxOf(s), SettleTxOf(s)}
    PROVE  SwapInv'
<1>1. mempool' = mempool \cup {tx}
  BY DEF Send
<1>2. \A t \in mempool' : \E s \in Swaps : t \in {InitiateTxOf(s), JoinTxOf(s), SettleTxOf(s)}
  BY <1>1 DEF SwapInv
<1> QED
  BY <1>2 DEF SwapInv, Send, Joined

LEMMA InitiateStep ==
    ASSUME SwapInv, NEW s \in Swaps, Initiate(s)
    PROVE  SwapInv'
<1>1. Send(InitiateTxOf(s))
  BY InitiateTxIs DEF Initiate
<1> QED
  BY <1>1, SendStep

LEMMA JoiningStep ==
    ASSUME SwapInv, NEW s \in Swaps, Join(s)
    PROVE  SwapInv'
<1>1. PICK id \in IdsToJoin(s) :
        Send(Tx(Joiner, encode_swap_join_calldata(id, CallB[s],
                          JoinSignature(<<rk_bx(s), rk_by(s)>>, id, CommitB[s]))))
  BY DEF Join
<1>2. id = LocalId[s]
  <2> SUFFICES ASSUME NEW k \in DOMAIN Seen, Seen[k].event = "SwapInitiated",
                      Seen[k].read.value.rk_bx = rk_bx(s), id = Seen[k].read.value.swap_id
               PROVE  id = LocalId[s]
    BY <1>1 DEF IdsToJoin
  <2>1. PICK t \in Swaps : Seen[k] = InitiatedLogOf(t)
    BY SeenIs, LoggedAs
  <2>2. rk_bx(t) = rk_bx(s) /\ id = LocalId[t]
    BY <2>1, LogFields
  <2>3. rk_bx(t).rk_bx = t /\ rk_bx(s).rk_bx = s
    BY DEF rk_bx
  <2> QED
    BY <2>2, <2>3
<1>3. Send(JoinTxOf(s))
  BY <1>1, <1>2, JoinTxIs
<1> QED
  BY <1>3, SendStep

LEMMA SettleStep ==
    ASSUME SwapInv, NEW s \in Swaps, Settle(s)
    PROVE  SwapInv'
<1>1. PICK i \in SeenOf("SwapInitiated", LocalId[s]), j \in SeenOf("SwapJoined", LocalId[s]) :
        Send(Tx(Initiator,
           encode_swap_settle_calldata(LocalId[s], Secret(s), i.decoded.value.call_a,
                                       j.decoded.value.call_b)))
  BY DEF Settle
<1>2. i.decoded.value.call_a = CallA[s]
  <2>1. Logged(i, DOMAIN swaps) /\ i.event = "SwapInitiated" /\ i.read.value.swap_id = LocalId[s]
    BY SeenIs DEF SeenOf
  <2>2. PICK t \in Swaps : i = InitiatedLogOf(t)
    BY <2>1, LoggedAs
  <2>3. t = s
    BY <2>1, <2>2, LogFields, SwapIdsDiffer
  <2> QED
    BY <2>2, <2>3, LogFields
<1>3. j.decoded.value.call_b = CallB[s]
  <2>1. Logged(j, DOMAIN swaps) /\ j.event = "SwapJoined" /\ j.read.value.swap_id = LocalId[s]
    BY SeenIs DEF SeenOf
  <2>2. PICK t \in Swaps : j = JoinedLogOf(t)
    BY <2>1, LoggedAs
  <2>3. t = s
    BY <2>1, <2>2, LogFields, SwapIdsDiffer
  <2> QED
    BY <2>2, <2>3, LogFields
<1>4. Send(SettleTxOf(s))
  BY <1>1, <1>2, <1>3, SettleTxIs
<1> QED
  BY <1>4, SendStep

-----------------------------------------------------------------------------
(* Steps of the coordinator *)

LEMMA LogStep ==
    ASSUME SwapInv, NEW l, swap_logs' = Append(swap_logs, l), cursor' = cursor,
           DOMAIN swaps \subseteq DOMAIN swaps', Logged(l, DOMAIN swaps')
    PROVE  /\ IsSeq(swap_logs') /\ cursor' \in 0 .. Len(swap_logs')
           /\ \A k \in 1 .. Len(swap_logs') : Logged(swap_logs'[k], DOMAIN swaps')
           /\ \A id : Joined(id)' <=> Joined(id) \/ Joining(l, id)
<1> DEFINE n == Len(swap_logs)
<1>1. IsSeq(swap_logs) /\ cursor \in 0 .. n /\ \A k \in 1 .. n : Logged(swap_logs[k], DOMAIN swaps)
  BY DEF SwapInv
<1>2. /\ IsSeq(swap_logs') /\ n \in Nat /\ Len(swap_logs') = n + 1
      /\ \A k \in 1 .. n : swap_logs'[k] = swap_logs[k]
      /\ swap_logs'[n + 1] = l
  BY <1>1, AppendIsSeq
<1> HIDE DEF n
<1>3. 1 .. n + 1 = (1 .. n) \cup {n + 1} /\ 0 .. n \subseteq 0 .. n + 1
  BY <1>2
<1>4. \A k \in 1 .. n : Logged(swap_logs'[k], DOMAIN swaps')
  BY <1>1, <1>2 DEF Logged
<1>5. \A k \in 1 .. Len(swap_logs') : Logged(swap_logs'[k], DOMAIN swaps')
  BY <1>2, <1>3, <1>4
<1>6. ASSUME NEW id PROVE Joined(id)' <=> Joined(id) \/ Joining(l, id)
  <2>1. Joined(id)' <=> \E k \in 1 .. n + 1 : Joining(swap_logs'[k], id)
    BY <1>2 DEF Joined, Joining
  <2>2. Joined(id) <=> \E k \in 1 .. n : Joining(swap_logs[k], id)
    BY DEF Joined, n
  <2> QED
    BY <1>2, <1>3, <2>1, <2>2
<1> QED
  BY <1>1, <1>2, <1>3, <1>5, <1>6

LEMMA AppliedStep ==
    ASSUME SwapInv, NEW l, swap_logs' = Append(swap_logs, l), mempool' \subseteq mempool,
           cursor' = cursor, now' = now, mismatches' = mismatches,
           DOMAIN swaps \subseteq DOMAIN swaps', Logged(l, DOMAIN swaps'),
           \A id \in DOMAIN swaps' : Stored(id, swaps'[id]),
           \A id \in DOMAIN swaps' : swaps'[id].commit_b = Absent <=> ~(Joined(id) \/ Joining(l, id)),
           \A id : Joining(l, id) => id \in DOMAIN swaps'
    PROVE  SwapInv'
<1>1. /\ IsSeq(swap_logs') /\ cursor' \in 0 .. Len(swap_logs')
      /\ \A k \in 1 .. Len(swap_logs') : Logged(swap_logs'[k], DOMAIN swaps')
      /\ \A id : Joined(id)' <=> Joined(id) \/ Joining(l, id)
  BY LogStep
<1>2. \A id : Joined(id)' => id \in DOMAIN swaps'
  BY <1>1 DEF SwapInv
<1>3. \A id \in DOMAIN swaps' : swaps'[id].commit_b = Absent <=> ~Joined(id)'
  BY <1>1
<1> QED
  BY <1>1, <1>2, <1>3 DEF SwapInv

LEMMA StageFields ==
    ASSUME NEW s, NEW b, NEW status
    PROVE  /\ Stage(s, b, status).commit_b = b /\ Stage(s, b, status).status = status
           /\ Stage(s, b, status).deadline = Deadline /\ Stage(s, b, status).rk = <<rk_bx(s), rk_by(s)>>
           /\ Stage(s, b, status).htlc_hash = HtlcHash(s) /\ Stage(s, b, status).commit_a = CommitA[s]
           /\ \A st : [Stage(s, b, status) EXCEPT !.status = st] = Stage(s, b, st)
           /\ \A c : [Stage(s, b, status) EXCEPT !.commit_b = c] = Stage(s, c, status)
<1>1. ASSUME NEW st PROVE [Stage(s, b, status) EXCEPT !.status = st] = Stage(s, b, st)
  BY DEF Stage
<1>2. ASSUME NEW c PROVE [Stage(s, b, status) EXCEPT !.commit_b = c] = Stage(s, c, status)
  BY DEF Stage
<1>3. /\ Stage(s, b, status).commit_b = b /\ Stage(s, b, status).status = status
      /\ Stage(s, b, status).deadline = Deadline /\ Stage(s, b, status).rk = <<rk_bx(s), rk_by(s)>>
      /\ Stage(s, b, status).htlc_hash = HtlcHash(s) /\ Stage(s, b, status).commit_a = CommitA[s]
  BY DEF Stage
<1> QED
  BY <1>1, <1>2, <1>3

LEMMA SwapOf ==
    ASSUME SwapInv, NEW s \in Swaps, LocalId[s] \in DOMAIN swaps
    PROVE  \E b \in {Absent, <<CommitB[s]>>}, status \in Statuses :
             /\ swaps[LocalId[s]] = Stage(s, b, status)
             /\ status = "initiated" => b = Absent
             /\ status \in {"joined", "settled"} => b = <<CommitB[s]>>
<1>1. Stored(LocalId[s], swaps[LocalId[s]])
  BY DEF SwapInv
<1> QED
  BY <1>1, SwapIdsDiffer DEF Stored

LEMMA MineInitiation ==
    ASSUME SwapInv, NEW s \in Swaps, Execute(InitiateTxOf(s)), Refusal(InitiateTxOf(s)) = "none"
    PROVE  SwapInv'
<1> DEFINE tx == InitiateTxOf(s)
           id == LocalId[s]
           l == InitiatedLogOf(s)
<1>1. tx.call = "initiateSwap" /\ tx.received.id = id /\ tx.received.swap = Stage(s, Absent, "initiated")
  BY DEF InitiateTxOf
<1>2. InitiatedLog(tx) = l
  BY InitiatedLogIs
<1>3. l.event = "SwapInitiated"
  BY LogFields
<1> HIDE DEF l, tx
<1>4. id \notin DOMAIN swaps
  BY <1>1 DEF Refusal, tx
<1>5. Apply(tx) /\ mempool' = mempool \ {tx} /\ UNCHANGED <<now, cursor, mismatches>>
  BY DEF Execute, tx
<1>6. /\ swaps' = [x \in DOMAIN swaps \cup {id} |-> IF x = id THEN Stage(s, Absent, "initiated") ELSE swaps[x]]
      /\ swap_logs' = Append(swap_logs, l)
  BY <1>1, <1>2, <1>5 DEF Apply
<1> HIDE DEF id
<1>7. DOMAIN swaps' = DOMAIN swaps \cup {id}
  BY <1>6
<1>8. \A x \in DOMAIN swaps' : Stored(x, swaps'[x])
  <2>1. Stored(id, Stage(s, Absent, "initiated"))
    BY DEF Stored, id, Statuses
  <2> QED
    BY <1>6, <1>7, <2>1 DEF SwapInv
<1>9. \A x : ~Joining(l, x)
  BY <1>3 DEF Joining
<1>10. \A x \in DOMAIN swaps' : swaps'[x].commit_b = Absent <=> ~(Joined(x) \/ Joining(l, x))
  <2>1. ~Joined(id)
    BY <1>4 DEF SwapInv
  <2>2. swaps'[id].commit_b = Absent
    BY <1>6, <1>7, StageFields
  <2>3. \A x \in DOMAIN swaps : x # id /\ swaps'[x] = swaps[x] /\ (swaps[x].commit_b = Absent <=> ~Joined(x))
    BY <1>4, <1>6 DEF SwapInv
  <2> QED
    BY <1>7, <1>9, <2>1, <2>2, <2>3
<1>11. Logged(l, DOMAIN swaps')
  BY DEF Logged, l
<1> QED
  BY <1>5, <1>6, <1>7, <1>8, <1>9, <1>10, <1>11, AppliedStep

\* The stage of one swap changes.
LEMMA ChangeStep ==
    ASSUME SwapInv, NEW s \in Swaps, LocalId[s] \in DOMAIN swaps, NEW l, swap_logs' = Append(swap_logs, l),
           mempool' \subseteq mempool, cursor' = cursor, now' = now, mismatches' = mismatches,
           NEW b \in {Absent, <<CommitB[s]>>}, NEW status \in Statuses,
           status # "initiated", status \in {"joined", "settled"} => b = <<CommitB[s]>>,
           DOMAIN swaps' = DOMAIN swaps, swaps'[LocalId[s]] = Stage(s, b, status),
           \A id \in DOMAIN swaps \ {LocalId[s]} : swaps'[id] = swaps[id],
           Logged(l, DOMAIN swaps),
           \A id : Joining(l, id) => id = LocalId[s],
           b = Absent <=> ~(Joined(LocalId[s]) \/ Joining(l, LocalId[s]))
    PROVE  SwapInv'
<1>1. \A id \in DOMAIN swaps' : Stored(id, swaps'[id])
  <2>1. Stored(LocalId[s], Stage(s, b, status))
    BY DEF Stored
  <2> QED
    BY <2>1 DEF SwapInv
<1>2. \A id \in DOMAIN swaps' : swaps'[id].commit_b = Absent <=> ~(Joined(id) \/ Joining(l, id))
  <2>1. swaps'[LocalId[s]].commit_b = b
    BY StageFields
  <2>2. \A id \in DOMAIN swaps \ {LocalId[s]} : swaps'[id].commit_b = Absent <=> ~Joined(id)
    BY DEF SwapInv
  <2> QED
    BY <2>1, <2>2
<1> QED
  BY <1>1, <1>2, AppliedStep

LEMMA MineJoin ==
    ASSUME SwapInv, NEW s \in Swaps, Execute(JoinTxOf(s)), Refusal(JoinTxOf(s)) = "none"
    PROVE  SwapInv'
<1> DEFINE tx == JoinTxOf(s)
           id == LocalId[s]
           l == JoinedLogOf(s)
<1>1. tx.call = "joinSwap" /\ tx.received.id = id /\ tx.received.commit_b = CommitB[s]
  BY DEF JoinTxOf
<1>2. l.event = "SwapJoined" /\ l.read.value.swap_id = id
  BY LogFields
<1>3. id \in DOMAIN swaps /\ swaps[id].status = "initiated"
  BY <1>1 DEF Refusal
<1>4. swaps[id] = Stage(s, Absent, "initiated")
  <2>1. PICK b \in {Absent, <<CommitB[s]>>}, status \in Statuses :
          /\ swaps[id] = Stage(s, b, status)
          /\ status = "initiated" => b = Absent
    BY <1>3, SwapOf
  <2>2. status = "initiated"
    BY <1>3, <2>1, StageFields
  <2> QED
    BY <2>1, <2>2
<1>5. JoinedLog(tx) = l
  BY <1>4, StageFields, JoinedLogIs
<1> HIDE DEF l, tx
<1>6. Apply(tx) /\ mempool' = mempool \ {tx} /\ UNCHANGED <<now, cursor, mismatches>>
  BY DEF Execute, tx
<1>7. /\ swaps' = [swaps EXCEPT ![id].status = "joined", ![id].commit_b = <<CommitB[s]>>]
      /\ swap_logs' = Append(swap_logs, l)
  BY <1>1, <1>5, <1>6 DEF Apply
<1>8. /\ DOMAIN swaps' = DOMAIN swaps
      /\ swaps'[id] = [[swaps[id] EXCEPT !.status = "joined"] EXCEPT !.commit_b = <<CommitB[s]>>]
      /\ \A x \in DOMAIN swaps \ {id} : swaps'[x] = swaps[x]
  BY <1>3, <1>7
<1>9. swaps'[id] = Stage(s, <<CommitB[s]>>, "joined")
  <2>1. [Stage(s, Absent, "initiated") EXCEPT !.status = "joined"] = Stage(s, Absent, "joined")
    BY StageFields
  <2>2. [Stage(s, Absent, "joined") EXCEPT !.commit_b = <<CommitB[s]>>] = Stage(s, <<CommitB[s]>>, "joined")
    BY StageFields
  <2> QED
    BY <1>4, <1>8, <2>1, <2>2
<1>10. Logged(l, DOMAIN swaps) /\ Joining(l, id) /\ \A x : Joining(l, x) => x = id
  BY <1>2 DEF Logged, Joining, l
<1>11. <<CommitB[s]>> # Absent /\ "joined" \in Statuses /\ "joined" # "initiated"
  BY DEF Absent, Statuses
<1> QED
  BY <1>3, <1>6, <1>7, <1>8, <1>9, <1>10, <1>11, ChangeStep

LEMMA MineSettlement ==
    ASSUME SwapInv, NEW s \in Swaps, Execute(SettleTxOf(s)), Refusal(SettleTxOf(s)) = "none"
    PROVE  SwapInv'
<1> DEFINE tx == SettleTxOf(s)
           id == LocalId[s]
           l == EndLog("SwapSettled", id)
<1>1. tx.call = "settle" /\ tx.received.id = id
  BY DEF SettleTxOf
<1>2. l.event = "SwapSettled"
  BY LogFields
<1>3. id \in DOMAIN swaps /\ swaps[id].status = "joined"
  BY <1>1 DEF Refusal
<1>4. swaps[id] = Stage(s, <<CommitB[s]>>, "joined")
  BY <1>3, SwapOf, StageFields
<1> HIDE DEF tx
<1>5. Apply(tx) /\ mempool' = mempool \ {tx} /\ UNCHANGED <<now, cursor, mismatches>>
  BY DEF Execute, tx
<1>6. swaps' = [swaps EXCEPT ![id].status = "settled"] /\ swap_logs' = Append(swap_logs, l)
  BY <1>1, <1>5 DEF Apply
<1>7. /\ DOMAIN swaps' = DOMAIN swaps
      /\ swaps'[id] = [swaps[id] EXCEPT !.status = "settled"]
      /\ \A x \in DOMAIN swaps \ {id} : swaps'[x] = swaps[x]
  BY <1>3, <1>6
<1>8. swaps'[id] = Stage(s, <<CommitB[s]>>, "settled")
  BY <1>4, <1>7, StageFields
<1>9. Logged(l, DOMAIN swaps) /\ \A x : ~Joining(l, x)
  BY <1>2, <1>3 DEF Logged, Joining
<1>10. <<CommitB[s]>> # Absent /\ "settled" \in Statuses /\ "settled" # "initiated"
  BY DEF Absent, Statuses
<1>11. Joined(id)
  BY <1>3, <1>4, <1>10, StageFields DEF SwapInv
<1> HIDE DEF l
<1> QED
  BY <1>3, <1>5, <1>6, <1>7, <1>8, <1>9, <1>10, <1>11, ChangeStep

LEMMA CancelStep ==
    ASSUME SwapInv, NEW id \in DOMAIN swaps, Cancel(id)
    PROVE  SwapInv'
<1> DEFINE l == EndLog("SwapCancelled", id)
<1>1. PICK s \in Swaps : id = LocalId[s] /\ Stored(id, swaps[id])
  BY DEF SwapInv, Stored
<1>2. PICK b \in {Absent, <<CommitB[s]>>}, status \in Statuses : swaps[id] = Stage(s, b, status)
  BY <1>1, SwapOf
<1>3. l.event = "SwapCancelled"
  BY LogFields
<1>4. /\ swaps' = [swaps EXCEPT ![id].status = "cancelled"] /\ swap_logs' = Append(swap_logs, l)
      /\ UNCHANGED <<now, mempool, cursor, mismatches>>
  BY DEF Cancel
<1>5. /\ DOMAIN swaps' = DOMAIN swaps
      /\ swaps'[id] = [swaps[id] EXCEPT !.status = "cancelled"]
      /\ \A x \in DOMAIN swaps \ {id} : swaps'[x] = swaps[x]
  BY <1>4
<1>6. swaps'[id] = Stage(s, b, "cancelled")
  BY <1>2, <1>5, StageFields
<1>7. Logged(l, DOMAIN swaps) /\ \A x : ~Joining(l, x)
  BY <1>3 DEF Logged, Joining
<1>8. "cancelled" \in Statuses /\ "cancelled" \notin {"initiated", "joined", "settled"}
  BY DEF Statuses
<1>9. b = Absent <=> ~Joined(id)
  BY <1>2, StageFields DEF SwapInv
<1>10. /\ swaps'[LocalId[s]] = Stage(s, b, "cancelled") /\ \A x : ~Joining(l, x)
       /\ \A x \in DOMAIN swaps \ {LocalId[s]} : swaps'[x] = swaps[x]
       /\ b = Absent <=> ~(Joined(LocalId[s]) \/ Joining(l, LocalId[s]))
       /\ LocalId[s] \in DOMAIN swaps
  BY <1>1, <1>5, <1>6, <1>7, <1>9
<1> HIDE DEF l
<1>11. /\ swap_logs' = Append(swap_logs, l) /\ mempool' \subseteq mempool /\ cursor' = cursor
       /\ now' = now /\ mismatches' = mismatches
  BY <1>4
<1>12. /\ "cancelled" \in Statuses /\ "cancelled" # "initiated"
       /\ "cancelled" \in {"joined", "settled"} => b = <<CommitB[s]>>
  BY <1>8
<1>13. DOMAIN swaps' = DOMAIN swaps /\ Logged(l, DOMAIN swaps) /\ \A x : Joining(l, x) => x = LocalId[s]
  BY <1>5, <1>7
<1> HIDE DEF l
<1> QED
  BY <1>10, <1>11, <1>12, <1>13, ChangeStep

\* What comes too early, too late or twice is refused for that.
LEMMA RefusalIsUntimely ==
    ASSUME SwapInv, NEW tx \in mempool
    PROVE  Refusal(tx) \in Untimely \cup {"none"}
<1>1. PICK s \in Swaps : tx \in {InitiateTxOf(s), JoinTxOf(s), SettleTxOf(s)}
  BY DEF SwapInv
<1>2. CASE tx = InitiateTxOf(s)
  <2>1. tx.call = "initiateSwap"
    BY <1>2 DEF InitiateTxOf
  <2> QED
    BY <2>1 DEF Refusal, Untimely
<1>3. CASE tx = JoinTxOf(s)
  <2>1. /\ tx.call = "joinSwap" /\ tx.received.id = LocalId[s] /\ tx.received.commit_b = CommitB[s]
        /\ tx.received.joiner_sig = Signed(s)
    BY <1>3 DEF JoinTxOf
  <2>2. LocalId[s] \in DOMAIN swaps => swaps[LocalId[s]].rk = <<rk_bx(s), rk_by(s)>>
    <3> SUFFICES ASSUME LocalId[s] \in DOMAIN swaps PROVE swaps[LocalId[s]].rk = <<rk_bx(s), rk_by(s)>>
      OBVIOUS
    <3>1. PICK b \in {Absent, <<CommitB[s]>>}, status \in Statuses : swaps[LocalId[s]] = Stage(s, b, status)
      BY SwapOf
    <3> QED
      BY <3>1, StageFields
  <2>3. LocalId[s] \in DOMAIN swaps =>
          tx.received.joiner_sig = JoinSignature(swaps[LocalId[s]].rk, tx.received.id, tx.received.commit_b)
    BY <2>1, <2>2 DEF Signed
  <2> QED
    BY <2>1, <2>3 DEF Refusal, Untimely
<1>4. CASE tx = SettleTxOf(s)
  <2>1. /\ tx.call = "settle" /\ tx.received.id = LocalId[s] /\ tx.received.secret = Secret(s)
        /\ tx.received.commits = <<CommitA[s], <<CommitB[s]>>>>
    BY <1>4 DEF SettleTxOf
  <2>2. LocalId[s] \in DOMAIN swaps =>
          /\ swaps[LocalId[s]].htlc_hash = HtlcHash(s) /\ swaps[LocalId[s]].commit_a = CommitA[s]
          /\ swaps[LocalId[s]].status = "joined" => swaps[LocalId[s]].commit_b = <<CommitB[s]>>
    <3> SUFFICES ASSUME LocalId[s] \in DOMAIN swaps
                 PROVE  /\ swaps[LocalId[s]].htlc_hash = HtlcHash(s)
                        /\ swaps[LocalId[s]].commit_a = CommitA[s]
                        /\ swaps[LocalId[s]].status = "joined" => swaps[LocalId[s]].commit_b = <<CommitB[s]>>
      OBVIOUS
    <3>1. PICK b \in {Absent, <<CommitB[s]>>}, status \in Statuses :
            /\ swaps[LocalId[s]] = Stage(s, b, status)
            /\ status \in {"joined", "settled"} => b = <<CommitB[s]>>
      BY SwapOf
    <3> QED
      BY <3>1, StageFields
  <2>3. HtlcHash(s) = Keccak(<<Secret(s)>>)
    BY DEF HtlcHash
  <2> QED
    BY <2>1, <2>2, <2>3 DEF Refusal, Untimely
<1> QED
  BY <1>1, <1>2, <1>3, <1>4

LEMMA RefusedStep ==
    ASSUME SwapInv, NEW tx \in mempool, Execute(tx), Refusal(tx) # "none"
    PROVE  SwapInv'
<1>1. {Refusal(tx)} \ Untimely = {}
  BY RefusalIsUntimely
<1>2. /\ mempool' \subseteq mempool /\ mismatches' = mismatches
      /\ UNCHANGED <<swaps, swap_logs, now, cursor>>
  BY <1>1 DEF Execute
<1> QED
  BY <1>2 DEF SwapInv, Joined

LEMMA SwapInvNext == SwapInv /\ [SwapNext]_swap_vars => SwapInv'
<1> SUFFICES ASSUME SwapInv, [SwapNext]_swap_vars PROVE SwapInv'
  OBVIOUS
<1>1. CASE \E s \in Swaps : Initiate(s) \/ Join(s) \/ Settle(s)
  BY <1>1, InitiateStep, JoiningStep, SettleStep
<1>2. ASSUME NEW tx \in mempool, Execute(tx) PROVE SwapInv'
  <2>1. CASE Refusal(tx) # "none"
    BY <1>2, <2>1, RefusedStep
  <2>2. CASE Refusal(tx) = "none"
    <3>1. PICK s \in Swaps : tx \in {InitiateTxOf(s), JoinTxOf(s), SettleTxOf(s)}
      BY DEF SwapInv
    <3> QED
      BY <1>2, <2>2, <3>1, MineInitiation, MineJoin, MineSettlement
  <2> QED
    BY <2>1, <2>2
<1>3. ASSUME NEW tx \in mempool, Lose(tx) PROVE SwapInv'
  BY <1>3 DEF SwapInv, Lose, Joined
<1>4. ASSUME NEW id \in DOMAIN swaps, Cancel(id) PROVE SwapInv'
  BY <1>4, CancelStep
<1>5. CASE Tick
  <2>1. now + 1 \in 0 .. Deadline
    BY <1>5, SmallWords DEF Tick, SwapInv
  <2> QED
    BY <1>5, <2>1 DEF SwapInv, Tick, Joined
<1>6. CASE IndexSwaps
  <2>1. cursor + 1 \in 0 .. Len(swap_logs)
    BY <1>6, SeqFacts DEF IndexSwaps, SwapInv
  <2> QED
    BY <1>6, <2>1 DEF SwapInv, IndexSwaps, Joined
<1>7. CASE UNCHANGED swap_vars
  BY <1>7 DEF SwapInv, swap_vars, Joined
<1> QED
  BY <1>1, <1>2, <1>3, <1>4, <1>5, <1>6, <1>7 DEF SwapNext, Mine

LEMMA SwapInvHolds == SwapSpec => []SwapInv
<1>1. SwapInit => SwapInv
  BY SwapInvInit
<1>2. SwapInv /\ [SwapNext]_swap_vars => SwapInv'
  BY SwapInvNext
<1> QED
  BY <1>1, <1>2, PTL DEF SwapSpec

-----------------------------------------------------------------------------
(* Theorems *)

LEMMA LogsOf ==
    ASSUME SwapInv
    PROVE  /\ \A l \in Initiations : \E s \in Swaps : l = InitiatedLogOf(s)
           /\ \A l \in Joins : \E s \in Swaps : l = JoinedLogOf(s)
           /\ \A id : Joined(id) <=> \E l \in Joins : l.read.value.swap_id = id
<1>1. DOMAIN swap_logs = 1 .. Len(swap_logs)
  BY SeqFacts DEF SwapInv
<1>2. \A k \in DOMAIN swap_logs : Logged(swap_logs[k], DOMAIN swaps)
  BY <1>1 DEF SwapInv
<1>3. \A l \in Initiations : \E s \in Swaps : l = InitiatedLogOf(s)
  BY <1>2, LoggedAs DEF Initiations
<1>4. \A l \in Joins : \E s \in Swaps : l = JoinedLogOf(s)
  BY <1>2, LoggedAs DEF Joins
<1>5. \A id : Joined(id) <=> \E l \in Joins : l.read.value.swap_id = id
  BY <1>1 DEF Joined, Joins, Joining
<1> QED
  BY <1>3, <1>4, <1>5

\* What the coordinator stores is a swap in one of four stages, with a
\* commitment of the joiner exactly when a SwapJoined log says so, every log of
\* an initiation or a join can be decoded, and so can its calldata.
THEOREM SwapTypeCorrect == SwapSpec => []SwapTypeOK
<1>1. SwapInv => SwapTypeOK
  <2> SUFFICES ASSUME SwapInv PROVE SwapTypeOK
    OBVIOUS
  <2>1. /\ now \in 0 .. Deadline /\ cursor \in 0 .. Len(swap_logs)
        /\ mismatches \subseteq {"signature", "secret", "commitment"}
    BY DEF SwapInv
  <2>2. ASSUME NEW id \in DOMAIN swaps
        PROVE  /\ swaps[id].deadline = Deadline
               /\ swaps[id].status \in {"initiated", "joined", "settled", "cancelled"}
    <3>1. Stored(id, swaps[id])
      BY DEF SwapInv
    <3>2. PICK s \in Swaps : \E b \in {Absent, <<CommitB[s]>>}, status \in Statuses :
                             swaps[id] = Stage(s, b, status)
      BY <3>1 DEF Stored
    <3> QED
      BY <3>2, StageFields DEF Statuses
  <2>3. \A id \in DOMAIN swaps : swaps[id].commit_b = Absent <=> ~\E l \in Joins : l.read.value.swap_id = id
    BY LogsOf DEF SwapInv
  <2>4. \A l \in Initiations \cup Joins : l.read.ok /\ l.decoded.ok
    <3>1. \A s : /\ InitiatedLogOf(s).read.ok /\ InitiatedLogOf(s).decoded.ok
                 /\ JoinedLogOf(s).read.ok /\ JoinedLogOf(s).decoded.ok
      BY DEF InitiatedLogOf, JoinedLogOf, Ok
    <3> QED
      BY <3>1, LogsOf
  <2> QED
    BY <2>1, <2>2, <2>3, <2>4 DEF SwapTypeOK
<1> QED
  BY <1>1, SwapInvHolds, PTL

\* The id a relayer computes before anything is mined is the coordinator's, what
\* is stored under it are the relayer's terms, and what the indexer decodes from
\* the logs and from the calldata of a swap are these terms, legs and commitments
\* included: compute_swap_id, privacy_call_commit, the encoders and decoders.
THEOREM IdsAreAgreed == SwapSpec => []IdsAgree
<1>1. SwapInv => IdsAgree
  <2> SUFFICES ASSUME SwapInv PROVE IdsAgree
    OBVIOUS
  <2>1. ASSUME NEW id \in DOMAIN swaps
        PROVE  \E s \in Swaps :
                 /\ id = LocalId[s]
                 /\ <<swaps[id].initiator, swaps[id].pool_a, swaps[id].pool_b>>
                      = <<Initiator, PoolA, PoolB>>
                 /\ swaps[id].htlc_hash = HtlcHash(s) /\ swaps[id].rk = <<rk_bx(s), rk_by(s)>>
    <3>1. Stored(id, swaps[id])
      BY DEF SwapInv
    <3>2. PICK s \in Swaps : \E b \in {Absent, <<CommitB[s]>>}, status \in Statuses :
            id = LocalId[s] /\ swaps[id] = Stage(s, b, status)
      BY <3>1 DEF Stored
    <3>3. /\ swaps[id].initiator = Initiator /\ swaps[id].pool_a = PoolA /\ swaps[id].pool_b = PoolB
          /\ swaps[id].htlc_hash = HtlcHash(s) /\ swaps[id].rk = <<rk_bx(s), rk_by(s)>>
      BY <3>2 DEF Stage
    <3> QED
      BY <3>2, <3>3
  <2>2. ASSUME NEW l \in Initiations
        PROVE  \E s \in Swaps : l.read.value = InitiatedTerms(s) /\ l.decoded.value = InitiateTerms(s)
    <3>1. PICK s \in Swaps : l = InitiatedLogOf(s)
      BY LogsOf
    <3> QED
      BY <3>1 DEF InitiatedLogOf, Ok
  <2>3. ASSUME NEW l \in Joins
        PROVE  \E s \in Swaps : l.read.value = JoinedTerms(s) /\ l.decoded.value = JoinTerms(s)
    <3>1. PICK s \in Swaps : l = JoinedLogOf(s)
      BY LogsOf
    <3> QED
      BY <3>1 DEF JoinedLogOf, Ok
  <2> QED
    BY <2>1, <2>2, <2>3 DEF IdsAgree, InitiatedTerms, InitiateTerms, JoinedTerms, JoinTerms, Signed
<1> QED
  BY <1>1, SwapInvHolds, PTL

\* No transaction of a swap is ever refused for its signature, its secret or its
\* commitments: a leg that went through calldata, an indexer and calldata again
\* still has the commitment the coordinator stored.
THEOREM LegsAlwaysSurvive == SwapSpec => []LegsSurvive
<1>1. SwapInv => LegsSurvive
  BY DEF SwapInv, LegsSurvive
<1> QED
  BY <1>1, SwapInvHolds, PTL
=============================================================================
