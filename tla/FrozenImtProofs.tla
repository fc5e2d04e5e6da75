-------------------------- MODULE FrozenImtProofs ---------------------------
(***************************************************************************)
(* Theorems about FrozenImt for every field modulus P, every depth and     *)
(* every hash.                                                             *)
(***************************************************************************)
EXTENDS FrozenImt, MerkleTreeProofs

WellFormed(lv) ==
    /\ lv \in Seq(Leaf)
    /\ Len(lv) >= 1
    /\ Linked(lv)
    /\ Partition(lv)

(* bracketing_index finds the one leaf whose interval holds a value that is *)
(* not in the tree: its fallback to the sentinel is not reached.            *)
LEMMA BracketingIndex ==
    ASSUME NEW lv, WellFormed(lv), NEW v \in Fr, Insertable(lv, v)
    PROVE  /\ bracketing_index(lv, v) \in 1 .. Len(lv)
           /\ Brackets(lv[bracketing_index(lv, v)], v)
           /\ \A j \in 1 .. Len(lv) :
                 Brackets(lv[j], v) => j = bracketing_index(lv, v)
<1> DEFINE hits == {i \in DOMAIN lv : Brackets(lv[i], v)}
<1>1. DOMAIN lv = 1 .. Len(lv)
  BY DEF WellFormed
<1>2. PICK i \in 1 .. Len(lv) :
         Brackets(lv[i], v) /\ \A j \in 1 .. Len(lv) : Brackets(lv[j], v) => j = i
  BY <1>1 DEF WellFormed, Partition, Insertable
<1>3. hits = {i}
  BY <1>1, <1>2
<1>4. bracketing_index(lv, v) = i
  BY <1>3 DEF bracketing_index
<1> QED
  BY <1>2, <1>4

(* What a splice changes: one next_val, and one leaf at the end.            *)
LEMMA SpliceShape ==
    ASSUME NEW lv, WellFormed(lv), NEW v \in Fr, Insertable(lv, v)
    PROVE  LET s == Spliced(lv, v)
               p == bracketing_index(lv, v)
               n == Len(lv)
           IN  /\ s \in Seq(Leaf)
               /\ Len(s) = n + 1
               /\ s[n + 1] = [val |-> v, next_val |-> lv[p].next_val]
               /\ s[p] = [val |-> lv[p].val, next_val |-> v]
               /\ \A i \in 1 .. n : i # p => s[i] = lv[i]
               /\ \A i \in 1 .. n : s[i].val = lv[i].val
<1> DEFINE p == bracketing_index(lv, v)
           n == Len(lv)
           t == [lv EXCEPT ![p].next_val = v]
           l == [val |-> v, next_val |-> lv[p].next_val]
<1>1. p \in 1 .. n
  BY BracketingIndex
<1>2. lv \in Seq(Leaf) /\ n \in Nat
  BY DEF WellFormed
<1>3. \A i \in 1 .. n : lv[i] \in Leaf
  BY <1>2
<1>4. t \in Seq(Leaf) /\ Len(t) = n
  BY <1>1, <1>2, <1>3 DEF Leaf
<1>5. /\ t[p] = [val |-> lv[p].val, next_val |-> v]
      /\ \A i \in 1 .. n : i # p => t[i] = lv[i]
  BY <1>1, <1>2, <1>3 DEF Leaf
<1>6. l \in Leaf
  BY <1>1, <1>3 DEF Leaf
<1>7. Spliced(lv, v) = Append(t, l)
  BY DEF Spliced
<1> HIDE DEF t, l
<1>8. /\ Append(t, l) \in Seq(Leaf)
      /\ Len(Append(t, l)) = n + 1
      /\ Append(t, l)[n + 1] = l
      /\ \A i \in 1 .. n : Append(t, l)[i] = t[i]
  BY <1>2, <1>4, <1>6
<1> HIDE DEF p, n
<1>9. \A i \in 1 .. n : t[i].val = lv[i].val
  BY <1>5
<1> QED
  BY <1>1, <1>5, <1>7, <1>8, <1>9 DEF t, l, p, n

(* Splicing keeps the intervals a partition: the predecessor's interval is  *)
(* cut in two at v, and every other interval stands.                        *)
LEMMA SplicePartition ==
    ASSUME NEW lv, WellFormed(lv), NEW v \in Fr, Insertable(lv, v)
    PROVE  Partition(Spliced(lv, v))
<1> DEFINE p == bracketing_index(lv, v)
           n == Len(lv)
           s == Spliced(lv, v)
<1>1. /\ p \in 1 .. n
      /\ Brackets(lv[p], v)
      /\ \A j \in 1 .. n : Brackets(lv[j], v) => j = p
  BY BracketingIndex
<1>2. /\ n \in Nat
      /\ \A i \in 1 .. n : lv[i] \in Leaf
      /\ DOMAIN lv = 1 .. n
  BY DEF WellFormed
<1>3. /\ DOMAIN s = 1 .. n + 1
      /\ s[n + 1] = [val |-> v, next_val |-> lv[p].next_val]
      /\ s[p] = [val |-> lv[p].val, next_val |-> v]
      /\ \A i \in 1 .. n : i # p => s[i] = lv[i]
      /\ \A i \in 1 .. n : s[i].val = lv[i].val
  <2>1. s \in Seq(Leaf) /\ Len(s) = n + 1
    BY SpliceShape
  <2> QED
    BY <2>1, SpliceShape
<1> HIDE DEF p, n, s
<1>4. v # 0 /\ v \in Nat /\ lv[p].val \in Nat /\ lv[p].next_val \in Nat
  BY <1>1, <1>2, ModulusAssumption DEF Insertable, Leaf, Fr
<1>5. \A u \in Fr : Contains(s, u) <=> Contains(lv, u) \/ u = v
  BY <1>2, <1>3 DEF Contains, Values
<1>6. ASSUME NEW u \in Fr \ {0}, Contains(s, u), NEW i \in 1 .. n + 1
      PROVE  ~Brackets(s[i], u)
  <2>1. u \in Nat
    BY ModulusAssumption DEF Fr
  <2>2. CASE u = v
    <3>1. CASE i = n + 1
      BY <1>3, <1>4, <2>2, <3>1 DEF Brackets
    <3>2. CASE i = p
      BY <1>3, <1>4, <2>2, <3>2 DEF Brackets
    <3>3. CASE i \in 1 .. n /\ i # p
      BY <1>1, <1>3, <2>2, <3>3
    <3> QED
      BY <1>2, <3>1, <3>2, <3>3
  <2>3. CASE u # v
    <3>1. Contains(lv, u)
      BY <1>5, <1>6, <2>3
    <3>2. \A j \in 1 .. n : ~Brackets(lv[j], u)
      BY <1>2, <3>1 DEF WellFormed, Partition
    <3>3. CASE i = n + 1
      BY <1>1, <1>3, <1>4, <2>1, <3>2, <3>3 DEF Brackets
    <3>4. CASE i = p
      BY <1>1, <1>3, <1>4, <2>1, <3>2, <3>4 DEF Brackets
    <3>5. CASE i \in 1 .. n /\ i # p
      BY <1>3, <3>2, <3>5
    <3> QED
      BY <1>2, <3>3, <3>4, <3>5
  <2> QED
    BY <2>2, <2>3
<1>7. ASSUME NEW u \in Fr \ {0}, ~Contains(s, u)
      PROVE  \E i \in 1 .. n + 1 :
                Brackets(s[i], u) /\ \A j \in 1 .. n + 1 : Brackets(s[j], u) => j = i
  <2>1. u \in Nat /\ u # v /\ ~Contains(lv, u)
    BY <1>5, <1>7, ModulusAssumption DEF Fr
  <2>2. PICK k \in 1 .. n :
           Brackets(lv[k], u) /\ \A j \in 1 .. n : Brackets(lv[j], u) => j = k
    BY <1>2, <2>1 DEF WellFormed, Partition
  <2>3. Brackets(s[p], u) <=> Brackets(lv[p], u) /\ u < v
    BY <1>1, <1>3, <1>4, <2>1 DEF Brackets
  <2>4. Brackets(s[n + 1], u) <=> Brackets(lv[p], u) /\ v < u
    BY <1>1, <1>3, <1>4, <2>1 DEF Brackets
  <2>5. \A j \in 1 .. n : j # p => (Brackets(s[j], u) <=> Brackets(lv[j], u))
    BY <1>3
  <2>6. CASE k # p
    <3>1. ~Brackets(lv[p], u)
      BY <1>1, <2>2, <2>6
    <3> QED
      BY <1>2, <2>2, <2>3, <2>4, <2>5, <2>6, <3>1
  <2>7. CASE k = p /\ u < v
    <3>1. Brackets(s[p], u) /\ ~Brackets(s[n + 1], u)
      BY <1>4, <2>1, <2>2, <2>3, <2>4, <2>7
    <3> QED
      BY <1>1, <1>2, <2>2, <2>5, <2>7, <3>1
  <2>8. CASE k = p /\ v < u
    <3>1. ~Brackets(s[p], u) /\ Brackets(s[n + 1], u)
      BY <1>4, <2>1, <2>2, <2>3, <2>4, <2>8
    <3> QED
      BY <1>1, <1>2, <2>2, <2>5, <2>8, <3>1
  <2> QED
    BY <1>4, <2>1, <2>6, <2>7, <2>8
<1> QED
  BY <1>3, <1>6, <1>7 DEF Partition, s

(* Splicing keeps the list sorted: each next_val is still the least greater *)
(* value, now that v is one of the values.                                  *)
LEMMA SpliceLinked ==
    ASSUME NEW lv, WellFormed(lv), NEW v \in Fr, Insertable(lv, v)
    PROVE  Linked(Spliced(lv, v))
<1> DEFINE p == bracketing_index(lv, v)
           n == Len(lv)
           s == Spliced(lv, v)
<1>1. /\ p \in 1 .. n
      /\ Brackets(lv[p], v)
      /\ \A j \in 1 .. n : Brackets(lv[j], v) => j = p
  BY BracketingIndex
<1>2. /\ n \in Nat /\ n >= 1
      /\ \A i \in 1 .. n : lv[i] \in Leaf
      /\ DOMAIN lv = 1 .. n
  BY DEF WellFormed
<1>3. /\ DOMAIN s = 1 .. n + 1
      /\ s[n + 1] = [val |-> v, next_val |-> lv[p].next_val]
      /\ s[p] = [val |-> lv[p].val, next_val |-> v]
      /\ \A i \in 1 .. n : i # p => s[i] = lv[i]
      /\ \A i \in 1 .. n : s[i].val = lv[i].val
  <2>1. s \in Seq(Leaf) /\ Len(s) = n + 1
    BY SpliceShape
  <2> QED
    BY <2>1, SpliceShape
<1> HIDE DEF p, n, s
<1>4. v # 0 /\ v \in Nat /\ v \notin Values(lv)
  BY ModulusAssumption DEF Insertable, Contains, Fr
<1>5. \A i \in 1 .. n : lv[i].val \in Nat /\ lv[i].next_val \in Nat
  BY <1>2, ModulusAssumption DEF Leaf, Fr
<1>6. Values(s) = Values(lv) \union {v} /\ Values(lv) \subseteq Nat
  BY <1>2, <1>3, <1>5 DEF Values
<1>7. Linked(lv)
  BY DEF WellFormed
<1>8. s[1].val = 0
  BY <1>2, <1>3, <1>7 DEF Linked
<1>9. \A i, j \in 1 .. n + 1 : s[i].val = s[j].val => i = j
  <2>1. \A i \in 1 .. n : s[i].val # v
    BY <1>2, <1>3, <1>4 DEF Values
  <2>2. \A i, j \in 1 .. n : s[i].val = s[j].val => i = j
    BY <1>2, <1>3, <1>7 DEF Linked
  <2>3. s[n + 1].val = v
    BY <1>3
  <2> QED
    BY <1>2, <2>1, <2>2, <2>3
<1>10. ASSUME NEW i \in 1 .. n + 1
       PROVE  \/ /\ s[i].next_val = 0
                 /\ \A u \in Values(s) : u <= s[i].val
              \/ /\ s[i].next_val \in Values(s)
                 /\ s[i].val < s[i].next_val
                 /\ \A u \in Values(s) : u <= s[i].val \/ s[i].next_val <= u
  <2> DEFINE Next0(j) == /\ lv[j].next_val = 0
                         /\ \A u \in Values(lv) : u <= lv[j].val
             NextUp(j) == /\ lv[j].next_val \in Values(lv)
                          /\ lv[j].val < lv[j].next_val
                          /\ \A u \in Values(lv) : u <= lv[j].val \/ lv[j].next_val <= u
  <2>1. \A j \in 1 .. n : Next0(j) \/ NextUp(j)
    BY <1>2, <1>7 DEF Linked
  <2>2. Next0(p) \/ NextUp(p)
    BY <1>1, <2>1
  <2>3. lv[p].val < v /\ (lv[p].next_val = 0 \/ v < lv[p].next_val)
    BY <1>1 DEF Brackets
  <2>4. lv[p].val \in Nat /\ lv[p].next_val \in Nat
    BY <1>1, <1>5
  <2>5. CASE i = n + 1
    <3>1. s[i].val = v /\ s[i].next_val = lv[p].next_val
      BY <1>3, <2>5
    <3> QED
      BY <1>4, <1>6, <2>2, <2>3, <2>4, <3>1
  <2>6. CASE i = p
    <3>1. s[i].val = lv[p].val /\ s[i].next_val = v
      BY <1>3, <2>6
    <3> QED
      BY <1>4, <1>6, <2>2, <2>3, <2>4, <3>1
  <2>7. CASE i \in 1 .. n /\ i # p
    <3>1. s[i].val = lv[i].val /\ s[i].next_val = lv[i].next_val
      BY <1>3, <2>7
    <3>2. ~Brackets(lv[i], v)
      BY <1>1, <2>7
    <3>3. lv[i].val \in Nat /\ lv[i].next_val \in Nat
      BY <1>5, <2>7
    <3>4. v <= lv[i].val \/ (lv[i].next_val # 0 /\ lv[i].next_val <= v)
      BY <1>4, <3>2, <3>3 DEF Brackets
    <3>5. CASE Next0(i)
      BY <1>4, <1>6, <3>1, <3>3, <3>4, <3>5
    <3>6. CASE NextUp(i)
      BY <1>4, <1>6, <3>1, <3>3, <3>4, <3>6
    <3> QED
      BY <2>1, <2>7, <3>5, <3>6
  <2> QED
    BY <1>2, <2>5, <2>6, <2>7
<1> QED
  BY <1>3, <1>8, <1>9, <1>10 DEF Linked, s

\* insert keeps the list well formed, whether it splices or returns false.
LEMMA InsertedWellFormed ==
    ASSUME NEW lv, WellFormed(lv), NEW v \in Fr
    PROVE  WellFormed(Inserted(lv, v))
<1>1. CASE Insertable(lv, v)
  <2>1. Spliced(lv, v) \in Seq(Leaf) /\ Len(Spliced(lv, v)) = Len(lv) + 1
    BY <1>1, SpliceShape
  <2>2. Len(Spliced(lv, v)) >= 1
    BY <2>1 DEF WellFormed
  <2> QED
    BY <1>1, <2>1, <2>2, SplicePartition, SpliceLinked DEF WellFormed, Inserted
<1>2. CASE ~Insertable(lv, v)
  BY <1>2 DEF Inserted
<1> QED
  BY <1>1, <1>2

\* The tree of new, the sentinel alone, is well formed.
LEMMA NewWellFormed == WellFormed(New) /\ Len(New) = 1
<1>1. New \in Seq(Leaf) /\ Len(New) = 1
  BY ModulusAssumption DEF New, Leaf, Fr
<1>2. DOMAIN New = {1} /\ New[1] = [val |-> 0, next_val |-> 0]
  BY DEF New
<1>3. Values(New) = {0}
  BY <1>2 DEF Values
<1>4. Linked(New)
  BY <1>2, <1>3 DEF Linked
<1>5. Partition(New)
  BY <1>2, <1>3, ModulusAssumption DEF Partition, Contains, Brackets, Fr
<1> QED
  BY <1>1, <1>4, <1>5 DEF WellFormed

(* A well-formed tree is determined by its values in their order: the list  *)
(* structure adds nothing to what frozen_values() keeps.                    *)
LEMMA DeterminedByValues ==
    ASSUME NEW a, WellFormed(a), NEW b, WellFormed(b), Len(a) = Len(b),
           \A i \in 1 .. Len(a) : a[i].val = b[i].val
    PROVE  a = b
<1>1. /\ a \in Seq(Leaf) /\ b \in Seq(Leaf)
      /\ DOMAIN a = 1 .. Len(a) /\ DOMAIN b = 1 .. Len(a)
      /\ \A i \in 1 .. Len(a) : a[i] \in Leaf /\ b[i] \in Leaf
  BY DEF WellFormed
<1>2. Values(a) = Values(b)
  BY <1>1 DEF Values
<1>3. ASSUME NEW i \in 1 .. Len(a) PROVE a[i].next_val = b[i].next_val
  <2>1. /\ a[i].val = b[i].val
        /\ a[i].val \in Nat /\ a[i].next_val \in Nat /\ b[i].next_val \in Nat
    BY <1>1, <1>3, ModulusAssumption DEF Leaf, Fr
  <2>2. \/ a[i].next_val = 0 /\ \A v \in Values(a) : v <= a[i].val
        \/ /\ a[i].next_val \in Values(a) /\ a[i].val < a[i].next_val
           /\ \A v \in Values(a) : v <= a[i].val \/ a[i].next_val <= v
    BY <1>1 DEF WellFormed, Linked
  <2>3. \/ b[i].next_val = 0 /\ \A v \in Values(b) : v <= b[i].val
        \/ /\ b[i].next_val \in Values(b) /\ b[i].val < b[i].next_val
           /\ \A v \in Values(b) : v <= b[i].val \/ b[i].next_val <= v
    BY <1>1 DEF WellFormed, Linked
  <2> QED
    BY <1>2, <2>1, <2>2, <2>3
<1>4. \A i \in 1 .. Len(a) : a[i] = b[i]
  <2> TAKE i \in 1 .. Len(a)
  <2>1. a[i] \in Leaf /\ b[i] \in Leaf /\ a[i].val = b[i].val
    BY <1>1
  <2> QED
    BY <1>3, <2>1 DEF Leaf
<1> QED
  BY <1>1, <1>4

-----------------------------------------------------------------------------
(* The inductive invariant.  While the tree is up it holds at least the     *)
(* leaves replayed into it; inside from_frozen_values it holds exactly the  *)
(* sentinel and the values replayed so far, in their order.                 *)

Mirrors ==
    IF phase = "up" THEN replayed < Len(leaves)
    ELSE /\ Len(leaves) = replayed + 1
         /\ \A i \in 1 .. replayed : leaves[i + 1].val = checkpoint[i]

IInv ==
    /\ TypeOK
    /\ WellFormed(leaves)
    /\ WellFormed(saved)
    /\ checkpoint = frozen_values(saved)
    /\ Mirrors

\* frozen_values lists the values after the sentinel, none of them 0.
LEMMA FrozenValuesShape ==
    ASSUME NEW lv, WellFormed(lv)
    PROVE  /\ frozen_values(lv) \in Seq(Fr)
           /\ Len(frozen_values(lv)) = Len(lv) - 1
           /\ \A i \in 1 .. Len(lv) - 1 :
                 /\ frozen_values(lv)[i] = lv[i + 1].val
                 /\ frozen_values(lv)[i] # 0
<1>1. /\ lv \in Seq(Leaf) /\ Len(lv) \in Nat /\ Len(lv) >= 1 /\ Linked(lv)
      /\ DOMAIN lv = 1 .. Len(lv)
  BY DEF WellFormed
<1>2. \A i \in 1 .. Len(lv) - 1 :
         i + 1 \in 1 .. Len(lv) /\ lv[i + 1] \in Leaf /\ lv[i + 1].val # 0
  <2> TAKE i \in 1 .. Len(lv) - 1
  <2>1. i + 1 \in 1 .. Len(lv) /\ i + 1 # 1 /\ 1 \in 1 .. Len(lv)
    BY <1>1
  <2> QED
    BY <1>1, <2>1 DEF Linked
<1>3. \A i \in 1 .. Len(lv) - 1 : lv[i + 1].val \in Fr
  BY <1>2 DEF Leaf
<1> QED
  BY <1>1, <1>2, <1>3 DEF frozen_values

\* The initial state satisfies the inductive invariant.
LEMMA InitIInv == Init => IInv
<1> SUFFICES ASSUME Init PROVE IInv
  OBVIOUS
<1>1. WellFormed(New) /\ Len(New) = 1
  BY NewWellFormed
<1>2. frozen_values(New) = << >>
  BY <1>1, FrozenValuesShape
<1> QED
  BY <1>1, <1>2 DEF Init, IInv, TypeOK, Mirrors, WellFormed

(* The next value of a rebuild is not in the tree yet, so its insert takes  *)
(* effect and the value lands at the position it was saved from.            *)
LEMMA ReplayInserts ==
    ASSUME IInv, phase = "rebuilding", replayed < Len(checkpoint)
    PROVE  /\ checkpoint[replayed + 1] \in Fr
           /\ Insertable(leaves, checkpoint[replayed + 1])
<1>1. /\ replayed \in Nat /\ Len(leaves) = replayed + 1
      /\ DOMAIN leaves = 1 .. replayed + 1
      /\ DOMAIN saved = 1 .. Len(saved) /\ Len(saved) \in Nat
      /\ \A i \in 1 .. replayed : leaves[i + 1].val = checkpoint[i]
  BY DEF IInv, TypeOK, WellFormed, Mirrors
<1>2. /\ checkpoint \in Seq(Fr)
      /\ Len(checkpoint) = Len(saved) - 1
      /\ \A i \in 1 .. Len(saved) - 1 :
            checkpoint[i] = saved[i + 1].val /\ checkpoint[i] # 0
  BY FrozenValuesShape DEF IInv
<1> DEFINE v == checkpoint[replayed + 1]
<1>3. v = saved[replayed + 2].val /\ v # 0 /\ v \in Fr
  BY <1>1, <1>2
<1>4. leaves[1].val = 0
  BY DEF IInv, WellFormed, Linked
<1>5. \A i \in 1 .. replayed : leaves[i + 1].val # v
  <2> TAKE i \in 1 .. replayed
  <2>1. leaves[i + 1].val = saved[i + 1].val
    <3>1. i \in 1 .. Len(saved) - 1
      BY <1>1, <1>2
    <3> QED
      BY <1>1, <1>2, <3>1
  <2>2. i + 1 # replayed + 2 /\ i + 1 \in DOMAIN saved /\ replayed + 2 \in DOMAIN saved
    BY <1>1, <1>2
  <2>3. saved[i + 1].val # saved[replayed + 2].val
    BY <2>2 DEF IInv, WellFormed, Linked
  <2> QED
    BY <1>3, <2>1, <2>3
<1>6. \A j \in 1 .. replayed + 1 : leaves[j].val # v
  <2> TAKE j \in 1 .. replayed + 1
  <2>1. CASE j = 1
    BY <1>3, <1>4, <2>1
  <2>2. CASE j # 1
    <3>1. j - 1 \in 1 .. replayed /\ (j - 1) + 1 = j
      BY <1>1, <2>2
    <3> QED
      BY <1>5, <3>1
  <2> QED
    BY <2>1, <2>2
<1> QED
  BY <1>1, <1>3, <1>6 DEF Insertable, Contains, Values

\* Every insert, checkpoint, restart and turn of the rebuilding loop keeps the
\* inductive invariant.
LEMMA NextIInv == IInv /\ [Next]_vars => IInv'
<1> SUFFICES ASSUME IInv, [Next]_vars PROVE IInv'
  OBVIOUS
<1>0. /\ leaves \in Seq(Leaf) /\ Len(leaves) \in Nat /\ Len(leaves) >= 1
      /\ checkpoint \in Seq(Fr) /\ Len(checkpoint) \in Nat
      /\ replayed \in 0 .. Len(checkpoint)
  BY DEF IInv, TypeOK
<1>1. ASSUME NEW v \in Fr, Insert(v) PROVE IInv'
  <2>1. WellFormed(leaves')
    BY <1>1, InsertedWellFormed DEF IInv, Insert
  <2>2. Len(leaves') >= Len(leaves)
    <3>1. CASE Insertable(leaves, v)
      <4>1. leaves' = Spliced(leaves, v)
        BY <1>1, <3>1 DEF Insert, Inserted
      <4>2. Len(Spliced(leaves, v)) = Len(leaves) + 1
        BY <3>1, SpliceShape DEF IInv
      <4> QED
        BY <1>0, <4>1, <4>2
    <3>2. CASE ~Insertable(leaves, v)
      BY <1>0, <1>1, <3>2 DEF Insert, Inserted
    <3> QED
      BY <3>1, <3>2
  <2>3. leaves' \in Seq(Leaf) /\ Len(leaves') >= 1 /\ Len(leaves') \in Nat
    BY <2>1 DEF WellFormed
  <2>4. UNCHANGED <<checkpoint, replayed, phase, saved>> /\ phase = "up"
    BY <1>1 DEF Insert
  <2>5. TypeOK'
    BY <2>3, <2>4 DEF IInv, TypeOK
  <2>6. Mirrors'
    BY <1>0, <2>2, <2>3, <2>4 DEF IInv, Mirrors
  <2> QED
    BY <2>1, <2>4, <2>5, <2>6 DEF IInv
<1>2. ASSUME Checkpoint PROVE IInv'
  <2>1. /\ checkpoint' = frozen_values(leaves) /\ saved' = leaves
        /\ UNCHANGED <<leaves, replayed, phase>> /\ phase = "up"
    BY <1>2 DEF Checkpoint
  <2>2. /\ frozen_values(leaves) \in Seq(Fr)
        /\ Len(frozen_values(leaves)) = Len(leaves) - 1
    BY FrozenValuesShape DEF IInv
  <2>3. replayed < Len(leaves)
    BY <2>1 DEF IInv, Mirrors
  <2>4. TypeOK'
    BY <1>0, <2>1, <2>2, <2>3 DEF IInv, TypeOK
  <2>5. Mirrors'
    BY <2>1, <2>3 DEF Mirrors
  <2> QED
    BY <2>1, <2>4, <2>5 DEF IInv
<1>3. ASSUME Restart PROVE IInv'
  <2>1. /\ leaves' = New /\ replayed' = 0 /\ phase' = "rebuilding"
        /\ UNCHANGED <<checkpoint, saved>>
    BY <1>3 DEF Restart
  <2>2. WellFormed(leaves') /\ Len(leaves') = 1
    BY <2>1, NewWellFormed
  <2>3. TypeOK'
    BY <1>0, <2>1, <2>2 DEF IInv, TypeOK, WellFormed
  <2>4. Mirrors'
    BY <2>1, <2>2 DEF Mirrors
  <2> QED
    BY <2>1, <2>2, <2>3, <2>4 DEF IInv
<1>4. ASSUME Replay PROVE IInv'
  <2> DEFINE v == checkpoint[replayed + 1]
  <2>1. /\ phase = "rebuilding" /\ replayed < Len(checkpoint)
        /\ leaves' = Inserted(leaves, v) /\ replayed' = replayed + 1
        /\ UNCHANGED <<checkpoint, phase, saved>>
    BY <1>4 DEF Replay
  <2>2. v \in Fr /\ Insertable(leaves, v)
    BY <2>1, ReplayInserts
  <2>3. Len(leaves) = replayed + 1
    BY <2>1 DEF IInv, Mirrors
  <2>4. leaves' = Spliced(leaves, v)
    BY <2>1, <2>2 DEF Inserted
  <2>5. WellFormed(leaves')
    BY <2>1, <2>2, InsertedWellFormed DEF IInv
  <2>6. /\ Len(leaves') = replayed + 2
        /\ \A i \in 1 .. replayed + 1 : leaves'[i].val = leaves[i].val
        /\ leaves'[replayed + 2].val = v
    <3> HIDE DEF v
    <3>1. WellFormed(leaves)
      BY DEF IInv
    <3> DEFINE p == bracketing_index(leaves, v)
    <3>2. /\ Len(Spliced(leaves, v)) = Len(leaves) + 1
          /\ Spliced(leaves, v)[Len(leaves) + 1]
               = [val |-> v, next_val |-> leaves[p].next_val]
          /\ \A i \in 1 .. Len(leaves) : Spliced(leaves, v)[i].val = leaves[i].val
      BY <2>2, <3>1, SpliceShape
    <3>3. Len(leaves) + 1 = replayed + 2
      BY <1>0, <2>3
    <3> QED
      BY <2>3, <2>4, <3>2, <3>3
  <2>7. TypeOK'
    BY <1>0, <2>1, <2>5 DEF IInv, TypeOK, WellFormed
  <2>8. ASSUME NEW i \in 1 .. replayed + 1 PROVE leaves'[i + 1].val = checkpoint[i]
    <3>1. CASE i = replayed + 1
      BY <1>0, <2>6, <3>1
    <3>2. CASE i \in 1 .. replayed
      <4>1. i + 1 \in 1 .. replayed + 1
        BY <1>0, <3>2
      <4>2. leaves[i + 1].val = checkpoint[i]
        BY <2>1, <3>2 DEF IInv, Mirrors
      <4> QED
        BY <2>6, <4>1, <4>2
    <3> QED
      BY <1>0, <3>1, <3>2
  <2>9. Mirrors'
    <3>1. Len(leaves') = replayed' + 1
      BY <1>0, <2>1, <2>6
    <3>2. \A i \in 1 .. replayed' : leaves'[i + 1].val = checkpoint'[i]
      BY <2>1, <2>8
    <3> QED
      BY <2>1, <3>1, <3>2 DEF Mirrors
  <2> QED
    BY <2>1, <2>5, <2>7, <2>9 DEF IInv
<1>5. ASSUME Rebuilt PROVE IInv'
  <2>1. /\ phase = "rebuilding" /\ phase' = "up"
        /\ UNCHANGED <<leaves, checkpoint, replayed, saved>>
    BY <1>5 DEF Rebuilt
  <2>2. Len(leaves) = replayed + 1
    BY <2>1 DEF IInv, Mirrors
  <2>3. Mirrors'
    BY <1>0, <2>1, <2>2 DEF Mirrors
  <2> QED
    BY <2>1, <2>3 DEF IInv, TypeOK
<1>6. CASE UNCHANGED vars
  BY <1>6 DEF vars, IInv, TypeOK, Mirrors
<1> QED
  BY <1>1, <1>2, <1>3, <1>4, <1>5, <1>6 DEF Next

\* The inductive invariant holds in every reachable state.
LEMMA InductiveInvariant == Spec => []IInv
<1> QED
  BY InitIInv, NextIInv, PTL DEF Spec

(* The types of the state, for every field modulus and depth.               *)
THEOREM TypeCorrect == Spec => []TypeOK
<1>1. IInv => TypeOK
  BY DEF IInv
<1> QED
  BY <1>1, InductiveInvariant, PTL

(* The list behind the tree is sorted, and its intervals partition what is  *)
(* not frozen: bracketing_index never falls back to the sentinel.           *)
THEOREM SortedListHolds == Spec => []SortedList
<1>1. IInv => SortedList
  BY DEF IInv, WellFormed, SortedList
<1> QED
  BY <1>1, InductiveInvariant, PTL

\* A tree that mirrors the whole checkpoint is the tree that was saved.
LEMMA RebuiltTree == IInv => RebuildExact
<1> SUFFICES ASSUME IInv, phase = "rebuilding", replayed = Len(checkpoint)
             PROVE  leaves = saved
  BY DEF RebuildExact
<1>1. /\ WellFormed(leaves) /\ WellFormed(saved)
      /\ Len(saved) \in Nat /\ Len(leaves) = replayed + 1 /\ replayed \in Nat
      /\ \A i \in 1 .. replayed : leaves[i + 1].val = checkpoint[i]
  BY DEF IInv, Mirrors, TypeOK
<1>2. /\ Len(checkpoint) = Len(saved) - 1
      /\ \A i \in 1 .. Len(saved) - 1 : checkpoint[i] = saved[i + 1].val
  BY <1>1, FrozenValuesShape DEF IInv
<1>3. Len(leaves) = Len(saved)
  BY <1>1, <1>2
<1>4. ASSUME NEW j \in 1 .. Len(leaves) PROVE leaves[j].val = saved[j].val
  <2>1. CASE j = 1
    BY <1>1, <2>1 DEF WellFormed, Linked
  <2>2. CASE j # 1
    <3>1. j - 1 \in 1 .. replayed /\ (j - 1) + 1 = j
      BY <1>1, <2>2
    <3>2. j - 1 \in 1 .. Len(saved) - 1
      BY <1>1, <1>3, <3>1
    <3>3. leaves[(j - 1) + 1].val = checkpoint[j - 1]
      BY <1>1, <3>1
    <3>4. checkpoint[j - 1] = saved[(j - 1) + 1].val
      BY <1>2, <3>2
    <3> QED
      BY <3>1, <3>3, <3>4
  <2> QED
    BY <2>1, <2>2
<1> QED
  BY <1>1, <1>3, <1>4, DeterminedByValues

(* Rebuilding from a checkpoint reproduces every leaf at its position.      *)
THEOREM RebuildExactHolds == Spec => []RebuildExact
<1> QED
  BY RebuiltTree, InductiveInvariant, PTL

\* A checkpoint of frozen_values holds exactly the frozen values.
LEMMA ValuesOfCheckpoint ==
    ASSUME NEW lv, WellFormed(lv)
    PROVE  {frozen_values(lv)[i] : i \in DOMAIN frozen_values(lv)} = Values(lv) \ {0}
<1>1. /\ DOMAIN lv = 1 .. Len(lv) /\ Len(lv) \in Nat /\ Len(lv) >= 1
      /\ lv[1].val = 0
  BY DEF WellFormed, Linked
<1>2. /\ DOMAIN frozen_values(lv) = 1 .. Len(lv) - 1
      /\ \A i \in 1 .. Len(lv) - 1 :
            frozen_values(lv)[i] = lv[i + 1].val /\ frozen_values(lv)[i] # 0
  BY FrozenValuesShape DEF frozen_values
<1>3. ASSUME NEW i \in 1 .. Len(lv) - 1
      PROVE  frozen_values(lv)[i] \in Values(lv) \ {0}
  <2>1. i + 1 \in DOMAIN lv
    BY <1>1
  <2> QED
    BY <1>2, <2>1 DEF Values
<1>4. ASSUME NEW j \in 1 .. Len(lv), lv[j].val # 0
      PROVE  \E i \in 1 .. Len(lv) - 1 : frozen_values(lv)[i] = lv[j].val
  <2>1. j - 1 \in 1 .. Len(lv) - 1 /\ (j - 1) + 1 = j
    BY <1>1, <1>4
  <2>2. frozen_values(lv)[j - 1] = lv[(j - 1) + 1].val
    BY <1>2, <2>1
  <2> QED
    BY <2>1, <2>2
<1> DEFINE f == frozen_values(lv)
           n == Len(lv)
<1> HIDE DEF f, n
<1>5. {f[i] : i \in 1 .. n - 1} \subseteq Values(lv) \ {0}
  BY <1>3 DEF f, n
<1>6. Values(lv) \ {0} \subseteq {f[i] : i \in 1 .. n - 1}
  <2> SUFFICES ASSUME NEW w \in Values(lv), w # 0
               PROVE  \E i \in 1 .. n - 1 : f[i] = w
    OBVIOUS
  <2>1. PICK j \in 1 .. n : w = lv[j].val
    BY <1>1 DEF Values, n
  <2> QED
    BY <1>4, <2>1 DEF f, n
<1>7. DOMAIN f = 1 .. n - 1
  BY <1>2 DEF f, n
<1>8. {f[i] : i \in DOMAIN f} = Values(lv) \ {0}
  BY <1>5, <1>6, <1>7
<1> QED
  BY <1>8 DEF f

\* insert adds its value to the frozen set, and 0 adds nothing.
LEMMA InsertedValues ==
    ASSUME NEW lv, WellFormed(lv), NEW v \in Fr
    PROVE  Values(Inserted(lv, v)) \ {0} = (Values(lv) \ {0}) \union ({v} \ {0})
<1>1. CASE Insertable(lv, v)
  <2> DEFINE s == Spliced(lv, v)
             p == bracketing_index(lv, v)
  <2>1. /\ s \in Seq(Leaf) /\ Len(s) = Len(lv) + 1
        /\ s[Len(lv) + 1] = [val |-> v, next_val |-> lv[p].next_val]
        /\ \A i \in 1 .. Len(lv) : s[i].val = lv[i].val
    BY <1>1, SpliceShape
  <2>2. DOMAIN lv = 1 .. Len(lv) /\ DOMAIN s = 1 .. Len(lv) + 1 /\ Len(lv) \in Nat
    BY <2>1 DEF WellFormed
  <2> HIDE DEF s
  <2>3. Values(s) = Values(lv) \union {v}
    BY <2>1, <2>2 DEF Values
  <2> QED
    BY <1>1, <2>3 DEF Inserted, s
<1>2. CASE ~Insertable(lv, v)
  BY <1>2 DEF Inserted, Insertable, Contains
<1> QED
  BY <1>1, <1>2

(* The tree implements a set that only grows and that a crash takes back to *)
(* the values last persisted.                                               *)
THEOREM Implements == Spec => ImplementsFrozenSet
<1> DEFINE durable == {checkpoint[i] : i \in DOMAIN checkpoint}
           frozen == IF phase = "up" THEN Values(leaves) \ {0} ELSE durable
<1>1. Init => Abstract!Init
  <2> SUFFICES ASSUME Init PROVE frozen = {} /\ durable = {}
    BY DEF Abstract!Init
  <2>1. checkpoint = << >> /\ leaves = New /\ phase = "up"
    BY DEF Init
  <2>2. Values(New) = {0}
    BY DEF Values, New
  <2> QED
    BY <2>1, <2>2
<1>2. IInv /\ [Next]_vars => [Abstract!Next]_<<frozen, durable>>
  <2> SUFFICES ASSUME IInv, [Next]_vars PROVE [Abstract!Next]_<<frozen, durable>>
    OBVIOUS
  <2> USE DEF Abstract!Next, Abstract!Freeze, Abstract!Save, Abstract!Crash
  <2>1. ASSUME NEW v \in Fr, Insert(v) PROVE [Abstract!Next]_<<frozen, durable>>
    <3>1. /\ phase = "up" /\ phase' = "up" /\ checkpoint' = checkpoint
          /\ leaves' = Inserted(leaves, v)
      BY <2>1 DEF Insert
    <3>2. Values(leaves') \ {0} = (Values(leaves) \ {0}) \union ({v} \ {0})
      BY <3>1, InsertedValues DEF IInv
    <3>3. frozen' = frozen \union ({v} \ {0}) /\ durable' = durable
      BY <3>1, <3>2
    <3>4. CASE v = 0
      BY <3>3, <3>4
    <3>5. CASE v # 0
      BY <3>3, <3>5
    <3> QED
      BY <3>4, <3>5
  <2>2. ASSUME Checkpoint PROVE [Abstract!Next]_<<frozen, durable>>
    <3>1. /\ phase = "up" /\ phase' = "up" /\ leaves' = leaves
          /\ checkpoint' = frozen_values(leaves)
      BY <2>2 DEF Checkpoint
    <3>2. durable' = Values(leaves) \ {0}
      BY <3>1, ValuesOfCheckpoint DEF IInv
    <3>3. frozen' = frozen /\ durable' = frozen
      BY <3>1, <3>2
    <3> QED
      BY <3>3
  <2>3. ASSUME Restart PROVE [Abstract!Next]_<<frozen, durable>>
    <3>1. phase' # "up" /\ checkpoint' = checkpoint
      BY <2>3 DEF Restart
    <3>2. frozen' = durable /\ durable' = durable
      BY <3>1
    <3> QED
      BY <3>2
  <2>4. ASSUME Replay PROVE [Abstract!Next]_<<frozen, durable>>
    <3>1. phase # "up" /\ phase' = phase /\ checkpoint' = checkpoint
      BY <2>4 DEF Replay
    <3> QED
      BY <3>1
  <2>5. ASSUME Rebuilt PROVE [Abstract!Next]_<<frozen, durable>>
    <3>1. /\ phase = "rebuilding" /\ phase' = "up" /\ replayed = Len(checkpoint)
          /\ leaves' = leaves /\ checkpoint' = checkpoint
      BY <2>5 DEF Rebuilt
    <3>2. leaves = saved
      BY <3>1, RebuiltTree DEF RebuildExact
    <3>3. durable = Values(leaves) \ {0}
      BY <3>2, ValuesOfCheckpoint DEF IInv
    <3>4. frozen' = frozen /\ durable' = durable
      BY <3>1, <3>3
    <3> QED
      BY <3>4
  <2>6. CASE UNCHANGED vars
    BY <2>6 DEF vars
  <2> QED
    BY <2>1, <2>2, <2>3, <2>4, <2>5, <2>6 DEF Next
<1> QED
  BY <1>1, <1>2, InductiveInvariant, PTL DEF Spec, ImplementsFrozenSet, Abstract!Spec

-----------------------------------------------------------------------------
(* Hashing: subtree_hash computes the digests of a Merkle tree whose leaves *)
(* are the hashed list leaves, absent ones Zero.                            *)

LeafDigests(lv) ==
    [i \in Nat |-> IF i < Len(lv) THEN LeafHash(lv[i + 1].val, lv[i + 1].next_val)
                   ELSE Zero]

SubtreeStep(lv, n, prev) ==
    [i \in Nat |-> IF i * Pow2[n + 1] >= Len(lv) THEN Empty[n + 1]
                   ELSE Compress(n, prev[2 * i], prev[2 * i + 1])]
SubtreeRec == INSTANCE NatRecursion WITH Step <- SubtreeStep

\* The recursion of subtree_hash, level by level.
LEMMA SubtreeEquation ==
    ASSUME NEW lv, Len(lv) \in Nat
    PROVE  /\ \A i \in Nat :
                 subtree_hash(lv)[0][i] = IF i >= Len(lv) THEN Zero
                                          ELSE LeafHash(lv[i + 1].val, lv[i + 1].next_val)
           /\ \A l, i \in Nat :
                 subtree_hash(lv)[l + 1][i] =
                   IF i * Pow2[l + 1] >= Len(lv) THEN Empty[l + 1]
                   ELSE Compress(l, subtree_hash(lv)[l][2 * i],
                                 subtree_hash(lv)[l][2 * i + 1])
<1> DEFINE base == [i \in Nat |-> IF i * Pow2[0] >= Len(lv) THEN Empty[0]
                                  ELSE LeafHash(lv[i + 1].val, lv[i + 1].next_val)]
           R == SubtreeRec!Rec(lv, base)
           Body(f, l) ==
             [i \in Nat |->
                IF i * Pow2[l] >= Len(lv) THEN Empty[l]
                ELSE IF l = 0 THEN LeafHash(lv[i + 1].val, lv[i + 1].next_val)
                     ELSE Compress(l - 1, f[l - 1][2 * i], f[l - 1][2 * i + 1])]
           Eq(f) == f = [l \in Nat |-> Body(f, l)]
           G == subtree_hash(lv)
<1>1. R = [l \in Nat |-> IF l = 0 THEN base ELSE SubtreeStep(lv, l - 1, R[l - 1])]
  <2> HIDE DEF base
  <2> QED
    BY SubtreeRec!RecEquation
<1> HIDE DEF R
<1>2. Eq(R)
  <2>1. ASSUME NEW l \in Nat PROVE R[l] = Body(R, l)
    <3>1. CASE l = 0
      BY <1>1, <3>1
    <3>2. CASE l # 0
      <4>1. R[l] = SubtreeStep(lv, l - 1, R[l - 1])
        <5> HIDE DEF base
        <5> QED
          BY <1>1, <3>2
      <4>2. (l - 1) + 1 = l
        OBVIOUS
      <4> QED
        BY <3>2, <4>1, <4>2 DEF SubtreeStep
    <3> QED
      BY <3>1, <3>2
  <2>2. R = [l \in Nat |-> R[l]]
    BY <1>1
  <2> HIDE DEF Body
  <2> QED
    BY <2>1, <2>2
<1>3. G = CHOOSE f : Eq(f)
  BY DEF subtree_hash
<1>4. Eq(G)
  <2> HIDE DEF Eq, G
  <2> QED
    BY <1>2, <1>3
<1> HIDE DEF G
<1>5. \A l \in Nat : G[l] = Body(G, l)
  <2> HIDE DEF Body
  <2> QED
    BY <1>4
<1>6. ASSUME NEW i \in Nat
      PROVE  G[0][i] = IF i >= Len(lv) THEN Zero
                       ELSE LeafHash(lv[i + 1].val, lv[i + 1].next_val)
  <2>1. G[0] = Body(G, 0)
    BY <1>5
  <2> QED
    BY <2>1, Pow2Equation, EmptyEquation
<1>7. ASSUME NEW l \in Nat, NEW i \in Nat
      PROVE  G[l + 1][i] = IF i * Pow2[l + 1] >= Len(lv) THEN Empty[l + 1]
                           ELSE Compress(l, G[l][2 * i], G[l][2 * i + 1])
  <2> DEFINE k == l + 1
  <2>1. k \in Nat /\ k # 0 /\ k - 1 = l
    OBVIOUS
  <2> HIDE DEF k
  <2>2. G[k] = Body(G, k)
    BY <1>5, <2>1
  <2> QED
    BY <2>1, <2>2 DEF k
<1> QED
  BY <1>6, <1>7 DEF G

\* Not descending into absent subtrees changes no hash: subtree_hash is the
\* digest of the tree over the leaf hashes.
LEMMA SubtreeIsDigest ==
    ASSUME NEW lv, Len(lv) \in Nat
    PROVE  \A l, i \in Nat : subtree_hash(lv)[l][i] = Digest(LeafDigests(lv))[l][i]
<1> DEFINE G == subtree_hash(lv)
           a == LeafDigests(lv)
           D == Digest(a)
           S == {l \in Nat : \A i \in Nat : G[l][i] = D[l][i]}
<1>1. /\ \A i \in Nat : D[0][i] = a[i]
      /\ \A l, i \in Nat : D[l + 1][i] = Compress(l, D[l][2 * i], D[l][2 * i + 1])
  BY DigestEquation
<1>2. \A l, i \in Nat : i * Pow2[l] >= Len(lv) => D[l][i] = Empty[l]
  BY DigestBeyond DEF LeafDigests
<1> HIDE DEF D
<1>3. /\ \A i \in Nat : G[0][i] = IF i >= Len(lv) THEN Zero
                           ELSE LeafHash(lv[i + 1].val, lv[i + 1].next_val)
      /\ \A l, i \in Nat :
            G[l + 1][i] = IF i * Pow2[l + 1] >= Len(lv) THEN Empty[l + 1]
                          ELSE Compress(l, G[l][2 * i], G[l][2 * i + 1])
  BY SubtreeEquation
<1> HIDE DEF G
<1>4. 0 \in S
  <2> SUFFICES ASSUME NEW i \in Nat PROVE G[0][i] = D[0][i]
    OBVIOUS
  <2>1. a[i] = IF i >= Len(lv) THEN Zero
               ELSE LeafHash(lv[i + 1].val, lv[i + 1].next_val)
    BY DEF LeafDigests
  <2> QED
    BY <1>1, <1>3, <2>1
<1>5. ASSUME NEW l \in Nat, l \in S PROVE l + 1 \in S
  <2> SUFFICES ASSUME NEW i \in Nat PROVE G[l + 1][i] = D[l + 1][i]
    OBVIOUS
  <2>1. CASE i * Pow2[l + 1] >= Len(lv)
    <3>1. G[l + 1][i] = Empty[l + 1]
      BY <1>3, <2>1
    <3>2. D[l + 1][i] = Empty[l + 1]
      <4> l + 1 \in Nat
        OBVIOUS
      <4> QED
        BY <1>2, <2>1
    <3> QED
      BY <3>1, <3>2
  <2>2. CASE ~(i * Pow2[l + 1] >= Len(lv))
    <3>1. G[l + 1][i] = Compress(l, G[l][2 * i], G[l][2 * i + 1])
      BY <1>3, <2>2
    <3>2. 2 * i \in Nat /\ 2 * i + 1 \in Nat
      OBVIOUS
    <3>3. G[l][2 * i] = D[l][2 * i] /\ G[l][2 * i + 1] = D[l][2 * i + 1]
      BY <1>5, <3>2
    <3> QED
      BY <1>1, <3>1, <3>3
  <2> QED
    BY <2>1, <2>2
<1> HIDE DEF S
<1>6. \A l \in Nat : l \in S
  BY <1>4, <1>5, SubtreeRec!SetInduction
<1> QED
  BY <1>6 DEF S, G, D

(* The witness of a value that is not frozen brackets it and opens to the   *)
(* root.  insert has no capacity check, so the hypothesis that the leaves   *)
(* fit the tree is needed.                                                  *)
LEMMA WitnessOpens ==
    ASSUME NEW lv, WellFormed(lv), Len(lv) <= Capacity, NEW cmx \in Fr, Insertable(lv, cmx)
    PROVE  \E w \in non_membership_witness(lv, cmx) : Verifies(w, cmx, root(lv))
<1> DEFINE i == bracketing_index(lv, cmx)
           pos == i - 1
           a == LeafDigests(lv)
           w == [low_val |-> lv[i].val, low_next_val |-> lv[i].next_val,
                 siblings |-> witness_at(lv, pos), path_bits |-> PathBits(pos)]
<1>1. i \in 1 .. Len(lv) /\ Brackets(lv[i], cmx) /\ Len(lv) \in Nat
  BY BracketingIndex DEF WellFormed
<1> HIDE DEF i
<1>2. non_membership_witness(lv, cmx) = {w}
  BY DEF non_membership_witness, Insertable, i
<1>3. Brackets([val |-> w.low_val, next_val |-> w.low_next_val], cmx)
  BY <1>1 DEF Brackets
<1>4. pos \in Nat /\ pos < Len(lv) /\ pos + 1 = i
  BY <1>1
<1>5. Capacity \in Nat
  BY Pow2Positive, DepthAssumption DEF Capacity
<1>6. a[pos] = LeafHash(w.low_val, w.low_next_val)
  BY <1>4 DEF LeafDigests
<1>7. ASSUME NEW l \in Levels
      PROVE  w.siblings[l] = Digest(a)[l][Sibling(pos \div Pow2[l])]
  <2>1. l \in Nat
    BY DepthAssumption DEF Levels
  <2>2. pos \div Pow2[l] \in Nat
    BY <1>4, <2>1, ShiftTwice
  <2>3. Sibling(pos \div Pow2[l]) \in Nat
    BY <2>2 DEF Sibling
  <2> QED
    BY <1>1, <2>1, <2>3, SubtreeIsDigest DEF witness_at
<1>8. merkle_root(pos, a[pos], w.siblings) = Digest(a)[Depth][0]
  <2>1. pos < Capacity
    BY <1>1, <1>4, <1>5
  <2> HIDE DEF w, pos, a
  <2> QED
    BY <1>4, <1>7, <2>1, PathOpens
<1>9. root(lv) = Digest(a)[Depth][0]
  BY <1>1, SubtreeIsDigest, DepthAssumption DEF root
<1>10. PathRoot(w.path_bits, LeafHash(w.low_val, w.low_next_val), w.siblings) = root(lv)
  BY <1>6, <1>8, <1>9 DEF merkle_root
<1> HIDE DEF w
<1> QED
  BY <1>2, <1>3, <1>10 DEF Verifies

(* In every reachable state whose leaves fit the tree, a value that is not  *)
(* frozen has a verifying witness and a frozen one has none.                *)
THEOREM WitnessesVerifyWithinCapacity ==
    Spec => [](Len(leaves) <= Capacity => WitnessesVerify)
<1>1. IInv => (Len(leaves) <= Capacity => WitnessesVerify)
  <2> SUFFICES ASSUME IInv, Len(leaves) <= Capacity, NEW cmx \in Fr
               PROVE  IF Contains(leaves, cmx)
                      THEN /\ non_membership_witness(leaves, cmx) = {}
                           /\ \A i \in DOMAIN leaves : ~Brackets(leaves[i], cmx)
                      ELSE \E w \in non_membership_witness(leaves, cmx) :
                              Verifies(w, cmx, root(leaves))
    BY DEF WitnessesVerify
  <2>1. WellFormed(leaves)
    BY DEF IInv
  <2>2. CASE cmx = 0
    <3>1. Contains(leaves, 0)
      <4>1. 1 \in DOMAIN leaves /\ leaves[1].val = 0
        BY <2>1 DEF WellFormed, Linked
      <4> QED
        BY <4>1 DEF Contains, Values
    <3>2. \A i \in DOMAIN leaves : ~Brackets(leaves[i], 0)
      <4> TAKE i \in DOMAIN leaves
      <4>1. leaves[i] \in Leaf
        BY <2>1 DEF WellFormed
      <4>2. leaves[i].val \in Nat
        BY <4>1, ModulusAssumption DEF Leaf, Fr
      <4> QED
        BY <4>2 DEF Brackets
    <3> QED
      BY <2>2, <3>1, <3>2 DEF non_membership_witness
  <2>3. CASE cmx # 0 /\ Contains(leaves, cmx)
    BY <2>1, <2>3 DEF WellFormed, Partition, non_membership_witness
  <2>4. CASE cmx # 0 /\ ~Contains(leaves, cmx)
    <3>1. Insertable(leaves, cmx)
      BY <2>4 DEF Insertable
    <3>2. \E w \in non_membership_witness(leaves, cmx) : Verifies(w, cmx, root(leaves))
      BY <2>1, <3>1, WitnessOpens
    <3> QED
      BY <2>4, <3>2
  <2> QED
    BY <2>2, <2>3, <2>4
<1> QED
  BY <1>1, InductiveInvariant, PTL
=============================================================================
