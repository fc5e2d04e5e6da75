------------------------ MODULE CommitmentTreeProofs ------------------------
(***************************************************************************)
(* Theorems about CommitmentTree for every depth, every hash, every number *)
(* of readers and every sequence of arrivals.                              *)
(*                                                                         *)
(* The invariant says what the stack of a reader will compute: a trace S   *)
(* gives the hashes done after each of its frames, S[0] those done now,    *)
(* and the last entry the answer to its query.                             *)
(***************************************************************************)
EXTENDS CommitmentTree, MerkleTreeProofs

Field == {FieldElement(n) : n \in Nat}

Query == [op : {"none", "latest_root", "root_at", "merkle_path_at"},
          position : Nat, size : Nat]

Node(ls) == {Digest(Prefix(ls, n))[l][i] : n \in Nat, l \in Nat, i \in Nat}

IsHash(f) == f.fn \in {"subtree_hash_at", "subtree_hash"}

\* The hash a frame is for: of the prefix it is given, or of all the leaves.
Span(ls, f) == IF f.fn = "subtree_hash_at" THEN f.size ELSE Len(ls)
Value(ls, f) == Digest(Prefix(ls, Span(ls, f)))[f.level][f.idx]

FrameOk(ls, f) ==
    /\ f \in Frames
    /\ f.size <= Len(ls)
    /\ ~IsHash(f) => f.level >= 1
    /\ f.fn = "store" => (f.idx + 1) * Pow2[f.level] <= Len(ls)

Top(f, s) == Compress(f.level - 1, s[Len(s) - 1], s[Len(s)])

\* Frame f turns the hashes s into the hashes t.
Effect(ls, f, s, t) ==
    IF IsHash(f) THEN t = Append(s, Value(ls, f))
    ELSE /\ Len(s) >= 2
         /\ t = Append(SubSeq(s, 1, Len(s) - 2), Top(f, s))
         /\ f.fn = "store" => Top(f, s) = Value(ls, f)

Trace(ls, todo, S) ==
    /\ S \in [0 .. Len(todo) -> Seq(Node(ls))]
    /\ \A j \in 1 .. Len(todo) :
          FrameOk(ls, todo[j]) /\ Effect(ls, todo[j], S[j - 1], S[j])

Answer(ls, q) == [j \in 1 .. Len(Calls(q)) |-> Value(ls, Calls(q)[j])]

ReaderOk(ls, q, todo, done) ==
    \E S : Trace(ls, todo, S) /\ S[0] = done /\ S[Len(todo)] = Answer(ls, q)

ReaderInv(r) ==
    LET R == readers[r]
    IN  IF R.query = Idle THEN R.todo = << >> /\ R.done = << >>
        ELSE R.query \in Queries(size) /\ ReaderOk(leaves, R.query, R.todo, R.done)

IInv ==
    /\ leaves \in Seq(Field)
    /\ Len(leaves) = size
    /\ size \in 0 .. Len(Arrivals)
    /\ \A k \in DOMAIN node_cache : k[1] \in 1 .. Depth /\ k[2] \in Nat
    /\ readers \in [Readers -> [query : Query, todo : Seq(Frames), done : Seq(Node(leaves))]]
    /\ CacheCoherent
    /\ \A r \in Readers : ReaderInv(r)

-----------------------------------------------------------------------------
(* Stacks.                                                                  *)

\* Two hashes pushed and taken off again.
LEMMA PushPop ==
    ASSUME NEW X, NEW s \in Seq(X), NEW x \in X, NEW y \in X
    PROVE  LET t == Append(Append(s, x), y)
           IN  /\ t \in Seq(X) /\ Len(t) = Len(s) + 2
               /\ t[Len(t) - 1] = x /\ t[Len(t)] = y
               /\ SubSeq(t, 1, Len(t) - 2) = s
<1> DEFINE u == Append(s, x)
           t == Append(u, y)
<1>1. u \in Seq(X) /\ Len(u) = Len(s) + 1 /\ u[Len(s) + 1] = x
      /\ \A k \in 1 .. Len(s) : u[k] = s[k]
  OBVIOUS
<1> HIDE DEF u
<1>2. t \in Seq(X) /\ Len(t) = Len(s) + 2 /\ t[Len(s) + 2] = y
      /\ \A k \in 1 .. Len(s) + 1 : t[k] = u[k]
  BY <1>1
<1> HIDE DEF t
<1>3. SubSeq(t, 1, Len(s)) = s
  <2> DEFINE v == SubSeq(t, 1, Len(s))
  <2>1. Len(s) \in Nat /\ DOMAIN s = 1 .. Len(s) /\ s = [k \in 1 .. Len(s) |-> s[k]]
    OBVIOUS
  <2>2. v = [k \in 1 .. Len(s) |-> t[k]]
    BY <1>2, <2>1
  <2>3. \A k \in 1 .. Len(s) : t[k] = s[k]
    BY <1>1, <1>2, <2>1
  <2> HIDE DEF v
  <2> QED
    BY <2>1, <2>2, <2>3 DEF v
<1> QED
  BY <1>1, <1>2, <1>3, Len(s) \in Nat DEF t, u

\* The frame on top is done: the trace loses its first entry.
LEMMA TraceTail ==
    ASSUME NEW ls, NEW todo \in Seq(Frames), todo # << >>, NEW S, Trace(ls, todo, S)
    PROVE  LET T == [j \in 0 .. Len(Tail(todo)) |-> S[j + 1]]
           IN  /\ Trace(ls, Tail(todo), T)
               /\ T[0] = S[1] /\ T[Len(Tail(todo))] = S[Len(todo)]
<1> DEFINE rest == Tail(todo)
           T == [j \in 0 .. Len(rest) |-> S[j + 1]]
<1>1. /\ Len(todo) \in Nat /\ Len(todo) >= 1 /\ rest \in Seq(Frames)
      /\ Len(rest) = Len(todo) - 1
      /\ \A j \in 1 .. Len(rest) : rest[j] = todo[j + 1]
  OBVIOUS
<1> HIDE DEF rest
<1>2. S \in [0 .. Len(todo) -> Seq(Node(ls))]
  BY DEF Trace
<1>3. T \in [0 .. Len(rest) -> Seq(Node(ls))]
  BY <1>1, <1>2
<1>4. ASSUME NEW j \in 1 .. Len(rest)
      PROVE  FrameOk(ls, rest[j]) /\ Effect(ls, rest[j], T[j - 1], T[j])
  <2>1. j + 1 \in 1 .. Len(todo) /\ (j + 1) - 1 = j
    BY <1>1
  <2>2. FrameOk(ls, todo[j + 1]) /\ Effect(ls, todo[j + 1], S[j], S[j + 1])
    BY <2>1 DEF Trace
  <2>3. T[j - 1] = S[j] /\ T[j] = S[j + 1] /\ rest[j] = todo[j + 1]
    BY <1>1
  <2> QED
    BY <2>2, <2>3
<1>5. T[0] = S[1] /\ T[Len(rest)] = S[Len(todo)]
  BY <1>1
<1> HIDE DEF T
<1> QED
  BY <1>3, <1>4, <1>5 DEF Trace, rest, T

-----------------------------------------------------------------------------
(* What a frame is worth, and what its reader does to a trace.             *)

LEMMA ValueInNode ==
    ASSUME NEW ls, Len(ls) \in Nat, NEW f \in Frames
    PROVE  Value(ls, f) \in Node(ls)
<1>1. f.level \in Nat /\ f.idx \in Nat /\ f.size \in Nat
  BY DepthAssumption DEF Frames
<1>2. Span(ls, f) \in Nat
  BY <1>1 DEF Span
<1> QED
  BY <1>1, <1>2 DEF Value, Node

\* The call on top returns its value.
LEMMA ReturnOk ==
    ASSUME NEW ls, NEW q, NEW todo \in Seq(Frames), todo # << >>, NEW done,
           ReaderOk(ls, q, todo, done), IsHash(Head(todo)), Len(ls) \in Nat
    PROVE  /\ ReaderOk(ls, q, Tail(todo), Append(done, Value(ls, Head(todo))))
           /\ done \in Seq(Node(ls))
           /\ Append(done, Value(ls, Head(todo))) \in Seq(Node(ls))
<1>1. PICK S : Trace(ls, todo, S) /\ S[0] = done /\ S[Len(todo)] = Answer(ls, q)
  BY DEF ReaderOk
<1>2. 1 \in 1 .. Len(todo) /\ todo[1] = Head(todo) /\ 1 - 1 = 0 /\ 0 \in 0 .. Len(todo)
      /\ 1 \in 0 .. Len(todo)
  OBVIOUS
<1>3. Effect(ls, Head(todo), S[0], S[1])
  BY <1>1, <1>2 DEF Trace
<1>4. S[1] = Append(done, Value(ls, Head(todo)))
  BY <1>1, <1>3 DEF Effect
<1>5. S[0] \in Seq(Node(ls)) /\ S[1] \in Seq(Node(ls))
  BY <1>1, <1>2 DEF Trace
<1> DEFINE T == [j \in 0 .. Len(Tail(todo)) |-> S[j + 1]]
<1>6. /\ Trace(ls, Tail(todo), T)
      /\ T[0] = S[1] /\ T[Len(Tail(todo))] = S[Len(todo)]
  BY <1>1, TraceTail
<1> HIDE DEF T
<1> QED
  BY <1>1, <1>4, <1>5, <1>6 DEF ReaderOk

\* The call on top takes the hashes of both children.
LEMMA JoinOk ==
    ASSUME NEW ls, NEW q, NEW todo \in Seq(Frames), todo # << >>, NEW done,
           ReaderOk(ls, q, todo, done), ~IsHash(Head(todo))
    PROVE  LET t == Append(SubSeq(done, 1, Len(done) - 2), Top(Head(todo), done))
           IN  /\ ReaderOk(ls, q, Tail(todo), t)
               /\ t \in Seq(Node(ls))
               /\ Head(todo).fn = "store" => Top(Head(todo), done) = Value(ls, Head(todo))
<1>1. PICK S : Trace(ls, todo, S) /\ S[0] = done /\ S[Len(todo)] = Answer(ls, q)
  BY DEF ReaderOk
<1>2. 1 \in 1 .. Len(todo) /\ todo[1] = Head(todo) /\ 1 - 1 = 0 /\ 1 \in 0 .. Len(todo)
  OBVIOUS
<1>3. Effect(ls, Head(todo), S[0], S[1])
  BY <1>1, <1>2 DEF Trace
<1>4. /\ S[1] = Append(SubSeq(done, 1, Len(done) - 2), Top(Head(todo), done))
      /\ Head(todo).fn = "store" => Top(Head(todo), done) = Value(ls, Head(todo))
  BY <1>1, <1>3 DEF Effect
<1>5. S[1] \in Seq(Node(ls))
  BY <1>1, <1>2 DEF Trace
<1> DEFINE T == [j \in 0 .. Len(Tail(todo)) |-> S[j + 1]]
<1>6. /\ Trace(ls, Tail(todo), T)
      /\ T[0] = S[1] /\ T[Len(Tail(todo))] = S[Len(todo)]
  BY <1>1, TraceTail
<1> HIDE DEF T
<1> QED
  BY <1>1, <1>4, <1>5, <1>6 DEF ReaderOk

\* The call on top is replaced by another of the same value.
LEMMA ReplaceOk ==
    ASSUME NEW ls, NEW q, NEW todo \in Seq(Frames), todo # << >>, NEW done,
           ReaderOk(ls, q, todo, done), IsHash(Head(todo)),
           NEW g \in Frames, FrameOk(ls, g), IsHash(g),
           Value(ls, g) = Value(ls, Head(todo))
    PROVE  /\ <<g>> \o Tail(todo) \in Seq(Frames)
           /\ ReaderOk(ls, q, <<g>> \o Tail(todo), done)
<1>1. PICK S : Trace(ls, todo, S) /\ S[0] = done /\ S[Len(todo)] = Answer(ls, q)
  BY DEF ReaderOk
<1> DEFINE new == <<g>> \o Tail(todo)
<1>2. /\ new \in Seq(Frames) /\ Len(new) = Len(todo) /\ new[1] = g
      /\ todo[1] = Head(todo) /\ Len(todo) \in Nat /\ Len(todo) >= 1
      /\ \A j \in 2 .. Len(todo) : new[j] = todo[j]
  OBVIOUS
<1> HIDE DEF new
<1>3. \A j \in 1 .. Len(todo) :
         FrameOk(ls, todo[j]) /\ Effect(ls, todo[j], S[j - 1], S[j])
  BY <1>1 DEF Trace
<1>4. FrameOk(ls, new[1]) /\ Effect(ls, new[1], S[0], S[1])
  BY <1>2, <1>3, 1 - 1 = 0 DEF Effect
<1>5. ASSUME NEW j \in 1 .. Len(new)
      PROVE  FrameOk(ls, new[j]) /\ Effect(ls, new[j], S[j - 1], S[j])
  <2>1. CASE j = 1
    BY <1>4, <2>1
  <2>2. CASE j # 1
    <3>1. j \in 2 .. Len(todo) /\ j \in 1 .. Len(todo)
      BY <1>2, <2>2
    <3>2. new[j] = todo[j]
      BY <1>2, <3>1
    <3> QED
      BY <1>3, <3>1, <3>2
  <2> QED
    BY <2>1, <2>2
<1>6. Trace(ls, new, S)
  BY <1>1, <1>2, <1>5 DEF Trace
<1>7. ReaderOk(ls, q, new, done)
  BY <1>1, <1>2, <1>6 DEF ReaderOk
<1> QED
  BY <1>2, <1>7 DEF new

\* The call on top is replaced by those of both children and what joins them.
LEMMA DescendOk ==
    ASSUME NEW ls, NEW q, NEW todo \in Seq(Frames), todo # << >>, NEW done,
           Len(ls) \in Nat,
           ReaderOk(ls, q, todo, done), IsHash(Head(todo)),
           NEW a \in Frames, FrameOk(ls, a), IsHash(a),
           NEW b \in Frames, FrameOk(ls, b), IsHash(b),
           NEW c \in Frames, FrameOk(ls, c), ~IsHash(c),
           Value(ls, Head(todo)) = Compress(c.level - 1, Value(ls, a), Value(ls, b)),
           c.fn = "store" => Value(ls, c) = Value(ls, Head(todo))
    PROVE  /\ <<a, b, c>> \o Tail(todo) \in Seq(Frames)
           /\ ReaderOk(ls, q, <<a, b, c>> \o Tail(todo), done)
<1>1. PICK S : Trace(ls, todo, S) /\ S[0] = done /\ S[Len(todo)] = Answer(ls, q)
  BY DEF ReaderOk
<1> DEFINE new == <<a, b, c>> \o Tail(todo)
           X == Node(ls)
           Va == Value(ls, a)
           Vb == Value(ls, b)
           s1 == Append(done, Va)
           s2 == Append(s1, Vb)
           T == [j \in 0 .. Len(new) |->
                   IF j = 0 THEN done ELSE IF j = 1 THEN s1 ELSE IF j = 2 THEN s2
                   ELSE S[j - 2]]
<1>2. /\ new \in Seq(Frames) /\ Len(new) = Len(todo) + 2
      /\ new[1] = a /\ new[2] = b /\ new[3] = c
      /\ todo[1] = Head(todo) /\ Len(todo) \in Nat /\ Len(todo) >= 1
      /\ \A j \in 4 .. Len(new) : new[j] = todo[j - 2]
  <2>1. /\ Tail(todo) \in Seq(Frames) /\ Len(todo) \in Nat /\ Len(todo) >= 1
        /\ Len(Tail(todo)) = Len(todo) - 1 /\ todo[1] = Head(todo)
        /\ \A j \in 1 .. Len(Tail(todo)) : Tail(todo)[j] = todo[j + 1]
    OBVIOUS
  <2>2. new \in Seq(Frames) /\ Len(new) = 3 + Len(Tail(todo))
        /\ new[1] = a /\ new[2] = b /\ new[3] = c
        /\ \A j \in 4 .. Len(new) : new[j] = Tail(todo)[j - 3]
    BY <2>1
  <2> HIDE DEF new
  <2>3. ASSUME NEW j \in 4 .. Len(new) PROVE new[j] = todo[j - 2]
    <3>1. j - 3 \in 1 .. Len(Tail(todo)) /\ (j - 3) + 1 = j - 2
      BY <2>1, <2>2
    <3> QED
      BY <2>1, <2>2, <3>1
  <2> QED
    BY <2>1, <2>2, <2>3
<1> HIDE DEF new
<1>3. \A j \in 1 .. Len(todo) :
         FrameOk(ls, todo[j]) /\ Effect(ls, todo[j], S[j - 1], S[j])
  BY <1>1 DEF Trace
<1>4. S \in [0 .. Len(todo) -> Seq(X)]
  BY <1>1 DEF Trace
<1>5. Va \in X /\ Vb \in X
  BY ValueInNode
<1> HIDE DEF X, Va, Vb, T
<1>6. done \in Seq(X)
  <2>1. 0 \in 0 .. Len(todo) /\ S[0] = done
    BY <1>1, <1>2
  <2> QED
    BY <1>4, <2>1
<1>7. /\ s2 \in Seq(X) /\ s1 \in Seq(X) /\ Len(s2) = Len(done) + 2 /\ Len(done) \in Nat
      /\ s2[Len(s2) - 1] = Va /\ s2[Len(s2)] = Vb
      /\ SubSeq(s2, 1, Len(s2) - 2) = done
  <2>1. s1 \in Seq(X) /\ Len(done) \in Nat
    BY <1>5, <1>6
  <2> QED
    BY <1>5, <1>6, <2>1, PushPop
<1>8. S[1] = Append(done, Value(ls, Head(todo)))
  <2>1. Effect(ls, Head(todo), S[0], S[1])
    BY <1>2, <1>3, 1 - 1 = 0, 1 \in 1 .. Len(todo)
  <2> QED
    BY <1>1, <2>1 DEF Effect
<1> HIDE DEF s1, s2
<1> USE DEF T
<1>9. /\ T \in [0 .. Len(new) -> Seq(X)]
      /\ T[0] = done /\ T[1] = s1 /\ T[2] = s2 /\ T[3] = S[1]
      /\ \A j \in 3 .. Len(new) : T[j] = S[j - 2]
      /\ T[Len(new)] = S[Len(todo)]
  <2>1. \A j \in 3 .. Len(new) : T[j] = S[j - 2]
    BY <1>2
  <2>2. T \in [0 .. Len(new) -> Seq(X)]
    BY <1>2, <1>4, <1>6, <1>7
  <2>3. T[0] = done /\ T[1] = s1 /\ T[2] = s2
    BY <1>2
  <2>4. T[3] = S[1] /\ T[Len(new)] = S[Len(todo)]
    BY <1>2, <2>1
  <2> QED
    BY <2>1, <2>2, <2>3, <2>4
<1> HIDE DEF T
<1>10. Effect(ls, a, T[0], T[1]) /\ Effect(ls, b, T[1], T[2])
  BY <1>9 DEF Effect, s1, s2, Va, Vb
<1>11. Effect(ls, c, T[2], T[3])
  <2>1. Top(c, s2) = Value(ls, Head(todo))
    BY <1>7 DEF Top, Va, Vb
  <2>2. Len(s2) >= 2
    BY <1>7
  <2> QED
    BY <1>7, <1>8, <1>9, <2>1, <2>2 DEF Effect
<1>12. ASSUME NEW j \in 1 .. Len(new)
       PROVE  FrameOk(ls, new[j]) /\ Effect(ls, new[j], T[j - 1], T[j])
  <2>1. CASE j = 1
    BY <1>2, <1>10, <2>1, 1 - 1 = 0
  <2>2. CASE j = 2
    BY <1>2, <1>10, <2>2, 2 - 1 = 1
  <2>3. CASE j = 3
    BY <1>2, <1>11, <2>3, 3 - 1 = 2
  <2>4. CASE j >= 4
    <3>1. /\ j \in 4 .. Len(new) /\ j \in 3 .. Len(new) /\ j - 1 \in 3 .. Len(new)
          /\ j - 2 \in 1 .. Len(todo) /\ (j - 1) - 2 = (j - 2) - 1
      BY <1>2, <2>4
    <3>2. new[j] = todo[j - 2] /\ T[j] = S[j - 2] /\ T[j - 1] = S[(j - 2) - 1]
      BY <1>2, <1>9, <3>1
    <3> QED
      BY <1>3, <3>1, <3>2
  <2> QED
    BY <1>2, <2>1, <2>2, <2>3, <2>4
<1>13. Trace(ls, new, T)
  BY <1>9, <1>12 DEF Trace, X
<1>14. ReaderOk(ls, q, new, done)
  BY <1>1, <1>9, <1>13 DEF ReaderOk
<1> QED
  BY <1>2, <1>14 DEF new

LEMMA HeadOk ==
    ASSUME NEW ls, NEW q, NEW todo \in Seq(Frames), todo # << >>, NEW done,
           ReaderOk(ls, q, todo, done)
    PROVE  FrameOk(ls, Head(todo)) /\ Head(todo) \in Frames
<1>1. PICK S : Trace(ls, todo, S)
  BY DEF ReaderOk
<1>2. 1 \in 1 .. Len(todo) /\ todo[1] = Head(todo)
  OBVIOUS
<1> QED
  BY <1>1, <1>2 DEF Trace, FrameOk

-----------------------------------------------------------------------------
(* The values the code returns.                                            *)

LEMMA ValueBeyond ==
    ASSUME NEW ls, Len(ls) \in Nat, NEW f \in Frames,
           f.idx * Pow2[f.level] >= Span(ls, f)
    PROVE  Value(ls, f) = Empty[f.level]
<1> DEFINE n == Span(ls, f)
           a == Prefix(ls, n)
<1>1. f.level \in Nat /\ f.idx \in Nat /\ n \in Nat
  BY DepthAssumption DEF Frames, Span
<1>2. \A k \in Nat : k >= n => a[k] = Zero
  BY <1>1 DEF Prefix
<1> HIDE DEF n, a
<1>3. \A l, i \in Nat : i * Pow2[l] >= n => Digest(a)[l][i] = Empty[l]
  BY <1>1, <1>2, DigestBeyond
<1> QED
  BY <1>1, <1>3 DEF Value, n, a

\* A node is the hash of its children, seen from the same leaves.
LEMMA ValueChildren ==
    ASSUME NEW ls, NEW f \in Frames, f.level >= 1,
           NEW a \in Frames, NEW b \in Frames,
           Span(ls, a) = Span(ls, f), Span(ls, b) = Span(ls, f),
           a.level = f.level - 1, b.level = f.level - 1,
           a.idx = 2 * f.idx, b.idx = 2 * f.idx + 1
    PROVE  Value(ls, f) = Compress(f.level - 1, Value(ls, a), Value(ls, b))
<1> DEFINE P == Prefix(ls, Span(ls, f))
           l == f.level - 1
<1>1. l \in Nat /\ f.idx \in Nat /\ l + 1 = f.level
  BY DepthAssumption DEF Frames
<1> HIDE DEF P, l
<1>2. \A m, i \in Nat :
         Digest(P)[m + 1][i] = Compress(m, Digest(P)[m][2 * i], Digest(P)[m][2 * i + 1])
  BY DigestEquation
<1>3. Digest(P)[f.level][f.idx]
        = Compress(l, Digest(P)[l][2 * f.idx], Digest(P)[l][2 * f.idx + 1])
  BY <1>1, <1>2
<1> QED
  BY <1>3 DEF Value, P, l

-----------------------------------------------------------------------------
(* Queries.                                                                 *)

LEMMA QueriesTyped ==
    ASSUME NEW n \in Nat, NEW q \in Queries(n)
    PROVE  /\ q \in Query /\ q # Idle
           /\ q.size \in 1 .. n /\ q.op \in {"latest_root", "root_at", "merkle_path_at"}
           /\ q.op = "merkle_path_at" => q.position < q.size
           /\ q.op = "latest_root" => q.size = n
BY DEF Queries, Query, Idle

\* Every call of a query is a hash of leaves that are there.
LEMMA CallsOk ==
    ASSUME NEW ls, Len(ls) \in Nat, NEW q \in Queries(Len(ls))
    PROVE  /\ Calls(q) \in Seq(Frames)
           /\ \A j \in 1 .. Len(Calls(q)) : FrameOk(ls, Calls(q)[j]) /\ IsHash(Calls(q)[j])
<1>1. /\ q.size \in Nat /\ q.size <= Len(ls) /\ q.position \in Nat
      /\ q.op \in {"latest_root", "root_at", "merkle_path_at"}
  BY QueriesTyped DEF Query
<1>2. \A l \in 0 .. Depth, i \in Nat, n \in Nat :
         n <= Len(ls) => /\ HashAt(l, i, n) \in Frames /\ Hash(l, i) \in Frames
                         /\ FrameOk(ls, HashAt(l, i, n)) /\ FrameOk(ls, Hash(l, i))
                         /\ IsHash(HashAt(l, i, n)) /\ IsHash(Hash(l, i))
  BY DEF Frames, FrameOk, IsHash, HashAt, Hash
<1>3. Depth \in 0 .. Depth /\ 0 \in Nat
  BY DepthAssumption
<1>4. CASE q.op = "latest_root"
  <2>1. Calls(q) = << Hash(Depth, 0) >>
    BY <1>4 DEF Calls
  <2>2. Hash(Depth, 0) \in Frames /\ FrameOk(ls, Hash(Depth, 0)) /\ IsHash(Hash(Depth, 0))
    BY <1>1, <1>2, <1>3
  <2> QED
    BY <2>1, <2>2
<1>5. CASE q.op = "root_at"
  <2> DEFINE g == HashAt(Depth, 0, q.size)
  <2>1. Calls(q) = << g >>
    BY <1>5 DEF Calls
  <2>2. g \in Frames /\ FrameOk(ls, g) /\ IsHash(g)
    BY <1>1, <1>2, <1>3
  <2> HIDE DEF g
  <2> QED
    BY <2>1, <2>2
<1>6. CASE q.op = "merkle_path_at"
  <2> DEFINE p == q.position % U32
             at(l) == HashAt(l - 1, Sibling(p \div Pow2[l - 1]), q.size)
  <2>1. Calls(q) = [l \in 1 .. Depth |-> at(l)]
    BY <1>6 DEF Calls, witness_at_size
  <2>2. p \in Nat
    <3>1. U32 \in Nat /\ U32 >= 1
      BY TreeAssumption, Pow2Positive, DepthAssumption DEF Capacity
    <3> QED
      BY <1>1, <3>1, DivMod
  <2> HIDE DEF p
  <2>3. ASSUME NEW l \in 1 .. Depth
        PROVE  at(l) \in Frames /\ FrameOk(ls, at(l)) /\ IsHash(at(l))
    <3>1. l - 1 \in 0 .. Depth /\ l - 1 \in Nat
      BY DepthAssumption
    <3>2. p \div Pow2[l - 1] \in Nat
      BY <2>2, <3>1, ShiftTwice
    <3> DEFINE i == p \div Pow2[l - 1]
    <3> HIDE DEF i
    <3>3. i \in Nat => Sibling(i) \in Nat
      BY DEF Sibling
    <3>4. Sibling(i) \in Nat
      BY <3>2, <3>3 DEF i
    <3> QED
      BY <1>1, <1>2, <3>1, <3>4 DEF i
  <2> HIDE DEF at
  <2>4. Calls(q) \in Seq(Frames) /\ Len(Calls(q)) = Depth
    BY <2>1, <2>3, DepthAssumption
  <2> QED
    BY <2>1, <2>3, <2>4
<1> QED
  BY <1>1, <1>4, <1>5, <1>6

\* A query that starts with no hashes ends with its answer.
LEMMA AskOk ==
    ASSUME NEW ls, Len(ls) \in Nat, NEW q \in Queries(Len(ls))
    PROVE  Calls(q) \in Seq(Frames) /\ ReaderOk(ls, q, Calls(q), << >>)
<1> DEFINE todo == Calls(q)
           X == Node(ls)
           V == [j \in 1 .. Len(todo) |-> Value(ls, todo[j])]
           S == [j \in 0 .. Len(todo) |-> SubSeq(V, 1, j)]
<1>1. /\ todo \in Seq(Frames)
      /\ \A j \in 1 .. Len(todo) : FrameOk(ls, todo[j]) /\ IsHash(todo[j])
  BY CallsOk
<1>2. Len(todo) \in Nat /\ \A j \in 1 .. Len(todo) : todo[j] \in Frames
  BY <1>1
<1>3. \A j \in 1 .. Len(todo) : Value(ls, todo[j]) \in X
  BY <1>2, ValueInNode
<1>4. Answer(ls, q) = V
  BY DEF Answer
<1> HIDE DEF X, todo
<1>5. V \in Seq(X) /\ Len(V) = Len(todo)
      /\ \A j \in 1 .. Len(todo) : V[j] = Value(ls, todo[j])
  BY <1>2, <1>3
<1> HIDE DEF V
<1>6. S[0] = << >> /\ S[Len(todo)] = V
  BY <1>2, <1>5
<1>7. S \in [0 .. Len(todo) -> Seq(X)]
  BY <1>2, <1>5
<1>8. ASSUME NEW j \in 1 .. Len(todo)
      PROVE  S[j] = Append(S[j - 1], Value(ls, todo[j]))
  <2>1. /\ j \in Nat /\ j - 1 \in 0 .. Len(todo) /\ j \in 0 .. Len(todo)
        /\ V[j] = Value(ls, todo[j])
    BY <1>2, <1>5
  <2>2. SubSeq(V, 1, j) = Append(SubSeq(V, 1, j - 1), V[j])
    BY <1>2, <1>5, <2>1
  <2> QED
    BY <2>1, <2>2
<1> HIDE DEF S
<1>9. \A j \in 1 .. Len(todo) :
         FrameOk(ls, todo[j]) /\ Effect(ls, todo[j], S[j - 1], S[j])
  BY <1>1, <1>8 DEF Effect
<1>10. Trace(ls, todo, S)
  BY <1>7, <1>9 DEF Trace, X
<1>11. ReaderOk(ls, q, todo, << >>)
  BY <1>4, <1>6, <1>10 DEF ReaderOk
<1> QED
  BY <1>1, <1>11 DEF todo

-----------------------------------------------------------------------------
(* The invariant.                                                           *)

LEMMA InitIInv == Init => IInv
<1> SUFFICES ASSUME Init PROVE IInv
  OBVIOUS
<1>1. << >> \in Seq(Field) /\ << >> \in Seq(Frames) /\ << >> \in Seq(Node(leaves))
      /\ Len(<< >>) = 0 /\ DOMAIN << >> = {} /\ Len(Arrivals) \in Nat
  BY TreeAssumption
<1>2. Idle \in Query
  BY DEF Idle, Query
<1>3. readers \in [Readers -> [query : Query, todo : Seq(Frames), done : Seq(Node(leaves))]]
  BY <1>1, <1>2 DEF Init
<1>4. \A r \in Readers : ReaderInv(r)
  BY DEF Init, ReaderInv
<1>5. CacheCoherent /\ \A k \in DOMAIN node_cache : k[1] \in 1 .. Depth /\ k[2] \in Nat
  BY <1>1 DEF Init, CacheCoherent
<1> QED
  BY <1>1, <1>3, <1>4, <1>5 DEF Init, IInv

\* One reader moves on and the tree stays as it is.
LEMMA ReaderStep ==
    ASSUME IInv, leaves' = leaves, size' = size,
           NEW r \in Readers, NEW q \in Query,
           NEW t \in Seq(Frames), NEW d \in Seq(Node(leaves)),
           readers' = [readers EXCEPT ![r] = [query |-> q, todo |-> t, done |-> d]],
           IF q = Idle THEN t = << >> /\ d = << >>
           ELSE q \in Queries(size) /\ ReaderOk(leaves, q, t, d),
           \A k \in DOMAIN node_cache' : k[1] \in 1 .. Depth /\ k[2] \in Nat,
           CacheCoherent'
    PROVE  IInv'
<1>1. readers' \in [Readers -> [query : Query, todo : Seq(Frames), done : Seq(Node(leaves))]]
  BY DEF IInv
<1>2. ASSUME NEW o \in Readers
      PROVE  ReaderInv(o)'
  <2>1. CASE o = r
    <3>1. readers'[o] = [query |-> q, todo |-> t, done |-> d]
      BY <2>1 DEF IInv
    <3> QED
      BY <3>1 DEF ReaderInv
  <2>2. CASE o # r
    <3>1. readers'[o] = readers[o]
      BY <2>2 DEF IInv
    <3>2. ReaderInv(o)
      BY DEF IInv
    <3> QED
      BY <3>1, <3>2 DEF ReaderInv
  <2> QED
    BY <2>1, <2>2
<1>3. leaves' \in Seq(Field) /\ Len(leaves') = size' /\ size' \in 0 .. Len(Arrivals)
  BY DEF IInv
<1>4. readers' \in [Readers -> [query : Query, todo : Seq(Frames), done : Seq(Node(leaves'))]]
  BY <1>1
<1> QED
  BY <1>2, <1>3, <1>4 DEF IInv

\* A reader with work to do.
LEMMA RunningOk ==
    ASSUME IInv, NEW r \in Readers, readers[r].todo # << >>
    PROVE  /\ readers[r].query \in Query /\ readers[r].query # Idle
           /\ readers[r].query \in Queries(size)
           /\ readers[r].todo \in Seq(Frames) /\ readers[r].done \in Seq(Node(leaves))
           /\ ReaderOk(leaves, readers[r].query, readers[r].todo, readers[r].done)
           /\ FrameOk(leaves, Head(readers[r].todo)) /\ Head(readers[r].todo) \in Frames
           /\ Len(leaves) \in Nat
<1>1. readers[r] \in [query : Query, todo : Seq(Frames), done : Seq(Node(leaves))]
  BY DEF IInv
<1>2. /\ readers[r].query # Idle /\ readers[r].query \in Queries(size)
      /\ ReaderOk(leaves, readers[r].query, readers[r].todo, readers[r].done)
  BY DEF IInv, ReaderInv
<1>3. FrameOk(leaves, Head(readers[r].todo)) /\ Head(readers[r].todo) \in Frames
  BY <1>1, <1>2, HeadOk
<1>4. Len(leaves) \in Nat
  BY DEF IInv
<1> QED
  BY <1>1, <1>2, <1>3, <1>4

\* The two ways in which the function on top goes on.
LEMMA ReturnStep ==
    ASSUME IInv, NEW r \in Readers, readers[r].todo # << >>,
           IsHash(Head(readers[r].todo)),
           Return(r, Value(leaves, Head(readers[r].todo))),
           UNCHANGED <<leaves, size, node_cache>>
    PROVE  IInv'
<1> DEFINE R == readers[r]
           t == Tail(R.todo)
           d == Append(R.done, Value(leaves, Head(R.todo)))
<1>1. /\ R.query \in Query /\ R.query # Idle /\ R.query \in Queries(size)
      /\ R.todo \in Seq(Frames) /\ R.done \in Seq(Node(leaves))
      /\ ReaderOk(leaves, R.query, R.todo, R.done) /\ Len(leaves) \in Nat
  BY RunningOk
<1>2. t \in Seq(Frames)
  BY <1>1
<1>3. ReaderOk(leaves, R.query, t, d) /\ d \in Seq(Node(leaves))
  BY <1>1, ReturnOk
<1>4. readers' = [readers EXCEPT ![r] = [query |-> R.query, todo |-> t, done |-> d]]
  BY DEF Return, Continue
<1>5. CacheCoherent' /\ \A k \in DOMAIN node_cache' : k[1] \in 1 .. Depth /\ k[2] \in Nat
  BY DEF IInv, CacheCoherent, Reference
<1> HIDE DEF t, d
<1> QED
  BY <1>1, <1>2, <1>3, <1>4, <1>5, ReaderStep

LEMMA DescendStep ==
    ASSUME IInv, NEW r \in Readers, readers[r].todo # << >>, NEW frames,
           Descend(r, frames), UNCHANGED <<leaves, size, node_cache>>,
           frames \o Tail(readers[r].todo) \in Seq(Frames),
           ReaderOk(leaves, readers[r].query, frames \o Tail(readers[r].todo), readers[r].done)
    PROVE  IInv'
<1> DEFINE R == readers[r]
           t == frames \o Tail(R.todo)
<1>1. /\ R.query \in Query /\ R.query # Idle /\ R.query \in Queries(size)
      /\ R.done \in Seq(Node(leaves))
  BY RunningOk
<1>2. readers' = [readers EXCEPT ![r] = [query |-> R.query, todo |-> t, done |-> R.done]]
  BY DEF Descend, Continue
<1>3. CacheCoherent' /\ \A k \in DOMAIN node_cache' : k[1] \in 1 .. Depth /\ k[2] \in Nat
  BY DEF IInv, CacheCoherent, Reference
<1>4. t \in Seq(Frames) /\ ReaderOk(leaves, R.query, t, R.done)
  OBVIOUS
<1> HIDE DEF t
<1> QED
  BY <1>1, <1>2, <1>3, <1>4, ReaderStep

-----------------------------------------------------------------------------
(* Every action preserves the invariant.                                   *)

LEMMA AppendIInv == IInv /\ append => IInv'
<1> SUFFICES ASSUME IInv, append PROVE IInv'
  OBVIOUS
<1> DEFINE w == Arrivals[Len(leaves) + 1]
           x == be_bytes_to_fr(w)
<1>1. /\ leaves \in Seq(Field) /\ Len(leaves) = size /\ size \in 0 .. Len(Arrivals)
      /\ Len(leaves) < Len(Arrivals) /\ Arrivals \in Seq(Nat)
  BY TreeAssumption DEF IInv, append
<1>2. x \in Field
  <2>1. w \in Nat
    BY <1>1
  <2> HIDE DEF w
  <2>2. w % Modulus \in Nat
    BY <2>1, TreeAssumption
  <2> QED
    BY <2>2 DEF be_bytes_to_fr, Field
<1> HIDE DEF x
<1>3. /\ leaves' = Append(leaves, x) /\ size' = size + 1
      /\ UNCHANGED <<node_cache, readers>> /\ \A r \in Readers : readers[r].query = Idle
  BY DEF append, x
<1>4. /\ leaves' \in Seq(Field) /\ Len(leaves') = size' /\ Len(leaves') = Len(leaves) + 1
      /\ size' \in 0 .. Len(Arrivals)
      /\ \A k \in 1 .. Len(leaves) : leaves[k] = leaves'[k]
  BY <1>1, <1>2, <1>3
<1>5. ASSUME NEW k \in DOMAIN node_cache
      PROVE  /\ k[1] \in 1 .. Depth /\ k[2] \in Nat
             /\ (k[2] + 1) * Pow2[k[1]] <= Len(leaves')
             /\ node_cache[k] = Digest(Prefix(leaves', Len(leaves')))[k[1]][k[2]]
  <2> DEFINE l == k[1]
             i == k[2]
             e == (i + 1) * Pow2[l]
  <2>1. /\ l \in 1 .. Depth /\ i \in Nat /\ e <= Len(leaves)
        /\ node_cache[k] = Digest(Prefix(leaves, Len(leaves)))[l][i]
    BY DEF IInv, CacheCoherent, Reference
  <2>2. l \in Nat
    BY <2>1, DepthAssumption
  <2>3. e \in Nat
    <3> HIDE DEF l, i, e
    <3>1. i * Pow2[l] \in Nat /\ Pow2[l] \in Nat /\ (i + 1) * Pow2[l] = i * Pow2[l] + Pow2[l]
      BY <2>1, <2>2, Bounds
    <3>2. i * Pow2[l] + Pow2[l] \in Nat
      BY <3>1
    <3> QED
      BY <3>1, <3>2 DEF e
  <2>4. Len(leaves) \in Nat /\ Len(leaves') \in Nat
    BY <1>1, <1>4
  <2>5. e <= Len(leaves')
    <3> HIDE DEF e
    <3> QED
      BY <1>4, <2>1, <2>3, <2>4
  <2>6. Digest(Prefix(leaves, Len(leaves)))[l][i] = Digest(Prefix(leaves', Len(leaves')))[l][i]
    <3> DEFINE n == Len(leaves)
               m == Len(leaves')
    <3>1. n \in Nat /\ m \in Nat /\ l \in Nat /\ i \in Nat
      BY <2>1, <2>2, <2>4
    <3>2. (i + 1) * Pow2[l] <= n /\ (i + 1) * Pow2[l] <= m
      BY <2>1, <2>5
    <3>3. \A j \in 1 .. n : leaves[j] = leaves'[j]
      BY <1>4
    <3> HIDE DEF l, i, n, m
    <3>4. Digest(Prefix(leaves, n))[l][i] = Digest(Prefix(leaves', m))[l][i]
      BY <3>1, <3>2, <3>3, SameSubtree
    <3> QED
      BY <3>4 DEF n, m
  <2> QED
    BY <2>1, <2>5, <2>6
<1>6. CacheCoherent' /\ \A k \in DOMAIN node_cache' : k[1] \in 1 .. Depth /\ k[2] \in Nat
  BY <1>3, <1>5 DEF CacheCoherent, Reference
<1>7. ASSUME NEW r \in Readers
      PROVE  /\ ReaderInv(r)' /\ readers[r].done = << >>
             /\ readers[r] \in [query : Query, todo : Seq(Frames), done : Seq(Node(leaves'))]
  <2>1. /\ readers[r].query = Idle /\ readers[r].todo = << >> /\ readers[r].done = << >>
    BY <1>3 DEF IInv, ReaderInv
  <2>2. ReaderInv(r)'
    BY <1>3, <2>1 DEF ReaderInv
  <2>3. readers[r] \in [query : Query, todo : Seq(Frames), done : Seq(Node(leaves))]
    BY DEF IInv
  <2>4. readers[r] \in [query : Query, todo : Seq(Frames), done : Seq(Node(leaves'))]
    BY <2>1, <2>3
  <2> QED
    BY <2>1, <2>2, <2>4
<1>8. readers' \in [Readers -> [query : Query, todo : Seq(Frames), done : Seq(Node(leaves'))]]
  BY <1>3, <1>7 DEF IInv
<1> QED
  BY <1>4, <1>6, <1>7, <1>8 DEF IInv

LEMMA AskIInv == \A r \in Readers : \A q \in Queries(size) : IInv /\ Ask(r, q) => IInv'
<1> SUFFICES ASSUME NEW r \in Readers, NEW q \in Queries(size), IInv, Ask(r, q)
             PROVE  IInv'
  OBVIOUS
<1>1. Len(leaves) \in Nat /\ size = Len(leaves)
  BY DEF IInv
<1>2. q \in Query /\ q # Idle
  BY <1>1, QueriesTyped
<1>3. Calls(q) \in Seq(Frames) /\ ReaderOk(leaves, q, Calls(q), << >>)
  BY <1>1, AskOk
<1>4. readers' = [readers EXCEPT ![r] = [query |-> q, todo |-> Calls(q), done |-> << >>]]
  BY DEF Ask, Continue
<1>5. CacheCoherent' /\ \A k \in DOMAIN node_cache' : k[1] \in 1 .. Depth /\ k[2] \in Nat
  BY DEF IInv, CacheCoherent, Reference, Ask
<1>6. leaves' = leaves /\ size' = size /\ << >> \in Seq(Node(leaves))
  BY DEF Ask
<1> QED
  BY <1>2, <1>3, <1>4, <1>5, <1>6, ReaderStep

LEMMA DeliverIInv == \A r \in Readers : IInv /\ Deliver(r) => IInv'
<1> SUFFICES ASSUME NEW r \in Readers, IInv, Deliver(r) PROVE IInv'
  OBVIOUS
<1>1. readers' = [readers EXCEPT ![r] = [query |-> Idle, todo |-> << >>, done |-> << >>]]
  BY DEF Deliver, Continue
<1>2. CacheCoherent' /\ \A k \in DOMAIN node_cache' : k[1] \in 1 .. Depth /\ k[2] \in Nat
  BY DEF IInv, CacheCoherent, Reference, Deliver
<1>3. /\ leaves' = leaves /\ size' = size /\ << >> \in Seq(Node(leaves))
      /\ << >> \in Seq(Frames) /\ Idle \in Query
  BY DEF Deliver, Idle, Query
<1> QED
  BY <1>1, <1>2, <1>3, ReaderStep

LEMMA CompressIInv == \A r \in Readers : IInv /\ compress(r) => IInv'
<1> SUFFICES ASSUME NEW r \in Readers, IInv, compress(r) PROVE IInv'
  OBVIOUS
<1> DEFINE R == readers[r]
           t == Append(SubSeq(R.done, 1, Len(R.done) - 2), Top(Head(R.todo), R.done))
<1>1. R.todo # << >> /\ ~IsHash(Head(R.todo))
  BY DEF compress, Running, IsHash
<1>2. /\ R.query \in Query /\ R.query # Idle /\ R.query \in Queries(size)
      /\ R.todo \in Seq(Frames) /\ ReaderOk(leaves, R.query, R.todo, R.done)
  BY <1>1, RunningOk
<1>3. ReaderOk(leaves, R.query, Tail(R.todo), t) /\ t \in Seq(Node(leaves))
  BY <1>1, <1>2, JoinOk
<1>4. readers' = [readers EXCEPT ![r] = [query |-> R.query, todo |-> Tail(R.todo), done |-> t]]
  BY DEF compress, Joined, Continue, Children, Top
<1>5. CacheCoherent' /\ \A k \in DOMAIN node_cache' : k[1] \in 1 .. Depth /\ k[2] \in Nat
  BY DEF IInv, CacheCoherent, Reference, compress
<1>6. leaves' = leaves /\ size' = size /\ Tail(R.todo) \in Seq(Frames)
  BY <1>1, <1>2 DEF compress
<1> HIDE DEF t
<1> QED
  BY <1>2, <1>3, <1>4, <1>5, <1>6, ReaderStep

LEMMA StoreIInv == \A r \in Readers : IInv /\ store(r) => IInv'
<1> SUFFICES ASSUME NEW r \in Readers, IInv, store(r) PROVE IInv'
  OBVIOUS
<1> DEFINE R == readers[r]
           f == Head(R.todo)
           t == Append(SubSeq(R.done, 1, Len(R.done) - 2), Top(f, R.done))
           key == <<f.level, f.idx>>
<1>1. R.todo # << >> /\ ~IsHash(f) /\ f.fn = "store"
  BY DEF store, Running, IsHash
<1>2. /\ R.query \in Query /\ R.query # Idle /\ R.query \in Queries(size)
      /\ R.todo \in Seq(Frames) /\ ReaderOk(leaves, R.query, R.todo, R.done)
      /\ FrameOk(leaves, f) /\ f \in Frames
  BY <1>1, RunningOk
<1>3. /\ ReaderOk(leaves, R.query, Tail(R.todo), t) /\ t \in Seq(Node(leaves))
      /\ Top(f, R.done) = Value(leaves, f)
  BY <1>1, <1>2, JoinOk
<1>4. readers' = [readers EXCEPT ![r] = [query |-> R.query, todo |-> Tail(R.todo), done |-> t]]
  BY DEF store, Joined, Continue, Children, Top
<1>5. /\ leaves' = leaves /\ size' = size /\ Tail(R.todo) \in Seq(Frames)
  BY <1>1, <1>2 DEF store
<1>6. node_cache' = [k \in DOMAIN node_cache \union {key} |->
                       IF k = key THEN Top(f, R.done) ELSE node_cache[k]]
  BY DEF store, Children, Top
<1>7. /\ f.level \in 1 .. Depth /\ f.idx \in Nat
      /\ (f.idx + 1) * Pow2[f.level] <= Len(leaves)
  BY <1>1, <1>2, DepthAssumption DEF FrameOk, Frames
<1>8. Value(leaves, f) = Reference[f.level][f.idx]
  BY <1>1 DEF Value, Span, Reference, IsHash
<1> HIDE DEF t, f
<1>9. ASSUME NEW k \in DOMAIN node_cache'
      PROVE  /\ k[1] \in 1 .. Depth /\ k[2] \in Nat
             /\ (k[2] + 1) * Pow2[k[1]] <= Len(leaves)
             /\ node_cache'[k] = Reference[k[1]][k[2]]
  <2>1. CASE k = key
    <3>1. k[1] = f.level /\ k[2] = f.idx /\ node_cache'[k] = Top(f, R.done)
      BY <1>6, <2>1
    <3> QED
      BY <1>3, <1>7, <1>8, <3>1
  <2>2. CASE k # key
    <3>1. k \in DOMAIN node_cache /\ node_cache'[k] = node_cache[k]
      BY <1>6, <2>2
    <3> QED
      BY <3>1 DEF IInv, CacheCoherent
  <2> QED
    BY <2>1, <2>2
<1>10. CacheCoherent' /\ \A k \in DOMAIN node_cache' : k[1] \in 1 .. Depth /\ k[2] \in Nat
  BY <1>5, <1>9 DEF CacheCoherent, Reference
<1> QED
  BY <1>2, <1>3, <1>4, <1>5, <1>10, ReaderStep

LEMMA FrameTyped ==
    ASSUME NEW f \in Frames
    PROVE  f.level \in Nat /\ f.level <= Depth /\ f.idx \in Nat /\ f.size \in Nat
BY DepthAssumption DEF Frames

LEMMA SubtreeHashAtIInv == \A r \in Readers : IInv /\ subtree_hash_at(r) => IInv'
<1> SUFFICES ASSUME NEW r \in Readers, IInv, subtree_hash_at(r) PROVE IInv'
  OBVIOUS
<1> DEFINE R == readers[r]
           f == Head(R.todo)
           start == f.idx * Pow2[f.level]
           end == start + Pow2[f.level]
<1>1. R.todo # << >> /\ f.fn = "subtree_hash_at" /\ UNCHANGED <<leaves, size, node_cache>>
  BY DEF subtree_hash_at, Running
<1>2. /\ R.todo \in Seq(Frames) /\ ReaderOk(leaves, R.query, R.todo, R.done)
      /\ f \in Frames /\ f.size <= Len(leaves) /\ Len(leaves) \in Nat
  BY <1>1, RunningOk DEF FrameOk
<1>3. /\ f.level \in Nat /\ f.level <= Depth /\ f.idx \in Nat /\ f.size \in Nat
      /\ IsHash(f) /\ Span(leaves, f) = f.size
  <2> HIDE DEF f
  <2> QED
    BY <1>1, <1>2, FrameTyped DEF IsHash, Span
<1>4. /\ start \in Nat /\ Pow2[f.level] \in Nat /\ (f.idx + 1) * Pow2[f.level] = end
      /\ Pow2[0] = 1
  BY <1>3, Bounds
<1> HIDE DEF f, start, end
<1>5. CASE start >= f.size /\ Return(r, Empty[f.level])
  <2>1. Value(leaves, f) = Empty[f.level]
    BY <1>2, <1>3, <1>5, ValueBeyond DEF start
  <2> QED
    BY <1>1, <1>3, <1>5, <2>1, ReturnStep DEF f
<1>6. CASE start < f.size /\ end <= f.size /\ Descend(r, << Hash(f.level, f.idx) >>)
  <2> DEFINE g == Hash(f.level, f.idx)
  <2>1. /\ g \in Frames /\ FrameOk(leaves, g) /\ IsHash(g)
        /\ Span(leaves, g) = Len(leaves) /\ g.level = f.level /\ g.idx = f.idx
    BY <1>2, <1>3 DEF Hash, Frames, FrameOk, IsHash, Span
  <2>2. (f.idx + 1) * Pow2[f.level] <= f.size /\ (f.idx + 1) * Pow2[f.level] <= Len(leaves)
    BY <1>2, <1>3, <1>4, <1>6
  <2>3. Value(leaves, f) = Value(leaves, g)
    <3>1. Digest(Prefix(leaves, f.size))[f.level][f.idx]
            = Digest(Prefix(leaves, Len(leaves)))[f.level][f.idx]
      <4> DEFINE l == f.level
                 i == f.idx
                 n == f.size
                 m == Len(leaves)
      <4>1. /\ n \in Nat /\ m \in Nat /\ l \in Nat /\ i \in Nat
            /\ (i + 1) * Pow2[l] <= n /\ (i + 1) * Pow2[l] <= m
            /\ \A k \in 1 .. n : leaves[k] = leaves[k]
        BY <1>2, <1>3, <2>2
      <4> HIDE DEF l, i, n, m
      <4>2. Digest(Prefix(leaves, n))[l][i] = Digest(Prefix(leaves, m))[l][i]
        BY <4>1, SameSubtree
      <4> QED
        BY <4>2 DEF l, i, n, m
    <3> QED
      BY <1>3, <2>1, <3>1 DEF Value
  <2> HIDE DEF g
  <2>4. <<g>> \o Tail(R.todo) \in Seq(Frames)
        /\ ReaderOk(leaves, R.query, <<g>> \o Tail(R.todo), R.done)
    BY <1>1, <1>2, <1>3, <2>1, <2>3, ReplaceOk DEF f
  <2> QED
    BY <1>1, <1>6, <2>4, DescendStep DEF g
<1>7. CASE /\ start < f.size /\ end > f.size
           /\ Descend(r, << HashAt(f.level - 1, 2 * f.idx, f.size),
                            HashAt(f.level - 1, 2 * f.idx + 1, f.size),
                            Join(f.level, f.idx) >>)
  <2> DEFINE a == HashAt(f.level - 1, 2 * f.idx, f.size)
             b == HashAt(f.level - 1, 2 * f.idx + 1, f.size)
             c == Join(f.level, f.idx)
  <2>1. f.level >= 1
    <3>1. f.level # 0
      <4>1. ASSUME f.level = 0 PROVE FALSE
        <5>1. Pow2[f.level] = 1 /\ end = start + Pow2[f.level]
          BY <1>4, <4>1 DEF end
        <5> QED
          BY <1>3, <1>4, <1>7, <5>1
      <4> QED
        BY <4>1
    <3> QED
      BY <1>3, <3>1
  <2>2. /\ f.level - 1 \in 0 .. Depth /\ f.level \in 0 .. Depth
        /\ 2 * f.idx \in Nat /\ 2 * f.idx + 1 \in Nat
    BY <1>3, <2>1, DepthAssumption
  <2>3. /\ a \in Frames /\ b \in Frames /\ c \in Frames
        /\ IsHash(a) /\ IsHash(b) /\ ~IsHash(c) /\ c.level = f.level /\ c.fn = "compress"
        /\ Span(leaves, a) = f.size /\ Span(leaves, b) = f.size
        /\ a.level = f.level - 1 /\ b.level = f.level - 1
        /\ a.idx = 2 * f.idx /\ b.idx = 2 * f.idx + 1
    BY <1>3, <2>2 DEF HashAt, Join, Frames, IsHash, Span
  <2>4. FrameOk(leaves, a) /\ FrameOk(leaves, b) /\ FrameOk(leaves, c)
    <3>1. a.size = f.size /\ b.size = f.size /\ c.size = 0
      BY DEF HashAt, Join
    <3>2. a.fn # "store" /\ b.fn # "store"
      BY DEF HashAt
    <3> HIDE DEF a, b, c
    <3> QED
      BY <1>2, <2>1, <2>3, <3>1, <3>2 DEF FrameOk
  <2> HIDE DEF a, b, c
  <2>5. Value(leaves, f) = Compress(c.level - 1, Value(leaves, a), Value(leaves, b))
    BY <1>2, <1>3, <2>1, <2>3, ValueChildren
  <2>6. <<a, b, c>> \o Tail(R.todo) \in Seq(Frames)
        /\ ReaderOk(leaves, R.query, <<a, b, c>> \o Tail(R.todo), R.done)
    <3>1. c.fn # "store"
      BY <2>3
    <3> QED
      BY <1>1, <1>2, <1>3, <2>3, <2>4, <2>5, <3>1, DescendOk DEF f
  <2> QED
    BY <1>1, <1>7, <2>6, DescendStep DEF a, b, c
<1> QED
  BY <1>5, <1>6, <1>7 DEF subtree_hash_at, f, start, end

LEMMA SubtreeHashIInv == \A r \in Readers : IInv /\ subtree_hash(r) => IInv'
<1> SUFFICES ASSUME NEW r \in Readers, IInv, subtree_hash(r) PROVE IInv'
  OBVIOUS
<1> DEFINE R == readers[r]
           f == Head(R.todo)
           n == Len(leaves)
           start == f.idx * Pow2[f.level]
           complete == start + Pow2[f.level] <= n
           cached == complete /\ <<f.level, f.idx>> \in DOMAIN node_cache
<1>1. R.todo # << >> /\ f.fn = "subtree_hash" /\ UNCHANGED <<leaves, size, node_cache>>
  BY DEF subtree_hash, Running
<1>2. /\ R.todo \in Seq(Frames) /\ ReaderOk(leaves, R.query, R.todo, R.done)
      /\ f \in Frames /\ n \in Nat
  BY <1>1, RunningOk
<1>3. /\ f.level \in Nat /\ f.level <= Depth /\ f.idx \in Nat
      /\ IsHash(f) /\ Span(leaves, f) = n
  <2> HIDE DEF f, n
  <2> QED
    BY <1>1, <1>2, FrameTyped DEF IsHash, Span, n
<1>4. /\ (f.idx + 1) * Pow2[f.level] = start + Pow2[f.level]
      /\ f.idx * Pow2[0] = f.idx
  BY <1>3, Bounds
<1> HIDE DEF f, start, complete, cached
<1>5. CASE start >= n /\ Return(r, Empty[f.level])
  <2>1. Value(leaves, f) = Empty[f.level]
    BY <1>2, <1>3, <1>5, ValueBeyond DEF start
  <2> QED
    BY <1>1, <1>3, <1>5, <2>1, ReturnStep DEF f
<1>6. CASE start < n /\ f.level = 0 /\ Return(r, leaves[start + 1])
  <2>1. start = f.idx
    BY <1>4, <1>6 DEF start
  <2>2. Value(leaves, f) = Prefix(leaves, n)[f.idx]
    <3>1. \A a : \A i \in Nat : Digest(a)[0][i] = a[i]
      BY DigestEquation
    <3> QED
      BY <1>3, <1>6, <3>1 DEF Value
  <2>3. Value(leaves, f) = leaves[start + 1]
    BY <1>3, <1>6, <2>1, <2>2 DEF Prefix
  <2> QED
    BY <1>1, <1>3, <1>6, <2>3, ReturnStep DEF f
<1>7. CASE f.level > 0 /\ cached /\ Return(r, node_cache[<<f.level, f.idx>>])
  <2>1. node_cache[<<f.level, f.idx>>] = Reference[f.level][f.idx]
    <3> DEFINE k == <<f.level, f.idx>>
    <3>1. k \in DOMAIN node_cache /\ k[1] = f.level /\ k[2] = f.idx
      BY <1>7 DEF cached
    <3> HIDE DEF k
    <3>2. node_cache[k] = Reference[k[1]][k[2]]
      BY <3>1 DEF IInv, CacheCoherent
    <3> QED
      BY <3>1, <3>2 DEF k
  <2>2. node_cache[<<f.level, f.idx>>] = Value(leaves, f)
    BY <1>3, <2>1 DEF Value, Reference
  <2> QED
    BY <1>1, <1>3, <1>7, <2>2, ReturnStep DEF f
<1>8. CASE /\ start < n /\ f.level > 0 /\ ~cached
           /\ Descend(r, << Hash(f.level - 1, 2 * f.idx),
                            Hash(f.level - 1, 2 * f.idx + 1),
                            IF complete THEN Store(f.level, f.idx)
                            ELSE Join(f.level, f.idx) >>)
  <2> DEFINE a == Hash(f.level - 1, 2 * f.idx)
             b == Hash(f.level - 1, 2 * f.idx + 1)
             c == IF complete THEN Store(f.level, f.idx) ELSE Join(f.level, f.idx)
  <2>1. /\ f.level >= 1 /\ f.level - 1 \in 0 .. Depth /\ f.level \in 0 .. Depth
        /\ 2 * f.idx \in Nat /\ 2 * f.idx + 1 \in Nat
    BY <1>3, <1>8, DepthAssumption, SMTT(20)
  <2>2. /\ a \in Frames /\ b \in Frames /\ IsHash(a) /\ IsHash(b)
        /\ Span(leaves, a) = n /\ Span(leaves, b) = n
        /\ a.level = f.level - 1 /\ b.level = f.level - 1
        /\ a.idx = 2 * f.idx /\ b.idx = 2 * f.idx + 1
        /\ FrameOk(leaves, a) /\ FrameOk(leaves, b)
    BY <1>2, <1>3, <2>1 DEF Hash, Frames, IsHash, Span, FrameOk
  <2>3. /\ c \in Frames /\ ~IsHash(c) /\ c.level = f.level /\ c.idx = f.idx /\ c.size = 0
        /\ c.fn = "store" => complete
    BY <1>3, <2>1 DEF Store, Join, Frames, IsHash
  <2> HIDE DEF a, b, c
  <2>4. FrameOk(leaves, c)
    <3>1. c.fn = "store" => (c.idx + 1) * Pow2[c.level] <= n
      BY <1>4, <2>3 DEF complete
    <3> QED
      BY <1>2, <2>1, <2>3, <3>1 DEF FrameOk
  <2>5. Value(leaves, f) = Compress(c.level - 1, Value(leaves, a), Value(leaves, b))
    BY <1>2, <1>3, <2>1, <2>2, <2>3, ValueChildren
  <2>6. Value(leaves, c) = Value(leaves, f)
    <3>1. Span(leaves, c) = n
      BY <2>3 DEF Span, IsHash
    <3> QED
      BY <1>3, <2>3, <3>1 DEF Value
  <2>7. <<a, b, c>> \o Tail(R.todo) \in Seq(Frames)
        /\ ReaderOk(leaves, R.query, <<a, b, c>> \o Tail(R.todo), R.done)
    BY <1>1, <1>2, <1>3, <2>2, <2>3, <2>4, <2>5, <2>6, DescendOk DEF f
  <2> QED
    BY <1>1, <1>8, <2>7, DescendStep DEF a, b, c
<1> QED
  BY <1>5, <1>6, <1>7, <1>8 DEF subtree_hash, f, start, complete, cached

LEMMA NextIInv == IInv /\ [Next]_vars => IInv'
<1> SUFFICES ASSUME IInv, [Next]_vars PROVE IInv'
  OBVIOUS
<1>1. CASE append
  BY <1>1, AppendIInv
<1>2. CASE \E r \in Readers : \E q \in Queries(size) : Ask(r, q)
  BY <1>2, AskIInv
<1>3. CASE \E r \in Readers : Step(r)
  BY <1>3, SubtreeHashAtIInv, SubtreeHashIInv, CompressIInv, StoreIInv, DeliverIInv DEF Step
<1>4. CASE UNCHANGED vars
  BY <1>4 DEF vars, IInv, CacheCoherent, Reference, ReaderInv
<1> QED
  BY <1>1, <1>2, <1>3, <1>4 DEF Next

LEMMA Invariant == Spec => []IInv
<1>1. Init => IInv
  BY InitIInv
<1>2. IInv /\ [Next]_vars => IInv'
  BY NextIInv
<1> QED
  BY <1>1, <1>2, PTL DEF Spec

-----------------------------------------------------------------------------
(* Theorems.                                                                *)

\* The wrapper counts the leaves of the inner tree, and every running query is
\* one for leaves that are there, whatever the readers and the arrivals.
THEOREM TypeCorrect == Spec => []TypeOK
<1>1. IInv => TypeOK
  <2> SUFFICES ASSUME IInv PROVE TypeOK
    OBVIOUS
  <2>1. ASSUME NEW r \in Readers
        PROVE  /\ readers[r].query = Idle \/ readers[r].query \in Queries(size)
               /\ \A j \in DOMAIN readers[r].todo : readers[r].todo[j] \in Frames
    <3>1. readers[r].todo \in Seq(Frames)
      BY DEF IInv
    <3>2. readers[r].query = Idle \/ readers[r].query \in Queries(size)
      BY DEF IInv, ReaderInv
    <3> QED
      BY <3>1, <3>2
  <2> QED
    BY <2>1 DEF IInv, TypeOK
<1> QED
  BY <1>1, Invariant, PTL

\* The cache holds the hashes of complete subtrees and nothing else, although
\* any number of readers look up, recompute and overwrite its nodes, and leaves
\* arrive between queries.
THEOREM CacheStaysCoherent == Spec => []CacheCoherent
<1>1. IInv => CacheCoherent
  BY DEF IInv
<1> QED
  BY <1>1, Invariant, PTL

\* As long as no more leaves arrive than the tree has room for, every root and
\* every path handed out is that of the leaves it was asked for.  (append itself
\* has no such bound.)
THEOREM AnswersWithinCapacity ==
    ASSUME Len(Arrivals) <= Capacity
    PROVE  Spec => []AnswersMatchPrefix
<1>1. IInv => AnswersMatchPrefix
  <2> SUFFICES ASSUME IInv, NEW r \in Readers, Answered(r)
               PROVE  IF readers[r].query.op = "merkle_path_at"
                      THEN merkle_root(readers[r].query.position % U32,
                                       leaves[readers[r].query.position + 1], Siblings(r))
                             = RootOf(leaves, readers[r].query.size)
                      ELSE readers[r].done = << RootOf(leaves, readers[r].query.size) >>
    BY DEF AnswersMatchPrefix
  <2> DEFINE q == readers[r].query
             done == readers[r].done
  <2>1. /\ q \in Queries(size) /\ ReaderOk(leaves, q, << >>, done)
        /\ size \in Nat /\ size <= Len(Arrivals) /\ size = Len(leaves)
        /\ Len(Arrivals) \in Nat
    BY TreeAssumption DEF IInv, ReaderInv, Answered
  <2> HIDE DEF q
  <2>2. done = Answer(leaves, q)
    <3>1. PICK S : Trace(leaves, << >>, S) /\ S[0] = done /\ S[Len(<< >>)] = Answer(leaves, q)
      BY <2>1 DEF ReaderOk
    <3>2. Len(<< >>) = 0
      OBVIOUS
    <3> QED
      BY <3>1, <3>2
  <2>3. /\ q \in Query /\ q.size \in 1 .. size
        /\ q.op \in {"latest_root", "root_at", "merkle_path_at"}
        /\ q.op = "merkle_path_at" => q.position < q.size
        /\ q.op = "latest_root" => q.size = size
    BY <2>1, QueriesTyped
  <2> HIDE DEF done
  <2>4. CASE q.op = "latest_root"
    <3> DEFINE f == Hash(Depth, 0)
    <3>1. Calls(q) = << f >>
      BY <2>4 DEF Calls
    <3>2. Value(leaves, f) = RootOf(leaves, q.size)
      BY <2>1, <2>3, <2>4 DEF Hash, Value, Span, RootOf
    <3> HIDE DEF f
    <3>3. Answer(leaves, q) = << Value(leaves, f) >>
      BY <3>1 DEF Answer
    <3> QED
      BY <2>2, <2>4, <3>2, <3>3 DEF q, done
  <2>5. CASE q.op = "root_at"
    <3> DEFINE f == HashAt(Depth, 0, q.size)
    <3>1. Calls(q) = << f >>
      BY <2>5 DEF Calls
    <3>2. Value(leaves, f) = RootOf(leaves, q.size)
      BY DEF HashAt, Value, Span, RootOf
    <3> HIDE DEF f
    <3>3. Answer(leaves, q) = << Value(leaves, f) >>
      BY <3>1 DEF Answer
    <3> QED
      BY <2>2, <2>5, <3>2, <3>3 DEF q, done
  <2>6. CASE q.op = "merkle_path_at"
    <3> DEFINE n == q.size
               p == q.position
               a == Prefix(leaves, n)
    <3>1. /\ n \in Nat /\ p \in Nat /\ p < n /\ p < Capacity /\ p % U32 = p
          /\ Capacity \in Nat
      <4>1. /\ n \in Nat /\ p \in Nat /\ p < n /\ n <= Len(Arrivals)
        BY <2>1, <2>3, <2>6 DEF Query
      <4>2. Capacity \in Nat /\ U32 \in Nat /\ U32 >= Capacity
        BY TreeAssumption, Pow2Positive, DepthAssumption DEF Capacity
      <4> HIDE DEF n, p
      <4>3. p < Capacity /\ p < U32
        BY <2>1, <4>1, <4>2
      <4>4. p % U32 = p
        BY <4>1, <4>2, <4>3
      <4> QED
        BY <4>1, <4>2, <4>3, <4>4
    <3>2. Calls(q) = [l \in 1 .. Depth |-> HashAt(l - 1, Sibling(p \div Pow2[l - 1]), n)]
      BY <2>6, <3>1 DEF Calls, witness_at_size
    <3>3. Len(Calls(q)) = Depth
      BY <3>2, DepthAssumption
    <3>4. ASSUME NEW l \in Levels
          PROVE  Siblings(r)[l] = Digest(a)[l][Sibling(p \div Pow2[l])]
      <4>1. l + 1 \in 1 .. Depth /\ (l + 1) - 1 = l
        BY DepthAssumption DEF Levels
      <4>2. Siblings(r)[l] = done[l + 1]
        BY DEF Siblings, done
      <4>3. done[l + 1] = Value(leaves, Calls(q)[l + 1])
        BY <2>2, <3>3, <4>1 DEF Answer
      <4>4. Calls(q)[l + 1] = HashAt(l, Sibling(p \div Pow2[l]), n)
        BY <3>2, <4>1
      <4> QED
        BY <4>2, <4>3, <4>4 DEF HashAt, Value, Span
    <3>5. a[p] = leaves[p + 1]
      BY <3>1 DEF Prefix
    <3> HIDE DEF a, p, n
    <3>6. merkle_root(p, a[p], Siblings(r)) = Digest(a)[Depth][0]
      BY <3>1, <3>4, PathOpens
    <3>7. merkle_root(p % U32, leaves[p + 1], Siblings(r)) = RootOf(leaves, n)
      BY <3>1, <3>5, <3>6 DEF RootOf, a
    <3> QED
      BY <2>6, <3>7 DEF q, p, n
  <2> QED
    BY <2>3, <2>4, <2>5, <2>6
<1> QED
  BY <1>1, Invariant, PTL
=============================================================================
