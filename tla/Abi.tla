-------------------------------- MODULE Abi --------------------------------
(***************************************************************************)
(* The contract ABI as privacy-core uses it through ethabi::encode and     *)
(* ethabi::decode.  ethabi is a dependency; it is modelled from the types  *)
(* and tokens the code gives it and from the ABI layout the code's tests   *)
(* spell out (offsets in the head, data in the tail).                      *)
(*                                                                         *)
(* The unit is the 32-byte word.  A word is a record: [n |-> k] is the     *)
(* number k, any other word (a key, a hash, an address) is opaque and too  *)
(* large for an offset or a length.  A bytes value is the sequence of its  *)
(* words, its length a number of words.                                    *)
(***************************************************************************)
EXTENDS Integers, SequencesExt

CONSTANT U32   \* 2^32; ethabi reads an offset or a length only below it

ASSUME AbiAssumption == U32 \in Nat

Num(k) == [n |-> k]

IsBelow(w, limit) == "n" \in DOMAIN w /\ w.n < limit

\* An address is a word of its own; of any other word the low 20 bytes are kept.
AddressOf(w) == IF "address" \in DOMAIN w THEN w ELSE [address |-> w]

\* Where in the head each of a sequence of types ends; the words of a type in
\* the head are its width.
HeadEnd(ts) ==
    LET End[i \in 0 .. Len(ts)] == IF i = 0 THEN 0 ELSE End[i - 1] + ts[i].width
    IN  End

\* Types.  FixedBytes(32) and every Uint are one word; their width is not checked.
Type(kind, of, dynamic, width) ==
    [kind |-> kind, of |-> of, dynamic |-> dynamic, width |-> width]

Word == Type("word", << >>, FALSE, 1)
Address == Type("address", << >>, FALSE, 1)
Bytes == Type("bytes", << >>, TRUE, 1)
FixedArray(k) == Type("fixed", << >>, FALSE, k)   \* of k words
ArrayOf(t) == Type("array", <<t>>, TRUE, 1)
\* Every tuple the code encodes has a field of bytes, no field is a tuple or an
\* array, and no element of an array is an array.
StructOf(ts) == Type("struct", ts, TRUE, 1)

\* The same sequence, listed: TLC then computes each element once.
Listed(s) == SubSeq(s, 1, Len(s))

\* A static type is in the head, a dynamic one in the tail, at the offset that
\* is in the head.
Layout(ts, bodies) ==
    LET tail == Listed([i \in DOMAIN ts |-> IF ts[i].dynamic THEN bodies[i] ELSE << >>])
        Start(i) == HeadEnd(ts)[Len(ts)] + Len(FlattenSeq(SubSeq(tail, 1, i - 1)))
        head == Listed([i \in DOMAIN ts |->
                          IF ts[i].dynamic THEN <<Num(Start(i))>> ELSE bodies[i]])
    IN  FlattenSeq(head) \o FlattenSeq(tail)

EncodeField(t, v) ==
    CASE t.kind = "bytes" -> <<Num(Len(v))>> \o v
      [] t.kind = "fixed" -> v
      [] OTHER -> <<v>>

EncodeElement(t, v) ==
    IF t.kind = "struct"
    THEN Layout(t.of, Listed([i \in DOMAIN t.of |-> EncodeField(t.of[i], v[i])]))
    ELSE EncodeField(t, v)

EncodeValue(t, v) ==
    IF t.kind = "array"
    THEN <<Num(Len(v))>> \o Layout([i \in DOMAIN v |-> t.of[1]],
                                   Listed([i \in DOMAIN v |-> EncodeElement(t.of[1], v[i])]))
    ELSE EncodeElement(t, v)

Encode(ts, vs) == Layout(ts, Listed([i \in DOMAIN ts |-> EncodeValue(ts[i], vs[i])]))

-----------------------------------------------------------------------------
(* Decoding.  A type is read at an offset; words behind the last one that  *)
(* is needed are not looked at.                                            *)

Unreadable == [ok |-> FALSE, value |-> << >>]
Readable(v) == [ok |-> TRUE, value |-> v]

From(data, at) == SubSeq(data, at + 1, Len(data))

\* The tail at the offset that is at this place of the head.
Indirect(data, at) ==
    IF at < Len(data) /\ IsBelow(data[at + 1], U32) THEN From(data, data[at + 1].n) ELSE << >>

Collected(reads) ==
    [ok    |-> \A i \in DOMAIN reads : reads[i].ok,
     value |-> Listed([i \in DOMAIN reads |-> reads[i].value])]

HasCount(rest) == rest # << >> /\ IsBelow(rest[1], U32)

ReadBytes(rest) ==
    IF HasCount(rest) /\ rest[1].n < Len(rest) THEN Readable(SubSeq(rest, 2, rest[1].n + 1))
    ELSE Unreadable

ReadField(t, data, at) ==
    CASE t.kind = "bytes" -> ReadBytes(Indirect(data, at))
      [] t.kind = "fixed" -> IF at + t.width > Len(data) THEN Unreadable
                             ELSE Readable(SubSeq(data, at + 1, at + t.width))
      [] OTHER -> IF at >= Len(data) THEN Unreadable
                  ELSE Readable(IF t.kind = "address" THEN AddressOf(data[at + 1])
                                                      ELSE data[at + 1])

ReadStruct(ts, rest) ==
    LET end == HeadEnd(ts)
    IN  Collected(Listed([i \in DOMAIN ts |-> ReadField(ts[i], rest, end[i - 1])]))

ReadElement(t, data, at) ==
    IF t.kind = "struct" THEN ReadStruct(t.of, Indirect(data, at)) ELSE ReadField(t, data, at)

ReadArray(t, rest) ==
    LET ts == [i \in 1 .. rest[1].n |-> t]
        end == HeadEnd(ts)
    IN  IF ~HasCount(rest) THEN Unreadable
        ELSE Collected(Listed([i \in DOMAIN ts |-> ReadElement(t, From(rest, 1), end[i - 1])]))

ReadValue(t, data, at) ==
    IF t.kind = "array" THEN ReadArray(t.of[1], Indirect(data, at)) ELSE ReadElement(t, data, at)

Decode(ts, data) ==
    LET end == HeadEnd(ts)
    IN  Collected(Listed([i \in DOMAIN ts |-> ReadValue(ts[i], data, end[i - 1])]))
=============================================================================
