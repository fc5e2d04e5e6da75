------------------------------- MODULE Grain --------------------------------
(***************************************************************************)
(* The Grain LFSR of commitment_tree/poseidon_primitives/grain.rs, which   *)
(* draws the round constants and the matrix of Poseidon.  The register     *)
(* makes eight bits at a time and hands them out one by one; pairs of them *)
(* are shrunk to one output bit, and NumBits outputs make a field element. *)
(* Bits are 0 and 1; the register has the 80 bits of the source.           *)
(***************************************************************************)
EXTENDS Integers, FiniteSets, SequencesExt, Field

CONSTANTS NumBits,    \* F::NUM_BITS
          Seeds,      \* the <<t, r_f, r_p>> the generator is made for
          Constants,  \* how many elements are drawn with rejection
          Elements    \* how many are drawn in all

ASSUME GrainAssumption ==
    /\ NumBits \in Nat \ {0}
    /\ Modulus \in Nat \ {0} /\ Modulus <= 2 ^ NumBits
    /\ Elements \in Nat /\ Constants \in 0 .. Elements

StateBits == 80
Indices == 0 .. StateBits - 1
Taps == {0, 13, 23, 38, 51, 62}

VARIABLES seed,      \* history: the register at first
          produced,  \* history: the bits made since, in order
          grain_state,  \* Grain::state
          next_bit,  \* Grain::next_bit
          discards,  \* turns of the loop of new that are left
          await,     \* what next() does with the bit it gets
          bits,      \* the bits so far of the element being drawn
          elements   \* the elements drawn

grain_vars == <<seed, produced, grain_state, next_bit, discards, await, bits, elements>>

\* Bit number k of a value, and the bits of new in the order of set_bits.
BitOf(value, k) == IF (value \div 2 ^ k) % 2 # 0 THEN 1 ELSE 0
Fields(p) == << <<0, 2, 1>>, <<2, 4, 0>>, <<6, 12, NumBits>>, <<18, 12, p[1]>>,
                <<30, 10, p[2]>>, <<40, 10, p[3]>> >>

SeedOf(p) ==
    [i \in Indices |->
       LET hit == {f \in ToSet(Fields(p)) : f[1] <= i /\ i < f[1] + f[2]}
       IN  IF hit = {} THEN 1
           ELSE LET f == CHOOSE g \in hit : TRUE
                IN  BitOf(f[3], f[1] + f[2] - 1 - i)]

\* Bit i of the eight that load_next_8_bits makes.
NewBit(reg, i) == Cardinality({t \in Taps : reg[i + t] = 1}) % 2

NewBits(reg) == [i \in 1 .. 8 |-> NewBit(reg, i - 1)]

\* Variant: the register is not rotated first.
Unrotated(reg, at) ==
    [i \in Indices |-> IF i \in at .. at + 7 THEN NewBit(reg, i - at) ELSE reg[i]]

\* The register rotated by eight, with the new bits from an index on.
Loaded(reg, at) ==
    [i \in Indices |-> IF i \in at .. at + 7 THEN NewBit(reg, i - at)
                       ELSE reg[(i + 8) % StateBits]]

load_next_8_bits ==
    /\ grain_state' = Loaded(grain_state, next_bit - 8)
    /\ produced' = produced \o NewBits(grain_state)

-----------------------------------------------------------------------------
GrainInit ==
    /\ \E p \in Seeds : seed = SeedOf(p)
    /\ produced = << >>
    /\ grain_state = seed
    /\ next_bit = StateBits
    /\ discards = 20
    /\ await = "first"
    /\ bits = << >>
    /\ elements = << >>

\* Variant: the index is not put back to the end of the register.
DiscardWithoutReset ==
    /\ discards > 0
    /\ load_next_8_bits
    /\ next_bit' = next_bit - 8
    /\ discards' = discards - 1
    /\ UNCHANGED <<seed, await, bits, elements>>

\* One turn of the loop of new: eight of the first 160 bits are dropped.
Discard ==
    /\ discards > 0
    /\ load_next_8_bits
    /\ next_bit' = StateBits
    /\ discards' = discards - 1
    /\ UNCHANGED <<seed, await, bits, elements>>

Drawing == discards = 0 /\ Len(elements) < Elements /\ Len(bits) < NumBits

\* Variant: the second bit of a pair that starts with 0 is not skipped.
UseWithoutSkip(bit) ==
    \/ /\ await = "first" /\ bit = 1
       /\ await' = "take" /\ UNCHANGED bits
    \/ /\ await = "first" /\ bit = 0
       /\ UNCHANGED <<await, bits>>
    \/ /\ await = "take"
       /\ await' = "first" /\ bits' = Append(bits, bit)

\* next(): after a 1 the second bit of the pair is the output, after a 0 it is
\* not.
Use(bit) ==
    \/ /\ await = "first" /\ bit = 1
       /\ await' = "take" /\ UNCHANGED bits
    \/ /\ await = "first" /\ bit = 0
       /\ await' = "skip" /\ UNCHANGED bits
    \/ /\ await = "skip"
       /\ await' = "first" /\ UNCHANGED bits
    \/ /\ await = "take"
       /\ await' = "first" /\ bits' = Append(bits, bit)

\* get_next_bit: the register is refilled when its last bit has been read.
get_next_bit ==
    /\ Drawing
    /\ IF next_bit = StateBits
       THEN load_next_8_bits /\ next_bit' = next_bit - 8 + 1
       ELSE next_bit' = next_bit + 1 /\ UNCHANGED <<grain_state, produced>>
    /\ Use(grain_state'[next_bit' - 1])
    /\ UNCHANGED <<seed, discards, elements>>

\* The first bit drawn is the most significant one.
ValueOf(b) ==
    LET V[i \in 0 .. Len(b)] == IF i = 0 THEN 0 ELSE 2 * V[i - 1] + b[i]
    IN  V[Len(b)]

\* Variant: a round constant that is no field element is reduced.
next_field_element_reduced ==
    /\ Len(bits) = NumBits
    /\ Len(elements) < Constants
    /\ elements' = Append(elements, ValueOf(bits) % Modulus)
    /\ bits' = << >>
    /\ UNCHANGED <<seed, produced, grain_state, next_bit, discards, await>>

\* A round constant: a value that is no field element is drawn again.
next_field_element ==
    /\ Len(bits) = NumBits
    /\ Len(elements) < Constants
    /\ elements' = (IF ValueOf(bits) < Modulus THEN Append(elements, ValueOf(bits))
                    ELSE elements)
    /\ bits' = << >>
    /\ UNCHANGED <<seed, produced, grain_state, next_bit, discards, await>>

\* A value for the matrix is reduced instead.
next_field_element_without_rejection ==
    /\ Len(bits) = NumBits
    /\ Len(elements) >= Constants
    /\ elements' = Append(elements, ValueOf(bits) % Modulus)
    /\ bits' = << >>
    /\ UNCHANGED <<seed, produced, grain_state, next_bit, discards, await>>

GrainNext ==
    \/ Discard
    \/ get_next_bit
    \/ next_field_element
    \/ next_field_element_without_rejection

GrainSpec == GrainInit /\ [][GrainNext]_grain_vars

-----------------------------------------------------------------------------
(* Reference: Grain as a stream of single bits.                            *)

Stream == [i \in 1 .. StateBits |-> seed[i - 1]] \o produced

\* The stream bits that were handed out, and those that the pairs of them leave.
Consumed == SubSeq(produced, 161, Len(produced) - (StateBits - next_bit))

ShrunkOf(c) ==
    LET S[k \in 0 .. Len(c) \div 2] ==
          IF k = 0 THEN << >>
          ELSE IF c[2 * k - 1] = 1 THEN Append(S[k - 1], c[2 * k]) ELSE S[k - 1]
    IN  S[Len(c) \div 2]

Shrunk == ShrunkOf(Consumed)

\* The elements that the first n groups of NumBits bits of a shrunk stream give.
ElementsOf(shrunk, n) ==
    LET E[k \in 0 .. n] ==
          IF k = 0 THEN << >>
          ELSE LET v == ValueOf(SubSeq(shrunk, (k - 1) * NumBits + 1, k * NumBits))
               IN  IF v >= Modulus /\ Len(E[k - 1]) < Constants THEN E[k - 1]
                   ELSE Append(E[k - 1], v % Modulus)
    IN  E[n]

-----------------------------------------------------------------------------
(* Properties.                                                             *)

GrainTypeOK ==
    /\ grain_state \in [Indices -> {0, 1}]
    /\ next_bit \in 72 .. StateBits
    /\ discards \in 0 .. 20
    /\ await \in {"first", "skip", "take"}
    /\ Len(bits) <= NumBits
    /\ elements \in Seq(0 .. Modulus - 1) /\ Len(elements) <= Elements

\* Making eight bits at once, out of a register that is rotated under the
\* reader's index, gives the stream of the recurrence one bit at a time, and the
\* register is the window of its last 80 bits.
RegisterIsStream ==
    LET n == Len(produced)
    IN  /\ \A k \in n - 7 .. n :
              k >= 1 => Stream[StateBits + k] =
                          Cardinality({t \in Taps : Stream[k + t] = 1}) % 2
        /\ \A i \in Indices : grain_state[i] = Stream[n + i + 1]

\* The elements are those of the shrunk stream after the first 160 bits: no bit
\* is lost or used twice when the register is refilled in the middle of a pair
\* or of an element, and only the round constants are rejected.
ElementsOfStream ==
    discards = 0 =>
        LET n == Len(Shrunk) - Len(bits)
        IN  /\ n % NumBits = 0
            /\ bits = SubSeq(Shrunk, n + 1, Len(Shrunk))
            /\ elements = ElementsOf(Shrunk, n \div NumBits)
=============================================================================
