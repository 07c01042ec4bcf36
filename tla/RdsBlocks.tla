------------------------------- MODULE RdsBlocks -------------------------------
(***************************************************************************)
(* A group as its four blocks of 26 bits (rds_blocks.py): how words get    *)
(* their check bits, and what the search says of a place where a group was *)
(* sent after noise flipped some of its bits: whether it starts there,     *)
(* clean or with one block corrected, and with which words.                *)
(*                                                                         *)
(* A word, a block and a register are the sets of their bits that are 1,   *)
(* bit 0 the least significant; exclusive or is the symmetric difference.  *)
(***************************************************************************)
EXTENDS Integers, Sequences, FiniteSets, SequencesExt

CONSTANT MaxFlips            \* bound: bits that noise flips in a group

\* Three may look like one.
ASSUME FlipsAssumption == MaxFlips \in 0..2

VARIABLES
    sent,        \* the four words of the group
    flipped      \* <<block, bit>>, as noise left them

blockVars == <<sent, flipped>>

CrcBits == 10
DataBits == 16
BlockBits == DataBits + CrcBits
Blocks == 1..4

Xor(x, y) == (x \ y) \cup (y \ x)
Shifted(bits, by) == {bit + by : bit \in bits}

CrcPoly == {10, 8, 7, 5, 4, 3, 0}                    \* with the top bit
Offset == [A |-> {2, 3, 4, 5, 6, 7}, B |-> {3, 4, 7, 8}, C |-> {3, 5, 6, 8},
           D |-> {2, 4, 5, 7, 8}, Cprime |-> {4, 6, 8, 9}]

\* What the register holds when a single bit has made this many turns.
Turned ==
    LET after[turns \in 0..BlockBits - 1] ==
            IF turns = 0 THEN {0}
            ELSE LET next == Shifted(after[turns - 1], 1)
                 IN  IF CrcBits \in next THEN Xor(next, CrcPoly) ELSE next
    IN  after

\* A word is fed from its most significant bit on, then as many zeros as check bits: each
\* of its bits makes so many turns, and the register is linear.
BitCrc == [bit \in 0..DataBits - 1 |-> Turned[bit + CrcBits]]

Crc10(word) ==
    {check \in 0..CrcBits - 1 : Cardinality({bit \in word : check \in BitCrc[bit]}) % 2 = 1}

Dataword(block) == {bit - CrcBits : bit \in {b \in block : b >= CrcBits}}
Checkword(block) == {bit \in block : bit < CrcBits}

EncodeBlock(word, offset) == Shifted(word, CrcBits) \cup Xor(Crc10(word), offset)

\* _SINGLE_BIT_SYNDROME_TABLE: the syndrome that a flip of each bit leaves
FlipSyndrome == [bit \in 0..BlockBits - 1 |-> Xor(Checkword({bit}), Crc10(Dataword({bit})))]

Syndrome(block, offset) == Xor(Xor(Checkword(block), offset), Crc10(Dataword(block)))

\* The bit that was flipped, if a single one explains the block.
ErrorPosition(block, offset) ==
    LET syndrome == Syndrome(block, offset)
    IN  {bit \in DOMAIN FlipSyndrome : FlipSyndrome[bit] = syndrome}

\* Mutant: the correction counts from the other end of the word.
CorrectedFromTheTop(block, offset) ==
    Xor(Dataword(block),
        {DataBits - 1 - bit : bit \in Dataword(ErrorPosition(block, offset))})

\* _DATA_BIT_CORRECTION_MASKS: a flip among the check bits leaves the word alone.
Corrected(block, offset) == Xor(Dataword(block), Dataword(ErrorPosition(block, offset)))

-----------------------------------------------------------------------------

VersionOf(word) == IF 11 \in word THEN "B" ELSE "A"

\* block C of a version
OffsetC(version) == IF version = "B" THEN Offset.Cprime ELSE Offset.C

\* encode_group
Encoded(words, version) ==
    LET offsets == <<Offset.A, Offset.B, OffsetC(version), Offset.D>>
    IN  [i \in Blocks |-> EncodeBlock(words[i], offsets[i])]

Received ==
    LET encoded == Encoded(sent, VersionOf(sent[2]))
    IN  [i \in Blocks |-> Xor(encoded[i], {flip[2] : flip \in {f \in flipped : f[1] = i}})]

\* Mutant: the version is read from block B as it came.
OffsetsAsReceived(blocks) ==
    <<Offset.A, Offset.B, OffsetC(VersionOf(Dataword(blocks[2]))), Offset.D>>

\* The version that selects the offset of block C is that of the corrected block B.
Offsets(blocks) ==
    <<Offset.A, Offset.B, OffsetC(VersionOf(Corrected(blocks[2], Offset.B))), Offset.D>>

Clean(blocks) == LET offsets == Offsets(blocks) IN
    {i \in Blocks : Syndrome(blocks[i], offsets[i]) = {}}
ToCorrect(blocks) == LET offsets == Offsets(blocks) IN
    {i \in Blocks : ErrorPosition(blocks[i], offsets[i]) # {}}

\* Mutant: two blocks may be corrected.
StartsWithTwo(blocks) ==
    Clean(blocks) \cup ToCorrect(blocks) = Blocks /\ Cardinality(ToCorrect(blocks)) <= 2

\* group_starts: every block valid, or a single one corrected
Starts(blocks) ==
    Clean(blocks) \cup ToCorrect(blocks) = Blocks /\ Cardinality(ToCorrect(blocks)) <= 1

\* _materialize_group
Words(blocks) == LET offsets == Offsets(blocks) IN
    [i \in Blocks |-> Corrected(blocks[i], offsets[i])]

-----------------------------------------------------------------------------

\* The channel: one more bit is flipped.
Noise ==
    /\ Cardinality(flipped) < MaxFlips
    /\ \E i \in Blocks, bit \in 0..BlockBits - 1 :
           /\ <<i, bit>> \notin flipped
           /\ flipped' = flipped \cup {<<i, bit>>}
    /\ UNCHANGED sent

=============================================================================
