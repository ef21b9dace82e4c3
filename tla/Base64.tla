------------------------------- MODULE Base64 -------------------------------
(***************************************************************************)
(* base64_encode and base64_decode (base64.c), checked over given data.    *)
(* The accept key of a WebSocket handshake is made with the former.        *)
(***************************************************************************)
EXTENDS Bytes
LOCAL INSTANCE FiniteSets
Seqs == INSTANCE SequencesExt

CONSTANT Base64Samples      \* data to encode

VARIABLE plain              \* the data that is encoded, NULL before that

LineFeed == 10

Pad == 61

Groups(n) == (n + 2) \div 3

\* base64_table
Letter(v) ==
    CASE v < 26 -> 65 + v
      [] v \in 26..51 -> 71 + v
      [] v \in 52..61 -> v - 4
      [] v = 62 -> 43
      [] OTHER -> 47

\* dtable, for the bytes that are in it
ValueOf(c) == IF c = Pad THEN 0 ELSE CHOOSE v \in 0..63 : Letter(v) = c

InAlphabet(c) == c = Pad \/ \E v \in 0..63 : Letter(v) = c

ByteAt(data, i) == IF i <= Len(data) THEN data[i] ELSE 0

\* Group g of the data as a number of 24 bits.
Word(data, g) ==
    65536 * ByteAt(data, 3 * g - 2) + 256 * ByteAt(data, 3 * g - 1) + ByteAt(data, 3 * g)

Sextet(word, i) == (word \div <<262144, 4096, 64, 1>>[i]) % 64

\* The four letters of group g; the last group may lack one byte or two.
Letters(data, g) ==
    LET missing == IF 3 * g > Len(data) THEN 3 * g - Len(data) ELSE 0
    IN  [i \in 1..4 |-> IF i > 4 - missing THEN Pad ELSE Letter(Sextet(Word(data, g), i))]

\* A line has 72 letters, 18 groups; the last one ends with a line feed, too.
EndsLine(data, g) == g % 18 = 0 \/ g = Groups(Len(data))

Text(data, lineFeed) ==
    Seqs!FlattenSeq([g \in 1..Groups(Len(data)) |->
        Letters(data, g) \o (IF lineFeed /\ EndsLine(data, g) THEN <<LineFeed>> ELSE <<>>)])

\* Mutation of RoomNeeded: the line feeds are not counted.
RoomForLetters(n) == (4 * n) \div 3 + 5

\* olen, of which size_t never overflows for data in memory
RoomNeeded(n) == LET letters == (4 * n) \div 3 + 4 IN letters + letters \div 72 + 1

\* The text that is written, without its zero; <<>> for an error.
Base64Encode(data, room, lineFeed) ==
    IF RoomNeeded(Len(data)) > room THEN <<>> ELSE Text(data, lineFeed)

\* Mutation of Kept: two letters of the last group are always data.
KeptTwo(block) == IF Pad \in {block[i] : i \in 1..4} THEN 2 ELSE 3

\* How many of its three bytes a group of letters has.
Kept(block) == 3 - Cardinality({i \in 1..4 : block[i] = Pad})

Block(letters, g) == SubSeq(letters, 4 * g - 3, 4 * g)

Decoded(block) ==
    LET word == 262144 * ValueOf(block[1]) + 4096 * ValueOf(block[2])
                + 64 * ValueOf(block[3]) + ValueOf(block[4])
    IN  Front(<<word \div 65536, (word \div 256) % 256, word % 256>>, Kept(block))

\* What is not in the table is left out; the first group with padding is the last.
Base64Decode(t, room) ==
    LET letters == SelectSeq(t, InAlphabet)
        count   == Len(letters) \div 4
        padded  == {g \in 1..count : Kept(Block(letters, g)) < 3}
        last    == IF padded = {} THEN count ELSE CHOOSE g \in padded : \A h \in padded : g <= h
    IN  IF letters = <<>> \/ Len(letters) % 4 # 0 \/ 3 * count > room \/ Kept(Block(letters, last)) < 1
        THEN <<>>
        ELSE Seqs!FlattenSeq([g \in 1..last |-> Decoded(Block(letters, g))])

Base64Init == plain = NULL

Base64Next == plain = NULL /\ plain' \in Base64Samples

-----------------------------------------------------------------------------
(* Properties.                                                             *)

\* What was encoded, in lines or without them, is decoded as it was.
Base64RoundTrip ==
    plain # NULL =>
        \A lineFeed \in BOOLEAN :
            Base64Decode(Base64Encode(plain, RoomNeeded(Len(plain)), lineFeed),
                         3 * Groups(Len(plain))) = plain

\* The memory that base64_encode asks for holds its text and the zero behind it,
\* however the length falls on groups and lines.
EncodedFits ==
    plain # NULL =>
        \A lineFeed \in BOOLEAN : Len(Text(plain, lineFeed)) + 1 <= RoomNeeded(Len(plain))

\* base64_decode inverts base64_encode, which stays in the memory it asked for.
Base64Inverts == Base64RoundTrip /\ EncodedFits

=============================================================================
