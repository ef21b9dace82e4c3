-------------------------------- MODULE Bytes --------------------------------
(***************************************************************************)
(* What the modules about the contents of memory share: bytes, texts that  *)
(* end where C's strings end, and the pointer that points to nothing.      *)
(***************************************************************************)
EXTENDS Integers, Sequences

CONSTANT NULL       \* the null pointer

Byte == 0..255

\* unsigned short
ShortSize == 65536

\* The first n and all but the first n elements of s.
Front(s, n) == SubSeq(s, 1, n)

Rest(s, n) == SubSeq(s, n + 1, Len(s))

Lesser(m, n) == IF m < n THEN m ELSE n

=============================================================================
