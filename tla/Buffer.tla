------------------------------- MODULE Buffer -------------------------------
(***************************************************************************)
(* struct buffer (buffer.c, buffer.h): bytes in memory that is allocated,  *)
(* with a pointer to the first byte that was not cut off.  A buffer is     *)
(*   memory   the allocated cells, numbered from 0                         *)
(*   data     self->data - self->alloc                                     *)
(*   length   bytes stored from there on                                   *)
(*   size     what the code believes to be allocated                       *)
(* A buffer without memory (alloc = NULL) has no cells and size 0.  A cell *)
(* that was never written, and one outside the memory, holds Junk.         *)
(***************************************************************************)
EXTENDS Integers, Sequences

CONSTANTS
    Values,         \* what is written into a buffer
    Junk,           \* what memory holds before it is written
    MaxLength,      \* bound on the memory a call may ask for
    MaxChunk,       \* bound on the bytes of one call
    InitialSizes    \* arguments of buffer_init

ASSUME JunkAssumption == Junk \notin Values

ASSUME SizesAssumption ==
    MaxLength \in Nat /\ MaxChunk \in Nat /\ InitialSizes \subseteq Nat

Cells == Values \cup {Junk}

BufferType ==
    UNION {[memory : [0 .. n - 1 -> Cells], data : Nat, length : Nat, size : {n}] : n \in Nat}

Cell(b, k) == IF k \in DOMAIN b.memory THEN b.memory[k] ELSE Junk

\* The bytes a reader of the buffer sees.
ContentOf(b) == [i \in 1..b.length |-> Cell(b, b.data + i - 1)]

-----------------------------------------------------------------------------
(* The functions of buffer.c.                                              *)

Allocated(n) == [memory |-> [k \in 0 .. n - 1 |-> Junk], data |-> 0, length |-> 0, size |-> n]

\* Mutation of Rewound: the pointer is reset and the bytes are not moved.
RewoundWithoutMove(b) == [b EXCEPT !.data = 0]

\* memmove of the bytes stored to the beginning of the memory
Rewound(b) ==
    IF b.data = 0 THEN b
    ELSE [b EXCEPT !.memory = [k \in DOMAIN b.memory |->
                                  IF k < b.length THEN Cell(b, b.data + k) ELSE b.memory[k]],
                   !.data = 0]

\* xrealloc: the cells that were there keep what they hold.
Grown(b, n) ==
    [b EXCEPT !.memory = [k \in 0 .. n - 1 |-> Cell(b, k)], !.data = 0, !.size = n]

\* Mutation of Resized: the bytes stored stay where they are.
ResizedInPlace(b, n) ==
    IF b.size < b.length + n
    THEN [Grown(b, b.length + n) EXCEPT !.data = b.data]
    ELSE b

Resized(b, n) ==
    LET r == Rewound(b)
    IN  IF r.size < r.length + n THEN Grown(r, r.length + n) ELSE r

\* memcpy to self->data + offset
Stored(b, offset, bytes) ==
    [b EXCEPT !.memory = [k \in DOMAIN b.memory |->
                             IF k - b.data - offset \in 0 .. Len(bytes) - 1
                             THEN bytes[k - b.data - offset + 1]
                             ELSE b.memory[k]]]

Appended(b, bytes) ==
    LET r == Resized(b, Len(bytes))
    IN  [Stored(r, r.length, bytes) EXCEPT !.length = r.length + Len(bytes)]

\* buffer_copy of a buffer with this content
Copied(b, bytes) ==
    [Stored(Resized(b, Len(bytes)), 0, bytes) EXCEPT !.length = Len(bytes)]

Shortened(b, n) == [b EXCEPT !.data = @ + n, !.length = @ - n]

Emptied(b) == [b EXCEPT !.data = 0, !.length = 0]

\* buffer_clean
Freed == Allocated(0)

ChunkLength(b, n) == IF b.length < n THEN b.length ELSE n

-----------------------------------------------------------------------------
VARIABLES
    buf,        \* struct buffer
    passed      \* the bytes the last call passed in or out

bufferVars == <<buf, passed>>

Chunks == UNION {[1..n -> Values] : n \in 0..MaxChunk}

\* buffer_init, of a buffer that has no memory
InitBuffer ==
    /\ buf = Freed
    /\ \E n \in InitialSizes : buf' = Allocated(n)
    /\ UNCHANGED passed

AppendBytes ==
    /\ passed' \in Chunks
    /\ buf.length + Len(passed') <= MaxLength
    /\ buf' = Appended(buf, passed')

TakeBytes ==
    \E n \in 0..MaxChunk :
        LET chunk == ChunkLength(buf, n)
        IN  /\ passed' = SubSeq(ContentOf(buf), 1, chunk)
            /\ buf' = IF chunk > 0 THEN Shortened(buf, chunk) ELSE buf

\* The callers cut what they have read: never more than there is.
CutBytes ==
    /\ \E n \in 0..buf.length : buf' = Shortened(buf, n)
    /\ UNCHANGED passed

CopyBuffer ==
    /\ passed' \in Chunks
    /\ buf.length + Len(passed') <= MaxLength
    /\ buf' = Copied(buf, passed')

ResizeBuffer ==
    /\ \E n \in 0..MaxChunk :
        /\ buf.length + n <= MaxLength
        /\ buf' = Resized(buf, n)
    /\ UNCHANGED passed

RewindBuffer == buf' = Rewound(buf) /\ UNCHANGED passed

ResetBuffer == buf' = Emptied(buf) /\ UNCHANGED passed

CleanBuffer == buf' = Freed /\ UNCHANGED passed

BufferInit == buf = Freed /\ passed = <<>>

BufferNext ==
    \/ InitBuffer \/ AppendBytes \/ TakeBytes \/ CutBytes \/ CopyBuffer
    \/ ResizeBuffer \/ RewindBuffer \/ ResetBuffer \/ CleanBuffer

BufferSpec == BufferInit /\ [][BufferNext]_bufferVars

-----------------------------------------------------------------------------
(* Properties.                                                             *)

\* What is stored lies within the memory that is allocated, and size says how
\* much that is: the next append decides by it whether it has to ask for more.
WithinMemory ==
    /\ DOMAIN buf.memory = 0 .. buf.size - 1
    /\ buf.data \in Nat /\ buf.length \in Nat
    /\ buf.data + buf.length <= buf.size

Fifo == INSTANCE ByteFifo WITH content <- ContentOf(buf)

\* Whatever the buffer moves and allocates, it is a queue of bytes: all that was
\* appended, each byte once, in order, and nothing that memory held before.
BufferIsFifo == Fifo!Init /\ [][Fifo!Next]_<<ContentOf(buf), passed>>

\* A buffer keeps its bytes: it is that queue, and stays within its memory.
BufferKeepsBytes == []WithinMemory /\ BufferIsFifo

=============================================================================
