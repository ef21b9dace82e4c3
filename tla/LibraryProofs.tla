--------------------------- MODULE LibraryProofs ---------------------------
(***************************************************************************)
(* Theorems about single parts of the library, one section for each.       *)
(*                                                                         *)
(* Buffer: what is stored lies in the memory, and the buffer is a queue of *)
(* bytes.  Each function of buffer.c has a lemma that says what it does to *)
(* the content of a sound buffer, and that the buffer is sound after it; a *)
(* step of the program is then one of these lemmas.                        *)
(*                                                                         *)
(* Repeater: attempts are as far apart as the program asked.               *)
(*                                                                         *)
(* Clock: the clock of seconds loses nothing of the milliseconds it is     *)
(* told of, and the timers tell the time.  All is about quotients and      *)
(* remainders, so each number gets a name and what is known of it, and the *)
(* provers see sums of these names only.                                   *)
(*                                                                         *)
(* MqttRecords: records own their memory.  Every function fills a slot     *)
(* with memory of its own, empties it or moves what it has to another one, *)
(* and there is one lemma for each of the three.                           *)
(*                                                                         *)
(* StreamLife: a stack of streams owns its memory.  The pointers of the    *)
(* blocks make a forest whose roots the application holds, and each        *)
(* operation changes it in one of four ways.                               *)
(***************************************************************************)
EXTENDS Buffer, Repeater, Clock, MqttRecords, StreamLife, SequenceTheorems, FiniteSetTheorems,
        FunctionTheorems, WellFoundedInduction, TLAPS

-----------------------------------------------------------------------------
(* Buffer.                                                                 *)

(* The fields have their types, size is the size of the memory, and what    *)
(* is stored lies in it.                                                    *)
Sound(b) == b \in BufferType /\ b.data + b.length <= b.size

(* The fields of a sound buffer.                                            *)
LEMMA SoundFields ==
    ASSUME NEW b, Sound(b)
    PROVE  /\ b.size \in Nat /\ b.data \in Nat /\ b.length \in Nat
           /\ b.data + b.length <= b.size
           /\ b.memory \in [0 .. b.size - 1 -> Cells]
           /\ b \in [memory : [0 .. b.size - 1 -> Cells], data : Nat, length : Nat,
                     size : {b.size}]
           /\ b = [memory |-> b.memory, data |-> b.data, length |-> b.length, size |-> b.size]
<1>1. PICK n \in Nat : b \in [memory : [0 .. n - 1 -> Cells], data : Nat, length : Nat, size : {n}]
  BY DEF Sound, BufferType
<1>2. b = [memory |-> b.memory, data |-> b.data, length |-> b.length, size |-> b.size]
  BY <1>1
<1> QED
  BY <1>1, <1>2 DEF Sound

(* A buffer with these fields is sound.                                     *)
LEMMA SoundBuilt ==
    ASSUME NEW n \in Nat, NEW d \in Nat, NEW l \in Nat, d + l <= n,
           NEW mem \in [0 .. n - 1 -> Cells]
    PROVE  Sound([memory |-> mem, data |-> d, length |-> l, size |-> n])
<1> DEFINE b == [memory |-> mem, data |-> d, length |-> l, size |-> n]
<1>1. b \in [memory : [0 .. n - 1 -> Cells], data : Nat, length : Nat, size : {n}]
  OBVIOUS
<1>2. b \in BufferType
  BY <1>1 DEF BufferType
<1>3. b.data + b.length <= b.size
  OBVIOUS
<1> QED
  BY <1>2, <1>3 DEF Sound

(* The content is as long as the code says, and its bytes are in the memory.*)
LEMMA ContentFields ==
    ASSUME NEW b, Sound(b)
    PROVE  /\ ContentOf(b) \in Seq(Cells)
           /\ Len(ContentOf(b)) = b.length
           /\ \A i \in 1..b.length : ContentOf(b)[i] = b.memory[b.data + i - 1]
<1>1. /\ b.size \in Nat /\ b.data \in Nat /\ b.length \in Nat
      /\ b.data + b.length <= b.size
      /\ b.memory \in [0 .. b.size - 1 -> Cells]
  BY SoundFields
<1>2. \A i \in 1..b.length : /\ b.data + i - 1 \in DOMAIN b.memory
                             /\ Cell(b, b.data + i - 1) = b.memory[b.data + i - 1]
                             /\ Cell(b, b.data + i - 1) \in Cells
  BY <1>1 DEF Cell
<1>3. ContentOf(b) \in [1..b.length -> Cells]
  <2>1. \A i \in 1..b.length : Cell(b, b.data + i - 1) \in Cells
    BY <1>2
  <2> QED
    BY <2>1 DEF ContentOf
<1>4. \A i \in 1..b.length : ContentOf(b)[i] = Cell(b, b.data + i - 1)
  BY DEF ContentOf
<1>5. ContentOf(b) \in Seq(Cells) /\ Len(ContentOf(b)) = b.length
  <2>1. ContentOf(b) \in Seq(Cells)
    BY <1>1, <1>3, SeqDef
  <2>2. DOMAIN ContentOf(b) = 1..b.length
    BY <1>3
  <2> QED
    BY <1>1, <2>1, <2>2, LenProperties
<1> QED
  BY <1>2, <1>4, <1>5

(* Two sound buffers hold the same if they agree byte by byte.              *)
LEMMA SameContent ==
    ASSUME NEW b, NEW c, Sound(b), Sound(c), b.length = c.length,
           \A i \in 1..b.length : b.memory[b.data + i - 1] = c.memory[c.data + i - 1]
    PROVE  ContentOf(b) = ContentOf(c)
<1>1. /\ ContentOf(b) \in Seq(Cells) /\ Len(ContentOf(b)) = b.length
      /\ \A i \in 1..b.length : ContentOf(b)[i] = b.memory[b.data + i - 1]
  BY ContentFields
<1>2. /\ ContentOf(c) \in Seq(Cells) /\ Len(ContentOf(c)) = c.length
      /\ \A i \in 1..c.length : ContentOf(c)[i] = c.memory[c.data + i - 1]
  BY ContentFields
<1> QED
  BY <1>1, <1>2, SeqEqual

-----------------------------------------------------------------------------
(* The functions of buffer.c.                                              *)

(* buffer_rewind keeps the content.                                         *)
LEMMA RewoundKeeps ==
    ASSUME NEW b, Sound(b)
    PROVE  /\ Sound(Rewound(b))
           /\ Rewound(b).data = 0 /\ Rewound(b).length = b.length /\ Rewound(b).size = b.size
           /\ ContentOf(Rewound(b)) = ContentOf(b)
<1> DEFINE mem == [k \in DOMAIN b.memory |->
                      IF k < b.length THEN Cell(b, b.data + k) ELSE b.memory[k]]
           r == [memory |-> mem, data |-> 0, length |-> b.length, size |-> b.size]
<1>1. /\ b.size \in Nat /\ b.data \in Nat /\ b.length \in Nat
      /\ b.data + b.length <= b.size
      /\ b.memory \in [0 .. b.size - 1 -> Cells]
      /\ b \in [memory : [0 .. b.size - 1 -> Cells], data : Nat, length : Nat,
                size : {b.size}]
  BY SoundFields
<1>2. CASE b.data = 0
  BY <1>1, <1>2 DEF Rewound
<1>3. CASE b.data # 0
  <2>1. Rewound(b) = r
    BY <1>1, <1>3 DEF Rewound
  <2>2. \A k \in 0 .. b.size - 1 : k < b.length => /\ b.data + k \in DOMAIN b.memory
                                                   /\ mem[k] = b.memory[b.data + k]
    BY <1>1 DEF Cell
  <2>3. mem \in [0 .. b.size - 1 -> Cells]
    BY <1>1, <2>2
  <2>4. Sound(r)
    <3> HIDE DEF mem
    <3> QED
      BY <1>1, <2>3, 0 + b.length <= b.size, 0 \in Nat, SoundBuilt
  <2>5. \A i \in 1..b.length : r.memory[r.data + i - 1] = b.memory[b.data + i - 1]
    <3> TAKE i \in 1..b.length
    <3>1. i - 1 \in 0 .. b.size - 1 /\ i - 1 < b.length
      BY <1>1
    <3>2. mem[i - 1] = b.memory[b.data + (i - 1)]
      BY <2>2, <3>1
    <3> QED
      BY <1>1, <3>2
  <2>6. ContentOf(r) = ContentOf(b)
    BY <2>4, <2>5, SameContent
  <2> QED
    BY <2>1, <2>4, <2>6
<1> QED
  BY <1>2, <1>3

(* xrealloc keeps what the memory held.                                     *)
LEMMA GrownKeeps ==
    ASSUME NEW b, Sound(b), b.data = 0, NEW n \in Nat, b.size <= n
    PROVE  /\ Sound(Grown(b, n))
           /\ Grown(b, n).data = 0 /\ Grown(b, n).length = b.length /\ Grown(b, n).size = n
           /\ ContentOf(Grown(b, n)) = ContentOf(b)
<1> DEFINE mem == [k \in 0 .. n - 1 |-> Cell(b, k)]
           g == [memory |-> mem, data |-> 0, length |-> b.length, size |-> n]
<1>1. /\ b.size \in Nat /\ b.length \in Nat /\ b.length <= b.size
      /\ b.memory \in [0 .. b.size - 1 -> Cells]
      /\ b \in [memory : [0 .. b.size - 1 -> Cells], data : Nat, length : Nat,
                size : {b.size}]
  BY SoundFields
<1>2. Grown(b, n) = g
  <2> HIDE DEF mem
  <2>1. b = [memory |-> b.memory, data |-> b.data, length |-> b.length, size |-> b.size]
    BY SoundFields
  <2>2. [[memory |-> b.memory, data |-> b.data, length |-> b.length, size |-> b.size]
            EXCEPT !.memory = mem]
        = [memory |-> mem, data |-> b.data, length |-> b.length, size |-> b.size]
    OBVIOUS
  <2>3. [[memory |-> mem, data |-> b.data, length |-> b.length, size |-> b.size]
            EXCEPT !.data = 0]
        = [memory |-> mem, data |-> 0, length |-> b.length, size |-> b.size]
    OBVIOUS
  <2>4. [[memory |-> mem, data |-> 0, length |-> b.length, size |-> b.size]
            EXCEPT !.size = n] = g
    OBVIOUS
  <2>5. Grown(b, n) = [[[b EXCEPT !.memory = mem] EXCEPT !.data = 0] EXCEPT !.size = n]
    BY DEF Grown, mem
  <2> HIDE DEF g
  <2> QED
    BY <2>1, <2>2, <2>3, <2>4, <2>5
<1>3. mem \in [0 .. n - 1 -> Cells]
  BY <1>1 DEF Cell, Cells
<1>4. Sound(g)
  <2> HIDE DEF mem
  <2>1. 0 \in Nat /\ 0 + b.length <= n
    BY <1>1
  <2> QED
    BY <1>1, <1>3, <2>1, SoundBuilt
<1>5. \A i \in 1..b.length : g.memory[g.data + i - 1] = b.memory[b.data + i - 1]
  BY <1>1 DEF Cell
<1>6. ContentOf(g) = ContentOf(b)
  BY <1>4, <1>5, SameContent
<1> QED
  BY <1>2, <1>4, <1>6

(* buffer_resize keeps the content and makes room for n bytes behind it.    *)
LEMMA ResizedKeeps ==
    ASSUME NEW b, Sound(b), NEW n \in Nat
    PROVE  /\ Sound(Resized(b, n))
           /\ Resized(b, n).data = 0 /\ Resized(b, n).length = b.length
           /\ b.length + n <= Resized(b, n).size
           /\ ContentOf(Resized(b, n)) = ContentOf(b)
<1> DEFINE r == Rewound(b)
<1>1. Sound(r) /\ r.data = 0 /\ r.length = b.length /\ ContentOf(r) = ContentOf(b)
  BY RewoundKeeps
<1>2. r.size \in Nat /\ r.length \in Nat
  BY <1>1, SoundFields
<1> HIDE DEF r
<1>3. CASE r.size < r.length + n
  BY <1>1, <1>2, <1>3, GrownKeeps DEF Resized, r
<1>4. CASE ~(r.size < r.length + n)
  BY <1>1, <1>2, <1>4 DEF Resized, r
<1> QED
  BY <1>3, <1>4

(* memcpy to the data, of bytes that fit into the memory.                   *)
LEMMA StoredCells ==
    ASSUME NEW b, Sound(b), b.data = 0, NEW o \in Nat, NEW bytes \in Seq(Values),
           o + Len(bytes) <= b.size
    PROVE  LET s == Stored(b, o, bytes)
           IN  /\ s.memory \in [0 .. b.size - 1 -> Cells]
               /\ s = [memory |-> s.memory, data |-> 0, length |-> b.length, size |-> b.size]
               /\ \A i \in 1 .. Len(bytes) : s.memory[o + i - 1] = bytes[i]
               /\ \A k \in 0 .. b.size - 1 : k < o => s.memory[k] = b.memory[k]
<1> DEFINE mem == [k \in DOMAIN b.memory |->
                      IF k - b.data - o \in 0 .. Len(bytes) - 1
                      THEN bytes[k - b.data - o + 1] ELSE b.memory[k]]
<1>1. /\ b.size \in Nat /\ b.length \in Nat
      /\ b.memory \in [0 .. b.size - 1 -> Cells]
      /\ b \in [memory : [0 .. b.size - 1 -> Cells], data : Nat, length : Nat,
                size : {b.size}]
  BY SoundFields
<1>2. Len(bytes) \in Nat /\ \A i \in 1 .. Len(bytes) : bytes[i] \in Cells
  BY ElementOfSeq, LenProperties DEF Cells
<1>3. \A k \in 0 .. b.size - 1 :
        /\ k - o \in 0 .. Len(bytes) - 1 => mem[k] = bytes[k - o + 1]
        /\ k - o \notin 0 .. Len(bytes) - 1 => mem[k] = b.memory[k]
  <2> TAKE k \in 0 .. b.size - 1
  <2>1. k \in DOMAIN b.memory /\ k - b.data - o = k - o
    BY <1>1
  <2> QED
    BY <2>1
<1>4. mem \in [0 .. b.size - 1 -> Cells]
  <2>1. \A k \in 0 .. b.size - 1 : mem[k] \in Cells
    <3> TAKE k \in 0 .. b.size - 1
    <3>1. CASE k - o \in 0 .. Len(bytes) - 1
      <4>1. k - o + 1 \in 1 .. Len(bytes)
        BY <1>2, <3>1
      <4> HIDE DEF mem
      <4> QED
        BY <1>2, <1>3, <3>1, <4>1
    <3>2. CASE k - o \notin 0 .. Len(bytes) - 1
      <4> HIDE DEF mem
      <4> QED
        BY <1>1, <1>3, <3>2
    <3> QED
      BY <3>1, <3>2
  <2>2. DOMAIN b.memory = 0 .. b.size - 1
    BY <1>1
  <2> QED
    BY <2>1, <2>2
<1>5. Stored(b, o, bytes) = [b EXCEPT !.memory = mem]
  BY DEF Stored
<1> HIDE DEF mem
<1>6. Stored(b, o, bytes) = [memory |-> mem, data |-> 0, length |-> b.length, size |-> b.size]
  BY <1>1, <1>5
<1>7. \A i \in 1 .. Len(bytes) : mem[o + i - 1] = bytes[i]
  <2> TAKE i \in 1 .. Len(bytes)
  <2>1. /\ o + i - 1 \in 0 .. b.size - 1
        /\ (o + i - 1) - o \in 0 .. Len(bytes) - 1 /\ (o + i - 1) - o + 1 = i
    BY <1>1, <1>2
  <2> QED
    BY <1>3, <2>1
<1>8. \A k \in 0 .. b.size - 1 : k < o => mem[k] = b.memory[k]
  BY <1>2, <1>3
<1> QED
  BY <1>4, <1>6, <1>7, <1>8

(* buffer_append puts the bytes behind the content.                         *)
LEMMA AppendedAppends ==
    ASSUME NEW b, Sound(b), NEW bytes \in Seq(Values)
    PROVE  /\ Sound(Appended(b, bytes))
           /\ ContentOf(Appended(b, bytes)) = ContentOf(b) \o bytes
<1> DEFINE n == Len(bytes)
           r == Resized(b, n)
           s == Stored(r, r.length, bytes)
           a == [memory |-> s.memory, data |-> 0, length |-> r.length + n, size |-> r.size]
<1>1. n \in Nat /\ bytes \in Seq(Cells)
  BY LenProperties, SeqMonotonic DEF Cells
<1>2. /\ Sound(r) /\ r.data = 0 /\ r.length = b.length
      /\ b.length + n <= r.size /\ ContentOf(r) = ContentOf(b)
  <2> HIDE DEF n
  <2> QED
    BY <1>1, ResizedKeeps
<1>3. r.size \in Nat /\ r.length \in Nat
  BY <1>2, SoundFields
<1> HIDE DEF r
<1>4. /\ s.memory \in [0 .. r.size - 1 -> Cells]
      /\ s = [memory |-> s.memory, data |-> 0, length |-> r.length, size |-> r.size]
      /\ \A i \in 1..n : s.memory[r.length + i - 1] = bytes[i]
      /\ \A k \in 0 .. r.size - 1 : k < r.length => s.memory[k] = r.memory[k]
  BY <1>2, <1>3, StoredCells
<1> HIDE DEF s
<1>5. Appended(b, bytes) = a
  <2>1. Appended(b, bytes) = [s EXCEPT !.length = r.length + n]
    BY DEF Appended, r, s
  <2>2. [[memory |-> s.memory, data |-> 0, length |-> r.length, size |-> r.size]
            EXCEPT !.length = r.length + n] = a
    OBVIOUS
  <2> QED
    BY <1>4, <2>1, <2>2
<1> HIDE DEF n
<1>6. Sound(a)
  <2>1. r.length + n \in Nat /\ 0 + (r.length + n) <= r.size /\ 0 \in Nat
    BY <1>1, <1>2, <1>3
  <2> QED
    BY <1>3, <1>4, <2>1, SoundBuilt
<1>7. /\ ContentOf(a) \in Seq(Cells) /\ Len(ContentOf(a)) = r.length + n
      /\ \A i \in 1 .. r.length + n : ContentOf(a)[i] = s.memory[i - 1]
  <2>1. /\ ContentOf(a) \in Seq(Cells) /\ Len(ContentOf(a)) = a.length
        /\ \A i \in 1 .. a.length : ContentOf(a)[i] = a.memory[a.data + i - 1]
    BY <1>6, ContentFields
  <2> QED
    BY <1>1, <1>3, <2>1
<1>8. /\ ContentOf(r) \in Seq(Cells) /\ Len(ContentOf(r)) = r.length
      /\ \A i \in 1 .. r.length : ContentOf(r)[i] = r.memory[i - 1]
  BY <1>2, <1>3, ContentFields
<1>9. /\ ContentOf(r) \o bytes \in Seq(Cells)
      /\ Len(ContentOf(r) \o bytes) = r.length + n
      /\ \A i \in 1 .. r.length + n :
            (ContentOf(r) \o bytes)[i] =
                IF i <= r.length THEN ContentOf(r)[i] ELSE bytes[i - r.length]
  BY <1>1, <1>8, ConcatProperties DEF n
<1>10. \A i \in 1 .. r.length + n : ContentOf(a)[i] = (ContentOf(r) \o bytes)[i]
  <2> TAKE i \in 1 .. r.length + n
  <2>1. CASE i <= r.length
    <3>1. i - 1 \in 0 .. r.size - 1 /\ i - 1 < r.length
      BY <1>1, <1>2, <1>3, <2>1
    <3> QED
      BY <1>3, <1>4, <1>7, <1>8, <1>9, <2>1, <3>1
  <2>2. CASE ~(i <= r.length)
    <3>1. i - r.length \in 1..n /\ r.length + (i - r.length) - 1 = i - 1
      BY <1>1, <1>3, <2>2
    <3>2. s.memory[i - 1] = bytes[i - r.length]
      BY <1>4, <3>1
    <3> QED
      BY <1>7, <1>9, <2>2, <3>2
  <2> QED
    BY <2>1, <2>2
<1>11. ContentOf(a) = ContentOf(r) \o bytes
  <2> HIDE DEF a
  <2> QED
    BY <1>7, <1>9, <1>10, SeqEqual
<1> QED
  BY <1>2, <1>5, <1>6, <1>11

(* buffer_copy puts the bytes in the place of the content.                  *)
LEMMA CopiedCopies ==
    ASSUME NEW b, Sound(b), NEW bytes \in Seq(Values)
    PROVE  Sound(Copied(b, bytes)) /\ ContentOf(Copied(b, bytes)) = bytes
<1> DEFINE n == Len(bytes)
           r == Resized(b, n)
           s == Stored(r, 0, bytes)
           c == [memory |-> s.memory, data |-> 0, length |-> n, size |-> r.size]
<1>1. n \in Nat /\ bytes \in Seq(Cells)
  BY LenProperties, SeqMonotonic DEF Cells
<1>2. Sound(r) /\ r.data = 0 /\ b.length + n <= r.size /\ b.length \in Nat
  <2> HIDE DEF n
  <2> QED
    BY <1>1, ResizedKeeps, SoundFields
<1>3. r.size \in Nat /\ 0 + n <= r.size
  BY <1>1, <1>2, SoundFields
<1> HIDE DEF r
<1>4. /\ s.memory \in [0 .. r.size - 1 -> Cells]
      /\ s = [memory |-> s.memory, data |-> 0, length |-> r.length, size |-> r.size]
      /\ \A i \in 1..n : s.memory[0 + i - 1] = bytes[i]
  <2> DEFINE o == 0
  <2>1. o \in Nat /\ o + Len(bytes) <= r.size
    BY <1>3
  <2> HIDE DEF o
  <2>2. LET t == Stored(r, o, bytes)
        IN  /\ t.memory \in [0 .. r.size - 1 -> Cells]
            /\ t = [memory |-> t.memory, data |-> 0, length |-> r.length, size |-> r.size]
            /\ \A i \in 1..n : t.memory[o + i - 1] = bytes[i]
    BY <1>2, <2>1, StoredCells
  <2> QED
    BY <2>2 DEF o
<1> HIDE DEF s
<1>5. Copied(b, bytes) = c
  <2>1. Copied(b, bytes) = [s EXCEPT !.length = n]
    BY DEF Copied, r, s
  <2>2. [[memory |-> s.memory, data |-> 0, length |-> r.length, size |-> r.size]
            EXCEPT !.length = n] = c
    OBVIOUS
  <2> QED
    BY <1>4, <2>1, <2>2
<1>6. Sound(c)
  <2> HIDE DEF n
  <2> QED
    BY <1>1, <1>3, <1>4, SoundBuilt
<1>7. /\ ContentOf(c) \in Seq(Cells) /\ Len(ContentOf(c)) = n
      /\ \A i \in 1..n : ContentOf(c)[i] = s.memory[0 + i - 1]
  <2>1. /\ ContentOf(c) \in Seq(Cells) /\ Len(ContentOf(c)) = c.length
        /\ \A i \in 1 .. c.length : ContentOf(c)[i] = c.memory[c.data + i - 1]
    BY <1>6, ContentFields
  <2> QED
    BY <1>1, <2>1
<1>8. ContentOf(c) = bytes
  <2> HIDE DEF c
  <2> QED
    BY <1>1, <1>4, <1>7, SeqEqual DEF n
<1> QED
  BY <1>5, <1>6, <1>8

(* buffer_shorten and buffer_take cut the first n bytes off.                *)
LEMMA ShortenedCuts ==
    ASSUME NEW b, Sound(b), NEW n \in 0..b.length
    PROVE  /\ Sound(Shortened(b, n))
           /\ ContentOf(Shortened(b, n)) = SubSeq(ContentOf(b), n + 1, b.length)
<1> DEFINE c == [memory |-> b.memory, data |-> b.data + n, length |-> b.length - n,
                 size |-> b.size]
           cut == SubSeq(ContentOf(b), n + 1, b.length)
<1>1. /\ b.size \in Nat /\ b.data \in Nat /\ b.length \in Nat
      /\ b.data + b.length <= b.size
      /\ b.memory \in [0 .. b.size - 1 -> Cells]
      /\ b \in [memory : [0 .. b.size - 1 -> Cells], data : Nat, length : Nat,
                size : {b.size}]
  BY SoundFields
<1>2. Shortened(b, n) = c
  <2>1. b = [memory |-> b.memory, data |-> b.data, length |-> b.length, size |-> b.size]
    BY SoundFields
  <2>2. [[memory |-> b.memory, data |-> b.data, length |-> b.length, size |-> b.size]
            EXCEPT !.data = b.data + n]
        = [memory |-> b.memory, data |-> b.data + n, length |-> b.length, size |-> b.size]
    OBVIOUS
  <2>3. [[memory |-> b.memory, data |-> b.data + n, length |-> b.length, size |-> b.size]
            EXCEPT !.length = b.length - n] = c
    OBVIOUS
  <2>4. Shortened(b, n) = [[b EXCEPT !.data = b.data + n] EXCEPT !.length = b.length - n]
    BY DEF Shortened
  <2> HIDE DEF c
  <2> QED
    BY <2>1, <2>2, <2>3, <2>4
<1>3. Sound(c)
  <2>1. /\ b.data + n \in Nat /\ b.length - n \in Nat
        /\ (b.data + n) + (b.length - n) <= b.size
    BY <1>1
  <2> QED
    BY <1>1, <2>1, SoundBuilt
<1>4. /\ ContentOf(c) \in Seq(Cells) /\ Len(ContentOf(c)) = b.length - n
      /\ \A i \in 1 .. b.length - n : ContentOf(c)[i] = b.memory[(b.data + n) + i - 1]
  <2>1. /\ ContentOf(c) \in Seq(Cells) /\ Len(ContentOf(c)) = c.length
        /\ \A i \in 1 .. c.length : ContentOf(c)[i] = c.memory[c.data + i - 1]
    BY <1>3, ContentFields
  <2> QED
    BY <2>1
<1>5. /\ ContentOf(b) \in Seq(Cells) /\ Len(ContentOf(b)) = b.length
      /\ \A i \in 1..b.length : ContentOf(b)[i] = b.memory[b.data + i - 1]
  BY ContentFields
<1>6. /\ cut \in Seq(Cells) /\ Len(cut) = b.length - n
      /\ \A i \in 1 .. b.length - n : cut[i] = ContentOf(b)[n + i]
  <2>1. \A i \in n + 1 .. b.length : ContentOf(b)[i] \in Cells
    BY <1>1, <1>5, ElementOfSeq
  <2>2. n + 1 \in Int /\ b.length \in Int
    BY <1>1
  <2>3. /\ cut \in Seq(Cells)
        /\ Len(cut) = IF n + 1 <= b.length THEN b.length - (n + 1) + 1 ELSE 0
        /\ \A i \in 1 .. b.length - (n + 1) + 1 : cut[i] = ContentOf(b)[(n + 1) + i - 1]
    BY <2>1, <2>2, SubSeqProperties
  <2>4. Len(cut) = b.length - n
    BY <1>1, <2>3
  <2>5. \A i \in 1 .. b.length - n : cut[i] = ContentOf(b)[n + i]
    <3> HIDE DEF cut
    <3> TAKE i \in 1 .. b.length - n
    <3>1. i \in 1 .. b.length - (n + 1) + 1 /\ (n + 1) + i - 1 = n + i
      BY <1>1
    <3> QED
      BY <2>3, <3>1
  <2> QED
    BY <2>3, <2>4, <2>5
<1>7. \A i \in 1 .. b.length - n : ContentOf(c)[i] = cut[i]
  <2> TAKE i \in 1 .. b.length - n
  <2>1. n + i \in 1..b.length /\ b.data + (n + i) - 1 = (b.data + n) + i - 1
    BY <1>1
  <2> QED
    BY <1>4, <1>5, <1>6, <2>1
<1>8. ContentOf(c) = cut
  <2> HIDE DEF c, cut
  <2> QED
    BY <1>4, <1>6, <1>7, SeqEqual
<1> QED
  BY <1>2, <1>3, <1>8

(* buffer_reset, and a buffer that is empty.                                *)
LEMMA EmptyContent ==
    ASSUME NEW b, Sound(b), b.length = 0
    PROVE  ContentOf(b) = <<>>
  BY ContentFields, EmptySeq

(* buffer_reset leaves a sound buffer with nothing in it.                   *)
LEMMA EmptiedEmpties ==
    ASSUME NEW b, Sound(b)
    PROVE  Sound(Emptied(b)) /\ ContentOf(Emptied(b)) = <<>>
<1>1. /\ b.size \in Nat
      /\ b.memory \in [0 .. b.size - 1 -> Cells]
      /\ b \in [memory : [0 .. b.size - 1 -> Cells], data : Nat, length : Nat,
                size : {b.size}]
  BY SoundFields
<1>2. Emptied(b) = [memory |-> b.memory, data |-> 0, length |-> 0, size |-> b.size]
  <2>1. b = [memory |-> b.memory, data |-> b.data, length |-> b.length, size |-> b.size]
    BY SoundFields
  <2>2. [[memory |-> b.memory, data |-> b.data, length |-> b.length, size |-> b.size]
            EXCEPT !.data = 0]
        = [memory |-> b.memory, data |-> 0, length |-> b.length, size |-> b.size]
    OBVIOUS
  <2>3. [[memory |-> b.memory, data |-> 0, length |-> b.length, size |-> b.size]
            EXCEPT !.length = 0]
        = [memory |-> b.memory, data |-> 0, length |-> 0, size |-> b.size]
    OBVIOUS
  <2>4. Emptied(b) = [[b EXCEPT !.data = 0] EXCEPT !.length = 0]
    BY DEF Emptied
  <2> QED
    BY <2>1, <2>2, <2>3, <2>4
<1>3. Sound(Emptied(b))
  BY <1>1, <1>2, 0 \in Nat, 0 + 0 <= b.size, SoundBuilt
<1>4. Emptied(b).length = 0
  BY <1>2
<1> QED
  BY <1>3, <1>4, EmptyContent

(* So does an allocation,                                                   *)
LEMMA AllocatedEmpty ==
    ASSUME NEW n \in Nat
    PROVE  Sound(Allocated(n)) /\ ContentOf(Allocated(n)) = <<>>
<1> DEFINE mem == [k \in 0 .. n - 1 |-> Junk]
<1>1. mem \in [0 .. n - 1 -> Cells]
  BY DEF Cells
<1>2. Allocated(n) = [memory |-> mem, data |-> 0, length |-> 0, size |-> n]
  BY DEF Allocated
<1> HIDE DEF mem
<1>3. Sound(Allocated(n))
  BY <1>1, <1>2, 0 \in Nat, 0 + 0 <= n, SoundBuilt
<1>4. Allocated(n).length = 0
  BY <1>2
<1> QED
  BY <1>3, <1>4, EmptyContent

(* and a buffer that is freed.                                              *)
LEMMA FreedEmpty == Sound(Freed) /\ ContentOf(Freed) = <<>>
  BY AllocatedEmpty DEF Freed

-----------------------------------------------------------------------------
(* A behaviour of the buffer.                                              *)

(* The inductive invariant: besides WithinMemory the memory must be what    *)
(* the types say, for that is where the content is read.                    *)
BufferInv == Sound(buf)

(* A call passes bytes in.                                                  *)
LEMMA ChunksAreSequences == Chunks \subseteq Seq(Values)
<1> SUFFICES ASSUME NEW n \in 0..MaxChunk, NEW s \in [1..n -> Values]
             PROVE  s \in Seq(Values)
  BY DEF Chunks
<1>1. n \in Nat
  BY SizesAssumption
<1> QED
  BY <1>1, SeqDef

(* Every call leaves a sound buffer, and does to its content what a call of *)
(* the abstract queue does.                                                 *)
LEMMA StepIsFifo ==
    ASSUME BufferInv, BufferNext
    PROVE  BufferInv' /\ (Fifo!Next \/ UNCHANGED <<ContentOf(buf), passed>>)
<1> USE DEF BufferInv
<1>1. ContentOf(buf) \in Seq(Cells) /\ Len(ContentOf(buf)) = buf.length /\ buf.length \in Nat
  BY ContentFields, SoundFields
<1>2. CASE InitBuffer
  <2>1. PICK n \in InitialSizes : buf' = Allocated(n)
    BY <1>2 DEF InitBuffer
  <2>2. n \in Nat
    BY SizesAssumption
  <2>3. Sound(buf') /\ ContentOf(buf') = <<>> /\ ContentOf(buf) = <<>>
    BY <1>2, <2>1, <2>2, AllocatedEmpty, FreedEmpty DEF InitBuffer
  <2> QED
    BY <1>2, <2>3 DEF InitBuffer, ContentOf
<1>3. CASE AppendBytes
  <2>1. passed' \in Seq(Values) /\ buf' = Appended(buf, passed')
    BY <1>3, ChunksAreSequences DEF AppendBytes
  <2>2. Sound(buf') /\ ContentOf(buf') = ContentOf(buf) \o passed'
    BY <2>1, AppendedAppends
  <2> QED
    BY <2>1, <2>2 DEF Fifo!Next, Fifo!Put, ContentOf
<1>4. CASE TakeBytes
  <2>1. PICK n \in 0..MaxChunk :
           LET chunk == ChunkLength(buf, n)
           IN  /\ passed' = SubSeq(ContentOf(buf), 1, chunk)
               /\ buf' = IF chunk > 0 THEN Shortened(buf, chunk) ELSE buf
    BY <1>4 DEF TakeBytes
  <2> DEFINE chunk == ChunkLength(buf, n)
  <2>2. chunk \in 0..buf.length
    BY <1>1, SizesAssumption DEF ChunkLength
  <2>3. buf' = IF chunk > 0 THEN Shortened(buf, chunk) ELSE buf
    BY <2>1
  <2>4. passed' = SubSeq(ContentOf(buf), 1, chunk)
    BY <2>1
  <2> HIDE DEF chunk
  <2>5. Sound(buf') /\ ContentOf(buf') = SubSeq(ContentOf(buf), chunk + 1, buf.length)
    <3>1. CASE chunk > 0
      BY <2>2, <2>3, <3>1, ShortenedCuts
    <3>2. CASE ~(chunk > 0)
      <4>1. chunk + 1 = 1 /\ buf' = buf
        BY <1>1, <2>2, <2>3, <3>2
      <4>2. SubSeq(ContentOf(buf), 1, Len(ContentOf(buf))) = ContentOf(buf)
        BY <1>1, SubSeqFull
      <4> QED
        BY <1>1, <4>1, <4>2
    <3> QED
      BY <3>1, <3>2
  <2>6. Fifo!Take
    <3>1. chunk \in 0 .. Len(ContentOf(buf))
      BY <1>1, <2>2
    <3>2. ContentOf(buf') = SubSeq(ContentOf(buf), chunk + 1, Len(ContentOf(buf)))
      BY <1>1, <2>5
    <3> QED
      BY <2>4, <3>1, <3>2 DEF Fifo!Take, ContentOf
  <2> QED
    BY <2>5, <2>6 DEF Fifo!Next
<1>5. CASE CutBytes
  <2>1. PICK n \in 0..buf.length : buf' = Shortened(buf, n)
    BY <1>5 DEF CutBytes
  <2>2. Sound(buf') /\ ContentOf(buf') = SubSeq(ContentOf(buf), n + 1, Len(ContentOf(buf)))
    BY <1>1, <2>1, ShortenedCuts
  <2>3. n \in 0 .. Len(ContentOf(buf)) /\ UNCHANGED passed
    BY <1>1, <1>5 DEF CutBytes
  <2> QED
    BY <2>2, <2>3 DEF Fifo!Next, Fifo!Cut, ContentOf
<1>6. CASE CopyBuffer
  <2>1. passed' \in Seq(Values) /\ buf' = Copied(buf, passed')
    BY <1>6, ChunksAreSequences DEF CopyBuffer
  <2>2. Sound(buf') /\ ContentOf(buf') = passed'
    BY <2>1, CopiedCopies
  <2> QED
    BY <2>1, <2>2 DEF Fifo!Next, Fifo!Copy, ContentOf
<1>7. CASE ResizeBuffer
  <2>1. PICK n \in 0..MaxChunk : buf' = Resized(buf, n)
    BY <1>7 DEF ResizeBuffer
  <2>2. n \in Nat
    BY SizesAssumption
  <2>3. Sound(buf') /\ ContentOf(buf') = ContentOf(buf)
    BY <2>1, <2>2, ResizedKeeps
  <2> QED
    BY <1>7, <2>3 DEF ResizeBuffer, ContentOf
<1>8. CASE RewindBuffer
  <2>1. Sound(buf') /\ ContentOf(buf') = ContentOf(buf)
    BY <1>8, RewoundKeeps DEF RewindBuffer
  <2> QED
    BY <1>8, <2>1 DEF RewindBuffer, ContentOf
<1>9. CASE ResetBuffer
  <2>1. Sound(buf') /\ ContentOf(buf') = <<>>
    BY <1>9, EmptiedEmpties DEF ResetBuffer
  <2> QED
    BY <1>9, <2>1 DEF ResetBuffer, Fifo!Next, Fifo!Empty, ContentOf
<1>10. CASE CleanBuffer
  <2>1. Sound(buf') /\ ContentOf(buf') = <<>>
    BY <1>10, FreedEmpty DEF CleanBuffer
  <2> QED
    BY <1>10, <2>1 DEF CleanBuffer, Fifo!Next, Fifo!Empty, ContentOf
<1> QED
  BY <1>2, <1>3, <1>4, <1>5, <1>6, <1>7, <1>8, <1>9, <1>10 DEF BufferNext

(* The buffer is empty in the beginning.                                    *)
LEMMA InitSound ==
    ASSUME BufferInit
    PROVE  BufferInv /\ Fifo!Init
<1>1. Sound(buf) /\ ContentOf(buf) = <<>>
  BY FreedEmpty DEF BufferInit
<1> QED
  BY <1>1 DEF BufferInit, BufferInv, Fifo!Init

(* The invariant says more than WithinMemory does.                          *)
LEMMA SoundWithin ==
    ASSUME BufferInv
    PROVE  WithinMemory
  BY SoundFields DEF BufferInv, WithinMemory

(* The invariant holds in every state of a behaviour.                       *)
LEMMA AlwaysSound == BufferSpec => []BufferInv
<1>1. BufferInit => BufferInv
  BY InitSound
<1>2. BufferInv /\ [BufferNext]_bufferVars => BufferInv'
  <2> SUFFICES ASSUME BufferInv, [BufferNext]_bufferVars
               PROVE  BufferInv'
    OBVIOUS
  <2>1. CASE BufferNext
    BY <2>1, StepIsFifo
  <2>2. CASE UNCHANGED bufferVars
    BY <2>2 DEF BufferInv, bufferVars
  <2> QED
    BY <2>1, <2>2
<1> QED
  BY <1>1, <1>2, PTL DEF BufferSpec

(* What a buffer stores lies within the memory it has allocated, whatever   *)
(* is appended, taken, cut, copied and resized (buffer.c).                  *)
THEOREM BufferStaysWithinMemory == BufferSpec => []WithinMemory
<1>1. BufferInv => WithinMemory
  BY SoundWithin
<1> QED
  BY <1>1, AlwaysSound, PTL

(* A buffer implements the queue of bytes of ByteFifo: every call does to   *)
(* the content what a call of the queue does, or nothing.                   *)
THEOREM BufferImplementsFifo == BufferSpec => BufferIsFifo
<1>1. BufferInit => Fifo!Init
  BY InitSound
<1>2. BufferInv /\ [BufferNext]_bufferVars => [Fifo!Next]_<<ContentOf(buf), passed>>
  <2> SUFFICES ASSUME BufferInv, [BufferNext]_bufferVars
               PROVE  [Fifo!Next]_<<ContentOf(buf), passed>>
    OBVIOUS
  <2>1. CASE BufferNext
    BY <2>1, StepIsFifo
  <2>2. CASE UNCHANGED bufferVars
    BY <2>2 DEF bufferVars, ContentOf, Cell
  <2> QED
    BY <2>1, <2>2
<1> QED
  BY <1>1, <1>2, AlwaysSound, PTL DEF BufferSpec, BufferIsFifo

(* A buffer of any size keeps its bytes, within its memory, and is a queue  *)
(* of them (buffer.c).                                                      *)
THEOREM BufferCorrect == BufferSpec => BufferKeepsBytes
BY BufferStaysWithinMemory, BufferImplementsFifo DEF BufferKeepsBytes


-----------------------------------------------------------------------------
(* Repeater.                                                               *)

(* While the timer runs, what has passed and what is left are together what *)
(* was asked for.  A stopped timer was asked for nothing: the timeout may   *)
(* be 0, which starts no timer.                                             *)
Remaining ==
    /\ timer \in TimerType
    /\ asked \in Nat /\ waited \in Nat
    /\ Running(timer) => waited + timer.left >= asked
    /\ ~Running(timer) => asked = 0

TypesOK == timeout \in Nat /\ Remaining

PacedInv == TypesOK /\ Spaced

(* Starting to wait, for the new timeout.                                   *)
LEMMA WaitingStarts ==
    ASSUME timeout' \in Nat, trying' = FALSE, StartWaiting
    PROVE  PacedInv'
<1>1. timer' = [interval |-> timeout', left |-> timeout'] /\ asked' = timeout' /\ waited' = 0
  BY DEF StartWaiting, Started
<1>2. timer' \in TimerType /\ timer'.interval = timeout' /\ timer'.left = timeout'
  BY <1>1 DEF TimerType
<1>3. Remaining'
  <2>1. waited' + timer'.left >= asked'
    <3>1. \A n \in Nat : 0 + n >= n
      OBVIOUS
    <3>2. 0 + timeout' >= timeout'
      BY <3>1
    <3>3. waited' = 0 /\ timer'.left = timeout' /\ asked' = timeout'
      BY <1>1, <1>2
    <3> QED
      BY <3>2, <3>3, Zenon
  <2>2. timer'.interval = 0 => asked' = 0
    BY <1>1, <1>2
  <2>3. asked' \in Nat /\ waited' \in Nat
    BY <1>1
  <2> QED
    BY <1>2, <2>1, <2>2, <2>3 DEF Remaining, Running
<1> QED
  BY <1>1, <1>3 DEF PacedInv, TypesOK, Spaced

(* What rand_time_increase leaves is a number of seconds.                   *)
LEMMA IncreasedIsNat ==
    ASSUME NEW v \in Nat, NEW m \in Nat
    PROVE  Increased(v, m) \subseteq Nat
<1>1. v \div 4 \in Nat /\ v + ((v + 2) \div 2) \in Nat
  OBVIOUS
<1>2. RandomParts(v, v + ((v + 2) \div 2)) \subseteq Nat
  BY <1>1 DEF RandomParts
<1> QED
  BY <1>1, <1>2 DEF Increased

(* One step keeps the invariant.                                            *)
LEMMA RepeaterStep ==
    ASSUME PacedInv, [RepeaterNext]_repeaterVars
    PROVE  PacedInv'
<1> USE DEF PacedInv, TypesOK
<1>1. CASE SetLimit
  BY <1>1 DEF SetLimit, waitVars, Remaining, Running, Spaced
<1>2. CASE SetTimeout
  BY <1>2, RepeaterAssumption DEF SetTimeout, waitVars, Remaining, Running, Spaced
<1>3. CASE MarkAttempt
  <2>1. waited >= asked
    <3>1. CASE Running(timer)
      BY <1>3, <3>1 DEF MarkAttempt, IsWaiting, Expired, Remaining, TimerType
    <3>2. CASE ~Running(timer)
      BY <3>2 DEF Remaining
    <3> QED
      BY <3>1, <3>2
  <2> QED
    BY <1>3, <2>1 DEF MarkAttempt, waitVars, Remaining, Running, Spaced
<1>4. CASE Wait
  BY <1>4, WaitingStarts DEF Wait, Failed
<1>5. CASE Postpone
  BY <1>5, WaitingStarts, RepeaterAssumption DEF Postpone, Failed
<1>6. CASE BackOff
  <2>1. maximum' \in Nat /\ timeout' \in Increased(timeout, maximum')
    BY <1>6, RepeaterAssumption DEF BackOff
  <2>2. timeout' \in Nat
    BY <2>1, IncreasedIsNat
  <2> QED
    BY <1>6, <2>2, WaitingStarts DEF BackOff, Failed
<1>7. CASE ResetRepeater
  BY <1>7 DEF ResetRepeater, Remaining, Running, Stopped, TimerType, Spaced
<1>8. CASE PassSecond
  <2>1. timer.left # 0 /\ timer \in TimerType
    BY <1>8 DEF PassSecond, IsWaiting, Expired, Remaining
  <2>2. timer' \in TimerType /\ timer'.interval = timer.interval /\ timer'.left = timer.left - 1
    BY <1>8, <2>1 DEF PassSecond, Ticked, TimerType
  <2> QED
    BY <1>8, <2>1, <2>2 DEF PassSecond, Remaining, Running, TimerType, Spaced
<1>9. CASE UNCHANGED repeaterVars
  BY <1>9 DEF repeaterVars, waitVars, Remaining, Running, Spaced
<1> QED
  BY <1>1, <1>2, <1>3, <1>4, <1>5, <1>6, <1>7, <1>8, <1>9 DEF RepeaterNext

(* A new attempt is made only when the time asked for after the last one    *)
(* has passed, whatever limits and timeouts are set meanwhile (repeater.c). *)
THEOREM RepeaterSpaced == RepeaterSpec => []Spaced
<1>1. RepeaterInit => PacedInv
  BY DEF RepeaterInit, PacedInv, TypesOK, Remaining, Spaced, Stopped, TimerType, Running
<1>2. PacedInv /\ [RepeaterNext]_repeaterVars => PacedInv'
  BY RepeaterStep
<1>3. PacedInv => Spaced
  BY DEF PacedInv
<1> QED
  BY <1>1, <1>2, <1>3, PTL DEF RepeaterSpec

(* A back-off makes the next wait longer until it reaches the maximum, and  *)
(* never lets it go over the maximum (rand_time_increase of rand.c).        *)
THEOREM RepeaterBacksOff == RepeaterSpec => BacksOff
<1>1. RepeaterInit => PacedInv
  BY DEF RepeaterInit, PacedInv, TypesOK, Remaining, Spaced, Stopped, TimerType, Running
<1>2. PacedInv /\ [RepeaterNext]_repeaterVars => PacedInv'
  BY RepeaterStep
<1> DEFINE Longer == BackOff =>
                /\ maximum' = 0 \/ timeout < maximum' => timeout' > timeout
                /\ timeout' > maximum' /\ maximum' # 0 => timeout' = timeout
<1>3. PacedInv /\ [RepeaterNext]_repeaterVars => [Longer]_repeaterVars
  <2> SUFFICES ASSUME PacedInv, BackOff
               PROVE  /\ maximum' = 0 \/ timeout < maximum' => timeout' > timeout
                      /\ timeout' > maximum' /\ maximum' # 0 => timeout' = timeout
    OBVIOUS
  <2>1. /\ timeout \in Nat /\ maximum' \in Nat
        /\ timeout' \in Increased(timeout, maximum')
    BY RepeaterAssumption DEF BackOff, PacedInv, TypesOK
  <2>2. timeout' \in Nat
    BY <2>1, IncreasedIsNat
  <2> DEFINE increased == timeout + ((timeout + 2) \div 2)
  <2>3. increased \in Nat /\ increased > timeout
    BY <2>1
  <2>4. RandomParts(timeout, increased) \subseteq Nat
    BY <2>1 DEF RandomParts
  <2> HIDE DEF increased
  <2>5. CASE maximum' # 0 /\ timeout >= maximum'
    BY <2>1, <2>5 DEF Increased
  <2>6. CASE ~(maximum' # 0 /\ timeout >= maximum')
    <3>1. PICK r \in RandomParts(timeout, increased) :
             timeout' = IF maximum' # 0 /\ increased + r >= maximum' THEN maximum'
                        ELSE increased + r
      BY <2>1, <2>6 DEF Increased, increased
    <3>2. r \in Nat
      BY <2>4
    <3> QED
      BY <2>1, <2>2, <2>3, <2>6, <3>1, <3>2
  <2> QED
    BY <2>5, <2>6
<1> QED
  BY <1>1, <1>2, <1>3, PTL DEF RepeaterSpec, BacksOff

(* A repeater paces its program, whatever limits, timeouts and maxima it is *)
(* given and whatever numbers are drawn (repeater.c, rand.c).               *)
THEOREM RepeaterCorrect == RepeaterSpec => RepeaterPaces
BY RepeaterSpaced, RepeaterBacksOff DEF RepeaterPaces

-----------------------------------------------------------------------------
(* Clock.                                                                  *)

(* What the operators of division do.                                       *)
LEMMA Division ==
    ASSUME NEW n \in Int, NEW s \in Nat \ {0}
    PROVE  /\ n \div s \in Int /\ n % s \in Nat /\ n % s < s
           /\ n = s * (n \div s) + (n % s)
  OBVIOUS

(* Products keep the order, and it can be read off them.                    *)
LEMMA Products ==
    ASSUME NEW s \in Nat \ {0}, NEW a \in Int, NEW b \in Int
    PROVE  /\ s * a \in Int /\ a <= b => s * a <= s * b
           /\ s * a < s * b => a < b
           /\ s * (a + b) = s * a + s * b
           /\ s * (a - b) = s * a - s * b
<1>1. s * (a + b) = s * a + s * b /\ s * (a - b) = s * a - s * b /\ s * a \in Int /\ s * b \in Int
  OBVIOUS
<1>2. \A c \in Int : 0 <= c => 0 <= s * c
  OBVIOUS
<1>3. b - a \in Int /\ a - b \in Int /\ s * (b - a) = s * b - s * a
  OBVIOUS
<1>4. a <= b => s * a <= s * b
  BY <1>1, <1>2, <1>3
<1>5. b <= a => s * b <= s * a
  BY <1>1, <1>2, <1>3
<1> QED
  BY <1>1, <1>4, <1>5

(* The rest is the only one.                                                *)
LEMMA OnlyRest ==
    ASSUME NEW s \in Nat \ {0}, NEW n \in Int, NEW q \in Int, NEW r \in Nat, r < s, n = s * q + r
    PROVE  n \div s = q /\ n % s = r
<1> DEFINE p == n \div s
           t == n % s
<1>1. p \in Int /\ t \in Nat /\ t < s /\ n = s * p + t
  BY Division
<1> HIDE DEF p, t
<1>2. s * (p - q) = r - t /\ s * (q - p) = t - r
  <2>1. s * (p - q) = s * p - s * q /\ s * (q - p) = s * q - s * p /\ s * p \in Int /\ s * q \in Int
    BY <1>1
  <2> QED
    BY <1>1, <2>1
<1>3. s * 1 = s /\ p - q \in Int /\ q - p \in Int
  BY <1>1
<1>4. s * (p - q) < s * 1 /\ s * (q - p) < s * 1
  BY <1>1, <1>2, <1>3
<1> DEFINE i == p - q
           j == q - p
<1>5. i \in Int /\ j \in Int /\ s * i < s * 1 /\ s * j < s * 1
  BY <1>3, <1>4
<1> HIDE DEF i, j
<1>6. i < 1 /\ j < 1
  BY <1>5, Products
<1>7. p = q
  BY <1>1, <1>6 DEF i, j
<1>8. t = r
  BY <1>1, <1>7
<1> QED
  BY <1>7, <1>8 DEF p, t

(* What is left of a second is carried over to the next update.             *)
LEMMA SecondsCarried ==
    ASSUME NEW s \in Nat \ {0}, NEW a \in Nat, NEW m \in Nat
    PROVE  (a \div s) + (((a % s) + m) \div s) = (a + m) \div s
<1> DEFINE q == a \div s
           r == a % s
           k == (r + m) \div s
           t == (r + m) % s
<1>1. q \in Int /\ r \in Nat /\ a = s * q + r
  BY Division
<1> HIDE DEF q, r
<1>2. k \in Int /\ t \in Nat /\ t < s /\ r + m = s * k + t
  BY <1>1, Division, r + m \in Int
<1> HIDE DEF k, t
<1>3. s * (q + k) = s * q + s * k /\ s * q \in Int /\ s * k \in Int
  BY <1>1, <1>2
<1>4. q + k \in Int /\ a + m \in Int /\ a + m = s * (q + k) + t
  BY <1>1, <1>2, <1>3
<1>5. (a + m) \div s = q + k
  BY <1>2, <1>4, OnlyRest
<1> QED
  BY <1>5 DEF q, r, k

(* What lies between two looks at the time, in whole seconds and in         *)
(* milliseconds, with seconds on both that were added besides.              *)
LEMMA SecondsMeasure ==
    ASSUME NEW s \in Nat \ {0}, NEW a \in Nat, NEW b \in Nat, NEW x \in Int, NEW i \in Nat
    PROVE  LET v == (b \div s) - (a \div s) + x
               c == (b - a) + x * s
           IN  /\ v >= i => c > (i - 1) * s
               /\ v < i => c < i * s
<1> DEFINE p == a \div s
           q == b \div s
           t == a % s
           u == b % s
           v == q - p + x
           c == (b - a) + x * s
<1>1. /\ p \in Int /\ t \in Nat /\ t < s /\ a = s * p + t
      /\ q \in Int /\ u \in Nat /\ u < s /\ b = s * q + u
  BY Division
<1> HIDE DEF p, q, t, u
<1>2. v \in Int /\ c = s * v + (u - t) /\ s * v \in Int
  <2>1. /\ s * (q - p + x) = s * q - s * p + s * x /\ x * s = s * x
        /\ s * q \in Int /\ s * p \in Int /\ s * x \in Int /\ q - p + x \in Int
    BY <1>1
  <2> QED
    BY <1>1, <2>1
<1> HIDE DEF v, c
<1>3. ASSUME v >= i
      PROVE  c > (i - 1) * s
  <2>1. s * i <= s * v /\ s * i \in Int
    BY <1>2, <1>3, Products
  <2>2. (i - 1) * s = s * i - s
    OBVIOUS
  <2> QED
    BY <1>1, <1>2, <2>1, <2>2
<1>4. ASSUME v < i
      PROVE  c < i * s
  <2>1. s * (v + 1) <= s * i /\ s * i \in Int
    BY <1>2, <1>4, Products, v + 1 \in Int, v + 1 <= i
  <2>2. s * (v + 1) = s * v + s /\ i * s = s * i
    BY <1>2
  <2> QED
    BY <1>1, <1>2, <2>1, <2>2
<1> QED
  BY <1>3, <1>4 DEF v, c, p, q

-----------------------------------------------------------------------------
(* The clocks of the program.                                               *)

\* What a clock shows that was updated at a time, or not yet with a calendar.
CalendarAt(at) == IF at.chrono THEN CalendarStart + (at.ms \div Second) + at.slept ELSE 0

ShownAt(unit, at) == Reading(unit, at.ms, at.ms \div Second, CalendarAt(at))

SeenType == [ms : Nat, slept : Nat, chrono : BOOLEAN]

ClockTypes ==
    /\ driver \in Drivers
    /\ now \in Nat /\ slept \in Nat
    /\ seen \in SeenType /\ begun \in SeenType
    /\ clockTimer \in [start : Int, interval : Nat, unit : Units, update : BOOLEAN]

\* The clocks show what had passed when they were updated last.
ClocksRight ==
    /\ seen.ms <= now
    /\ clock_ms = seen.ms
    /\ clock_s = seen.ms \div Second
    /\ clock_chrono = CalendarAt(seen)

\* A timer starts from what the clock of its unit showed.
TimerBegun == clockTimer.interval # 0 => clockTimer.start = ShownAt(clockTimer.unit, begun)

ClockInv == ClockTypes /\ ClocksRight /\ TimerBegun

(* What a clock shows is a number.                                          *)
LEMMA ShownNumber ==
    ASSUME NEW unit \in Units, NEW at \in SeenType
    PROVE  ShownAt(unit, at) \in Int
<1>1. at.ms \in Nat /\ at.slept \in Nat
  BY DEF SeenType
<1>2. at.ms \div Second \in Int /\ CalendarStart \in Nat
  BY <1>1, ClockAssumption, Division
<1>3. CalendarAt(at) \in Int
  BY <1>1, <1>2 DEF CalendarAt
<1> QED
  BY <1>1, <1>2, <1>3 DEF ShownAt, Reading, Units

(* The clocks are right from the start.                                     *)
LEMMA ClocksStart == ClockInit => ClockInv
<1> SUFFICES ASSUME ClockInit
             PROVE  ClockInv
  OBVIOUS
<1>1. 0 \div Second = 0
  BY ClockAssumption, OnlyRest, 0 = Second * 0 + 0
<1> QED
  BY <1>1 DEF ClockInit, ClockInv, ClockTypes, ClocksRight, TimerBegun, SeenType, CalendarAt, Idle, Units

(* The clocks are right after an update, of whatever kind, and after none.  *)
LEMMA ClocksLooked ==
    ASSUME ClockTypes, ClocksRight, ReadClocks \/ UNCHANGED readings, UNCHANGED <<driver, now, slept>>
    PROVE  seen' \in SeenType /\ ClocksRight'
<1>1. CASE UNCHANGED readings
  BY <1>1 DEF readings, ClockTypes, ClocksRight, CalendarAt
<1>2. CASE ReadClocks
  <2>1. /\ seen' = [ms |-> now, slept |-> slept, chrono |-> driver # "ticks"]
        /\ seen.ms \in Nat /\ now \in Nat /\ seen.ms <= now /\ slept \in Nat
        /\ driver \in Drivers /\ clock_ms = seen.ms /\ clock_s = seen.ms \div Second
    BY <1>2 DEF ReadClocks, Seen, ClockTypes, ClocksRight, SeenType
  <2>2. seen' \in SeenType /\ seen'.ms = now /\ seen'.slept = slept
    BY <2>1 DEF SeenType
  <2>3. CalendarAt(seen)' = IF driver # "ticks" THEN Calendar ELSE 0
    BY <2>1 DEF CalendarAt, Calendar
  <2>4. CASE driver = "system"
    <3>1. clock_s' = now \div Second /\ clock_ms' = now /\ clock_chrono' = Calendar
      BY <1>2, <2>4 DEF ReadClocks, ClockUpdateSys
    <3> QED
      BY <2>1, <2>2, <2>3, <2>4, <3>1 DEF ClocksRight
  <2>5. CASE driver # "system"
    <3> DEFINE ms == now - seen.ms
    <3>1. /\ clock_s' = IF ms > 0 THEN SecondsAfter(ms) ELSE clock_s
          /\ clock_ms' = clock_ms + ms
          /\ clock_chrono' = IF driver # "ticks" THEN Calendar ELSE 0
      BY <1>2, <2>1, <2>5 DEF ReadClocks, ClockUpdate, Drivers
    <3>2. ms \in Nat /\ seen.ms + ms = now
      BY <2>1
    <3>3. clock_s' = now \div Second
      <4>1. CASE ms > 0
        <5>1. clock_s' = (seen.ms \div Second) + (((seen.ms % Second) + ms) \div Second)
          BY <2>1, <3>1, <4>1 DEF SecondsAfter
        <5> HIDE DEF ms
        <5>2. clock_s' = (seen.ms + ms) \div Second
          BY <2>1, <3>2, <5>1, SecondsCarried, ClockAssumption
        <5> QED
          BY <3>2, <5>2
      <4>2. CASE ~(ms > 0)
        <5>1. now = seen.ms
          BY <2>1, <4>2
        <5> QED
          BY <2>1, <3>1, <4>2, <5>1
      <4> QED
        BY <4>1, <4>2
    <3>4. clock_ms' = now
      BY <2>1, <3>1
    <3> QED
      BY <2>1, <2>2, <2>3, <3>1, <3>3, <3>4 DEF ClocksRight
  <2> QED
    BY <2>4, <2>5
<1> QED
  BY <1>1, <1>2

(* A timer that runs keeps its start, whatever the clocks do.               *)
LEMMA TimerKept ==
    ASSUME ClockInv, ReadClocks \/ UNCHANGED readings, UNCHANGED <<driver, now, slept, clockTimer, begun>>
    PROVE  ClockInv'
<1>1. seen' \in SeenType /\ ClocksRight'
  BY ClocksLooked DEF ClockInv
<1>2. ClockTypes' /\ TimerBegun'
  BY <1>1 DEF ClockInv, ClockTypes, TimerBegun, ShownAt, CalendarAt
<1> QED
  BY <1>1, <1>2 DEF ClockInv

(* A timer that is started, with an update of the clocks or without.        *)
LEMMA TimerStarts ==
    ASSUME ClockInv, ReadClocks \/ UNCHANGED readings, UNCHANGED <<driver, now, slept>>,
           clockTimer' \in [start : {NextStamp(clockTimer'.unit)}, interval : Nat, unit : Units, update : BOOLEAN],
           begun' = seen'
    PROVE  ClockInv'
<1>1. seen' \in SeenType /\ ClocksRight'
  BY ClocksLooked DEF ClockInv
<1> DEFINE shown == ShownAt(clockTimer'.unit, seen')
<1>2. clockTimer'.unit \in Units /\ clockTimer'.start = NextStamp(clockTimer'.unit)
  OBVIOUS
<1>3. NextStamp(clockTimer'.unit) = shown
  BY <1>1 DEF NextStamp, ShownAt, ClocksRight, CalendarAt
<1>4. shown \in Int
  BY <1>1, <1>2, ShownNumber
<1> HIDE DEF shown
<1>5. clockTimer' \in [start : Int, interval : Nat, unit : Units, update : BOOLEAN]
  BY <1>3, <1>4
<1>6. ClockTypes'
  BY <1>1, <1>5 DEF ClockInv, ClockTypes
<1>7. TimerBegun'
  BY <1>2, <1>3 DEF TimerBegun, shown, ShownAt, CalendarAt
<1> QED
  BY <1>1, <1>6, <1>7 DEF ClockInv

(* Every step of the program keeps the clocks right.                        *)
LEMMA ClockStep == ClockInv /\ [ClockNext]_clockVars => ClockInv'
<1> SUFFICES ASSUME ClockInv, [ClockNext]_clockVars
             PROVE  ClockInv'
  OBVIOUS
<1>1. ASSUME UNCHANGED <<driver, clock_ms, clock_s, clock_chrono, seen, clockTimer, begun>>,
             now' \in Nat, now <= now', slept' \in Nat
      PROVE  ClockInv'
  <2>1. ClockTypes' /\ TimerBegun'
    BY <1>1 DEF ClockInv, ClockTypes, TimerBegun, ShownAt, CalendarAt
  <2>2. seen.ms \in Nat /\ now \in Nat
    BY DEF ClockInv, ClockTypes, SeenType
  <2>3. ClocksRight'
    BY <1>1, <2>2 DEF ClockInv, ClocksRight, CalendarAt
  <2> QED
    BY <2>1, <2>3 DEF ClockInv
<1>2. CASE PassTime
  BY <1>1, <1>2 DEF PassTime, readings, ClockInv, ClockTypes
<1>3. CASE Hibernate
  BY <1>1, <1>3 DEF Hibernate, readings, ClockInv, ClockTypes
<1>4. CASE UpdateClocks
  BY <1>4, TimerKept DEF UpdateClocks
<1>5. CASE StartTimer
  <2>1. PICK unit \in Units, update \in BOOLEAN, interval \in Intervals :
            /\ IF update THEN ReadClocks ELSE UNCHANGED readings
            /\ clockTimer' = [start |-> NextStamp(unit), interval |-> interval,
                              unit |-> unit, update |-> update]
            /\ begun' = seen' /\ UNCHANGED <<driver, now, slept>>
    BY <1>5 DEF StartTimer
  <2>2. interval \in Nat
    BY ClockAssumption
  <2>3. ReadClocks \/ UNCHANGED readings
    BY <2>1
  <2> QED
    BY <2>1, <2>2, <2>3, TimerStarts
<1>6. CASE RestartTimer
  <2>1. /\ ReadClocks \/ UNCHANGED readings
        /\ clockTimer' = [clockTimer EXCEPT !.start = NextStamp(clockTimer.unit)]
        /\ begun' = seen' /\ UNCHANGED <<driver, now, slept>>
    BY <1>6 DEF RestartTimer
  <2>2. clockTimer \in [start : Int, interval : Nat, unit : Units, update : BOOLEAN]
    BY DEF ClockInv, ClockTypes
  <2>3. clockTimer'.unit = clockTimer.unit
    BY <2>1, <2>2
  <2>4. clockTimer' \in [start : {NextStamp(clockTimer'.unit)}, interval : Nat, unit : Units, update : BOOLEAN]
    BY <2>1, <2>2, <2>3
  <2> QED
    BY <2>1, <2>4, TimerStarts
<1>7. CASE ReadTimer
  BY <1>7, TimerKept DEF ReadTimer
<1>8. CASE StopTimer
  <2>1. /\ clockTimer' = Idle
        /\ UNCHANGED <<driver, now, slept, clock_ms, clock_s, clock_chrono, seen, begun>>
    BY <1>8 DEF StopTimer, readings
  <2>2. ClockTypes' /\ TimerBegun'
    BY <2>1 DEF ClockInv, ClockTypes, TimerBegun, Idle, Units
  <2>3. ClocksRight'
    BY <2>1 DEF ClockInv, ClocksRight, CalendarAt
  <2> QED
    BY <2>2, <2>3 DEF ClockInv
<1>9. CASE UNCHANGED clockVars
  BY <1>1, <1>9 DEF clockVars, ClockInv, ClockTypes
<1> QED
  BY <1>2, <1>3, <1>4, <1>5, <1>6, <1>7, <1>8, <1>9 DEF ClockNext

-----------------------------------------------------------------------------
(* What follows for the timers.                                             *)

(* What a timer has counted lies within one of its units.                   *)
LEMMA TimerMeasured ==
    ASSUME ClockInv, clockTimer.interval # 0, ~Uprooted
    PROVE  LET i == clockTimer.interval
           IN  /\ Value(clockTimer) >= i => Counted(seen) > (i - 1) * Unit
               /\ Value(clockTimer) < i => Counted(seen) < i * Unit
<1> DEFINE i == clockTimer.interval
           a == begun.ms
           b == seen.ms
<1>1. /\ i \in Nat /\ a \in Nat /\ b \in Nat /\ clockTimer.unit \in Units
      /\ seen.slept \in Nat /\ begun.slept \in Nat
      /\ seen.chrono \in BOOLEAN /\ begun.chrono \in BOOLEAN
      /\ Second \in Nat \ {0} /\ CalendarStart \in Nat \ {0}
  BY ClockAssumption DEF ClockInv, ClockTypes, SeenType
<1>2. Value(clockTimer) = ShownAt(clockTimer.unit, seen) - ShownAt(clockTimer.unit, begun)
  BY DEF ClockInv, ClocksRight, TimerBegun, Value, Stamp, ShownAt
<1>3. a \div Second \in Int /\ b \div Second \in Int
  BY <1>1, Division
<1>4. \A n \in Nat : n \div Second \in Nat
  <2> TAKE n \in Nat
  <2> DEFINE q == n \div Second
  <2>1. q \in Int /\ n % Second < Second /\ n % Second \in Nat /\ n = Second * q + (n % Second)
    BY <1>1, Division
  <2> HIDE DEF q
  <2>2. Second * (-1) < Second * q
    BY <1>1, <2>1
  <2>3. -1 < q
    BY <1>1, <2>1, <2>2, Products, -1 \in Int
  <2> QED
    BY <2>1, <2>3 DEF q
<1>5. CASE clockTimer.unit = "MS"
  <2>1. Value(clockTimer) = b - a
    BY <1>2, <1>5 DEF ShownAt, Reading
  <2>2. Counted(seen) = (b - a) + 0 /\ Unit = 1
    BY <1>5 DEF Counted, Unit
  <2> QED
    BY <1>1, <2>1, <2>2
<1>6. ASSUME NEW x \in Int, Value(clockTimer) = (b \div Second) - (a \div Second) + x,
             Counted(seen) = (b - a) + x * Second, clockTimer.unit # "MS"
      PROVE  /\ Value(clockTimer) >= i => Counted(seen) > (i - 1) * Unit
             /\ Value(clockTimer) < i => Counted(seen) < i * Unit
  <2>1. Unit = Second
    BY <1>6 DEF Unit
  <2> HIDE DEF a, b, i
  <2> QED
    BY <1>1, <1>6, <2>1, SecondsMeasure
<1>7. ASSUME clockTimer.unit = "SEC" \/ (clockTimer.unit = "CHRONO" /\ ~seen.chrono)
      PROVE  /\ Value(clockTimer) >= i => Counted(seen) > (i - 1) * Unit
             /\ Value(clockTimer) < i => Counted(seen) < i * Unit
  <2>1. clockTimer.unit = "CHRONO" => ~seen.chrono /\ ~begun.chrono
    BY <1>7 DEF Uprooted
  <2>2. Value(clockTimer) = (b \div Second) - (a \div Second)
    BY <1>2, <1>7, <2>1 DEF ShownAt, Reading, CalendarAt
  <2>3. Counted(seen) = (b - a) + 0
    BY <1>7 DEF Counted
  <2> HIDE DEF a, b
  <2>4. /\ Value(clockTimer) = (b \div Second) - (a \div Second) + 0
        /\ Counted(seen) = (b - a) + 0 * Second
    BY <1>1, <1>3, <2>2, <2>3
  <2>5. clockTimer.unit # "MS"
    BY <1>7
  <2> QED
    BY <1>6, <2>4, <2>5
<1>8. CASE clockTimer.unit = "CHRONO" /\ seen.chrono
  <2> DEFINE x == seen.slept - begun.slept
             p == a \div Second
             q == b \div Second
  <2>1. begun.chrono
    BY <1>8 DEF Uprooted
  <2>2. p \in Nat /\ q \in Nat
    BY <1>1, <1>4
  <2>3. /\ CalendarAt(seen) = CalendarStart + q + seen.slept
        /\ CalendarAt(begun) = CalendarStart + p + begun.slept
    BY <1>8, <2>1 DEF CalendarAt
  <2>4. Counted(seen) = (b - a) + x * Second
    BY <1>8 DEF Counted
  <2> HIDE DEF p, q
  <2>5. CalendarAt(seen) # 0 /\ CalendarAt(begun) # 0
    BY <1>1, <2>2, <2>3
  <2>6. Value(clockTimer) = CalendarAt(seen) - CalendarAt(begun)
    BY <1>2, <1>8, <2>5 DEF ShownAt, Reading
  <2>7. Value(clockTimer) = q - p + x /\ x \in Int
    BY <1>1, <2>2, <2>3, <2>6
  <2> HIDE DEF x
  <2> QED
    BY <1>6, <1>8, <2>4, <2>7 DEF p, q
<1> QED
  BY <1>1, <1>5, <1>7, <1>8 DEF Units

(* The invariant says what the property says of the clocks, and the timers  *)
(* follow.                                                                  *)
LEMMA ClocksTell == ClockInv => TimersKeepTime
<1> SUFFICES ASSUME ClockInv
             PROVE  TimersKeepTime
  OBVIOUS
<1>1. SecondsFollow
  BY DEF ClockInv, ClocksRight, SecondsFollow
<1>2. NeverEarly /\ NeverLate
  <2>1. CASE clockTimer.interval = 0 \/ Uprooted
    BY <2>1 DEF NeverEarly, NeverLate, TimerExpired
  <2>2. CASE clockTimer.interval # 0 /\ ~Uprooted
    <3>1. Value(clockTimer) \in Int /\ clockTimer.interval \in Nat
      <4>1. /\ clockTimer.unit \in Units /\ clockTimer.interval \in Nat
            /\ seen \in SeenType /\ begun \in SeenType
        BY DEF ClockInv, ClockTypes
      <4>2. Value(clockTimer) = ShownAt(clockTimer.unit, seen) - ShownAt(clockTimer.unit, begun)
        BY <2>2 DEF ClockInv, ClocksRight, TimerBegun, Value, Stamp, ShownAt
      <4> QED
        BY <4>1, <4>2, ShownNumber
    <3>2. TimerExpired(clockTimer) <=> ~(Value(clockTimer) < clockTimer.interval)
      BY <2>2, <3>1 DEF TimerExpired
    <3> QED
      BY <2>2, <3>1, <3>2, TimerMeasured DEF NeverEarly, NeverLate, TimerExpired
  <2> QED
    BY <2>1, <2>2
<1> QED
  BY <1>1, <1>2 DEF TimersKeepTime

(* However long a second is and in however many parts clock_update is told   *)
(* of the time, the clock of seconds loses nothing of it; and a timer of any *)
(* unit, started and restarted at any time, expires neither early nor late.  *)
THEOREM ClockKeepsTime == ClockSpec => []TimersKeepTime
<1>1. ClockInit => ClockInv
  BY ClocksStart
<1>2. ClockInv /\ [ClockNext]_clockVars => ClockInv'
  BY ClockStep
<1>3. ClockInv => TimersKeepTime
  BY ClocksTell
<1> QED
  BY <1>1, <1>2, <1>3, PTL DEF ClockSpec

-----------------------------------------------------------------------------
(* MqttRecords.                                                            *)

\* The fields that point to memory.
Fields == {"first", "second", "data"}

\* A record owns a block through one of its fields only.
Apart(r) ==
    /\ r.first # NULL => r.first # r.second /\ r.first # r.data
    /\ r.second # NULL => r.second # r.data

\* The records, the blocks of memory and what was asked for belong together.
Kept(recs, mem, exp) ==
    /\ recs \in [Slots -> Record \cup {NULL}] /\ DOMAIN exp = Slots
    /\ exp = [s \in Slots |-> exp[s]]
    /\ IsFiniteSet(DOMAIN mem)
    /\ \A s \in Slots : recs[s] # NULL =>
        /\ Apart(recs[s])
        /\ Pointers(recs[s]) \subseteq DOMAIN mem
        /\ Shown(recs[s], mem) = exp[s]
    /\ \A b \in DOMAIN mem : \E s \in Slots : recs[s] # NULL /\ b \in Pointers(recs[s])
    /\ \A s, t \in Slots :
        recs[s] # NULL /\ recs[t] # NULL /\ s # t => Pointers(recs[s]) \cap Pointers(recs[t]) = {}

RecordsInv == Kept(records, memory, expected)

(* Of the blocks up to three more than there are used three are free.       *)
LEMMA ThreeAreFree ==
    ASSUME NEW U, IsFiniteSet(U)
    PROVE  \E f \in [1..3 -> 1..3 + Cardinality(U)] :
             f[1] < f[2] /\ f[2] < f[3] /\ {f[1], f[2], f[3]} \cap U = {}
<1> DEFINE n == Cardinality(U)
           I == 1..3 + n
           F == I \ U
<1>1. n \in Nat
  BY FS_CardinalityType
<1>2. IsFiniteSet(I) /\ Cardinality(I) = 3 + n
  <2> HIDE DEF n
  <2>1. 1 \in Int /\ 3 + n \in Int /\ ~(1 > 3 + n) /\ ((3 + n) - 1) + 1 = 3 + n
    BY <1>1
  <2> QED
    BY <2>1, FS_Interval
<1>3. IsFiniteSet(F) /\ Cardinality(F) \in Nat /\ Cardinality(F) >= 3
  <2> HIDE DEF n, I
  <2>1. IsFiniteSet(F) /\ Cardinality(F) = Cardinality(I) - Cardinality(I \cap U)
    BY <1>2, FS_Difference
  <2>2. IsFiniteSet(I \cap U) /\ Cardinality(I \cap U) <= n
    BY FS_Intersection DEF n
  <2>3. Cardinality(I \cap U) \in Nat
    BY <2>2, FS_CardinalityType
  <2> QED
    BY <1>1, <1>2, <2>1, <2>2, <2>3
<1> HIDE DEF F
<1>4. PICK a \in F : TRUE
  BY <1>3, FS_EmptySet
<1>5. IsFiniteSet(F \ {a}) /\ Cardinality(F \ {a}) = Cardinality(F) - 1
  BY <1>3, <1>4, FS_RemoveElement
<1>6. PICK b \in F \ {a} : TRUE
  BY <1>3, <1>5, FS_EmptySet
<1>7. IsFiniteSet((F \ {a}) \ {b}) /\ Cardinality((F \ {a}) \ {b}) = (Cardinality(F) - 1) - 1
  BY <1>5, <1>6, FS_RemoveElement
<1>8. PICK c \in (F \ {a}) \ {b} : TRUE
  BY <1>3, <1>7, FS_EmptySet
<1>9. a \in I /\ b \in I /\ c \in I /\ a \notin U /\ b \notin U /\ c \notin U
      /\ a # b /\ b # c /\ a # c
  BY <1>4, <1>6, <1>8 DEF F
<1>10. \E x, y, z \in I : x < y /\ y < z /\ {x, y, z} = {a, b, c}
  <2>1. a \in Int /\ b \in Int /\ c \in Int
    BY <1>9, <1>1
  <2> HIDE DEF I
  <2>2. \/ a < b /\ b < c
        \/ a < c /\ c < b
        \/ b < a /\ a < c
        \/ b < c /\ c < a
        \/ c < a /\ a < b
        \/ c < b /\ b < a
    BY <2>1, <1>9
  <2> QED
    BY <2>2, <1>9
<1>11. PICK x \in I, y \in I, z \in I : x < y /\ y < z /\ {x, y, z} = {a, b, c}
  BY <1>10
<1> DEFINE f == [i \in 1..3 |-> IF i = 1 THEN x ELSE IF i = 2 THEN y ELSE z]
<1>12. f \in [1..3 -> I] /\ f[1] = x /\ f[2] = y /\ f[3] = z
  <2> HIDE DEF I
  <2> QED
    OBVIOUS
<1> HIDE DEF f
<1>13. {x, y, z} \cap U = {}
  BY <1>9, <1>11
<1> QED
  BY <1>11, <1>12, <1>13

(* xmalloc returns blocks that are not in use, each once.                   *)
LEMMA FreeBlocksAreFree ==
    ASSUME IsFiniteSet(Used)
    PROVE  /\ \A i \in 1..3 : FreeBlocks[i] \in Nat /\ FreeBlocks[i] \notin Used
           /\ FreeBlocks[1] # FreeBlocks[2] /\ FreeBlocks[2] # FreeBlocks[3]
           /\ FreeBlocks[1] # FreeBlocks[3]
<1> DEFINE Free(f) == f[1] < f[2] /\ f[2] < f[3] /\ {f[1], f[2], f[3]} \cap Used = {}
           S == [1..3 -> 1..3 + Cardinality(Used)]
<1>1. \E f \in S : Free(f)
  BY ThreeAreFree
<1>2. FreeBlocks = CHOOSE f \in S : Free(f)
  BY DEF FreeBlocks
<1>3. FreeBlocks \in S /\ Free(FreeBlocks)
  <2> HIDE DEF S, Free
  <2> QED
    BY <1>1, <1>2
<1>4. Cardinality(Used) \in Nat
  BY FS_CardinalityType
<1>5. \A i \in 1..3 : FreeBlocks[i] \in 1..3 + Cardinality(Used)
  BY <1>3
<1>6. \A i \in 1..3 : FreeBlocks[i] \in Nat
  BY <1>4, <1>5
<1>7. \A i \in 1..3 : i = 1 \/ i = 2 \/ i = 3
  OBVIOUS
<1>8. \A i \in 1..3 : FreeBlocks[i] \notin Used
  BY <1>3, <1>7
<1> QED
  BY <1>3, <1>6, <1>8

\* What the program sees where p leads to.
Loaded(p, mem) == IF p = NULL THEN NULL ELSE IF p \in DOMAIN mem THEN mem[p] ELSE <<>>

(* What the program sees of a record, field by field.                       *)
LEMMA ShownFields ==
    ASSUME NEW r, NEW mem
    PROVE  Shown(r, mem) = [first |-> Loaded(r.first, mem), second |-> Loaded(r.second, mem),
                            data |-> Loaded(r.data, mem)]
<1>1. DOMAIN Nothing = Fields
  BY DEF Nothing, Fields
<1>2. Shown(r, mem) = [field \in Fields |-> Loaded(r[field], mem)]
  BY <1>1 DEF Shown, Loaded
<1>3. [first |-> Loaded(r.first, mem), second |-> Loaded(r.second, mem), data |-> Loaded(r.data, mem)]
        = [field \in Fields |-> Loaded(r[field], mem)]
  BY DEF Fields
<1> QED
  BY <1>2, <1>3

\* What a record shows.
IsContents(c) == c = [first |-> c.first, second |-> c.second, data |-> c.data]

(* A record that is filled gets blocks of its own, and shows the contents   *)
(* that were copied there.                                                  *)
LEMMA FilledEffect ==
    ASSUME IsFiniteSet(Used), NEW r \in Record, NEW contents, IsContents(contents),
           NEW length \in Nat, NEW setting \in Settings,
           NEW filled, filled = Filled(r, contents, length, setting)
    PROVE  /\ filled.record \in Record /\ Apart(filled.record)
           /\ Pointers(filled.record) \cap Used = {}
           /\ DOMAIN filled.memory = Used \cup Pointers(filled.record)
           /\ \A b \in Used : filled.memory[b] = memory[b]
           /\ Shown(filled.record, filled.memory) = contents
<1> DEFINE c1 == contents.first
           c2 == contents.second
           c3 == contents.data
           p1 == IF contents.first = NULL THEN NULL ELSE FreeBlocks[1]
           p2 == IF contents.second = NULL THEN NULL ELSE FreeBlocks[2]
           p3 == IF contents.data = NULL THEN NULL ELSE FreeBlocks[3]
           p == <<p1, p2, p3>>
           c == <<contents.first, contents.second, contents.data>>
           rec == [r EXCEPT !.first = p[1], !.second = p[2], !.data = p[3],
                            !.length = length, !.setting = setting]
           mem == [b \in Used \cup ({p[1], p[2], p[3]} \ {NULL}) |->
                     IF b \in Used THEN memory[b] ELSE c[CHOOSE i \in 1..3 : p[i] = b]]
<1>0. /\ contents.first = c1 /\ contents.second = c2 /\ contents.data = c3
      /\ contents = [first |-> c1, second |-> c2, data |-> c3]
  BY DEF IsContents
<1>1. /\ (p1 = NULL /\ c1 = NULL) \/ (p1 \in Nat /\ p1 \notin Used /\ c1 # NULL)
      /\ (p2 = NULL /\ c2 = NULL) \/ (p2 \in Nat /\ p2 \notin Used /\ c2 # NULL)
      /\ (p3 = NULL /\ c3 = NULL) \/ (p3 \in Nat /\ p3 \notin Used /\ c3 # NULL)
      /\ p1 # NULL => p1 # p2 /\ p1 # p3
      /\ p2 # NULL => p2 # p1 /\ p2 # p3
      /\ p3 # NULL => p3 # p1 /\ p3 # p2
  <2> DEFINE f1 == FreeBlocks[1]
             f2 == FreeBlocks[2]
             f3 == FreeBlocks[3]
  <2>1. 1 \in 1..3 /\ 2 \in 1..3 /\ 3 \in 1..3
    OBVIOUS
  <2>2. /\ f1 \in Nat /\ f2 \in Nat /\ f3 \in Nat
        /\ f1 \notin Used /\ f2 \notin Used /\ f3 \notin Used
        /\ f1 # f2 /\ f2 # f3 /\ f1 # f3
    BY <2>1, FreeBlocksAreFree
  <2>3. NULL # f1 /\ NULL # f2 /\ NULL # f3
    BY <2>2, RecordsAssumption
  <2> HIDE DEF f1, f2, f3
  <2> QED
    BY <1>0, <2>2, <2>3 DEF f1, f2, f3
<1>2. filled = [record |-> rec, memory |-> mem]
  BY Zenon DEF Filled
<1> HIDE DEF p1, p2, p3, c1, c2, c3
<1>12. p[1] = p1 /\ p[2] = p2 /\ p[3] = p3
  OBVIOUS
<1>3. filled.record = rec /\ filled.memory = mem
  BY <1>2
<1>4. /\ rec \in Record
      /\ rec.first = p1 /\ rec.second = p2 /\ rec.data = p3
  BY <1>1 DEF Record
<1>5. Pointers(rec) = {p1, p2, p3} \ {NULL}
  BY <1>4 DEF Pointers
<1>6. DOMAIN mem = Used \cup Pointers(rec) /\ \A b \in Used : mem[b] = memory[b]
  BY <1>5
<1>7. Loaded(p1, mem) = c1 /\ Loaded(p2, mem) = c2 /\ Loaded(p3, mem) = c3
  <2>1. p1 # NULL => (CHOOSE i \in 1..3 : p[i] = p1) = 1
    BY <1>1
  <2>2. p2 # NULL => (CHOOSE i \in 1..3 : p[i] = p2) = 2
    BY <1>1
  <2>3. p3 # NULL => (CHOOSE i \in 1..3 : p[i] = p3) = 3
    BY <1>1
  <2>4. c[1] = c1 /\ c[2] = c2 /\ c[3] = c3
    BY <1>0
  <2>5. /\ p1 # NULL => mem[p1] = c1
        /\ p2 # NULL => mem[p2] = c2
        /\ p3 # NULL => mem[p3] = c3
    <3> DEFINE Named(b) == CHOOSE i \in 1..3 : p[i] = b
    <3>1. \A b \in {p1, p2, p3} \ {NULL} : b \notin Used => mem[b] = c[Named(b)]
      OBVIOUS
    <3> HIDE DEF c, mem
    <3>2. /\ p1 # NULL => p1 \notin Used /\ Named(p1) = 1
          /\ p2 # NULL => p2 \notin Used /\ Named(p2) = 2
          /\ p3 # NULL => p3 \notin Used /\ Named(p3) = 3
      BY <1>1, <2>1, <2>2, <2>3
    <3> HIDE DEF Named
    <3> QED
      BY <3>1, <3>2, <2>4
  <2>6. /\ p1 # NULL => p1 \in DOMAIN mem
        /\ p2 # NULL => p2 \in DOMAIN mem
        /\ p3 # NULL => p3 \in DOMAIN mem
    OBVIOUS
  <2> HIDE DEF mem, p, c
  <2>7. ASSUME NEW a, NEW x, (a = NULL /\ x = NULL) \/ (a # NULL /\ a \in DOMAIN mem /\ mem[a] = x)
        PROVE  Loaded(a, mem) = x
    BY <2>7 DEF Loaded
  <2>8. Loaded(p1, mem) = c1
    BY <1>1, <2>5, <2>6, <2>7, RecordsAssumption
  <2>9. Loaded(p2, mem) = c2
    BY <1>1, <2>5, <2>6, <2>7, RecordsAssumption
  <2>10. Loaded(p3, mem) = c3
    BY <1>1, <2>5, <2>6, <2>7, RecordsAssumption
  <2> QED
    BY <2>8, <2>9, <2>10
<1>8. Shown(rec, mem) = contents
  <2> HIDE DEF mem, rec
  <2> QED
    BY <1>0, <1>4, <1>7, ShownFields
<1>9. Apart(rec)
  <2> HIDE DEF rec
  <2> QED
    BY <1>1, <1>4 DEF Apart
<1>10. Pointers(rec) \cap Used = {}
  BY <1>1, <1>5
<1> HIDE DEF rec, mem
<1> QED
  BY <1>3, <1>4, <1>6, <1>8, <1>9, <1>10

(* What a record shows depends on the blocks it points to only.             *)
LEMMA ShownElsewhere ==
    ASSUME NEW r, NEW mem, NEW mem2, Pointers(r) \subseteq DOMAIN mem,
           Pointers(r) \subseteq DOMAIN mem2, \A b \in Pointers(r) : mem2[b] = mem[b]
    PROVE  Shown(r, mem2) = Shown(r, mem)
<1>1. \A x \in {r.first, r.second, r.data} : Loaded(x, mem2) = Loaded(x, mem)
  BY DEF Loaded, Pointers
<1> QED
  BY <1>1, ShownFields

(* A record that points to nothing shows nothing.                           *)
LEMMA ShowsNothing ==
    ASSUME NEW r, NEW mem, Pointers(r) = {}
    PROVE  Shown(r, mem) = Nothing /\ Apart(r)
<1>1. r.first = NULL /\ r.second = NULL /\ r.data = NULL
  BY DEF Pointers
<1> QED
  BY <1>1, ShownFields DEF Loaded, Nothing, Apart

(* A slot that owns nothing gets a record with memory of its own.           *)
LEMMA FillKeeps ==
    ASSUME NEW recs, NEW mem, NEW exp, Kept(recs, mem, exp),
           NEW s \in Slots, recs[s] = NULL \/ Pointers(recs[s]) = {},
           NEW r \in Record, Apart(r), Pointers(r) \cap DOMAIN mem = {},
           NEW mem2, DOMAIN mem2 = DOMAIN mem \cup Pointers(r),
           \A b \in DOMAIN mem : mem2[b] = mem[b]
    PROVE  Kept([recs EXCEPT ![s] = r], mem2, [exp EXCEPT ![s] = Shown(r, mem2)])
<1> DEFINE recs2 == [recs EXCEPT ![s] = r]
           exp2 == [exp EXCEPT ![s] = Shown(r, mem2)]
<1>1. /\ recs \in [Slots -> Record \cup {NULL}]
      /\ recs2 \in [Slots -> Record \cup {NULL}] /\ recs2[s] = r
      /\ \A t \in Slots : t # s => recs2[t] = recs[t]
  BY DEF Kept
<1>2. /\ DOMAIN exp2 = Slots /\ exp2 = [t \in Slots |-> exp2[t]]
      /\ exp2[s] = Shown(r, mem2)
      /\ \A t \in Slots : t # s => exp2[t] = exp[t]
  BY DEF Kept
<1> HIDE DEF recs2, exp2
<1>3. IsFiniteSet(DOMAIN mem2)
  <2>1. IsFiniteSet(Pointers(r))
    <3>1. IsFiniteSet({r.first}) /\ IsFiniteSet({r.second}) /\ IsFiniteSet({r.data})
      BY FS_Singleton
    <3>2. IsFiniteSet({r.first} \cup {r.second})
      BY <3>1, FS_Union
    <3>3. IsFiniteSet(({r.first} \cup {r.second}) \cup {r.data})
      BY <3>1, <3>2, FS_Union
    <3>4. IsFiniteSet((({r.first} \cup {r.second}) \cup {r.data}) \ {NULL})
      BY <3>3, FS_Difference
    <3>5. Pointers(r) = (({r.first} \cup {r.second}) \cup {r.data}) \ {NULL}
      BY DEF Pointers
    <3> QED
      BY <3>4, <3>5
  <2>2. IsFiniteSet(DOMAIN mem)
    BY DEF Kept
  <2> QED
    BY <2>1, <2>2, FS_Union
<1>4. ASSUME NEW t \in Slots, recs2[t] # NULL
      PROVE  /\ Apart(recs2[t])
             /\ Pointers(recs2[t]) \subseteq DOMAIN mem2
             /\ Shown(recs2[t], mem2) = exp2[t]
  <2>1. CASE t = s
    BY <1>1, <1>2, <2>1
  <2>2. CASE t # s
    <3>1. recs2[t] = recs[t] /\ exp2[t] = exp[t]
      BY <1>1, <1>2, <2>2
    <3>2. Apart(recs[t]) /\ Pointers(recs[t]) \subseteq DOMAIN mem /\ Shown(recs[t], mem) = exp[t]
      BY <1>4, <3>1 DEF Kept
    <3>3. Pointers(recs[t]) \subseteq DOMAIN mem2 /\ \A b \in Pointers(recs[t]) : mem2[b] = mem[b]
      BY <3>2
    <3>4. Shown(recs[t], mem2) = Shown(recs[t], mem)
      BY <3>2, <3>3, ShownElsewhere
    <3> QED
      BY <3>1, <3>2, <3>3, <3>4
  <2> QED
    BY <2>1, <2>2
<1>5. r # NULL
  BY RecordsAssumption
<1>6. ASSUME NEW b \in DOMAIN mem2
      PROVE  \E t \in Slots : recs2[t] # NULL /\ b \in Pointers(recs2[t])
  <2>1. CASE b \in Pointers(r)
    BY <1>1, <1>5, <2>1
  <2>2. CASE b \in DOMAIN mem
    <3>1. PICK t \in Slots : recs[t] # NULL /\ b \in Pointers(recs[t])
      BY <2>2 DEF Kept
    <3>2. t # s
      BY <3>1
    <3> QED
      BY <1>1, <3>1, <3>2
  <2> QED
    BY <2>1, <2>2
<1>7. ASSUME NEW t \in Slots, NEW u \in Slots, recs2[t] # NULL, recs2[u] # NULL, t # u
      PROVE  Pointers(recs2[t]) \cap Pointers(recs2[u]) = {}
  <2>1. \A v \in Slots : v # s /\ recs2[v] # NULL => Pointers(recs2[v]) \subseteq DOMAIN mem
    BY <1>1 DEF Kept
  <2>2. CASE t # s /\ u # s
    <3>1. recs2[t] = recs[t] /\ recs2[u] = recs[u]
      BY <1>1, <2>2
    <3> QED
      BY <1>7, <3>1 DEF Kept
  <2>3. CASE t = s
    BY <1>1, <1>7, <2>1, <2>3
  <2>4. CASE u = s
    BY <1>1, <1>7, <2>1, <2>4
  <2> QED
    BY <2>2, <2>3, <2>4
<1>8. Kept(recs2, mem2, exp2)
  BY <1>1, <1>2, <1>3, <1>4, <1>6, <1>7 DEF Kept
<1> QED
  BY <1>8 DEF recs2, exp2

(* A slot gives up what it owns: another one still has what it had.         *)
LEMMA DropKeeps ==
    ASSUME NEW recs, NEW mem, NEW exp, Kept(recs, mem, exp),
           NEW s \in Slots, recs[s] # NULL,
           NEW r \in Record \cup {NULL}, r # NULL => Pointers(r) = {}
    PROVE  Kept([recs EXCEPT ![s] = r], Without(mem, Pointers(recs[s])),
                [exp EXCEPT ![s] = Nothing])
<1> DEFINE recs2 == [recs EXCEPT ![s] = r]
           exp2 == [exp EXCEPT ![s] = Nothing]
           mem2 == Without(mem, Pointers(recs[s]))
<1>1. /\ recs2 \in [Slots -> Record \cup {NULL}] /\ recs2[s] = r
      /\ \A t \in Slots : t # s => recs2[t] = recs[t]
  BY DEF Kept
<1>2. /\ DOMAIN exp2 = Slots /\ exp2 = [t \in Slots |-> exp2[t]]
      /\ exp2[s] = Nothing
      /\ \A t \in Slots : t # s => exp2[t] = exp[t]
  BY DEF Kept
<1>3. /\ DOMAIN mem2 = DOMAIN mem \ Pointers(recs[s])
      /\ \A b \in DOMAIN mem2 : mem2[b] = mem[b]
  BY DEF Without
<1> HIDE DEF recs2, exp2, mem2
<1>4. IsFiniteSet(DOMAIN mem2)
  <2>1. IsFiniteSet(DOMAIN mem)
    BY DEF Kept
  <2> QED
    BY <1>3, <2>1, FS_Difference
<1>5. ASSUME NEW t \in Slots, recs2[t] # NULL
      PROVE  /\ Apart(recs2[t])
             /\ Pointers(recs2[t]) \subseteq DOMAIN mem2
             /\ Shown(recs2[t], mem2) = exp2[t]
  <2>1. CASE t = s
    BY <1>1, <1>2, <1>5, <2>1, ShowsNothing
  <2>2. CASE t # s
    <3>1. recs2[t] = recs[t] /\ exp2[t] = exp[t]
      BY <1>1, <1>2, <2>2
    <3>2. Apart(recs[t]) /\ Pointers(recs[t]) \subseteq DOMAIN mem /\ Shown(recs[t], mem) = exp[t]
      BY <1>5, <3>1 DEF Kept
    <3>3. Pointers(recs[t]) \cap Pointers(recs[s]) = {}
      BY <1>5, <2>2, <3>1 DEF Kept
    <3>4. Pointers(recs[t]) \subseteq DOMAIN mem2 /\ \A b \in Pointers(recs[t]) : mem2[b] = mem[b]
      BY <1>3, <3>2, <3>3
    <3>5. Shown(recs[t], mem2) = Shown(recs[t], mem)
      BY <3>2, <3>4, ShownElsewhere
    <3> QED
      BY <3>1, <3>2, <3>4, <3>5
  <2> QED
    BY <2>1, <2>2
<1>6. ASSUME NEW b \in DOMAIN mem2
      PROVE  \E t \in Slots : recs2[t] # NULL /\ b \in Pointers(recs2[t])
  <2>1. PICK t \in Slots : recs[t] # NULL /\ b \in Pointers(recs[t])
    BY <1>3 DEF Kept
  <2>2. t # s
    BY <1>3, <2>1
  <2> QED
    BY <1>1, <2>1, <2>2
<1>7. ASSUME NEW t \in Slots, NEW u \in Slots, recs2[t] # NULL, recs2[u] # NULL, t # u
      PROVE  Pointers(recs2[t]) \cap Pointers(recs2[u]) = {}
  <2>1. CASE t # s /\ u # s
    <3>1. recs2[t] = recs[t] /\ recs2[u] = recs[u]
      BY <1>1, <2>1
    <3> QED
      BY <1>7, <3>1 DEF Kept
  <2>2. CASE t = s \/ u = s
    BY <1>1, <1>7, <2>2
  <2> QED
    BY <2>1, <2>2
<1>8. Kept(recs2, mem2, exp2)
  BY <1>1, <1>2, <1>4, <1>5, <1>6, <1>7 DEF Kept
<1> QED
  BY <1>8 DEF recs2, exp2, mem2

(* What one slot owns goes to another that owns nothing.                    *)
LEMMA MoveKeeps ==
    ASSUME NEW recs, NEW mem, NEW exp, Kept(recs, mem, exp),
           NEW to \in Slots, NEW from \in Slots, to # from,
           recs[to] # NULL, Pointers(recs[to]) = {}, recs[from] # NULL,
           NEW r \in Record, Pointers(r) = {}
    PROVE  Kept([recs EXCEPT ![to] = recs[from], ![from] = r], mem,
                [exp EXCEPT ![to] = exp[from], ![from] = Nothing])
<1> DEFINE recs2 == [recs EXCEPT ![to] = recs[from], ![from] = r]
           exp2 == [exp EXCEPT ![to] = exp[from], ![from] = Nothing]
<1>1. /\ recs2 \in [Slots -> Record \cup {NULL}]
      /\ recs2[to] = recs[from] /\ recs2[from] = r
      /\ \A t \in Slots : t # to /\ t # from => recs2[t] = recs[t]
  BY DEF Kept
<1>2. /\ DOMAIN exp2 = Slots /\ exp2 = [t \in Slots |-> exp2[t]]
      /\ exp2[to] = exp[from] /\ exp2[from] = Nothing
      /\ \A t \in Slots : t # to /\ t # from => exp2[t] = exp[t]
  BY DEF Kept
<1> HIDE DEF recs2, exp2
<1>3. IsFiniteSet(DOMAIN mem)
  BY DEF Kept
<1>4. \A t \in Slots : recs[t] # NULL =>
        /\ Apart(recs[t]) /\ Pointers(recs[t]) \subseteq DOMAIN mem
        /\ Shown(recs[t], mem) = exp[t]
  BY DEF Kept
<1>5. ASSUME NEW t \in Slots, recs2[t] # NULL
      PROVE  /\ Apart(recs2[t])
             /\ Pointers(recs2[t]) \subseteq DOMAIN mem
             /\ Shown(recs2[t], mem) = exp2[t]
  <2>1. CASE t = from
    BY <1>1, <1>2, <2>1, ShowsNothing
  <2>2. CASE t = to
    BY <1>1, <1>2, <1>4, <2>2
  <2>3. CASE t # to /\ t # from
    BY <1>1, <1>2, <1>4, <1>5, <2>3
  <2> QED
    BY <2>1, <2>2, <2>3
<1>6. ASSUME NEW b \in DOMAIN mem
      PROVE  \E t \in Slots : recs2[t] # NULL /\ b \in Pointers(recs2[t])
  <2>1. PICK t \in Slots : recs[t] # NULL /\ b \in Pointers(recs[t])
    BY DEF Kept
  <2>2. CASE t = from
    BY <1>1, <2>1, <2>2
  <2>3. CASE t # from
    <3>1. t # to
      BY <2>1
    <3> QED
      BY <1>1, <2>1, <2>3, <3>1
  <2> QED
    BY <2>2, <2>3
<1>7. ASSUME NEW t \in Slots, NEW u \in Slots, recs2[t] # NULL, recs2[u] # NULL, t # u
      PROVE  Pointers(recs2[t]) \cap Pointers(recs2[u]) = {}
  <2>0. \A v, w \in Slots : recs[v] # NULL /\ recs[w] # NULL /\ v # w
                              => Pointers(recs[v]) \cap Pointers(recs[w]) = {}
    BY DEF Kept
  <2>1. CASE t = from \/ u = from
    BY <1>1, <2>1
  <2>2. CASE t # from /\ u # from
    <3>1. CASE t = to
      BY <1>1, <1>7, <2>0, <2>2, <3>1
    <3>2. CASE u = to
      BY <1>1, <1>7, <2>0, <2>2, <3>2
    <3>3. CASE t # to /\ u # to
      BY <1>1, <1>7, <2>0, <2>2, <3>3
    <3> QED
      BY <3>1, <3>2, <3>3
  <2> QED
    BY <2>1, <2>2
<1>8. Kept(recs2, mem, exp2)
  <2>1. \A b \in DOMAIN mem : \E t \in Slots : recs2[t] # NULL /\ b \in Pointers(recs2[t])
    BY <1>6
  <2> QED
    BY <1>1, <1>2, <1>3, <1>5, <2>1, <1>7 DEF Kept
<1> QED
  BY <1>8 DEF recs2, exp2

(* A record as init leaves it.                                              *)
LEMMA InitialRecord ==
    ASSUME NEW kind \in {"msg", "conf"}
    PROVE  /\ Initial(kind) \in Record /\ Initial(kind) # NULL
           /\ Pointers(Initial(kind)) = {}
<1>1. DefaultSetting \in Settings
  BY RecordsAssumption DEF DefaultSetting
<1>2. Initial(kind) \in Record
  BY <1>1 DEF Initial, Record
<1> QED
  BY <1>2, RecordsAssumption DEF Initial, Pointers

(* A record whose memory is freed, or was moved, is a record without any.   *)
LEMMA EmptiedRecord ==
    ASSUME NEW r \in Record
    PROVE  /\ Cleaned(r) \in Record /\ Pointers(Cleaned(r)) = {}
           /\ MovedFrom(r) \in Record /\ Pointers(MovedFrom(r)) = {}
  BY DEF Cleaned, MovedFrom, Record, Pointers

(* Without a record nothing is lost.                                        *)
LEMMA RecordsStart ==
    ASSUME RecordsInit
    PROVE  RecordsInv
<1>1. DOMAIN memory = {} /\ IsFiniteSet({})
  BY FS_EmptySet DEF RecordsInit
<1>2. /\ records \in [Slots -> Record \cup {NULL}] /\ \A s \in Slots : records[s] = NULL
      /\ DOMAIN expected = Slots /\ expected = [s \in Slots |-> expected[s]]
  BY DEF RecordsInit
<1> QED
  BY <1>1, <1>2 DEF RecordsInv, Kept

(* What is filled in a slot without memory: create and copy.                *)
LEMMA FilledKeeps ==
    ASSUME RecordsInv, NEW s \in Slots, records[s] = NULL \/ Pointers(records[s]) = {},
           NEW r \in Record, NEW contents, IsContents(contents),
           NEW length \in Nat, NEW setting \in Settings,
           NEW filled, filled = Filled(r, contents, length, setting),
           records' = [records EXCEPT ![s] = filled.record],
           memory' = filled.memory,
           expected' = [expected EXCEPT ![s] = contents]
    PROVE  RecordsInv'
<1>1. IsFiniteSet(Used) /\ Kept(records, memory, expected)
  BY DEF RecordsInv, Kept, Used
<1>2. /\ filled.record \in Record /\ Apart(filled.record)
      /\ Pointers(filled.record) \cap Used = {}
      /\ DOMAIN filled.memory = Used \cup Pointers(filled.record)
      /\ \A b \in Used : filled.memory[b] = memory[b]
      /\ Shown(filled.record, filled.memory) = contents
  BY <1>1, FilledEffect
<1> DEFINE rec == filled.record
           mem2 == filled.memory
<1>3. /\ rec \in Record /\ Apart(rec) /\ Pointers(rec) \cap DOMAIN memory = {}
      /\ DOMAIN mem2 = DOMAIN memory \cup Pointers(rec)
      /\ \A b \in DOMAIN memory : mem2[b] = memory[b]
  BY <1>2 DEF Used
<1> HIDE DEF rec, mem2
<1>4. Kept([records EXCEPT ![s] = rec], mem2, [expected EXCEPT ![s] = Shown(rec, mem2)])
  BY <1>1, <1>3, FillKeeps
<1>5. Kept(records', memory', expected')
  BY <1>2, <1>4 DEF rec, mem2
<1> QED
  BY <1>5 DEF RecordsInv

(* Each function keeps the records as they belong together.                 *)
LEMMA RecordsStep ==
    ASSUME RecordsInv, [RecordsNext]_recordVars
    PROVE  RecordsInv'
<1>1. /\ Kept(records, memory, expected)
      /\ records \in [Slots -> Record \cup {NULL}]
  BY DEF RecordsInv, Kept
<1>2. ASSUME NEW s \in Slots, NEW kind \in {"msg", "conf"}, NewRecord(s, kind)
      PROVE  RecordsInv'
  <2> DEFINE r == Initial(kind)
  <2>1. r \in Record /\ Pointers(r) = {} /\ Apart(r) /\ Shown(r, memory) = Nothing
    BY InitialRecord, ShowsNothing
  <2> HIDE DEF r
  <2>2. records[s] = NULL
    BY <1>2 DEF NewRecord, Exists
  <2>3. Kept([records EXCEPT ![s] = r], memory, [expected EXCEPT ![s] = Shown(r, memory)])
    BY <1>1, <2>1, <2>2, FillKeeps
  <2>4. Kept(records', memory', expected')
    BY <1>2, <2>1, <2>3 DEF NewRecord, r
  <2> QED
    BY <2>4 DEF RecordsInv
<1>3. ASSUME NEW s \in Slots, CreateMsg(s)
      PROVE  RecordsInv'
  <2>1. PICK topic \in Texts, payload \in Datas, setting \in Settings :
          LET contents == [first |-> topic, second |-> NULL, data |-> payload]
              filled == Filled(Initial("msg"), contents, Len(payload), setting)
          IN  /\ records' = [records EXCEPT ![s] = filled.record]
              /\ memory' = filled.memory
              /\ expected' = [expected EXCEPT ![s] = contents]
    BY <1>3 DEF CreateMsg
  <2> DEFINE contents == [first |-> topic, second |-> NULL, data |-> payload]
             length == Len(payload)
             r == Initial("msg")
             filled == Filled(r, contents, length, setting)
  <2>2. r \in Record
    BY InitialRecord
  <2>3. payload \in Seq(Byte)
    BY RecordsAssumption
  <2>4. length \in Nat
    BY <2>3
  <2>5. IsContents(contents)
    BY DEF IsContents
  <2>6. records[s] = NULL
    BY <1>3 DEF CreateMsg, Exists
  <2>7. /\ records' = [records EXCEPT ![s] = filled.record]
        /\ memory' = filled.memory
        /\ expected' = [expected EXCEPT ![s] = contents]
    BY <2>1
  <2>8. filled = Filled(r, contents, length, setting)
    OBVIOUS
  <2> HIDE DEF contents, length, r, filled
  <2> QED
    BY <2>2, <2>4, <2>5, <2>6, <2>7, <2>8, FilledKeeps
<1>4. ASSUME NEW s \in Slots, CreateConf(s)
      PROVE  RecordsInv'
  <2>1. PICK id \in Texts \cup {NULL}, user \in Texts \cup {NULL}, password \in Datas \cup {NULL},
             setting \in Settings :
          LET kept == IF password # NULL /\ password # <<>> THEN password ELSE NULL
              contents == [first |-> id, second |-> user, data |-> kept]
              filled == Filled(Initial("conf"), contents, IF kept = NULL THEN 0 ELSE Len(kept), setting)
          IN  /\ records' = [records EXCEPT ![s] = filled.record]
              /\ memory' = filled.memory
              /\ expected' = [expected EXCEPT ![s] = contents]
    BY <1>4 DEF CreateConf
  <2> DEFINE kept == IF password # NULL /\ password # <<>> THEN password ELSE NULL
             contents == [first |-> id, second |-> user, data |-> kept]
             length == IF kept = NULL THEN 0 ELSE Len(kept)
             r == Initial("conf")
             filled == Filled(r, contents, length, setting)
  <2>2. r \in Record
    BY InitialRecord
  <2>3. kept = NULL \/ kept \in Seq(Byte)
    BY RecordsAssumption
  <2>4. length \in Nat
    <3> HIDE DEF kept
    <3> QED
      BY <2>3
  <2>5. IsContents(contents)
    BY DEF IsContents
  <2>6. records[s] = NULL
    BY <1>4 DEF CreateConf, Exists
  <2>7. /\ records' = [records EXCEPT ![s] = filled.record]
        /\ memory' = filled.memory
        /\ expected' = [expected EXCEPT ![s] = contents]
    BY <2>1
  <2>8. filled = Filled(r, contents, length, setting)
    OBVIOUS
  <2> HIDE DEF kept, contents, length, r, filled
  <2> QED
    BY <2>2, <2>4, <2>5, <2>6, <2>7, <2>8, FilledKeeps
<1>5. ASSUME NEW s \in Slots, CleanRecord(s)
      PROVE  RecordsInv'
  <2> DEFINE r == Cleaned(records[s])
  <2>1. records[s] # NULL /\ records[s] \in Record
    BY <1>1, <1>5 DEF CleanRecord, Exists
  <2>2. r \in Record /\ Pointers(r) = {}
    BY <2>1, EmptiedRecord
  <2>3. /\ records' = [records EXCEPT ![s] = r]
        /\ expected' = [expected EXCEPT ![s] = Nothing]
        /\ memory' = Without(memory, Pointers(records[s]))
    <3>1. memory' = Without(memory, Pointers(records[s]) \ Pointers(r))
      BY <1>5 DEF CleanRecord
    <3>2. Pointers(records[s]) \ Pointers(r) = Pointers(records[s])
      BY <2>2
    <3> QED
      BY <1>1, <1>5, <3>1, <3>2 DEF CleanRecord
  <2> HIDE DEF r
  <2>4. Kept([records EXCEPT ![s] = r], Without(memory, Pointers(records[s])),
             [expected EXCEPT ![s] = Nothing])
    BY <1>1, <2>1, <2>2, DropKeeps
  <2>5. Kept(records', memory', expected')
    BY <2>3, <2>4
  <2> QED
    BY <2>5 DEF RecordsInv
<1>6. ASSUME NEW s \in Slots, InitRecord(s)
      PROVE  RecordsInv'
  <2> DEFINE r == Initial(records[s].kind)
  <2>1. records[s] # NULL /\ records[s] \in Record /\ Pointers(records[s]) = {}
    BY <1>1, <1>6 DEF InitRecord, Exists
  <2>2. records[s].kind \in {"msg", "conf"}
    BY <2>1 DEF Record
  <2>3. r \in Record /\ Pointers(r) = {} /\ Apart(r) /\ Shown(r, memory) = Nothing
    BY <2>2, InitialRecord, ShowsNothing
  <2>4. expected[s] = Nothing
    <3>1. expected[s] = Shown(records[s], memory)
      BY <1>1, <2>1 DEF Kept
    <3> QED
      BY <2>1, <3>1, ShowsNothing
  <2>5. expected = [expected EXCEPT ![s] = Shown(r, memory)]
    <3>1. expected = [t \in Slots |-> expected[t]]
      BY <1>1 DEF Kept
    <3> QED
      BY <2>3, <2>4, <3>1
  <2>6. records' = [records EXCEPT ![s] = r] /\ memory' = memory /\ expected' = expected
    BY <1>1, <1>6 DEF InitRecord
  <2> HIDE DEF r
  <2>7. Kept([records EXCEPT ![s] = r], memory, [expected EXCEPT ![s] = Shown(r, memory)])
    BY <1>1, <2>1, <2>3, FillKeeps
  <2>8. Kept(records', memory', expected')
    BY <2>5, <2>6, <2>7
  <2> QED
    BY <2>8 DEF RecordsInv
<1>7. ASSUME NEW s \in Slots, DeleteRecord(s)
      PROVE  RecordsInv'
  <2>1. records[s] # NULL /\ records[s] \in Record
    BY <1>1, <1>7 DEF DeleteRecord, Exists
  <2>2. Pointers(Cleaned(records[s])) = {}
    BY <2>1, EmptiedRecord
  <2>3. /\ records' = [records EXCEPT ![s] = NULL]
        /\ expected' = [expected EXCEPT ![s] = Nothing]
        /\ memory' = Without(memory, Pointers(records[s]))
    <3>1. memory' = Without(memory, Pointers(records[s]) \ Pointers(Cleaned(records[s])))
      BY <1>7 DEF DeleteRecord
    <3>2. Pointers(records[s]) \ Pointers(Cleaned(records[s])) = Pointers(records[s])
      BY <2>2
    <3> QED
      BY <1>7, <3>1, <3>2 DEF DeleteRecord
  <2>4. Kept([records EXCEPT ![s] = NULL], Without(memory, Pointers(records[s])),
             [expected EXCEPT ![s] = Nothing])
    <3> DEFINE r == NULL
    <3>1. r \in Record \cup {NULL} /\ (r # NULL => Pointers(r) = {})
      OBVIOUS
    <3> HIDE DEF r
    <3>2. Kept([records EXCEPT ![s] = r], Without(memory, Pointers(records[s])),
               [expected EXCEPT ![s] = Nothing])
      BY <1>1, <2>1, <3>1, DropKeeps
    <3> QED
      BY <3>2 DEF r
  <2>5. Kept(records', memory', expected')
    BY <2>3, <2>4
  <2> QED
    BY <2>5 DEF RecordsInv
<1>8. ASSUME NEW to \in Slots, NEW from \in Slots, MayFill(to, from)
      PROVE  /\ to # from /\ records[to] # NULL /\ records[from] # NULL
             /\ records[to] \in Record /\ records[from] \in Record
             /\ Pointers(records[to]) = {}
  <2>1. /\ to # from /\ records[to] # NULL /\ records[from] # NULL
        /\ records[to] = Initial(records[from].kind)
    BY <1>8 DEF MayFill, Exists
  <2>2. records[to] \in Record /\ records[from] \in Record
    BY <1>1, <2>1
  <2>3. records[from].kind \in {"msg", "conf"}
    BY <2>2 DEF Record
  <2> QED
    BY <2>1, <2>2, <2>3, InitialRecord
<1>9. ASSUME NEW to \in Slots, NEW from \in Slots, CopyRecord(to, from)
      PROVE  RecordsInv'
  <2> DEFINE r == records[from]
             t == records[to]
             contents == Shown(r, memory)
             length == IF r.data = NULL THEN 0 ELSE r.length
             setting == r.setting
             filled == Filled(t, contents, length, setting)
  <2>1. r # NULL /\ t \in Record /\ r \in Record /\ Pointers(t) = {}
    BY <1>8, <1>9 DEF CopyRecord
  <2>2. length \in Nat /\ setting \in Settings
    BY <2>1 DEF Record
  <2>3. IsContents(contents)
    BY ShownFields DEF IsContents
  <2>4. contents = expected[from]
    BY <1>1, <2>1 DEF Kept
  <2>5. /\ records' = [records EXCEPT ![to] = filled.record]
        /\ memory' = filled.memory
        /\ expected' = [expected EXCEPT ![to] = contents]
    BY <1>9, <2>4 DEF CopyRecord
  <2>6. filled = Filled(t, contents, length, setting)
    OBVIOUS
  <2>7. records[to] = NULL \/ Pointers(records[to]) = {}
    BY <2>1
  <2> HIDE DEF r, t, contents, length, setting, filled
  <2> QED
    BY <2>1, <2>2, <2>3, <2>5, <2>6, <2>7, FilledKeeps
<1>10. ASSUME NEW to \in Slots, NEW from \in Slots, MoveRecord(to, from)
       PROVE  RecordsInv'
  <2> DEFINE r == MovedFrom(records[from])
  <2>1. /\ to # from /\ records[to] # NULL /\ records[from] # NULL
        /\ records[from] \in Record /\ Pointers(records[to]) = {}
    BY <1>8, <1>10 DEF MoveRecord
  <2>2. r \in Record /\ Pointers(r) = {}
    BY <2>1, EmptiedRecord
  <2>3. /\ records' = [records EXCEPT ![to] = records[from], ![from] = r]
        /\ memory' = memory
        /\ expected' = [expected EXCEPT ![to] = expected[from], ![from] = Nothing]
    BY <1>1, <1>10, <2>1 DEF MoveRecord
  <2> HIDE DEF r
  <2>4. Kept([records EXCEPT ![to] = records[from], ![from] = r], memory,
             [expected EXCEPT ![to] = expected[from], ![from] = Nothing])
    BY <1>1, <2>1, <2>2, MoveKeeps
  <2>5. Kept(records', memory', expected')
    BY <2>3, <2>4
  <2> QED
    BY <2>5 DEF RecordsInv
<1>11. CASE UNCHANGED recordVars
  BY <1>1, <1>11 DEF recordVars, RecordsInv
<1>12. CASE RecordsNext
  BY <1>2, <1>3, <1>4, <1>5, <1>6, <1>7, <1>9, <1>10, <1>12 DEF RecordsNext
<1> QED
  BY <1>11, <1>12

(* The blocks of a record are as many as its fields that have one.          *)
LEMMA OneBlockPerField ==
    ASSUME NEW r, Apart(r)
    PROVE  Cardinality(Pointers(r)) = Cardinality({f \in DOMAIN Nothing : r[f] # NULL})
<1> DEFINE S == {f \in Fields : r[f] # NULL}
           g == [f \in S |-> r[f]]
<1>1. DOMAIN Nothing = Fields
  BY DEF Nothing, Fields
<1>2. IsFiniteSet(Fields)
  <2>1. IsFiniteSet({"first"}) /\ IsFiniteSet({"second"}) /\ IsFiniteSet({"data"})
    BY FS_Singleton
  <2>2. IsFiniteSet({"first"} \cup {"second"})
    BY <2>1, FS_Union
  <2>3. IsFiniteSet(({"first"} \cup {"second"}) \cup {"data"})
    BY <2>1, <2>2, FS_Union
  <2>4. Fields = ({"first"} \cup {"second"}) \cup {"data"}
    BY DEF Fields
  <2> QED
    BY <2>3, <2>4
<1>3. IsFiniteSet(S)
  <2>1. S \in SUBSET Fields
    OBVIOUS
  <2> HIDE DEF S
  <2> QED
    BY <1>2, <2>1, FS_Subset
<1>4. g \in Bijection(S, Pointers(r))
  <2>1. \A f \in S : (f = "first" \/ f = "second" \/ f = "data") /\ r[f] # NULL
    BY DEF Fields
  <2>2. "first" \in Fields /\ "second" \in Fields /\ "data" \in Fields
    BY DEF Fields
  <2>3. \A f \in S : r[f] \in Pointers(r)
    BY <2>1 DEF Pointers
  <2>4. \A b \in Pointers(r) : \E f \in S : r[f] = b
    BY <2>2 DEF Pointers
  <2>5. \A e, f \in S : r[e] = r[f] => e = f
    BY <2>1 DEF Apart
  <2> HIDE DEF S
  <2>6. g \in [S -> Pointers(r)] /\ \A f \in S : g[f] = r[f]
    BY <2>3
  <2> HIDE DEF g
  <2>7. g \in Injection(S, Pointers(r))
    BY <2>5, <2>6 DEF Injection, IsInjective
  <2>8. g \in Surjection(S, Pointers(r))
    BY <2>4, <2>6 DEF Surjection
  <2> QED
    BY <2>7, <2>8 DEF Bijection
<1>5. ExistsBijection(S, Pointers(r))
  BY <1>4 DEF ExistsBijection
<1> HIDE DEF S
<1>6. Cardinality(Pointers(r)) = Cardinality(S)
  BY <1>3, <1>5, FS_Bijection
<1> QED
  BY <1>1, <1>6 DEF S

(* However records are copied, moved, cleaned and deleted: each holds what  *)
(* it was given, and each block of memory has one owner until it is freed.  *)
THEOREM RecordsOwnTheirMemory == RecordsSpec => []RecordsIndependent
<1>1. RecordsInv => RecordsIndependent
  <2> SUFFICES ASSUME RecordsInv
               PROVE  RecordsKeepValues /\ OneOwner
    BY DEF RecordsIndependent
  <2>1. \A s \in Existing : s \in Slots /\ records[s] # NULL
    BY DEF Existing, Exists
  <2>2. \A s \in Slots : records[s] # NULL => s \in Existing
    BY DEF Existing, Exists
  <2>3. Kept(records, memory, expected)
    BY DEF RecordsInv
  <2>4. RecordsKeepValues
    BY <2>1, <2>3 DEF RecordsKeepValues, Kept
  <2>5. Used = UNION {Pointers(records[s]) : s \in Existing}
    <3>1. ASSUME NEW b \in Used
          PROVE  \E s \in Existing : b \in Pointers(records[s])
      BY <2>2, <2>3 DEF Used, Kept
    <3>2. \A s \in Existing : Pointers(records[s]) \subseteq Used
      BY <2>1, <2>3 DEF Used, Kept
    <3> QED
      BY <3>1, <3>2
  <2>6. \A s, t \in Existing : s # t => Pointers(records[s]) \cap Pointers(records[t]) = {}
    BY <2>1, <2>3 DEF Kept
  <2>7. \A s \in Existing : Apart(records[s])
    BY <2>1, <2>3 DEF Kept
  <2>8. \A s \in Existing : Cardinality(Pointers(records[s]))
                              = Cardinality({f \in DOMAIN Nothing : records[s][f] # NULL})
    BY <2>7, OneBlockPerField
  <2> QED
    BY <2>4, <2>5, <2>6, <2>8 DEF OneOwner
<1>2. RecordsInit => RecordsInv
  BY RecordsStart
<1>3. RecordsInv /\ [RecordsNext]_recordVars => RecordsInv'
  BY RecordsStep
<1> QED
  BY <1>1, <1>2, <1>3, PTL DEF RecordsSpec

-----------------------------------------------------------------------------
(* StreamLife.                                                             *)

\* P[b] is what the block b points to.  Whatever is there has one owner, which is
\* another block or, for what is in R, the application, and can be reached from R.
Tree(P, R) ==
    /\ \A b \in DOMAIN P : P[b] \subseteq DOMAIN P \ {b}
    /\ R \subseteq DOMAIN P
    /\ \A b, c \in DOMAIN P : b # c => P[b] \cap P[c] = {}
    /\ \A b \in DOMAIN P : P[b] \cap R = {}
    /\ \A S \in SUBSET DOMAIN P :
        R \subseteq S /\ (\A b \in S : P[b] \subseteq S) => S = DOMAIN P

(* A block that is allocated belongs to another one.                        *)
LEMMA TreeHangs ==
    ASSUME NEW P, NEW R, Tree(P, R), NEW s \in DOMAIN P, NEW n, n \notin DOMAIN P,
           NEW P2, DOMAIN P2 = DOMAIN P \cup {n}, P2[n] = {}, P2[s] = P[s] \cup {n},
           \A b \in DOMAIN P : b # s => P2[b] = P[b]
    PROVE  Tree(P2, R)
<1>1. \A b \in DOMAIN P2 : P2[b] \subseteq DOMAIN P2 \ {b}
  BY DEF Tree
<1>2. R \subseteq DOMAIN P2 /\ n \notin R
  BY DEF Tree
<1>3. ASSUME NEW b \in DOMAIN P2, NEW c \in DOMAIN P2, b # c
      PROVE  P2[b] \cap P2[c] = {}
  <2>1. \A a \in DOMAIN P : n \notin P[a]
    BY DEF Tree
  <2>2. CASE b = n \/ c = n
    BY <2>2
  <2>3. CASE b # n /\ c # n
    <3>1. P[b] \cap P[c] = {}
      BY <1>3, <2>3 DEF Tree
    <3> QED
      BY <1>3, <2>1, <2>3, <3>1
  <2> QED
    BY <2>2, <2>3
<1>4. \A b \in DOMAIN P2 : P2[b] \cap R = {}
  BY <1>2 DEF Tree
<1>5. ASSUME NEW S \in SUBSET DOMAIN P2, R \subseteq S, \A b \in S : P2[b] \subseteq S
      PROVE  S = DOMAIN P2
  <2> DEFINE S1 == S \ {n}
  <2>1. S1 \in SUBSET DOMAIN P /\ R \subseteq S1
    BY <1>2, <1>5
  <2>2. \A b \in S1 : P[b] \subseteq S1
    BY <1>5, <2>1 DEF Tree
  <2>3. S1 = DOMAIN P
    BY <2>1, <2>2 DEF Tree
  <2>4. n \in S
    BY <1>5, <2>3
  <2> QED
    BY <2>3, <2>4
<1> QED
  BY <1>1, <1>2, <1>3, <1>4, <1>5 DEF Tree

(* A block that is allocated belongs to the application.                    *)
LEMMA TreeStarts ==
    ASSUME NEW P, NEW R, Tree(P, R), NEW n, n \notin DOMAIN P,
           NEW P2, DOMAIN P2 = DOMAIN P \cup {n}, P2[n] = {},
           \A b \in DOMAIN P : P2[b] = P[b]
    PROVE  Tree(P2, R \cup {n})
<1>1. \A b \in DOMAIN P2 : P2[b] \subseteq DOMAIN P2 \ {b}
  BY DEF Tree
<1>2. R \cup {n} \subseteq DOMAIN P2
  BY DEF Tree
<1>3. \A b, c \in DOMAIN P2 : b # c => P2[b] \cap P2[c] = {}
  BY DEF Tree
<1>4. \A b \in DOMAIN P2 : P2[b] \cap (R \cup {n}) = {}
  BY DEF Tree
<1>5. ASSUME NEW S \in SUBSET DOMAIN P2, R \cup {n} \subseteq S, \A b \in S : P2[b] \subseteq S
      PROVE  S = DOMAIN P2
  <2> DEFINE S1 == S \ {n}
  <2>1. S1 \in SUBSET DOMAIN P /\ R \subseteq S1
    BY <1>5 DEF Tree
  <2>2. \A b \in S1 : P[b] \subseteq S1
    BY <1>5, <2>1 DEF Tree
  <2>3. S1 = DOMAIN P
    BY <2>1, <2>2 DEF Tree
  <2> QED
    BY <1>5, <2>3
<1> QED
  BY <1>1, <1>2, <1>3, <1>4, <1>5 DEF Tree

(* The application gives away root for a new block that points to it.       *)
LEMMA TreeGrowsUp ==
    ASSUME NEW P, NEW R, Tree(P, R), NEW root \in R, NEW n, n \notin DOMAIN P,
           NEW P2, DOMAIN P2 = DOMAIN P \cup {n}, P2[n] = {root},
           \A b \in DOMAIN P : P2[b] = P[b]
    PROVE  Tree(P2, (R \ {root}) \cup {n})
<1> DEFINE R2 == (R \ {root}) \cup {n}
<1>0. root \in DOMAIN P /\ root # n
  BY DEF Tree
<1>1. \A b \in DOMAIN P2 : P2[b] \subseteq DOMAIN P2 \ {b}
  BY <1>0 DEF Tree
<1>2. R2 \subseteq DOMAIN P2
  BY DEF Tree
<1>3. \A b, c \in DOMAIN P2 : b # c => P2[b] \cap P2[c] = {}
  BY DEF Tree
<1>4. \A b \in DOMAIN P2 : P2[b] \cap R2 = {}
  BY <1>0 DEF Tree
<1>5. ASSUME NEW S \in SUBSET DOMAIN P2, R2 \subseteq S, \A b \in S : P2[b] \subseteq S
      PROVE  S = DOMAIN P2
  <2> DEFINE S1 == S \ {n}
  <2>1. S1 \in SUBSET DOMAIN P /\ R \subseteq S1
    BY <1>0, <1>5 DEF Tree
  <2>2. \A b \in S1 : P[b] \subseteq S1
    BY <1>5, <2>1 DEF Tree
  <2>3. S1 = DOMAIN P
    BY <2>1, <2>2 DEF Tree
  <2> QED
    BY <1>5, <2>3
<1> QED
  BY <1>1, <1>2, <1>3, <1>4, <1>5 DEF Tree

(* Blocks are freed with all they point to, and nothing points to them any  *)
(* more.                                                                    *)
LEMMA TreePruned ==
    ASSUME NEW P, NEW R, Tree(P, R), NEW D \in SUBSET DOMAIN P, \A b \in D : P[b] \subseteq D,
           NEW P2, DOMAIN P2 = DOMAIN P \ D, \A b \in DOMAIN P2 : P2[b] = P[b] \ D
    PROVE  Tree(P2, R \ D)
<1>1. \A b \in DOMAIN P2 : P2[b] \subseteq DOMAIN P2 \ {b}
  BY DEF Tree
<1>2. R \ D \subseteq DOMAIN P2
  BY DEF Tree
<1>3. \A b, c \in DOMAIN P2 : b # c => P2[b] \cap P2[c] = {}
  <2>1. \A b, c \in DOMAIN P2 : b # c => P[b] \cap P[c] = {}
    BY DEF Tree
  <2> QED
    BY <2>1
<1>4. \A b \in DOMAIN P2 : P2[b] \cap (R \ D) = {}
  <2>1. \A b \in DOMAIN P2 : P[b] \cap R = {}
    BY DEF Tree
  <2> QED
    BY <2>1
<1>5. ASSUME NEW S \in SUBSET DOMAIN P2, R \ D \subseteq S, \A b \in S : P2[b] \subseteq S
      PROVE  S = DOMAIN P2
  <2> DEFINE S1 == S \cup D
  <2>1. S1 \in SUBSET DOMAIN P /\ R \subseteq S1
    BY <1>5
  <2>2. \A b \in S1 : P[b] \subseteq S1
    <3>1. \A b \in S : P2[b] = P[b] \ D /\ P2[b] \subseteq S
      BY <1>5
    <3> QED
      BY <3>1
  <2>3. S1 = DOMAIN P
    BY <2>1, <2>2 DEF Tree
  <2> QED
    BY <1>5, <2>3
<1> QED
  BY <1>1, <1>2, <1>3, <1>4, <1>5 DEF Tree

-----------------------------------------------------------------------------

(* A set of numbers of blocks that is not empty has a lowest one.           *)
LEMMA LowestBlock ==
    ASSUME NEW T \in SUBSET Nat, T # {}
    PROVE  \E x \in T : \A y \in T : x <= y
<1>1. PICK x \in T : \A y \in T : ~ (<<y, x>> \in OpToRel(<, Nat))
  BY NatLessThanWellFounded, WFMin
<1>2. \A y \in T : ~ (y < x)
  BY <1>1 DEF OpToRel
<1> QED
  BY <1>2

(* As long as there is room, xmalloc returns blocks that are free, and      *)
(* another one when it is called again.                                     *)
LEMMA NewBlocks ==
    ASSUME DOMAIN heap \in SUBSET (1..MaxBlocks), NEW n \in {1, 2}, Room(n)
    PROVE  /\ NewBlock(1) \in 1..MaxBlocks /\ NewBlock(1) \notin DOMAIN heap
           /\ n = 2 => /\ NewBlock(2) \in 1..MaxBlocks /\ NewBlock(2) \notin DOMAIN heap
                       /\ NewBlock(2) # NewBlock(1)
<1> DEFINE F == (1..MaxBlocks) \ InUse
           Below(b) == {c \in (1..b - 1) \ InUse : TRUE}
           Count(b) == Cardinality(Below(b))
<1>1. MaxBlocks \in Nat /\ InUse = DOMAIN heap
  BY LifeAssumption DEF InUse
<1>2. IsFiniteSet(1..MaxBlocks) /\ Cardinality(1..MaxBlocks) = MaxBlocks
  BY <1>1, FS_Interval
<1>3. IsFiniteSet(InUse) /\ Cardinality(InUse) \in Nat
  BY <1>1, <1>2, FS_Subset, FS_CardinalityType
<1>4. IsFiniteSet(F) /\ Cardinality(F) = MaxBlocks - Cardinality(InUse)
  <2>1. (1..MaxBlocks) \cap InUse = InUse
    BY <1>1
  <2> QED
    BY <1>2, <2>1, FS_Difference
<1>5. Cardinality(F) >= n
  BY <1>4 DEF Room
<1>6. F \in SUBSET Nat
  BY <1>1
<1>7. F # {}
  <2> HIDE DEF F
  <2> QED
    BY <1>5, FS_EmptySet
<1>8. PICK m1 \in F : \A b \in F : m1 <= b
  <2> HIDE DEF F
  <2> QED
    BY <1>6, <1>7, LowestBlock
<1>9. Below(m1) = {}
  <2> SUFFICES ASSUME NEW c \in (1..m1 - 1) \ InUse
               PROVE  FALSE
    OBVIOUS
  <2>1. m1 \in Nat /\ m1 <= MaxBlocks
    BY <1>1, <1>8
  <2>2. c \in F /\ c < m1
    BY <1>1, <2>1
  <2> HIDE DEF F
  <2> QED
    BY <1>6, <1>8, <2>2
<1>10. Count(m1) = 0
  BY <1>9, FS_EmptySet
<1>11. NewBlock(1) \in F /\ Count(NewBlock(1)) = 0
  <2>1. NewBlock(1) = CHOOSE b \in F : Count(b) = 1 - 1
    BY DEF NewBlock
  <2>2. 1 - 1 = 0
    OBVIOUS
  <2> HIDE DEF F, Count
  <2> QED
    BY <1>8, <1>10, <2>1, <2>2
<1>12. ASSUME n = 2
       PROVE  NewBlock(2) \in F /\ NewBlock(2) # NewBlock(1)
  <2>1. IsFiniteSet(F \ {m1}) /\ Cardinality(F \ {m1}) = Cardinality(F) - 1
    <3> HIDE DEF F
    <3> QED
      BY <1>4, <1>8, FS_RemoveElement
  <2>2. F \ {m1} # {}
    <3> HIDE DEF F
    <3>1. Cardinality(F) \in Nat
      BY <1>4, FS_CardinalityType
    <3>2. Cardinality(F \ {m1}) # 0
      BY <1>5, <1>12, <2>1, <3>1
    <3> QED
      BY <3>2, FS_EmptySet
  <2>3. PICK m2 \in F \ {m1} : \A b \in F \ {m1} : m2 <= b
    <3> DEFINE T == F \ {m1}
    <3>1. T \in SUBSET Nat /\ T # {}
      BY <1>6, <2>2
    <3> HIDE DEF T
    <3>2. \E x \in T : \A y \in T : x <= y
      BY <3>1, LowestBlock
    <3> QED
      BY <3>2 DEF T
  <2>4. Below(m2) = {m1}
    <3>1. m1 \in Nat /\ m2 \in Nat /\ m1 <= m2 /\ m1 # m2 /\ m2 <= MaxBlocks
      BY <1>1, <1>6, <1>8, <2>3
    <3>2. m1 \in (1..m2 - 1) \ InUse
      BY <1>1, <1>8, <3>1
    <3>3. ASSUME NEW c \in (1..m2 - 1) \ InUse
          PROVE  c = m1
      <4>1. c \in F /\ c < m2
        BY <1>1, <3>1
      <4> HIDE DEF F
      <4> QED
        BY <1>6, <2>3, <3>1, <4>1
    <3> QED
      BY <3>2, <3>3
  <2>5. Count(m2) = 1
    BY <2>4, FS_Singleton
  <2>6. NewBlock(2) = CHOOSE b \in F : Count(b) = 2 - 1
    BY DEF NewBlock
  <2>7. 2 - 1 = 1
    OBVIOUS
  <2>8. m2 \in F
    BY <2>3
  <2> HIDE DEF F, Count
  <2>9. NewBlock(2) \in F /\ Count(NewBlock(2)) = 1
    BY <2>5, <2>6, <2>7, <2>8
  <2> QED
    BY <1>11, <2>9
<1> QED
  BY <1>1, <1>11, <1>12

-----------------------------------------------------------------------------

Blocks == 1..MaxBlocks

Owners == {"observer", "listener", "buffer", "extra"}

ObjectType ==
    [kind : Kinds \cup {"item", "memory"}, decorated : Blocks \cup {NULL},
     observer : Blocks \cup {NULL}, listener : Blocks \cup {NULL},
     buffer : Blocks \cup {NULL}, extra : Blocks \cup {NULL},
     queues : [Queues -> Seq(Blocks)]]

(* NULL is no block.                                                        *)
LEMMA NullIsNoBlock == NULL \notin Blocks
  BY LifeAssumption DEF Blocks

(* The kinds of streams and their queues.                                   *)
LEMMA KindsAndQueues ==
    /\ Kinds = {"base", "ssl", "ws", "mqtt"}
    /\ Queues = {"outgoing", "cache", "incoming", "pending", "inbound", "released"}
    /\ \A k \in Kinds : QueuesOf[k] \subseteq Queues /\ "outgoing" \in QueuesOf[k]
<1>1. Kinds = {"base", "ssl", "ws", "mqtt"}
  BY DEF Kinds, QueuesOf
<1>2. /\ QueuesOf["base"] = {"outgoing"} /\ QueuesOf["ssl"] = {"outgoing"}
      /\ QueuesOf["ws"] = {"outgoing", "cache"}
      /\ QueuesOf["mqtt"] = {"outgoing", "incoming", "pending", "inbound", "released"}
  BY DEF QueuesOf
<1>3. Queues = {"outgoing", "cache", "incoming", "pending", "inbound", "released"}
  <2>1. Queues = UNION {QueuesOf[k] : k \in Kinds}
    BY DEF Queues, Kinds
  <2>2. Queues = QueuesOf["base"] \cup QueuesOf["ssl"] \cup QueuesOf["ws"] \cup QueuesOf["mqtt"]
    <3> HIDE DEF QueuesOf
    <3> QED
      BY <1>1, <2>1
  <2> QED
    BY <1>2, <2>2
<1> QED
  BY <1>1, <1>2, <1>3

(* What an object points to.                                                *)
LEMMA PointersAre ==
    ASSUME NEW o
    PROVE  PointersOf(o) = ({o.decorated, o.observer, o.listener, o.buffer, o.extra} \ {NULL})
                           \cup Queued(o)
<1>1. {o[f] : f \in SinglePointers} = {o.decorated, o.observer, o.listener, o.buffer, o.extra}
  BY DEF SinglePointers
<1> QED
  BY <1>1 DEF PointersOf

(* A new object points to nothing.                                          *)
LEMMA NewObject ==
    ASSUME NEW kind \in Kinds \cup {"item", "memory"}
    PROVE  /\ Object(kind) \in ObjectType /\ PointersOf(Object(kind)) = {}
           /\ Object(kind).kind = kind
           /\ Object(kind).queues = [q \in Queues |-> <<>>]
<1> DEFINE o == Object(kind)
<1>1. o \in ObjectType /\ o.kind = kind /\ o.queues = [q \in Queues |-> <<>>]
      /\ o.decorated = NULL /\ o.observer = NULL /\ o.listener = NULL /\ o.buffer = NULL
      /\ o.extra = NULL
  <2>1. <<>> \in Seq(Blocks)
    OBVIOUS
  <2> QED
    BY <2>1 DEF Object, ObjectType
<1> HIDE DEF o
<1>2. \A q \in Queues : o.queues[q] = <<>>
  BY <1>1
<1>3. DOMAIN <<>> = {}
  OBVIOUS
<1>4. Queued(o) = {}
  BY <1>2, <1>3 DEF Queued
<1>5. PointersOf(o) = {}
  BY <1>1, <1>4, PointersAre
<1> QED
  BY <1>1, <1>5 DEF o

\* What blocks of each kind can point to at all.
Form(o) ==
    /\ o.kind = "memory" => PointersOf(o) = {}
    /\ o.kind = "item" => o.decorated = NULL /\ o.observer = NULL /\ o.listener = NULL
                          /\ o.extra = NULL /\ Queued(o) = {}
    /\ o.kind \in Kinds => \A q \in Queues \ QueuesOf[o.kind] : o.queues[q] = <<>>
    /\ o.kind = "base" => o.listener = NULL /\ o.buffer = NULL /\ o.extra = NULL
    /\ o.kind = "ssl" => o.listener = NULL /\ o.buffer = NULL
    /\ o.kind = "ws" => o.listener = NULL
    /\ o.kind = "mqtt" => o.extra = NULL

\* What is at the other end is of the right kind.
Targets(h, o) ==
    /\ o.decorated # NULL => h[o.decorated].kind \in Kinds
    /\ \A f \in Owners : o[f] # NULL => h[o[f]].kind = "memory"
    /\ \A b \in Queued(o) : h[b].kind = "item"

\* An object does not point twice to the same block.
Distinct(o) ==
    /\ \A e, f \in Owners : e # f /\ o[e] # NULL => o[e] # o[f]
    /\ \A q, r \in Queues : \A i \in DOMAIN o.queues[q], j \in DOMAIN o.queues[r] :
        o.queues[q][i] = o.queues[r][j] => q = r /\ i = j

Links(h) == [b \in DOMAIN h |-> PointersOf(h[b])]

Owned(h, R) ==
    /\ DOMAIN h \subseteq Blocks /\ h \in [DOMAIN h -> ObjectType]
    /\ \A b \in DOMAIN h : Form(h[b]) /\ Distinct(h[b]) /\ Targets(h, h[b])
    /\ Tree(Links(h), R)
    /\ \A b \in R : h[b].kind \in Kinds

LifeInv == Owned(heap, roots)

(* The fields of an object are among its pointers.                          *)
LEMMA FieldsPoint ==
    ASSUME NEW o
    PROVE  /\ o.decorated # NULL => o.decorated \in PointersOf(o)
           /\ \A f \in Owners : o[f] # NULL => o[f] \in PointersOf(o)
           /\ Queued(o) \subseteq PointersOf(o)
<1>1. PointersOf(o) = ({o.decorated, o.observer, o.listener, o.buffer, o.extra} \ {NULL})
                      \cup Queued(o)
  BY PointersAre
<1>2. \A f \in Owners : f = "observer" \/ f = "listener" \/ f = "buffer" \/ f = "extra"
  BY DEF Owners
<1> QED
  BY <1>1, <1>2

(* What an object points to is of the right kind as long as kinds stay.     *)
LEMMA TargetsStay ==
    ASSUME NEW h, NEW h2, NEW o, Targets(h, o),
           \A p \in PointersOf(o) : h2[p].kind = h[p].kind
    PROVE  Targets(h2, o)
  BY FieldsPoint DEF Targets

(* The pointers of the blocks of a heap.                                    *)
LEMMA LinksOf ==
    ASSUME NEW h
    PROVE  DOMAIN Links(h) = DOMAIN h /\ \A b \in DOMAIN h : Links(h)[b] = PointersOf(h[b])
  BY DEF Links

(* No pointer leads out of the heap.                                        *)
LEMMA LinksStay ==
    ASSUME NEW h, NEW R, Owned(h, R), NEW b \in DOMAIN h
    PROVE  PointersOf(h[b]) \subseteq DOMAIN h \ {b}
  BY LinksOf DEF Owned, Tree

\* The object o2 is o without some of its pointers.
Part(o2, o) ==
    /\ o2.kind = o.kind
    /\ o2.decorated \in {o.decorated, NULL}
    /\ \A f \in Owners : o2[f] \in {o[f], NULL}
    /\ Queued(o2) \subseteq Queued(o)
    /\ \A q \in Queues : o.queues[q] = <<>> => o2.queues[q] = <<>>

(* An object that loses pointers keeps its form.                            *)
LEMMA PartForm ==
    ASSUME NEW o, NEW o2, Part(o2, o), Form(o)
    PROVE  Form(o2)
<1>1. /\ o2.observer \in {o.observer, NULL} /\ o2.listener \in {o.listener, NULL}
      /\ o2.buffer \in {o.buffer, NULL} /\ o2.extra \in {o.extra, NULL}
  BY DEF Part, Owners
<1>2. PointersOf(o2) \subseteq PointersOf(o)
  BY <1>1, PointersAre DEF Part
<1>3. o2.kind = o.kind /\ o2.decorated \in {o.decorated, NULL} /\ Queued(o2) \subseteq Queued(o)
      /\ \A q \in Queues : o.queues[q] = <<>> => o2.queues[q] = <<>>
  BY DEF Part
<1> QED
  BY <1>1, <1>2, <1>3 DEF Form

(* Blocks are freed with all they point to, and those that are left forget  *)
(* them.                                                                    *)
LEMMA FreeKeeps ==
    ASSUME NEW h, NEW R, Owned(h, R), NEW D \in SUBSET DOMAIN h,
           \A b \in D : PointersOf(h[b]) \subseteq D,
           NEW h2 \in [DOMAIN h \ D -> ObjectType],
           \A b \in DOMAIN h \ D :
               Part(h2[b], h[b]) /\ Distinct(h2[b]) /\ PointersOf(h2[b]) = PointersOf(h[b]) \ D
    PROVE  Owned(h2, R \ D)
<1>1. DOMAIN h2 = DOMAIN h \ D
  OBVIOUS
<1>2. Tree(Links(h2), R \ D)
  <2> DEFINE P == Links(h)
             P2 == Links(h2)
  <2>1. /\ DOMAIN P = DOMAIN h /\ \A b \in DOMAIN h : P[b] = PointersOf(h[b])
        /\ DOMAIN P2 = DOMAIN h2 /\ \A b \in DOMAIN h2 : P2[b] = PointersOf(h2[b])
    BY LinksOf
  <2>2. Tree(P, R)
    BY DEF Owned
  <2> HIDE DEF P, P2
  <2>3. D \in SUBSET DOMAIN P /\ \A b \in D : P[b] \subseteq D
    BY <2>1
  <2>4. DOMAIN P2 = DOMAIN P \ D /\ \A b \in DOMAIN P2 : P2[b] = P[b] \ D
    BY <1>1, <2>1
  <2>5. Tree(P2, R \ D)
    BY <2>2, <2>3, <2>4, TreePruned
  <2> QED
    BY <2>5 DEF P2
<1>3. ASSUME NEW b \in DOMAIN h2
      PROVE  Form(h2[b]) /\ Distinct(h2[b]) /\ Targets(h2, h2[b])
  <2>1. b \in DOMAIN h /\ Part(h2[b], h[b]) /\ Form(h[b]) /\ Targets(h, h[b])
    BY <1>1 DEF Owned
  <2>2. Form(h2[b])
    BY <2>1, PartForm
  <2>3. Targets(h, h2[b])
    BY <2>1 DEF Part, Targets
  <2>4. PointersOf(h2[b]) \subseteq DOMAIN h2
    BY <1>2, LinksOf DEF Tree
  <2>5. \A p \in PointersOf(h2[b]) : h2[p].kind = h[p].kind
    BY <1>1, <2>4 DEF Part
  <2>6. Targets(h2, h2[b])
    BY <2>3, <2>5, TargetsStay
  <2> QED
    BY <1>1, <2>2, <2>6
<1>4. \A b \in R \ D : h2[b].kind \in Kinds
  <2>1. R \subseteq DOMAIN h
    BY LinksOf DEF Owned, Tree
  <2> QED
    BY <2>1 DEF Owned, Part
<1>5. DOMAIN h2 \subseteq Blocks /\ h2 \in [DOMAIN h2 -> ObjectType]
  BY <1>1 DEF Owned
<1> QED
  BY <1>2, <1>3, <1>4, <1>5 DEF Owned

(* What is not touched still points to blocks of the right kind when a      *)
(* block is allocated.                                                      *)
LEMMA TargetsWhenAllocated ==
    ASSUME NEW h, NEW R, Owned(h, R), NEW h2, \A b \in DOMAIN h : h2[b].kind = h[b].kind
    PROVE  \A b \in DOMAIN h : Targets(h2, h[b])
<1> SUFFICES ASSUME NEW b \in DOMAIN h
             PROVE  Targets(h2, h[b])
  OBVIOUS
<1>1. \A p \in PointersOf(h[b]) : h2[p].kind = h[p].kind
  BY LinksStay
<1>2. Targets(h, h[b])
  BY DEF Owned
<1> QED
  BY <1>1, <1>2, TargetsStay

(* A new object has the form of its kind.                                   *)
LEMMA NewForm ==
    ASSUME NEW kind \in Kinds \cup {"item", "memory"}
    PROVE  /\ Form(Object(kind)) /\ Distinct(Object(kind)) /\ Queued(Object(kind)) = {}
           /\ \A h : Targets(h, Object(kind))
<1> DEFINE o == Object(kind)
<1>1. /\ o.decorated = NULL /\ o.observer = NULL /\ o.listener = NULL /\ o.buffer = NULL
      /\ o.extra = NULL /\ \A q \in Queues : o.queues[q] = <<>>
  BY DEF Object
<1>2. PointersOf(o) = {}
  BY NewObject
<1> HIDE DEF o
<1>3. Queued(o) = {}
  BY <1>2, FieldsPoint
<1>4. \A f \in Owners : o[f] = NULL
  BY <1>1 DEF Owners
<1>5. Distinct(o)
  <2>1. DOMAIN <<>> = {}
    OBVIOUS
  <2> QED
    BY <1>1, <1>4, <2>1 DEF Distinct
<1>6. Form(o)
  BY <1>1, <1>2, <1>3 DEF Form
<1>7. \A h : Targets(h, o)
  BY <1>1, <1>3, <1>4 DEF Targets
<1> QED
  BY <1>3, <1>5, <1>6, <1>7 DEF o

\* The object o2 is o with a pointer to the block n of kind k.
Hung(o2, o, n, k) ==
    /\ Form(o2) /\ Distinct(o2)
    /\ o2.kind = o.kind /\ o2.decorated = o.decorated
    /\ \A f \in Owners : o2[f] = o[f] \/ (k = "memory" /\ o2[f] = n)
    /\ \A b \in Queued(o2) : b \in Queued(o) \/ (k = "item" /\ b = n)
    /\ PointersOf(o2) = PointersOf(o) \cup {n}

(* A block is allocated for an object that is there.                        *)
LEMMA HangKeeps ==
    ASSUME NEW h, NEW R, Owned(h, R), NEW s \in DOMAIN h, NEW n \in Blocks, n \notin DOMAIN h,
           NEW k \in {"memory", "item"},
           NEW h2, DOMAIN h2 = DOMAIN h \cup {n}, h2 \in [DOMAIN h2 -> ObjectType],
           h2[n] = Object(k), \A b \in DOMAIN h : b # s => h2[b] = h[b],
           Hung(h2[s], h[s], n, k)
    PROVE  Owned(h2, R)
<1>1. \A b \in DOMAIN h : h2[b].kind = h[b].kind
  BY DEF Hung
<1>2. \A b \in DOMAIN h : Targets(h2, h[b]) /\ Form(h[b]) /\ Distinct(h[b])
  BY <1>1, TargetsWhenAllocated DEF Owned
<1>3. Tree(Links(h2), R)
  <2> DEFINE P == Links(h)
             P2 == Links(h2)
  <2>1. /\ DOMAIN P = DOMAIN h /\ \A b \in DOMAIN h : P[b] = PointersOf(h[b])
        /\ DOMAIN P2 = DOMAIN h2 /\ \A b \in DOMAIN h2 : P2[b] = PointersOf(h2[b])
    BY LinksOf
  <2>2. Tree(P, R)
    BY DEF Owned
  <2> HIDE DEF P, P2
  <2>3. PointersOf(h2[n]) = {} /\ PointersOf(h2[s]) = PointersOf(h[s]) \cup {n}
    BY NewObject DEF Hung
  <2>4. /\ s \in DOMAIN P /\ n \notin DOMAIN P /\ DOMAIN P2 = DOMAIN P \cup {n}
        /\ P2[n] = {} /\ P2[s] = P[s] \cup {n} /\ \A b \in DOMAIN P : b # s => P2[b] = P[b]
    BY <2>1, <2>3
  <2>5. Tree(P2, R)
    BY <2>2, <2>4, TreeHangs
  <2> QED
    BY <2>5 DEF P2
<1>4. h2[n].kind = k
  BY NewObject
<1>5. Targets(h2, h2[s])
  <2>1. Targets(h2, h[s])
    BY <1>2
  <2>2. h2[s].decorated # NULL => h2[h2[s].decorated].kind \in Kinds
    BY <2>1 DEF Targets, Hung
  <2>3. ASSUME NEW f \in Owners, h2[s][f] # NULL
        PROVE  h2[h2[s][f]].kind = "memory"
    <3>1. h2[s][f] = h[s][f] \/ (k = "memory" /\ h2[s][f] = n)
      BY DEF Hung
    <3> QED
      BY <1>4, <2>1, <2>3, <3>1 DEF Targets
  <2>4. ASSUME NEW b \in Queued(h2[s])
        PROVE  h2[b].kind = "item"
    <3>1. b \in Queued(h[s]) \/ (k = "item" /\ b = n)
      BY DEF Hung
    <3> QED
      BY <1>4, <2>1, <3>1 DEF Targets
  <2> QED
    BY <2>2, <2>3, <2>4 DEF Targets
<1>6. ASSUME NEW b \in DOMAIN h2
      PROVE  Form(h2[b]) /\ Distinct(h2[b]) /\ Targets(h2, h2[b])
  <2>1. CASE b = n
    BY <2>1, NewForm
  <2>2. CASE b = s
    BY <1>5, <2>2 DEF Hung
  <2>3. CASE b # n /\ b # s
    BY <1>2, <2>3
  <2> QED
    BY <2>1, <2>2, <2>3
<1>7. \A b \in R : h2[b].kind \in Kinds
  <2>1. R \subseteq DOMAIN h
    BY LinksOf DEF Owned, Tree
  <2> QED
    BY <1>1, <2>1 DEF Owned
<1>8. DOMAIN h2 \subseteq Blocks
  BY DEF Owned
<1> QED
  BY <1>3, <1>6, <1>7, <1>8 DEF Owned

(* A stream is made for the application.                                    *)
LEMMA StartKeeps ==
    ASSUME NEW h, NEW R, Owned(h, R), NEW n \in Blocks, n \notin DOMAIN h,
           NEW h2, DOMAIN h2 = DOMAIN h \cup {n}, h2 \in [DOMAIN h2 -> ObjectType],
           h2[n] = Object("base"), \A b \in DOMAIN h : h2[b] = h[b]
    PROVE  Owned(h2, R \cup {n})
<1>1. \A b \in DOMAIN h : Targets(h2, h[b]) /\ Form(h[b]) /\ Distinct(h[b])
  BY TargetsWhenAllocated DEF Owned
<1>2. "base" \in Kinds
  BY KindsAndQueues
<1>3. Tree(Links(h2), R \cup {n})
  <2> DEFINE P == Links(h)
             P2 == Links(h2)
  <2>1. /\ DOMAIN P = DOMAIN h /\ \A b \in DOMAIN h : P[b] = PointersOf(h[b])
        /\ DOMAIN P2 = DOMAIN h2 /\ \A b \in DOMAIN h2 : P2[b] = PointersOf(h2[b])
    BY LinksOf
  <2>2. Tree(P, R)
    BY DEF Owned
  <2> HIDE DEF P, P2
  <2>3. PointersOf(h2[n]) = {}
    BY <1>2, NewObject
  <2>4. /\ n \notin DOMAIN P /\ DOMAIN P2 = DOMAIN P \cup {n}
        /\ P2[n] = {} /\ \A b \in DOMAIN P : P2[b] = P[b]
    BY <2>1, <2>3
  <2>5. Tree(P2, R \cup {n})
    BY <2>2, <2>4, TreeStarts
  <2> QED
    BY <2>5 DEF P2
<1>4. \A b \in DOMAIN h2 : Form(h2[b]) /\ Distinct(h2[b]) /\ Targets(h2, h2[b])
  BY <1>1, <1>2, NewForm
<1>5. \A b \in R \cup {n} : h2[b].kind \in Kinds
  <2>1. R \subseteq DOMAIN h
    BY LinksOf DEF Owned, Tree
  <2>2. h2[n].kind = "base"
    BY <1>2, NewObject
  <2> QED
    BY <1>2, <2>1, <2>2 DEF Owned
<1>6. DOMAIN h2 \subseteq Blocks
  BY DEF Owned
<1> QED
  BY <1>3, <1>4, <1>5, <1>6 DEF Owned

(* A stream that decorates another one takes its place.                     *)
LEMMA GrowKeeps ==
    ASSUME NEW h, NEW R, Owned(h, R), NEW root \in R, NEW n \in Blocks, n \notin DOMAIN h,
           NEW kind \in Kinds, NEW h2, DOMAIN h2 = DOMAIN h \cup {n},
           h2[n] = [Object(kind) EXCEPT !.decorated = root], \A b \in DOMAIN h : h2[b] = h[b],
           h2 \in [DOMAIN h2 -> ObjectType]
    PROVE  Owned(h2, (R \ {root}) \cup {n})
<1> DEFINE o == h2[n]
           R2 == (R \ {root}) \cup {n}
<1>1. \A b \in DOMAIN h : Targets(h2, h[b]) /\ Form(h[b]) /\ Distinct(h[b])
  BY TargetsWhenAllocated DEF Owned
<1>2. R \subseteq DOMAIN h
  BY LinksOf DEF Owned, Tree
<1>3. /\ o.kind = kind /\ o.decorated = root /\ o.observer = NULL /\ o.listener = NULL
      /\ o.buffer = NULL /\ o.extra = NULL /\ \A q \in Queues : o.queues[q] = <<>>
  BY DEF Object
<1> HIDE DEF o
<1>4. Queued(o) = {}
  <2>1. DOMAIN <<>> = {}
    OBVIOUS
  <2> QED
    BY <1>3, <2>1 DEF Queued
<1>5. root \in Blocks /\ root # NULL
  BY <1>2, NullIsNoBlock DEF Owned
<1>6. PointersOf(o) = {root}
  BY <1>3, <1>4, <1>5, PointersAre
<1>7. \A f \in Owners : o[f] = NULL
  BY <1>3 DEF Owners
<1>8. Distinct(o)
  <2>1. DOMAIN <<>> = {}
    OBVIOUS
  <2> QED
    BY <1>3, <1>7, <2>1 DEF Distinct
<1>9. Form(o)
  <2>1. kind \notin {"memory", "item"}
    BY KindsAndQueues
  <2> QED
    BY <1>3, <2>1 DEF Form
<1>10. h2[root].kind \in Kinds
  BY <1>2 DEF Owned
<1>11. Targets(h2, o)
  BY <1>3, <1>4, <1>7, <1>10 DEF Targets
<1>12. Tree(Links(h2), R2)
  <2> DEFINE P == Links(h)
             P2 == Links(h2)
  <2>1. /\ DOMAIN P = DOMAIN h /\ \A b \in DOMAIN h : P[b] = PointersOf(h[b])
        /\ DOMAIN P2 = DOMAIN h2 /\ \A b \in DOMAIN h2 : P2[b] = PointersOf(h2[b])
    BY LinksOf
  <2>2. Tree(P, R)
    BY DEF Owned
  <2> HIDE DEF P, P2
  <2>4. /\ n \notin DOMAIN P /\ DOMAIN P2 = DOMAIN P \cup {n}
        /\ P2[n] = {root} /\ \A b \in DOMAIN P : P2[b] = P[b]
    BY <1>6, <2>1 DEF o
  <2>5. Tree(P2, R2)
    BY <2>2, <2>4, TreeGrowsUp
  <2> QED
    BY <2>5 DEF P2
<1>13. \A b \in DOMAIN h2 : Form(h2[b]) /\ Distinct(h2[b]) /\ Targets(h2, h2[b])
  BY <1>1, <1>8, <1>9, <1>11 DEF o
<1>14. \A b \in R2 : h2[b].kind \in Kinds
  BY <1>2, <1>3 DEF Owned, o
<1>15. DOMAIN h2 \subseteq Blocks
  BY DEF Owned
<1> QED
  BY <1>12, <1>13, <1>14, <1>15 DEF Owned

\* The field f of o becomes p.
FieldIs(o2, o, f, p) == o2 = [o EXCEPT ![f] = p]

(* The fields of an object of which one is set.                             *)
LEMMA FieldSet ==
    ASSUME NEW o \in ObjectType, NEW f \in Owners, NEW p \in Blocks \cup {NULL},
           NEW o2, FieldIs(o2, o, f, p)
    PROVE  /\ o2 \in ObjectType /\ o2.kind = o.kind /\ o2.decorated = o.decorated
           /\ o2.queues = o.queues /\ o2[f] = p
           /\ \A e \in Owners : e # f => o2[e] = o[e]
           /\ Queued(o2) = Queued(o)
<1>1. f = "observer" \/ f = "listener" \/ f = "buffer" \/ f = "extra"
  BY DEF Owners
<1>2. /\ o2 \in ObjectType /\ o2.kind = o.kind /\ o2.decorated = o.decorated
      /\ o2.queues = o.queues /\ o2[f] = p
      /\ \A e \in Owners : e # f => o2[e] = o[e]
  <2>1. CASE f = "observer"
    BY <2>1 DEF ObjectType, Owners, FieldIs
  <2>2. CASE f = "listener"
    BY <2>2 DEF ObjectType, Owners, FieldIs
  <2>3. CASE f = "buffer"
    BY <2>3 DEF ObjectType, Owners, FieldIs
  <2>4. CASE f = "extra"
    BY <2>4 DEF ObjectType, Owners, FieldIs
  <2> QED
    BY <1>1, <2>1, <2>2, <2>3, <2>4
<1> QED
  BY <1>2 DEF Queued

(* The pointers of an object, once more.                                    *)
LEMMA PointersByField ==
    ASSUME NEW o
    PROVE  /\ \A b : b \in PointersOf(o) <=>
                \/ b # NULL /\ (b = o.decorated \/ \E f \in Owners : b = o[f])
                \/ b \in Queued(o)
           /\ \A b : b \in Queued(o) <=>
                \E q \in Queues : \E i \in DOMAIN o.queues[q] : o.queues[q][i] = b
<1>1. PointersOf(o) = ({o.decorated, o.observer, o.listener, o.buffer, o.extra} \ {NULL})
                      \cup Queued(o)
  BY PointersAre
<1>2. \A b : (\E f \in Owners : b = o[f]) <=> b \in {o.observer, o.listener, o.buffer, o.extra}
  BY DEF Owners
<1>3. \A b : b \in Queued(o) <=>
                \E q \in Queues : \E i \in DOMAIN o.queues[q] : o.queues[q][i] = b
  BY DEF Queued
<1> QED
  BY <1>1, <1>2, <1>3

(* A field gets a block of its own.                                         *)
LEMMA FieldHung ==
    ASSUME NEW o \in ObjectType, Form(o), Distinct(o), NEW f \in Owners, o[f] = NULL,
           NEW n \in Blocks, n \notin PointersOf(o), NEW o2, FieldIs(o2, o, f, n),
           \/ f = "observer" /\ o.kind \in Kinds
           \/ f = "listener" /\ o.kind = "mqtt"
           \/ f = "extra" /\ o.kind \in {"ssl", "ws"}
           \/ f = "buffer" /\ o.kind \in {"item", "ws", "mqtt"}
    PROVE  o2 \in ObjectType /\ Hung(o2, o, n, "memory")
<1>0. n \in Blocks \cup {NULL}
  OBVIOUS
<1>1. /\ o2 \in ObjectType /\ o2.kind = o.kind /\ o2.decorated = o.decorated
      /\ o2.queues = o.queues /\ o2[f] = n
      /\ \A e \in Owners : e # f => o2[e] = o[e]
      /\ Queued(o2) = Queued(o)
  BY <1>0, FieldSet
<1>2. n # NULL
  BY NullIsNoBlock
<1>3. \A b : b \in PointersOf(o2) <=> b \in PointersOf(o) \/ b = n
  <2>1. \A b : (\E e \in Owners : b = o2[e]) /\ b # NULL
                 <=> ((\E e \in Owners : b = o[e]) \/ b = n) /\ b # NULL
    BY <1>1, <1>2
  <2> QED
    BY <1>1, <1>2, <2>1, PointersByField
<1>4. PointersOf(o2) = PointersOf(o) \cup {n}
  BY <1>3
<1>5. Distinct(o2)
  <2>1. \A e \in Owners : o[e] # n
    BY <1>2, FieldsPoint
  <2>2. \A d, e \in Owners : d # e /\ o2[d] # NULL => o2[d] # o2[e]
    BY <1>1, <1>2, <2>1 DEF Distinct
  <2> QED
    BY <1>1, <2>2 DEF Distinct
<1>6. Form(o2)
  <2>1. /\ f # "observer" => o2.observer = o.observer
        /\ f # "listener" => o2.listener = o.listener
        /\ f # "buffer" => o2.buffer = o.buffer
        /\ f # "extra" => o2.extra = o.extra
    BY <1>1 DEF Owners
  <2>2. Kinds = {"base", "ssl", "ws", "mqtt"}
    BY KindsAndQueues
  <2>3. o2.kind # "memory"
    BY <1>1, <2>2
  <2>4. o2.kind = "item" => f = "buffer"
    BY <1>1, <2>2
  <2> QED
    BY <1>1, <2>1, <2>2, <2>3, <2>4 DEF Form
<1> QED
  BY <1>1, <1>4, <1>5, <1>6 DEF Hung

(* A field forgets its block.                                               *)
LEMMA FieldCleared ==
    ASSUME NEW o \in ObjectType, Distinct(o), NEW f \in Owners, o[f] # NULL,
           o[f] # o.decorated, o[f] \notin Queued(o), NEW o2, FieldIs(o2, o, f, NULL)
    PROVE  /\ o2 \in ObjectType /\ Part(o2, o) /\ Distinct(o2)
           /\ \A b : b \in PointersOf(o2) <=> b \in PointersOf(o) /\ b # o[f]
<1>0. NULL \in Blocks \cup {NULL}
  OBVIOUS
<1>1. /\ o2 \in ObjectType /\ o2.kind = o.kind /\ o2.decorated = o.decorated
      /\ o2.queues = o.queues /\ o2[f] = NULL
      /\ \A e \in Owners : e # f => o2[e] = o[e]
      /\ Queued(o2) = Queued(o)
  BY <1>0, FieldSet
<1>2. \A e \in Owners : e # f => o[e] # o[f]
  BY DEF Distinct
<1>3. \A b : b \in PointersOf(o2) <=> b \in PointersOf(o) /\ b # o[f]
  <2>1. \A b : (\E e \in Owners : b = o2[e]) /\ b # NULL
                 <=> (\E e \in Owners : b = o[e]) /\ b # o[f] /\ b # NULL
    BY <1>1, <1>2
  <2> QED
    BY <1>1, <2>1, PointersByField
<1>4. Part(o2, o)
  BY <1>1 DEF Part
<1>5. Distinct(o2)
  BY <1>1 DEF Distinct
<1> QED
  BY <1>1, <1>3, <1>4, <1>5

\* The queue q of o becomes s.
QueueIs(o2, o, q, s) == o2 = [o EXCEPT !.queues[q] = s]

(* An object of which one queue is changed.                                 *)
LEMMA QueueSet ==
    ASSUME NEW o \in ObjectType, NEW q \in Queues, NEW s \in Seq(Blocks),
           NEW o2, QueueIs(o2, o, q, s)
    PROVE  /\ o2 \in ObjectType /\ o2.kind = o.kind /\ o2.decorated = o.decorated
           /\ \A f \in Owners : o2[f] = o[f]
           /\ o2.queues[q] = s /\ \A r \in Queues : r # q => o2.queues[r] = o.queues[r]
<1>1. o.queues \in [Queues -> Seq(Blocks)]
  BY DEF ObjectType
<1> DEFINE qs == [o.queues EXCEPT ![q] = s]
<1>2. o2 = [o EXCEPT !.queues = qs]
  BY DEF QueueIs
<1>3. qs \in [Queues -> Seq(Blocks)] /\ qs[q] = s /\ \A r \in Queues : r # q => qs[r] = o.queues[r]
  BY <1>1
<1> HIDE DEF qs
<1> QED
  BY <1>2, <1>3 DEF ObjectType, Owners

Elems(s) == {s[i] : i \in DOMAIN s}

NoTwice(s) == \A i, j \in DOMAIN s : s[i] = s[j] => i = j

(* The elements of a sequence.                                              *)
LEMMA InElems ==
    ASSUME NEW s
    PROVE  \A x : x \in Elems(s) <=> \E i \in DOMAIN s : s[i] = x
  BY DEF Elems

(* A queue that gets an item at its end.                                    *)
LEMMA AppendedItem ==
    ASSUME NEW s \in Seq(Blocks), NoTwice(s), NEW n \in Blocks, n \notin Elems(s)
    PROVE  /\ Append(s, n) \in Seq(Blocks) /\ NoTwice(Append(s, n))
           /\ Elems(Append(s, n)) = Elems(s) \cup {n}
<1> DEFINE t == Append(s, n)
           m == Len(s)
<1>1. m \in Nat /\ DOMAIN s = 1..m
  OBVIOUS
<1>2. t \in Seq(Blocks) /\ DOMAIN t = 1..m + 1 /\ t[m + 1] = n /\ \A i \in 1..m : t[i] = s[i]
  OBVIOUS
<1> HIDE DEF t, m
<1>3. \A i \in 1..m + 1 : i \in 1..m \/ i = m + 1
  BY <1>1
<1>4. m + 1 \in 1..m + 1 /\ m + 1 \notin 1..m /\ \A i \in 1..m : i \in 1..m + 1
  BY <1>1
<1>5. Elems(t) = Elems(s) \cup {n}
  BY <1>1, <1>2, <1>3, <1>4 DEF Elems
<1>6. NoTwice(t)
  <2>1. \A i \in 1..m : s[i] # n
    BY <1>1 DEF Elems
  <2> QED
    BY <1>1, <1>2, <1>3, <2>1 DEF NoTwice
<1> QED
  BY <1>2, <1>5, <1>6 DEF t

(* A queue that gets an item at its head.                                   *)
LEMMA PrependedItem ==
    ASSUME NEW s \in Seq(Blocks), NoTwice(s), NEW n \in Blocks, n \notin Elems(s)
    PROVE  /\ <<n>> \o s \in Seq(Blocks) /\ NoTwice(<<n>> \o s)
           /\ Elems(<<n>> \o s) = Elems(s) \cup {n}
<1> DEFINE u == <<n>>
           t == u \o s
           m == Len(s)
<1>1. m \in Nat /\ DOMAIN s = 1..m
  OBVIOUS
<1>2. u \in Seq(Blocks) /\ Len(u) = 1 /\ u[1] = n
  OBVIOUS
<1> HIDE DEF u
<1>3. /\ t \in Seq(Blocks) /\ Len(t) = 1 + m
      /\ \A i \in 1..1 + m : t[i] = IF i <= 1 THEN u[i] ELSE s[i - 1]
  <2>1. /\ u \o s \in Seq(Blocks) /\ Len(u \o s) = Len(u) + Len(s)
        /\ \A i \in 1..Len(u) + Len(s) :
              (u \o s)[i] = IF i <= Len(u) THEN u[i] ELSE s[i - Len(u)]
    BY <1>2, ConcatProperties
  <2> HIDE DEF t, m
  <2> QED
    BY <1>2, <2>1 DEF t, m
<1> HIDE DEF t, m
<1>4. DOMAIN t = 1..1 + m
  BY <1>3, LenProperties
<1>5. 1 \in 1..1 + m /\ t[1] = n
  BY <1>1, <1>2, <1>3
<1>6. ASSUME NEW i \in 1..1 + m, i # 1
      PROVE  i - 1 \in 1..m /\ t[i] = s[i - 1]
  <2>1. i - 1 \in 1..m /\ ~(i <= 1)
    BY <1>1, <1>6
  <2> QED
    BY <1>3, <2>1
<1>7. ASSUME NEW i \in 1..m
      PROVE  i + 1 \in 1..1 + m /\ t[i + 1] = s[i]
  <2>1. i + 1 \in 1..1 + m /\ i + 1 # 1 /\ (i + 1) - 1 = i
    BY <1>1, <1>7
  <2> DEFINE k == i + 1
  <2>2. t[k] = s[k - 1]
    <3>1. k \in 1..1 + m /\ k # 1
      BY <2>1
    <3> HIDE DEF k
    <3> QED
      BY <1>6, <3>1
  <2> QED
    BY <2>1, <2>2
<1>8. \A x : x \in Elems(t) <=> x \in Elems(s) \/ x = n
  <2> SUFFICES ASSUME NEW x
               PROVE  x \in Elems(t) <=> x \in Elems(s) \/ x = n
    OBVIOUS
  <2>1. ASSUME x \in Elems(t)
        PROVE  x \in Elems(s) \/ x = n
    <3>1. PICK i \in 1..1 + m : t[i] = x
      BY <1>4, <2>1, InElems
    <3>2. CASE i = 1
      BY <1>5, <3>1, <3>2
    <3>3. CASE i # 1
      <4> DEFINE k == i - 1
      <4>1. k \in DOMAIN s /\ s[k] = x
        BY <1>1, <1>6, <3>1, <3>3
      <4> HIDE DEF k
      <4> QED
        BY <4>1, InElems
    <3> QED
      BY <3>2, <3>3
  <2>2. ASSUME x \in Elems(s)
        PROVE  x \in Elems(t)
    <3>1. PICK i \in 1..m : s[i] = x
      BY <1>1, <2>2, InElems
    <3> DEFINE k == i + 1
    <3>2. k \in DOMAIN t /\ t[k] = x
      BY <1>4, <1>7, <3>1
    <3> HIDE DEF k
    <3> QED
      BY <3>2, InElems
  <2>3. n \in Elems(t)
    BY <1>4, <1>5, InElems
  <2> QED
    BY <2>1, <2>2, <2>3
<1>9. NoTwice(t)
  <2> SUFFICES ASSUME NEW i \in 1..1 + m, NEW j \in 1..1 + m, t[i] = t[j]
               PROVE  i = j
    BY <1>4 DEF NoTwice
  <2>1. \A k \in 1..m : s[k] # n
    BY <1>1, InElems
  <2>2. CASE i = 1 \/ j = 1
    BY <1>5, <1>6, <2>1, <2>2
  <2>3. CASE i # 1 /\ j # 1
    <3>1. i - 1 \in 1..m /\ j - 1 \in 1..m /\ s[i - 1] = s[j - 1]
      BY <1>6, <2>3
    <3>2. i - 1 = j - 1
      BY <1>1, <3>1 DEF NoTwice
    <3> QED
      BY <3>2
  <2> QED
    BY <2>2, <2>3
<1> QED
  BY <1>3, <1>8, <1>9 DEF t, u

(* A queue that loses its i-th item.                                        *)
LEMMA UnlinkedItem ==
    ASSUME NEW s \in Seq(Blocks), NoTwice(s), NEW i \in DOMAIN s,
           NEW t, t = Front(s, i - 1) \o Rest(s, i)
    PROVE  t \in Seq(Blocks) /\ NoTwice(t) /\ Elems(t) = Elems(s) \ {s[i]}
<1> DEFINE m == Len(s)
           a == SubSeq(s, 1, i - 1)
           b == SubSeq(s, i + 1, m)
<1>1. m \in Nat /\ DOMAIN s = 1..m /\ \A k \in 1..m : s[k] \in Blocks
  OBVIOUS
<1>2. t = a \o b
  BY DEF Front, Rest
<1> HIDE DEF m
<1>3. i \in 1..m /\ i - 1 \in Int /\ i + 1 \in Int /\ m \in Int /\ i \in Int
  BY <1>1
<1>4. a \in Seq(Blocks) /\ Len(a) = i - 1 /\ \A k \in 1..i - 1 : a[k] = s[k]
  <2> DEFINE e == i - 1
  <2>1. e \in Int /\ 1 \in Int /\ \A k \in 1..e : s[k] \in Blocks
    BY <1>1, <1>3
  <2> HIDE DEF e
  <2>2. /\ SubSeq(s, 1, e) \in Seq(Blocks)
        /\ Len(SubSeq(s, 1, e)) = IF 1 <= e THEN (e - 1) + 1 ELSE 0
        /\ \A k \in 1..(e - 1) + 1 : SubSeq(s, 1, e)[k] = s[(1 + k) - 1]
    BY <2>1, SubSeqProperties
  <2>3. e >= 0 /\ (e - 1) + 1 = e /\ \A k \in 1..e : (1 + k) - 1 = k
    BY <1>3, <2>1 DEF e
  <2>4. Len(SubSeq(s, 1, e)) = e
    BY <2>1, <2>2, <2>3
  <2>5. \A k \in 1..e : SubSeq(s, 1, e)[k] = s[k]
    BY <2>2, <2>3
  <2> QED
    BY <2>2, <2>4, <2>5 DEF e
<1>5. b \in Seq(Blocks) /\ Len(b) = m - i /\ \A k \in 1..m - i : b[k] = s[i + k]
  <2> DEFINE e == i + 1
  <2>1. e \in Int /\ m \in Int /\ \A k \in e..m : s[k] \in Blocks
    BY <1>1, <1>3
  <2> HIDE DEF e
  <2>2. /\ SubSeq(s, e, m) \in Seq(Blocks)
        /\ Len(SubSeq(s, e, m)) = IF e <= m THEN (m - e) + 1 ELSE 0
        /\ \A k \in 1..(m - e) + 1 : SubSeq(s, e, m)[k] = s[(e + k) - 1]
    BY <2>1, SubSeqProperties
  <2>3. (m - e) + 1 = m - i /\ \A k \in 1..m - i : (e + k) - 1 = i + k
    <3>1. (m - (i + 1)) + 1 = m - i
      BY <1>3
    <3>2. \A k \in 1..m - i : ((i + 1) + k) - 1 = i + k
      BY <1>3
    <3> QED
      BY <3>1, <3>2 DEF e
  <2>4. Len(SubSeq(s, e, m)) = m - i
    BY <1>3, <2>1, <2>2, <2>3 DEF e
  <2>5. \A k \in 1..m - i : SubSeq(s, e, m)[k] = s[i + k]
    BY <2>2, <2>3
  <2> QED
    BY <2>2, <2>4, <2>5 DEF e
<1> HIDE DEF a, b
<1> DEFINE c == a \o b
<1>6. /\ c \in Seq(Blocks) /\ Len(c) = Len(a) + Len(b)
      /\ \A k \in 1..Len(a) + Len(b) : c[k] = IF k <= Len(a) THEN a[k] ELSE b[k - Len(a)]
  BY <1>4, <1>5, ConcatProperties
<1>7. Len(a) + Len(b) = m - 1 /\ m - 1 \in Int
  BY <1>3, <1>4, <1>5
<1>8. /\ t \in Seq(Blocks) /\ Len(t) = m - 1
      /\ \A k \in 1..m - 1 : t[k] = IF k <= i - 1 THEN a[k] ELSE b[k - (i - 1)]
  BY <1>2, <1>4, <1>6, <1>7
<1> HIDE DEF c
<1>9. DOMAIN t = 1..m - 1
  BY <1>8, LenProperties
<1>10. ASSUME NEW k \in 1..m - 1, k < i
       PROVE  t[k] = s[k]
  BY <1>3, <1>4, <1>8, <1>10
<1>11. ASSUME NEW k \in 1..m - 1, ~(k < i)
       PROVE  t[k] = s[k + 1]
  <2> DEFINE l == k - (i - 1)
  <2>1. l \in 1..m - i /\ i + l = k + 1 /\ ~(k <= i - 1)
    BY <1>3, <1>11
  <2>2. t[k] = b[l]
    BY <1>8, <2>1
  <2> HIDE DEF l
  <2> QED
    BY <1>5, <2>1, <2>2
<1> DEFINE at(k) == IF k < i THEN k ELSE k + 1
<1>12. ASSUME NEW k \in 1..m - 1
       PROVE  at(k) \in 1..m /\ at(k) # i /\ t[k] = s[at(k)]
  <2>1. CASE k < i
    <3>1. at(k) = k /\ k \in 1..m /\ k # i
      BY <1>3, <2>1
    <3> QED
      BY <1>10, <2>1, <3>1
  <2>2. CASE ~(k < i)
    <3>1. at(k) = k + 1 /\ k + 1 \in 1..m /\ k + 1 # i
      BY <1>3, <2>2
    <3> QED
      BY <1>11, <2>2, <3>1
  <2> QED
    BY <2>1, <2>2
<1>13. \A k, l \in 1..m - 1 : at(k) = at(l) => k = l
  BY <1>3
<1>14. ASSUME NEW j \in 1..m, j # i
       PROVE  \E k \in 1..m - 1 : at(k) = j
  <2>1. CASE j < i
    <3>1. j \in 1..m - 1 /\ at(j) = j
      BY <1>3, <2>1
    <3> QED
      BY <3>1
  <2>2. CASE ~(j < i)
    <3> DEFINE k == j - 1
    <3>1. k \in 1..m - 1 /\ at(k) = j
      BY <1>3, <1>14, <2>2
    <3> HIDE DEF k, at
    <3> QED
      BY <3>1
  <2> QED
    BY <2>1, <2>2
<1> HIDE DEF at
<1>15. NoTwice(t)
  <2> SUFFICES ASSUME NEW k \in 1..m - 1, NEW l \in 1..m - 1, t[k] = t[l]
               PROVE  k = l
    BY <1>9 DEF NoTwice
  <2>1. at(k) = at(l)
    BY <1>1, <1>12 DEF NoTwice
  <2> QED
    BY <1>13, <2>1
<1>16. \A x : x \in Elems(t) <=> x \in Elems(s) /\ x # s[i]
  <2> SUFFICES ASSUME NEW x
               PROVE  x \in Elems(t) <=> x \in Elems(s) /\ x # s[i]
    OBVIOUS
  <2>1. ASSUME x \in Elems(t)
        PROVE  x \in Elems(s) /\ x # s[i]
    <3>1. PICK k \in 1..m - 1 : t[k] = x
      BY <1>9, <2>1, InElems
    <3>2. at(k) \in 1..m /\ at(k) # i /\ s[at(k)] = x
      BY <1>12, <3>1
    <3>3. s[at(k)] # s[i]
      BY <1>1, <1>3, <3>2 DEF NoTwice
    <3> QED
      BY <1>1, <3>2, <3>3, InElems
  <2>2. ASSUME x \in Elems(s), x # s[i]
        PROVE  x \in Elems(t)
    <3>1. PICK j \in 1..m : s[j] = x
      BY <1>1, <2>2, InElems
    <3>2. PICK k \in 1..m - 1 : at(k) = j
      BY <1>14, <2>2, <3>1
    <3>3. t[k] = x
      BY <1>12, <3>1, <3>2
    <3> QED
      BY <1>9, <3>3, InElems
  <2> QED
    BY <2>1, <2>2
<1> QED
  BY <1>8, <1>15, <1>16

(* The queues of an object that points to nothing twice.                    *)
LEMMA QueuesDistinct ==
    ASSUME NEW o
    PROVE  Distinct(o) <=>
             /\ \A e, f \in Owners : e # f /\ o[e] # NULL => o[e] # o[f]
             /\ \A q \in Queues : NoTwice(o.queues[q])
             /\ \A q, r \in Queues : q # r => Elems(o.queues[q]) \cap Elems(o.queues[r]) = {}
<1> DEFINE FieldsDiffer == \A e, f \in Owners : e # f /\ o[e] # NULL => o[e] # o[f]
<1>1. Distinct(o) <=>
        /\ FieldsDiffer
        /\ \A q, r \in Queues : \A i \in DOMAIN o.queues[q], j \in DOMAIN o.queues[r] :
              o.queues[q][i] = o.queues[r][j] => q = r /\ i = j
  BY DEF Distinct
<1> HIDE DEF FieldsDiffer
<1>2. \A q \in Queues : NoTwice(o.queues[q]) <=>
        \A i, j \in DOMAIN o.queues[q] : o.queues[q][i] = o.queues[q][j] => i = j
  BY DEF NoTwice
<1>3. \A q, r \in Queues : Elems(o.queues[q]) \cap Elems(o.queues[r]) = {} <=>
        \A i \in DOMAIN o.queues[q], j \in DOMAIN o.queues[r] : o.queues[q][i] # o.queues[r][j]
  BY DEF Elems
<1>4. Distinct(o) <=>
        /\ FieldsDiffer /\ \A q \in Queues : NoTwice(o.queues[q])
        /\ \A q, r \in Queues : q # r => Elems(o.queues[q]) \cap Elems(o.queues[r]) = {}
  BY <1>1, <1>2, <1>3
<1> QED
  BY <1>4 DEF FieldsDiffer

(* A queue gets an item.                                                    *)
LEMMA QueueHung ==
    ASSUME NEW o \in ObjectType, Form(o), Distinct(o), o.kind \in Kinds, NEW q \in QueuesOf[o.kind],
           NEW n \in Blocks, n \notin PointersOf(o), NEW s \in Seq(Blocks), NoTwice(s),
           Elems(s) = Elems(o.queues[q]) \cup {n}, NEW o2, QueueIs(o2, o, q, s)
    PROVE  o2 \in ObjectType /\ Hung(o2, o, n, "item")
<1>0. q \in Queues
  BY KindsAndQueues
<1>1. /\ o2 \in ObjectType /\ o2.kind = o.kind /\ o2.decorated = o.decorated
      /\ \A f \in Owners : o2[f] = o[f]
      /\ o2.queues[q] = s /\ \A r \in Queues : r # q => o2.queues[r] = o.queues[r]
  BY <1>0, QueueSet
<1>2. \A x \in {o, o2} : \A b : b \in Queued(x) <=> \E r \in Queues : b \in Elems(x.queues[r])
  BY PointersByField DEF Elems
<1>3. \A b : b \in Queued(o2) <=> b \in Queued(o) \/ b = n
  BY <1>0, <1>1, <1>2
<1>4. PointersOf(o2) = PointersOf(o) \cup {n}
  <2>1. \A b : b \in PointersOf(o2) <=> b \in PointersOf(o) \/ b = n
    BY <1>1, <1>3, PointersByField
  <2> QED
    BY <2>1
<1>5. Distinct(o2)
  <2>1. \A r \in Queues : n \notin Elems(o.queues[r])
    BY <1>2, FieldsPoint
  <2>2. \A r \in Queues : NoTwice(o2.queues[r])
    BY <1>1, QueuesDistinct
  <2>3. \A r, t \in Queues : r # t => Elems(o.queues[r]) \cap Elems(o.queues[t]) = {}
    BY QueuesDistinct
  <2>4. ASSUME NEW r \in Queues, NEW t \in Queues, r # t
        PROVE  Elems(o2.queues[r]) \cap Elems(o2.queues[t]) = {}
    <3>1. CASE r # q /\ t # q
      BY <1>1, <2>3, <2>4, <3>1
    <3>2. CASE r = q
      <4>1. Elems(o2.queues[r]) = Elems(o.queues[r]) \cup {n} /\ o2.queues[t] = o.queues[t]
        BY <1>1, <2>4, <3>2
      <4> QED
        BY <2>1, <2>3, <2>4, <4>1
    <3>3. CASE t = q
      <4>1. Elems(o2.queues[t]) = Elems(o.queues[t]) \cup {n} /\ o2.queues[r] = o.queues[r]
        BY <1>1, <2>4, <3>3
      <4> QED
        BY <2>1, <2>3, <2>4, <4>1
    <3> QED
      BY <3>1, <3>2, <3>3
  <2>5. \A e, f \in Owners : e # f /\ o2[e] # NULL => o2[e] # o2[f]
    BY <1>1 DEF Distinct
  <2> QED
    BY <2>2, <2>4, <2>5, QueuesDistinct
<1>6. Form(o2)
  <2>1. o2.listener = o.listener /\ o2.buffer = o.buffer /\ o2.extra = o.extra
    BY <1>1 DEF Owners
  <2>2. o2.kind \notin {"memory", "item"}
    BY <1>1, KindsAndQueues
  <2> QED
    BY <1>1, <2>1, <2>2 DEF Form
<1> QED
  BY <1>1, <1>3, <1>4, <1>5, <1>6 DEF Hung

\* The object o2 is o, whose queue q is now s: the items in X are gone.
Unlinked(o2, o, q, s, X) ==
    /\ QueueIs(o2, o, q, s) /\ s \in Seq(Blocks) /\ NoTwice(s)
    /\ \A b \in X : b \in Elems(o.queues[q])
    /\ \A b : b \in Elems(s) <=> b \in Elems(o.queues[q]) /\ b \notin X
    /\ o.queues[q] = <<>> => s = <<>>

\* No block is in a queue of o and in a field of it.
QueuesApart(o) == \A b \in Queued(o) : b # o.decorated /\ \A f \in Owners : b # o[f]

(* A queue loses the items in X.                                            *)
LEMMA QueuePart ==
    ASSUME NEW o \in ObjectType, Distinct(o), QueuesApart(o), NEW q \in Queues,
           NEW o2, NEW s, NEW X, Unlinked(o2, o, q, s, X)
    PROVE  /\ o2 \in ObjectType /\ Part(o2, o) /\ Distinct(o2)
           /\ \A b : b \in PointersOf(o2) <=> b \in PointersOf(o) /\ b \notin X
<1>0. /\ QueueIs(o2, o, q, s) /\ s \in Seq(Blocks) /\ NoTwice(s)
      /\ \A b \in X : b \in Elems(o.queues[q])
      /\ \A b : b \in Elems(s) <=> b \in Elems(o.queues[q]) /\ b \notin X
      /\ o.queues[q] = <<>> => s = <<>>
  BY DEF Unlinked
<1>1. /\ o2 \in ObjectType /\ o2.kind = o.kind /\ o2.decorated = o.decorated
      /\ \A f \in Owners : o2[f] = o[f]
      /\ o2.queues[q] = s /\ \A r \in Queues : r # q => o2.queues[r] = o.queues[r]
  BY <1>0, QueueSet
<1>2. \A x \in {o, o2} : \A b : b \in Queued(x) <=> \E r \in Queues : b \in Elems(x.queues[r])
  BY PointersByField DEF Elems
<1>3. /\ \A r \in Queues : NoTwice(o.queues[r])
      /\ \A r, t \in Queues : r # t => Elems(o.queues[r]) \cap Elems(o.queues[t]) = {}
  BY QueuesDistinct
<1>4. ASSUME NEW b
      PROVE  b \in Queued(o2) <=> b \in Queued(o) /\ b \notin X
  <2>1. \A r \in Queues : r # q => Elems(o2.queues[r]) = Elems(o.queues[r])
    BY <1>1
  <2>2. \A x : x \in Elems(o2.queues[q]) <=> x \in Elems(o.queues[q]) /\ x \notin X
    BY <1>0, <1>1
  <2>3. \A r \in Queues : r # q => Elems(o.queues[r]) \cap X = {}
    BY <1>0, <1>3
  <2> QED
    BY <1>2, <2>1, <2>2, <2>3
<1>5. X \subseteq Queued(o)
  BY <1>0, <1>2
<1>6. \A b : b \in PointersOf(o2) <=> b \in PointersOf(o) /\ b \notin X
  BY <1>1, <1>4, <1>5, PointersByField DEF QueuesApart
<1>7. Distinct(o2)
  <2>1. \A r \in Queues : NoTwice(o2.queues[r])
    BY <1>0, <1>1, <1>3
  <2>2. \A r, t \in Queues : r # t => Elems(o2.queues[r]) \cap Elems(o2.queues[t]) = {}
    <3>1. \A r \in Queues : \A x \in Elems(o2.queues[r]) : x \in Elems(o.queues[r])
      BY <1>0, <1>1
    <3> QED
      BY <1>3, <3>1
  <2>3. \A e, f \in Owners : e # f /\ o2[e] # NULL => o2[e] # o2[f]
    BY <1>1 DEF Distinct
  <2> QED
    BY <2>1, <2>2, <2>3, QueuesDistinct
<1>8. Part(o2, o)
  BY <1>0, <1>1, <1>4 DEF Part
<1> QED
  BY <1>1, <1>6, <1>7, <1>8

IsMap(h) == h = [b \in DOMAIN h |-> h[b]]

(* A heap of objects.                                                       *)
LEMMA HeapTyped ==
    ASSUME NEW h, IsMap(h), \A b \in DOMAIN h : h[b] \in ObjectType
    PROVE  h \in [DOMAIN h -> ObjectType]
<1> DEFINE D == DOMAIN h
<1>1. h = [b \in D |-> h[b]] /\ \A b \in D : h[b] \in ObjectType
  BY DEF IsMap
<1> HIDE DEF D
<1>2. h \in [D -> ObjectType]
  BY <1>1
<1> QED
  BY <1>2 DEF D

\* The heap g is h with o at n.
IsWith(g, h, n, o) == g = With(h, n, o)

\* The heap g is h without the blocks in D.
IsFreed(g, h, D) == g = FreedIn(h, D)

(* The heap with a block more, and with some blocks less.                   *)
LEMMA WithIs ==
    ASSUME NEW g, NEW h, NEW n, NEW o, IsWith(g, h, n, o)
    PROVE  /\ \A b : b \in DOMAIN g <=> b \in DOMAIN h \/ b = n
           /\ g[n] = o /\ IsMap(g)
           /\ \A b \in DOMAIN h : b # n => g[b] = h[b]
<1> DEFINE D == DOMAIN h \cup {n}
<1>1. g = [c \in D |-> IF c = n THEN o ELSE h[c]]
  BY DEF IsWith, With
<1>2. DOMAIN g = D /\ g[n] = o /\ \A b \in DOMAIN h : b # n => g[b] = h[b]
  BY <1>1
<1>3. g = [c \in D |-> g[c]]
  BY <1>1
<1>4. IsMap(g)
  BY <1>2, <1>3 DEF IsMap
<1> QED
  BY <1>2, <1>4

\* The heap k is h with o at n and p at m, which were free.
IsWithTwo(k, h, n, o, m, p) ==
    n \notin DOMAIN h /\ m \notin DOMAIN h /\ m # n /\ k = With(With(h, n, o), m, p)

(* The heap with two blocks more.                                           *)
LEMMA WithTwo ==
    ASSUME NEW k, NEW h, NEW n, NEW m, NEW o, NEW p, IsWithTwo(k, h, n, o, m, p)
    PROVE  /\ \A b : b \in DOMAIN k <=> b \in DOMAIN h \/ b = n \/ b = m
           /\ IsMap(k)
           /\ k[m] = p /\ k[n] = o /\ \A b \in DOMAIN h : k[b] = h[b]
<1> DEFINE g == With(h, n, o)
<1>1. n \notin DOMAIN h /\ m \notin DOMAIN h /\ m # n
  BY DEF IsWithTwo
<1>2. IsWith(g, h, n, o) /\ IsWith(k, g, m, p)
  BY DEF IsWithTwo, IsWith
<1> HIDE DEF g
<1>3. /\ \A b : b \in DOMAIN g <=> b \in DOMAIN h \/ b = n
      /\ g[n] = o /\ \A b \in DOMAIN h : b # n => g[b] = h[b]
  BY <1>2, WithIs
<1>4. /\ \A b : b \in DOMAIN k <=> b \in DOMAIN g \/ b = m
      /\ k[m] = p /\ IsMap(k) /\ \A b \in DOMAIN g : b # m => k[b] = g[b]
  BY <1>2, WithIs
<1> QED
  BY <1>1, <1>3, <1>4

(* What is not freed stays as it was.                                       *)
LEMMA FreedIs ==
    ASSUME NEW g, NEW h, NEW D, IsFreed(g, h, D)
    PROVE  /\ \A b : b \in DOMAIN g <=> b \in DOMAIN h /\ b \notin D
           /\ IsMap(g)
           /\ \A b \in DOMAIN h \ D : g[b] = h[b]
<1> DEFINE E == DOMAIN h \ D
<1>1. g = [c \in E |-> h[c]]
  BY DEF IsFreed, FreedIn
<1>2. DOMAIN g = E /\ \A b \in E : g[b] = h[b]
  BY <1>1
<1>3. g = [c \in E |-> g[c]]
  BY <1>1
<1>4. IsMap(g)
  BY <1>2, <1>3 DEF IsMap
<1> QED
  BY <1>2, <1>4

(* What each object of the heap is.                                         *)
LEMMA ObjectsOwned ==
    ASSUME LifeInv
    PROVE  /\ DOMAIN heap \in SUBSET (1..MaxBlocks) /\ heap \in [DOMAIN heap -> ObjectType]
           /\ roots \subseteq DOMAIN heap
           /\ \A b \in DOMAIN heap :
                /\ heap[b] \in ObjectType /\ Form(heap[b]) /\ Distinct(heap[b])
                /\ Targets(heap, heap[b]) /\ PointersOf(heap[b]) \subseteq DOMAIN heap
           /\ \A b \in Streams : b \in DOMAIN heap /\ heap[b].kind \in Kinds
           /\ roots \subseteq Streams
<1>1. DOMAIN heap \subseteq Blocks /\ heap \in [DOMAIN heap -> ObjectType]
  BY DEF LifeInv, Owned
<1>2. roots \subseteq DOMAIN heap
  BY LinksOf DEF LifeInv, Owned, Tree
<1>3. \A b \in DOMAIN heap : PointersOf(heap[b]) \subseteq DOMAIN heap
  BY LinksStay DEF LifeInv
<1>4. \A b \in DOMAIN heap : Form(heap[b]) /\ Distinct(heap[b]) /\ Targets(heap, heap[b])
  BY DEF LifeInv, Owned
<1>5. \A b \in roots : heap[b].kind \in Kinds
  BY DEF LifeInv, Owned
<1> QED
  BY <1>1, <1>2, <1>3, <1>4, <1>5 DEF Blocks, Streams, InUse

(* Without a stream there is nothing to own.                                *)
LEMMA LifeStarts ==
    ASSUME LifeInit
    PROVE  LifeInv
<1>1. heap = <<>> /\ DOMAIN heap = {} /\ roots = {}
  BY DEF LifeInit
<1>2. heap \in [{} -> ObjectType]
  BY <1>1
<1>3. Tree(Links(heap), roots)
  <2> DEFINE P == Links(heap)
  <2>1. DOMAIN P = {}
    BY <1>1, LinksOf
  <2> HIDE DEF P
  <2>2. Tree(P, roots)
    BY <1>1, <2>1 DEF Tree
  <2> QED
    BY <2>2 DEF P
<1> QED
  BY <1>1, <1>2, <1>3 DEF LifeInv, Owned

(* stream_new.                                                              *)
LEMMA NewStreamKeeps ==
    ASSUME LifeInv, NewStream
    PROVE  LifeInv'
<1> DEFINE n == NewBlock(1)
           o == Object("base")
           h2 == With(heap, n, o)
<1>1. /\ n \in Blocks /\ n \notin DOMAIN heap
      /\ heap' = h2 /\ roots' = roots \cup {n}
  <2>1. Room(1)
    BY DEF NewStream
  <2> QED
    BY <2>1, ObjectsOwned, NewBlocks DEF NewStream, Blocks
<1>2. o \in ObjectType
  BY NewObject, KindsAndQueues
<1> HIDE DEF n, o
<1>3. /\ DOMAIN h2 = DOMAIN heap \cup {n} /\ h2[n] = o
      /\ \A b \in DOMAIN heap : h2[b] = heap[b]
      /\ IsMap(h2)
  <2>1. IsWith(h2, heap, n, o)
    BY DEF IsWith
  <2> HIDE DEF h2
  <2>2. /\ \A b : b \in DOMAIN h2 <=> b \in DOMAIN heap \/ b = n
        /\ h2[n] = o /\ IsMap(h2)
        /\ \A b \in DOMAIN heap : b # n => h2[b] = heap[b]
    BY <2>1, WithIs
  <2> QED
    BY <1>1, <2>2
<1> HIDE DEF h2
<1>4. h2 \in [DOMAIN h2 -> ObjectType]
  BY <1>2, <1>3, ObjectsOwned, HeapTyped
<1>5. Owned(h2, roots \cup {n})
  BY <1>1, <1>3, <1>4, StartKeeps DEF LifeInv, o
<1> QED
  BY <1>1, <1>5 DEF LifeInv

(* The block that a new object, whose field f is NULL, gets for that field. *)
LEMMA FieldAllocated ==
    ASSUME NEW h, NEW R, Owned(h, R), NEW s \in DOMAIN h, NEW n \in Blocks, n \notin DOMAIN h,
           NEW f \in Owners, h[s][f] = NULL,
           \/ f = "observer" /\ h[s].kind \in Kinds
           \/ f = "listener" /\ h[s].kind = "mqtt"
           \/ f = "extra" /\ h[s].kind \in {"ssl", "ws"}
           \/ f = "buffer" /\ h[s].kind \in {"item", "ws", "mqtt"},
           NEW h2, DOMAIN h2 = DOMAIN h \cup {n}, IsMap(h2),
           h2[n] = Object("memory"),
           FieldIs(h2[s], h[s], f, n), \A b \in DOMAIN h : b # s => h2[b] = h[b]
    PROVE  Owned(h2, R)
<1> DEFINE o == h[s]
           o2 == h2[s]
<1>1. o \in ObjectType /\ Form(o) /\ Distinct(o) /\ n \notin PointersOf(o)
  <2>1. PointersOf(h[s]) \subseteq DOMAIN h
    BY LinksStay
  <2> QED
    BY <2>1 DEF Owned
<1>2. o2 \in ObjectType /\ Hung(o2, o, n, "memory")
  <2>1. /\ o[f] = NULL /\ FieldIs(o2, o, f, n)
        /\ \/ f = "observer" /\ o.kind \in Kinds
           \/ f = "listener" /\ o.kind = "mqtt"
           \/ f = "extra" /\ o.kind \in {"ssl", "ws"}
           \/ f = "buffer" /\ o.kind \in {"item", "ws", "mqtt"}
    OBVIOUS
  <2> HIDE DEF o, o2
  <2> QED
    BY <1>1, <2>1, FieldHung
<1>3. Object("memory") \in ObjectType
  BY NewObject
<1>4. \A b \in DOMAIN h : h[b] \in ObjectType
  BY DEF Owned
<1>5. \A b \in DOMAIN h2 : h2[b] \in ObjectType
  BY <1>2, <1>3, <1>4
<1>6. h2 \in [DOMAIN h2 -> ObjectType]
  BY <1>5, HeapTyped
<1> QED
  BY <1>2, <1>6, HangKeeps

(* stream_ssl_new, stream_ws_new, stream_mqtt_new.                          *)
LEMMA DecorateKeeps ==
    ASSUME LifeInv, NEW root \in roots, NEW kind \in Kinds \ {"base"}, Decorate(root, kind)
    PROVE  LifeInv'
<1> DEFINE n == NewBlock(1)
           m == NewBlock(2)
           self == [Object(kind) EXCEPT !.decorated = root]
           f == IF kind = "ssl" THEN "extra" ELSE "buffer"
           filled == IF kind = "ssl" THEN [self EXCEPT !.extra = m] ELSE [self EXCEPT !.buffer = m]
           fresh == Object("memory")
           h1 == With(heap, n, self)
           h2 == With(With(heap, n, filled), m, fresh)
           R == (roots \ {root}) \cup {n}
<1>1. /\ n \in Blocks /\ n \notin DOMAIN heap /\ m \in Blocks /\ m \notin DOMAIN heap /\ m # n
  <2>1. Room(2)
    BY DEF Decorate
  <2> QED
    BY <2>1, ObjectsOwned, NewBlocks DEF Blocks
<1>2. heap' = h2 /\ roots' = R
  BY DEF Decorate
<1>3. root \in Blocks /\ kind \in Kinds /\ kind \in {"ssl", "ws", "mqtt"}
  BY ObjectsOwned, KindsAndQueues DEF Blocks
<1>4. self \in ObjectType /\ self.kind = kind /\ self.extra = NULL /\ self.buffer = NULL
  <2>1. Object(kind) \in ObjectType
    BY <1>3, NewObject
  <2>2. Object(kind).kind = kind /\ Object(kind).extra = NULL /\ Object(kind).buffer = NULL
    BY DEF Object
  <2> DEFINE o == Object(kind)
  <2> HIDE DEF o
  <2>3. [o EXCEPT !.decorated = root] \in ObjectType
    BY <1>3, <2>1 DEF ObjectType, o
  <2>4. /\ [o EXCEPT !.decorated = root].kind = o.kind
        /\ [o EXCEPT !.decorated = root].extra = o.extra
        /\ [o EXCEPT !.decorated = root].buffer = o.buffer
    BY <2>1 DEF ObjectType, o
  <2> QED
    BY <2>2, <2>3, <2>4 DEF o
<1>5. FieldIs(filled, self, f, m)
  BY DEF FieldIs
<1>6. f \in Owners /\ self[f] = NULL /\ \/ f = "extra" /\ self.kind \in {"ssl", "ws"}
                                        \/ f = "buffer" /\ self.kind \in {"item", "ws", "mqtt"}
  BY <1>3, <1>4 DEF Owners
<1> HIDE DEF n, m, filled, f, R
<1>7. /\ DOMAIN h1 = DOMAIN heap \cup {n} /\ h1[n] = self /\ IsMap(h1)
      /\ \A b \in DOMAIN heap : h1[b] = heap[b]
  <2> HIDE DEF self
  <2>1. IsWith(h1, heap, n, self)
    BY DEF IsWith
  <2> HIDE DEF h1
  <2>2. /\ \A b : b \in DOMAIN h1 <=> b \in DOMAIN heap \/ b = n
        /\ h1[n] = self /\ IsMap(h1)
        /\ \A b \in DOMAIN heap : b # n => h1[b] = heap[b]
    BY <2>1, WithIs
  <2> QED
    BY <1>1, <2>2
<1>8. /\ DOMAIN h2 = (DOMAIN heap \cup {n}) \cup {m} /\ IsMap(h2)
      /\ h2[m] = fresh /\ h2[n] = filled /\ \A b \in DOMAIN heap : h2[b] = heap[b]
  <2> HIDE DEF fresh
  <2>1. IsWithTwo(h2, heap, n, filled, m, fresh)
    BY <1>1 DEF IsWithTwo
  <2> HIDE DEF h1, h2, self
  <2>2. /\ \A b : b \in DOMAIN h2 <=> b \in DOMAIN heap \/ b = n \/ b = m
        /\ IsMap(h2) /\ h2[m] = fresh /\ h2[n] = filled /\ \A b \in DOMAIN heap : h2[b] = heap[b]
    BY <2>1, WithTwo
  <2> QED
    BY <2>2
<1> HIDE DEF h1, h2
<1>9. h1 \in [DOMAIN h1 -> ObjectType]
  <2>1. \A b \in DOMAIN h1 : h1[b] \in ObjectType
    BY <1>4, <1>7, ObjectsOwned
  <2> QED
    BY <1>7, <2>1, HeapTyped
<1>10. Owned(h1, R)
  <2>1. h1[n] = [Object(kind) EXCEPT !.decorated = root]
    BY <1>7
  <2> QED
    BY <1>1, <1>3, <1>7, <1>9, <2>1, GrowKeeps DEF LifeInv, R
<1> HIDE DEF self
<1>11. Owned(h2, R)
  <2>1. n \in DOMAIN h1 /\ m \notin DOMAIN h1 /\ DOMAIN h2 = DOMAIN h1 \cup {m}
    BY <1>1, <1>7, <1>8
  <2>2. h1[n][f] = NULL /\ \/ f = "extra" /\ h1[n].kind \in {"ssl", "ws"}
                           \/ f = "buffer" /\ h1[n].kind \in {"item", "ws", "mqtt"}
    BY <1>6, <1>7
  <2>3. FieldIs(h2[n], h1[n], f, m) /\ \A b \in DOMAIN h1 : b # n => h2[b] = h1[b]
    BY <1>5, <1>7, <1>8
  <2>4. h2[m] = Object("memory") /\ IsMap(h2)
    BY <1>8
  <2> HIDE DEF fresh
  <2> QED
    BY <1>1, <1>6, <1>10, <2>1, <2>2, <2>3, <2>4, FieldAllocated
<1> QED
  BY <1>2, <1>11 DEF LifeInv

(* The heap with a block that holds something else.                         *)
LEMMA ObjectSet ==
    ASSUME NEW h, NEW s \in DOMAIN h, NEW o, NEW g, g = [h EXCEPT ![s] = o]
    PROVE  DOMAIN g = DOMAIN h /\ IsMap(g) /\ g[s] = o /\ \A b \in DOMAIN h : b # s => g[b] = h[b]
<1> DEFINE D == DOMAIN h
<1>1. g = [b \in D |-> IF b = s THEN o ELSE h[b]]
  OBVIOUS
<1>2. DOMAIN g = D /\ g[s] = o /\ \A b \in D : b # s => g[b] = h[b]
  BY <1>1
<1>3. g = [b \in D |-> g[b]]
  BY <1>1, <1>2
<1>4. IsMap(g)
  BY <1>2, <1>3 DEF IsMap
<1> QED
  BY <1>2, <1>4

(* A block has one owner.                                                   *)
LEMMA OnePointer ==
    ASSUME LifeInv, NEW b \in DOMAIN heap, NEW p \in PointersOf(heap[b])
    PROVE  /\ p \in DOMAIN heap /\ p # b /\ p \notin roots
           /\ \A c \in DOMAIN heap : p \in PointersOf(heap[c]) => c = b
<1> DEFINE P == Links(heap)
<1>1. Tree(P, roots) /\ DOMAIN P = DOMAIN heap /\ \A c \in DOMAIN heap : P[c] = PointersOf(heap[c])
  BY LinksOf DEF LifeInv, Owned
<1> HIDE DEF P
<1>2. \A c \in DOMAIN heap : c # b => P[c] \cap P[b] = {}
  BY <1>1 DEF Tree
<1>3. P[b] \subseteq DOMAIN heap \ {b} /\ P[b] \cap roots = {}
  BY <1>1 DEF Tree
<1> QED
  BY <1>1, <1>2, <1>3

(* What a queued item is, and that it owns nothing but its buffer.          *)
LEMMA QueuedItem ==
    ASSUME LifeInv, NEW c \in DOMAIN heap, NEW j \in Queued(heap[c])
    PROVE  /\ c \in Streams /\ j \in DOMAIN heap /\ j \in PointersOf(heap[c])
           /\ heap[j].kind = "item" /\ PointersOf(heap[j]) = {heap[j].buffer} \ {NULL}
           /\ heap[j].buffer # NULL => /\ heap[j].buffer \in DOMAIN heap
                                       /\ heap[heap[j].buffer].kind = "memory"
                                       /\ PointersOf(heap[heap[j].buffer]) = {}
<1>1. j \in PointersOf(heap[c])
  BY FieldsPoint
<1>2. j \in DOMAIN heap
  BY <1>1, OnePointer
<1>3. heap[j].kind = "item"
  BY ObjectsOwned DEF Targets
<1>4. PointersOf(heap[j]) = {heap[j].buffer} \ {NULL}
  <2>1. Form(heap[j])
    BY <1>2, ObjectsOwned
  <2>2. /\ heap[j].decorated = NULL /\ heap[j].observer = NULL /\ heap[j].listener = NULL
        /\ heap[j].extra = NULL /\ Queued(heap[j]) = {}
    BY <1>3, <2>1 DEF Form
  <2> QED
    BY <2>2, PointersAre
<1>5. c \in Streams
  <2>1. heap[c] \in ObjectType /\ Form(heap[c])
    BY ObjectsOwned
  <2>2. heap[c].kind \in Kinds \cup {"item", "memory"}
    BY <2>1 DEF ObjectType
  <2>3. heap[c].kind # "memory" /\ heap[c].kind # "item"
    BY <1>1, <2>1 DEF Form
  <2> QED
    BY <2>2, <2>3 DEF Streams, InUse
<1>6. ASSUME heap[j].buffer # NULL
      PROVE  /\ heap[j].buffer \in DOMAIN heap /\ heap[heap[j].buffer].kind = "memory"
             /\ PointersOf(heap[heap[j].buffer]) = {}
  <2>1. heap[j].buffer \in DOMAIN heap
    BY <1>2, <1>4, <1>6, OnePointer
  <2>2. heap[heap[j].buffer].kind = "memory"
    BY <1>2, <1>6, ObjectsOwned DEF Targets, Owners
  <2> QED
    BY <2>1, <2>2, ObjectsOwned DEF Form
<1> QED
  BY <1>1, <1>2, <1>3, <1>4, <1>5, <1>6

(* stream_queue_outgoing_data, stream_mqtt_append_frame and _insert_frame.  *)
LEMMA EnqueueKeeps ==
    ASSUME LifeInv, NEW s \in Streams, NEW q \in Queues, NEW first \in BOOLEAN, Enqueue(s, q, first)
    PROVE  LifeInv'
<1> DEFINE n == NewBlock(1)
           m == NewBlock(2)
           o == heap[s]
           new == Object("item")
           item == [new EXCEPT !.buffer = m]
           fresh == Object("memory")
           old == o.queues[q]
           queue == IF first THEN <<n>> \o old ELSE Append(old, n)
           o1 == [o EXCEPT !.queues[q] = queue]
           g == [heap EXCEPT ![s] = o1]
           h1 == With(g, n, new)
           h2 == With(With(g, n, item), m, fresh)
<1>1. /\ n \in Blocks /\ n \notin DOMAIN heap /\ m \in Blocks /\ m \notin DOMAIN heap /\ m # n
  <2>1. Room(2)
    BY DEF Enqueue
  <2> QED
    BY <2>1, ObjectsOwned, NewBlocks DEF Blocks
<1>2. heap' = h2 /\ roots' = roots
  BY DEF Enqueue
<1>3. s \in DOMAIN heap /\ o.kind \in Kinds /\ q \in QueuesOf[o.kind]
  BY ObjectsOwned DEF Enqueue
<1>4. o \in ObjectType /\ Form(o) /\ Distinct(o) /\ n \notin PointersOf(o)
  BY <1>1, <1>3, ObjectsOwned
<1>5. new \in ObjectType /\ new.kind = "item" /\ new.buffer = NULL
  BY NewObject DEF Object
<1>6. FieldIs(item, new, "buffer", m) /\ QueueIs(o1, o, q, queue)
  BY DEF FieldIs, QueueIs
<1> HIDE DEF n, m, item, o1
<1>7. old \in Seq(Blocks) /\ NoTwice(old) /\ n \notin Elems(old)
  <2>1. old \in Seq(Blocks)
    BY <1>4 DEF ObjectType
  <2>2. NoTwice(old)
    BY <1>4, QueuesDistinct
  <2>3. Elems(old) \subseteq Queued(o)
    BY PointersByField, InElems
  <2> QED
    BY <1>4, <2>1, <2>2, <2>3, FieldsPoint
<1>8. queue \in Seq(Blocks) /\ NoTwice(queue) /\ Elems(queue) = Elems(old) \cup {n}
  <2> HIDE DEF old
  <2>1. /\ Append(old, n) \in Seq(Blocks) /\ NoTwice(Append(old, n))
        /\ Elems(Append(old, n)) = Elems(old) \cup {n}
    BY <1>1, <1>7, AppendedItem
  <2>2. /\ <<n>> \o old \in Seq(Blocks) /\ NoTwice(<<n>> \o old)
        /\ Elems(<<n>> \o old) = Elems(old) \cup {n}
    BY <1>1, <1>7, PrependedItem
  <2> QED
    BY <2>1, <2>2
<1>9. o1 \in ObjectType /\ Hung(o1, o, n, "item")
  <2>1. Elems(queue) = Elems(o.queues[q]) \cup {n}
    BY <1>8
  <2> HIDE DEF queue, o, old
  <2> QED
    BY <1>1, <1>3, <1>4, <1>6, <1>8, <2>1, QueueHung
<1> HIDE DEF queue, old
<1>10. DOMAIN g = DOMAIN heap /\ g[s] = o1 /\ \A b \in DOMAIN heap : b # s => g[b] = heap[b]
  BY <1>3, ObjectSet
<1> HIDE DEF g, new, fresh
<1>11. /\ DOMAIN h1 = DOMAIN heap \cup {n} /\ h1[n] = new /\ h1[s] = o1 /\ IsMap(h1)
       /\ \A b \in DOMAIN heap : b # s => h1[b] = heap[b]
  <2>1. IsWith(h1, g, n, new)
    BY DEF IsWith
  <2> HIDE DEF h1
  <2>2. /\ \A b : b \in DOMAIN h1 <=> b \in DOMAIN g \/ b = n
        /\ h1[n] = new /\ IsMap(h1)
        /\ \A b \in DOMAIN g : b # n => h1[b] = g[b]
    BY <2>1, WithIs
  <2> QED
    BY <1>1, <1>3, <1>10, <2>2
<1>12. /\ DOMAIN h2 = (DOMAIN heap \cup {n}) \cup {m} /\ IsMap(h2)
       /\ h2[m] = fresh /\ h2[n] = item /\ h2[s] = o1
       /\ \A b \in DOMAIN heap : b # s => h2[b] = heap[b]
  <2>1. n \notin DOMAIN g /\ m \notin DOMAIN g
    BY <1>1, <1>10
  <2>2. IsWithTwo(h2, g, n, item, m, fresh)
    BY <1>1, <2>1 DEF IsWithTwo
  <2> HIDE DEF h2, h1, o
  <2>3. /\ \A b : b \in DOMAIN h2 <=> b \in DOMAIN g \/ b = n \/ b = m
        /\ IsMap(h2) /\ h2[m] = fresh /\ h2[n] = item /\ \A b \in DOMAIN g : h2[b] = g[b]
    BY <2>2, WithTwo
  <2> QED
    BY <1>1, <1>3, <1>10, <2>3
<1> HIDE DEF h1, h2
<1>13. h1 \in [DOMAIN h1 -> ObjectType]
  <2>1. \A b \in DOMAIN h1 : h1[b] \in ObjectType
    BY <1>5, <1>9, <1>11, ObjectsOwned
  <2> QED
    BY <1>11, <2>1, HeapTyped
<1>14. Owned(h1, roots)
  <2>1. h1[n] = Object("item")
    BY <1>11 DEF new
  <2>2. Hung(h1[s], heap[s], n, "item")
    BY <1>9, <1>11
  <2> HIDE DEF o
  <2> QED
    BY <1>1, <1>3, <1>11, <1>13, <2>1, <2>2, HangKeeps DEF LifeInv
<1>15. Owned(h2, roots)
  <2>1. n \in DOMAIN h1 /\ m \notin DOMAIN h1 /\ DOMAIN h2 = DOMAIN h1 \cup {m}
    BY <1>1, <1>11, <1>12
  <2>2. h1[n]["buffer"] = NULL /\ h1[n].kind \in {"item", "ws", "mqtt"} /\ "buffer" \in Owners
    BY <1>5, <1>11 DEF Owners
  <2>3. FieldIs(h2[n], h1[n], "buffer", m) /\ \A b \in DOMAIN h1 : b # n => h2[b] = h1[b]
    BY <1>1, <1>6, <1>11, <1>12
  <2>4. h2[m] = Object("memory") /\ IsMap(h2)
    BY <1>12 DEF fresh
  <2> QED
    BY <1>1, <1>14, <2>1, <2>2, <2>3, <2>4, FieldAllocated
<1> QED
  BY <1>2, <1>15 DEF LifeInv

(* A queued item is in no field of the stream.                              *)
LEMMA QueuedHere ==
    ASSUME LifeInv, NEW c \in DOMAIN heap
    PROVE  QueuesApart(heap[c])
<1>1. \A b \in Queued(heap[c]) : heap[b].kind = "item" /\ b # NULL
  BY QueuedItem, ObjectsOwned, NullIsNoBlock DEF Blocks
<1>2. Targets(heap, heap[c])
  BY ObjectsOwned
<1>3. heap[c].decorated # NULL => heap[heap[c].decorated].kind \in Kinds
  BY <1>2 DEF Targets
<1>4. \A f \in Owners : heap[c][f] # NULL => heap[heap[c][f]].kind = "memory"
  BY <1>2 DEF Targets
<1>5. "item" \notin Kinds
  BY KindsAndQueues
<1> QED
  BY <1>1, <1>3, <1>4, <1>5 DEF QueuesApart

\* The heap g is heap, as it is when the blocks in D are about to be freed: with all
\* they point to, and forgotten by the others.
Forgotten(g, D) ==
    /\ DOMAIN g = DOMAIN heap
    /\ \A b \in DOMAIN heap : b \in D => PointersOf(heap[b]) \subseteq D
    /\ \A b \in DOMAIN heap : b \notin D =>
        /\ g[b] \in ObjectType /\ Part(g[b], heap[b]) /\ Distinct(g[b])
        /\ \A p : p \in PointersOf(g[b]) <=> p \in PointersOf(heap[b]) /\ p \notin D

(* What was forgotten is freed.                                             *)
LEMMA ForgottenIsFreed ==
    ASSUME LifeInv, NEW g, NEW D, Forgotten(g, D), NEW h2, IsFreed(h2, g, D),
           NEW R, \A r : r \in R <=> r \in roots /\ r \notin D
    PROVE  Owned(h2, R)
<1> DEFINE E == D \cap DOMAIN heap
<1>1. /\ \A b : b \in DOMAIN h2 <=> b \in DOMAIN g /\ b \notin D
      /\ IsMap(h2) /\ \A b \in DOMAIN g \ D : h2[b] = g[b]
  BY FreedIs
<1>2. DOMAIN h2 = DOMAIN heap \ E /\ \A b \in DOMAIN heap \ E : h2[b] = g[b]
  BY <1>1 DEF Forgotten
<1>3. \A b \in E : PointersOf(heap[b]) \subseteq E
  <2>1. \A b \in E : PointersOf(heap[b]) \subseteq D
    BY DEF Forgotten
  <2> QED
    BY <2>1, ObjectsOwned
<1>4. ASSUME NEW b \in DOMAIN heap \ E
      PROVE  /\ h2[b] \in ObjectType /\ Part(h2[b], heap[b]) /\ Distinct(h2[b])
             /\ PointersOf(h2[b]) = PointersOf(heap[b]) \ E
  <2>1. /\ g[b] \in ObjectType /\ Part(g[b], heap[b]) /\ Distinct(g[b])
        /\ \A p : p \in PointersOf(g[b]) <=> p \in PointersOf(heap[b]) /\ p \notin D
    BY DEF Forgotten
  <2>2. PointersOf(heap[b]) \subseteq DOMAIN heap
    BY ObjectsOwned
  <2>3. \A p : p \in PointersOf(g[b]) <=> p \in PointersOf(heap[b]) /\ p \notin E
    BY <2>1, <2>2
  <2>4. PointersOf(g[b]) = PointersOf(heap[b]) \ E
    BY <2>3
  <2> QED
    BY <1>2, <2>1, <2>4
<1>5. h2 \in [DOMAIN heap \ E -> ObjectType]
  <2>1. h2 \in [DOMAIN h2 -> ObjectType]
    BY <1>1, <1>2, <1>4, HeapTyped
  <2> QED
    BY <1>2, <2>1
<1>6. Owned(h2, roots \ E)
  <2>1. E \in SUBSET DOMAIN heap
    OBVIOUS
  <2> HIDE DEF E
  <2> QED
    BY <1>3, <1>4, <1>5, <2>1, FreeKeeps DEF LifeInv
<1>7. R = roots \ E
  BY ObjectsOwned
<1> QED
  BY <1>6, <1>7

(* A queued item is unlinked and deleted.                                   *)
LEMMA DeleteItemKeeps ==
    ASSUME LifeInv, NEW s \in Streams, NEW q \in Queues, NEW i \in DOMAIN heap[s].queues[q],
           DeleteItem(s, q, i), roots' = roots
    PROVE  LifeInv'
<1> DEFINE o == heap[s]
           old == o.queues[q]
<1>1. /\ i \in DOMAIN old
      /\ heap' = FreedIn([heap EXCEPT ![s].queues[q] = Front(old, i - 1) \o Rest(old, i)],
                         ItemBlocks(old[i]))
  BY DEF DeleteItem
<1> DEFINE j == old[i]
           left == Front(old, i - 1) \o Rest(old, i)
           o1 == [o EXCEPT !.queues[q] = left]
           g == [heap EXCEPT ![s] = o1]
           D == ItemBlocks(j)
<1>2. IsFreed(heap', g, D) /\ roots' = roots
  BY <1>1 DEF IsFreed
<1>3. QueueIs(o1, o, q, left)
  BY DEF QueueIs
<1> HIDE DEF o1
<1>4. s \in DOMAIN heap /\ o.kind \in Kinds /\ o \in ObjectType /\ Distinct(o)
  BY ObjectsOwned
<1>5. j \in Elems(old) /\ Elems(old) \subseteq Queued(o)
  BY PointersByField, InElems
<1>6. /\ j \in DOMAIN heap /\ j \in PointersOf(heap[s])
      /\ heap[j].kind = "item" /\ PointersOf(heap[j]) = {heap[j].buffer} \ {NULL}
      /\ heap[j].buffer # NULL => /\ heap[j].buffer \in DOMAIN heap
                                  /\ heap[heap[j].buffer].kind = "memory"
                                  /\ PointersOf(heap[heap[j].buffer]) = {}
  BY <1>4, <1>5, QueuedItem
<1>7. left \in Seq(Blocks) /\ NoTwice(left) /\ Elems(left) = Elems(old) \ {j}
      /\ old # <<>>
  <2>1. old \in Seq(Blocks) /\ NoTwice(old)
    BY <1>4, QueuesDistinct DEF ObjectType
  <2>2. old # <<>>
    <3>1. DOMAIN <<>> = {}
      OBVIOUS
    <3> QED
      BY <1>1, <3>1
  <2> HIDE DEF old
  <2> QED
    BY <1>1, <2>1, <2>2, UnlinkedItem
<1> HIDE DEF left
<1>8. QueuesApart(o)
  BY <1>4, QueuedHere
<1>9. /\ o1 \in ObjectType /\ Part(o1, o) /\ Distinct(o1)
      /\ \A p : p \in PointersOf(o1) <=> p \in PointersOf(o) /\ p # j
  <2> DEFINE X == {j}
  <2>1. /\ \A b \in X : b \in Elems(o.queues[q])
        /\ \A b : b \in Elems(left) <=> b \in Elems(o.queues[q]) /\ b \notin X
        /\ o.queues[q] = <<>> => left = <<>>
    BY <1>5, <1>7
  <2>2. Unlinked(o1, o, q, left, X)
    BY <1>3, <1>7, <2>1 DEF Unlinked
  <2> HIDE DEF X, o, g, D, old, j
  <2>3. /\ o1 \in ObjectType /\ Part(o1, o) /\ Distinct(o1)
        /\ \A b : b \in PointersOf(o1) <=> b \in PointersOf(o) /\ b \notin X
    BY <1>4, <1>8, <2>2, QueuePart
  <2> QED
    BY <2>3 DEF X
<1>10. DOMAIN g = DOMAIN heap /\ g[s] = o1 /\ \A b \in DOMAIN heap : b # s => g[b] = heap[b]
  BY <1>4, ObjectSet
<1>11. D = {j, heap[j].buffer}
  BY DEF ItemBlocks
<1> HIDE DEF g, D, j, old
<1>12. \A b \in DOMAIN heap : b \in D => PointersOf(heap[b]) \subseteq D
  <2>1. NULL \notin DOMAIN heap
    BY ObjectsOwned, NullIsNoBlock DEF Blocks
  <2>2. ASSUME NEW b \in DOMAIN heap, b \in D
        PROVE  PointersOf(heap[b]) \subseteq D
    <3>1. CASE b = j
      BY <1>6, <1>11, <3>1
    <3>2. CASE b = heap[j].buffer
      BY <1>6, <2>1, <3>2
    <3> QED
      BY <1>11, <2>2, <3>1, <3>2
  <2> QED
    BY <2>2
<1>13. \A b \in DOMAIN heap : b \notin D =>
          /\ g[b] \in ObjectType /\ Part(g[b], heap[b]) /\ Distinct(g[b])
          /\ \A p : p \in PointersOf(g[b]) <=> p \in PointersOf(heap[b]) /\ p \notin D
  <2> SUFFICES ASSUME NEW b \in DOMAIN heap, b \notin D
               PROVE  /\ g[b] \in ObjectType /\ Part(g[b], heap[b]) /\ Distinct(g[b])
                      /\ \A p : p \in PointersOf(g[b]) <=> p \in PointersOf(heap[b]) /\ p \notin D
    OBVIOUS
  <2>1. ASSUME NEW p \in PointersOf(heap[b]), p \in D
        PROVE  p = j /\ b = s
    <3>1. p = j => b = s
      BY <1>4, <1>6, OnePointer
    <3>2. p \in DOMAIN heap /\ p # NULL
      BY ObjectsOwned, NullIsNoBlock DEF Blocks
    <3>3. p = heap[j].buffer => b = j
      <4>1. p = heap[j].buffer => p \in PointersOf(heap[j])
        BY <1>6, <3>2
      <4> QED
        BY <1>6, <4>1, OnePointer
    <3> QED
      BY <1>11, <2>1, <3>1, <3>3
  <2>2. CASE b = s
    BY <1>9, <1>10, <1>11, <2>1, <2>2
  <2>3. CASE b # s
    <3>1. g[b] = heap[b]
      BY <1>10, <2>3
    <3>2. Part(heap[b], heap[b])
      BY DEF Part
    <3> QED
      BY <2>1, <2>3, <3>1, <3>2, ObjectsOwned
  <2> QED
    BY <2>2, <2>3
<1>14. Forgotten(g, D)
  BY <1>10, <1>12, <1>13 DEF Forgotten
<1>15. \A r : r \in roots <=> r \in roots /\ r \notin D
  <2>1. \A r \in roots : heap[r].kind \in Kinds /\ r \in DOMAIN heap
    BY ObjectsOwned
  <2>2. NULL \notin DOMAIN heap
    BY ObjectsOwned, NullIsNoBlock DEF Blocks
  <2>3. "item" \notin Kinds /\ "memory" \notin Kinds
    BY KindsAndQueues
  <2> QED
    BY <1>6, <1>11, <2>1, <2>2, <2>3
<1> QED
  BY <1>2, <1>14, <1>15, ForgottenIsFreed DEF LifeInv

(* An item leaves its queue: it was sent, or read, or answered.              *)
LEMMA DequeueKeeps ==
    ASSUME LifeInv, NEW s \in Streams, NEW q \in Queues, Dequeue(s, q)
    PROVE  LifeInv'
<1>1. PICK i \in DOMAIN heap[s].queues[q] : DeleteItem(s, q, i)
  BY DEF Dequeue
<1> QED
  BY <1>1, DeleteItemKeeps DEF Dequeue

(* A stream gets an observer or a key.                                      *)
LEMMA FieldGiven ==
    ASSUME LifeInv, NEW s \in Streams, NEW f \in {"observer", "listener", "extra"},
           heap[s][f] = NULL, f = "listener" => heap[s].kind = "mqtt",
           f = "extra" => heap[s].kind = "ws", Room(1),
           heap' = With([heap EXCEPT ![s][f] = NewBlock(1)], NewBlock(1), Object("memory")),
           roots' = roots
    PROVE  LifeInv'
<1> DEFINE n == NewBlock(1)
           o == heap[s]
           fresh == Object("memory")
           o1 == [o EXCEPT ![f] = n]
           g == [heap EXCEPT ![s] = o1]
<1>1. n \in Blocks /\ n \notin DOMAIN heap
  BY ObjectsOwned, NewBlocks DEF Blocks
<1>2. IsWith(heap', g, n, fresh) /\ FieldIs(o1, o, f, n)
  BY DEF IsWith, FieldIs
<1> HIDE DEF n, o1
<1>3. s \in DOMAIN heap /\ heap[s].kind \in Kinds /\ f \in Owners
  BY ObjectsOwned DEF Owners
<1>4. DOMAIN g = DOMAIN heap /\ g[s] = o1 /\ \A b \in DOMAIN heap : b # s => g[b] = heap[b]
  BY <1>3, ObjectSet
<1> HIDE DEF g, fresh
<1>5. /\ \A b : b \in DOMAIN heap' <=> b \in DOMAIN g \/ b = n
      /\ heap'[n] = fresh /\ IsMap(heap') /\ \A b \in DOMAIN g : b # n => heap'[b] = g[b]
  <2> DEFINE h2 == heap'
  <2>1. IsWith(h2, g, n, fresh)
    BY <1>2
  <2> HIDE DEF h2
  <2>2. /\ \A b : b \in DOMAIN h2 <=> b \in DOMAIN g \/ b = n
        /\ h2[n] = fresh /\ IsMap(h2) /\ \A b \in DOMAIN g : b # n => h2[b] = g[b]
    BY <2>1, WithIs
  <2> QED
    BY <2>2 DEF h2
<1>6. DOMAIN heap' = DOMAIN heap \cup {n}
  BY <1>4, <1>5
<1>7. FieldIs(heap'[s], heap[s], f, n) /\ \A b \in DOMAIN heap : b # s => heap'[b] = heap[b]
  <2>1. heap'[s] = o1
    BY <1>1, <1>3, <1>4, <1>5
  <2>2. \A b \in DOMAIN heap : b # s => heap'[b] = heap[b]
    BY <1>1, <1>4, <1>5
  <2> QED
    BY <1>2, <2>1, <2>2
<1>8. \/ f = "observer" /\ heap[s].kind \in Kinds
      \/ f = "listener" /\ heap[s].kind = "mqtt"
      \/ f = "extra" /\ heap[s].kind \in {"ssl", "ws"}
      \/ f = "buffer" /\ heap[s].kind \in {"item", "ws", "mqtt"}
  BY <1>3
<1>9. Owned(heap', roots)
  <2> DEFINE h2 == heap'
  <2>1. /\ DOMAIN h2 = DOMAIN heap \cup {n} /\ IsMap(h2) /\ h2[n] = Object("memory")
        /\ FieldIs(h2[s], heap[s], f, n) /\ \A b \in DOMAIN heap : b # s => h2[b] = heap[b]
    BY <1>5, <1>6, <1>7 DEF fresh
  <2> HIDE DEF h2, o
  <2>2. Owned(h2, roots)
    BY <1>1, <1>3, <1>8, <2>1, FieldAllocated DEF LifeInv
  <2> QED
    BY <2>2 DEF h2
<1> QED
  BY <1>9 DEF LifeInv

(* A stream loses its observer or its key.                                  *)
LEMMA FieldTaken ==
    ASSUME LifeInv, NEW s \in Streams, NEW f \in {"observer", "listener", "extra"},
           heap[s][f] # NULL,
           heap' = FreedIn([heap EXCEPT ![s][f] = NULL], {heap[s][f]}), roots' = roots
    PROVE  LifeInv'
<1> DEFINE o == heap[s]
           p == o[f]
           D == {p}
           o1 == [o EXCEPT ![f] = NULL]
           g == [heap EXCEPT ![s] = o1]
<1>1. IsFreed(heap', g, D) /\ FieldIs(o1, o, f, NULL)
  BY DEF IsFreed, FieldIs
<1> HIDE DEF o1
<1>2. /\ s \in DOMAIN heap /\ heap[s].kind \in Kinds /\ f \in Owners
      /\ o \in ObjectType /\ Distinct(o) /\ Targets(heap, o)
  BY ObjectsOwned DEF Owners
<1>3. DOMAIN g = DOMAIN heap /\ g[s] = o1 /\ \A b \in DOMAIN heap : b # s => g[b] = heap[b]
  BY <1>2, ObjectSet
<1>4. p \in PointersOf(heap[s]) /\ heap[p].kind = "memory"
  BY <1>2, FieldsPoint DEF Targets
<1>5. p \in DOMAIN heap /\ PointersOf(heap[p]) = {}
  <2>1. p \in DOMAIN heap
    BY <1>2, <1>4, OnePointer
  <2> QED
    BY <1>4, <2>1, ObjectsOwned DEF Form
<1>6. "memory" \notin Kinds
  BY KindsAndQueues
<1>7. p # o.decorated /\ p \notin Queued(o)
  <2>1. p # o.decorated
    BY <1>2, <1>4, <1>6 DEF Targets
  <2>2. p \notin Queued(o)
    BY <1>2, <1>4 DEF Targets
  <2> QED
    BY <2>1, <2>2
<1>8. /\ o1 \in ObjectType /\ Part(o1, o) /\ Distinct(o1)
      /\ \A b : b \in PointersOf(o1) <=> b \in PointersOf(o) /\ b # p
  <2>1. o[f] # NULL /\ o[f] # o.decorated /\ o[f] \notin Queued(o)
    BY <1>7
  <2> HIDE DEF o, g, D
  <2> QED
    BY <1>1, <1>2, <2>1, FieldCleared
<1> HIDE DEF g, p
<1>9. \A b \in DOMAIN heap : b \notin D =>
          /\ g[b] \in ObjectType /\ Part(g[b], heap[b]) /\ Distinct(g[b])
          /\ \A r : r \in PointersOf(g[b]) <=> r \in PointersOf(heap[b]) /\ r \notin D
  <2> SUFFICES ASSUME NEW b \in DOMAIN heap, b \notin D
               PROVE  /\ g[b] \in ObjectType /\ Part(g[b], heap[b]) /\ Distinct(g[b])
                      /\ \A r : r \in PointersOf(g[b]) <=> r \in PointersOf(heap[b]) /\ r \notin D
    OBVIOUS
  <2>1. CASE b = s
    BY <1>3, <1>8, <2>1
  <2>2. CASE b # s
    <3>1. g[b] = heap[b] /\ Part(heap[b], heap[b])
      BY <1>3, <2>2 DEF Part
    <3>2. p \notin PointersOf(heap[b])
      BY <1>2, <1>4, <2>2, OnePointer
    <3> QED
      BY <3>1, <3>2, ObjectsOwned
  <2> QED
    BY <2>1, <2>2
<1>10. Forgotten(g, D)
  BY <1>3, <1>5, <1>9 DEF Forgotten
<1>11. \A r : r \in roots <=> r \in roots /\ r \notin D
  BY <1>2, <1>4, OnePointer
<1> HIDE DEF D
<1> QED
  BY <1>1, <1>10, <1>11, ForgottenIsFreed DEF LifeInv

(* An object that changes in another way but still points to the same.      *)
LEMMA ChangeKeeps ==
    ASSUME LifeInv, NEW s \in DOMAIN heap, NEW o2 \in ObjectType, Form(o2), Distinct(o2),
           o2.kind = heap[s].kind, o2.decorated = heap[s].decorated,
           \A f \in Owners : o2[f] = heap[s][f],
           \A b : b \in Queued(o2) <=> b \in Queued(heap[s]),
           NEW g, g = [heap EXCEPT ![s] = o2]
    PROVE  Owned(g, roots)
<1>1. DOMAIN g = DOMAIN heap /\ IsMap(g) /\ g[s] = o2 /\ \A b \in DOMAIN heap : b # s => g[b] = heap[b]
  BY ObjectSet
<1>2. PointersOf(o2) = PointersOf(heap[s])
  <2>1. \A b : b \in PointersOf(o2) <=> b \in PointersOf(heap[s])
    BY PointersByField
  <2> QED
    BY <2>1
<1>3. Links(g) = Links(heap)
  BY <1>1, <1>2 DEF Links
<1>4. g \in [DOMAIN g -> ObjectType]
  BY <1>1, ObjectsOwned, HeapTyped
<1>5. \A b \in DOMAIN heap : g[b].kind = heap[b].kind
  BY <1>1
<1>6. \A b \in DOMAIN heap : Targets(g, heap[b])
  BY <1>5, TargetsWhenAllocated DEF LifeInv
<1>7. Targets(g, o2)
  <2>1. Targets(g, heap[s])
    BY <1>6
  <2> QED
    BY <2>1 DEF Targets
<1>8. \A b \in DOMAIN g : Form(g[b]) /\ Distinct(g[b]) /\ Targets(g, g[b])
  BY <1>1, <1>6, <1>7, ObjectsOwned
<1>9. \A b \in roots : g[b].kind \in Kinds
  BY <1>5, ObjectsOwned
<1>10. DOMAIN g \subseteq Blocks /\ Tree(Links(g), roots)
  BY <1>1, <1>3 DEF LifeInv, Owned
<1> QED
  BY <1>4, <1>8, <1>9, <1>10 DEF Owned

(* stream_set_observer, stream_mqtt_set_observer, and the opposite.         *)
LEMMA ObserverKeeps ==
    ASSUME LifeInv, NEW s \in Streams,
           NEW f \in {"observer"} \cup (IF heap[s].kind = "mqtt" THEN {"listener"} ELSE {}),
           SetObserver(s, f) \/ RemoveObserver(s, f)
    PROVE  LifeInv'
<1>1. f \in {"observer", "listener", "extra"} /\ f # "extra" /\ (f = "listener" => heap[s].kind = "mqtt")
  OBVIOUS
<1>2. CASE SetObserver(s, f)
  BY <1>1, <1>2, FieldGiven DEF SetObserver
<1>3. CASE RemoveObserver(s, f)
  BY <1>1, <1>3, FieldTaken DEF RemoveObserver
<1> QED
  BY <1>2, <1>3

(* The key of a WebSocket client is made, and dropped.                      *)
LEMMA KeyKeeps ==
    ASSUME LifeInv, NEW s \in Streams, MakeKey(s) \/ DropKey(s)
    PROVE  LifeInv'
<1> DEFINE f == "extra"
<1>1. f \in {"observer", "listener", "extra"} /\ f # "listener" /\ heap[s].extra = heap[s][f]
  OBVIOUS
<1>2. CASE MakeKey(s)
  <2>1. heap' = With([heap EXCEPT ![s][f] = NewBlock(1)], NewBlock(1), Object("memory"))
    BY <1>2 DEF MakeKey
  <2>2. heap[s].kind = "ws" /\ heap[s][f] = NULL /\ Room(1) /\ roots' = roots
    BY <1>2 DEF MakeKey
  <2> HIDE DEF f
  <2> QED
    BY <1>1, <2>1, <2>2, FieldGiven
<1>3. CASE DropKey(s)
  <2>1. heap' = FreedIn([heap EXCEPT ![s][f] = NULL], {heap[s][f]})
    BY <1>3 DEF DropKey
  <2>2. heap[s][f] # NULL /\ roots' = roots
    BY <1>3 DEF DropKey
  <2> HIDE DEF f
  <2> QED
    BY <1>1, <2>1, <2>2, FieldTaken
<1> QED
  BY <1>2, <1>3

(* An item goes from one queue of a stream to another.                       *)
LEMMA MoveItemKeeps ==
    ASSUME LifeInv, NEW s \in Streams, NEW from \in QueuesOf[heap[s].kind],
           NEW to \in QueuesOf[heap[s].kind], from # to, NEW i \in DOMAIN heap[s].queues[from],
           MoveItem(s, from, to, i), roots' = roots
    PROVE  LifeInv'
<1> DEFINE o == heap[s]
           old == o.queues[from]
           given == o.queues[to]
<1>1. /\ i \in DOMAIN old
      /\ heap' = [heap EXCEPT ![s].queues[from] = Front(old, i - 1) \o Rest(old, i),
                              ![s].queues[to] = Append(@, old[i])]
  BY DEF MoveItem
<1> DEFINE j == old[i]
           left == Front(old, i - 1) \o Rest(old, i)
           more == Append(given, j)
           o1 == [o EXCEPT !.queues[from] = left]
           o2 == [o1 EXCEPT !.queues[to] = more]
           g == [heap EXCEPT ![s] = o2]
<1>2. /\ s \in DOMAIN heap /\ o.kind \in Kinds /\ o \in ObjectType /\ Distinct(o) /\ Form(o)
      /\ QueuesApart(o) /\ from \in Queues /\ to \in Queues
  BY ObjectsOwned, QueuedHere, KindsAndQueues
<1>3. /\ old \in Seq(Blocks) /\ NoTwice(old) /\ given \in Seq(Blocks) /\ NoTwice(given)
      /\ Elems(old) \cap Elems(given) = {}
  BY <1>2, QueuesDistinct DEF ObjectType
<1>4. j \in Elems(old) /\ j \in Blocks /\ j \notin Elems(given) /\ old # <<>>
  <2>1. j \in Elems(old)
    BY InElems
  <2>2. old # <<>>
    <3>1. DOMAIN <<>> = {}
      OBVIOUS
    <3> QED
      BY <1>1, <3>1
  <2>3. j \in Blocks
    BY <1>1, <1>3
  <2> QED
    BY <1>3, <2>1, <2>2, <2>3
<1>5. heap' = g
  <2> DEFINE qs == [o.queues EXCEPT ![from] = left]
             rs == [qs EXCEPT ![to] = more]
  <2>1. o.queues \in [Queues -> Seq(Blocks)]
    BY <1>2 DEF ObjectType
  <2>2. qs[to] = given
    BY <1>2, <2>1
  <2>3. o1.queues[to] = given
    BY <1>2, <2>2 DEF ObjectType
  <2> DEFINE a == [heap EXCEPT ![s].queues[from] = left]
  <2>4. a = [heap EXCEPT ![s] = o1]
    OBVIOUS
  <2>5. heap' = [a EXCEPT ![s].queues[to] = Append(@, j)]
    BY <1>1
  <2>6. DOMAIN a = DOMAIN heap /\ IsMap(a) /\ a[s] = o1 /\ \A b \in DOMAIN heap : b # s => a[b] = heap[b]
    <3> HIDE DEF o1, a
    <3> QED
      BY <1>2, <2>4, ObjectSet
  <2> HIDE DEF a
  <2>7. heap' = [a EXCEPT ![s] = [a[s] EXCEPT !.queues[to] = Append(a[s].queues[to], j)]]
    BY <2>5
  <2> HIDE DEF o1
  <2>8. heap' = [a EXCEPT ![s] = o2]
    <3>1. a[s].queues[to] = given /\ a[s] = o1
      BY <2>3, <2>6
    <3> QED
      BY <2>7, <3>1
  <2> HIDE DEF o2
  <2>9. [a EXCEPT ![s] = o2] = [heap EXCEPT ![s] = o2]
    <3> DEFINE D == DOMAIN heap
    <3>1. DOMAIN a = D /\ \A b \in D : b # s => a[b] = heap[b]
      BY <2>6
    <3>2. [a EXCEPT ![s] = o2] = [b \in D |-> IF b = s THEN o2 ELSE heap[b]]
      BY <3>1
    <3>3. [heap EXCEPT ![s] = o2] = [b \in D |-> IF b = s THEN o2 ELSE heap[b]]
      OBVIOUS
    <3> QED
      BY <3>2, <3>3
  <2> QED
    BY <2>8, <2>9
<1>6. QueueIs(o1, o, from, left) /\ QueueIs(o2, o1, to, more)
  BY DEF QueueIs
<1> HIDE DEF o1, o2
<1>7. left \in Seq(Blocks) /\ NoTwice(left) /\ Elems(left) = Elems(old) \ {j}
  <2> HIDE DEF old
  <2> QED
    BY <1>1, <1>3, UnlinkedItem
<1>8. more \in Seq(Blocks) /\ NoTwice(more) /\ Elems(more) = Elems(given) \cup {j}
  <2> HIDE DEF given, j
  <2> QED
    BY <1>3, <1>4, AppendedItem
<1> HIDE DEF left, more
<1>9. /\ o1 \in ObjectType /\ o1.kind = o.kind /\ o1.decorated = o.decorated
      /\ \A f \in Owners : o1[f] = o[f]
      /\ o1.queues[from] = left
      /\ \A r \in Queues : r # from => o1.queues[r] = o.queues[r]
  BY <1>2, <1>6, <1>7, QueueSet
<1>10. /\ o2 \in ObjectType /\ o2.kind = o.kind /\ o2.decorated = o.decorated
       /\ \A f \in Owners : o2[f] = o[f]
       /\ o2.queues[to] = more /\ o2.queues[from] = left
       /\ \A r \in Queues : r \notin {from, to} => o2.queues[r] = o.queues[r]
  <2>1. /\ o2 \in ObjectType /\ o2.kind = o1.kind /\ o2.decorated = o1.decorated
        /\ \A f \in Owners : o2[f] = o1[f]
        /\ o2.queues[to] = more
        /\ \A r \in Queues : r # to => o2.queues[r] = o1.queues[r]
    BY <1>2, <1>6, <1>8, <1>9, QueueSet
  <2> QED
    BY <1>2, <1>9, <2>1
<1>11. \A r \in Queues : \A x : x \in Elems(o2.queues[r]) <=>
          IF r = from THEN x \in Elems(o.queues[r]) /\ x # j
          ELSE IF r = to THEN x \in Elems(o.queues[r]) \/ x = j
          ELSE x \in Elems(o.queues[r])
  BY <1>7, <1>8, <1>10
<1>12. \A x : x \in Queued(o2) <=> x \in Queued(o)
  <2>1. \A p \in {o, o2} : \A x : x \in Queued(p) <=> \E r \in Queues : x \in Elems(p.queues[r])
    BY PointersByField DEF Elems
  <2> HIDE DEF o, g
  <2> QED
    BY <1>2, <1>4, <1>11, <2>1
<1>13. Distinct(o2)
  <2>1. /\ \A r \in Queues : NoTwice(o.queues[r])
        /\ \A r, t \in Queues : r # t => Elems(o.queues[r]) \cap Elems(o.queues[t]) = {}
    BY <1>2, QueuesDistinct
  <2>2. \A r \in Queues : NoTwice(o2.queues[r])
    BY <1>7, <1>8, <1>10, <2>1
  <2>3. ASSUME NEW r \in Queues, NEW t \in Queues, r # t
        PROVE  Elems(o2.queues[r]) \cap Elems(o2.queues[t]) = {}
    <3>1. \A x : ~ (x \in Elems(o.queues[r]) /\ x \in Elems(o.queues[t]))
      BY <2>1, <2>3
    <3>2. \A u \in Queues : u # from => j \notin Elems(o.queues[u])
      BY <1>2, <1>4, <2>1
    <3>3. \A x : ~ (x \in Elems(o2.queues[r]) /\ x \in Elems(o2.queues[t]))
      <4> HIDE DEF o, j
      <4> QED
        BY <1>11, <2>3, <3>1, <3>2
    <3> QED
      BY <3>3
  <2>4. \A e, f \in Owners : e # f /\ o2[e] # NULL => o2[e] # o2[f]
    BY <1>2, <1>10 DEF Distinct
  <2> QED
    BY <2>2, <2>3, <2>4, QueuesDistinct
<1>14. Form(o2)
  <2>2. o2.listener = o.listener /\ o2.buffer = o.buffer /\ o2.extra = o.extra
    BY <1>10 DEF Owners
  <2>3. o.kind \notin {"memory", "item"}
    BY <1>2, KindsAndQueues
  <2>4. \A r \in Queues \ QueuesOf[o.kind] : o2.queues[r] = <<>>
    <3>1. \A r \in Queues \ QueuesOf[o.kind] : o.queues[r] = <<>>
      BY <1>2 DEF Form
    <3> QED
      BY <1>10, <3>1
  <2> HIDE DEF g
  <2> QED
    BY <1>2, <1>10, <2>2, <2>3, <2>4 DEF Form
<1>15. Owned(g, roots)
  <2>1. /\ o2.kind = heap[s].kind /\ o2.decorated = heap[s].decorated
        /\ \A f \in Owners : o2[f] = heap[s][f]
        /\ \A b : b \in Queued(o2) <=> b \in Queued(heap[s])
    BY <1>10, <1>12
  <2>2. g = [heap EXCEPT ![s] = o2]
    OBVIOUS
  <2> HIDE DEF g, o
  <2> QED
    BY <1>2, <1>10, <1>13, <1>14, <2>1, <2>2, ChangeKeeps
<1> HIDE DEF g
<1> QED
  BY <1>5, <1>15 DEF LifeInv

(* A PUBREL releases a message, and its observer returns.                    *)
LEMMA ReleaseKeeps ==
    ASSUME LifeInv, NEW s \in Streams, Release(s) \/ Released(s)
    PROVE  LifeInv'
<1>1. /\ heap[s].kind \in Kinds /\ heap[s].queues \in [Queues -> Seq(Blocks)]
      /\ \A q \in Queues \ QueuesOf[heap[s].kind] : heap[s].queues[q] = <<>>
      /\ {"inbound", "released"} \subseteq Queues
  BY ObjectsOwned, KindsAndQueues DEF ObjectType, Form
<1>2. ASSUME NEW q \in {"inbound", "released"}, heap[s].queues[q] # <<>>
      PROVE  {"inbound", "released", "incoming"} \subseteq QueuesOf[heap[s].kind]
  <2>1. q \in QueuesOf[heap[s].kind]
    BY <1>1, <1>2
  <2>2. heap[s].kind = "mqtt"
    BY <1>1, <2>1, KindsAndQueues DEF QueuesOf
  <2> QED
    BY <2>2 DEF QueuesOf
<1>3. CASE Release(s)
  <2>1. PICK i \in DOMAIN heap[s].queues["inbound"] : MoveItem(s, "inbound", "released", i)
    BY <1>3 DEF Release
  <2>2. heap[s].queues["inbound"] # <<>>
    <3>1. DOMAIN <<>> = {}
      OBVIOUS
    <3> QED
      BY <2>1, <3>1
  <2>3. "inbound" \in QueuesOf[heap[s].kind] /\ "released" \in QueuesOf[heap[s].kind]
    BY <1>2, <2>2
  <2> QED
    BY <1>3, <2>1, <2>3, "inbound" # "released", MoveItemKeeps DEF Release
<1>4. CASE Released(s)
  <2>1. heap[s].queues["released"] # <<>> /\ roots' = roots
    BY <1>4 DEF Released, HandlerReturned
  <2>2. 1 \in DOMAIN heap[s].queues["released"]
    <3> DEFINE held == heap[s].queues["released"]
    <3>1. held \in Seq(Blocks) /\ held # <<>>
      BY <1>1, <2>1
    <3> HIDE DEF held
    <3>2. 1 \in DOMAIN held
      BY <3>1
    <3> QED
      BY <3>2 DEF held
  <2>3. "released" \in QueuesOf[heap[s].kind] /\ "incoming" \in QueuesOf[heap[s].kind]
    BY <1>2, <2>1
  <2>4. CASE DeleteItem(s, "released", 1)
    BY <1>1, <2>1, <2>2, <2>4, DeleteItemKeeps
  <2>5. CASE MoveItem(s, "released", "incoming", 1)
    BY <2>1, <2>2, <2>3, <2>5, "released" # "incoming", MoveItemKeeps
  <2> QED
    BY <1>4, <2>4, <2>5 DEF Released
<1> QED
  BY <1>3, <1>4

(* A stack has its top, what each of its streams decorates, and no more.    *)
LEMMA InStackIs ==
    ASSUME LifeInv, NEW s \in Streams
    PROVE  /\ s \in InStack(s)
           /\ \A b \in InStack(s) :
                /\ b \in Streams /\ b \in DOMAIN heap
                /\ heap[b].decorated # NULL => heap[b].decorated \in InStack(s)
                /\ b # s => \E c \in InStack(s) : heap[c].decorated = b
<1> DEFINE Closed(S) == \A c \in S : heap[c].decorated # NULL => heap[c].decorated \in S
           T == InStack(s)
<1>1. \A b : b \in T <=> b \in Streams /\ \A S \in SUBSET Streams : s \in S /\ Closed(S) => b \in S
  BY DEF InStack
<1> HIDE DEF T
<1>2. s \in T
  BY <1>1
<1>3. ASSUME NEW b \in T, heap[b].decorated # NULL
      PROVE  heap[b].decorated \in T
  <2>1. b \in Streams /\ b \in DOMAIN heap /\ Targets(heap, heap[b])
    BY <1>1, ObjectsOwned
  <2>2. heap[b].decorated \in DOMAIN heap
    BY <1>3, <2>1, FieldsPoint, ObjectsOwned
  <2>3. heap[b].decorated \in Streams
    BY <1>3, <2>1, <2>2 DEF Targets, Streams, InUse
  <2>4. \A S \in SUBSET Streams : s \in S /\ Closed(S) => heap[b].decorated \in S
    BY <1>1, <1>3
  <2> HIDE DEF Closed
  <2> QED
    BY <1>1, <2>3, <2>4
<1>4. ASSUME NEW b \in T, b # s, \A c \in T : heap[c].decorated # b
      PROVE  FALSE
  <2> DEFINE S == T \ {b}
  <2>1. S \in SUBSET Streams
    <3> HIDE DEF Closed
    <3> QED
      BY <1>1
  <2>2. s \in S
    BY <1>2, <1>4
  <2>3. Closed(S)
    BY <1>3, <1>4
  <2>4. b \in S
    <3> HIDE DEF S, Closed
    <3> QED
      BY <1>1, <2>1, <2>2, <2>3
  <2> QED
    BY <2>4
<1>5. \A b \in T : b \in Streams /\ b \in DOMAIN heap
  <2> HIDE DEF Closed
  <2> QED
    BY <1>1, ObjectsOwned
<1> QED
  BY <1>2, <1>3, <1>4, <1>5 DEF T

(* The blocks that a queue of a stream owns.                                *)
LEMMA QueueBlocksAre ==
    ASSUME NEW s, NEW q \in Queues
    PROVE  /\ \A x : x \in QueueBlocks(s, q) <=>
                \E j \in Elems(heap[s].queues[q]) : x = j \/ x = heap[j].buffer
           /\ \A j \in Elems(heap[s].queues[q]) : j \in Queued(heap[s])
<1>1. \A x : x \in QueueBlocks(s, q) <=>
          \E i \in DOMAIN heap[s].queues[q] : x \in ItemBlocks(heap[s].queues[q][i])
  BY DEF QueueBlocks
<1>2. \A j : ItemBlocks(j) = {j, heap[j].buffer}
  BY DEF ItemBlocks
<1>3. \A j : j \in Elems(heap[s].queues[q]) <=> \E i \in DOMAIN heap[s].queues[q] : heap[s].queues[q][i] = j
  BY InElems
<1>4. \A x : x \in QueueBlocks(s, q) <=>
          \E i \in DOMAIN heap[s].queues[q] :
            x = heap[s].queues[q][i] \/ x = heap[heap[s].queues[q][i]].buffer
  BY <1>1, <1>2
<1>5. \A j \in Elems(heap[s].queues[q]) : j \in Queued(heap[s])
  BY <1>3, PointersByField
<1> QED
  BY <1>3, <1>4, <1>5

(* An item and its buffer have one owner each.                              *)
LEMMA ItemOwner ==
    ASSUME LifeInv, NEW c \in DOMAIN heap, NEW j \in Queued(heap[c]),
           NEW b \in DOMAIN heap, NEW x \in PointersOf(heap[b])
    PROVE  (x = j => b = c) /\ (x = heap[j].buffer => b = j)
<1>1. /\ j \in DOMAIN heap /\ j \in PointersOf(heap[c])
      /\ PointersOf(heap[j]) = {heap[j].buffer} \ {NULL}
  BY QueuedItem
<1>2. x = j => b = c
  BY <1>1, OnePointer
<1>3. x = heap[j].buffer => b = j
  <2>1. x # NULL
    BY ObjectsOwned, NullIsNoBlock DEF Blocks
  <2>2. x = heap[j].buffer => x \in PointersOf(heap[j])
    BY <1>1, <2>1
  <2> QED
    BY <1>1, <2>2, OnePointer
<1> QED
  BY <1>2, <1>3

(* The blocks of queued items are no streams.                               *)
LEMMA ItemsAreNoStreams ==
    ASSUME LifeInv, NEW c \in DOMAIN heap, NEW j \in Queued(heap[c]), NEW b \in DOMAIN heap,
           b = j \/ b = heap[j].buffer
    PROVE  /\ heap[b].kind \notin Kinds
           /\ \A p \in PointersOf(heap[b]) : p = heap[j].buffer
<1>1. "item" \notin Kinds /\ "memory" \notin Kinds
  BY KindsAndQueues
<1>2. b # NULL
  BY ObjectsOwned, NullIsNoBlock DEF Blocks
<1>3. CASE b = j
  BY <1>1, <1>3, QueuedItem
<1>4. CASE b = heap[j].buffer
  BY <1>1, <1>2, <1>4, QueuedItem
<1> QED
  BY <1>3, <1>4

(* stream_reset_outgoing_data.                                              *)
LEMMA ResetKeeps ==
    ASSUME LifeInv, NEW s \in Streams, ResetOutgoingData(s)
    PROVE  LifeInv'
<1> DEFINE T == InStack(s)
           Drained(b) == [heap[b] EXCEPT !.queues["outgoing"] = <<>>]
           g == [b \in InUse |-> IF b \in T THEN Drained(b) ELSE heap[b]]
           D == UNION {QueueBlocks(b, "outgoing") : b \in T}
           Items(b) == Elems(heap[b].queues["outgoing"])
<1>1. IsFreed(heap', g, D) /\ roots' = roots
  BY DEF ResetOutgoingData, IsFreed
<1>2. DOMAIN g = DOMAIN heap /\ \A b \in DOMAIN heap : g[b] = IF b \in T THEN Drained(b) ELSE heap[b]
  <2> HIDE DEF T, Drained
  <2> QED
    BY DEF InUse
<1>3. \A b \in T : b \in DOMAIN heap
  BY InStackIs
<1>4. "outgoing" \in Queues
  BY KindsAndQueues
<1>5. /\ \A x : x \in D <=> \E b \in T : \E j \in Items(b) : x = j \/ x = heap[j].buffer
      /\ \A b : \A j \in Items(b) : j \in Queued(heap[b])
  <2>1. \A b : \A x : x \in QueueBlocks(b, "outgoing") <=> \E j \in Items(b) : x = j \/ x = heap[j].buffer
    BY <1>4, QueueBlocksAre
  <2>2. \A x : x \in D <=> \E b \in T : x \in QueueBlocks(b, "outgoing")
    OBVIOUS
  <2>3. \A b : \A j \in Items(b) : j \in Queued(heap[b])
    BY <1>4, QueueBlocksAre
  <2> HIDE DEF T, D, Items
  <2> QED
    BY <2>1, <2>2, <2>3
<1>6. ASSUME NEW b \in T
      PROVE  /\ Drained(b) \in ObjectType /\ Part(Drained(b), heap[b]) /\ Distinct(Drained(b))
             /\ \A x : x \in PointersOf(Drained(b)) <=> x \in PointersOf(heap[b]) /\ x \notin Items(b)
  <2> DEFINE o == heap[b]
             o1 == Drained(b)
             X == Items(b)
             q == "outgoing"
             e == <<>>
  <2>1. o \in ObjectType /\ Distinct(o) /\ QueuesApart(o) /\ q \in Queues
    BY <1>3, <1>4, ObjectsOwned, QueuedHere
  <2>2. QueueIs(o1, o, q, e)
    BY DEF QueueIs
  <2>3. e \in Seq(Blocks) /\ NoTwice(e) /\ \A x : x \notin Elems(e)
    <3>1. DOMAIN <<>> = {}
      OBVIOUS
    <3> QED
      BY <3>1 DEF NoTwice, Elems
  <2>4. X = Elems(o.queues[q])
    OBVIOUS
  <2> HIDE DEF o, o1, X, e, q, T
  <2>5. Unlinked(o1, o, q, e, X)
    <3>1. o.queues[q] = <<>> => e = <<>>
      BY DEF e
    <3> QED
      BY <2>2, <2>3, <2>4, <3>1 DEF Unlinked
  <2>6. /\ o1 \in ObjectType /\ Part(o1, o) /\ Distinct(o1)
        /\ \A x : x \in PointersOf(o1) <=> x \in PointersOf(o) /\ x \notin X
    BY <2>1, <2>5, QueuePart
  <2> QED
    BY <2>6 DEF o, o1, X
<1> HIDE DEF T, D, g, Drained, Items
<1>7. ASSUME NEW b \in DOMAIN heap, b \in D
      PROVE  PointersOf(heap[b]) \subseteq D
  <2>1. PICK c \in T : \E j \in Items(c) : b = j \/ b = heap[j].buffer
    BY <1>5, <1>7
  <2>2. PICK j \in Items(c) : b = j \/ b = heap[j].buffer
    BY <2>1
  <2>3. heap[j].buffer \in D
    BY <1>5
  <2>4. c \in DOMAIN heap /\ j \in Queued(heap[c])
    BY <1>3, <1>5
  <2>5. \A p \in PointersOf(heap[b]) : p = heap[j].buffer
    BY <2>2, <2>4, ItemsAreNoStreams
  <2> QED
    BY <2>3, <2>5
<1>8. ASSUME NEW b \in DOMAIN heap, b \notin D, NEW x \in PointersOf(heap[b]), x \in D
      PROVE  b \in T /\ x \in Items(b)
  <2>1. PICK c \in T : \E j \in Items(c) : x = j \/ x = heap[j].buffer
    BY <1>5, <1>8
  <2>2. PICK j \in Items(c) : x = j \/ x = heap[j].buffer
    BY <2>1
  <2>3. c \in DOMAIN heap /\ j \in Queued(heap[c]) /\ j \in D
    BY <1>3, <1>5
  <2>4. (x = j => b = c) /\ (x = heap[j].buffer => b = j)
    BY <2>3, ItemOwner
  <2> QED
    BY <1>8, <2>2, <2>3, <2>4
<1>9. ASSUME NEW b \in DOMAIN heap, b \notin D
      PROVE  /\ g[b] \in ObjectType /\ Part(g[b], heap[b]) /\ Distinct(g[b])
             /\ \A x : x \in PointersOf(g[b]) <=> x \in PointersOf(heap[b]) /\ x \notin D
  <2>1. CASE b \in T
    <3>1. g[b] = Drained(b)
      BY <1>2, <2>1
    <3>2. \A x \in Items(b) : x \in D
      BY <1>5, <2>1
    <3>3. \A x \in PointersOf(heap[b]) : x \in Items(b) <=> x \in D
      BY <1>8, <1>9, <3>2
    <3> QED
      BY <1>6, <2>1, <3>1, <3>3
  <2>2. CASE b \notin T
    <3>1. g[b] = heap[b] /\ Part(heap[b], heap[b])
      BY <1>2, <2>2 DEF Part
    <3>2. \A x \in PointersOf(heap[b]) : x \notin D
      BY <1>8, <1>9, <2>2
    <3> QED
      BY <3>1, <3>2, ObjectsOwned
  <2> QED
    BY <2>1, <2>2
<1>10. Forgotten(g, D)
  BY <1>2, <1>7, <1>9 DEF Forgotten
<1>11. ASSUME NEW r \in roots, r \in D
       PROVE  FALSE
  <2>1. PICK c \in T : \E j \in Items(c) : r = j \/ r = heap[j].buffer
    BY <1>5, <1>11
  <2>2. PICK j \in Items(c) : r = j \/ r = heap[j].buffer
    BY <2>1
  <2>3. c \in DOMAIN heap /\ j \in Queued(heap[c])
    BY <1>3, <1>5
  <2>4. r \in DOMAIN heap /\ heap[r].kind \in Kinds
    BY ObjectsOwned
  <2> QED
    BY <2>2, <2>3, <2>4, ItemsAreNoStreams
<1>12. \A r : r \in roots <=> r \in roots /\ r \notin D
  BY <1>11
<1> QED
  BY <1>1, <1>10, <1>12, ForgottenIsFreed DEF LifeInv

(* What the destructor of a stream frees: all that the stream points to but *)
(* the stream that it decorates, and the buffers of its items.              *)
LEMMA DestroyedIs ==
    ASSUME LifeInv, NEW s \in Streams, HandlerReturned(s)
    PROVE  \A x \in DOMAIN heap : x \in Destroyed(s) <=>
             \/ x = s \/ \E f \in Owners : x = heap[s][f]
             \/ x \in Queued(heap[s]) \/ \E j \in Queued(heap[s]) : x = heap[j].buffer
<1> DEFINE o == heap[s]
           Items(q) == Elems(o.queues[q])
           Of(q) == QueueBlocks(s, q)
<1> SUFFICES ASSUME NEW x \in DOMAIN heap
             PROVE  x \in Destroyed(s) <=>
                      \/ x = s \/ \E f \in Owners : x = o[f]
                      \/ x \in Queued(o) \/ \E j \in Queued(o) : x = heap[j].buffer
  OBVIOUS
<1>1. x # NULL
  BY ObjectsOwned, NullIsNoBlock DEF Blocks
<1>2. o.kind \in Kinds /\ Form(o)
  BY ObjectsOwned
<1>3. (\E f \in Owners : x = o[f]) <=> x \in {o.observer, o.listener, o.buffer, o.extra}
  BY DEF Owners
<1>4. \A q \in Queues : x \in Of(q) <=> \E j \in Items(q) : x = j \/ x = heap[j].buffer
  BY QueueBlocksAre
<1>5. \A j : j \in Queued(o) <=> \E q \in Queues : j \in Items(q)
  BY PointersByField, InElems
<1>6. \A q \in Queues \ QueuesOf[o.kind] : \A j : j \notin Items(q)
  <2>1. \A q \in Queues \ QueuesOf[o.kind] : o.queues[q] = <<>>
    BY <1>2 DEF Form
  <2>2. DOMAIN <<>> = {}
    OBVIOUS
  <2> QED
    BY <2>1, <2>2 DEF Elems
<1>7. x \in Queued(o) \/ (\E j \in Queued(o) : x = heap[j].buffer) <=>
          \E q \in QueuesOf[o.kind] : x \in Of(q)
  <2>1. \A q \in QueuesOf[o.kind] : q \in Queues
    BY <1>2, KindsAndQueues
  <2>2. \A j : j \in Queued(o) <=> \E q \in QueuesOf[o.kind] : j \in Items(q)
    BY <1>5, <1>6, <2>1
  <2> HIDE DEF o, Items, Of
  <2> QED
    BY <1>4, <2>1, <2>2
<1>8. x \in StreamClean(s) <=> x \in Of("outgoing") \/ x = o.observer
  BY <1>1 DEF StreamClean
<1>9. CASE o.kind = "base"
  <2>1. x \in Destroyed(s) <=> x = s \/ x \in StreamClean(s)
    BY <1>9 DEF Destroyed
  <2>2. o.listener = NULL /\ o.buffer = NULL /\ o.extra = NULL
    BY <1>2, <1>9 DEF Form
  <2>3. QueuesOf[o.kind] = {"outgoing"}
    BY <1>9 DEF QueuesOf
  <2> HIDE DEF o, Items, Of
  <2> QED
    BY <1>1, <1>3, <1>7, <1>8, <2>1, <2>2, <2>3
<1>10. CASE o.kind = "ssl"
  <2>1. x \in Destroyed(s) <=> x = s \/ x \in StreamClean(s) \/ x = o.extra
    BY <1>1, <1>10 DEF Destroyed, SslClean
  <2>2. o.listener = NULL /\ o.buffer = NULL
    BY <1>2, <1>10 DEF Form
  <2>3. QueuesOf[o.kind] = {"outgoing"}
    BY <1>10 DEF QueuesOf
  <2> HIDE DEF o, Items, Of
  <2> QED
    BY <1>1, <1>3, <1>7, <1>8, <2>1, <2>2, <2>3
<1>11. CASE o.kind = "ws"
  <2>1. x \in Destroyed(s) <=> x = s \/ x \in StreamClean(s) \/ x = o.buffer \/ x = o.extra \/ x \in Of("cache")
    BY <1>1, <1>11 DEF Destroyed, WsClean
  <2>2. o.listener = NULL
    BY <1>2, <1>11 DEF Form
  <2>3. QueuesOf[o.kind] = {"outgoing", "cache"}
    BY <1>11 DEF QueuesOf
  <2> HIDE DEF o, Items, Of
  <2> QED
    BY <1>1, <1>3, <1>7, <1>8, <2>1, <2>2, <2>3
<1>12. CASE o.kind = "mqtt"
  <2>1. x \in Destroyed(s) <=> \/ x = s \/ x \in StreamClean(s) \/ x = o.buffer \/ x = o.listener
                               \/ x \in Of("incoming") \/ x \in Of("pending") \/ x \in Of("inbound")
    <3>1. x \in MqttClean(s) <=> \/ x = o.buffer \/ x = o.listener
                                 \/ x \in Of("incoming") \/ x \in Of("pending") \/ x \in Of("inbound")
      BY <1>1 DEF MqttClean
    <3>2. Destroyed(s) = {s} \cup StreamClean(s) \cup MqttClean(s)
      BY <1>12 DEF Destroyed
    <3> HIDE DEF o, Items, Of
    <3> QED
      BY <3>1, <3>2
  <2>2. o.extra = NULL
    BY <1>2, <1>12 DEF Form
  <2>3. QueuesOf[o.kind] = {"outgoing", "incoming", "pending", "inbound", "released"}
    BY <1>12 DEF QueuesOf
  <2>4. x \notin Of("released")
    BY DEF HandlerReturned, QueueBlocks
  <2> HIDE DEF o, Items, Of
  <2> QED
    BY <1>1, <1>3, <1>7, <1>8, <2>1, <2>2, <2>3, <2>4
<1> QED
  BY <1>2, <1>9, <1>10, <1>11, <1>12, KindsAndQueues

(* stream_delete of the top of a stack.                                     *)
LEMMA DeleteKeeps ==
    ASSUME LifeInv, NEW root \in roots, DeleteStream(root)
    PROVE  LifeInv'
<1> DEFINE T == InStack(root)
           D == UNION {Destroyed(s) : s \in T}
           Field(s, x) == \E f \in Owners : x = heap[s][f]
           Item(s, x) == x \in Queued(heap[s])
           Memory(s, x) == \E j \in Queued(heap[s]) : x = heap[j].buffer
<1>1. IsFreed(heap', heap, D) /\ roots' = roots \ {root}
  BY DEF DeleteStream, IsFreed
<1>2. /\ root \in Streams /\ root \in T
      /\ \A b \in T :
           /\ b \in Streams /\ b \in DOMAIN heap
           /\ heap[b].decorated # NULL => heap[b].decorated \in T
           /\ b # root => \E c \in T : heap[c].decorated = b
  BY ObjectsOwned, InStackIs
<1>3. \A x \in DOMAIN heap : x \in D <=>
          \E s \in T : x = s \/ Field(s, x) \/ Item(s, x) \/ Memory(s, x)
  <2>1. \A x : x \in D <=> \E s \in T : x \in Destroyed(s)
    OBVIOUS
  <2>2. \A s \in T : \A x \in DOMAIN heap :
            x \in Destroyed(s) <=> x = s \/ Field(s, x) \/ Item(s, x) \/ Memory(s, x)
    <3>1. \A s \in T : HandlerReturned(s)
      BY DEF DeleteStream, T
    <3> QED
      BY <1>2, <3>1, DestroyedIs
  <2> HIDE DEF T, D, Field, Item, Memory
  <2> QED
    BY <2>1, <2>2
<1> HIDE DEF T, D
<1>4. ASSUME NEW s \in T, NEW x \in DOMAIN heap, Field(s, x)
      PROVE  PointersOf(heap[x]) = {} /\ heap[x].kind \notin Kinds /\ x \in PointersOf(heap[s])
  <2>1. x # NULL
    BY ObjectsOwned, NullIsNoBlock DEF Blocks
  <2>2. heap[x].kind = "memory"
    BY <1>2, <1>4, <2>1, ObjectsOwned DEF Targets
  <2>3. x \in PointersOf(heap[s])
    BY <1>4, <2>1, FieldsPoint
  <2> QED
    BY <2>2, <2>3, ObjectsOwned, KindsAndQueues DEF Form
<1>5. ASSUME NEW b \in DOMAIN heap, b \in D
      PROVE  PointersOf(heap[b]) \subseteq D
  <2> SUFFICES ASSUME NEW p \in PointersOf(heap[b])
               PROVE  p \in D
    OBVIOUS
  <2>1. PICK s \in T : b = s \/ Field(s, b) \/ Item(s, b) \/ Memory(s, b)
    BY <1>3, <1>5
  <2>2. p \in DOMAIN heap /\ s \in DOMAIN heap
    BY <1>2, ObjectsOwned
  <2>3. CASE b = s
    <3>1. (p = heap[s].decorated /\ p # NULL) \/ Field(s, p) \/ Item(s, p)
      BY <2>3, PointersByField
    <3>2. p = heap[s].decorated /\ p # NULL => p \in T
      BY <1>2
    <3> HIDE DEF Field, Item, Memory
    <3> QED
      BY <1>3, <2>2, <3>1, <3>2
  <2>4. CASE Field(s, b)
    BY <1>4, <2>4
  <2>5. CASE Item(s, b) \/ Memory(s, b)
    <3>1. PICK j \in Queued(heap[s]) : b = j \/ b = heap[j].buffer
      BY <2>5
    <3>2. p = heap[j].buffer
      BY <2>2, <3>1, ItemsAreNoStreams
    <3>3. Memory(s, p)
      BY <3>2
    <3> HIDE DEF Field, Item, Memory
    <3> QED
      BY <1>3, <2>2, <3>3
  <2> QED
    BY <2>1, <2>3, <2>4, <2>5
<1>6. ASSUME NEW b \in DOMAIN heap, b \notin D, NEW p \in PointersOf(heap[b]), p \in D
      PROVE  FALSE
  <2>1. p \in DOMAIN heap /\ p \notin roots
    BY OnePointer
  <2>2. PICK s \in T : p = s \/ Field(s, p) \/ Item(s, p) \/ Memory(s, p)
    BY <1>3, <1>6, <2>1
  <2>3. s \in DOMAIN heap /\ \A c \in T : c \in DOMAIN heap /\ c \in D
    BY <1>2, <1>3
  <2>4. CASE p = s
    <3>1. PICK c \in T : heap[c].decorated = p
      BY <1>2, <2>1, <2>4
    <3>2. p # NULL
      BY <2>1, ObjectsOwned, NullIsNoBlock DEF Blocks
    <3>3. p \in PointersOf(heap[c])
      BY <3>1, <3>2, FieldsPoint
    <3> QED
      BY <1>6, <2>3, <3>3, OnePointer
  <2>5. CASE Field(s, p)
    <3>1. p \in PointersOf(heap[s])
      BY <1>4, <2>1, <2>5
    <3> QED
      BY <1>6, <2>3, <3>1, OnePointer
  <2>6. CASE Item(s, p) \/ Memory(s, p)
    <3>1. PICK j \in Queued(heap[s]) : p = j \/ p = heap[j].buffer
      BY <2>6
    <3>2. (p = j => b = s) /\ (p = heap[j].buffer => b = j)
      BY <2>3, ItemOwner
    <3>3. j \in D
      <4>1. j \in DOMAIN heap /\ Item(s, j)
        BY <2>3, QueuedItem
      <4> HIDE DEF Field, Item, Memory
      <4> QED
        BY <1>3, <4>1
    <3> QED
      BY <1>6, <2>3, <3>1, <3>2, <3>3
  <2> QED
    BY <2>2, <2>4, <2>5, <2>6
<1>7. ASSUME NEW b \in DOMAIN heap, b \notin D
      PROVE  /\ heap[b] \in ObjectType /\ Part(heap[b], heap[b]) /\ Distinct(heap[b])
             /\ \A p : p \in PointersOf(heap[b]) <=> p \in PointersOf(heap[b]) /\ p \notin D
  <2>1. Part(heap[b], heap[b])
    BY DEF Part
  <2> QED
    BY <1>6, <1>7, <2>1, ObjectsOwned
<1>8. Forgotten(heap, D)
  BY <1>5, <1>7 DEF Forgotten
<1>9. ASSUME NEW r \in roots, r \in D
      PROVE  r = root
  <2>1. r \in DOMAIN heap /\ heap[r].kind \in Kinds
    BY ObjectsOwned
  <2>2. PICK s \in T : r = s \/ Field(s, r) \/ Item(s, r) \/ Memory(s, r)
    BY <1>3, <1>9, <2>1
  <2>3. s \in DOMAIN heap
    BY <1>2
  <2>4. ~ Field(s, r)
    BY <1>4, <2>1
  <2>5. ~ Item(s, r) /\ ~ Memory(s, r)
    BY <2>1, <2>3, ItemsAreNoStreams
  <2>6. r = s
    BY <2>2, <2>4, <2>5
  <2>7. CASE r # root
    <3>1. PICK c \in T : heap[c].decorated = r
      BY <1>2, <2>6, <2>7
    <3>2. r # NULL /\ c \in DOMAIN heap
      BY <1>2, <2>1, ObjectsOwned, NullIsNoBlock DEF Blocks
    <3>3. r \in PointersOf(heap[c])
      BY <3>1, <3>2, FieldsPoint
    <3> QED
      BY <3>2, <3>3, OnePointer
  <2> QED
    BY <2>7
<1>10. root \in D
  <2>1. root \in DOMAIN heap
    BY <1>2
  <2> QED
    BY <1>2, <1>3, <2>1
<1>11. \A r : r \in roots' <=> r \in roots /\ r \notin D
  BY <1>1, <1>9, <1>10
<1> HIDE DEF Field, Item, Memory
<1>12. Owned(heap', roots')
  BY <1>1, <1>8, <1>11, ForgottenIsFreed
<1> QED
  BY <1>12 DEF LifeInv

(* Every step keeps the invariant.                                          *)
LEMMA LifeStep ==
    ASSUME LifeInv, [LifeNext]_lifeVars
    PROVE  LifeInv'
<1>1. CASE NewStream
  BY <1>1, NewStreamKeeps
<1>2. ASSUME NEW root \in roots, DeleteStream(root)
      PROVE  LifeInv'
  BY <1>2, DeleteKeeps
<1>3. ASSUME NEW root \in roots, NEW kind \in Kinds \ {"base"}, Decorate(root, kind)
      PROVE  LifeInv'
  BY <1>3, DecorateKeeps
<1>4. ASSUME NEW s \in Streams, NEW q \in Queues, NEW first \in BOOLEAN, Enqueue(s, q, first)
      PROVE  LifeInv'
  BY <1>4, EnqueueKeeps
<1>5. ASSUME NEW s \in Streams, NEW q \in Queues, Dequeue(s, q)
      PROVE  LifeInv'
  BY <1>5, DequeueKeeps
<1>6. ASSUME NEW s \in Streams, Release(s) \/ Released(s)
      PROVE  LifeInv'
  BY <1>6, ReleaseKeeps
<1>7. ASSUME NEW s \in Streams, ResetOutgoingData(s)
      PROVE  LifeInv'
  BY <1>7, ResetKeeps
<1>8. ASSUME NEW s \in Streams, MakeKey(s) \/ DropKey(s)
      PROVE  LifeInv'
  BY <1>8, KeyKeeps
<1>9. ASSUME NEW s \in Streams,
             NEW f \in {"observer"} \cup (IF heap[s].kind = "mqtt" THEN {"listener"} ELSE {}),
             SetObserver(s, f) \/ RemoveObserver(s, f)
      PROVE  LifeInv'
  BY <1>9, ObserverKeeps
<1>10. CASE UNCHANGED lifeVars
  BY <1>10 DEF lifeVars, LifeInv
<1> QED
  BY <1>1, <1>2, <1>3, <1>4, <1>5, <1>6, <1>7, <1>8, <1>9, <1>10 DEF LifeNext

(* What the invariant says of the pointers is the property.                 *)
LEMMA OwnedMemory ==
    ASSUME LifeInv
    PROVE  MemoryOwned
<1> DEFINE P == Links(heap)
<1>1. Tree(P, roots) /\ DOMAIN P = InUse /\ \A b \in InUse : P[b] = PointersOf(heap[b])
  BY LinksOf DEF LifeInv, Owned, InUse
<1> HIDE DEF P
<1>2. NothingDangles
  BY <1>1 DEF Tree, NothingDangles
<1>3. NothingLost
  BY <1>1 DEF Tree, NothingLost
<1> QED
  BY <1>2, <1>3 DEF MemoryOwned

\* stream.c, stream_ssl.c, stream_ws.c, stream_mqtt.c and observer.c: whatever they
\* allocate for a stack of streams has one owner, that points to it, until it is freed.
\* No pointer leads to what was freed, nothing is freed twice, and what the application
\* has not deleted can still be reached from the streams that it has.
THEOREM StreamsOwnTheirMemory == LifeSpec => []MemoryOwned
<1>1. LifeInit => LifeInv
  BY LifeStarts
<1>2. LifeInv /\ [LifeNext]_lifeVars => LifeInv'
  BY LifeStep
<1>3. LifeInv => MemoryOwned
  BY OwnedMemory
<1> QED
  BY <1>1, <1>2, <1>3, PTL DEF LifeSpec

=============================================================================
