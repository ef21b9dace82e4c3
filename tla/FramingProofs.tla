---------------------------- MODULE FramingProofs ----------------------------
(***************************************************************************)
(* Theorems of MqttCodec: what the library writes it reads back, for every *)
(* length, field and packet, and whatever follows in the buffer; and of    *)
(* MqttFraming and WsFraming: packets and frames arrive as they were sent  *)
(* however their bytes are cut into reads.                                 *)
(*                                                                         *)
(* The two framings are checked with a few messages; these theorems are    *)
(* about all of them.  A field is found at an offset of a buffer: what     *)
(* lies in front of it is the sequence pre, what follows is rest.  Their   *)
(* invariants say where in the bytes on their way each message still lies. *)
(***************************************************************************)
EXTENDS MqttFraming, WsFraming, SequenceTheorems, TLAPS

(* A byte is a number below 256.                                            *)
LEMMA ByteIsNat == \A x \in Byte : x \in Nat /\ x < 256
  BY DEF Byte

-----------------------------------------------------------------------------
(* The remaining length.                                                   *)

(* The number of digits grows where the next weight is reached.             *)
LEMMA SizeOfLength ==
    ASSUME NEW v \in Lengths
    PROVE  /\ LengthSize(v) \in 1..4
           /\ LengthSize(v) = 1 <=> v < 128
           /\ LengthSize(v) = 2 <=> v >= 128 /\ v < 16384
           /\ LengthSize(v) = 3 <=> v >= 16384 /\ v < 2097152
           /\ LengthSize(v) = 4 <=> v >= 2097152
<1>1. /\ v \in Nat /\ v < 268435456
      /\ Weight[2] = 128 /\ Weight[3] = 16384 /\ Weight[4] = 2097152 /\ Weight[5] = 268435456
  BY DEF Lengths, Weight
<1>2. CASE v < 128
  BY <1>1, <1>2 DEF LengthSize
<1>3. CASE v >= 128 /\ v < 16384
  BY <1>1, <1>3 DEF LengthSize
<1>4. CASE v >= 16384 /\ v < 2097152
  BY <1>1, <1>4 DEF LengthSize
<1>5. CASE v >= 2097152
  BY <1>1, <1>5 DEF LengthSize
<1> QED
  BY <1>1, <1>2, <1>3, <1>4, <1>5

(* The digits are bytes; all but the last one are marked.                   *)
LEMMA DigitsWritten ==
    ASSUME NEW v \in Lengths
    PROVE  /\ EncodeLength(v) \in Seq(Byte)
           /\ Len(EncodeLength(v)) = LengthSize(v)
           /\ \A i \in 1 .. LengthSize(v) :
                /\ EncodeLength(v)[i] % 128 = (v \div Weight[i]) % 128
                /\ EncodeLength(v)[i] < 128 <=> i = LengthSize(v)
<1> DEFINE n == LengthSize(v)
           digit(i) == ((v \div Weight[i]) % 128) + (IF i < n THEN 128 ELSE 0)
<1>1. n \in 1..4 /\ v \in Nat
  BY SizeOfLength DEF Lengths
<1>2. \A i \in 1..4 : Weight[i] \in Nat \ {0}
  BY DEF Weight
<1> HIDE DEF n
<1>3. \A i \in 1..n : /\ digit(i) \in Byte
                      /\ digit(i) % 128 = (v \div Weight[i]) % 128
                      /\ digit(i) < 128 <=> i = n
  <2> TAKE i \in 1..n
  <2>1. i \in 1..4 /\ (i < n <=> i # n)
    BY <1>1
  <2> DEFINE d == (v \div Weight[i]) % 128
  <2>2. d \in 0..127
    <3>1. v \div Weight[i] \in Nat
      BY <1>1, <1>2, <2>1
    <3> QED
      BY <3>1
  <2>3. digit(i) = d + (IF i < n THEN 128 ELSE 0)
    OBVIOUS
  <2> HIDE DEF d, digit
  <2>4. digit(i) \in Byte /\ digit(i) % 128 = d /\ (digit(i) < 128 <=> i = n)
    BY <2>1, <2>2, <2>3 DEF Byte
  <2> QED
    BY <2>4 DEF d
<1>4. EncodeLength(v) = [i \in 1..n |-> digit(i)]
  BY DEF EncodeLength, n
<1> HIDE DEF digit
<1>5. EncodeLength(v) \in [1..n -> Byte]
  BY <1>3, <1>4
<1>6. EncodeLength(v) \in Seq(Byte) /\ DOMAIN EncodeLength(v) = 1..n
  BY <1>1, <1>5, SeqDef
<1>7. Len(EncodeLength(v)) = n
  BY <1>1, <1>6, LenProperties
<1>8. \A i \in 1..n : EncodeLength(v)[i] = digit(i)
  BY <1>4
<1> QED
  BY <1>3, <1>6, <1>7, <1>8 DEF n

(* The digits add up to the length.                                         *)
LEMMA DigitsAddUp ==
    ASSUME NEW v \in Lengths
    PROVE  LET n == LengthSize(v)
               d(i) == IF i <= n THEN ((v \div Weight[i]) % 128) * Weight[i] ELSE 0
           IN  d(1) + d(2) + d(3) + d(4) = v
<1>1. /\ v \in Nat /\ v < 268435456
      /\ Weight[1] = 1 /\ Weight[2] = 128 /\ Weight[3] = 16384 /\ Weight[4] = 2097152
  BY DEF Lengths, Weight
<1>2. CASE LengthSize(v) = 1
  BY <1>1, <1>2, SizeOfLength
<1>3. CASE LengthSize(v) = 2
  BY <1>1, <1>3, SizeOfLength
<1>4. CASE LengthSize(v) = 3
  BY <1>1, <1>4, SizeOfLength
<1>5. CASE LengthSize(v) = 4
  BY <1>1, <1>5, SizeOfLength
<1> QED
  BY <1>2, <1>3, <1>4, <1>5, SizeOfLength

(* What a reader sees of a number in front of other bytes.                  *)
LEMMA DigitsRead ==
    ASSUME NEW v \in Lengths, NEW rest \in Seq(Byte)
    PROVE  LET b == EncodeLength(v) \o rest
           IN  /\ b \in Seq(Byte) /\ Len(b) = LengthSize(v) + Len(rest)
               /\ \A i \in 1 .. LengthSize(v) :
                    /\ b[i] % 128 = (v \div Weight[i]) % 128
                    /\ b[i] < 128 <=> i = LengthSize(v)
<1>1. LengthSize(v) \in 1..4 /\ Len(rest) \in Nat
  BY SizeOfLength, LenProperties
<1>2. /\ EncodeLength(v) \in Seq(Byte) /\ Len(EncodeLength(v)) = LengthSize(v)
      /\ \A i \in 1 .. LengthSize(v) :
            /\ EncodeLength(v)[i] % 128 = (v \div Weight[i]) % 128
            /\ EncodeLength(v)[i] < 128 <=> i = LengthSize(v)
  BY DigitsWritten
<1>3. /\ EncodeLength(v) \o rest \in Seq(Byte)
      /\ Len(EncodeLength(v) \o rest) = LengthSize(v) + Len(rest)
      /\ \A i \in 1 .. LengthSize(v) : (EncodeLength(v) \o rest)[i] = EncodeLength(v)[i]
  BY <1>1, <1>2, ConcatProperties
<1> QED
  BY <1>2, <1>3

(* A number is decoded as it was encoded, and its digits are counted,       *)
(* whatever follows it (mqtt_encode_length, mqtt_decode_length).            *)
THEOREM LengthComesBack ==
    ASSUME NEW v \in Lengths, NEW rest \in Seq(Byte)
    PROVE  DecodeLength(EncodeLength(v) \o rest) = [ret |-> LengthSize(v), value |-> v]
<1> DEFINE n == LengthSize(v)
           b == EncodeLength(v) \o rest
<1>1. n \in 1..4 /\ Len(rest) \in Nat
  BY SizeOfLength, LenProperties
<1>2. /\ Len(b) = n + Len(rest)
      /\ \A i \in 1..n : b[i] % 128 = (v \div Weight[i]) % 128 /\ (b[i] < 128 <=> i = n)
      /\ \A i \in 1..n : b[i] \in Nat
  <2>1. /\ b \in Seq(Byte) /\ Len(b) = n + Len(rest)
        /\ \A i \in 1..n : b[i] % 128 = (v \div Weight[i]) % 128 /\ (b[i] < 128 <=> i = n)
    BY DigitsRead
  <2> HIDE DEF n, b
  <2>2. \A i \in 1..n : i \in 1 .. Len(b)
    BY <1>1, <2>1
  <2>3. \A i \in 1..n : b[i] \in Byte
    BY <2>1, <2>2, ElementOfSeq
  <2>4. \A i \in 1..n : b[i] \in Nat
    BY <2>3, ByteIsNat, Zenon
  <2> QED
    BY <2>1, <2>4
<1> HIDE DEF n, b
<1>3. LastDigits(b) = {n}
  <2>1. n \in LastDigits(b)
    BY <1>1, <1>2 DEF LastDigits, MaxLengthSize
  <2>2. ASSUME NEW i \in LastDigits(b)
        PROVE  i = n
    <3>1. i \in 1..4 /\ b[i] < 128 /\ \A j \in 1 .. i - 1 : b[j] >= 128
      BY DEF LastDigits, MaxLengthSize
    <3>2. ~(i < n)
      BY <1>1, <1>2, <3>1
    <3>3. ~(n < i)
      <4>1. SUFFICES ASSUME n < i PROVE FALSE
        OBVIOUS
      <4>2. n \in 1 .. i - 1 /\ n \in 1..n
        BY <1>1, <3>1, <4>1
      <4>3. b[n] >= 128 /\ b[n] < 128 /\ b[n] \in Nat
        BY <1>2, <3>1, <4>2
      <4> QED
        BY <4>3
    <3> QED
      BY <1>1, <3>1, <3>2, <3>3
  <2> QED
    BY <2>1, <2>2
<1>4. \A i \in 1..4 : Digit(b, n, i) =
                        IF i <= n THEN ((v \div Weight[i]) % 128) * Weight[i] ELSE 0
  <2> TAKE i \in 1..4
  <2>1. i <= n => i \in 1..n
    BY <1>1
  <2> QED
    BY <1>2, <2>1 DEF Digit
<1>5. Digit(b, n, 1) + Digit(b, n, 2) + Digit(b, n, 3) + Digit(b, n, 4) = v
  <2>1. 1 \in 1..4 /\ 2 \in 1..4 /\ 3 \in 1..4 /\ 4 \in 1..4
    OBVIOUS
  <2> QED
    BY <1>4, <2>1, DigitsAddUp DEF n
<1>6. (CHOOSE i \in {n} : TRUE) = n
  OBVIOUS
<1>7. DecodeLength(b) = [ret |-> n, value |-> Digit(b, n, 1) + Digit(b, n, 2)
                                              + Digit(b, n, 3) + Digit(b, n, 4)]
  BY <1>3, <1>6 DEF DecodeLength
<1> QED
  BY <1>5, <1>7 DEF n, b

(* As long as a digit is missing, the decoder asks for more.                *)
LEMMA LengthIncomplete ==
    ASSUME NEW v \in Lengths, NEW k \in Nat, k < LengthSize(v)
    PROVE  DecodeLength(Front(EncodeLength(v), k)) = [ret |-> 0, value |-> 0]
<1> DEFINE n == LengthSize(v)
           e == EncodeLength(v)
           b == Front(e, k)
<1>1. n \in 1..4
  BY SizeOfLength
<1>2. e \in Seq(Byte) /\ Len(e) = n /\ \A i \in 1..n : e[i] \in Nat /\ (e[i] < 128 <=> i = n)
  <2>1. /\ e \in Seq(Byte) /\ Len(e) = n
        /\ \A i \in 1..n : e[i] < 128 <=> i = n
    BY DigitsWritten
  <2> HIDE DEF n, e
  <2>2. \A i \in 1..n : e[i] \in Byte
    BY <2>1, ElementOfSeq
  <2>3. \A i \in 1..n : e[i] \in Nat
    BY <2>2, ByteIsNat, Zenon
  <2> QED
    BY <2>1, <2>3
<1> HIDE DEF n, e
<1>3. k < n /\ k <= 3
  BY <1>1 DEF n
<1>4. Len(b) = k /\ \A i \in 1..k : b[i] = e[i]
  <2>1. \A i \in 1..k : e[i] \in Nat
    BY <1>1, <1>2, <1>3
  <2>2. /\ Len(SubSeq(e, 1, k)) = IF 1 <= k THEN k - 1 + 1 ELSE 0
        /\ \A i \in 1 .. k - 1 + 1 : SubSeq(e, 1, k)[i] = e[1 + i - 1]
    BY <2>1, SubSeqProperties
  <2>3. \A i \in 1..k : i \in 1 .. k - 1 + 1 /\ 1 + i - 1 = i
    OBVIOUS
  <2>4. \A i \in 1..k : SubSeq(e, 1, k)[i] = e[i]
    BY <2>2, <2>3
  <2>5. Len(SubSeq(e, 1, k)) = k
    BY <2>2
  <2> QED
    BY <2>4, <2>5 DEF Front
<1> HIDE DEF b
<1>5. LastDigits(b) = {}
  <2>1. SUFFICES ASSUME NEW i \in LastDigits(b) PROVE FALSE
    OBVIOUS
  <2>2. i \in 1..k /\ b[i] < 128
    BY <1>4 DEF LastDigits, MaxLengthSize
  <2>3. i \in 1..n /\ i # n
    BY <1>1, <1>3, <2>2
  <2> QED
    BY <1>2, <1>4, <2>2, <2>3
<1> QED
  BY <1>3, <1>4, <1>5 DEF DecodeLength, MaxLengthSize, b, e

-----------------------------------------------------------------------------
(* Sequences: what lies behind a prefix, and between a prefix and the rest.*)

(* What is put together of texts is a text.                                 *)
LEMMA Joined ==
    ASSUME NEW s \in Seq(Byte), NEW t \in Seq(Byte)
    PROVE  /\ s \o t \in Seq(Byte) /\ Len(s \o t) = Len(s) + Len(t)
           /\ Len(s) \in Nat /\ Len(t) \in Nat
  BY ConcatProperties, LenProperties

(* The brackets do not matter.                                              *)
LEMMA Rejoined ==
    ASSUME NEW s \in Seq(Byte), NEW t \in Seq(Byte), NEW u \in Seq(Byte)
    PROVE  (s \o t) \o u = s \o (t \o u)
  BY ConcatAssociative

(* What stands behind a prefix is found behind it.                          *)
LEMMA BehindPrefix ==
    ASSUME NEW pre \in Seq(Byte), NEW t \in Seq(Byte)
    PROVE  /\ SubSeq(pre \o t, Len(pre) + 1, Len(pre \o t)) = t
           /\ \A i \in 1 .. Len(t) : (pre \o t)[Len(pre) + i] = t[i]
<1> DEFINE b == pre \o t
           s == SubSeq(b, Len(pre) + 1, Len(b))
<1>1. Len(pre) \in Nat /\ Len(t) \in Nat
  BY LenProperties
<1>2. /\ b \in Seq(Byte) /\ Len(b) = Len(pre) + Len(t)
      /\ \A i \in 1 .. Len(t) : b[Len(pre) + i] = t[i]
  <2>1. /\ b \in Seq(Byte) /\ Len(b) = Len(pre) + Len(t)
        /\ \A i \in 1 .. Len(pre) + Len(t) :
              b[i] = IF i <= Len(pre) THEN pre[i] ELSE t[i - Len(pre)]
    BY ConcatProperties
  <2>2. ASSUME NEW i \in 1 .. Len(t)
        PROVE  b[Len(pre) + i] = t[i]
    <3>1. /\ Len(pre) + i \in 1 .. Len(pre) + Len(t) /\ ~(Len(pre) + i <= Len(pre))
          /\ (Len(pre) + i) - Len(pre) = i
      BY <1>1
    <3> HIDE DEF b
    <3> QED
      BY <2>1, <3>1
  <2> QED
    BY <2>1, <2>2
<1> HIDE DEF b
<1>3. \A i \in Len(pre) + 1 .. Len(b) : b[i] \in Byte
  <2>1. \A i \in Len(pre) + 1 .. Len(b) : i \in 1 .. Len(b)
    BY <1>1, <1>2
  <2> QED
    BY <1>2, <2>1, ElementOfSeq
<1>4. /\ s \in Seq(Byte)
      /\ Len(s) = IF Len(pre) + 1 <= Len(b) THEN Len(b) - (Len(pre) + 1) + 1 ELSE 0
      /\ \A i \in 1 .. Len(b) - (Len(pre) + 1) + 1 : s[i] = b[(Len(pre) + 1) + i - 1]
  <2>1. Len(pre) + 1 \in Int /\ Len(b) \in Int
    BY <1>1, <1>2
  <2> QED
    BY <1>3, <2>1, SubSeqProperties
<1> HIDE DEF s
<1>5. Len(s) = Len(t)
  BY <1>1, <1>2, <1>4
<1>6. \A i \in 1 .. Len(s) : s[i] = t[i]
  <2> TAKE i \in 1 .. Len(s)
  <2>1. /\ i \in 1 .. Len(b) - (Len(pre) + 1) + 1
        /\ (Len(pre) + 1) + i - 1 = Len(pre) + i /\ i \in 1 .. Len(t)
    BY <1>1, <1>2, <1>5
  <2> QED
    BY <1>2, <1>4, <2>1
<1>7. s = t
  BY <1>4, <1>5, <1>6, SeqEqual
<1> QED
  BY <1>2, <1>7 DEF s, b

(* What stands between two texts is found there.                            *)
LEMMA Between ==
    ASSUME NEW pre \in Seq(Byte), NEW mid \in Seq(Byte), NEW rest \in Seq(Byte)
    PROVE  LET b == (pre \o mid) \o rest
           IN  /\ b \in Seq(Byte) /\ Len(b) = Len(pre) + Len(mid) + Len(rest)
               /\ \A i \in 1 .. Len(mid) : b[Len(pre) + i] = mid[i]
               /\ SubSeq(b, Len(pre) + 1, Len(pre) + Len(mid)) = mid
<1> DEFINE p == pre \o mid
           b == p \o rest
           s == SubSeq(b, Len(pre) + 1, Len(pre) + Len(mid))
<1>1. Len(pre) \in Nat /\ Len(mid) \in Nat /\ Len(rest) \in Nat
  BY LenProperties
<1>2. /\ p \in Seq(Byte) /\ Len(p) = Len(pre) + Len(mid)
      /\ \A i \in 1 .. Len(pre) + Len(mid) :
            p[i] = IF i <= Len(pre) THEN pre[i] ELSE mid[i - Len(pre)]
  BY ConcatProperties
<1> HIDE DEF p
<1>3. /\ b \in Seq(Byte) /\ Len(b) = Len(p) + Len(rest)
      /\ \A i \in 1 .. Len(p) + Len(rest) :
            b[i] = IF i <= Len(p) THEN p[i] ELSE rest[i - Len(p)]
  <2>1. p \in Seq(Byte)
    BY <1>2
  <2> QED
    BY <2>1, ConcatProperties
<1> HIDE DEF b
<1>4. \A i \in 1 .. Len(mid) : b[Len(pre) + i] = mid[i]
  <2> TAKE i \in 1 .. Len(mid)
  <2>1. /\ Len(pre) + i \in 1 .. Len(p) + Len(rest) /\ Len(pre) + i <= Len(p)
        /\ Len(pre) + i \in 1 .. Len(pre) + Len(mid) /\ ~(Len(pre) + i <= Len(pre))
        /\ (Len(pre) + i) - Len(pre) = i
    BY <1>1, <1>2
  <2> QED
    BY <1>2, <1>3, <2>1
<1>5. \A i \in Len(pre) + 1 .. Len(pre) + Len(mid) : b[i] \in Byte
  <2>1. \A i \in Len(pre) + 1 .. Len(pre) + Len(mid) : i \in 1 .. Len(b)
    BY <1>1, <1>2, <1>3
  <2> QED
    BY <1>3, <2>1, ElementOfSeq
<1>6. /\ s \in Seq(Byte)
      /\ Len(s) = IF Len(pre) + 1 <= Len(pre) + Len(mid)
                  THEN (Len(pre) + Len(mid)) - (Len(pre) + 1) + 1 ELSE 0
      /\ \A i \in 1 .. (Len(pre) + Len(mid)) - (Len(pre) + 1) + 1 :
            s[i] = b[(Len(pre) + 1) + i - 1]
  <2>1. Len(pre) + 1 \in Int /\ Len(pre) + Len(mid) \in Int
    BY <1>1
  <2> QED
    BY <1>5, <2>1, SubSeqProperties
<1> HIDE DEF s
<1>7. Len(s) = Len(mid)
  BY <1>1, <1>6
<1>8. \A i \in 1 .. Len(s) : s[i] = mid[i]
  <2> TAKE i \in 1 .. Len(s)
  <2>1. /\ i \in 1 .. (Len(pre) + Len(mid)) - (Len(pre) + 1) + 1
        /\ (Len(pre) + 1) + i - 1 = Len(pre) + i /\ i \in 1 .. Len(mid)
    BY <1>1, <1>7
  <2> QED
    BY <1>4, <1>6, <2>1
<1>9. s = mid
  BY <1>6, <1>7, <1>8, SeqEqual
<1>10. Len(b) = Len(pre) + Len(mid) + Len(rest)
  BY <1>2, <1>3
<1> QED
  BY <1>3, <1>4, <1>9, <1>10 DEF s, b, p

-----------------------------------------------------------------------------
(* Fields.                                                                 *)

(* The two bytes of a short number.                                         *)
LEMMA ShortWritten ==
    ASSUME NEW v \in Shorts
    PROVE  /\ PutShort(v) \in Seq(Byte) /\ Len(PutShort(v)) = 2
           /\ 256 * PutShort(v)[1] + PutShort(v)[2] = v
<1>1. v \in Nat /\ v < 65536
  BY DEF Shorts, ShortSize
<1> DEFINE high == (v \div 256) % 256
           low == v % 256
<1>2. high \in 0..255 /\ low \in 0..255 /\ 256 * high + low = v
  BY <1>1
<1>3. PutShort(v) = <<high, low>>
  BY DEF PutShort
<1> HIDE DEF high, low
<1>4. <<high, low>> \in Seq(Byte)
  BY <1>2 DEF Byte
<1> QED
  BY <1>2, <1>3, <1>4

(* mqtt_put_short and mqtt_get_short, at any offset.                        *)
LEMMA ShortAt ==
    ASSUME NEW v \in Shorts, NEW pre \in Seq(Byte), NEW rest \in Seq(Byte)
    PROVE  GetShort((pre \o PutShort(v)) \o rest, Len(pre)) = v
<1> DEFINE b == (pre \o PutShort(v)) \o rest
<1>1. /\ PutShort(v) \in Seq(Byte) /\ Len(PutShort(v)) = 2
      /\ 256 * PutShort(v)[1] + PutShort(v)[2] = v
  BY ShortWritten
<1>2. \A i \in 1..2 : b[Len(pre) + i] = PutShort(v)[i]
  <2> DEFINE n == PutShort(v)
  <2>1. n \in Seq(Byte) /\ Len(n) = 2
    BY <1>1
  <2> HIDE DEF n
  <2>2. \A i \in 1 .. Len(n) : ((pre \o n) \o rest)[Len(pre) + i] = n[i]
    BY <2>1, Between
  <2> QED
    BY <2>1, <2>2 DEF n
<1> HIDE DEF b
<1>3. b[Len(pre) + 1] = PutShort(v)[1] /\ b[Len(pre) + 2] = PutShort(v)[2]
  BY <1>2
<1>4. GetShort(b, Len(pre)) = v
  BY <1>1, <1>3 DEF GetShort
<1> QED
  BY <1>4 DEF b

(* A text is written whole, behind its length.                              *)
LEMMA StringWritten ==
    ASSUME NEW s \in ShortTexts
    PROVE  /\ PutData(s, Len(s)) = s /\ Len(s) \in Shorts
           /\ PutString(s) = PutShort(Len(s)) \o s
           /\ PutString(s) \in Seq(Byte) /\ Len(PutString(s)) = 2 + Len(s)
<1>1. s \in Seq(Byte) /\ Len(s) \in Nat /\ Len(s) < 65536
  BY LenProperties DEF ShortTexts, ShortSize
<1>2. Len(s) \in Shorts /\ Len(s) % ShortSize = Len(s)
  <2>1. \A n \in Nat : n < 65536 => n % 65536 = n
    OBVIOUS
  <2> QED
    BY <1>1, <2>1 DEF Shorts, ShortSize
<1>3. PutData(s, Len(s)) = s
  BY <1>1, <1>2, SubSeqFull DEF PutData, Front
<1>4. PutString(s) = PutShort(Len(s)) \o s
  BY <1>3 DEF PutString
<1>5. PutShort(Len(s)) \in Seq(Byte) /\ Len(PutShort(Len(s))) = 2
  BY <1>2, ShortWritten
<1> DEFINE n == PutShort(Len(s))
<1> HIDE DEF n
<1>6. n \o s \in Seq(Byte) /\ Len(n \o s) = 2 + Len(s)
  <2>1. n \in Seq(Byte) /\ Len(n) = 2
    BY <1>5 DEF n
  <2>2. s \in Seq(Byte)
    BY <1>1
  <2>3. n \o s \in Seq(Byte) /\ Len(n \o s) = Len(n) + Len(s)
    BY <2>1, <2>2, Joined
  <2> QED
    BY <2>1, <2>3
<1> QED
  BY <1>2, <1>3, <1>4, <1>6 DEF n

(* mqtt_put_string and what the parsers read, at any offset.                *)
LEMMA StringAt ==
    ASSUME NEW s \in ShortTexts, NEW pre \in Seq(Byte), NEW rest \in Seq(Byte)
    PROVE  LET b == (pre \o PutString(s)) \o rest
           IN  /\ GetString(b, Len(pre)) = s
               /\ AfterString(b, Len(pre)) = Len(pre) + Len(PutString(s))
<1> DEFINE n == PutShort(Len(s))
           b == (pre \o PutString(s)) \o rest
<1>1. /\ Len(s) \in Shorts /\ PutString(s) = n \o s
      /\ PutString(s) \in Seq(Byte) /\ Len(PutString(s)) = 2 + Len(s)
  BY StringWritten
<1>2. n \in Seq(Byte) /\ Len(n) = 2
  BY <1>1, ShortWritten
<1>3. s \in Seq(Byte) /\ Len(s) \in Nat /\ Len(pre) \in Nat
  BY LenProperties DEF ShortTexts
<1> HIDE DEF n
<1>4. b = ((pre \o n) \o s) \o rest
  <2>1. (pre \o n) \o s = pre \o (n \o s)
    BY <1>2, <1>3, Rejoined
  <2> QED
    BY <1>1, <2>1
<1>5. b = (pre \o n) \o (s \o rest)
  <2>1. pre \o n \in Seq(Byte)
    BY <1>2, Joined
  <2> QED
    BY <1>3, <1>4, <2>1, Rejoined
<1>6. GetShort(b, Len(pre)) = Len(s)
  <2>1. s \o rest \in Seq(Byte)
    BY <1>3, Joined
  <2>2. GetShort((pre \o n) \o (s \o rest), Len(pre)) = Len(s)
    BY <1>1, <2>1, ShortAt DEF n
  <2> QED
    BY <1>5, <2>2
<1>7. SubSeq(b, (Len(pre) + 2) + 1, (Len(pre) + 2) + Len(s)) = s
  <2> DEFINE p == pre \o n
  <2>1. p \in Seq(Byte) /\ Len(p) = Len(pre) + 2
    <3>1. n \in Seq(Byte)
      BY <1>2
    <3>2. p \in Seq(Byte) /\ Len(p) = Len(pre) + Len(n)
      BY <3>1, Joined
    <3> HIDE DEF p
    <3> QED
      BY <1>2, <3>2
  <2> HIDE DEF p
  <2>2. SubSeq((p \o s) \o rest, Len(p) + 1, Len(p) + Len(s)) = s
    BY <1>3, <2>1, Between
  <2> QED
    BY <1>4, <2>1, <2>2 DEF p
<1> HIDE DEF b
<1>8. GetString(b, Len(pre)) = s
  BY <1>6, <1>7 DEF GetString, GetData
<1>9. AfterString(b, Len(pre)) = Len(pre) + Len(PutString(s))
  BY <1>1, <1>3, <1>6 DEF AfterString
<1> QED
  BY <1>8, <1>9 DEF b

-----------------------------------------------------------------------------
(* Packets.                                                                *)

(* The two bytes of a short, and a text behind its length, in front.        *)
LEMMA ShortFirst ==
    ASSUME NEW v \in Shorts, NEW rest \in Seq(Byte)
    PROVE  GetShort(PutShort(v) \o rest, 0) = v
<1> DEFINE n == PutShort(v)
<1>1. n \in Seq(Byte)
  BY ShortWritten
<1>2. <<>> \in Seq(Byte) /\ Len(<<>>) = 0
  BY EmptySeq
<1>3. GetShort((<<>> \o n) \o rest, Len(<<>>)) = v
  BY <1>2, ShortAt
<1> HIDE DEF n
<1>4. <<>> \o n = n
  BY <1>1, ConcatEmptySeq
<1> QED
  BY <1>2, <1>3, <1>4 DEF n

(* A text with its size, at the head of the bytes.                          *)
LEMMA StringFirst ==
    ASSUME NEW s \in ShortTexts, NEW rest \in Seq(Byte)
    PROVE  LET b == PutString(s) \o rest
           IN  GetString(b, 0) = s /\ AfterString(b, 0) = Len(PutString(s))
<1> DEFINE n == PutString(s)
<1>1. n \in Seq(Byte) /\ Len(n) \in Nat
  BY StringWritten, LenProperties
<1>2. <<>> \in Seq(Byte) /\ Len(<<>>) = 0
  BY EmptySeq
<1>3. /\ GetString((<<>> \o n) \o rest, Len(<<>>)) = s
      /\ AfterString((<<>> \o n) \o rest, Len(<<>>)) = Len(<<>>) + Len(n)
  BY <1>2, StringAt
<1> HIDE DEF n
<1>4. <<>> \o n = n
  BY <1>1, ConcatEmptySeq
<1>5. Len(<<>>) + Len(n) = Len(n)
  BY <1>1, <1>2
<1> QED
  BY <1>2, <1>3, <1>4, <1>5 DEF n

(* An acknowledgement carries the id it was given (mqtt_format_var_header_id*)
(* and mqtt_parse_var_header_id).                                           *)
THEOREM IdComesBack ==
    ASSUME NEW m, m.id \in Shorts
    PROVE  ParseId(FormatId(m)) = [ret |-> 2, id |-> m.id]
<1> DEFINE n == PutShort(m.id)
<1>1. /\ n \in Seq(Byte) /\ Len(n) = 2
      /\ 256 * n[1] + n[2] = m.id
  BY ShortWritten
<1>2. FormatId(m) = n
  BY DEF FormatId
<1> HIDE DEF n
<1>3. GetShort(n, 0) = m.id
  BY <1>1 DEF GetShort
<1>4. ParseResult(n, 2) = 2
  BY <1>1 DEF ParseResult
<1> QED
  BY <1>2, <1>3, <1>4 DEF ParseId

(* A subscription is read as it was written, and its size is the one that   *)
(* the frame announces (mqtt_eval_subscribe, mqtt_format_subscribe,         *)
(* mqtt_parse_subscribe).                                                   *)
THEOREM SubscribeComesBack ==
    ASSUME NEW m, m.id \in Shorts, m.topic \in ShortTexts, m.qos \in Byte
    PROVE  /\ Len(FormatSubscribe(m)) = EvalSubscribe(m)
           /\ ParseSubscribe(FormatSubscribe(m)) =
                [ret |-> EvalSubscribe(m), id |-> m.id, topic |-> m.topic, qos |-> m.qos]
<1> DEFINE n == PutShort(m.id)
           s == PutString(m.topic)
           q == <<m.qos>>
           b == (n \o s) \o q
<1>1. n \in Seq(Byte) /\ Len(n) = 2
  BY ShortWritten
<1>2. s \in Seq(Byte) /\ Len(s) = 2 + Len(m.topic) /\ Len(m.topic) \in Nat
  BY StringWritten, LenProperties DEF ShortTexts
<1>3. q \in Seq(Byte) /\ Len(q) = 1 /\ q[1] = m.qos
  OBVIOUS
<1>4. FormatSubscribe(m) = b
  BY DEF FormatSubscribe
<1>5. GetString(b, 2) = m.topic /\ AfterString(b, 2) = 2 + Len(s)
  <2> HIDE DEF n, q
  <2>1. /\ GetString((n \o s) \o q, Len(n)) = m.topic
        /\ AfterString((n \o s) \o q, Len(n)) = Len(n) + Len(s)
    BY <1>1, <1>3, StringAt
  <2> QED
    BY <1>1, <2>1
<1> HIDE DEF s, q
<1>6. GetShort(b, 0) = m.id
  <2>1. s \o q \in Seq(Byte)
    BY <1>2, <1>3, Joined
  <2>2. GetShort(n \o (s \o q), 0) = m.id
    BY <2>1, ShortFirst
  <2> HIDE DEF n
  <2>3. (n \o s) \o q = n \o (s \o q)
    BY <1>1, <1>2, <1>3, Rejoined
  <2> QED
    BY <2>2, <2>3
<1> HIDE DEF n
<1>7. n \o s \in Seq(Byte) /\ Len(n \o s) = Len(n) + Len(s)
  BY <1>1, <1>2, Joined
<1>8. Len(b) = 2 + Len(s) + 1 /\ b[(2 + Len(s)) + 1] = m.qos
  <2> DEFINE p == n \o s
  <2>1. p \in Seq(Byte) /\ Len(p) = 2 + Len(s)
    BY <1>1, <1>7
  <2> HIDE DEF p
  <2>2. q \in Seq(Byte)
    BY <1>3
  <2>3. /\ Len(p \o q) = Len(p) + Len(q)
        /\ \A i \in 1 .. Len(q) : (p \o q)[Len(p) + i] = q[i]
    BY <2>1, <2>2, Joined, BehindPrefix
  <2>4. Len(p \o q) = 2 + Len(s) + 1
    BY <1>3, <2>1, <2>3
  <2>5. (p \o q)[(2 + Len(s)) + 1] = q[1]
    BY <1>3, <2>1, <2>3
  <2> QED
    BY <1>3, <2>4, <2>5 DEF p
<1> HIDE DEF b
<1>9. EvalSubscribe(m) = Len(b) /\ ParseResult(b, (2 + Len(s)) + 1) = Len(b)
  BY <1>2, <1>8 DEF EvalSubscribe, StringSize, ParseResult
<1> QED
  BY <1>4, <1>5, <1>6, <1>8, <1>9 DEF ParseSubscribe

(* A publication is read as it was written, and its size is the one that    *)
(* the frame announces; its payload must fit into 16 bits                   *)
(* (mqtt_eval_publish, mqtt_format_publish, mqtt_parse_publish).            *)
THEOREM PublishComesBack ==
    ASSUME NEW m, m.qos \in 0..3, m.id \in Shorts, m.topic \in ShortTexts, m.payload \in ShortTexts
    PROVE  /\ Len(FormatPublish(m)) = EvalPublish(m)
           /\ ParsePublish(FormatPublish(m), m.qos) =
                [id |-> IF m.qos > 0 THEN m.id ELSE NULL, topic |-> m.topic,
                 payload |-> m.payload]
<1> DEFINE s == PutString(m.topic)
           n == IF m.qos > 0 THEN PutShort(m.id) ELSE <<>>
           k == IF m.qos > 0 THEN 2 ELSE 0
           d == m.payload
           b == (s \o n) \o d
<1>1. s \in Seq(Byte) /\ Len(s) = 2 + Len(m.topic) /\ Len(m.topic) \in Nat
  BY StringWritten, LenProperties DEF ShortTexts
<1>2. n \in Seq(Byte) /\ Len(n) = k /\ k \in Nat
  BY ShortWritten, EmptySeq
<1>3. d \in Seq(Byte) /\ Len(d) \in Nat /\ Len(d) < 65536 /\ PutData(d, Len(d)) = d
  BY StringWritten, LenProperties DEF ShortTexts, ShortSize
<1>4. FormatPublish(m) = b
  BY <1>3 DEF FormatPublish
<1>5. GetString(b, 0) = m.topic /\ AfterString(b, 0) = Len(s)
  <2> HIDE DEF n, d
  <2>1. n \o d \in Seq(Byte)
    BY <1>2, <1>3, Joined
  <2>2. GetString(s \o (n \o d), 0) = m.topic /\ AfterString(s \o (n \o d), 0) = Len(s)
    BY <2>1, StringFirst
  <2> HIDE DEF s
  <2>3. s \in Seq(Byte) /\ n \in Seq(Byte)
    BY <1>1, <1>2
  <2>4. d \in Seq(Byte)
    BY <1>3
  <2>5. (s \o n) \o d = s \o (n \o d)
    BY <2>3, <2>4, Rejoined
  <2> QED
    BY <2>2, <2>5
<1> HIDE DEF s
<1>6. ASSUME m.qos > 0
      PROVE  GetShort(b, Len(s)) = m.id
  <2> HIDE DEF d
  <2>1. n = PutShort(m.id)
    BY <1>6
  <2>2. GetShort((s \o PutShort(m.id)) \o d, Len(s)) = m.id
    BY <1>1, <1>3, ShortAt
  <2> QED
    BY <2>1, <2>2
<1> HIDE DEF n, d
<1>7. /\ Len(b) = (Len(s) + k) + Len(d)
      /\ SubSeq(b, (Len(s) + k) + 1, Len(b)) = d
  <2> DEFINE p == s \o n
  <2>1. p \in Seq(Byte) /\ Len(p) = Len(s) + Len(n)
    BY <1>1, <1>2, Joined
  <2> HIDE DEF p
  <2>2. Len(p \o d) = Len(p) + Len(d) /\ SubSeq(p \o d, Len(p) + 1, Len(p \o d)) = d
    BY <1>3, <2>1, Joined, BehindPrefix
  <2>3. Len(p) = Len(s) + k
    BY <1>2, <2>1
  <2> QED
    BY <2>2, <2>3 DEF p
<1> HIDE DEF b
<1>8. Flag(m.qos > 0, 2) = k
  BY DEF Flag
<1> HIDE DEF k
<1>9. (Len(b) - (Len(s) + k)) % ShortSize = Len(d)
  <2>1. Len(b) - (Len(s) + k) = Len(d)
    BY <1>1, <1>2, <1>3, <1>7
  <2>2. \A l \in Nat : l < 65536 => l % 65536 = l
    OBVIOUS
  <2> QED
    BY <1>3, <2>1, <2>2 DEF ShortSize
<1>10. GetData(b, Len(s) + k, Len(d)) = d
  BY <1>7 DEF GetData
<1>11. EvalPublish(m) = Len(b)
  <2>1. EvalPublish(m) = Len(s) + k + Len(d)
    BY <1>1, <1>8 DEF EvalPublish, StringSize, d
  <2> QED
    BY <1>7, <2>1
<1>12. ParsePublish(b, m.qos) = [id |-> IF m.qos > 0 THEN m.id ELSE NULL, topic |-> m.topic,
                                 payload |-> d]
  BY <1>5, <1>6, <1>8, <1>9, <1>10 DEF ParsePublish
<1> QED
  BY <1>4, <1>11, <1>12 DEF d

-----------------------------------------------------------------------------
(* Frames.                                                                 *)

(* Type and flags share the first byte.                                     *)
LEMMA HeaderByte ==
    ASSUME NEW type \in DOMAIN PacketType, NEW flags \in 0..15
    PROVE  LET x == 16 * PacketType[type] + flags
           IN  x \in Byte /\ x \div 16 = PacketType[type] /\ x % 16 = flags
<1>1. PacketType[type] \in 1..14
  BY DEF PacketType
<1> DEFINE t == PacketType[type]
<1> HIDE DEF t
<1>2. t \in 1..14
  BY <1>1 DEF t
<1>3. /\ 16 * t + flags \in 0..255
      /\ (16 * t + flags) \div 16 = t /\ (16 * t + flags) % 16 = flags
  BY <1>2
<1> QED
  BY <1>3 DEF t, Byte

(* data begins with a frame of this type, these flags and this body, and    *)
(* the parser says so.                                                      *)
ParsedAs(data, type, flags, body) ==
    LET offset == 1 + LengthSize(Len(body))
    IN  /\ ParseFrame(data) =
            [ret |-> offset, type |-> PacketType[type], flags |-> flags,
             frame_length |-> offset + Len(body)]
        /\ SubSeq(data, offset + 1, offset + Len(body)) = body

(* The theorem below, in the form in which it is used.                      *)
LEMMA FrameParsed ==
    ASSUME NEW type \in DOMAIN PacketType, NEW flags \in 0..15,
           NEW body \in Seq(Byte), Len(body) \in Lengths, NEW rest \in Seq(Byte)
    PROVE  ParsedAs(FormatFrame(type, flags, body) \o rest, type, flags, body)
<1> DEFINE l == Len(body)
           x == 16 * PacketType[type] + flags
           h == <<x>>
           e == EncodeLength(l)
           z == LengthSize(l)
           data == ((h \o e) \o body) \o rest
<1>1. l \in Lengths /\ l \in Nat
  BY LenProperties
<1>2. x \in Byte /\ x \div 16 = PacketType[type] /\ x % 16 = flags
  BY HeaderByte
<1> HIDE DEF x
<1>3. h \in Seq(Byte) /\ Len(h) = 1 /\ h[1] = x
  BY <1>2
<1> HIDE DEF l
<1>4. e \in Seq(Byte) /\ Len(e) = z /\ z \in 1..4
  BY <1>1, DigitsWritten, SizeOfLength
<1>5. FormatFrame(type, flags, body) \o rest = data
  BY DEF FormatFrame, FixedHeader, l, x
<1> HIDE DEF h, e, z
<1> DEFINE digits == e \o (body \o rest)
<1>6. body \o rest \in Seq(Byte) /\ Len(body \o rest) = l + Len(rest) /\ Len(rest) \in Nat
  BY Joined DEF l
<1>7. digits \in Seq(Byte) /\ Len(digits) = z + (l + Len(rest))
  <2> DEFINE t == body \o rest
  <2>1. t \in Seq(Byte)
    BY <1>6
  <2> HIDE DEF t
  <2>2. e \o t \in Seq(Byte) /\ Len(e \o t) = Len(e) + Len(t)
    BY <1>4, <2>1, Joined
  <2> QED
    BY <1>4, <1>6, <2>2 DEF t
<1>8. data = h \o digits
  <2>1. h \o e \in Seq(Byte)
    BY <1>3, <1>4, Joined
  <2>2. ((h \o e) \o body) \o rest = (h \o e) \o (body \o rest)
    BY <2>1, Rejoined
  <2> DEFINE t == body \o rest
  <2>3. t \in Seq(Byte)
    BY <1>6
  <2> HIDE DEF t
  <2>4. (h \o e) \o t = h \o (e \o t)
    BY <1>3, <1>4, <2>3, Rejoined
  <2> QED
    BY <2>2, <2>4 DEF t
<1>9. DecodeLength(digits) = [ret |-> z, value |-> l]
  <2> DEFINE t == body \o rest
  <2>1. t \in Seq(Byte)
    BY <1>6
  <2> HIDE DEF t
  <2>2. DecodeLength(EncodeLength(l) \o t) = [ret |-> LengthSize(l), value |-> l]
    BY <1>1, <2>1, LengthComesBack
  <2> QED
    BY <2>2 DEF t, e, z
<1>10. SubSeq(data, (1 + z) + 1, (1 + z) + l) = body
  <2> DEFINE p == h \o e
  <2>1. p \in Seq(Byte) /\ Len(p) = Len(h) + Len(e)
    BY <1>3, <1>4, Joined
  <2>2. Len(p) = 1 + z
    BY <1>3, <1>4, <2>1
  <2> HIDE DEF p
  <2>3. SubSeq((p \o body) \o rest, Len(p) + 1, Len(p) + Len(body)) = body
    BY <2>1, Between
  <2> QED
    BY <2>2, <2>3 DEF p, l
<1> HIDE DEF digits, data
<1>11. /\ Len(data) = 1 + (z + (l + Len(rest)))
       /\ data[1] = x
       /\ Rest(data, 1) = digits
  <2>1. Len(data) = Len(h) + Len(digits)
    BY <1>3, <1>7, <1>8, Joined
  <2>2. SubSeq(data, Len(h) + 1, Len(data)) = digits
    BY <1>3, <1>7, <1>8, BehindPrefix
  <2>3. data[1] = h[1]
    BY <1>3, <1>7, <1>8, ConcatProperties
  <2> QED
    BY <1>3, <1>7, <2>1, <2>2, <2>3 DEF Rest
<1>12. /\ ~(Len(data) < 2) /\ ~(z <= 0) /\ z # 0
       /\ ~(Len(data) < (1 + z) + l)
  BY <1>1, <1>4, <1>6, <1>11
<1>13. ParseFrame(data) = [ret |-> 1 + z, type |-> PacketType[type], flags |-> flags,
                           frame_length |-> (1 + z) + l]
  <2>1. DecodeLength(Rest(data, 1)).ret = z /\ DecodeLength(Rest(data, 1)).value = l
    BY <1>9, <1>11
  <2> QED
    BY <1>2, <1>11, <1>12, <2>1 DEF ParseFrame
<1> QED
  BY <1>5, <1>10, <1>13 DEF z, l, ParsedAs

(* A frame is found where it was written, with its type, flags and length,  *)
(* whatever follows it in the buffer (mqtt_format_fixed_header,             *)
(* mqtt_parse_frame).                                                       *)
THEOREM FrameFound ==
    ASSUME NEW type \in DOMAIN PacketType, NEW flags \in 0..15,
           NEW body \in Seq(Byte), Len(body) \in Lengths, NEW rest \in Seq(Byte)
    PROVE  LET offset == 1 + LengthSize(Len(body))
               data   == FormatFrame(type, flags, body) \o rest
           IN  /\ ParseFrame(data) =
                    [ret |-> offset, type |-> PacketType[type], flags |-> flags,
                     frame_length |-> offset + Len(body)]
               /\ SubSeq(data, offset + 1, offset + Len(body)) = body
<1>1. ParsedAs(FormatFrame(type, flags, body) \o rest, type, flags, body)
  BY FrameParsed
<1> QED
  BY <1>1 DEF ParsedAs

-----------------------------------------------------------------------------
(* CONNECT.                                                                *)

(* The flags of a call can be told apart.                                   *)
LEMMA FlagBits ==
    ASSUME NEW c \in 0..1, NEW w \in 0..1, NEW q \in 0..3, NEW r \in 0..1,
           NEW p \in 0..1, NEW u \in 0..1, w = 0 => q = 0 /\ r = 0
    PROVE  LET f == 2 * c + 4 * w + 8 * q + 32 * r + 64 * p + 128 * u
           IN  /\ f \in 0..255
               /\ (f \div 2) % 2 = c /\ (f \div 4) % 2 = w /\ (f \div 8) % 4 = q
               /\ (f \div 32) % 2 = r /\ (f \div 64) % 2 = p /\ (f \div 128) % 2 = u
  OBVIOUS

(* The flags of CONNECT can be told apart.                                  *)
LEMMA FlagsTold ==
    ASSUME NEW m \in ConnectCalls
    PROVE  LET f == ConnectFlags(m)
           IN  /\ f \in Byte
               /\ Has(f, 2) <=> m.clean_session
               /\ Has(f, 4) <=> HasWill(m)
               /\ Has(f, 32) <=> HasWill(m) /\ m.will_retain
               /\ (f \div 8) % 4 = IF HasWill(m) THEN m.will_qos ELSE 0
               /\ Has(f, 64) <=> m.password # NULL
               /\ Has(f, 128) <=> m.user_name # NULL
<1> DEFINE bit(x) == IF x THEN 1 ELSE 0
           c == bit(m.clean_session)
           w == bit(HasWill(m))
           q == IF HasWill(m) THEN m.will_qos ELSE 0
           r == bit(HasWill(m) /\ m.will_retain)
           p == bit(m.password # NULL)
           u == bit(m.user_name # NULL)
           f == 2 * c + 4 * w + 8 * q + 32 * r + 64 * p + 128 * u
<1>1. m.will_qos \in 0..3
  BY DEF ConnectCalls
<1>2. /\ c \in 0..1 /\ w \in 0..1 /\ q \in 0..3 /\ r \in 0..1 /\ p \in 0..1 /\ u \in 0..1
      /\ w = 0 => q = 0 /\ r = 0
  BY <1>1
<1>3. /\ f \in 0..255
      /\ (f \div 2) % 2 = c /\ (f \div 4) % 2 = w /\ (f \div 8) % 4 = q
      /\ (f \div 32) % 2 = r /\ (f \div 64) % 2 = p /\ (f \div 128) % 2 = u
  <2> HIDE DEF c, w, q, r, p, u
  <2> QED
    BY <1>2, FlagBits
<1>4. ConnectFlags(m) = f
  <2>1. m.will_qos % 4 = m.will_qos
    BY <1>1
  <2>2. CASE HasWill(m)
    BY <1>1, <2>1, <2>2 DEF ConnectFlags, Flag
  <2>3. CASE ~HasWill(m)
    BY <2>3 DEF ConnectFlags, Flag
  <2> QED
    BY <2>2, <2>3
<1>5. /\ c = 1 <=> m.clean_session
      /\ w = 1 <=> HasWill(m)
      /\ r = 1 <=> HasWill(m) /\ m.will_retain
      /\ p = 1 <=> m.password # NULL
      /\ u = 1 <=> m.user_name # NULL
  OBVIOUS
<1> HIDE DEF c, w, r, p, u, f
<1> QED
  BY <1>3, <1>4, <1>5 DEF Has, Byte

(* A field that may be missing, at any offset.                              *)
LEMMA OptionalAt ==
    ASSUME NEW x \in ShortTexts \cup {NULL}, NULL \notin ShortTexts,
           NEW pre \in Seq(Byte), NEW rest \in Seq(Byte)
    PROVE  LET w == PutOptionalString(x)
               b == (pre \o w) \o rest
           IN  /\ w \in Seq(Byte) /\ Len(w) \in Nat
               /\ Len(w) = OptionalSize(x # NULL, IF x = NULL THEN 0 ELSE Len(x))
               /\ x # NULL => /\ GetString(b, Len(pre)) = x
                              /\ AfterString(b, Len(pre)) = Len(pre) + Len(w)
<1>1. CASE x = NULL
  BY <1>1, EmptySeq DEF PutOptionalString, OptionalSize
<1>2. CASE x # NULL
  <2>1. x \in ShortTexts /\ PutOptionalString(x) = PutString(x)
    BY <1>2 DEF PutOptionalString
  <2>2. PutString(x) \in Seq(Byte) /\ Len(PutString(x)) = 2 + Len(x)
    BY <2>1, StringWritten
  <2>3. Len(x) \in Nat
    BY <2>1, LenProperties DEF ShortTexts
  <2>4. /\ GetString((pre \o PutString(x)) \o rest, Len(pre)) = x
        /\ AfterString((pre \o PutString(x)) \o rest, Len(pre)) = Len(pre) + Len(PutString(x))
    BY <2>1, StringAt
  <2>5. Len(PutString(x)) \in Nat
    BY <2>2, <2>3
  <2> QED
    BY <1>2, <2>1, <2>2, <2>4, <2>5 DEF OptionalSize
<1> QED
  BY <1>1, <1>2

(* The part of CONNECT that is always there.                                *)
LEMMA ConnectHead ==
    ASSUME NEW f \in Byte, NEW k \in Shorts, NEW rest \in Seq(Byte)
    PROVE  LET head == (PutString(ProtocolName) \o <<ProtocolLevel, f>>) \o PutShort(k)
               b == head \o rest
           IN  /\ head \in Seq(Byte) /\ Len(head) = 10
               /\ AfterString(b, 0) = 6
               /\ b[8] = f
               /\ GetShort(b, 8) = k
<1> DEFINE s == PutString(ProtocolName)
           l == <<ProtocolLevel, f>>
           n == PutShort(k)
           p == s \o l
           t == n \o rest
           b == (p \o n) \o rest
<1>1. ProtocolName \in Seq(Byte) /\ Len(ProtocolName) = 4
  BY DEF ProtocolName, Byte
<1>1a. ProtocolName \in ShortTexts
  <2>1. Len(ProtocolName) < ShortSize
    BY <1>1 DEF ShortSize
  <2> QED
    BY <1>1, <2>1 DEF ShortTexts
<1>2. s \in Seq(Byte) /\ Len(s) = 6
  <2>1. s \in Seq(Byte) /\ Len(s) = 2 + Len(ProtocolName)
    BY <1>1a, StringWritten
  <2> HIDE DEF s
  <2> QED
    BY <1>1, <2>1
<1>3. l \in Seq(Byte) /\ Len(l) = 2 /\ l[2] = f
  <2>1. ProtocolLevel \in Byte
    BY DEF ProtocolLevel, Byte
  <2> QED
    BY <2>1
<1>4. n \in Seq(Byte) /\ Len(n) = 2
  BY ShortWritten
<1> HIDE DEF l
<1>5. p \in Seq(Byte) /\ Len(p) = Len(s) + Len(l)
  BY <1>2, <1>3, Joined
<1>6. Len(p) = 8
  BY <1>2, <1>3, <1>5
<1>7. t \in Seq(Byte)
  <2> HIDE DEF n
  <2> QED
    BY <1>4, Joined
<1>8. GetShort(b, 8) = k
  <2> HIDE DEF p
  <2>1. GetShort((p \o PutShort(k)) \o rest, Len(p)) = k
    BY <1>5, ShortAt
  <2> QED
    BY <1>6, <2>1
<1> HIDE DEF n, t
<1>9. b = p \o t
  <2> HIDE DEF p
  <2> QED
    BY <1>4, <1>5, Rejoined DEF t
<1>10. p \o n \in Seq(Byte) /\ Len(p \o n) = 10
  <2> HIDE DEF p
  <2>1. p \o n \in Seq(Byte) /\ Len(p \o n) = Len(p) + Len(n)
    BY <1>4, <1>5, Joined
  <2> QED
    BY <1>4, <1>6, <2>1
<1>11. p \o t = s \o (l \o t) /\ l \o t \in Seq(Byte)
  <2> HIDE DEF s, l
  <2>1. s \in Seq(Byte)
    BY <1>2
  <2>2. l \in Seq(Byte)
    BY <1>3
  <2>3. t \in Seq(Byte)
    BY <1>7
  <2>4. l \o t \in Seq(Byte)
    BY <2>2, <2>3, Joined
  <2>5. (s \o l) \o t = s \o (l \o t)
    BY <2>1, <2>2, <2>3, Rejoined
  <2> QED
    BY <2>4, <2>5
<1>12. AfterString(b, 0) = 6
  <2> DEFINE v == l \o t
  <2>2. v \in Seq(Byte)
    BY <1>11
  <2> HIDE DEF v
  <2>3. AfterString(s \o v, 0) = Len(s)
    BY <1>1a, <2>2, StringFirst
  <2> HIDE DEF s
  <2> QED
    BY <1>2, <1>9, <1>11, <2>3 DEF v
<1> HIDE DEF s
<1>13. b[8] = f
  <2>1. \A i \in 1 .. Len(l) : ((s \o l) \o t)[Len(s) + i] = l[i]
    BY <1>2, <1>3, <1>7, Between
  <2>2. 2 \in 1 .. Len(l) /\ Len(s) + 2 = 8
    BY <1>2, <1>3
  <2> QED
    BY <1>3, <1>9, <2>1, <2>2
<1> QED
  BY <1>8, <1>10, <1>12, <1>13 DEF s, l, n

(* A connection is asked for as the application said, field by field, and   *)
(* the packet has the size that its frame announces (mqtt_eval_connect,     *)
(* mqtt_format_connect, mqtt_parse_connect).                                *)
THEOREM ConnectComesBack ==
    ASSUME NEW m \in ConnectCalls, NULL \notin ShortTexts
    PROVE  /\ FormatConnect(m) \in Seq(Byte) /\ Len(FormatConnect(m)) = EvalConnect(m)
           /\ ParseConnect(FormatConnect(m)) =
                [ret           |-> EvalConnect(m),
                 clean_session |-> m.clean_session,
                 will_retain   |-> HasWill(m) /\ m.will_retain,
                 will_qos      |-> IF HasWill(m) THEN m.will_qos ELSE 0,
                 keep_alive    |-> m.keep_alive,
                 client_id     |-> m.client_id,
                 will_topic    |-> m.will_topic,
                 will_msg      |-> m.will_msg,
                 user_name     |-> m.user_name,
                 password      |-> m.password]
<1> DEFINE f == ConnectFlags(m)
           p0 == (PutString(ProtocolName) \o <<ProtocolLevel, f>>) \o PutShort(m.keep_alive)
           i == PutString(m.client_id)
           t == PutOptionalString(m.will_topic)
           g == PutOptionalString(m.will_msg)
           u == PutOptionalString(m.user_name)
           w == PutOptionalString(m.password)
           p1 == p0 \o i
           p2 == p1 \o t
           p3 == p2 \o g
           p4 == p3 \o u
           b == p4 \o w
<1>1. /\ m.keep_alive \in Shorts /\ m.client_id \in ShortTexts
      /\ m.will_topic \in ShortTexts \cup {NULL} /\ m.will_msg \in ShortTexts \cup {NULL}
      /\ m.user_name \in ShortTexts \cup {NULL} /\ m.password \in ShortTexts \cup {NULL}
      /\ m.will_topic = NULL <=> m.will_msg = NULL
      /\ m.will_msg_len = (IF m.will_msg = NULL THEN 0 ELSE Len(m.will_msg))
      /\ m.password_len = (IF m.password = NULL THEN 0 ELSE Len(m.password))
      /\ m.will_msg # NULL => m.will_msg_len > 0
      /\ m.password # NULL => m.password_len > 0
  BY DEF ConnectCalls
<1>2. /\ f \in Byte
      /\ Has(f, 2) <=> m.clean_session
      /\ Has(f, 4) <=> HasWill(m)
      /\ Has(f, 32) <=> HasWill(m) /\ m.will_retain
      /\ (f \div 8) % 4 = IF HasWill(m) THEN m.will_qos ELSE 0
      /\ Has(f, 64) <=> m.password # NULL
      /\ Has(f, 128) <=> m.user_name # NULL
  BY FlagsTold
<1>3. HasWill(m) <=> m.will_topic # NULL
  BY <1>1 DEF HasWill
<1>4. FormatConnect(m) = b
  <2>1. PutOptionalData(m.will_msg, m.will_msg_len) = g
    BY <1>1 DEF PutOptionalData, PutOptionalString, PutString
  <2>2. PutOptionalData(m.password, m.password_len) = w
    BY <1>1 DEF PutOptionalData, PutOptionalString, PutString
  <2> HIDE DEF g, w
  <2> QED
    BY <2>1, <2>2 DEF FormatConnect
<1>5. <<>> \in Seq(Byte) /\ Len(<<>>) = 0
  BY EmptySeq
(* The fields are bytes, and their sizes those of the code.                 *)
<1>6. /\ p0 \in Seq(Byte) /\ Len(p0) = 10
      /\ i \in Seq(Byte) /\ Len(i) = 2 + Len(m.client_id) /\ Len(m.client_id) \in Nat
  <2>1. p0 \in Seq(Byte) /\ Len(p0) = 10
    <3>1. f \in Byte
      BY <1>2
    <3>2. m.keep_alive \in Shorts
      BY <1>1
    <3>3. <<>> \in Seq(Byte)
      BY <1>5
    <3> HIDE DEF f
    <3> QED
      BY <3>1, <3>2, <3>3, ConnectHead
  <2>2. i \in Seq(Byte) /\ Len(i) = 2 + Len(m.client_id)
    BY <1>1, StringWritten
  <2>3. Len(m.client_id) \in Nat
    BY <1>1, LenProperties DEF ShortTexts
  <2> HIDE DEF p0, i
  <2> QED
    BY <2>1, <2>2, <2>3
<1>7. /\ t \in Seq(Byte) /\ Len(t) \in Nat
      /\ Len(t) = OptionalSize(m.will_topic # NULL,
                               IF m.will_topic = NULL THEN 0 ELSE Len(m.will_topic))
      /\ m.will_topic = NULL => t = <<>>
  BY <1>1, <1>5, OptionalAt DEF PutOptionalString
<1>8. /\ g \in Seq(Byte) /\ Len(g) \in Nat
      /\ Len(g) = OptionalSize(m.will_msg # NULL,
                               IF m.will_msg = NULL THEN 0 ELSE Len(m.will_msg))
      /\ m.will_msg = NULL => g = <<>>
  BY <1>1, <1>5, OptionalAt DEF PutOptionalString
<1>9. /\ u \in Seq(Byte) /\ Len(u) \in Nat
      /\ Len(u) = OptionalSize(m.user_name # NULL,
                               IF m.user_name = NULL THEN 0 ELSE Len(m.user_name))
      /\ m.user_name = NULL => u = <<>>
  BY <1>1, <1>5, OptionalAt DEF PutOptionalString
<1>10. /\ w \in Seq(Byte) /\ Len(w) \in Nat
       /\ Len(w) = OptionalSize(m.password # NULL,
                                IF m.password = NULL THEN 0 ELSE Len(m.password))
       /\ m.password = NULL => w = <<>>
  BY <1>1, <1>5, OptionalAt DEF PutOptionalString
<1> HIDE DEF f
(* What follows a field is a sequence of bytes too.                         *)
<1> DEFINE r4 == w
           r3 == u \o w
           r2 == g \o r3
           r1 == t \o r2
           r0 == i \o r1
<1>11. r4 \in Seq(Byte) /\ r3 \in Seq(Byte) /\ r2 \in Seq(Byte) /\ r1 \in Seq(Byte) /\ r0 \in Seq(Byte)
  <2> HIDE DEF i, t, g, u, w
  <2>1. r3 \in Seq(Byte)
    BY <1>9, <1>10, Joined
  <2> HIDE DEF r3
  <2>2. r2 \in Seq(Byte)
    BY <1>8, <2>1, Joined
  <2> HIDE DEF r2
  <2>3. r1 \in Seq(Byte)
    BY <1>7, <2>2, Joined
  <2> HIDE DEF r1
  <2>4. r0 \in Seq(Byte)
    BY <1>6, <2>3, Joined
  <2> QED
    BY <1>10, <2>1, <2>2, <2>3, <2>4
<1>12. /\ p1 \in Seq(Byte) /\ Len(p1) = Len(p0) + Len(i)
       /\ p2 \in Seq(Byte) /\ Len(p2) = Len(p1) + Len(t)
       /\ p3 \in Seq(Byte) /\ Len(p3) = Len(p2) + Len(g)
       /\ p4 \in Seq(Byte) /\ Len(p4) = Len(p3) + Len(u)
       /\ b \in Seq(Byte) /\ Len(b) = Len(p4) + Len(w)
  <2> HIDE DEF p0, i, t, g, u, w
  <2>1. p1 \in Seq(Byte) /\ Len(p1) = Len(p0) + Len(i)
    BY <1>6, Joined
  <2> HIDE DEF p1
  <2>2. p2 \in Seq(Byte) /\ Len(p2) = Len(p1) + Len(t)
    BY <1>7, <2>1, Joined
  <2> HIDE DEF p2
  <2>3. p3 \in Seq(Byte) /\ Len(p3) = Len(p2) + Len(g)
    BY <1>8, <2>2, Joined
  <2> HIDE DEF p3
  <2>4. p4 \in Seq(Byte) /\ Len(p4) = Len(p3) + Len(u)
    BY <1>9, <2>3, Joined
  <2> HIDE DEF p4
  <2>5. b \in Seq(Byte) /\ Len(b) = Len(p4) + Len(w)
    BY <1>10, <2>4, Joined
  <2> QED
    BY <2>1, <2>2, <2>3, <2>4, <2>5
(* The packet, cut in front of and behind each of its fields.               *)
<1>13. /\ b = (p3 \o u) \o r4
       /\ b = (p2 \o g) \o r3
       /\ b = (p1 \o t) \o r2
       /\ b = (p0 \o i) \o r1
       /\ b = p0 \o r0
  <2>1. b = p4 \o w /\ p4 = p3 \o u /\ p3 = p2 \o g /\ p2 = p1 \o t /\ p1 = p0 \o i
    OBVIOUS
  <2>2. r4 = w /\ r3 = u \o w /\ r2 = g \o r3 /\ r1 = t \o r2 /\ r0 = i \o r1
    OBVIOUS
  <2> HIDE DEF p0, p1, p2, p3, p4, b, i, t, g, u, w, r0, r1, r2, r3, r4
  <2>a. p0 \in Seq(Byte) /\ i \in Seq(Byte)
    BY <1>6
  <2>b. t \in Seq(Byte)
    BY <1>7
  <2>c. g \in Seq(Byte)
    BY <1>8
  <2>d. u \in Seq(Byte)
    BY <1>9
  <2>e. w \in Seq(Byte)
    BY <1>10
  <2>f. p1 \in Seq(Byte) /\ p2 \in Seq(Byte) /\ p3 \in Seq(Byte)
    BY <1>12
  <2>g. r1 \in Seq(Byte) /\ r2 \in Seq(Byte) /\ r3 \in Seq(Byte)
    BY <1>11
  <2>3. (p3 \o u) \o w = p3 \o (u \o w)
    <3>1. p3 \in Seq(Byte)
      BY <2>f
    <3> QED
      BY <2>d, <2>e, <3>1, Rejoined
  <2>4. (p2 \o g) \o r3 = p2 \o (g \o r3)
    <3>1. p2 \in Seq(Byte)
      BY <2>f
    <3>2. r3 \in Seq(Byte)
      BY <2>g
    <3> QED
      BY <2>c, <3>1, <3>2, Rejoined
  <2>5. (p1 \o t) \o r2 = p1 \o (t \o r2)
    <3>1. p1 \in Seq(Byte)
      BY <2>f
    <3>2. r2 \in Seq(Byte)
      BY <2>g
    <3> QED
      BY <2>b, <3>1, <3>2, Rejoined
  <2>6. (p0 \o i) \o r1 = p0 \o (i \o r1)
    <3>1. p0 \in Seq(Byte)
      BY <2>a
    <3>2. i \in Seq(Byte)
      BY <2>a
    <3>3. r1 \in Seq(Byte)
      BY <2>g
    <3> QED
      BY <3>1, <3>2, <3>3, Rejoined
  <2> QED
    BY <2>1, <2>2, <2>3, <2>4, <2>5, <2>6, Zenon
<1> HIDE DEF b, p1, p2, p3, p4, r0, r1, r2, r3
(* The parser finds the fields at these offsets.                            *)
<1>14. /\ AfterString(b, 0) = 6 /\ b[8] = f /\ GetShort(b, 8) = m.keep_alive
  <2>1. /\ AfterString(p0 \o r0, 0) = 6 /\ (p0 \o r0)[8] = f
        /\ GetShort(p0 \o r0, 8) = m.keep_alive
    <3>1. f \in Byte
      BY <1>2
    <3>2. m.keep_alive \in Shorts
      BY <1>1
    <3>3. r0 \in Seq(Byte)
      BY <1>11
    <3> DEFINE k == m.keep_alive
               h == (PutString(ProtocolName) \o <<ProtocolLevel, f>>) \o PutShort(k)
    <3>4. p0 = h
      OBVIOUS
    <3>5. k \in Shorts
      BY <3>2
    <3> HIDE DEF k
    <3>6. AfterString(h \o r0, 0) = 6 /\ (h \o r0)[8] = f /\ GetShort(h \o r0, 8) = k
      BY <3>1, <3>5, <3>3, ConnectHead
    <3> HIDE DEF h
    <3>7. k = m.keep_alive
      BY DEF k
    <3> HIDE DEF p0
    <3> QED
      BY <3>4, <3>6, <3>7
  <2> HIDE DEF p0
  <2> QED
    BY <1>13, <2>1
<1>15. GetString(b, 10) = m.client_id /\ AfterString(b, 10) = Len(p1)
  <2> HIDE DEF p0
  <2>1. /\ GetString((p0 \o i) \o r1, Len(p0)) = m.client_id
        /\ AfterString((p0 \o i) \o r1, Len(p0)) = Len(p0) + Len(i)
    BY <1>1, <1>6, <1>11, StringAt
  <2> QED
    BY <1>6, <1>12, <1>13, <2>1
<1> HIDE DEF p0, i
<1>16. m.will_topic # NULL => /\ GetString(b, Len(p1)) = m.will_topic
                              /\ AfterString(b, Len(p1)) = Len(p2)
  <2>1. m.will_topic # NULL =>
            /\ GetString((p1 \o t) \o r2, Len(p1)) = m.will_topic
            /\ AfterString((p1 \o t) \o r2, Len(p1)) = Len(p1) + Len(t)
    BY <1>1, <1>11, <1>12, OptionalAt
  <2> HIDE DEF t
  <2> QED
    BY <1>12, <1>13, <2>1
<1>17. m.will_msg # NULL => /\ GetString(b, Len(p2)) = m.will_msg
                            /\ AfterString(b, Len(p2)) = Len(p3)
  <2>1. m.will_msg # NULL =>
            /\ GetString((p2 \o g) \o r3, Len(p2)) = m.will_msg
            /\ AfterString((p2 \o g) \o r3, Len(p2)) = Len(p2) + Len(g)
    BY <1>1, <1>11, <1>12, OptionalAt
  <2> HIDE DEF g
  <2> QED
    BY <1>12, <1>13, <2>1
<1>18. m.user_name # NULL => /\ GetString(b, Len(p3)) = m.user_name
                             /\ AfterString(b, Len(p3)) = Len(p4)
  <2>1. m.user_name # NULL =>
            /\ GetString((p3 \o u) \o r4, Len(p3)) = m.user_name
            /\ AfterString((p3 \o u) \o r4, Len(p3)) = Len(p3) + Len(u)
    BY <1>1, <1>11, <1>12, OptionalAt
  <2> HIDE DEF u
  <2> QED
    BY <1>12, <1>13, <2>1
<1>19. m.password # NULL => /\ GetString(b, Len(p4)) = m.password
                            /\ AfterString(b, Len(p4)) = Len(b)
  <2> DEFINE v == PutOptionalString(m.password)
  <2>1. m.password # NULL =>
            /\ GetString((p4 \o v) \o <<>>, Len(p4)) = m.password
            /\ AfterString((p4 \o v) \o <<>>, Len(p4)) = Len(p4) + Len(v)
    BY <1>1, <1>5, <1>12, OptionalAt
  <2> HIDE DEF v
  <2>2. b = p4 \o v
    BY DEF b, v
  <2>3. b \o <<>> = b
    BY <1>12, ConcatEmptySeq
  <2>4. Len(p4) + Len(v) = Len(b)
    BY <1>12 DEF v
  <2> QED
    BY <2>1, <2>2, <2>3, <2>4
<1> HIDE DEF t, g, u, w
<1>20. /\ m.will_topic = NULL => Len(p2) = Len(p1)
       /\ m.will_msg = NULL => Len(p3) = Len(p2)
       /\ m.user_name = NULL => Len(p4) = Len(p3)
       /\ m.password = NULL => Len(b) = Len(p4)
       /\ Len(p1) \in Nat /\ Len(p2) \in Nat /\ Len(p3) \in Nat /\ Len(p4) \in Nat /\ Len(b) \in Nat
  <2>1. /\ m.will_topic = NULL => Len(t) = 0
        /\ m.will_msg = NULL => Len(g) = 0
        /\ m.user_name = NULL => Len(u) = 0
        /\ m.password = NULL => Len(w) = 0
    BY <1>5, <1>7, <1>8, <1>9, <1>10
  <2>2. Len(i) \in Nat /\ Len(p0) \in Nat
    BY <1>6
  <2>3. /\ Len(p1) \in Nat /\ Len(p2) \in Nat /\ Len(p3) \in Nat /\ Len(p4) \in Nat
        /\ Len(b) \in Nat
    BY <1>7, <1>8, <1>9, <1>10, <1>12, <2>2
  <2>4. /\ Len(p2) = Len(p1) + Len(t) /\ Len(p3) = Len(p2) + Len(g)
        /\ Len(p4) = Len(p3) + Len(u) /\ Len(b) = Len(p4) + Len(w)
    BY <1>12
  <2> QED
    BY <2>1, <2>3, <2>4
<1>21. Len(b) = EvalConnect(m)
  <2>1. (m.will_msg_len > 0) = (m.will_msg # NULL) /\ (m.password_len > 0) = (m.password # NULL)
    BY <1>1
  <2>2. EvalConnect(m) = 10 + Len(i) + Len(t) + Len(g) + Len(u) + Len(w)
    BY <1>1, <1>6, <1>7, <1>8, <1>9, <1>10, <2>1 DEF EvalConnect, StringSize
  <2> QED
    BY <1>6, <1>7, <1>8, <1>9, <1>10, <1>12, <2>2
<1> DEFINE will == Has(f, 4)
           user == IF will THEN Len(p3) ELSE Len(p1)
           end == Len(b)
<1>22. ParseResult(b, end) = EvalConnect(m)
  BY <1>20, <1>21 DEF ParseResult
<1>23. user = Len(p3)
  BY <1>1, <1>2, <1>3, <1>20
<1>24. ParseConnect(b) =
                [ret           |-> ParseResult(b, end),
                 clean_session |-> Has(f, 2),
                 will_retain   |-> Has(f, 32),
                 will_qos      |-> (f \div 8) % 4,
                 keep_alive    |-> GetShort(b, 8),
                 client_id     |-> GetString(b, 10),
                 will_topic    |-> IF will THEN GetString(b, Len(p1)) ELSE NULL,
                 will_msg      |-> IF will THEN GetString(b, Len(p2)) ELSE NULL,
                 user_name     |-> IF Has(f, 128) THEN GetString(b, Len(p3)) ELSE NULL,
                 password      |-> IF Has(f, 64) THEN GetString(b, Len(p4)) ELSE NULL]
  <2> DEFINE topic == Len(p1)
             msg == IF will THEN AfterString(b, topic) ELSE topic
             name == IF will THEN AfterString(b, msg) ELSE topic
             pass == IF Has(f, 128) THEN AfterString(b, name) ELSE name
             last == IF Has(f, 64) THEN AfterString(b, pass) ELSE pass
  <2>1. AfterString(b, 0) + 2 = 8 /\ AfterString(b, 0) + 4 = 10
    BY <1>14
  <2>2. b[AfterString(b, 0) + 2] = f /\ AfterString(b, AfterString(b, 0) + 4) = topic
    BY <1>14, <1>15, <2>1
  <2>3. ParseConnect(b) =
                [ret           |-> ParseResult(b, last),
                 clean_session |-> Has(f, 2),
                 will_retain   |-> Has(f, 32),
                 will_qos      |-> (f \div 8) % 4,
                 keep_alive    |-> GetShort(b, 8),
                 client_id     |-> GetString(b, 10),
                 will_topic    |-> IF will THEN GetString(b, topic) ELSE NULL,
                 will_msg      |-> IF will THEN GetString(b, msg) ELSE NULL,
                 user_name     |-> IF Has(f, 128) THEN GetString(b, name) ELSE NULL,
                 password      |-> IF Has(f, 64) THEN GetString(b, pass) ELSE NULL]
    <3> HIDE DEF topic
    <3> QED
      BY <2>1, <2>2 DEF ParseConnect
  <2>4. will => AfterString(b, Len(p1)) = Len(p2) /\ AfterString(b, Len(p2)) = Len(p3)
    BY <1>1, <1>2, <1>3, <1>16, <1>17
  <2>5. will => msg = Len(p2)
    BY <2>4
  <2>6. name = Len(p3)
    BY <1>23, <2>4
  <2> HIDE DEF msg, name
  <2>7. pass = Len(p4)
    BY <1>2, <1>18, <1>20, <2>6
  <2> HIDE DEF pass
  <2>8. last = end
    BY <1>2, <1>19, <1>20, <2>7
  <2> HIDE DEF last, end
  <2>9. will => GetString(b, msg) = GetString(b, Len(p2))
    BY <2>5
  <2> HIDE DEF will
  <2> QED
    BY <2>3, <2>6, <2>7, <2>8, <2>9
<1>25. /\ Has(f, 2) = m.clean_session
       /\ Has(f, 32) = (HasWill(m) /\ m.will_retain)
  <2>1. m.clean_session \in BOOLEAN /\ m.will_retain \in BOOLEAN
    BY DEF ConnectCalls
  <2> QED
    BY <1>2, <2>1 DEF Has
<1>26. /\ (IF will THEN GetString(b, Len(p1)) ELSE NULL) = m.will_topic
       /\ (IF will THEN GetString(b, Len(p2)) ELSE NULL) = m.will_msg
       /\ (IF Has(f, 128) THEN GetString(b, Len(p3)) ELSE NULL) = m.user_name
       /\ (IF Has(f, 64) THEN GetString(b, Len(p4)) ELSE NULL) = m.password
  <2>1. will <=> m.will_topic # NULL /\ m.will_msg # NULL
    BY <1>1, <1>2, <1>3
  <2> HIDE DEF will
  <2> QED
    BY <1>1, <1>2, <1>16, <1>17, <1>18, <1>19, <2>1
<1> HIDE DEF will, end
<1> QED
  BY <1>2, <1>4, <1>12, <1>14, <1>15, <1>21, <1>22, <1>24, <1>25, <1>26

-----------------------------------------------------------------------------
(* From a call to what is read of it.                                       *)

(* What Arrived says, of any call and any frame.                            *)
Understood(m, found) ==
    /\ found.type = m.type
    /\ \A field \in DOMAIN Meant(m) : found.fields[field] = Meant(m)[field]
    /\ m.type = "PUBLISH" =>
        /\ QosFromFlags(found.flags) = m.qos
        /\ Has(found.flags, 1) = m.retain
        /\ Has(found.flags, 8) = m.dup
    /\ "ret" \in DOMAIN found.fields => found.fields.ret >= 0

(* The bytes of m are a frame, and m is read back from it.                  *)
Readable(m, flags, body) ==
    /\ m.type \in DOMAIN PacketType
    /\ flags \in 0..15
    /\ body \in Seq(Byte) /\ Len(body) \in Lengths
    /\ Written(m) = FormatFrame(m.type, flags, body)
    /\ Understood(m, [type |-> m.type, flags |-> flags,
                      fields |-> ParseBody(m.type, flags, body)])

(* A packet of a few bytes or texts is not too long for a frame.            *)
LEMMA SmallIsLength ==
    /\ \A n \in Nat : n < 400000 => n \in Lengths
    /\ \A s \in ShortTexts : s \in Seq(Byte) /\ Len(s) \in Nat /\ Len(s) < 65536
<1>1. Weight[5] = 268435456
  BY DEF Weight
<1>2. \A n \in Nat : n < 400000 => n \in Lengths
  BY SMT DEF Lengths, Weight
<1>3. \A s \in ShortTexts : s \in Seq(Byte) /\ Len(s) \in Nat /\ Len(s) < 65536
  BY LenProperties DEF ShortTexts, ShortSize
<1> QED
  BY <1>2, <1>3

(* The names of the types are different.                                    *)
LEMMA NameOfType ==
    ASSUME NEW type \in DOMAIN PacketType
    PROVE  PacketType[type] \in 1..14 /\ PacketName(PacketType[type]) = type
<1>1. DOMAIN PacketType =
        {"CONNECT", "CONNACK", "PUBLISH", "PUBACK", "PUBREC", "PUBREL", "PUBCOMP", "SUBSCRIBE",
         "SUBACK", "UNSUBSCRIBE", "UNSUBACK", "PINGREQ", "PINGRESP", "DISCONNECT"}
  BY DEF PacketType
<1>2. PacketType[type] \in 1..14
  BY <1>1 DEF PacketType
<1>3. \A name \in DOMAIN PacketType : PacketType[name] = PacketType[type] => name = type
  BY <1>1 DEF PacketType
<1> QED
  BY <1>2, <1>3 DEF PacketName

(* CONNACK.                                                                 *)
LEMMA ConnackReadable ==
    ASSUME NEW m \in [type : {"CONNACK"}, session_present : BOOLEAN, return_code : Byte]
    PROVE  Readable(m, 0, FormatConnack(m))
<1> DEFINE b == FormatConnack(m)
<1>1. m.type = "CONNACK" /\ m.session_present \in BOOLEAN /\ m.return_code \in Byte
  OBVIOUS
<1>2. b \in Seq(Byte) /\ Len(b) = 2 /\ b[2] = m.return_code /\ b[1] \in {0, 1}
      /\ (b[1] = 1 <=> m.session_present)
  BY <1>1 DEF FormatConnack, Flag, Byte
<1> HIDE DEF b
<1>3. Has(b[1], 1) = m.session_present
  BY <1>1, <1>2 DEF Has
<1>4. ParseConnack(b) = [ret |-> 2, session_present |-> m.session_present,
                         return_code |-> m.return_code]
  BY <1>2, <1>3 DEF ParseConnack, ParseResult
<1>5. Written(m) = FormatFrame(m.type, 0, b)
  BY <1>1 DEF Written, IdTypes, b
<1>6. ParseBody(m.type, 0, b) = ParseConnack(b)
  BY <1>1 DEF ParseBody, IdTypes
<1>7. Meant(m) = [session_present |-> m.session_present, return_code |-> m.return_code]
  BY <1>1 DEF Meant, IdTypes
<1>8. Understood(m, [type |-> m.type, flags |-> 0, fields |-> ParseBody(m.type, 0, b)])
  BY <1>1, <1>4, <1>6, <1>7 DEF Understood
<1>9. m.type \in DOMAIN PacketType
  BY <1>1 DEF PacketType
<1>10. Len(b) \in Lengths
  BY <1>2, SmallIsLength
<1> QED
  BY <1>2, <1>5, <1>8, <1>9, <1>10 DEF Readable, b

(* SUBACK.                                                                  *)
LEMMA SubackReadable ==
    ASSUME NEW m \in [type : {"SUBACK"}, id : Shorts, return_code : Byte]
    PROVE  Readable(m, 0, FormatSuback(m))
<1> DEFINE n == PutShort(m.id)
           b == FormatSuback(m)
<1>1. m.type = "SUBACK" /\ m.id \in Shorts /\ m.return_code \in Byte
  OBVIOUS
<1>2. n \in Seq(Byte) /\ Len(n) = 2
  BY <1>1, ShortWritten
<1>3. b = n \o <<m.return_code>>
  BY DEF FormatSuback
<1>4. GetShort(b, 0) = m.id
  <2>1. <<m.return_code>> \in Seq(Byte)
    BY <1>1
  <2> QED
    BY <1>1, <1>3, <2>1, ShortFirst
<1> HIDE DEF n, b
<1>5. b \in Seq(Byte) /\ Len(b) = 3 /\ b[3] = m.return_code
  <2> DEFINE t == <<m.return_code>>
  <2>1. t \in Seq(Byte) /\ Len(t) = 1 /\ t[1] = m.return_code
    BY <1>1
  <2>2. b = n \o t
    BY <1>3
  <2> HIDE DEF t
  <2>3. n \o t \in Seq(Byte) /\ Len(n \o t) = Len(n) + Len(t)
    BY <1>2, <2>1, Joined
  <2>4. \A i \in 1 .. Len(t) : (n \o t)[Len(n) + i] = t[i]
    BY <1>2, <2>1, BehindPrefix
  <2> QED
    BY <1>2, <2>1, <2>2, <2>3, <2>4
<1>6. ParseSuback(b) = [ret |-> 3, id |-> m.id, return_code |-> m.return_code]
  BY <1>4, <1>5 DEF ParseSuback, ParseResult
<1>7. Written(m) = FormatFrame(m.type, 0, b)
  BY <1>1 DEF Written, IdTypes, b
<1>8. ParseBody(m.type, 0, b) = ParseSuback(b)
  BY <1>1 DEF ParseBody, IdTypes
<1>9. Meant(m) = [id |-> m.id, return_code |-> m.return_code]
  BY <1>1 DEF Meant, IdTypes
<1>10. Understood(m, [type |-> m.type, flags |-> 0, fields |-> ParseBody(m.type, 0, b)])
  BY <1>1, <1>6, <1>8, <1>9 DEF Understood
<1>11. m.type \in DOMAIN PacketType
  BY <1>1 DEF PacketType
<1>12. Len(b) \in Lengths
  BY <1>5, SmallIsLength
<1> QED
  BY <1>5, <1>7, <1>10, <1>11, <1>12 DEF Readable, b

(* What carries only an identifier.                                         *)
LEMMA IdReadable ==
    ASSUME NEW m \in [type : IdTypes, id : Shorts]
    PROVE  Readable(m, IdFlags(m.type), FormatId(m))
<1> DEFINE b == FormatId(m)
<1>1. m.type \in IdTypes /\ m.id \in Shorts
  OBVIOUS
<1>2. b \in Seq(Byte) /\ Len(b) = 2
  BY <1>1, ShortWritten DEF FormatId
<1>3. ParseId(b) = [ret |-> 2, id |-> m.id]
  BY <1>1, IdComesBack
<1>4. IdFlags(m.type) \in 0..15
  BY DEF IdFlags, QosToFlags
<1> HIDE DEF b
<1>5. Written(m) = FormatFrame(m.type, IdFlags(m.type), b)
  BY <1>1 DEF Written, IdTypes, b
<1>6. ParseBody(m.type, IdFlags(m.type), b) = ParseId(b)
  BY <1>1 DEF ParseBody, IdTypes
<1>7. Meant(m) = [id |-> m.id]
  BY <1>1 DEF Meant, IdTypes
<1>8. Understood(m, [type |-> m.type, flags |-> IdFlags(m.type),
                     fields |-> ParseBody(m.type, IdFlags(m.type), b)])
  <2>1. m.type # "PUBLISH"
    BY <1>1 DEF IdTypes
  <2> QED
    BY <1>3, <1>6, <1>7, <2>1 DEF Understood
<1>9. m.type \in DOMAIN PacketType
  BY <1>1 DEF PacketType, IdTypes
<1>10. Len(b) \in Lengths
  BY <1>2, SmallIsLength
<1> QED
  BY <1>2, <1>4, <1>5, <1>8, <1>9, <1>10 DEF Readable, b

(* What has no body.                                                        *)
LEMMA EmptyReadable ==
    ASSUME NEW m \in [type : {"PINGREQ", "PINGRESP", "DISCONNECT"}]
    PROVE  Readable(m, 0, <<>>)
<1>1. m.type \in {"PINGREQ", "PINGRESP", "DISCONNECT"}
  OBVIOUS
<1>2. <<>> \in Seq(Byte) /\ Len(<<>>) = 0
  BY EmptySeq
<1>3. Written(m) = FormatFrame(m.type, 0, <<>>)
  BY <1>1 DEF Written, IdTypes
<1>4. ParseBody(m.type, 0, <<>>) = [ret |-> 0]
  BY <1>1 DEF ParseBody, IdTypes
<1>5. Meant(m) = [ret |-> 0]
  BY <1>1 DEF Meant, IdTypes
<1>6. Understood(m, [type |-> m.type, flags |-> 0, fields |-> ParseBody(m.type, 0, <<>>)])
  BY <1>1, <1>4, <1>5 DEF Understood
<1>7. m.type \in DOMAIN PacketType
  BY <1>1 DEF PacketType
<1>8. 0 \in Lengths
  BY SmallIsLength
<1> QED
  BY <1>2, <1>3, <1>6, <1>7, <1>8 DEF Readable

(* SUBSCRIBE.                                                               *)
LEMMA SubscribeReadable ==
    ASSUME NEW m \in [type : {"SUBSCRIBE"}, id : Shorts, topic : ShortTexts, qos : Byte]
    PROVE  Readable(m, QosToFlags(1), FormatSubscribe(m))
<1> DEFINE b == FormatSubscribe(m)
<1>1. m.type = "SUBSCRIBE" /\ m.id \in Shorts /\ m.topic \in ShortTexts /\ m.qos \in Byte
  OBVIOUS
<1>2. /\ Len(b) = EvalSubscribe(m)
      /\ ParseSubscribe(b) =
            [ret |-> EvalSubscribe(m), id |-> m.id, topic |-> m.topic, qos |-> m.qos]
  BY <1>1, SubscribeComesBack
<1>3. b \in Seq(Byte)
  <2>1. PutShort(m.id) \in Seq(Byte) /\ PutString(m.topic) \in Seq(Byte) /\ <<m.qos>> \in Seq(Byte)
    BY <1>1, ShortWritten, StringWritten
  <2> QED
    BY <2>1, Joined DEF FormatSubscribe
<1>4. EvalSubscribe(m) \in Nat /\ EvalSubscribe(m) < 400000
  BY <1>1, SmallIsLength, SMT DEF EvalSubscribe, StringSize
<1>5. QosToFlags(1) \in 0..15
  BY DEF QosToFlags
<1> HIDE DEF b
<1>6. Written(m) = FormatFrame(m.type, QosToFlags(1), b)
  BY <1>1, <1>2 DEF Written, FormatFrame, IdTypes, b
<1>7. ParseBody(m.type, QosToFlags(1), b) = ParseSubscribe(b)
  BY <1>1 DEF ParseBody, IdTypes
<1>8. Meant(m) = [id |-> m.id, topic |-> m.topic, qos |-> m.qos]
  BY <1>1 DEF Meant, IdTypes
<1>9. Understood(m, [type |-> m.type, flags |-> QosToFlags(1),
                     fields |-> ParseBody(m.type, QosToFlags(1), b)])
  BY <1>1, <1>2, <1>4, <1>7, <1>8 DEF Understood
<1>10. m.type \in DOMAIN PacketType
  BY <1>1 DEF PacketType
<1>11. Len(b) \in Lengths
  BY <1>2, <1>4, SmallIsLength
<1> QED
  BY <1>3, <1>5, <1>6, <1>9, <1>10, <1>11 DEF Readable, b

(* UNSUBSCRIBE.                                                             *)
LEMMA UnsubscribeReadable ==
    ASSUME NEW m \in [type : {"UNSUBSCRIBE"}, id : Shorts, topic : ShortTexts]
    PROVE  Readable(m, QosToFlags(1), FormatUnsubscribe(m))
<1> DEFINE n == PutShort(m.id)
           s == PutString(m.topic)
           b == FormatUnsubscribe(m)
<1>1. m.type = "UNSUBSCRIBE" /\ m.id \in Shorts /\ m.topic \in ShortTexts
  OBVIOUS
<1>2. n \in Seq(Byte) /\ Len(n) = 2
  BY <1>1, ShortWritten
<1>3. s \in Seq(Byte) /\ Len(s) = 2 + Len(m.topic) /\ Len(m.topic) \in Nat /\ Len(m.topic) < 65536
  BY <1>1, StringWritten, SmallIsLength
<1>4. b = n \o s
  BY DEF FormatUnsubscribe
<1>5. <<>> \in Seq(Byte) /\ (n \o s) \o <<>> = n \o s
  BY <1>2, <1>3, Joined, EmptySeq, ConcatEmptySeq
<1>6. GetString(b, 2) = m.topic /\ AfterString(b, 2) = 2 + Len(s)
  <2>1. /\ GetString((n \o s) \o <<>>, Len(n)) = m.topic
        /\ AfterString((n \o s) \o <<>>, Len(n)) = Len(n) + Len(s)
    BY <1>1, <1>2, <1>5, StringAt
  <2> QED
    BY <1>2, <1>4, <1>5, <2>1
<1>7. GetShort(b, 0) = m.id
  BY <1>1, <1>3, <1>4, ShortFirst
<1>8. b \in Seq(Byte) /\ Len(b) = 4 + Len(m.topic)
  <2> HIDE DEF n, s, b
  <2>1. n \o s \in Seq(Byte) /\ Len(n \o s) = Len(n) + Len(s)
    <3>1. n \in Seq(Byte) /\ s \in Seq(Byte)
      BY <1>2, <1>3
    <3> QED
      BY <3>1, Joined
  <2> QED
    BY <1>2, <1>3, <1>4, <2>1
<1>9. EvalUnsubscribe(m) = Len(b)
  BY <1>3, <1>8 DEF EvalUnsubscribe, StringSize
<1>10. QosToFlags(1) \in 0..15
  BY DEF QosToFlags
<1> HIDE DEF n, s, b
<1>11. ParseUnsubscribe(b) = [ret |-> Len(b), id |-> m.id, topic |-> m.topic]
  BY <1>3, <1>6, <1>7, <1>8 DEF ParseUnsubscribe, ParseResult
<1>12. Written(m) = FormatFrame(m.type, QosToFlags(1), b)
  BY <1>1, <1>9 DEF Written, FormatFrame, IdTypes, b
<1>13. ParseBody(m.type, QosToFlags(1), b) = ParseUnsubscribe(b)
  BY <1>1 DEF ParseBody, IdTypes
<1>14. Meant(m) = [id |-> m.id, topic |-> m.topic]
  BY <1>1 DEF Meant, IdTypes
<1>15. Understood(m, [type |-> m.type, flags |-> QosToFlags(1),
                      fields |-> ParseBody(m.type, QosToFlags(1), b)])
  BY <1>1, <1>3, <1>8, <1>11, <1>13, <1>14 DEF Understood
<1>16. m.type \in DOMAIN PacketType
  BY <1>1 DEF PacketType
<1>17. Len(b) \in Lengths
  <2>1. Len(b) \in Nat /\ Len(b) < 400000
    BY <1>3, <1>8, SMT
  <2> QED
    BY <2>1, SmallIsLength
<1> QED
  BY <1>8, <1>10, <1>12, <1>15, <1>16, <1>17 DEF Readable, b

(* The flags of a publication.                                              *)
LEMMA PublishFlagsTold ==
    ASSUME NEW m, m.qos \in 0..3, m.retain \in BOOLEAN, m.dup \in BOOLEAN
    PROVE  LET f == PublishFlags(m)
           IN  /\ f \in 0..15 /\ QosFromFlags(f) = m.qos
               /\ Has(f, 1) = m.retain /\ Has(f, 8) = m.dup
<1> DEFINE r == IF m.retain THEN 1 ELSE 0
           d == IF m.dup THEN 1 ELSE 0
           q == m.qos
           f == 2 * q + r + 8 * d
<1>1. r \in 0..1 /\ d \in 0..1 /\ q \in 0..3 /\ (r = 1 <=> m.retain) /\ (d = 1 <=> m.dup)
  OBVIOUS
<1>2. PublishFlags(m) = f
  BY <1>1 DEF PublishFlags, QosToFlags, Flag
<1> HIDE DEF r, d, q
<1>3. f \in 0..15 /\ (f \div 2) % 4 = q /\ (f \div 1) % 2 = r /\ (f \div 8) % 2 = d
  BY <1>1
<1> HIDE DEF f
<1>4. Has(f, 1) = m.retain /\ Has(f, 8) = m.dup
  <2>1. Has(f, 1) <=> m.retain
    BY <1>1, <1>3 DEF Has
  <2>2. Has(f, 8) <=> m.dup
    BY <1>1, <1>3 DEF Has
  <2>3. Has(f, 1) \in BOOLEAN /\ Has(f, 8) \in BOOLEAN
    BY DEF Has
  <2> QED
    BY <2>1, <2>2, <2>3
<1>5. QosFromFlags(f) = m.qos
  BY <1>3 DEF QosFromFlags, q
<1> QED
  BY <1>2, <1>3, <1>4, <1>5

(* PUBLISH.                                                                 *)
LEMMA PublishReadable ==
    ASSUME NEW m \in PublishCalls
    PROVE  Readable(m, PublishFlags(m), FormatPublish(m))
<1> DEFINE b == FormatPublish(m)
           f == PublishFlags(m)
<1>1. /\ m.type = "PUBLISH" /\ m.qos \in 0..3 /\ m.id \in Shorts
      /\ m.topic \in ShortTexts /\ m.payload \in ShortTexts
      /\ m.retain \in BOOLEAN /\ m.dup \in BOOLEAN
  BY DEF PublishCalls
<1>2. /\ Len(b) = EvalPublish(m)
      /\ ParsePublish(b, m.qos) =
            [id |-> IF m.qos > 0 THEN m.id ELSE NULL, topic |-> m.topic, payload |-> m.payload]
  BY <1>1, PublishComesBack
<1>3. b \in Seq(Byte)
  <2> DEFINE s == PutString(m.topic)
             n == IF m.qos > 0 THEN PutShort(m.id) ELSE <<>>
             d == PutData(m.payload, Len(m.payload))
  <2>1. s \in Seq(Byte) /\ n \in Seq(Byte) /\ d \in Seq(Byte)
    BY <1>1, ShortWritten, StringWritten, SmallIsLength, EmptySeq
  <2>2. b = (s \o n) \o d
    BY DEF FormatPublish
  <2> HIDE DEF s, n, d
  <2> QED
    BY <2>1, <2>2, Joined
<1>4. EvalPublish(m) \in Nat /\ EvalPublish(m) < 400000
  <2>1. /\ Len(m.topic) \in Nat /\ Len(m.topic) < 65536
        /\ Len(m.payload) \in Nat /\ Len(m.payload) < 65536
    BY <1>1, SmallIsLength
  <2>2. Flag(m.qos > 0, 2) \in {0, 2}
    BY DEF Flag
  <2> QED
    BY <2>1, <2>2, SMT DEF EvalPublish, StringSize
<1>5. f \in 0..15 /\ QosFromFlags(f) = m.qos /\ Has(f, 1) = m.retain /\ Has(f, 8) = m.dup
  BY <1>1, PublishFlagsTold
<1> HIDE DEF b, f
<1>6. Written(m) = FormatFrame(m.type, f, b)
  BY <1>1, <1>2 DEF Written, FormatFrame, IdTypes, b, f
<1>7. ParseBody(m.type, f, b) = ParsePublish(b, m.qos)
  BY <1>1, <1>5 DEF ParseBody, IdTypes
<1>8. Meant(m) = [id |-> IF m.qos = 0 THEN NULL ELSE m.id, topic |-> m.topic,
                  payload |-> m.payload]
  BY <1>1 DEF Meant, IdTypes
<1>9. Understood(m, [type |-> m.type, flags |-> f, fields |-> ParseBody(m.type, f, b)])
  BY <1>1, <1>2, <1>5, <1>7, <1>8 DEF Understood
<1>10. m.type \in DOMAIN PacketType
  BY <1>1 DEF PacketType
<1>11. Len(b) \in Lengths
  BY <1>2, <1>4, SmallIsLength
<1> QED
  BY <1>3, <1>5, <1>6, <1>9, <1>10, <1>11 DEF Readable, b, f

(* CONNECT.                                                                 *)
LEMMA ConnectReadable ==
    ASSUME NEW m \in ConnectCalls, NULL \notin ShortTexts
    PROVE  Readable(m, 0, FormatConnect(m))
<1> DEFINE b == FormatConnect(m)
<1>1. /\ m.type = "CONNECT" /\ m.client_id \in ShortTexts
      /\ m.will_topic \in ShortTexts \cup {NULL} /\ m.will_msg \in ShortTexts \cup {NULL}
      /\ m.user_name \in ShortTexts \cup {NULL} /\ m.password \in ShortTexts \cup {NULL}
      /\ m.will_msg_len = (IF m.will_msg = NULL THEN 0 ELSE Len(m.will_msg))
      /\ m.password_len = (IF m.password = NULL THEN 0 ELSE Len(m.password))
  BY DEF ConnectCalls
<1> DEFINE parsed ==
                [ret           |-> EvalConnect(m),
                 clean_session |-> m.clean_session,
                 will_retain   |-> HasWill(m) /\ m.will_retain,
                 will_qos      |-> IF HasWill(m) THEN m.will_qos ELSE 0,
                 keep_alive    |-> m.keep_alive,
                 client_id     |-> m.client_id,
                 will_topic    |-> m.will_topic,
                 will_msg      |-> m.will_msg,
                 user_name     |-> m.user_name,
                 password      |-> m.password]
<1>2. b \in Seq(Byte) /\ Len(b) = EvalConnect(m) /\ ParseConnect(b) = parsed
  BY ConnectComesBack
<1>3. EvalConnect(m) \in Nat /\ EvalConnect(m) < 400000
  <2> DEFINE t == OptionalSize(m.will_topic # NULL,
                               IF m.will_topic = NULL THEN 0 ELSE Len(m.will_topic))
             g == OptionalSize(m.will_msg_len > 0, m.will_msg_len)
             u == OptionalSize(m.user_name # NULL,
                               IF m.user_name = NULL THEN 0 ELSE Len(m.user_name))
             p == OptionalSize(m.password_len > 0, m.password_len)
  <2>1. \A s \in ShortTexts : Len(s) \in Nat /\ Len(s) < 65536
    BY SmallIsLength
  <2>2. t \in Nat /\ t < 65538
    BY <1>1, <2>1, SMT DEF OptionalSize
  <2>3. u \in Nat /\ u < 65538
    BY <1>1, <2>1, SMT DEF OptionalSize
  <2>4. g \in Nat /\ g < 65538
    <3>1. m.will_msg_len \in Nat /\ m.will_msg_len < 65536
      BY <1>1, <2>1, SMT
    <3> QED
      BY <3>1, SMT DEF OptionalSize
  <2>5. p \in Nat /\ p < 65538
    <3>1. m.password_len \in Nat /\ m.password_len < 65536
      BY <1>1, <2>1, SMT
    <3> QED
      BY <3>1, SMT DEF OptionalSize
  <2>6. Len(m.client_id) \in Nat /\ Len(m.client_id) < 65536
    BY <1>1, <2>1
  <2>7. EvalConnect(m) = 10 + (2 + Len(m.client_id)) + t + g + u + p
    BY DEF EvalConnect, StringSize
  <2> HIDE DEF t, g, u, p
  <2> QED
    BY <2>2, <2>3, <2>4, <2>5, <2>6, <2>7, SMT
<1> HIDE DEF b
<1>4. Written(m) = FormatFrame(m.type, 0, b)
  BY <1>1, <1>2 DEF Written, FormatFrame, IdTypes, b
<1>5. ParseBody(m.type, 0, b) = ParseConnect(b)
  BY <1>1 DEF ParseBody, IdTypes
<1>6. Meant(m) = [clean_session |-> m.clean_session, keep_alive |-> m.keep_alive,
                  will_retain |-> HasWill(m) /\ m.will_retain,
                  will_qos |-> IF HasWill(m) THEN m.will_qos ELSE 0,
                  client_id |-> m.client_id, will_topic |-> m.will_topic,
                  will_msg |-> m.will_msg, user_name |-> m.user_name, password |-> m.password]
  BY <1>1 DEF Meant, IdTypes
<1>7. Understood(m, [type |-> m.type, flags |-> 0, fields |-> ParseBody(m.type, 0, b)])
  <2>1. \A field \in DOMAIN Meant(m) : parsed[field] = Meant(m)[field]
    BY <1>6
  <2>2. parsed.ret >= 0
    BY <1>3
  <2> HIDE DEF parsed
  <2> QED
    BY <1>1, <1>2, <1>5, <2>1, <2>2 DEF Understood
<1>8. m.type \in DOMAIN PacketType
  BY <1>1 DEF PacketType
<1>9. Len(b) \in Lengths
  BY <1>2, <1>3, SmallIsLength
<1> QED
  BY <1>2, <1>4, <1>7, <1>8, <1>9 DEF Readable, b

(* Whatever the call, the frame it writes is read as what was called        *)
(* (stream_mqtt.c, with the formats and the parsers of mqtt.c).             *)
THEOREM CallsReadable ==
    ASSUME NEW m \in PossibleCalls, NULL \notin ShortTexts
    PROVE  \E flags, body : Readable(m, flags, body)
<1>1. CASE m \in ConnectCalls
  BY <1>1, ConnectReadable
<1>2. CASE m \in PublishCalls
  BY <1>2, PublishReadable
<1>3. CASE m \in [type : {"CONNACK"}, session_present : BOOLEAN, return_code : Byte]
  BY <1>3, ConnackReadable
<1>4. CASE m \in [type : {"SUBSCRIBE"}, id : Shorts, topic : ShortTexts, qos : Byte]
  BY <1>4, SubscribeReadable
<1>5. CASE m \in [type : {"UNSUBSCRIBE"}, id : Shorts, topic : ShortTexts]
  BY <1>5, UnsubscribeReadable
<1>6. CASE m \in [type : {"SUBACK"}, id : Shorts, return_code : Byte]
  BY <1>6, SubackReadable
<1>7. CASE m \in [type : IdTypes, id : Shorts]
  BY <1>7, IdReadable
<1>8. CASE m \in [type : {"PINGREQ", "PINGRESP", "DISCONNECT"}]
  BY <1>8, EmptyReadable
<1> QED
  BY <1>1, <1>2, <1>3, <1>4, <1>5, <1>6, <1>7, <1>8 DEF PossibleCalls

(* The element of a concatenation.                                          *)
LEMMA JoinedAt ==
    ASSUME NEW s \in Seq(Byte), NEW t \in Seq(Byte), NEW i \in 1 .. Len(s) + Len(t)
    PROVE  (s \o t)[i] = IF i <= Len(s) THEN s[i] ELSE t[i - Len(s)]
  BY ConcatProperties

(* Sequences with the same elements are the same.                           *)
LEMMA SameBytes ==
    ASSUME NEW s \in Seq(Byte), NEW t \in Seq(Byte), Len(s) = Len(t),
           \A i \in 1 .. Len(s) : s[i] = t[i]
    PROVE  s = t
  BY SeqEqual

(* What Front and Rest give.                                                *)
LEMMA RestIs ==
    ASSUME NEW s \in Seq(Byte), NEW n \in 0 .. Len(s)
    PROVE  /\ Rest(s, n) \in Seq(Byte) /\ Len(Rest(s, n)) = Len(s) - n
           /\ \A i \in 1 .. Len(s) - n : Rest(s, n)[i] = s[n + i]
  BY SubSeqProperties, LenProperties DEF Rest

LEMMA FrontIs ==
    ASSUME NEW s \in Seq(Byte), NEW n \in 0 .. Len(s)
    PROVE  /\ Front(s, n) \in Seq(Byte) /\ Len(Front(s, n)) = n
           /\ \A i \in 1 .. n : Front(s, n)[i] = s[i]
  BY SubSeqProperties, LenProperties DEF Front

(* Cut and joined again.                                                    *)
LEMMA FrontAndRest ==
    ASSUME NEW s \in Seq(Byte), NEW n \in 0 .. Len(s)
    PROVE  Front(s, n) \o Rest(s, n) = s
<1> DEFINE f == Front(s, n)
           r == Rest(s, n)
<1>1. f \in Seq(Byte) /\ Len(f) = n /\ \A i \in 1 .. n : f[i] = s[i]
  BY FrontIs
<1>2. r \in Seq(Byte) /\ Len(r) = Len(s) - n /\ \A i \in 1 .. Len(s) - n : r[i] = s[n + i]
  BY RestIs
<1> HIDE DEF f, r
<1>3. f \o r \in Seq(Byte) /\ Len(f \o r) = Len(f) + Len(r)
  BY <1>1, <1>2, Joined
<1>4. Len(s) \in Nat /\ n \in Nat /\ n <= Len(s)
  BY LenProperties
<1>5. ASSUME NEW i \in 1 .. Len(f \o r)  PROVE (f \o r)[i] = s[i]
  <2>1. i \in 1 .. Len(f) + Len(r)
    BY <1>3
  <2>2. (f \o r)[i] = IF i <= Len(f) THEN f[i] ELSE r[i - Len(f)]
    BY <1>1, <1>2, <2>1, JoinedAt
  <2>3. CASE i <= Len(f)
    BY <1>1, <1>4, <2>1, <2>2, <2>3
  <2>4. CASE i > Len(f)
    <3>1. i - n \in 1 .. Len(s) - n
      BY <1>1, <1>2, <1>4, <2>1, <2>4
    <3>2. r[i - n] = s[n + (i - n)]
      BY <1>2, <3>1
    <3> QED
      BY <1>1, <1>4, <2>1, <2>2, <2>4, <3>2
  <2> QED
    BY <1>1, <1>4, <2>1, <2>3, <2>4
<1>6. Len(f \o r) = Len(s)
  BY <1>1, <1>2, <1>3, <1>4
<1> QED
  BY <1>3, <1>5, <1>6, SameBytes DEF f, r

(* What is cut off the front is not missed behind.                          *)
LEMMA RestOfJoined ==
    ASSUME NEW s \in Seq(Byte), NEW t \in Seq(Byte), NEW n \in 0 .. Len(s)
    PROVE  Rest(s \o t, n) = Rest(s, n) \o t
<1> DEFINE r == Rest(s, n)
           b == s \o t
           q == Rest(b, n)
<1>1. Len(s) \in Nat /\ Len(t) \in Nat /\ n \in Nat /\ n <= Len(s)
  BY LenProperties
<1>2. r \in Seq(Byte) /\ Len(r) = Len(s) - n /\ \A i \in 1 .. Len(s) - n : r[i] = s[n + i]
  BY RestIs
<1>3. b \in Seq(Byte) /\ Len(b) = Len(s) + Len(t)
  BY Joined
<1>4. \A i \in 1 .. Len(s) + Len(t) : b[i] = IF i <= Len(s) THEN s[i] ELSE t[i - Len(s)]
  BY JoinedAt
<1> HIDE DEF r, b
<1>5. q \in Seq(Byte) /\ Len(q) = Len(b) - n /\ \A i \in 1 .. Len(b) - n : q[i] = b[n + i]
  <2>1. n \in 0 .. Len(b)
    BY <1>1, <1>3
  <2> QED
    BY <1>3, <2>1, RestIs
<1> HIDE DEF q
<1>6. r \o t \in Seq(Byte) /\ Len(r \o t) = Len(r) + Len(t)
  BY <1>2, Joined
<1>7. Len(q) = Len(r \o t)
  BY <1>1, <1>2, <1>3, <1>5, <1>6
<1>8. ASSUME NEW i \in 1 .. Len(q)  PROVE q[i] = (r \o t)[i]
  <2>1. i \in 1 .. Len(r) + Len(t) /\ n + i \in 1 .. Len(s) + Len(t) /\ i \in 1 .. Len(b) - n
    BY <1>1, <1>2, <1>3, <1>5, <1>6, <1>7
  <2>2. (r \o t)[i] = IF i <= Len(r) THEN r[i] ELSE t[i - Len(r)]
    BY <1>2, <2>1, JoinedAt
  <2>3. q[i] = IF n + i <= Len(s) THEN s[n + i] ELSE t[(n + i) - Len(s)]
    BY <1>4, <1>5, <2>1
  <2>4. CASE i <= Len(r)
    BY <1>1, <1>2, <2>1, <2>2, <2>3, <2>4
  <2>5. CASE i > Len(r)
    <3>1. (n + i) - Len(s) = i - Len(r)
      BY <1>1, <1>2, <2>1
    <3> QED
      BY <1>1, <1>2, <2>1, <2>2, <2>3, <2>5, <3>1
  <2> QED
    BY <1>1, <1>2, <2>1, <2>4, <2>5
<1>9. q = r \o t
  BY <1>5, <1>6, <1>7, <1>8, SameBytes
<1> QED
  BY <1>9 DEF q, r, b

(* A length that is not asked more bytes for is the same with more bytes.   *)
LEMMA LengthStable ==
    ASSUME NEW b \in Seq(Byte), NEW t \in Seq(Byte), DecodeLength(b).ret # 0
    PROVE  DecodeLength(b \o t) = DecodeLength(b)
<1> DEFINE d == b \o t
           ends(x, i) == i <= Len(x) /\ x[i] < 128 /\ \A j \in 1 .. i - 1 : x[j] >= 128
<1>1. Len(b) \in Nat /\ Len(t) \in Nat /\ d \in Seq(Byte) /\ Len(d) = Len(b) + Len(t)
  BY Joined
<1>2. \A i \in 1 .. Len(b) : d[i] = b[i] /\ b[i] \in 0..255
  <2>1. \A i \in 1 .. Len(b) + Len(t) : d[i] = IF i <= Len(b) THEN b[i] ELSE t[i - Len(b)]
    BY JoinedAt
  <2>2. \A i \in 1 .. Len(b) : b[i] \in 0..255
    BY ElementOfSeq DEF Byte
  <2> QED
    BY <1>1, <2>1, <2>2
<1> HIDE DEF d
<1>a. \A v \in 0..255 : ~(v >= 128 /\ v < 128)
  OBVIOUS
<1>3. \A x \in Seq(Byte) : \A i : i \in LastDigits(x) <=> i \in 1..4 /\ ends(x, i)
  BY DEF LastDigits, MaxLengthSize
<1>4. CASE LastDigits(b) # {}
  <2>1. PICK n \in LastDigits(b) : TRUE
    BY <1>4
  <2>2. n \in 1..4 /\ ends(b, n)
    BY <1>3, <2>1
  <2>3. ends(d, n)
    BY <1>1, <1>2, <2>2
  <2>a. n \in 1 .. Len(b) /\ b[n] \in 0..255 /\ d[n] = b[n] /\ b[n] < 128
    BY <1>1, <1>2, <2>2
  <2>4. \A i \in 1..4 : ends(b, i) => i = n
    <3> SUFFICES ASSUME NEW i \in 1..4, ends(b, i), i # n  PROVE FALSE
      OBVIOUS
    <3>1. CASE i < n
      <4>1. b[i] >= 128
        BY <2>2, <3>1
      <4>2. i \in 1 .. Len(b) /\ b[i] \in 0..255 /\ b[i] < 128
        BY <1>1, <1>2, <2>a, <3>1
      <4> QED
        BY <1>a, <4>1, <4>2, Zenon
    <3>2. CASE i > n
      <4>1. n \in 1 .. i - 1
        BY <2>2, <3>2
      <4>2. b[n] >= 128
        BY <4>1
      <4> QED
        BY <1>a, <2>a, <4>2, Zenon
    <3> QED
      BY <2>2, <3>1, <3>2
  <2>5. \A i \in 1..4 : ends(d, i) => i = n
    <3> SUFFICES ASSUME NEW i \in 1..4, ends(d, i), i # n  PROVE FALSE
      OBVIOUS
    <3>1. CASE i < n
      <4>1. b[i] >= 128
        BY <2>2, <3>1
      <4>2. i \in 1 .. Len(b) /\ b[i] \in 0..255 /\ d[i] = b[i] /\ d[i] < 128
        BY <1>1, <1>2, <2>a, <3>1
      <4> QED
        BY <1>a, <4>1, <4>2, Zenon
    <3>2. CASE i > n
      <4>1. n \in 1 .. i - 1
        BY <2>2, <3>2
      <4>2. d[n] >= 128
        BY <4>1
      <4> QED
        BY <1>a, <2>a, <4>2, Zenon
    <3> QED
      BY <2>2, <3>1, <3>2
  <2>6. LastDigits(b) = {n} /\ LastDigits(d) = {n}
    <3> HIDE DEF ends
    <3> QED
      BY <1>1, <1>3, <2>2, <2>3, <2>4, <2>5
  <2>7. \A i \in 1..4 : Digit(d, n, i) = Digit(b, n, i)
    BY <1>1, <1>2, <2>2 DEF Digit
  <2>8. (CHOOSE i \in {n} : TRUE) = n
    OBVIOUS
  <2> QED
    BY <2>6, <2>7, <2>8 DEF DecodeLength, d
<1>5. CASE LastDigits(b) = {}
  <2>1. DecodeLength(b) = [ret |-> IF Len(b) <= 4 THEN 0 ELSE -1, value |-> 0]
    BY <1>5 DEF DecodeLength, MaxLengthSize
  <2>2. Len(b) > 4
    BY <1>1, <2>1
  <2>3. \A i \in 1..4 : d[i] = b[i]
    BY <1>1, <1>2, <2>2
  <2>4. \A i \in 1..4 : ~ends(b, i)
    <3> HIDE DEF ends
    <3> QED
      BY <1>3, <1>5
  <2>5. \A i \in 1..4 : ~ends(d, i)
    BY <1>1, <2>2, <2>3, <2>4
  <2>6. LastDigits(d) = {}
    <3> HIDE DEF ends
    <3> QED
      BY <1>1, <1>3, <2>5
  <2>7. DecodeLength(d) = [ret |-> IF Len(d) <= 4 THEN 0 ELSE -1, value |-> 0]
    BY <2>6 DEF DecodeLength, MaxLengthSize
  <2>8. Len(d) > 4
    BY <1>1, <2>2
  <2>9. DecodeLength(d) = [ret |-> -1, value |-> 0] /\ DecodeLength(b) = [ret |-> -1, value |-> 0]
    BY <1>1, <2>1, <2>2, <2>7, <2>8
  <2> QED
    BY <2>9 DEF d
<1> QED
  BY <1>4, <1>5

(* A length is a natural number of at most four digits.                     *)
LEMMA LengthIsNat ==
    ASSUME NEW b \in Seq(Byte)
    PROVE  /\ DecodeLength(b).ret \in -1..4 /\ DecodeLength(b).value \in Nat
<1>1. CASE LastDigits(b) # {}
  <2> DEFINE n == CHOOSE i \in LastDigits(b) : TRUE
  <2>1. n \in LastDigits(b)
    BY <1>1
  <2> HIDE DEF n
  <2>2. n \in 1..4 /\ n <= Len(b) /\ Len(b) \in Nat
    BY <2>1, LenProperties DEF LastDigits, MaxLengthSize
  <2>3. \A i \in 1..Len(b) : b[i] \in Nat
    <3>1. \A i \in 1..Len(b) : b[i] \in Byte
      BY ElementOfSeq
    <3> QED
      BY <3>1, ByteIsNat
  <2>4. /\ Digit(b, n, 1) \in Nat /\ Digit(b, n, 2) \in Nat
        /\ Digit(b, n, 3) \in Nat /\ Digit(b, n, 4) \in Nat
    <3>1. Weight[1] = 1 /\ Weight[2] = 128 /\ Weight[3] = 16384 /\ Weight[4] = 2097152
      BY DEF Weight
    <3>2. ASSUME NEW i \in 1..4, i <= n  PROVE b[i] \in Nat
      BY <2>2, <2>3, <3>2
    <3>3. \A v \in Nat : /\ (v % 128) * 1 \in Nat /\ (v % 128) * 128 \in Nat
                         /\ (v % 128) * 16384 \in Nat /\ (v % 128) * 2097152 \in Nat
      BY SMT
    <3> QED
      BY <3>1, <3>2, <3>3, SMT DEF Digit
  <2>5. DecodeLength(b) = [ret |-> n, value |-> Digit(b, n, 1) + Digit(b, n, 2)
                                                + Digit(b, n, 3) + Digit(b, n, 4)]
    BY <1>1 DEF DecodeLength, n
  <2> QED
    BY <2>2, <2>4, <2>5
<1>2. CASE LastDigits(b) = {}
  BY <1>2 DEF DecodeLength
<1> QED
  BY <1>1, <1>2

(* A frame that was found is whole.                                         *)
LEMMA FrameIsWhole ==
    ASSUME NEW s \in Seq(Byte), ParseFrame(s).ret > 0
    PROVE  ParseFrame(s).frame_length \in 1 .. Len(s)
<1> DEFINE b == Rest(s, 1)
           length == DecodeLength(b)
           total == 1 + length.ret + length.value
<1>1. Len(s) \in Nat /\ ~(Len(s) < 2)
  BY LenProperties DEF ParseFrame
<1>2. b \in Seq(Byte)
  BY <1>1, RestIs
<1>3. length.ret \in -1..4 /\ length.value \in Nat
  BY <1>2, LengthIsNat
<1> HIDE DEF b
<1>4. /\ ParseFrame(s).ret = IF length.ret <= 0 THEN length.ret
                             ELSE IF Len(s) < total THEN 0 ELSE 1 + length.ret
      /\ ParseFrame(s).frame_length = IF length.ret = 0 THEN Len(s) + 1 ELSE total
  BY <1>1 DEF ParseFrame, b
<1> HIDE DEF length
<1> QED
  BY <1>1, <1>3, <1>4

(* Bytes that arrive later do not change what was found, or that nothing    *)
(* can be found (stream_mqtt_peek_frame calls the parser after each read).  *)
THEOREM FrameStable ==
    ASSUME NEW s \in Seq(Byte), NEW t \in Seq(Byte), ParseFrame(s).ret # 0
    PROVE  ParseFrame(s \o t) = ParseFrame(s)
<1> DEFINE b == Rest(s, 1)
           d == s \o t
           len(x) == DecodeLength(Rest(x, 1))
           total(x) == 1 + len(x).ret + len(x).value
           parsed(x) ==
              [ret |-> IF len(x).ret <= 0 THEN len(x).ret
                       ELSE IF Len(x) < total(x) THEN 0 ELSE 1 + len(x).ret,
               type |-> x[1] \div 16, flags |-> x[1] % 16,
               frame_length |-> IF len(x).ret = 0 THEN Len(x) + 1 ELSE total(x)]
<1>1. /\ Len(s) \in Nat /\ Len(s) >= 2 /\ Len(t) \in Nat
      /\ d \in Seq(Byte) /\ Len(d) = Len(s) + Len(t)
  <2>1. Len(s) \in Nat /\ Len(t) \in Nat /\ d \in Seq(Byte) /\ Len(d) = Len(s) + Len(t)
    BY Joined
  <2>2. ~(Len(s) < 2)
    BY DEF ParseFrame
  <2> QED
    BY <2>1, <2>2
<1>2. d[1] = s[1]
  <2>1. 1 \in 1 .. Len(s) + Len(t)
    BY <1>1
  <2> QED
    BY <1>1, <2>1, JoinedAt
<1>3. b \in Seq(Byte) /\ Rest(d, 1) = b \o t
  <2>1. 1 \in 0 .. Len(s)
    BY <1>1
  <2> QED
    BY <2>1, RestIs, RestOfJoined
<1>4. \A x : ~(Len(x) < 2) => ParseFrame(x) = parsed(x)
  BY DEF ParseFrame
<1>5. ParseFrame(s) = parsed(s) /\ ParseFrame(d) = parsed(d)
  <2>1. ~(Len(s) < 2) /\ ~(Len(d) < 2)
    BY <1>1
  <2> HIDE DEF parsed, d
  <2> QED
    BY <1>4, <2>1
<1>6. len(s).ret # 0
  <2>1. parsed(s).ret # 0
    BY <1>5
  <2> QED
    BY <2>1
<1>7. len(d) = len(s)
  <2>1. len(s) = DecodeLength(b) /\ len(d) = DecodeLength(b \o t)
    BY <1>3
  <2>2. DecodeLength(b).ret # 0
    BY <1>6
  <2> HIDE DEF b, d, len
  <2> QED
    BY <1>3, <2>1, <2>2, LengthStable
<1>8. len(s).ret \in -1..4 /\ len(s).value \in Nat
  BY <1>3, LengthIsNat
<1> DEFINE l == len(s)
<1>9. l.ret > 0 => ~(Len(s) < 1 + l.ret + l.value)
  <2>1. parsed(s).ret # 0
    BY <1>5
  <2>2. parsed(s).ret = IF l.ret <= 0 THEN l.ret
                        ELSE IF Len(s) < 1 + l.ret + l.value THEN 0 ELSE 1 + l.ret
    OBVIOUS
  <2> HIDE DEF parsed, l
  <2> QED
    BY <1>8, <2>1, <2>2 DEF l
<1>10. parsed(d) = parsed(s)
  <2>1. /\ parsed(s) = [ret |-> IF l.ret <= 0 THEN l.ret
                                ELSE IF Len(s) < 1 + l.ret + l.value THEN 0 ELSE 1 + l.ret,
                        type |-> s[1] \div 16, flags |-> s[1] % 16,
                        frame_length |-> IF l.ret = 0 THEN Len(s) + 1 ELSE 1 + l.ret + l.value]
        /\ parsed(d) = [ret |-> IF l.ret <= 0 THEN l.ret
                                ELSE IF Len(d) < 1 + l.ret + l.value THEN 0 ELSE 1 + l.ret,
                        type |-> s[1] \div 16, flags |-> s[1] % 16,
                        frame_length |-> IF l.ret = 0 THEN Len(d) + 1 ELSE 1 + l.ret + l.value]
    <3> HIDE DEF d, len
    <3> QED
      BY <1>2, <1>7
  <2>2. l.ret # 0 /\ l.ret \in -1..4 /\ l.value \in Nat
    BY <1>6, <1>8
  <2>3. l.ret > 0 => ~(Len(d) < 1 + l.ret + l.value)
    <3> HIDE DEF l, d
    <3> QED
      BY <1>1, <1>9, <2>2
  <2> HIDE DEF l, d, parsed
  <2> QED
    BY <1>9, <2>1, <2>2, <2>3
<1> HIDE DEF parsed
<1> QED
  BY <1>5, <1>10

-----------------------------------------------------------------------------
(* The bytes on their way.                                                  *)

(* Of the messages whose bytes are in cs, those of h+1 to due lie one behind *)
(* the other at the front of bytes; message i ends at cut[i].               *)
Laid(cut, bytes, cs, h, due) ==
    /\ cut \in [h .. due -> Nat]
    /\ cut[h] = 0
    /\ \A i, j \in h .. due : i <= j => cut[i] <= cut[j]
    /\ \A i \in h .. due : cut[i] <= Len(bytes)
    /\ \A i \in h + 1 .. due :
        /\ cut[i] = cut[i - 1] + Len(cs[i])
        /\ \A k \in 1 .. Len(cs[i]) : bytes[cut[i - 1] + k] = cs[i][k]

(* More bytes, and more calls, behind them change nothing.                  *)
LEMMA LaidGrows ==
    ASSUME NEW bytes \in Seq(Byte), NEW more \in Seq(Byte), NEW cs, NEW ds,
           NEW h \in Nat, NEW due \in Nat, h <= due,
           \A i \in 1 .. due : ds[i] = cs[i],
           \A i \in 1 .. due : cs[i] \in Seq(Byte),
           NEW cut, Laid(cut, bytes, cs, h, due)
    PROVE  Laid(cut, bytes \o more, ds, h, due)
<1> DEFINE b == bytes \o more
<1>1. Len(bytes) \in Nat /\ Len(more) \in Nat /\ b \in Seq(Byte) /\ Len(b) = Len(bytes) + Len(more)
  BY Joined
<1>2. \A i \in 1 .. Len(bytes) : b[i] = bytes[i]
  <2>1. \A i \in 1 .. Len(bytes) + Len(more) :
            b[i] = IF i <= Len(bytes) THEN bytes[i] ELSE more[i - Len(bytes)]
    BY JoinedAt
  <2> QED
    BY <1>1, <2>1
<1> HIDE DEF b
<1>3. /\ cut \in [h .. due -> Nat] /\ cut[h] = 0
      /\ \A i, j \in h .. due : i <= j => cut[i] <= cut[j]
      /\ \A i \in h .. due : cut[i] <= Len(bytes)
  BY DEF Laid
<1>4. \A i \in h .. due : cut[i] <= Len(b)
  <2> TAKE i \in h .. due
  <2>1. cut[i] \in Nat /\ cut[i] <= Len(bytes)
    BY <1>3
  <2> QED
    BY <1>1, <2>1
<1>5. ASSUME NEW i \in h + 1 .. due
      PROVE  /\ cut[i] = cut[i - 1] + Len(ds[i])
             /\ \A k \in 1 .. Len(ds[i]) : b[cut[i - 1] + k] = ds[i][k]
  <2> DEFINE w == cs[i]
  <2>1. i \in 1 .. due /\ i \in h .. due /\ i - 1 \in h .. due
    OBVIOUS
  <2>2. w \in Seq(Byte) /\ ds[i] = w
    BY <2>1
  <2>3. cut[i] = cut[i - 1] + Len(w)
        /\ \A k \in 1 .. Len(w) : bytes[cut[i - 1] + k] = w[k]
    BY DEF Laid
  <2>4. cut[i] \in Nat /\ cut[i - 1] \in Nat /\ cut[i] <= Len(bytes)
    BY <1>3, <2>1
  <2> HIDE DEF w
  <2>5. Len(w) \in Nat
    BY <2>2, LenProperties
  <2>6. ASSUME NEW k \in 1 .. Len(w)  PROVE b[cut[i - 1] + k] = w[k]
    <3>1. cut[i - 1] + k \in 1 .. Len(bytes)
      BY <1>1, <2>3, <2>4, <2>5
    <3> QED
      BY <1>2, <2>3, <3>1
  <2> QED
    BY <2>2, <2>3, <2>6
<1>6. Laid(cut, b, ds, h, due)
  BY <1>3, <1>4, <1>5 DEF Laid
<1> QED
  BY <1>6 DEF b

(* The bytes of one more call are laid behind the others.                   *)
LEMMA LaidMore ==
    ASSUME NEW bytes \in Seq(Byte), NEW cs, NEW h \in Nat, NEW due \in Nat, h <= due,
           \A i \in 1 .. due + 1 : cs[i] \in Seq(Byte),
           NEW cut, Laid(cut, bytes, cs, h, due), cut[due] = Len(bytes)
    PROVE  LET all == bytes \o cs[due + 1]
           IN  \E next : Laid(next, all, cs, h, due + 1) /\ next[due + 1] = Len(all)
<1> DEFINE w == cs[due + 1]
           b == bytes \o w
           next == [i \in h .. due + 1 |-> IF i <= due THEN cut[i] ELSE Len(b)]
<1>1. w \in Seq(Byte)
  <2>1. due + 1 \in 1 .. due + 1
    OBVIOUS
  <2> QED
    BY <2>1
<1>2. /\ Len(bytes) \in Nat /\ Len(w) \in Nat /\ b \in Seq(Byte) /\ Len(b) = Len(bytes) + Len(w)
      /\ \A k \in 1 .. Len(w) : b[Len(bytes) + k] = w[k]
  BY <1>1, Joined, BehindPrefix
<1>3. Laid(cut, b, cs, h, due)
  <2>1. \A i \in 1 .. due : cs[i] \in Seq(Byte)
    OBVIOUS
  <2> HIDE DEF w
  <2> QED
    BY <1>1, <2>1, LaidGrows
<1> HIDE DEF b, w
<1>4. /\ cut \in [h .. due -> Nat] /\ cut[h] = 0
      /\ \A i, j \in h .. due : i <= j => cut[i] <= cut[j]
      /\ \A i \in h .. due : cut[i] <= Len(b)
  BY <1>3 DEF Laid
<1>5. \A i \in h .. due : cut[i] \in Nat
  BY <1>4
<1>6. /\ \A i \in h .. due : next[i] = cut[i]
      /\ next[due + 1] = Len(b) /\ Len(b) \in Nat
  BY <1>2
<1>7. \A i \in h .. due + 1 : i \in h .. due \/ i = due + 1
  OBVIOUS
<1>8. next \in [h .. due + 1 -> Nat]
  BY <1>2, <1>5
<1> HIDE DEF next
<1>9. next[h] = 0 /\ \A i \in h .. due + 1 : next[i] <= Len(b)
  <2>1. h \in h .. due
    OBVIOUS
  <2>2. next[h] = 0
    BY <1>4, <1>6, <2>1
  <2>3. ASSUME NEW i \in h .. due + 1  PROVE next[i] <= Len(b)
    <3>1. CASE i \in h .. due
      BY <1>4, <1>6, <3>1
    <3>2. CASE i = due + 1
      BY <1>6, <3>2
    <3> QED
      BY <1>7, <3>1, <3>2
  <2> QED
    BY <2>2, <2>3
<1>10. \A i, j \in h .. due + 1 : i <= j => next[i] <= next[j]
  <2> TAKE i, j \in h .. due + 1
  <2> SUFFICES ASSUME i <= j  PROVE next[i] <= next[j]
    OBVIOUS
  <2>1. CASE j = due + 1
    BY <1>6, <1>9, <2>1
  <2>2. CASE j \in h .. due
    <3>1. i \in h .. due
      BY <2>2
    <3> QED
      BY <1>4, <1>6, <2>2, <3>1
  <2> QED
    BY <1>7, <2>1, <2>2
<1>11. ASSUME NEW i \in h + 1 .. due + 1
       PROVE  /\ next[i] = next[i - 1] + Len(cs[i])
              /\ \A k \in 1 .. Len(cs[i]) : b[next[i - 1] + k] = cs[i][k]
  <2>1. i - 1 \in h .. due
    OBVIOUS
  <2>2. CASE i = due + 1
    <3>1. next[i - 1] = Len(bytes)
      BY <1>6, <2>1, <2>2
    <3>2. cs[i] = w
      BY <2>2 DEF w
    <3> QED
      BY <1>2, <1>6, <2>2, <3>1, <3>2
  <2>3. CASE i \in h + 1 .. due
    <3>1. next[i] = cut[i] /\ next[i - 1] = cut[i - 1]
      BY <1>6, <2>1, <2>3
    <3>2. /\ cut[i] = cut[i - 1] + Len(cs[i])
          /\ \A k \in 1 .. Len(cs[i]) : b[cut[i - 1] + k] = cs[i][k]
      BY <1>3, <2>3 DEF Laid
    <3> QED
      BY <3>1, <3>2
  <2>4. i = due + 1 \/ i \in h + 1 .. due
    OBVIOUS
  <2> QED
    BY <2>2, <2>3, <2>4
<1>12. Laid(next, b, cs, h, due + 1)
  BY <1>8, <1>9, <1>10, <1>11 DEF Laid
<1> QED
  BY <1>6, <1>12 DEF b, w

(* The bytes of the next call are at the front, and those of the others     *)
(* are laid behind them.                                                    *)
LaidBehind(cut, bytes, cs, h, due) ==
    LET w == cs[h + 1]
        n == Len(w)
    IN  /\ n \in 0 .. Len(bytes) /\ bytes = w \o Rest(bytes, n)
        /\ \E next : Laid(next, Rest(bytes, n), cs, h + 1, due) /\ next[due] = cut[due] - n

LEMMA LaidNext ==
    ASSUME NEW bytes \in Seq(Byte), NEW cs, NEW h \in Nat, NEW due \in Nat, h < due,
           \A i \in 1 .. due : cs[i] \in Seq(Byte),
           NEW cut, Laid(cut, bytes, cs, h, due)
    PROVE  LaidBehind(cut, bytes, cs, h, due)
<1> DEFINE w == cs[h + 1]
           n == Len(w)
           r == Rest(bytes, n)
           next == [i \in h + 1 .. due |-> cut[i] - n]
<1>1. h + 1 \in 1 .. due /\ h + 1 \in h + 1 .. due /\ h \in h .. due /\ h + 1 \in h .. due
  OBVIOUS
<1>2. w \in Seq(Byte) /\ n \in Nat /\ Len(bytes) \in Nat
  BY <1>1, LenProperties
<1>3. /\ cut \in [h .. due -> Nat] /\ cut[h] = 0
      /\ \A i, j \in h .. due : i <= j => cut[i] <= cut[j]
      /\ \A i \in h .. due : cut[i] <= Len(bytes)
      /\ \A i \in h + 1 .. due :
          /\ cut[i] = cut[i - 1] + Len(cs[i])
          /\ \A k \in 1 .. Len(cs[i]) : bytes[cut[i - 1] + k] = cs[i][k]
  BY DEF Laid
<1>b. Len(w) = n
  OBVIOUS
<1>4. cut[h + 1] = n /\ \A k \in 1 .. n : bytes[k] = w[k]
  <2>1. (h + 1) - 1 = h
    OBVIOUS
  <2>2. /\ cut[h + 1] = 0 + n
        /\ \A k \in 1 .. n : bytes[0 + k] = w[k]
    BY <1>1, <1>3, <2>1
  <2> HIDE DEF w, n
  <2>3. \A k \in 1 .. n : 0 + k = k
    BY <1>2
  <2> QED
    BY <1>2, <2>2, <2>3
<1> HIDE DEF w, n
<1>5. n \in 0 .. Len(bytes)
  BY <1>1, <1>2, <1>3, <1>4
<1>6. /\ r \in Seq(Byte) /\ Len(r) = Len(bytes) - n
      /\ \A i \in 1 .. Len(bytes) - n : r[i] = bytes[n + i]
  BY <1>5, RestIs
<1>7. bytes = w \o r
  <2>1. Front(bytes, n) = w
    <3>1. /\ Front(bytes, n) \in Seq(Byte) /\ Len(Front(bytes, n)) = n
          /\ \A i \in 1 .. n : Front(bytes, n)[i] = bytes[i]
      BY <1>5, FrontIs
    <3>2. \A i \in 1 .. n : Front(bytes, n)[i] = w[i]
      BY <1>4, <3>1
    <3> QED
      BY <1>2, <1>b, <3>1, <3>2, SameBytes
  <2>2. Front(bytes, n) \o Rest(bytes, n) = bytes
    BY <1>5, FrontAndRest
  <2> QED
    BY <2>1, <2>2
<1> HIDE DEF r
<1>8. \A i \in h + 1 .. due : next[i] = cut[i] - n
  OBVIOUS
<1>9. \A i \in h + 1 .. due : cut[i] \in Nat /\ cut[i] >= n /\ cut[i] <= Len(bytes)
  <2> TAKE i \in h + 1 .. due
  <2>1. i \in h .. due /\ h + 1 <= i
    OBVIOUS
  <2>2. cut[h + 1] <= cut[i]
    BY <1>1, <1>3, <2>1
  <2> QED
    BY <1>2, <1>3, <1>4, <2>1, <2>2
<1>10. next \in [h + 1 .. due -> Nat]
  BY <1>2, <1>9
<1> HIDE DEF next
<1>11. next[h + 1] = 0
  BY <1>1, <1>2, <1>4, <1>8
<1>12. \A i \in h + 1 .. due : next[i] <= Len(r)
  <2> TAKE i \in h + 1 .. due
  <2>1. next[i] = cut[i] - n /\ cut[i] \in Nat /\ cut[i] <= Len(bytes)
    BY <1>8, <1>9
  <2>2. \A c, l \in Nat : c <= l => c - n <= l - n
    BY <1>2
  <2>3. cut[i] - n <= Len(bytes) - n
    BY <1>2, <2>1, <2>2
  <2> QED
    BY <1>6, <2>1, <2>3
<1>13. \A i, j \in h + 1 .. due : i <= j => next[i] <= next[j]
  <2> TAKE i, j \in h + 1 .. due
  <2> SUFFICES ASSUME i <= j  PROVE next[i] <= next[j]
    OBVIOUS
  <2>1. i \in h .. due /\ j \in h .. due
    OBVIOUS
  <2>2. cut[i] <= cut[j]
    BY <1>3, <2>1
  <2> QED
    BY <1>2, <1>8, <1>9, <2>2
<1>14. ASSUME NEW i \in (h + 1) + 1 .. due
       PROVE  /\ next[i] = next[i - 1] + Len(cs[i])
              /\ \A k \in 1 .. Len(cs[i]) : r[next[i - 1] + k] = cs[i][k]
  <2> DEFINE v == cs[i]
  <2>1. i \in h + 1 .. due /\ i - 1 \in h + 1 .. due /\ i \in 1 .. due
    OBVIOUS
  <2>2. v \in Seq(Byte) /\ Len(v) \in Nat
    BY <2>1, LenProperties
  <2>3. cut[i] = cut[i - 1] + Len(v) /\ \A k \in 1 .. Len(v) : bytes[cut[i - 1] + k] = v[k]
    BY <1>3, <2>1
  <2> HIDE DEF v
  <2>4. /\ next[i] = cut[i] - n /\ next[i - 1] = cut[i - 1] - n
        /\ cut[i] \in Nat /\ cut[i - 1] \in Nat /\ cut[i - 1] >= n /\ cut[i] <= Len(bytes)
    BY <1>8, <1>9, <2>1
  <2>5. next[i] = next[i - 1] + Len(v)
    BY <1>2, <2>2, <2>3, <2>4
  <2>6. ASSUME NEW k \in 1 .. Len(v)  PROVE r[next[i - 1] + k] = v[k]
    <3> DEFINE a == cut[i - 1]
               c == cut[i]
               l == Len(bytes)
               q == Len(v)
    <3>a. a \in Nat /\ c \in Nat /\ l \in Nat /\ q \in Nat /\ k \in 1 .. q
          /\ a >= n /\ c <= l /\ c = a + q /\ next[i - 1] = a - n
      BY <1>2, <2>2, <2>3, <2>4
    <3> HIDE DEF a, c, l, q
    <3>b. (a - n) + k \in 1 .. l - n
      BY <1>2, <3>a
    <3>1. next[i - 1] + k \in 1 .. Len(bytes) - n
      BY <3>a, <3>b DEF l
    <3>2. n + (next[i - 1] + k) = cut[i - 1] + k
      BY <1>2, <2>2, <2>4
    <3> QED
      BY <1>6, <2>3, <3>1, <3>2
  <2> QED
    BY <2>5, <2>6 DEF v
<1>15. Laid(next, r, cs, h + 1, due)
  BY <1>10, <1>11, <1>12, <1>13, <1>14 DEF Laid
<1>16. next[due] = cut[due] - n
  BY <1>1, <1>8
<1> QED
  BY <1>5, <1>7, <1>15, <1>16 DEF LaidBehind, r, n, w

(* A frame is a sequence of bytes.                                          *)
LEMMA FrameIsBytes ==
    ASSUME NEW type \in DOMAIN PacketType, NEW flags \in 0..15,
           NEW body \in Seq(Byte), Len(body) \in Lengths
    PROVE  /\ FormatFrame(type, flags, body) \in Seq(Byte)
           /\ Len(FormatFrame(type, flags, body)) = (1 + LengthSize(Len(body))) + Len(body)
           /\ LengthSize(Len(body)) \in 1..4
<1> DEFINE l == Len(body)
           x == 16 * PacketType[type] + flags
           h == <<x>>
           e == EncodeLength(l)
           he == h \o e
<1>1. l \in Lengths /\ l \in Nat
  BY LenProperties
<1>2. x \in Byte
  BY HeaderByte
<1> HIDE DEF x
<1>3. h \in Seq(Byte) /\ Len(h) = 1
  BY <1>2
<1> HIDE DEF l
<1>4. e \in Seq(Byte) /\ Len(e) = LengthSize(l) /\ LengthSize(l) \in 1..4
  BY <1>1, DigitsWritten, SizeOfLength
<1>5. FormatFrame(type, flags, body) = he \o body
  BY DEF FormatFrame, FixedHeader, l, x
<1> HIDE DEF h, e
<1>6. he \in Seq(Byte) /\ Len(he) = Len(h) + Len(e)
  BY <1>3, <1>4, Joined
<1> HIDE DEF he
<1>7. he \o body \in Seq(Byte) /\ Len(he \o body) = Len(he) + Len(body)
  BY <1>6, Joined
<1> QED
  BY <1>1, <1>3, <1>4, <1>5, <1>6, <1>7 DEF l

(* What HandleFrame makes of a frame in front of the buffer data.           *)
FoundIn(data) ==
    LET frame == ParseFrame(data)
        name  == PacketName(frame.type)
    IN  [type |-> name, flags |-> frame.flags,
         fields |-> ParseBody(name, frame.flags, SubSeq(data, frame.ret + 1, frame.frame_length))]

(* A call is found where its bytes begin.                                   *)
LEMMA CallFound ==
    ASSUME NEW m \in Calls, NEW rest \in Seq(Byte)
    PROVE  LET data == Written(m) \o rest
               frame == ParseFrame(data)
           IN  /\ Written(m) \in Seq(Byte) /\ Len(Written(m)) \in Nat
               /\ frame.ret \in 1 .. Len(Written(m)) /\ frame.type \in 1..14
               /\ frame.frame_length = Len(Written(m))
               /\ Understood(m, FoundIn(data))
<1> DEFINE w == Written(m)
           data == w \o rest
<1>1. m \in PossibleCalls /\ NULL \notin ShortTexts
  BY FramingAssumption
<1>2. PICK flags, body : Readable(m, flags, body)
  BY <1>1, CallsReadable
<1> DEFINE type == m.type
           offset == 1 + LengthSize(Len(body))
<1>3. /\ type \in DOMAIN PacketType /\ flags \in 0..15
      /\ body \in Seq(Byte) /\ Len(body) \in Lengths
      /\ w = FormatFrame(type, flags, body)
      /\ Understood(m, [type |-> type, flags |-> flags,
                        fields |-> ParseBody(type, flags, body)])
  BY <1>2 DEF Readable
<1> HIDE DEF w, type
<1>4. w \in Seq(Byte) /\ Len(w) = offset + Len(body) /\ LengthSize(Len(body)) \in 1..4
  BY <1>3, FrameIsBytes
<1>5. Len(body) \in Nat
  BY <1>3, LenProperties
<1>6. /\ ParseFrame(data) =
            [ret |-> offset, type |-> PacketType[type], flags |-> flags,
             frame_length |-> offset + Len(body)]
      /\ SubSeq(data, offset + 1, offset + Len(body)) = body
  <2>1. ParsedAs(FormatFrame(type, flags, body) \o rest, type, flags, body)
    BY <1>3, FrameParsed
  <2> QED
    BY <1>3, <2>1 DEF ParsedAs
<1>7. PacketType[type] \in 1..14 /\ PacketName(PacketType[type]) = type
  BY <1>3, NameOfType
<1> HIDE DEF data, offset
<1>8. FoundIn(data) = [type |-> type, flags |-> flags, fields |-> ParseBody(type, flags, body)]
  <2> DEFINE frame == ParseFrame(data)
  <2>1. /\ frame.ret = offset /\ frame.type = PacketType[type] /\ frame.flags = flags
        /\ frame.frame_length = offset + Len(body)
    BY <1>6
  <2>2. FoundIn(data) =
            [type |-> PacketName(frame.type), flags |-> frame.flags,
             fields |-> ParseBody(PacketName(frame.type), frame.flags,
                                  SubSeq(data, frame.ret + 1, frame.frame_length))]
    BY DEF FoundIn
  <2> HIDE DEF frame
  <2> QED
    BY <1>6, <1>7, <2>1, <2>2
<1>9. offset \in 1 .. Len(w)
  BY <1>4, <1>5 DEF offset
<1> QED
  BY <1>3, <1>4, <1>6, <1>7, <1>8, <1>9 DEF data, w

(* No frame is found in no bytes.                                           *)
LEMMA NoFrame == ParseFrame(<<>>).ret = 0
<1>1. Len(<<>>) < 2
  BY EmptySeq
<1> QED
  BY <1>1 DEF ParseFrame

(* What is found in a buffer is found in it when more bytes follow.         *)
LEMMA FoundStable ==
    ASSUME NEW s \in Seq(Byte), NEW t \in Seq(Byte), ParseFrame(s).ret > 0,
           ParseFrame(s).ret \in Nat
    PROVE  FoundIn(s \o t) = FoundIn(s)
<1> DEFINE frame == ParseFrame(s)
           m == frame.ret + 1
           n == frame.frame_length
           a == SubSeq(s \o t, m, n)
           b == SubSeq(s, m, n)
<1>1. ParseFrame(s \o t) = frame
  <2>1. ParseFrame(s).ret # 0
    OBVIOUS
  <2> QED
    BY <2>1, FrameStable
<1>2. n \in 1 .. Len(s)
  BY FrameIsWhole
<1>3. m \in Nat /\ m > 1
  OBVIOUS
<1>4. s \o t \in Seq(Byte) /\ Len(s \o t) = Len(s) + Len(t) /\ Len(s) \in Nat /\ Len(t) \in Nat
  BY Joined
<1>5. FoundIn(s \o t) =
        [type |-> PacketName(frame.type), flags |-> frame.flags,
         fields |-> ParseBody(PacketName(frame.type), frame.flags, a)]
  <2> HIDE DEF frame
  <2> QED
    BY <1>1 DEF FoundIn
<1>6. FoundIn(s) =
        [type |-> PacketName(frame.type), flags |-> frame.flags,
         fields |-> ParseBody(PacketName(frame.type), frame.flags, b)]
  BY DEF FoundIn
<1> HIDE DEF frame, m, n
<1>7. \A i \in m .. n : (s \o t)[i] = s[i]
  <2> TAKE i \in m .. n
  <2>1. i \in 1 .. Len(s) + Len(t) /\ i <= Len(s)
    BY <1>2, <1>3, <1>4
  <2> QED
    BY <2>1, JoinedAt
<1> DEFINE u == s \o t
<1> HIDE DEF u
<1>8. a = b
  <2>1. m \in Int /\ n \in Int
    BY <1>2, <1>3
  <2>2. \A i \in m .. n : s[i] \in Byte /\ u[i] \in Byte
    <3> TAKE i \in m .. n
    <3>1. i \in 1 .. Len(s)
      BY <1>2, <1>3, <1>4
    <3>2. s[i] \in Byte
      BY <3>1, ElementOfSeq
    <3> QED
      BY <1>7, <3>2 DEF u
  <2>3. /\ b \in Seq(Byte) /\ Len(b) = (IF m <= n THEN n - m + 1 ELSE 0)
        /\ \A i \in 1 .. n - m + 1 : b[i] = s[m + i - 1]
    BY <2>1, <2>2, SubSeqProperties
  <2> DEFINE c == SubSeq(u, m, n)
  <2>4. /\ c \in Seq(Byte) /\ Len(c) = (IF m <= n THEN n - m + 1 ELSE 0)
        /\ \A i \in 1 .. n - m + 1 : c[i] = u[m + i - 1]
    BY <2>1, <2>2, SubSeqProperties
  <2>5. a = c
    BY DEF u
  <2> HIDE DEF b, c
  <2>6. ASSUME NEW i \in 1 .. Len(c)  PROVE c[i] = b[i]
    <3>1. i \in 1 .. n - m + 1 /\ m + i - 1 \in m .. n
      BY <2>1, <2>4
    <3>2. u[m + i - 1] = s[m + i - 1]
      BY <1>7, <3>1 DEF u
    <3> QED
      BY <2>3, <2>4, <3>1, <3>2
  <2>7. c = b
    BY <2>3, <2>4, <2>6, SameBytes
  <2> QED
    BY <2>5, <2>7
<1> QED
  BY <1>5, <1>6, <1>8

-----------------------------------------------------------------------------
(* The invariant of a direction.                                            *)

(* The calls whose frames have to be found: what was sent behind something  *)
(* malformed may be lost.                                                   *)
Due == IF spoiled = -1 THEN Len(calls) ELSE spoiled

Pending == received \o wire

\* The bytes of each call.
Sent == [i \in DOMAIN calls |-> Written(calls[i])]

IsSequence(s) == s \in Seq({s[i] : i \in DOMAIN s})

FramingTypes ==
    /\ calls \in Seq(Calls) /\ wire \in Seq(Byte) /\ received \in Seq(Byte)
    /\ parsing \in BOOLEAN
    /\ spoiled = -1 \/ spoiled \in 0 .. Len(calls)
    /\ IsSequence(handled)

(* The bytes that are due and not handled are all there, in their order,    *)
(* and nothing else unless it came from another writer.                     *)
BytesPending ==
    Len(handled) <= Due =>
        \E cut : /\ Laid(cut, Pending, Sent, Len(handled), Due)
                 /\ spoiled = -1 => cut[Due] = Len(Pending)

HandledRight ==
    \A k \in 1 .. Len(handled) : k <= Due => Understood(calls[k], handled[k])

FramingInv ==
    /\ FramingTypes
    /\ spoiled = -1 => Len(handled) <= Len(calls)
    /\ ~parsing => ParseFrame(received).ret = 0
    /\ BytesPending
    /\ HandledRight

(* Appending to a sequence.                                                 *)
LEMMA Appended ==
    ASSUME NEW s, IsSequence(s), NEW e
    PROVE  /\ IsSequence(Append(s, e)) /\ Len(s) \in Nat
           /\ Len(Append(s, e)) = Len(s) + 1
           /\ \A i \in 1 .. Len(s) : Append(s, e)[i] = s[i]
           /\ Append(s, e)[Len(s) + 1] = e
<1> DEFINE S == {s[i] : i \in DOMAIN s}
           T == S \cup {e}
           a == Append(s, e)
<1>1. s \in Seq(S)
  BY DEF IsSequence
<1> HIDE DEF S
<1>2. s \in Seq(T)
  <2>1. Len(s) \in Nat /\ DOMAIN s = 1 .. Len(s) /\ \A i \in 1 .. Len(s) : s[i] \in S
    BY <1>1, LenProperties, ElementOfSeq
  <2>2. s = [i \in 1 .. Len(s) |-> s[i]]
    BY <1>1, SeqDef
  <2>3. \A i \in 1 .. Len(s) : s[i] \in T
    BY <2>1
  <2> HIDE DEF T
  <2>4. s \in [1 .. Len(s) -> T]
    BY <2>2, <2>3
  <2> QED
    BY <2>1, <2>4, SeqDef
<1>3. e \in T
  OBVIOUS
<1> HIDE DEF T
<1>4. /\ a \in Seq(T) /\ Len(a) = Len(s) + 1 /\ Len(s) \in Nat
      /\ \A i \in 1 .. Len(s) : a[i] = s[i]
      /\ a[Len(s) + 1] = e
  BY <1>2, <1>3, AppendProperties, LenProperties
<1> HIDE DEF a
<1>5. IsSequence(a)
  <2> DEFINE A == {a[i] : i \in DOMAIN a}
  <2>1. Len(a) \in Nat /\ DOMAIN a = 1 .. Len(a) /\ a = [i \in 1 .. Len(a) |-> a[i]]
    BY <1>4, LenProperties, SeqDef
  <2>2. \A i \in 1 .. Len(a) : a[i] \in A
    BY <2>1
  <2> HIDE DEF A
  <2>3. a \in [1 .. Len(a) -> A]
    BY <2>1, <2>2
  <2>4. a \in Seq(A)
    BY <2>1, <2>3, SeqDef
  <2> QED
    BY <2>4 DEF IsSequence, A
<1> QED
  BY <1>4, <1>5 DEF a

(* What the types say of lengths and of single calls.                       *)
LEMMA FramingFacts ==
    ASSUME FramingTypes
    PROVE  /\ Len(calls) \in Nat /\ Len(handled) \in Nat /\ Due \in 0 .. Len(calls)
           /\ Pending \in Seq(Byte) /\ Len(Pending) = Len(received) + Len(wire)
           /\ Len(received) \in Nat /\ Len(wire) \in Nat
           /\ \A i \in 1 .. Len(calls) : calls[i] \in Calls
           /\ DOMAIN calls = 1 .. Len(calls) /\ DOMAIN handled = 1 .. Len(handled)
<1>1. calls \in Seq(Calls) /\ wire \in Seq(Byte) /\ received \in Seq(Byte)
  BY DEF FramingTypes
<1>2. handled \in Seq({handled[i] : i \in DOMAIN handled})
  BY DEF FramingTypes, IsSequence
<1>3. /\ Len(calls) \in Nat /\ DOMAIN calls = 1 .. Len(calls)
      /\ \A i \in 1 .. Len(calls) : calls[i] \in Calls
  BY <1>1, LenProperties, ElementOfSeq
<1>4. Len(handled) \in Nat /\ DOMAIN handled = 1 .. Len(handled)
  BY <1>2, LenProperties
<1>5. /\ received \o wire \in Seq(Byte) /\ Len(received \o wire) = Len(received) + Len(wire)
      /\ Len(received) \in Nat /\ Len(wire) \in Nat
  BY <1>1, Joined
<1>6. Due \in 0 .. Len(calls)
  BY <1>3 DEF Due, FramingTypes
<1> QED
  BY <1>3, <1>4, <1>5, <1>6 DEF Pending

(* Every call writes bytes.                                                 *)
LEMMA WritesBytes == \A m \in Calls : Written(m) \in Seq(Byte) /\ Len(Written(m)) \in Nat
<1> TAKE m \in Calls
<1>1. <<>> \in Seq(Byte)
  BY EmptySeq
<1> QED
  BY <1>1, CallFound

(* The bytes of the calls.                                                  *)
LEMMA SentIs ==
    ASSUME FramingTypes
    PROVE  \A i \in 1 .. Len(calls) : Sent[i] = Written(calls[i]) /\ Sent[i] \in Seq(Byte)
<1>1. DOMAIN calls = 1 .. Len(calls) /\ \A i \in 1 .. Len(calls) : calls[i] \in Calls
  BY FramingFacts
<1> QED
  BY <1>1, WritesBytes DEF Sent

(* The next call that is due is in front of what is pending.                *)
LEMMA NextPending ==
    ASSUME FramingInv, Len(handled) < Due
    PROVE  LET m == calls[Len(handled) + 1]
               n == Len(Written(m))
               frame == ParseFrame(Pending)
           IN  /\ m \in Calls
               /\ frame.ret \in 1 .. n /\ frame.type \in 1..14 /\ frame.frame_length = n
               /\ Understood(m, FoundIn(Pending))
               /\ n \in 0 .. Len(Pending)
               /\ \E cut : /\ Laid(cut, Rest(Pending, n), Sent, Len(handled) + 1, Due)
                           /\ spoiled = -1 => cut[Due] = Len(Rest(Pending, n))
<1> DEFINE h == Len(handled)
           m == calls[h + 1]
           w == Written(m)
           n == Len(w)
           r == Rest(Pending, n)
<1>1. /\ Len(calls) \in Nat /\ h \in Nat /\ Due \in 0 .. Len(calls)
      /\ Pending \in Seq(Byte) /\ \A i \in 1 .. Len(calls) : calls[i] \in Calls
  BY FramingFacts DEF FramingInv
<1>2. PICK cut : Laid(cut, Pending, Sent, h, Due) /\ (spoiled = -1 => cut[Due] = Len(Pending))
  BY <1>1 DEF FramingInv, BytesPending
<1>3. Due \in Nat /\ h < Due /\ \A i \in 1 .. Due : Sent[i] \in Seq(Byte)
  BY <1>1, SentIs DEF FramingInv
<1>4. h + 1 \in 1 .. Len(calls) /\ m \in Calls
  BY <1>1, <1>3
<1>a. Sent[h + 1] = w
  BY <1>4, SentIs DEF FramingInv
<1>5. /\ n \in 0 .. Len(Pending) /\ Pending = w \o r
      /\ \E z : Laid(z, r, Sent, h + 1, Due) /\ z[Due] = cut[Due] - n
  <2> DEFINE c == Sent
             d == Due
             b == Pending
  <2>1. /\ b \in Seq(Byte) /\ h \in Nat /\ d \in Nat /\ h < d
        /\ \A i \in 1 .. d : c[i] \in Seq(Byte)
        /\ Laid(cut, b, c, h, d)
    BY <1>1, <1>2, <1>3
  <2> HIDE DEF h, b, d, c
  <2>2. LaidBehind(cut, b, c, h, d)
    BY <2>1, LaidNext
  <2> QED
    BY <1>a, <2>2 DEF LaidBehind, c, d, b
<1>6. r \in Seq(Byte) /\ Len(r) = Len(Pending) - n
  BY <1>1, <1>5, RestIs
<1> HIDE DEF r, m
<1>7. LET frame == ParseFrame(w \o r)
      IN  /\ frame.ret \in 1 .. n /\ frame.type \in 1..14 /\ frame.frame_length = n
          /\ Understood(m, FoundIn(w \o r))
  BY <1>4, <1>6, CallFound
<1> HIDE DEF w, n
<1>8. \E z : /\ Laid(z, r, Sent, h + 1, Due)
             /\ spoiled = -1 => z[Due] = Len(r)
  BY <1>2, <1>5, <1>6
<1> HIDE DEF h, Pending, Due
<1>9. LET frame == ParseFrame(Pending)
      IN  /\ frame.ret \in 1 .. n /\ frame.type \in 1..14 /\ frame.frame_length = n
          /\ Understood(m, FoundIn(Pending))
  BY <1>5, <1>7
<1> QED
  BY <1>4, <1>5, <1>8, <1>9 DEF h, m, w, n, r

(* With all calls handled, and no other writer, nothing is pending.         *)
LEMMA NonePending ==
    ASSUME FramingInv, spoiled = -1, Len(handled) = Due
    PROVE  received = <<>> /\ wire = <<>>
<1>1. /\ Due \in Nat /\ Len(Pending) = Len(received) + Len(wire)
      /\ Len(received) \in Nat /\ Len(wire) \in Nat
  BY FramingFacts DEF FramingInv
<1>2. PICK cut : Laid(cut, Pending, Sent, Due, Due) /\ cut[Due] = Len(Pending)
  BY <1>1 DEF FramingInv, BytesPending
<1>3. cut[Due] = 0
  BY <1>2 DEF Laid
<1>4. Len(received) = 0 /\ Len(wire) = 0
  BY <1>1, <1>2, <1>3
<1>5. received \in Seq(Byte) /\ wire \in Seq(Byte)
  BY DEF FramingInv, FramingTypes
<1> QED
  BY <1>4, <1>5, EmptySeq

(* Nothing is due.                                                          *)
LEMMA LaidNone ==
    ASSUME NEW bytes \in Seq(Byte), NEW cs, NEW h \in Nat
    PROVE  LET cut == [i \in h .. h |-> 0]
           IN  Laid(cut, bytes, cs, h, h) /\ cut[h] = 0
<1> DEFINE cut == [i \in h .. h |-> 0]
<1>1. Len(bytes) \in Nat
  BY LenProperties
<1>2. \A i : i \in h .. h <=> i = h
  OBVIOUS
<1>3. \A i : i \in h + 1 .. h => FALSE
  OBVIOUS
<1>4. cut \in [h .. h -> Nat] /\ cut[h] = 0
  BY <1>2
<1> HIDE DEF cut
<1>5. /\ \A i, j \in h .. h : i <= j => cut[i] <= cut[j]
      /\ \A i \in h .. h : cut[i] <= Len(bytes)
  BY <1>1, <1>2, <1>4
<1>6. Laid(cut, bytes, cs, h, h)
  BY <1>3, <1>4, <1>5 DEF Laid
<1> QED
  BY <1>4, <1>6 DEF cut

(* What is pending keeps its places while bytes join it from behind.        *)
LEMMA PendingGrows ==
    ASSUME FramingInv, NEW more \in Seq(Byte), Pending' = Pending \o more,
           \A i \in 1 .. Due : Sent'[i] = Sent[i],
           handled' = handled, Due' = Due, Len(handled) <= Due
    PROVE  \E cut : /\ Laid(cut, Pending', Sent', Len(handled'), Due')
                    /\ spoiled = -1 => cut[Due] = Len(Pending)
<1>1. /\ Len(calls) \in Nat /\ Len(handled) \in Nat /\ Due \in 0 .. Len(calls)
      /\ Pending \in Seq(Byte) /\ \A i \in 1 .. Len(calls) : calls[i] \in Calls
  BY FramingFacts DEF FramingInv
<1>2. PICK cut : Laid(cut, Pending, Sent, Len(handled), Due)
                 /\ (spoiled = -1 => cut[Due] = Len(Pending))
  BY DEF FramingInv, BytesPending
<1>3. Due \in Nat /\ \A i \in 1 .. Due : Sent[i] \in Seq(Byte)
  BY <1>1, SentIs DEF FramingInv
<1> DEFINE b == Pending
           c == Sent
           d == Due
           h == Len(handled)
           x == Sent'
<1>4. /\ b \in Seq(Byte) /\ h \in Nat /\ d \in Nat /\ h <= d
      /\ \A i \in 1 .. d : x[i] = c[i]
      /\ \A i \in 1 .. d : c[i] \in Seq(Byte)
      /\ Laid(cut, b, c, h, d)
  BY <1>1, <1>2, <1>3
<1> HIDE DEF b, c, d, h, x
<1>5. Laid(cut, b \o more, x, h, d)
  BY <1>4, LaidGrows
<1>6. Laid(cut, Pending', Sent', Len(handled'), Due')
  BY <1>5 DEF b, c, d, h, x
<1> QED
  BY <1>2, <1>6

(* The frames handled stay right when nothing else is handled.              *)
LEMMA StillRight ==
    ASSUME FramingInv, handled' = handled, Due' <= Due \/ Len(handled) <= Due, Due' \in Nat,
           \A i \in 1 .. Due : calls'[i] = calls[i]
    PROVE  HandledRight'
<1>1. Len(handled) \in Nat /\ Due \in Nat
  BY FramingFacts DEF FramingInv
<1>2. \A k \in 1 .. Len(handled) : k <= Due => Understood(calls[k], handled[k])
  BY DEF FramingInv, HandledRight
<1>3. ASSUME NEW k \in 1 .. Len(handled), k <= Due'  PROVE Understood(calls'[k], handled[k])
  <2>1. k <= Due /\ k \in 1 .. Due
    BY <1>1, <1>3
  <2>2. calls'[k] = calls[k]
    BY <2>1
  <2> QED
    BY <1>2, <2>1, <2>2
<1> QED
  BY <1>3 DEF HandledRight

LEMMA FramingInitially == FramingInit => FramingInv
<1> SUFFICES ASSUME FramingInit  PROVE FramingInv
  OBVIOUS
<1>1. /\ calls = <<>> /\ wire = <<>> /\ received = <<>> /\ handled = <<>>
      /\ parsing = FALSE /\ spoiled = -1
  BY DEF FramingInit
<1>2. FramingTypes
  BY <1>1, EmptySeq DEF FramingTypes, IsSequence
<1>3. Len(handled) = 0 /\ Len(calls) = 0 /\ Due = 0 /\ Pending = <<>> \o <<>>
  BY <1>1, EmptySeq DEF Due, Pending
<1>4. Pending \in Seq(Byte) /\ Len(Pending) = 0
  <2>1. Pending \in Seq(Byte) /\ Len(Pending) = Len(received) + Len(wire)
    BY <1>2, FramingFacts
  <2> QED
    BY <1>1, <2>1, EmptySeq
<1>5. BytesPending
  <2> DEFINE cut == [i \in 0 .. 0 |-> 0]
  <2>1. Laid(cut, Pending, Sent, 0, 0) /\ cut[0] = 0
    <3>1. 0 \in Nat
      OBVIOUS
    <3> QED
      BY <1>4, <3>1, LaidNone
  <2> HIDE DEF cut
  <2> QED
    BY <1>3, <1>4, <2>1 DEF BytesPending
<1>6. HandledRight
  BY <1>3 DEF HandledRight
<1>7. ParseFrame(received).ret = 0
  BY <1>1, NoFrame
<1> QED
  BY <1>2, <1>3, <1>5, <1>6, <1>7 DEF FramingInv

(* A call.                                                                  *)
LEMMA SendKeeps == FramingInv /\ Send => FramingInv'
<1> SUFFICES ASSUME FramingInv, Send  PROVE FramingInv'
  OBVIOUS
<1>1. PICK m \in Calls : calls' = Append(calls, m) /\ wire' = wire \o Written(m)
  BY DEF Send
<1>2. /\ received' = received /\ parsing' = parsing /\ handled' = handled
      /\ spoiled' = spoiled
  BY DEF Send
<1> DEFINE w == Written(m)
<1>3. w \in Seq(Byte)
  BY WritesBytes
<1>4. /\ calls \in Seq(Calls) /\ wire \in Seq(Byte) /\ received \in Seq(Byte)
      /\ parsing \in BOOLEAN /\ (spoiled = -1 \/ spoiled \in 0 .. Len(calls))
      /\ IsSequence(handled)
  BY DEF FramingInv, FramingTypes
<1>5. /\ Len(calls) \in Nat /\ Len(handled) \in Nat /\ Due \in 0 .. Len(calls)
      /\ Pending \in Seq(Byte) /\ Len(Pending) \in Nat
      /\ \A i \in 1 .. Len(calls) : calls[i] \in Calls
  BY FramingFacts, LenProperties DEF FramingInv
<1>6. /\ calls' \in Seq(Calls) /\ Len(calls') = Len(calls) + 1
      /\ \A i \in 1 .. Len(calls) : calls'[i] = calls[i]
      /\ calls'[Len(calls) + 1] = m
  BY <1>1, <1>4, AppendProperties
<1>7. FramingTypes'
  <2>1. wire' \in Seq(Byte)
    BY <1>1, <1>3, <1>4, Joined
  <2>2. spoiled' = -1 \/ spoiled' \in 0 .. Len(calls')
    BY <1>2, <1>4, <1>5, <1>6
  <2>3. IsSequence(handled')
    BY <1>2, <1>4
  <2> QED
    BY <1>2, <1>4, <1>6, <2>1, <2>2, <2>3 DEF FramingTypes
<1>8. Pending' = Pending \o w
  <2>1. Pending' = received \o (wire \o w)
    BY <1>1, <1>2 DEF Pending
  <2> HIDE DEF w
  <2>2. (received \o wire) \o w = received \o (wire \o w)
    BY <1>3, <1>4, Rejoined
  <2> QED
    BY <2>1, <2>2 DEF Pending
<1>9. spoiled' = -1 => Len(handled') <= Len(calls')
  BY <1>2, <1>5, <1>6 DEF FramingInv
<1>10. ~parsing' => ParseFrame(received').ret = 0
  BY <1>2 DEF FramingInv
<1>11. \A i \in 1 .. Due : calls'[i] = calls[i]
  BY <1>5, <1>6
<1>a. \A i \in 1 .. Len(calls) + 1 : Sent'[i] = Written(calls'[i]) /\ Sent'[i] \in Seq(Byte)
  <2>1. \A i \in 1 .. Len(calls) + 1 : calls'[i] \in Calls
    <3> TAKE i \in 1 .. Len(calls) + 1
    <3>1. i \in 1 .. Len(calls) \/ i = Len(calls) + 1
      BY <1>5
    <3> QED
      BY <1>5, <1>6, <3>1
  <2>2. DOMAIN calls' = 1 .. Len(calls) + 1
    BY <1>6, LenProperties
  <2> QED
    BY <2>1, <2>2, WritesBytes DEF Sent
<1>b. \A i \in 1 .. Len(calls) : Sent'[i] = Sent[i]
  <2> TAKE i \in 1 .. Len(calls)
  <2>1. i \in 1 .. Len(calls) + 1 /\ calls'[i] = calls[i]
    BY <1>5, <1>6
  <2>2. Sent[i] = Written(calls[i])
    BY SentIs DEF FramingInv
  <2> QED
    BY <1>a, <2>1, <2>2
<1>c. \A i \in 1 .. Due : Sent'[i] = Sent[i]
  BY <1>5, <1>b
<1>12. BytesPending' /\ HandledRight'
  <2>1. CASE spoiled # -1
    <3>1. Due' = Due
      BY <1>2, <2>1 DEF Due
    <3>2. HandledRight'
      <4>1. Due' \in Nat /\ Due' <= Due
        BY <1>5, <3>1
      <4> QED
        BY <1>2, <1>11, <4>1, StillRight
    <3>3. BytesPending'
      <4> SUFFICES ASSUME Len(handled') <= Due'
                   PROVE  \E cut : Laid(cut, Pending', Sent', Len(handled'), Due')
        BY <1>2, <2>1 DEF BytesPending
      <4>1. Len(handled) <= Due
        BY <1>2, <3>1
      <4> HIDE DEF w
      <4> QED
        BY <1>2, <1>3, <1>8, <1>c, <3>1, <4>1, PendingGrows
    <3> QED
      BY <3>2, <3>3
  <2>2. CASE spoiled = -1
    <3>1. Due = Len(calls) /\ Due' = Due + 1 /\ Len(handled) <= Due
      BY <1>2, <1>6, <2>2 DEF Due, FramingInv
    <3>2. HandledRight'
      <4>1. Due' \in Nat
        BY <1>5, <3>1
      <4> QED
        BY <1>2, <1>11, <3>1, <4>1, StillRight
    <3>3. PICK cut : Laid(cut, Pending, Sent, Len(handled), Due) /\ cut[Due] = Len(Pending)
      BY <2>2, <3>1 DEF FramingInv, BytesPending
    <3> DEFINE b == Pending
               c == Sent
               d == Due
               h == Len(handled)
               x == Sent'
    <3>4. Laid(cut, b, x, h, d)
      <4>1. /\ b \in Seq(Byte) /\ h \in Nat /\ d \in Nat /\ h <= d /\ <<>> \in Seq(Byte)
            /\ \A i \in 1 .. d : x[i] = c[i]
            /\ \A i \in 1 .. d : c[i] \in Seq(Byte)
            /\ Laid(cut, b, c, h, d)
        BY <1>5, <1>c, <3>1, <3>3, SentIs, EmptySeq DEF FramingInv
      <4> HIDE DEF b, c, d, h, x
      <4>2. Laid(cut, b \o <<>>, x, h, d)
        BY <4>1, LaidGrows
      <4>3. b \o <<>> = b
        BY <4>1, ConcatEmptySeq
      <4> QED
        BY <4>2, <4>3
    <3>5. /\ b \in Seq(Byte) /\ h \in Nat /\ d \in Nat /\ h <= d
          /\ x[d + 1] = w /\ cut[d] = Len(b)
          /\ \A i \in 1 .. d + 1 : x[i] \in Seq(Byte)
      <4>1. Due + 1 \in 1 .. Len(calls) + 1 /\ calls'[Due + 1] = m
        BY <1>5, <1>6, <3>1
      <4>2. Sent'[Due + 1] = Written(m)
        BY <1>a, <4>1
      <4>3. \A i \in 1 .. Due + 1 : Sent'[i] \in Seq(Byte)
        BY <1>a, <3>1
      <4> QED
        BY <1>5, <3>1, <3>3, <4>2, <4>3
    <3> HIDE DEF b, c, d, h, x, w
    <3>6. LET all == b \o x[d + 1]
          IN  \E next : Laid(next, all, x, h, d + 1) /\ next[d + 1] = Len(all)
      BY <3>4, <3>5, LaidMore
    <3>7. \E next : Laid(next, b \o w, x, h, d + 1) /\ next[d + 1] = Len(b \o w)
      BY <3>5, <3>6
    <3>8. \E next : Laid(next, Pending', Sent', Len(handled'), Due') /\ next[Due'] = Len(Pending')
      <4>1. Pending' = b \o w /\ Sent' = x /\ Len(handled') = h /\ Due' = d + 1
        BY <1>2, <1>8, <3>1 DEF b, x, h, d
      <4> QED
        BY <3>7, <4>1
    <3> QED
      BY <3>2, <3>8 DEF BytesPending
  <2> QED
    BY <2>1, <2>2
<1> QED
  BY <1>7, <1>9, <1>10, <1>12 DEF FramingInv

(* Bytes of somebody else.                                                  *)
LEMMA SendMalformedKeeps == FramingInv /\ SendMalformed => FramingInv'
<1> SUFFICES ASSUME FramingInv, SendMalformed  PROVE FramingInv'
  OBVIOUS
<1>1. PICK bytes \in Malformed : wire' = wire \o bytes
  BY DEF SendMalformed
<1>2. /\ spoiled = -1 /\ spoiled' = Len(calls) /\ calls' = calls /\ received' = received
      /\ parsing' = parsing /\ handled' = handled
  BY DEF SendMalformed
<1>3. bytes \in Seq(Byte)
  BY FramingAssumption
<1>4. /\ calls \in Seq(Calls) /\ wire \in Seq(Byte) /\ received \in Seq(Byte)
      /\ parsing \in BOOLEAN /\ IsSequence(handled)
  BY DEF FramingInv, FramingTypes
<1>5. Len(calls) \in Nat /\ Len(handled) \in Nat /\ Due \in 0 .. Len(calls)
  BY FramingFacts DEF FramingInv
<1>6. Due = Len(calls) /\ Due' = Len(calls) /\ Len(handled) <= Due
  BY <1>2, <1>5 DEF Due, FramingInv
<1>7. FramingTypes'
  <2>1. wire' \in Seq(Byte)
    BY <1>1, <1>3, <1>4, Joined
  <2>2. spoiled' \in 0 .. Len(calls')
    BY <1>2, <1>5
  <2>3. IsSequence(handled')
    BY <1>2, <1>4
  <2> QED
    BY <1>2, <1>4, <2>1, <2>2, <2>3 DEF FramingTypes
<1>8. Pending' = Pending \o bytes
  <2>1. Pending' = received \o (wire \o bytes)
    BY <1>1, <1>2 DEF Pending
  <2>2. (received \o wire) \o bytes = received \o (wire \o bytes)
    BY <1>3, <1>4, Rejoined
  <2> QED
    BY <2>1, <2>2 DEF Pending
<1>9. \A i \in 1 .. Due : calls'[i] = calls[i]
  BY <1>2
<1>10. HandledRight'
  BY <1>2, <1>5, <1>6, <1>9, StillRight
<1>a. \A i \in 1 .. Due : Sent'[i] = Sent[i]
  BY <1>2 DEF Sent
<1>11. \E cut : Laid(cut, Pending', Sent', Len(handled'), Due')
  BY <1>2, <1>3, <1>6, <1>8, <1>a, PendingGrows
<1>12. BytesPending'
  <2>1. spoiled' # -1
    BY <1>2, <1>5
  <2> QED
    BY <1>11, <2>1 DEF BytesPending
<1>13. spoiled' # -1 /\ (~parsing' => ParseFrame(received').ret = 0)
  BY <1>2, <1>5 DEF FramingInv
<1> QED
  BY <1>7, <1>10, <1>12, <1>13 DEF FramingInv

(* Nothing about what is pending changes.                                   *)
LEMMA PendingKept ==
    ASSUME FramingInv, Pending' = Pending, calls' = calls, handled' = handled,
           spoiled' = spoiled
    PROVE  BytesPending' /\ HandledRight'
<1>1. Due' = Due
  BY DEF Due
<1> QED
  BY <1>1 DEF FramingInv, BytesPending, HandledRight, Sent

(* A read.                                                                  *)
LEMMA ReadBytesKeeps == FramingInv /\ ReadBytes => FramingInv'
<1> SUFFICES ASSUME FramingInv, ReadBytes  PROVE FramingInv'
  OBVIOUS
<1>1. PICK n : /\ n \in 1 .. Lesser(Len(wire), ReadLimit)
               /\ received' = received \o Front(wire, n)
               /\ wire' = Rest(wire, n)
  BY DEF ReadBytes
<1>2. /\ parsing' = TRUE /\ calls' = calls /\ handled' = handled /\ spoiled' = spoiled
  BY DEF ReadBytes
<1>3. /\ wire \in Seq(Byte) /\ received \in Seq(Byte) /\ Len(wire) \in Nat
  BY FramingFacts DEF FramingInv, FramingTypes
<1>4. n \in 0 .. Len(wire)
  BY <1>1, <1>3, FramingAssumption DEF Lesser
<1>5. /\ Front(wire, n) \in Seq(Byte) /\ Rest(wire, n) \in Seq(Byte)
      /\ Front(wire, n) \o Rest(wire, n) = wire
  BY <1>3, <1>4, FrontIs, RestIs, FrontAndRest
<1>6. Pending' = Pending
  <2> DEFINE f == Front(wire, n)
             r == Rest(wire, n)
  <2>1. Pending' = (received \o f) \o r
    BY <1>1 DEF Pending
  <2>2. f \in Seq(Byte) /\ r \in Seq(Byte) /\ f \o r = wire
    BY <1>5
  <2> HIDE DEF f, r
  <2>3. (received \o f) \o r = received \o (f \o r)
    BY <1>3, <2>2, Rejoined
  <2> QED
    BY <2>1, <2>2, <2>3 DEF Pending
<1>7. received' \in Seq(Byte)
  BY <1>1, <1>3, <1>5, Joined
<1>8. FramingTypes'
  BY <1>1, <1>2, <1>5, <1>7 DEF FramingInv, FramingTypes
<1>9. BytesPending' /\ HandledRight'
  BY <1>2, <1>6, PendingKept
<1> QED
  BY <1>2, <1>8, <1>9 DEF FramingInv

(* More has to come.                                                        *)
LEMMA AwaitMoreKeeps == FramingInv /\ AwaitMore => FramingInv'
<1> SUFFICES ASSUME FramingInv, AwaitMore  PROVE FramingInv'
  OBVIOUS
<1>1. /\ ParseFrame(received).ret = 0 /\ parsing' = FALSE
      /\ calls' = calls /\ wire' = wire /\ received' = received /\ handled' = handled
      /\ spoiled' = spoiled
  BY DEF AwaitMore
<1>2. Pending' = Pending
  BY <1>1 DEF Pending
<1>3. BytesPending' /\ HandledRight'
  BY <1>1, <1>2, PendingKept
<1>4. FramingTypes'
  BY <1>1 DEF FramingInv, FramingTypes
<1> QED
  BY <1>1, <1>3, <1>4 DEF FramingInv

(* While a call is due, what the parser finds in the buffer is its frame,   *)
(* if it finds anything.                                                    *)
LEMMA FoundIsNext ==
    ASSUME FramingInv, Len(handled) < Due, ParseFrame(received).ret # 0
    PROVE  LET m == calls[Len(handled) + 1]
               n == Len(Written(m))
               frame == ParseFrame(received)
           IN  /\ frame.ret > 0 /\ frame.type \in 1..14 /\ frame.frame_length = n
               /\ Understood(m, FoundIn(received))
               /\ n \in 1 .. Len(received)
               /\ Rest(received, n) \o wire = Rest(Pending, n)
               /\ \E cut : /\ Laid(cut, Rest(Pending, n), Sent, Len(handled) + 1, Due)
                           /\ spoiled = -1 => cut[Due] = Len(Rest(Pending, n))
<1> DEFINE m == calls[Len(handled) + 1]
           n == Len(Written(m))
<1>1. /\ m \in Calls
      /\ ParseFrame(Pending).ret \in 1 .. n /\ ParseFrame(Pending).type \in 1..14
      /\ ParseFrame(Pending).frame_length = n
      /\ Understood(m, FoundIn(Pending))
      /\ \E cut : /\ Laid(cut, Rest(Pending, n), Sent, Len(handled) + 1, Due)
                  /\ spoiled = -1 => cut[Due] = Len(Rest(Pending, n))
  BY NextPending
<1> HIDE DEF m, n
<1>2. wire \in Seq(Byte) /\ received \in Seq(Byte)
  BY DEF FramingInv, FramingTypes
<1>3. ParseFrame(Pending) = ParseFrame(received)
  BY <1>2, FrameStable DEF Pending
<1>4. ParseFrame(received).ret > 0 /\ ParseFrame(received).ret \in Nat
  <2>1. ParseFrame(received).ret \in 1 .. n
    BY <1>1, <1>3
  <2> QED
    BY <2>1
<1>5. FoundIn(Pending) = FoundIn(received)
  BY <1>2, <1>4, FoundStable DEF Pending
<1>6. n \in 1 .. Len(received)
  <2>1. ParseFrame(received).frame_length = n
    BY <1>1, <1>3
  <2>2. ParseFrame(received).frame_length \in 1 .. Len(received)
    BY <1>2, <1>4, FrameIsWhole
  <2> QED
    BY <2>1, <2>2
<1>7. Rest(Pending, n) = Rest(received, n) \o wire
  <2>1. n \in 0 .. Len(received)
    BY <1>6
  <2> QED
    BY <1>2, <2>1, RestOfJoined DEF Pending
<1> QED
  BY <1>1, <1>3, <1>4, <1>5, <1>6, <1>7 DEF m, n

(* With nothing due the buffer is empty or not only of this writer.         *)
LEMMA SpoiledBehind ==
    ASSUME FramingInv, ~(Len(handled) < Due), ParseFrame(received).ret # 0
    PROVE  spoiled # -1 /\ Len(handled) >= Due /\ Due \in Nat /\ Len(handled) \in Nat
<1>1. Due \in 0 .. Len(calls) /\ Len(calls) \in Nat /\ Len(handled) \in Nat
  BY FramingFacts DEF FramingInv
<1>2. spoiled # -1
  <2> SUFFICES ASSUME spoiled = -1  PROVE FALSE
    OBVIOUS
  <2>1. Due = Len(calls) /\ Len(handled) <= Len(calls)
    BY DEF Due, FramingInv
  <2>2. Len(handled) = Due
    BY <1>1, <2>1
  <2>3. received = <<>>
    BY <2>2, NonePending
  <2> QED
    BY <2>3, NoFrame
<1> QED
  BY <1>1, <1>2

(* Bytes are dropped only where nothing is due.                             *)
LEMMA DropBufferKeeps == FramingInv /\ DropBuffer => FramingInv'
<1> SUFFICES ASSUME FramingInv, DropBuffer  PROVE FramingInv'
  OBVIOUS
<1>1. /\ parsing /\ ParseFrame(received).ret < 0 /\ received' = <<>>
      /\ calls' = calls /\ wire' = wire /\ parsing' = parsing /\ handled' = handled
      /\ spoiled' = spoiled
  BY DEF DropBuffer
<1>a. ParseFrame(received).ret # 0
  BY <1>1
<1>2. ~(Len(handled) < Due)
  <2> SUFFICES ASSUME Len(handled) < Due  PROVE FALSE
    OBVIOUS
  <2>1. ParseFrame(received).ret > 0 /\ ParseFrame(received).frame_length \in Nat
    BY <1>a, FoundIsNext
  <2>2. ParseFrame(received).ret \in Int
    <3>1. ParseFrame(Pending).ret \in 1 .. Len(Written(calls[Len(handled) + 1]))
      BY NextPending
    <3>2. ParseFrame(Pending) = ParseFrame(received)
      BY <1>a, FrameStable DEF Pending, FramingInv, FramingTypes
    <3> QED
      BY <3>1, <3>2
  <2> QED
    BY <1>1, <2>1, <2>2
<1>3. spoiled # -1 /\ Len(handled) >= Due /\ Due \in Nat /\ Len(handled) \in Nat
  BY <1>a, <1>2, SpoiledBehind
<1>4. FramingTypes'
  BY <1>1, EmptySeq DEF FramingInv, FramingTypes
<1>5. Due' = Due
  BY <1>1 DEF Due
<1>6. HandledRight'
  BY <1>1, <1>5 DEF FramingInv, HandledRight
<1>7. BytesPending'
  <2> SUFFICES ASSUME Len(handled') <= Due'
               PROVE  \E cut : Laid(cut, Pending', Sent', Len(handled'), Due')
    BY <1>1, <1>3 DEF BytesPending
  <2>1. Len(handled') = Due /\ Due' = Due
    BY <1>1, <1>3, <1>5
  <2>2. Pending' \in Seq(Byte)
    BY <1>4, Joined DEF FramingTypes, Pending
  <2> QED
    BY <1>3, <2>1, <2>2, LaidNone
<1> QED
  BY <1>1, <1>3, <1>4, <1>6, <1>7 DEF FramingInv

(* A frame is the next call that is due, or behind something malformed.     *)
LEMMA HandleFrameKeeps == FramingInv /\ HandleFrame => FramingInv'
<1> SUFFICES ASSUME FramingInv, HandleFrame  PROVE FramingInv'
  OBVIOUS
<1> DEFINE frame == ParseFrame(received)
           h == Len(handled)
<1>1. /\ parsing /\ frame.ret > 0
      /\ handled' = IF frame.type \in 1..14 THEN Append(handled, Found(frame)) ELSE handled
      /\ received' = Rest(received, frame.frame_length)
      /\ calls' = calls /\ wire' = wire /\ parsing' = parsing /\ spoiled' = spoiled
  BY DEF HandleFrame
<1>2. /\ wire \in Seq(Byte) /\ received \in Seq(Byte) /\ IsSequence(handled)
      /\ h \in Nat /\ Due \in Nat /\ Due <= Len(calls) /\ Len(calls) \in Nat
      /\ (spoiled = -1 \/ spoiled \in 0 .. Len(calls))
      /\ \A k \in 1 .. h : k <= Due => Understood(calls[k], handled[k])
  BY FramingFacts DEF FramingInv, FramingTypes, HandledRight
<1>3. Due' = Due
  BY <1>1 DEF Due
<1>4. frame.ret # 0 /\ frame.frame_length \in 1 .. Len(received)
  <2>1. ParseFrame(received).ret > 0
    BY <1>1
  <2> QED
    BY <1>2, <2>1, FrameIsWhole
<1>5. received' \in Seq(Byte)
  BY <1>1, <1>2, <1>4, RestIs
<1>6. /\ IsSequence(Append(handled, Found(frame)))
      /\ Len(Append(handled, Found(frame))) = h + 1
      /\ \A i \in 1 .. h : Append(handled, Found(frame))[i] = handled[i]
      /\ Append(handled, Found(frame))[h + 1] = Found(frame)
  BY <1>2, Appended
<1>7. IsSequence(handled')
  BY <1>1, <1>2, <1>6
<1>8. FramingTypes'
  BY <1>1, <1>5, <1>7 DEF FramingInv, FramingTypes
<1>9. CASE h < Due
  <2> DEFINE m == calls[h + 1]
             n == Len(Written(m))
  <2>1. /\ frame.type \in 1..14 /\ frame.frame_length = n
        /\ Understood(m, FoundIn(received))
        /\ n \in 1 .. Len(received)
        /\ Rest(received, n) \o wire = Rest(Pending, n)
        /\ \E cut : /\ Laid(cut, Rest(Pending, n), Sent, h + 1, Due)
                    /\ spoiled = -1 => cut[Due] = Len(Rest(Pending, n))
    BY <1>4, <1>9, FoundIsNext
  <2>2. Found(frame) = FoundIn(received)
    <3>1. ~(spoiled \in 0 .. Len(handled))
      BY <1>2, <1>9 DEF Due
    <3> HIDE DEF h
    <3> QED
      BY <3>1 DEF Found, FoundIn
  <2>3. /\ Len(handled') = h + 1 /\ handled'[h + 1] = Found(frame)
        /\ \A i \in 1 .. h : handled'[i] = handled[i]
    BY <1>1, <1>6, <2>1
  <2> HIDE DEF frame, n
  <2>4. Pending' = Rest(Pending, n)
    BY <1>1, <2>1 DEF Pending
  <2>5. HandledRight'
    <3>1. ASSUME NEW k \in 1 .. h + 1, k <= Due  PROVE Understood(calls[k], handled'[k])
      <4>1. CASE k = h + 1
        BY <2>1, <2>2, <2>3, <4>1
      <4>2. CASE k \in 1 .. h
        BY <1>2, <2>3, <3>1, <4>2
      <4> QED
        BY <1>2, <4>1, <4>2
    <3> HIDE DEF h
    <3> QED
      BY <1>1, <1>3, <2>3, <3>1 DEF HandledRight
  <2>6. BytesPending'
    BY <1>1, <1>3, <2>1, <2>3, <2>4 DEF BytesPending, Sent
  <2>7. spoiled' = -1 => Len(handled') <= Len(calls')
    BY <1>1, <1>2, <1>9, <2>3
  <2> QED
    BY <1>1, <1>8, <2>5, <2>6, <2>7 DEF FramingInv
<1>10. CASE ~(h < Due)
  <2>1. spoiled # -1 /\ h >= Due
    BY <1>4, <1>10, SpoiledBehind
  <2>2. /\ Len(handled') \in {h, h + 1}
        /\ \A i \in 1 .. h : handled'[i] = handled[i]
    BY <1>1, <1>6
  <2>3. HandledRight'
    <3>1. ASSUME NEW k \in 1 .. Len(handled'), k <= Due  PROVE Understood(calls[k], handled'[k])
      <4>1. k \in 1 .. h
        BY <1>2, <2>1, <2>2, <3>1
      <4> QED
        BY <1>2, <2>2, <3>1, <4>1
    <3> QED
      BY <1>1, <1>3, <3>1 DEF HandledRight
  <2>4. BytesPending'
    <3> SUFFICES ASSUME Len(handled') <= Due'
                 PROVE  \E cut : Laid(cut, Pending', Sent', Len(handled'), Due')
      BY <1>1, <2>1 DEF BytesPending
    <3>1. Len(handled') = Due /\ Due' = Due
      BY <1>2, <1>3, <2>1, <2>2
    <3>2. Pending' \in Seq(Byte)
      BY <1>8, Joined DEF FramingTypes, Pending
    <3> QED
      BY <1>2, <3>1, <3>2, LaidNone
  <2> QED
    BY <1>1, <1>8, <2>1, <2>3, <2>4 DEF FramingInv
<1> QED
  BY <1>9, <1>10

(* What the invariant says of the frames: while nothing is being parsed and *)
(* nothing is on its way, nothing is due.                                   *)
LEMMA NothingDue ==
    ASSUME FramingInv, wire = <<>>, ~parsing
    PROVE  Len(handled) >= Due
<1> SUFFICES ASSUME ~(Len(handled) >= Due)  PROVE FALSE
  OBVIOUS
<1>1. Len(handled) < Due
  BY FramingFacts DEF FramingInv
<1>2. ParseFrame(Pending).ret \in 1 .. Len(Written(calls[Len(handled) + 1]))
  BY <1>1, NextPending
<1>3. received \in Seq(Byte)
  BY DEF FramingInv, FramingTypes
<1>4. Pending = received
  BY <1>3, ConcatEmptySeq DEF Pending
<1>5. ParseFrame(received).ret = 0
  BY DEF FramingInv
<1> QED
  BY <1>2, <1>4, <1>5

LEMMA PacketsFollow == FramingInv => PacketsArrive
<1> SUFFICES ASSUME FramingInv  PROVE PacketsArrive
  OBVIOUS
<1>1. /\ Len(calls) \in Nat /\ Len(handled) \in Nat /\ Due \in 0 .. Len(calls)
      /\ DOMAIN calls = 1 .. Len(calls) /\ DOMAIN handled = 1 .. Len(handled)
      /\ (spoiled = -1 \/ spoiled \in 0 .. Len(calls))
      /\ (spoiled = -1 => Len(handled) <= Len(calls))
      /\ \A k \in 1 .. Len(handled) : k <= Due => Understood(calls[k], handled[k])
  BY FramingFacts DEF FramingInv, FramingTypes, HandledRight
<1>2. FramesIntact
  <2> SUFFICES ASSUME NEW k \in DOMAIN handled, spoiled = -1 \/ k <= spoiled
               PROVE  k \in DOMAIN calls /\ Arrived(k)
    BY DEF FramesIntact
  <2>1. k \in 1 .. Len(handled) /\ k <= Due /\ k \in DOMAIN calls
    BY <1>1 DEF Due
  <2>2. Understood(calls[k], handled[k])
    BY <1>1, <2>1
  <2> QED
    BY <2>1, <2>2 DEF Understood, Arrived
<1>3. NothingStuck
  <2> SUFFICES ASSUME spoiled = -1, wire = <<>>, ~parsing
               PROVE  Len(handled) = Len(calls) /\ received = <<>>
    BY DEF NothingStuck
  <2>1. Len(handled) >= Due /\ Due = Len(calls)
    BY NothingDue DEF Due
  <2>2. Len(handled) = Due
    <3>1. Len(handled) <= Len(calls) /\ Len(handled) \in Nat /\ Len(calls) \in Nat
      BY <1>1
    <3> QED
      BY <2>1, <3>1
  <2> QED
    BY <2>1, <2>2, NonePending
<1>4. EarlierFramesKept
  <2> SUFFICES ASSUME spoiled # -1, wire = <<>>, ~parsing  PROVE Len(handled) >= spoiled
    BY DEF EarlierFramesKept
  <2> QED
    BY NothingDue DEF Due
<1> QED
  BY <1>2, <1>3, <1>4 DEF PacketsArrive

(* Packets arrive as they were sent, whatever they are and however the      *)
(* bytes are cut into reads; and something malformed takes nothing away     *)
(* from the packets before it (stream_mqtt_peek_frame, with the formats and *)
(* the parsers of mqtt.c).                                                  *)
THEOREM PacketsComeThrough == FramingSpec => []PacketsArrive
<1>1. FramingInit => FramingInv
  BY FramingInitially
<1>2. FramingInv /\ [FramingNext]_framingVars => FramingInv'
  <2> SUFFICES ASSUME FramingInv, [FramingNext]_framingVars  PROVE FramingInv'
    OBVIOUS
  <2>1. CASE UNCHANGED framingVars
    <3>1. /\ calls' = calls /\ wire' = wire /\ received' = received /\ handled' = handled
          /\ parsing' = parsing /\ spoiled' = spoiled
      BY <2>1 DEF framingVars
    <3>2. BytesPending' /\ HandledRight'
      BY <3>1, PendingKept DEF Pending
    <3> QED
      BY <3>1, <3>2 DEF FramingInv, FramingTypes
  <2>2. CASE FramingNext
    BY <2>2, SendKeeps, SendMalformedKeeps, ReadBytesKeeps, HandleFrameKeeps,
       DropBufferKeeps, AwaitMoreKeeps DEF FramingNext
  <2> QED
    BY <2>1, <2>2
<1>3. FramingInv => PacketsArrive
  BY PacketsFollow
<1> QED
  BY <1>1, <1>2, <1>3, PTL DEF FramingSpec

-----------------------------------------------------------------------------
(* Bits and masks of WebSocket frames.                                     *)

(* Eight bits and the byte they make.                                       *)
LEMMA ByteOfBits ==
    ASSUME NEW c1 \in 0..1, NEW c2 \in 0..1, NEW c3 \in 0..1, NEW c4 \in 0..1,
           NEW c5 \in 0..1, NEW c6 \in 0..1, NEW c7 \in 0..1, NEW c8 \in 0..1
    PROVE  LET s == c1 + 2 * c2 + 4 * c3 + 8 * c4 + 16 * c5 + 32 * c6 + 64 * c7 + 128 * c8
           IN  /\ s \in 0..255
               /\ Bit(s, 1) = c1 /\ Bit(s, 2) = c2 /\ Bit(s, 4) = c3 /\ Bit(s, 8) = c4
               /\ Bit(s, 16) = c5 /\ Bit(s, 32) = c6 /\ Bit(s, 64) = c7 /\ Bit(s, 128) = c8
  BY SMTT(60) DEF Bit

(* A byte is made of its bits.                                              *)
LEMMA BitsOfByte ==
    ASSUME NEW a \in Byte
    PROVE  /\ \A w \in {1, 2, 4, 8, 16, 32, 64, 128} : Bit(a, w) \in 0..1
           /\ a = Bit(a, 1) + 2 * Bit(a, 2) + 4 * Bit(a, 4) + 8 * Bit(a, 8) + 16 * Bit(a, 16)
                  + 32 * Bit(a, 32) + 64 * Bit(a, 64) + 128 * Bit(a, 128)
<1>1. a \in Nat /\ a < 256
  BY ByteIsNat
<1>2. \A w \in {1, 2, 4, 8, 16, 32, 64, 128} : Bit(a, w) \in 0..1
  BY <1>1, SMTT(60) DEF Bit
<1>3. a = Bit(a, 1) + 2 * Bit(a, 2) + 4 * Bit(a, 4) + 8 * Bit(a, 8) + 16 * Bit(a, 16)
                  + 32 * Bit(a, 32) + 64 * Bit(a, 64) + 128 * Bit(a, 128)
  BY <1>1, SMTT(60) DEF Bit
<1> QED
  BY <1>2, <1>3

(* A bit that is changed twice is as it was.                                *)
LEMMA XorTwice ==
    ASSUME NEW a \in Byte, NEW b \in Byte
    PROVE  ByteXor(a, b) \in Byte /\ ByteXor(ByteXor(a, b), b) = a
<1> DEFINE W == {1, 2, 4, 8, 16, 32, 64, 128}
           x(w) == (Bit(a, w) + Bit(b, w)) % 2
           c == ByteXor(a, b)
<1>1. \A w \in W : Bit(a, w) \in 0..1 /\ Bit(b, w) \in 0..1
  BY BitsOfByte
<1>2. \A w \in W : x(w) \in 0..1
  BY <1>1
<1>3. \A w \in W : (x(w) + Bit(b, w)) % 2 = Bit(a, w)
  <2> TAKE w \in W
  <2>1. \A p, q \in 0..1 : (((p + q) % 2) + q) % 2 = p
    OBVIOUS
  <2> QED
    BY <1>1, <2>1
<1>4. c = x(1) + 2 * x(2) + 4 * x(4) + 8 * x(8) + 16 * x(16) + 32 * x(32) + 64 * x(64)
          + 128 * x(128)
  BY <1>2 DEF ByteXor
<1> HIDE DEF x, c
<1>5. /\ c \in 0..255 /\ \A w \in W : Bit(c, w) = x(w)
  <2>1. /\ x(1) \in 0..1 /\ x(2) \in 0..1 /\ x(4) \in 0..1 /\ x(8) \in 0..1
        /\ x(16) \in 0..1 /\ x(32) \in 0..1 /\ x(64) \in 0..1 /\ x(128) \in 0..1
    BY <1>2
  <2> QED
    BY <1>4, <2>1, ByteOfBits
<1>6. \A w \in W : (Bit(c, w) + Bit(b, w)) % 2 = Bit(a, w)
  BY <1>3, <1>5
<1>7. ByteXor(c, b) = Bit(a, 1) + 2 * Bit(a, 2) + 4 * Bit(a, 4) + 8 * Bit(a, 8) + 16 * Bit(a, 16)
                  + 32 * Bit(a, 32) + 64 * Bit(a, 64) + 128 * Bit(a, 128)
  <2>1. \A w \in W : Bit(a, w) \in Int
    BY <1>1
  <2> QED
    BY <1>6, <2>1 DEF ByteXor
<1>8. ByteXor(c, b) = a
  BY <1>7, BitsOfByte
<1> QED
  BY <1>5, <1>8 DEF c, Byte

(* A mask is taken off by what has put it on (ws_apply_mask).               *)
LEMMA MaskTwice ==
    ASSUME NEW d \in Seq(Byte), NEW m \in Masks
    PROVE  /\ ApplyMask(d, m) \in Seq(Byte) /\ Len(ApplyMask(d, m)) = Len(d)
           /\ ApplyMask(ApplyMask(d, m), m) = d
<1> DEFINE n == Len(d)
           k(i) == m[((i - 1) % MaskSize) + 1]
           e == ApplyMask(d, m)
<1>1. n \in Nat /\ DOMAIN d = 1 .. n /\ \A i \in 1 .. n : d[i] \in Byte
  BY LenProperties, ElementOfSeq
<1>2. \A i \in 1 .. n : k(i) \in Byte
  <2> TAKE i \in 1 .. n
  <2>1. m \in Seq(Byte) /\ Len(m) = 4
    BY DEF Masks, MaskSize
  <2>2. ((i - 1) % MaskSize) + 1 \in 1 .. 4
    BY <1>1 DEF MaskSize
  <2> QED
    BY <2>1, <2>2, ElementOfSeq
<1>3. e = [i \in 1 .. n |-> ByteXor(d[i], k(i))]
  BY <1>1 DEF ApplyMask
<1>4. \A i \in 1 .. n : ByteXor(d[i], k(i)) \in Byte /\ ByteXor(ByteXor(d[i], k(i)), k(i)) = d[i]
  BY <1>1, <1>2, XorTwice
<1> HIDE DEF k
<1>5. e \in [1 .. n -> Byte] /\ \A i \in 1 .. n : e[i] = ByteXor(d[i], k(i))
  BY <1>3, <1>4
<1> HIDE DEF e
<1>6. e \in Seq(Byte)
  BY <1>1, <1>5, SeqDef
<1>7. Len(e) = n /\ DOMAIN e = 1 .. n
  BY <1>1, <1>5, <1>6, LenProperties
<1>8. ApplyMask(e, m) = [i \in 1 .. n |-> ByteXor(e[i], k(i))]
  BY <1>7 DEF ApplyMask, k
<1>9. ApplyMask(e, m) = [i \in 1 .. n |-> d[i]]
  BY <1>4, <1>5, <1>8
<1>10. d = [i \in 1 .. n |-> d[i]]
  BY <1>1, SeqDef
<1> QED
  BY <1>6, <1>7, <1>9, <1>10 DEF e

(* The lowest bytes of a length.                                            *)
LEMMA LowBytesAre ==
    ASSUME NEW n \in WsLengths
    PROVE  LET b == LowBytes(n)
           IN  /\ b \in Seq(Byte) /\ Len(b) = 4 /\ b[1] \in 0..127
               /\ n = 16777216 * b[1] + 65536 * b[2] + 256 * b[3] + b[4]
               /\ n <= 65535 => n = 256 * b[3] + b[4]
<1> DEFINE b1 == (n \div 16777216) % 256
           b2 == (n \div 65536) % 256
           b3 == (n \div 256) % 256
           b4 == (n \div 1) % 256
<1>1. LowBytes(n) = <<b1, b2, b3, b4>>
  BY SMT DEF LowBytes
<1>2. n \in Nat /\ n <= 2147483647
  BY SMT DEF WsLengths
<1>3. b1 \in 0..255 /\ b2 \in 0..255 /\ b3 \in 0..255 /\ b4 \in 0..255
  BY <1>2, SMT
<1>4. /\ n = 256 * (n \div 256) + b4
      /\ n \div 256 = 256 * (n \div 65536) + b3
      /\ n \div 65536 = 256 * (n \div 16777216) + b2
      /\ b1 = n \div 16777216 /\ b1 \in 0..127
      /\ n \div 256 \in Nat /\ n \div 65536 \in Nat
  BY <1>2, SMT
<1>5. n <= 65535 => b3 = n \div 256
  BY <1>2, SMT
<1>6. /\ n = 16777216 * b1 + 65536 * b2 + 256 * b3 + b4
      /\ n <= 65535 => n = 256 * b3 + b4
  <2> DEFINE q == n \div 256
             r == n \div 65536
  <2>1. /\ q \in Nat /\ r \in Nat /\ n = 256 * q + b4 /\ q = 256 * r + b3 /\ r = 256 * b1 + b2
        /\ n <= 65535 => b3 = q
    BY <1>4, <1>5, SMT
  <2> HIDE DEF q, r, b1, b2, b3, b4
  <2> QED
    BY <1>3, <2>1, SMT
<1> HIDE DEF b1, b2, b3, b4
<1>7. <<b1, b2, b3, b4>> \in Seq(Byte) /\ Len(<<b1, b2, b3, b4>>) = 4
  BY <1>3, SMT DEF Byte
<1> QED
  BY <1>1, <1>4, <1>6, <1>7, SMT

-----------------------------------------------------------------------------
(* The header of a frame.                                                  *)

\* The bytes of d are found in data behind the first p.
LiesAt(data, p, d) == \A i \in 1 .. Len(d) : data[p + i] = d[i]

(* A length is read as it was written, of each of its three classes         *)
(* (ws_format_frame, ws_parse_frame).                                       *)
WsLengthRead(data, n, flag) ==
    LET d == LengthField(n, flag)
        e == ExtendedSize(data[2] % 128)
    IN  /\ d \in Seq(Byte) /\ e \in {0, 2, 8} /\ Len(d) = 1 + e
        /\ data[2] > 127 <=> flag = 128
        /\ PayloadLength(data) = n

(* A length that is its own field.                                          *)
LEMMA ShortLengthRead ==
    ASSUME NEW n \in Nat, n < 126, NEW flag \in {0, 128}, NEW data,
           LiesAt(data, 1, LengthField(n, flag))
    PROVE  WsLengthRead(data, n, flag)
<1> DEFINE d == LengthField(n, flag)
<1>1. d = <<n + flag>>
  BY SMT DEF LengthField
<1>2. d \in Seq(Byte) /\ Len(d) = 1 /\ d[1] = n + flag
  BY <1>1 DEF Byte
<1>3. data[2] = n + flag
  <2>1. \A i \in 1 .. Len(d) : data[1 + i] = d[i]
    BY DEF LiesAt
  <2> HIDE DEF d
  <2>2. data[1 + 1] = d[1]
    BY <1>2, <2>1
  <2> QED
    BY <1>2, <2>2
<1> HIDE DEF d
<1>4. data[2] % 128 = n /\ (data[2] > 127 <=> flag = 128)
  BY <1>3
<1>5. ExtendedSize(data[2] % 128) = 0 /\ PayloadLength(data) = n
  BY <1>4 DEF ExtendedSize, PayloadLength
<1> QED
  BY <1>2, <1>4, <1>5 DEF WsLengthRead, d

(* The bytes of the two longer fields.                                      *)
LEMMA MediumBytes ==
    ASSUME NEW x \in Byte, NEW b \in Seq(Byte), Len(b) = 4
    PROVE  LET d == <<x>> \o Rest(b, 2)
           IN  /\ d \in Seq(Byte) /\ Len(d) = 3
               /\ d[1] = x /\ d[2] = b[3] /\ d[3] = b[4]
<1> DEFINE h == <<x>>
           r == Rest(b, 2)
           d == h \o r
<1>1. r \in Seq(Byte) /\ Len(r) = 2 /\ r[1] = b[3] /\ r[2] = b[4]
  <2>1. 2 \in 0 .. Len(b)
    OBVIOUS
  <2>2. /\ r \in Seq(Byte) /\ Len(r) = Len(b) - 2
        /\ \A i \in 1 .. Len(b) - 2 : r[i] = b[2 + i]
    BY <2>1, RestIs
  <2> HIDE DEF r
  <2>3. r[1] = b[2 + 1] /\ r[2] = b[2 + 2]
    BY <2>2
  <2> QED
    BY <2>2, <2>3
<1>2. h \in Seq(Byte) /\ Len(h) = 1 /\ h[1] = x
  OBVIOUS
<1> HIDE DEF h, r
<1>3. d \in Seq(Byte) /\ Len(d) = Len(h) + Len(r)
  BY <1>1, <1>2, Joined
<1>4. \A i \in 1 .. Len(h) + Len(r) : d[i] = IF i <= Len(h) THEN h[i] ELSE r[i - Len(h)]
  BY <1>1, <1>2, JoinedAt
<1> HIDE DEF d
<1>5. d[1] = h[1] /\ d[2] = r[2 - 1] /\ d[3] = r[3 - 1]
  BY <1>1, <1>2, <1>4
<1>6. d \in Seq(Byte) /\ Len(d) = 3 /\ d[1] = x /\ d[2] = b[3] /\ d[3] = b[4]
  BY <1>1, <1>2, <1>3, <1>5
<1> QED
  BY <1>6 DEF d, h, r

(* The same of the field with eight bytes.                                  *)
LEMMA LongBytes ==
    ASSUME NEW x \in Byte, NEW b \in Seq(Byte), Len(b) = 4
    PROVE  LET d == <<x, 0, 0, 0, 0>> \o b
           IN  /\ d \in Seq(Byte) /\ Len(d) = 9
               /\ d[1] = x /\ d[2] = 0 /\ d[3] = 0 /\ d[4] = 0 /\ d[5] = 0
               /\ d[6] = b[1] /\ d[7] = b[2] /\ d[8] = b[3] /\ d[9] = b[4]
<1> DEFINE h == <<x, 0, 0, 0, 0>>
           d == h \o b
<1>1. /\ h \in Seq(Byte) /\ Len(h) = 5 /\ h[1] = x
      /\ h[2] = 0 /\ h[3] = 0 /\ h[4] = 0 /\ h[5] = 0
  BY DEF Byte
<1> HIDE DEF h
<1>2. d \in Seq(Byte) /\ Len(d) = Len(h) + Len(b)
  BY <1>1, Joined
<1>3. \A i \in 1 .. Len(h) + Len(b) : d[i] = IF i <= Len(h) THEN h[i] ELSE b[i - Len(h)]
  BY <1>1, JoinedAt
<1> HIDE DEF d
<1>4. /\ d[1] = h[1] /\ d[2] = h[2] /\ d[3] = h[3] /\ d[4] = h[4] /\ d[5] = h[5]
      /\ d[6] = b[6 - 5] /\ d[7] = b[7 - 5] /\ d[8] = b[8 - 5] /\ d[9] = b[9 - 5]
  BY <1>1, <1>3
<1> QED
  BY <1>1, <1>2, <1>4 DEF d, h

(* A length in two bytes.                                                   *)
LEMMA MediumLengthRead ==
    ASSUME NEW n \in Nat, n >= 126, n <= 65535, NEW flag \in {0, 128}, NEW data,
           LiesAt(data, 1, LengthField(n, flag))
    PROVE  WsLengthRead(data, n, flag)
<1> DEFINE d == LengthField(n, flag)
           b == LowBytes(n)
<1>1. b \in Seq(Byte) /\ Len(b) = 4 /\ n = 256 * b[3] + b[4]
  <2>1. n \in WsLengths
    BY SMT DEF WsLengths
  <2> QED
    BY <2>1, LowBytesAre, SMT
<1>2. d = <<126 + flag>> \o Rest(b, 2)
  BY SMT DEF LengthField
<1> HIDE DEF b, d
<1>3. d \in Seq(Byte) /\ Len(d) = 3 /\ d[1] = 126 + flag /\ d[2] = b[3] /\ d[3] = b[4]
  <2>1. 126 + flag \in Byte
    BY SMT DEF Byte
  <2> QED
    BY <1>1, <1>2, <2>1, MediumBytes, SMT
<1>4. data[2] = d[1] /\ data[3] = d[2] /\ data[4] = d[3]
  <2>1. LiesAt(data, 1, d)
    BY SMT DEF d
  <2>2. \A i \in 1 .. 3 : data[1 + i] = d[i]
    BY <1>3, <2>1, SMT DEF LiesAt
  <2>3. data[1 + 1] = d[1] /\ data[1 + 2] = d[2] /\ data[1 + 3] = d[3]
    BY <2>2, SMT
  <2> QED
    BY <2>3, SMT
<1>5. data[2] % 128 = 126 /\ (data[2] > 127 <=> flag = 128)
  BY <1>3, <1>4, SMT
<1>6. ExtendedSize(data[2] % 128) = 2 /\ PayloadLength(data) = n
  BY <1>1, <1>3, <1>4, <1>5, SMT DEF ExtendedSize, PayloadLength
<1> QED
  BY <1>3, <1>5, <1>6, SMT DEF WsLengthRead, d

(* A length in eight bytes, the highest four of them 0.                     *)
LEMMA LongLengthRead ==
    ASSUME NEW n \in WsLengths, n > 65535, NEW flag \in {0, 128}, NEW data,
           LiesAt(data, 1, LengthField(n, flag))
    PROVE  WsLengthRead(data, n, flag)
<1> DEFINE d == LengthField(n, flag)
           b == LowBytes(n)
<1>1. b \in Seq(Byte) /\ Len(b) = 4 /\ b[1] \in 0..127
  BY LowBytesAre, SMT
<1>a. n = 16777216 * b[1] + 65536 * b[2] + 256 * b[3] + b[4]
  BY LowBytesAre, SMT
<1>2. d = <<127 + flag, 0, 0, 0, 0>> \o b
  <2>1. n \in Nat
    BY SMT DEF WsLengths
  <2> QED
    BY <2>1, SMT DEF LengthField
<1> HIDE DEF b, d
<1>3. /\ d \in Seq(Byte) /\ Len(d) = 9
      /\ d[1] = 127 + flag /\ d[2] = 0 /\ d[3] = 0 /\ d[4] = 0 /\ d[5] = 0
      /\ d[6] = b[1] /\ d[7] = b[2] /\ d[8] = b[3] /\ d[9] = b[4]
  <2>1. 127 + flag \in Byte
    BY SMT DEF Byte
  <2> QED
    BY <1>1, <1>2, <2>1, LongBytes, SMT
<1>4. /\ data[2] = d[1] /\ data[3] = d[2] /\ data[4] = d[3] /\ data[5] = d[4] /\ data[6] = d[5]
      /\ data[7] = d[6] /\ data[8] = d[7] /\ data[9] = d[8] /\ data[10] = d[9]
  <2>1. LiesAt(data, 1, d)
    BY SMT DEF d
  <2>2. \A i \in 1 .. 9 : data[1 + i] = d[i]
    BY <1>3, <2>1, SMT DEF LiesAt
  <2>3. /\ data[1 + 1] = d[1] /\ data[1 + 2] = d[2] /\ data[1 + 3] = d[3]
        /\ data[1 + 4] = d[4] /\ data[1 + 5] = d[5] /\ data[1 + 6] = d[6]
        /\ data[1 + 7] = d[7] /\ data[1 + 8] = d[8] /\ data[1 + 9] = d[9]
    BY <2>2, SMT
  <2> QED
    BY <2>3, SMT
<1>5. data[2] % 128 = 127 /\ (data[2] > 127 <=> flag = 128)
  BY <1>3, <1>4, SMT
<1>6. LongLength(data) = n
  <2>1. /\ data[3] = 0 /\ data[4] = 0 /\ data[5] = 0 /\ data[6] = 0
        /\ data[7] \in 0..127
    BY <1>1, <1>3, <1>4, SMT
  <2>a. \A i \in 3..6 : data[i] = 0
    <3> TAKE i \in 3..6
    <3>1. i = 3 \/ i = 4 \/ i = 5 \/ i = 6
      BY SMT
    <3> QED
      BY <2>1, <3>1, SMT
  <2>2. ~(\E i \in 3..6 : data[i] # 0 \/ data[7] > 127)
    BY <2>1, <2>a, SMT
  <2>3. LongLength(data) = 16777216 * data[7] + 65536 * data[8] + 256 * data[9] + data[10]
    BY <2>2, SMT DEF LongLength
  <2> QED
    BY <1>a, <1>3, <1>4, <2>3, SMT
<1>7. ExtendedSize(data[2] % 128) = 8 /\ PayloadLength(data) = n
  BY <1>5, <1>6, SMT DEF ExtendedSize, PayloadLength
<1> QED
  BY <1>3, <1>5, <1>7, SMT DEF WsLengthRead, d

(* A length of any class.                                                   *)
LEMMA WsLengthComesBack ==
    ASSUME NEW n \in WsLengths, NEW flag \in {0, 128}, NEW data,
           LiesAt(data, 1, LengthField(n, flag))
    PROVE  WsLengthRead(data, n, flag)
<1>1. n \in Nat
  BY SMT DEF WsLengths
<1>2. n < 126 \/ (n >= 126 /\ n <= 65535) \/ n > 65535
  BY <1>1
<1> QED
  BY <1>1, <1>2, ShortLengthRead, MediumLengthRead, LongLengthRead

(* The field of a length is a sequence of bytes.                            *)
LEMMA FieldIsBytes ==
    ASSUME NEW n \in WsLengths, NEW flag \in {0, 128}
    PROVE  LengthField(n, flag) \in Seq(Byte)
<1> DEFINE b == LowBytes(n)
<1>1. b \in Seq(Byte) /\ Len(b) = 4
  BY LowBytesAre, SMT
<1>2. n \in Nat
  BY SMT DEF WsLengths
<1>3. CASE n > 65535
  <2>1. LengthField(n, flag) = <<127 + flag, 0, 0, 0, 0>> \o b
    BY <1>2, <1>3, SMT DEF LengthField
  <2>2. 127 + flag \in Byte
    BY SMT DEF Byte
  <2> HIDE DEF b
  <2> QED
    BY <1>1, <2>1, <2>2, LongBytes, SMT
<1>4. CASE n >= 126 /\ n <= 65535
  <2>1. LengthField(n, flag) = <<126 + flag>> \o Rest(b, 2)
    BY <1>2, <1>4, SMT DEF LengthField
  <2>2. 126 + flag \in Byte
    BY SMT DEF Byte
  <2> HIDE DEF b
  <2> QED
    BY <1>1, <2>1, <2>2, MediumBytes, SMT
<1>5. CASE n < 126
  <2>1. LengthField(n, flag) = <<n + flag>>
    BY <1>2, <1>5, SMT DEF LengthField
  <2>2. n + flag \in Byte
    BY <1>2, <1>5, SMT DEF Byte
  <2>3. <<n + flag>> \in Seq(Byte)
    BY <2>2, SMT
  <2> QED
    BY <2>1, <2>3, SMT
<1> QED
  BY <1>2, <1>3, <1>4, <1>5, SMT

(* What is joined lies one behind the other.                                *)
LEMMA LiesParts ==
    ASSUME NEW s \in Seq(Byte), NEW t \in Seq(Byte), NEW p \in Nat, NEW data,
           LiesAt(data, p, s \o t)
    PROVE  LiesAt(data, p, s) /\ LiesAt(data, p + Len(s), t)
<1> DEFINE b == s \o t
<1>1. b \in Seq(Byte) /\ Len(b) = Len(s) + Len(t) /\ Len(s) \in Nat /\ Len(t) \in Nat
  BY Joined
<1>2. \A i \in 1 .. Len(s) + Len(t) : b[i] = IF i <= Len(s) THEN s[i] ELSE t[i - Len(s)]
  BY JoinedAt
<1>3. \A i \in 1 .. Len(b) : data[p + i] = b[i]
  BY DEF LiesAt
<1> HIDE DEF b
<1>4. ASSUME NEW i \in 1 .. Len(s)  PROVE data[p + i] = s[i]
  <2>1. i \in 1 .. Len(b) /\ i \in 1 .. Len(s) + Len(t) /\ i <= Len(s)
    BY <1>1
  <2>2. data[p + i] = b[i]
    BY <1>3, <2>1
  <2> QED
    BY <1>2, <2>1, <2>2
<1>5. ASSUME NEW i \in 1 .. Len(t)  PROVE data[(p + Len(s)) + i] = t[i]
  <2> DEFINE j == Len(s) + i
  <2>1. /\ j \in 1 .. Len(b) /\ j \in 1 .. Len(s) + Len(t) /\ ~(j <= Len(s)) /\ j - Len(s) = i
        /\ p + j = (p + Len(s)) + i
    BY <1>1
  <2> HIDE DEF j
  <2>2. data[p + j] = b[j]
    BY <1>3, <2>1
  <2>3. b[j] = t[j - Len(s)]
    BY <1>2, <2>1
  <2> QED
    BY <2>1, <2>2, <2>3
<1> QED
  BY <1>4, <1>5 DEF LiesAt

(* What lies at a place is cut out there.                                   *)
LEMMA LiesCut ==
    ASSUME NEW data \in Seq(Byte), NEW d \in Seq(Byte), NEW p \in Nat,
           LiesAt(data, p, d), p + Len(d) <= Len(data)
    PROVE  SubSeq(data, p + 1, p + Len(d)) = d
<1> DEFINE m == p + 1
           n == p + Len(d)
           c == SubSeq(data, m, n)
<1>1. Len(d) \in Nat /\ Len(data) \in Nat /\ m \in Int /\ n \in Int
  BY LenProperties
<1>2. \A i \in 1 .. Len(d) : data[p + i] = d[i]
  BY DEF LiesAt
<1>3. n <= Len(data) /\ n - m + 1 = Len(d) /\ (IF m <= n THEN n - m + 1 ELSE 0) = Len(d)
      /\ 1 <= m /\ \A i \in 1 .. Len(d) : m + i - 1 = p + i
  BY <1>1
<1> HIDE DEF m, n
<1>4. \A i \in m .. n : data[i] \in Byte
  <2> TAKE i \in m .. n
  <2>1. i \in 1 .. Len(data)
    BY <1>1, <1>3
  <2> QED
    BY <2>1, ElementOfSeq
<1>5. /\ c \in Seq(Byte) /\ Len(c) = (IF m <= n THEN n - m + 1 ELSE 0)
      /\ \A i \in 1 .. n - m + 1 : c[i] = data[m + i - 1]
  BY <1>1, <1>4, SubSeqProperties
<1> HIDE DEF c
<1>6. Len(c) = Len(d) /\ \A i \in 1 .. Len(c) : c[i] = d[i]
  BY <1>1, <1>2, <1>3, <1>5
<1>7. c = d
  BY <1>5, <1>6, SameBytes
<1> QED
  BY <1>7 DEF c, m, n

(* A header is read as it was written.                                      *)
HeaderReadAs(data, f, n) ==
    LET h == Header(f, n)
        e == MinHeaderSize + ExtendedSize(data[2] % 128)
    IN  /\ h \in Seq(Byte) /\ Len(h) \in 2..14
        /\ HeaderSize(data) = Len(h) /\ PayloadLength(data) = n
        /\ e \in 2 .. Len(h)
        /\ (data[1] > 127) = f.fin /\ data[1] % 16 = f.opcode
        /\ (data[2] > 127) = (f.mask # NULL)
        /\ f.mask # NULL => LiesAt(data, e, f.mask) /\ e + MaskSize = Len(h)

\* h is the byte x, then the field d of the length, then the mask m.
HeaderMadeOf(h, f, x, d, m) ==
    /\ h = (<<x>> \o d) \o m
    /\ x \in Byte /\ d \in Seq(Byte) /\ m \in Seq(Byte)
    /\ Len(m) = IF f.mask = NULL THEN 0 ELSE 4

(* A header is a first byte, the field of the length and the mask.          *)
LEMMA HeaderParts ==
    ASSUME NEW f, f.fin \in BOOLEAN, f.opcode \in 0..15, f.mask \in Masks \cup {NULL},
           NULL \notin Masks, NEW n \in WsLengths
    PROVE  HeaderMadeOf(Header(f, n), f, (IF f.fin THEN 128 ELSE 0) + f.opcode,
                        LengthField(n, IF f.mask = NULL THEN 0 ELSE 128),
                        IF f.mask = NULL THEN <<>> ELSE f.mask)
<1> DEFINE flag == IF f.mask = NULL THEN 0 ELSE 128
           x == (IF f.fin THEN 128 ELSE 0) + f.opcode
           m == IF f.mask = NULL THEN <<>> ELSE f.mask
<1>1. x \in Byte
  BY SMT DEF Byte
<1>2. m \in Seq(Byte) /\ Len(m) = IF f.mask = NULL THEN 0 ELSE 4
  BY EmptySeq DEF Masks, MaskSize
<1>3. flag \in {0, 128}
  OBVIOUS
<1> HIDE DEF flag
<1>4. LengthField(n, flag) \in Seq(Byte)
  BY <1>3, FieldIsBytes
<1>5. Header(f, n) = (<<x>> \o LengthField(n, flag)) \o m
  BY DEF Header, flag
<1> HIDE DEF x, m
<1> DEFINE h == Header(f, n)
           d == LengthField(n, flag)
<1> HIDE DEF h, d
<1>6. h = (<<x>> \o d) \o m /\ d \in Seq(Byte)
  BY <1>4, <1>5 DEF h, d, x, m
<1>7. HeaderMadeOf(h, f, x, d, m)
  BY <1>1, <1>2, <1>6 DEF HeaderMadeOf
<1> QED
  BY <1>7 DEF flag, x, m, h, d

(* The header of a frame, wherever it is read from (ws_parse_frame).        *)
LEMMA HeaderComesBack ==
    ASSUME NEW f, f.fin \in BOOLEAN, f.opcode \in 0..15, f.mask \in Masks \cup {NULL},
           NULL \notin Masks, NEW n \in WsLengths, NEW data,
           LiesAt(data, 0, Header(f, n))
    PROVE  HeaderReadAs(data, f, n)
<1> DEFINE flag == IF f.mask = NULL THEN 0 ELSE 128
           x == (IF f.fin THEN 128 ELSE 0) + f.opcode
           d == LengthField(n, flag)
           m == IF f.mask = NULL THEN <<>> ELSE f.mask
           g == <<x>>
           gd == g \o d
           h == Header(f, n)
           k == ExtendedSize(data[2] % 128)
<1>a. HeaderMadeOf(h, f, x, d, m)
  BY HeaderParts
<1>2. flag \in {0, 128} /\ (flag = 128 <=> f.mask # NULL)
  OBVIOUS
<1>3. (x > 127) = f.fin /\ x % 16 = f.opcode
  <2>1. f.fin = TRUE \/ f.fin = FALSE
    OBVIOUS
  <2>2. CASE f.fin = TRUE
    BY <2>2
  <2>3. CASE f.fin = FALSE
    BY <2>3
  <2> QED
    BY <2>1, <2>2, <2>3
<1>4. f.mask # NULL => m = f.mask
  OBVIOUS
<1> HIDE DEF flag, x, d, m, h
<1>1. /\ h = gd \o m
      /\ x \in Byte /\ d \in Seq(Byte) /\ m \in Seq(Byte)
      /\ Len(m) = IF f.mask = NULL THEN 0 ELSE 4
  BY <1>a DEF HeaderMadeOf
<1>b. LiesAt(data, 0, h)
  BY DEF h
<1>5. g \in Seq(Byte) /\ Len(g) = 1 /\ g[1] = x
  BY <1>1
<1> HIDE DEF g
<1>6. gd \in Seq(Byte) /\ Len(gd) = Len(g) + Len(d) /\ Len(d) \in Nat
  BY <1>1, <1>5, Joined
<1>7. LiesAt(data, 0, g) /\ LiesAt(data, 1, d)
  <2>1. LiesAt(data, 0, gd)
    <3> HIDE DEF gd
    <3>1. LiesAt(data, 0, gd \o m) /\ 0 \in Nat
      BY <1>1, <1>b
    <3> QED
      BY <1>1, <1>6, <3>1, LiesParts
  <2>2. LiesAt(data, 0, g) /\ LiesAt(data, 0 + Len(g), d)
    <3>1. 0 \in Nat
      OBVIOUS
    <3> QED
      BY <1>1, <1>5, <2>1, <3>1, LiesParts
  <2>3. 0 + Len(g) = 1
    BY <1>5
  <2> QED
    BY <2>2, <2>3
<1>8. LiesAt(data, Len(gd), m)
  <2> HIDE DEF gd
  <2>1. LiesAt(data, 0, gd \o m) /\ 0 \in Nat
    BY <1>1, <1>b
  <2>2. LiesAt(data, 0 + Len(gd), m)
    BY <1>1, <1>6, <2>1, LiesParts
  <2>3. 0 + Len(gd) = Len(gd)
    BY <1>5, <1>6
  <2> QED
    BY <2>2, <2>3
<1>9. h \in Seq(Byte) /\ Len(h) = Len(gd) + Len(m)
  <2> HIDE DEF gd
  <2> QED
    BY <1>1, <1>6, Joined
<1> HIDE DEF gd
<1>10. data[1] = x
  <2>1. data[0 + 1] = g[1]
    <3>1. 1 \in 1 .. Len(g)
      BY <1>5
    <3> QED
      BY <1>7, <3>1 DEF LiesAt
  <2> QED
    BY <1>5, <2>1
<1>11. /\ k \in {0, 2, 8} /\ Len(d) = 1 + k
       /\ (data[2] > 127 <=> flag = 128)
       /\ PayloadLength(data) = n
  <2>1. WsLengthRead(data, n, flag)
    BY <1>2, <1>7, WsLengthComesBack DEF d
  <2> QED
    BY <2>1 DEF WsLengthRead, d
<1> HIDE DEF k
<1>12. Len(gd) = 2 + k /\ Len(h) = 2 + k + (IF f.mask = NULL THEN 0 ELSE 4) /\ k \in Nat
  BY <1>1, <1>5, <1>6, <1>9, <1>11
<1>13. (data[2] > 127) = (f.mask # NULL)
  BY <1>2, <1>11
<1>14. HeaderSize(data) = Len(h)
  BY <1>12, <1>13 DEF HeaderSize, MinHeaderSize, MaskSize, k
<1>15. Len(h) \in 2..14 /\ 2 + k \in 2 .. Len(h)
  BY <1>11, <1>12
<1>16. f.mask # NULL => LiesAt(data, 2 + k, f.mask) /\ (2 + k) + 4 = Len(h)
  BY <1>4, <1>8, <1>12
<1> QED
  BY <1>3, <1>9, <1>10, <1>11, <1>13, <1>14, <1>15, <1>16
     DEF HeaderReadAs, MinHeaderSize, MaskSize, h, k

-----------------------------------------------------------------------------
(* A frame, and what is read of it.                                        *)

(* The lengths of headers are numbers.                                      *)
LEMMA InRange ==
    ASSUME NEW l, l \in 2..14
    PROVE  l \in Nat /\ l >= 2 /\ l <= 14
  OBVIOUS

(* What ws_parse_frame makes of the first k bytes of a frame with n bytes   *)
(* of payload: it is complete when they all are there; before that it asks  *)
(* for more than there are, and never for more than the frame has.          *)
FrameReadAs(r, data, k, f, h, n) ==
    LET size == Len(h) + n
    IN  /\ r.complete <=> k >= size
        /\ k < size => r.frame_length \in k + 1 .. size
        /\ k >= size =>
            /\ r.frame_length = size
            /\ r.fin = f.fin /\ r.opcode = f.opcode /\ r.masked = (f.mask # NULL)
            /\ r.payload_offset = Len(h) /\ r.payload_length = n
            /\ f.mask # NULL =>
                /\ r.mask_offset \in Nat /\ LiesAt(data, r.mask_offset, f.mask)
                /\ r.mask_offset + MaskSize = Len(h)

(* The first k bytes of a frame, or of more than the frame.                 *)
LEMMA FrameRead ==
    ASSUME NEW f, f.fin \in BOOLEAN, f.opcode \in 0..15, f.mask \in Masks \cup {NULL},
           NULL \notin Masks, NEW n \in WsLengths, NEW k \in Nat, NEW data,
           \A i \in 1 .. Len(Header(f, n)) : i <= k => data[i] = Header(f, n)[i]
    PROVE  FrameReadAs(ParseWsFrame(data, k), data, k, f, Header(f, n), n)
<1> DEFINE h == Header(f, n)
           r == ParseWsFrame(data, k)
           size == Len(h) + n
<1>1. n \in Nat
  BY SMT DEF WsLengths
<1>2. /\ h \in Seq(Byte) /\ Len(h) \in 2..14 /\ HeaderSize(h) = Len(h)
  <2>1. LiesAt(h, 0, h)
    <3> HIDE DEF h
    <3>1. \A i \in 1 .. Len(h) : 0 + i = i
      OBVIOUS
    <3> QED
      BY <3>1 DEF LiesAt
  <2>2. HeaderReadAs(h, f, n)
    BY <2>1, HeaderComesBack
  <2> QED
    BY <2>2 DEF HeaderReadAs
<1>a. Len(h) \in Nat /\ Len(h) >= 2 /\ Len(h) <= 14
  <2>1. Len(h) \in 2..14
    BY <1>2
  <2> HIDE DEF h
  <2> QED
    BY <2>1, InRange
<1>3. \A i \in 1 .. Len(h) : i <= k => data[i] = h[i]
  OBVIOUS
<1>4. CASE k < 2
  <2>1. r = [complete |-> FALSE, frame_length |-> 2]
    BY <1>4 DEF ParseWsFrame, MinHeaderSize
  <2> HIDE DEF h, r
  <2>2. r.complete = FALSE /\ r.frame_length = 2
    BY <2>1
  <2>3. ~(k >= size) /\ 2 \in k + 1 .. size
    BY <1>1, <1>a, <1>4
  <2>4. FrameReadAs(r, data, k, f, h, n)
    <3>1. r.complete <=> k >= size
      <4>1. r.complete = FALSE /\ ~(k >= size)
        BY <2>2, <2>3
      <4> HIDE DEF size
      <4> QED
        BY <4>1, Zenon
    <3>2. k < size => r.frame_length \in k + 1 .. size
      BY <2>2, <2>3
    <3>3. ~(k >= size)
      BY <2>3
    <3> QED
      BY <3>1, <3>2, <3>3 DEF FrameReadAs
  <2> QED
    BY <2>4 DEF r, h
<1>5. k >= 2 => HeaderSize(data) = Len(h)
  <2> HIDE DEF h
  <2>1. SUFFICES ASSUME k >= 2  PROVE HeaderSize(data) = Len(h)
    OBVIOUS
  <2>2. data[2] = h[2]
    BY <1>2, <1>3, <2>1
  <2> QED
    BY <1>2, <2>2 DEF HeaderSize
<1>6. CASE k >= 2 /\ k < Len(h)
  <2>1. r = [complete |-> FALSE, frame_length |-> HeaderSize(data)]
    BY <1>1, <1>2, <1>5, <1>6 DEF ParseWsFrame, MinHeaderSize
  <2> HIDE DEF h, r
  <2>2. r.complete = FALSE /\ r.frame_length = Len(h)
    BY <1>5, <1>6, <2>1
  <2>3. ~(k >= size) /\ Len(h) \in k + 1 .. size
    BY <1>1, <1>a, <1>6
  <2>4. FrameReadAs(r, data, k, f, h, n)
    <3>1. r.complete <=> k >= size
      <4>1. r.complete = FALSE /\ ~(k >= size)
        BY <2>2, <2>3
      <4> HIDE DEF size
      <4> QED
        BY <4>1, Zenon
    <3>2. k < size => r.frame_length \in k + 1 .. size
      BY <2>2, <2>3
    <3>3. ~(k >= size)
      BY <2>3
    <3> QED
      BY <3>1, <3>2, <3>3 DEF FrameReadAs
  <2> QED
    BY <2>4 DEF r, h
<1>7. CASE k >= Len(h)
  <2>1. k >= 2
    <3> HIDE DEF h
    <3> QED
      BY <1>a, <1>7
  <2>2. LiesAt(data, 0, h)
    <3> HIDE DEF h
    <3>1. \A i \in 1 .. Len(h) : 0 + i = i /\ i <= k
      BY <1>a, <1>7
    <3> QED
      BY <1>3, <3>1 DEF LiesAt
  <2>3. HeaderReadAs(data, f, n)
    BY <2>2, HeaderComesBack
  <2> DEFINE e == MinHeaderSize + ExtendedSize(data[2] % 128)
  <2>4. /\ HeaderSize(data) = Len(h) /\ PayloadLength(data) = n
        /\ e \in 2 .. Len(h)
        /\ (data[1] > 127) = f.fin /\ data[1] % 16 = f.opcode
        /\ (data[2] > 127) = (f.mask # NULL)
        /\ f.mask # NULL => LiesAt(data, e, f.mask) /\ e + MaskSize = Len(h)
    BY <2>3 DEF HeaderReadAs
  <2> HIDE DEF e, h
  <2>5. r = [complete |-> k >= Len(h) + n, frame_length |-> Len(h) + n,
              fin |-> data[1] > 127, opcode |-> data[1] % 16, masked |-> data[2] > 127,
              mask_offset |-> e,
              payload_offset |-> Len(h), payload_length |-> (Len(h) + n) - Len(h)]
    <3>1. ~(k < MinHeaderSize) /\ ~(k < HeaderSize(data))
      BY <1>a, <1>7, <2>1, <2>4 DEF MinHeaderSize
    <3> QED
      BY <2>4, <3>1 DEF ParseWsFrame, e
  <2> HIDE DEF r
  <2>6. /\ r.complete = (k >= size) /\ r.frame_length = size
        /\ r.fin = f.fin /\ r.opcode = f.opcode /\ r.masked = (f.mask # NULL)
        /\ r.payload_offset = Len(h) /\ r.payload_length = n /\ r.mask_offset = e
    <3>1. (Len(h) + n) - Len(h) = n
      BY <1>1, <1>a
    <3> QED
      BY <2>4, <2>5, <3>1
  <2>7. k < size => r.frame_length \in k + 1 .. size
    BY <1>1, <1>2, <2>6
  <2>8. e \in Nat
    BY <1>2, <2>4
  <2> QED
    <3>1. FrameReadAs(r, data, k, f, h, n)
      BY <2>4, <2>6, <2>7, <2>8 DEF FrameReadAs
    <3> QED
      BY <3>1 DEF h, r
<1> HIDE DEF h
<1> QED
  BY <1>2, <1>4, <1>6, <1>7

(* The header of a length, and each part of the frame behind it.            *)
PartRead(n, h, k) ==
    LET part == ParseWsFrame(Front(h, Lesser(k, Len(h))), k)
    IN  ~part.complete /\ part.frame_length \in k + 1 .. Len(h) + n

PartLengths(n, h) == {k \in (0 .. Len(h)) \cup {Len(h) + n - 1} : k < Len(h) + n}

LengthDecoded(n, h) ==
    LET f == ParseWsFrame(h, Len(h) + n)
    IN  /\ Len(h) <= MaxHeaderSize
        /\ f.complete /\ f.payload_length = n /\ f.payload_offset = Len(h)
        /\ \A k \in PartLengths(n, h) : PartRead(n, h, k)

(* The header of any length and with any mask.                              *)
LEMMA HeaderDecoded ==
    ASSUME NEW f, f.fin \in BOOLEAN, f.opcode \in 0..15, f.mask \in Masks \cup {NULL},
           NULL \notin Masks, NEW n \in WsLengths
    PROVE  LengthDecoded(n, Header(f, n))
<1> DEFINE h == Header(f, n)
           size == Len(h) + n
           r == ParseWsFrame(h, size)
<1>2. n \in Nat
  BY SMT DEF WsLengths
<1>5. h \in Seq(Byte) /\ Len(h) \in 2..14
  <2>1. LiesAt(h, 0, h)
    <3> HIDE DEF h
    <3>1. \A i \in 1 .. Len(h) : 0 + i = i
      OBVIOUS
    <3> QED
      BY <3>1 DEF LiesAt
  <2>2. HeaderReadAs(h, f, n)
    BY <2>1, HeaderComesBack
  <2> QED
    BY <2>2 DEF HeaderReadAs
<1>b. Len(h) \in Nat /\ Len(h) >= 2 /\ Len(h) <= 14
  <2>1. Len(h) \in 2..14
    BY <1>5
  <2> HIDE DEF h
  <2> QED
    BY <2>1, InRange
<1>6. ASSUME NEW d, NEW k \in Nat, \A i \in 1 .. Len(h) : i <= k => d[i] = h[i]
      PROVE  FrameReadAs(ParseWsFrame(d, k), d, k, f, h, n)
  BY <1>6, FrameRead
<1> HIDE DEF h
<1>a. size \in Nat
  BY <1>2, <1>5
<1>7. r.complete /\ r.payload_length = n /\ r.payload_offset = Len(h)
  <2> HIDE DEF size
  <2>1. FrameReadAs(r, h, size, f, h, n)
    BY <1>6, <1>a
  <2> HIDE DEF r
  <2>2. size >= size
    BY <1>a
  <2> USE DEF size
  <2> QED
    BY <2>1, <2>2 DEF FrameReadAs
<1>8. ASSUME NEW k \in PartLengths(n, h)  PROVE PartRead(n, h, k)
  <2>a. k \in (0 .. Len(h)) \cup {size - 1} /\ k < size
    BY <1>2, <1>b DEF PartLengths
  <2> DEFINE j == Lesser(k, Len(h))
             d == Front(h, j)
             part == ParseWsFrame(d, k)
  <2>1. k \in Nat
    <3>1. size - 1 \in Nat
      BY <1>2, <1>b
    <3>2. k \in 0 .. Len(h) \/ k = size - 1
      BY <2>a
    <3> HIDE DEF size
    <3> QED
      BY <1>b, <3>1, <3>2
  <2>2. j \in 0 .. Len(h) /\ \A i \in 1 .. Len(h) : i <= k => i <= j
    BY <1>5, <2>1 DEF Lesser
  <2>3. \A i \in 1 .. j : d[i] = h[i]
    <3> HIDE DEF j
    <3> QED
      BY <1>5, <2>2, FrontIs
  <2>4. \A i \in 1 .. Len(h) : i <= k => d[i] = h[i]
    <3> HIDE DEF j, d
    <3> QED
      BY <1>5, <2>1, <2>2, <2>3
  <2> HIDE DEF d
  <2>5. FrameReadAs(part, d, k, f, h, n)
    BY <1>6, <2>1, <2>4
  <2> HIDE DEF part
  <2>6. ~part.complete /\ part.frame_length \in k + 1 .. size
    <3>1. (part.complete <=> k >= size) /\ (k < size => part.frame_length \in k + 1 .. size)
      BY <2>5 DEF FrameReadAs
    <3> HIDE DEF size
    <3>2. ~(k >= size) /\ k < size
      BY <2>a, <1>a, <2>1
    <3> QED
      BY <3>1, <3>2
  <2> QED
    BY <2>6 DEF PartRead, part, d
<1>9. Len(h) <= MaxHeaderSize
  BY <1>b DEF MaxHeaderSize
<1>11. LengthDecoded(n, h)
  <2> HIDE DEF r
  <2>1. r.complete /\ r.payload_length = n /\ r.payload_offset = Len(h)
    BY <1>7
  <2>2. LET p == ParseWsFrame(h, Len(h) + n)
        IN  p.complete /\ p.payload_length = n /\ p.payload_offset = Len(h)
    BY <2>1, Zenon DEF r
  <2> QED
    BY <1>8, <1>9, <2>2 DEF LengthDecoded
<1> QED
  BY <1>11 DEF h

(* The header of each length that is looked at.                             *)
LEMMA LengthsDecoded ==
    ASSUME lengthSeen \in SampleLengths
    PROVE  WsLengthsDecoded
<1>1. lengthSeen \in WsLengths /\ NULL \notin Masks
  BY WsFramingAssumption
<1>2. <<1, 2, 3, 4>> \in Masks
  BY DEF Masks, MaskSize, Byte
<1>3. ASSUME NEW mask \in Masks \cup {NULL}
      PROVE  LengthDecoded(lengthSeen,
                           Header([fin |-> TRUE, opcode |-> 2, mask |-> mask], lengthSeen))
  <2> DEFINE f == [fin |-> TRUE, opcode |-> 2, mask |-> mask]
             n == lengthSeen
  <2>1. f.fin \in BOOLEAN /\ f.opcode \in 0..15 /\ f.mask \in Masks \cup {NULL}
    OBVIOUS
  <2>2. n \in WsLengths
    BY <1>1
  <2> HIDE DEF f, n
  <2>3. LengthDecoded(n, Header(f, n))
    BY <1>1, <2>1, <2>2, HeaderDecoded
  <2> QED
    BY <2>3 DEF f, n
<1>4. \A mask \in {NULL, <<1, 2, 3, 4>>} :
        LengthDecoded(lengthSeen,
                      Header([fin |-> TRUE, opcode |-> 2, mask |-> mask], lengthSeen))
  BY <1>2, <1>3
<1> QED
  BY <1>4 DEF WsLengthsDecoded, LengthDecoded, PartLengths, PartRead

(* What TakeWsFrame makes of a frame in front of the buffer data.           *)
WsFoundIn(data) ==
    LET f       == ParseWsFrame(data, Len(data))
        payload == SubSeq(data, f.payload_offset + 1, f.frame_length)
        mask    == SubSeq(data, f.mask_offset + 1, f.mask_offset + MaskSize)
    IN  [fin |-> f.fin, opcode |-> f.opcode, masked |-> f.masked,
         payload |-> IF f.masked THEN ApplyMask(payload, mask) ELSE payload]

(* A frame is its header and what the mask leaves of its payload.           *)
WsFrameMade(f, b, h, d) ==
    /\ b = h \o d /\ h \in Seq(Byte) /\ d \in Seq(Byte) /\ Len(h) \in 2..14
    /\ Len(d) \in WsLengths /\ Len(d) = Len(f.payload) /\ h = Header(f, Len(d))
    /\ f.payload = IF f.mask = NULL THEN d ELSE ApplyMask(d, f.mask)

(* Every frame is made so.                                                  *)
LEMMA FrameMade ==
    ASSUME NEW f \in PossibleFrames, NULL \notin Masks
    PROVE  \E h, d : WsFrameMade(f, FormatWsFrame(f), h, d)
<1> DEFINE h == Header(f, Len(f.payload))
           d == IF f.mask = NULL THEN f.payload ELSE ApplyMask(f.payload, f.mask)
<1>1. /\ f.fin \in BOOLEAN /\ f.opcode \in 0..15 /\ f.mask \in Masks \cup {NULL}
      /\ f.payload \in Seq(Byte) /\ Len(f.payload) \in WsLengths
  BY DEF PossibleFrames, Payloads
<1>2. h \in Seq(Byte) /\ Len(h) \in 2..14
  <2>1. LiesAt(h, 0, h)
    <3> HIDE DEF h
    <3>1. \A i \in 1 .. Len(h) : 0 + i = i
      OBVIOUS
    <3> QED
      BY <3>1 DEF LiesAt
  <2>2. HeaderReadAs(h, f, Len(f.payload))
    BY <1>1, <2>1, HeaderComesBack
  <2> QED
    BY <2>2 DEF HeaderReadAs
<1>3. /\ d \in Seq(Byte) /\ Len(d) = Len(f.payload)
      /\ f.payload = IF f.mask = NULL THEN d ELSE ApplyMask(d, f.mask)
  <2>1. CASE f.mask = NULL
    BY <1>1, <2>1
  <2>2. CASE f.mask # NULL
    <3>1. f.mask \in Masks
      BY <1>1, <2>2
    <3> QED
      BY <1>1, <2>2, <3>1, MaskTwice
  <2> QED
    BY <2>1, <2>2
<1>4. FormatWsFrame(f) = h \o d
  BY DEF FormatWsFrame
<1> HIDE DEF d
<1>5. h = Header(f, Len(d))
  BY <1>3
<1> HIDE DEF h
<1>6. WsFrameMade(f, FormatWsFrame(f), h, d)
  BY <1>1, <1>2, <1>3, <1>4, <1>5 DEF WsFrameMade
<1> QED
  BY <1>6

(* A frame is found as soon as all its bytes are there, not before, and     *)
(* what is found is what was written.                                       *)
WsFrameFound(f, b, data) ==
    LET r == ParseWsFrame(data, Len(data))
    IN  /\ r.complete <=> Len(data) >= Len(b)
        /\ r.complete => r.frame_length = Len(b) /\ WsFoundIn(data) = AsWritten(f)

(* Every frame is found, in a buffer that begins with it or that it begins  *)
(* with.                                                                    *)
LEMMA FrameComesBack ==
    ASSUME NEW f \in PossibleFrames, NULL \notin Masks, NEW data \in Seq(Byte), NEW b,
           b = FormatWsFrame(f),
           \A i \in 1 .. Len(b) : i <= Len(data) => data[i] = b[i]
    PROVE  WsFrameFound(f, b, data)
<1> DEFINE k == Len(data)
           r == ParseWsFrame(data, k)
<1>1. /\ f.fin \in BOOLEAN /\ f.opcode \in 0..15 /\ f.mask \in Masks \cup {NULL}
  BY DEF PossibleFrames
<1>2. PICK h, d : WsFrameMade(f, b, h, d)
  BY FrameMade
<1> DEFINE n == Len(d)
<1>3. /\ b = h \o d /\ h \in Seq(Byte) /\ d \in Seq(Byte) /\ Len(h) \in 2..14
      /\ n \in WsLengths /\ h = Header(f, n)
      /\ f.payload = IF f.mask = NULL THEN d ELSE ApplyMask(d, f.mask)
  BY <1>2 DEF WsFrameMade
<1>4. k \in Nat /\ n \in Nat /\ Len(h) \in Nat
  BY <1>3, LenProperties
<1>5. b \in Seq(Byte) /\ Len(b) = Len(h) + n
  BY <1>3, Joined
<1>6. LiesAt(b, 0, h \o d)
  <2>1. \A i \in 1 .. Len(b) : 0 + i = i
    BY <1>4, <1>5
  <2> QED
    BY <1>3, <2>1 DEF LiesAt
<1>7. LiesAt(b, 0, h) /\ LiesAt(b, 0 + Len(h), d)
  <2>1. 0 \in Nat
    OBVIOUS
  <2> QED
    BY <1>3, <1>6, <2>1, LiesParts
<1>8. \A i \in 1 .. Len(h) : i <= k => data[i] = h[i]
  <2> TAKE i \in 1 .. Len(h)
  <2> HAVE i <= k
  <2>1. i \in 1 .. Len(b) /\ 0 + i = i
    BY <1>4, <1>5
  <2>2. b[i] = h[i]
    BY <1>7, <2>1 DEF LiesAt
  <2> QED
    BY <2>1, <2>2
<1> HIDE DEF n
<1>9. FrameReadAs(r, data, k, f, h, n)
  <2>1. FrameReadAs(ParseWsFrame(data, k), data, k, f, Header(f, n), n)
    <3>1. \A i \in 1 .. Len(Header(f, n)) : i <= k => data[i] = Header(f, n)[i]
      BY <1>3, <1>8
    <3> HIDE DEF k
    <3> QED
      BY <1>1, <1>3, <1>4, <3>1, FrameRead
  <2> QED
    BY <1>3, <2>1
<1> DEFINE size == Len(h) + n
<1>10. (r.complete <=> k >= size) /\ size = Len(b)
  BY <1>5, <1>9 DEF FrameReadAs
<1>11. ASSUME k >= size
       PROVE  r.frame_length = Len(b) /\ WsFoundIn(data) = AsWritten(f)
  <2>1. /\ r.frame_length = size
        /\ r.fin = f.fin /\ r.opcode = f.opcode /\ r.masked = (f.mask # NULL)
        /\ r.payload_offset = Len(h) /\ r.payload_length = n
        /\ f.mask # NULL =>
            /\ r.mask_offset \in Nat /\ LiesAt(data, r.mask_offset, f.mask)
            /\ r.mask_offset + MaskSize = Len(h)
    BY <1>9, <1>11 DEF FrameReadAs
  <2>2. LiesAt(data, Len(h), d)
    <3> SUFFICES ASSUME NEW i \in 1 .. Len(d)  PROVE data[Len(h) + i] = d[i]
      BY DEF LiesAt
    <3>1. /\ Len(h) + i \in 1 .. Len(b) /\ Len(h) + i <= k
          /\ 0 + Len(h) = Len(h)
      BY <1>4, <1>5, <1>11 DEF n
    <3>2. b[Len(h) + i] = d[i]
      BY <1>7, <3>1 DEF LiesAt
    <3> QED
      BY <3>1, <3>2
  <2> DEFINE p == SubSeq(data, r.payload_offset + 1, r.frame_length)
             m == SubSeq(data, r.mask_offset + 1, r.mask_offset + MaskSize)
  <2>3. p = d
    <3>1. Len(h) + Len(d) <= Len(data)
      BY <1>4, <1>11 DEF n
    <3>2. SubSeq(data, Len(h) + 1, Len(h) + Len(d)) = d
      BY <1>3, <1>4, <2>2, <3>1, LiesCut
    <3> QED
      BY <2>1, <3>2 DEF n
  <2>4. f.mask # NULL => m = f.mask
    <3> SUFFICES ASSUME f.mask # NULL  PROVE m = f.mask
      OBVIOUS
    <3>1. f.mask \in Seq(Byte) /\ Len(f.mask) = MaskSize
      BY <1>1 DEF Masks
    <3>2. r.mask_offset + Len(f.mask) <= Len(data)
      BY <1>4, <1>11, <2>1, <3>1
    <3> DEFINE z == r.mask_offset
    <3>3. z \in Nat /\ LiesAt(data, z, f.mask) /\ z + Len(f.mask) <= Len(data)
      BY <2>1, <3>2
    <3> HIDE DEF z
    <3>4. SubSeq(data, z + 1, z + Len(f.mask)) = f.mask
      BY <3>1, <3>3, LiesCut
    <3> QED
      BY <3>1, <3>4 DEF z
  <2>5. WsFoundIn(data) = [fin |-> r.fin, opcode |-> r.opcode, masked |-> r.masked,
                           payload |-> IF r.masked THEN ApplyMask(p, m) ELSE p]
    BY DEF WsFoundIn
  <2> HIDE DEF p, m, r
  <2> QED
    BY <1>3, <1>10, <2>1, <2>3, <2>4, <2>5 DEF AsWritten
<1> QED
  BY <1>10, <1>11 DEF WsFrameFound

-----------------------------------------------------------------------------
(* The frames of a stream.                                                  *)

WsPending == input \o way

\* The bytes of each frame.
WsSent == [i \in DOMAIN written |-> FormatWsFrame(written[i])]

WsTypes ==
    /\ written \in Seq(WsFrames) /\ way \in Seq(Byte) /\ input \in Seq(Byte)
    /\ looping \in BOOLEAN
    /\ lengthSeen \in SampleLengths \cup {NULL}
    /\ IsSequence(taken)

(* The bytes of the frames that are not taken are all there, in their       *)
(* order, and nothing else.                                                 *)
WsBytesPending ==
    \E cut : /\ Laid(cut, WsPending, WsSent, Len(taken), Len(written))
             /\ cut[Len(written)] = Len(WsPending)

WsTakenRight == \A k \in 1 .. Len(taken) : taken[k] = AsWritten(written[k])

NoWsFrameIn(data) == data = <<>> \/ ~ParseWsFrame(data, Len(data)).complete

WsInv ==
    /\ WsTypes
    /\ Len(taken) <= Len(written)
    /\ ~looping => NoWsFrameIn(input)
    /\ WsBytesPending
    /\ WsTakenRight

(* What the types say of lengths and of single frames.                      *)
LEMMA WsFacts ==
    ASSUME WsTypes
    PROVE  /\ Len(written) \in Nat /\ Len(taken) \in Nat
           /\ WsPending \in Seq(Byte) /\ Len(WsPending) = Len(input) + Len(way)
           /\ Len(input) \in Nat /\ Len(way) \in Nat
           /\ \A i \in 1 .. Len(written) : written[i] \in WsFrames
           /\ DOMAIN written = 1 .. Len(written) /\ DOMAIN taken = 1 .. Len(taken)
<1>1. written \in Seq(WsFrames) /\ way \in Seq(Byte) /\ input \in Seq(Byte)
  BY DEF WsTypes
<1>2. taken \in Seq({taken[i] : i \in DOMAIN taken})
  BY DEF WsTypes, IsSequence
<1>3. /\ Len(written) \in Nat /\ DOMAIN written = 1 .. Len(written)
      /\ \A i \in 1 .. Len(written) : written[i] \in WsFrames
  BY <1>1, LenProperties, ElementOfSeq
<1>4. Len(taken) \in Nat /\ DOMAIN taken = 1 .. Len(taken)
  BY <1>2, LenProperties
<1>5. /\ input \o way \in Seq(Byte) /\ Len(input \o way) = Len(input) + Len(way)
      /\ Len(input) \in Nat /\ Len(way) \in Nat
  BY <1>1, Joined
<1> QED
  BY <1>3, <1>4, <1>5 DEF WsPending

(* Every frame is written as bytes, and is not empty.                       *)
LEMMA WritesWsBytes ==
    \A f \in WsFrames : /\ FormatWsFrame(f) \in Seq(Byte)
                        /\ Len(FormatWsFrame(f)) \in Nat /\ Len(FormatWsFrame(f)) >= 2
<1> TAKE f \in WsFrames
<1> DEFINE b == FormatWsFrame(f)
<1>1. f \in PossibleFrames /\ NULL \notin Masks
  BY WsFramingAssumption
<1>2. PICK h, d : WsFrameMade(f, b, h, d)
  BY <1>1, FrameMade
<1> HIDE DEF b
<1>3. b = h \o d /\ h \in Seq(Byte) /\ d \in Seq(Byte) /\ Len(h) \in 2..14
  BY <1>2 DEF WsFrameMade
<1>4. b \in Seq(Byte) /\ Len(b) = Len(h) + Len(d) /\ Len(d) \in Nat
  BY <1>3, Joined
<1>5. Len(h) \in Nat /\ Len(h) >= 2
  BY <1>3, InRange
<1>6. Len(b) \in Nat /\ Len(b) >= 2
  BY <1>4, <1>5
<1> QED
  BY <1>4, <1>6 DEF b

(* The bytes of the frames.                                                 *)
LEMMA WsSentIs ==
    ASSUME WsTypes
    PROVE  \A i \in 1 .. Len(written) :
               WsSent[i] = FormatWsFrame(written[i]) /\ WsSent[i] \in Seq(Byte)
<1>1. /\ DOMAIN written = 1 .. Len(written)
      /\ \A i \in 1 .. Len(written) : written[i] \in WsFrames
  BY WsFacts
<1> QED
  BY <1>1, WritesWsBytes DEF WsSent

(* The next frame is in front of what is pending, and the parser finds it   *)
(* in the buffer as soon as it is there.                                    *)
LEMMA WsNextPending ==
    ASSUME WsInv, Len(taken) < Len(written)
    PROVE  LET f == written[Len(taken) + 1]
               n == Len(FormatWsFrame(f))
           IN  /\ n \in 0 .. Len(WsPending) /\ n \in Nat /\ n >= 2
               /\ WsFrameFound(f, FormatWsFrame(f), input)
               /\ \E cut : /\ Laid(cut, Rest(WsPending, n), WsSent,
                                   Len(taken) + 1, Len(written))
                           /\ cut[Len(written)] = Len(Rest(WsPending, n))
<1> DEFINE h == Len(taken)
           due == Len(written)
           f == written[h + 1]
           w == FormatWsFrame(f)
           n == Len(w)
           bytes == WsPending
           r == Rest(bytes, n)
           c == WsSent
<1>1. /\ due \in Nat /\ h \in Nat /\ h < due /\ bytes \in Seq(Byte)
      /\ \A i \in 1 .. due : written[i] \in WsFrames
      /\ input \in Seq(Byte) /\ way \in Seq(Byte)
  BY WsFacts DEF WsInv, WsTypes
<1>2. PICK cut : Laid(cut, bytes, c, h, due) /\ cut[due] = Len(bytes)
  BY DEF WsInv, WsBytesPending
<1>3. h + 1 \in 1 .. due /\ f \in WsFrames
  BY <1>1
<1>4. w \in Seq(Byte) /\ n \in Nat /\ n >= 2
  BY <1>3, WritesWsBytes
<1>5. c[h + 1] = w /\ \A i \in 1 .. due : c[i] \in Seq(Byte)
  BY <1>3, WsSentIs DEF WsInv
<1>6. f \in PossibleFrames /\ NULL \notin Masks
  BY <1>3, WsFramingAssumption
<1> HIDE DEF h, due, c
<1>7. /\ n \in 0 .. Len(bytes) /\ bytes = w \o r
      /\ \E z : Laid(z, r, c, h + 1, due) /\ z[due] = cut[due] - n
  <2> HIDE DEF bytes
  <2>1. LaidBehind(cut, bytes, c, h, due)
    BY <1>1, <1>2, <1>5, LaidNext
  <2> QED
    BY <1>5, <2>1 DEF LaidBehind
<1>8. r \in Seq(Byte) /\ Len(r) = Len(bytes) - n
  BY <1>1, <1>7, RestIs
<1>9. \E z : Laid(z, r, c, h + 1, due) /\ z[due] = Len(r)
  BY <1>2, <1>7, <1>8
<1>10. \A i \in 1 .. n : i <= Len(input) => input[i] = w[i]
  <2> TAKE i \in 1 .. n
  <2> HAVE i <= Len(input)
  <2>1. Len(input) \in Nat /\ Len(way) \in Nat /\ Len(r) \in Nat
    BY <1>1, <1>8, LenProperties
  <2>2. i \in 1 .. Len(input) + Len(way) /\ i \in 1 .. Len(w) + Len(r) /\ i <= Len(w)
    BY <1>4, <2>1
  <2>3. (input \o way)[i] = IF i <= Len(input) THEN input[i] ELSE way[i - Len(input)]
    BY <1>1, <2>2, JoinedAt
  <2> HIDE DEF w, r
  <2>4. (w \o r)[i] = IF i <= Len(w) THEN w[i] ELSE r[i - Len(w)]
    BY <1>4, <1>8, <2>2, JoinedAt
  <2>5. input \o way = w \o r
    BY <1>7 DEF WsPending
  <2> QED
    BY <2>2, <2>3, <2>4, <2>5
<1>11. WsFrameFound(f, w, input)
  <2> HIDE DEF f
  <2>1. \A i \in 1 .. Len(w) : i <= Len(input) => input[i] = w[i]
    BY <1>10
  <2>2. w = FormatWsFrame(f)
    OBVIOUS
  <2> HIDE DEF w
  <2> QED
    BY <1>1, <1>6, <2>1, <2>2, FrameComesBack
<1> HIDE DEF r, w
<1>12. n \in 0 .. Len(bytes) /\ n \in Nat /\ n >= 2
  BY <1>4, <1>7
<1> HIDE DEF n, bytes
<1> QED
  BY <1>9, <1>11, <1>12 DEF h, due, f, w, n, r, c, bytes

(* With all frames taken nothing is pending.                                *)
LEMMA WsNonePending ==
    ASSUME WsInv, Len(taken) = Len(written)
    PROVE  input = <<>> /\ way = <<>>
<1>1. /\ Len(written) \in Nat /\ Len(WsPending) = Len(input) + Len(way)
      /\ Len(input) \in Nat /\ Len(way) \in Nat
  BY WsFacts DEF WsInv
<1>2. PICK cut : /\ Laid(cut, WsPending, WsSent, Len(written), Len(written))
                 /\ cut[Len(written)] = Len(WsPending)
  BY DEF WsInv, WsBytesPending
<1>3. cut[Len(written)] = 0
  BY <1>2 DEF Laid
<1>4. Len(input) = 0 /\ Len(way) = 0
  BY <1>1, <1>2, <1>3
<1>5. input \in Seq(Byte) /\ way \in Seq(Byte)
  BY DEF WsInv, WsTypes
<1> QED
  BY <1>4, <1>5, EmptySeq

(* Nothing is written and nothing is pending.                               *)
LEMMA WsInitially == WsInit => WsInv
<1> SUFFICES ASSUME WsInit  PROVE WsInv
  OBVIOUS
<1>1. /\ written = <<>> /\ way = <<>> /\ input = <<>> /\ taken = <<>>
      /\ looping = FALSE /\ lengthSeen = NULL
  BY DEF WsInit
<1>2. WsTypes
  BY <1>1, EmptySeq DEF WsTypes, IsSequence
<1>3. Len(taken) = 0 /\ Len(written) = 0
  BY <1>1, EmptySeq
<1>4. WsPending \in Seq(Byte) /\ Len(WsPending) = 0
  <2>1. WsPending \in Seq(Byte) /\ Len(WsPending) = Len(input) + Len(way)
    BY <1>2, WsFacts
  <2> QED
    BY <1>1, <2>1, EmptySeq
<1>5. WsBytesPending
  <2> DEFINE cut == [i \in 0 .. 0 |-> 0]
  <2>1. Laid(cut, WsPending, WsSent, 0, 0) /\ cut[0] = 0
    <3>1. 0 \in Nat
      OBVIOUS
    <3> QED
      BY <1>4, <3>1, LaidNone
  <2> HIDE DEF cut
  <2> QED
    BY <1>3, <1>4, <2>1 DEF WsBytesPending
<1>6. WsTakenRight
  BY <1>3 DEF WsTakenRight
<1>7. NoWsFrameIn(input)
  BY <1>1 DEF NoWsFrameIn
<1> QED
  BY <1>2, <1>3, <1>5, <1>6, <1>7 DEF WsInv

(* Nothing about what is pending changes.                                   *)
LEMMA WsPendingKept ==
    ASSUME WsInv, WsPending' = WsPending, written' = written, taken' = taken
    PROVE  WsBytesPending' /\ WsTakenRight' /\ Len(taken') <= Len(written')
BY DEF WsInv, WsBytesPending, WsTakenRight, WsSent

(* Looking at a length touches no frame.                                    *)
LEMMA LookAtLengthKeeps == WsInv /\ LookAtLength => WsInv'
<1> SUFFICES ASSUME WsInv, LookAtLength  PROVE WsInv'
  OBVIOUS
<1>1. /\ lengthSeen' \in SampleLengths
      /\ written' = written /\ way' = way /\ input' = input /\ looping' = looping
      /\ taken' = taken
  BY DEF LookAtLength
<1>2. WsTypes'
  BY <1>1 DEF WsInv, WsTypes
<1>3. WsBytesPending' /\ WsTakenRight' /\ Len(taken') <= Len(written')
  BY <1>1, WsPendingKept DEF WsPending
<1> QED
  BY <1>1, <1>2, <1>3 DEF WsInv

(* A read.                                                                  *)
LEMMA ReadWsBytesKeeps == WsInv /\ ReadWsBytes => WsInv'
<1> SUFFICES ASSUME WsInv, ReadWsBytes  PROVE WsInv'
  OBVIOUS
<1>1. PICK n : /\ n \in 1 .. Len(way)
               /\ input' = input \o Front(way, n)
               /\ way' = Rest(way, n)
  BY DEF ReadWsBytes
<1>2. /\ looping' = TRUE /\ written' = written /\ taken' = taken /\ lengthSeen' = lengthSeen
  BY DEF ReadWsBytes
<1>3. /\ way \in Seq(Byte) /\ input \in Seq(Byte) /\ Len(way) \in Nat
  BY WsFacts DEF WsInv, WsTypes
<1>4. n \in 0 .. Len(way)
  BY <1>1, <1>3
<1>5. /\ Front(way, n) \in Seq(Byte) /\ Rest(way, n) \in Seq(Byte)
      /\ Front(way, n) \o Rest(way, n) = way
  BY <1>3, <1>4, FrontIs, RestIs, FrontAndRest
<1>6. WsPending' = WsPending
  <2> DEFINE f == Front(way, n)
             r == Rest(way, n)
  <2>1. WsPending' = (input \o f) \o r
    BY <1>1 DEF WsPending
  <2>2. f \in Seq(Byte) /\ r \in Seq(Byte) /\ f \o r = way
    BY <1>5
  <2> HIDE DEF f, r
  <2>3. (input \o f) \o r = input \o (f \o r)
    BY <1>3, <2>2, Rejoined
  <2> QED
    BY <2>1, <2>2, <2>3 DEF WsPending
<1>7. input' \in Seq(Byte)
  BY <1>1, <1>3, <1>5, Joined
<1>8. WsTypes'
  BY <1>1, <1>2, <1>5, <1>7 DEF WsInv, WsTypes
<1>9. WsBytesPending' /\ WsTakenRight' /\ Len(taken') <= Len(written')
  BY <1>2, <1>6, WsPendingKept
<1> QED
  BY <1>2, <1>8, <1>9 DEF WsInv

(* More has to come.                                                        *)
LEMMA AwaitWsBytesKeeps == WsInv /\ AwaitWsBytes => WsInv'
<1> SUFFICES ASSUME WsInv, AwaitWsBytes  PROVE WsInv'
  OBVIOUS
<1>1. /\ NoWsFrameIn(input) /\ looping' = FALSE
      /\ written' = written /\ way' = way /\ input' = input /\ taken' = taken
      /\ lengthSeen' = lengthSeen
  BY DEF AwaitWsBytes, NoWsFrameIn
<1>2. WsBytesPending' /\ WsTakenRight' /\ Len(taken') <= Len(written')
  BY <1>1, WsPendingKept DEF WsPending
<1>3. WsTypes'
  BY <1>1 DEF WsInv, WsTypes
<1>4. NoWsFrameIn(input')
  BY <1>1
<1> QED
  BY <1>1, <1>2, <1>3, <1>4 DEF WsInv

(* A frame is written.                                                      *)
LEMMA WriteWsFrameKeeps == WsInv /\ WriteWsFrame => WsInv'
<1> SUFFICES ASSUME WsInv, WriteWsFrame  PROVE WsInv'
  OBVIOUS
<1>1. PICK f \in WsFrames : written' = Append(written, f) /\ way' = way \o FormatWsFrame(f)
  BY DEF WriteWsFrame
<1>2. /\ input' = input /\ looping' = looping /\ taken' = taken /\ lengthSeen' = lengthSeen
  BY DEF WriteWsFrame
<1> DEFINE w == FormatWsFrame(f)
           b == WsPending
           c == WsSent
           x == WsSent'
           h == Len(taken)
           d == Len(written)
<1>3. w \in Seq(Byte)
  BY WritesWsBytes
<1>4. /\ written \in Seq(WsFrames) /\ way \in Seq(Byte) /\ input \in Seq(Byte)
      /\ looping \in BOOLEAN /\ lengthSeen \in SampleLengths \cup {NULL} /\ IsSequence(taken)
  BY DEF WsInv, WsTypes
<1>5. /\ d \in Nat /\ h \in Nat /\ h <= d /\ b \in Seq(Byte)
      /\ \A i \in 1 .. d : written[i] \in WsFrames
  BY WsFacts DEF WsInv
<1>6. /\ written' \in Seq(WsFrames) /\ Len(written') = d + 1
      /\ \A i \in 1 .. d : written'[i] = written[i]
      /\ written'[d + 1] = f
  BY <1>1, <1>4, AppendProperties
<1>7. WsTypes'
  <2>1. way' \in Seq(Byte)
    BY <1>1, <1>3, <1>4, Joined
  <2>2. IsSequence(taken')
    BY <1>2, <1>4
  <2> QED
    BY <1>2, <1>4, <1>6, <2>1, <2>2 DEF WsTypes
<1>8. WsPending' = b \o w
  <2>1. WsPending' = input \o (way \o w)
    BY <1>1, <1>2 DEF WsPending
  <2> HIDE DEF w
  <2>2. (input \o way) \o w = input \o (way \o w)
    BY <1>3, <1>4, Rejoined
  <2> QED
    BY <2>1, <2>2 DEF WsPending
<1>9. \A i \in 1 .. d + 1 : x[i] = FormatWsFrame(written'[i]) /\ x[i] \in Seq(Byte)
  <2>1. \A i \in 1 .. d + 1 : written'[i] \in WsFrames
    <3> TAKE i \in 1 .. d + 1
    <3>1. i \in 1 .. d \/ i = d + 1
      BY <1>5
    <3> QED
      BY <1>5, <1>6, <3>1
  <2>2. DOMAIN written' = 1 .. d + 1
    BY <1>6, LenProperties
  <2> QED
    BY <2>1, <2>2, WritesWsBytes DEF WsSent
<1>10. \A i \in 1 .. d : x[i] = c[i] /\ c[i] \in Seq(Byte)
  <2> TAKE i \in 1 .. d
  <2>1. i \in 1 .. d + 1 /\ written'[i] = written[i]
    BY <1>5, <1>6
  <2>2. c[i] = FormatWsFrame(written[i]) /\ c[i] \in Seq(Byte)
    BY WsSentIs DEF WsInv
  <2> QED
    BY <1>9, <2>1, <2>2
<1>11. PICK cut : Laid(cut, b, c, h, d) /\ cut[d] = Len(b)
  BY DEF WsInv, WsBytesPending
<1>12. x[d + 1] = w
  <2>1. d + 1 \in 1 .. d + 1
    BY <1>5
  <2> QED
    BY <1>6, <1>9, <2>1
<1> HIDE DEF b, c, x, h, d, w
<1>13. Laid(cut, b, x, h, d)
  <2>1. /\ <<>> \in Seq(Byte)
        /\ \A i \in 1 .. d : x[i] = c[i]
        /\ \A i \in 1 .. d : c[i] \in Seq(Byte)
    BY <1>10, EmptySeq
  <2>2. Laid(cut, b \o <<>>, x, h, d)
    BY <1>5, <1>11, <2>1, LaidGrows
  <2>3. b \o <<>> = b
    BY <1>5, ConcatEmptySeq
  <2> QED
    BY <2>2, <2>3
<1>14. \E next : Laid(next, b \o w, x, h, d + 1) /\ next[d + 1] = Len(b \o w)
  <2>1. \A i \in 1 .. d + 1 : x[i] \in Seq(Byte)
    BY <1>9
  <2>2. LET all == b \o x[d + 1]
        IN  \E next : Laid(next, all, x, h, d + 1) /\ next[d + 1] = Len(all)
    BY <1>5, <1>11, <1>13, <2>1, LaidMore
  <2> QED
    BY <1>12, <2>2
<1>15. WsBytesPending'
  <2>1. Len(taken') = h /\ Len(written') = d + 1
    BY <1>2, <1>6 DEF h, d
  <2>2. \E next : Laid(next, WsPending', WsSent', Len(taken'), Len(written'))
                  /\ next[Len(written')] = Len(WsPending')
    BY <1>8, <1>14, <2>1 DEF x
  <2> QED
    BY <2>2 DEF WsBytesPending
<1>16. WsTakenRight' /\ Len(taken') <= Len(written')
  <2>1. Len(taken) = h /\ Len(written) = d
    BY DEF h, d
  <2>2. \A k \in 1 .. h : taken[k] = AsWritten(written[k]) /\ written'[k] = written[k]
    BY <1>5, <1>6, <2>1 DEF WsInv, WsTakenRight
  <2> QED
    BY <1>2, <1>5, <1>6, <2>1, <2>2 DEF WsTakenRight
<1> QED
  BY <1>2, <1>7, <1>15, <1>16 DEF WsInv

(* A frame is taken, the next one of those that were written.               *)
LEMMA TakeWsFrameKeeps == WsInv /\ TakeWsFrame => WsInv'
<1> SUFFICES ASSUME WsInv, TakeWsFrame  PROVE WsInv'
  OBVIOUS
<1> DEFINE frame == ParseWsFrame(input, Len(input))
           h == Len(taken)
           d == Len(written)
           f == written[h + 1]
           n == Len(FormatWsFrame(f))
<1>1. /\ looping /\ input # <<>> /\ frame.complete
      /\ taken' = Append(taken, WsFoundIn(input))
      /\ input' = Rest(input, frame.frame_length)
      /\ written' = written /\ way' = way /\ looping' = looping /\ lengthSeen' = lengthSeen
  BY DEF TakeWsFrame, WsFoundIn
<1>2. /\ way \in Seq(Byte) /\ input \in Seq(Byte) /\ IsSequence(taken)
      /\ h \in Nat /\ d \in Nat /\ h <= d /\ Len(input) \in Nat
      /\ \A k \in 1 .. h : taken[k] = AsWritten(written[k])
  BY WsFacts DEF WsInv, WsTypes, WsTakenRight
<1>3. h < d
  <2> SUFFICES ASSUME ~(h < d)  PROVE FALSE
    OBVIOUS
  <2>1. Len(taken) = Len(written)
    BY <1>2
  <2> QED
    BY <1>1, <2>1, WsNonePending
<1>4. /\ n \in Nat /\ WsFrameFound(f, FormatWsFrame(f), input)
      /\ \E cut : Laid(cut, Rest(WsPending, n), WsSent, h + 1, d)
                  /\ cut[d] = Len(Rest(WsPending, n))
  BY <1>3, WsNextPending
<1> HIDE DEF f
<1>5. n <= Len(input) /\ frame.frame_length = n /\ WsFoundIn(input) = AsWritten(f)
  <2>1. /\ frame.complete <=> Len(input) >= n
        /\ frame.complete => frame.frame_length = n /\ WsFoundIn(input) = AsWritten(f)
    BY <1>4 DEF WsFrameFound
  <2> HIDE DEF frame, n
  <2> QED
    BY <1>1, <1>2, <1>4, <2>1
<1> HIDE DEF frame, n
<1>6. n \in 0 .. Len(input) /\ input' = Rest(input, n)
  BY <1>1, <1>2, <1>4, <1>5
<1>7. input' \in Seq(Byte) /\ WsPending' = Rest(WsPending, n)
  <2>1. Rest(input \o way, n) = Rest(input, n) \o way
    BY <1>2, <1>6, RestOfJoined
  <2> QED
    BY <1>1, <1>2, <1>6, <2>1, RestIs DEF WsPending
<1>8. /\ IsSequence(taken') /\ Len(taken') = h + 1
      /\ \A i \in 1 .. h : taken'[i] = taken[i]
      /\ taken'[h + 1] = AsWritten(f)
  BY <1>1, <1>2, <1>5, Appended
<1>9. WsTypes'
  BY <1>1, <1>7, <1>8 DEF WsInv, WsTypes
<1>10. WsBytesPending'
  BY <1>1, <1>4, <1>7, <1>8 DEF WsBytesPending, WsSent
<1>11. WsTakenRight'
  <2>1. ASSUME NEW k \in 1 .. h + 1  PROVE taken'[k] = AsWritten(written[k])
    <3>1. CASE k = h + 1
      BY <1>8, <3>1 DEF f
    <3>2. CASE k \in 1 .. h
      BY <1>2, <1>8, <3>2
    <3> QED
      BY <1>2, <3>1, <3>2
  <2> HIDE DEF h
  <2> QED
    BY <1>1, <1>8, <2>1 DEF WsTakenRight
<1>12. Len(taken') <= Len(written')
  BY <1>1, <1>2, <1>3, <1>8
<1> QED
  BY <1>1, <1>9, <1>10, <1>11, <1>12 DEF WsInv

(* What the invariant says of the frames and of the lengths.                *)
LEMMA WsFramesFollow == WsInv => WsFramesArrive
<1> SUFFICES ASSUME WsInv  PROVE WsFramesArrive
  OBVIOUS
<1>1. /\ Len(written) \in Nat /\ Len(taken) \in Nat /\ Len(taken) <= Len(written)
      /\ DOMAIN written = 1 .. Len(written) /\ DOMAIN taken = 1 .. Len(taken)
      /\ \A k \in 1 .. Len(taken) : taken[k] = AsWritten(written[k])
      /\ input \in Seq(Byte) /\ way \in Seq(Byte)
  BY WsFacts DEF WsInv, WsTypes, WsTakenRight
<1>2. \A k \in DOMAIN taken : k \in DOMAIN written /\ taken[k] = AsWritten(written[k])
  BY <1>1
<1>3. ASSUME way = <<>>, ~looping
      PROVE  Len(taken) = Len(written) /\ input = <<>>
  <2>1. Len(taken) = Len(written)
    <3> SUFFICES ASSUME Len(taken) # Len(written)  PROVE FALSE
      OBVIOUS
    <3> DEFINE f == written[Len(taken) + 1]
               n == Len(FormatWsFrame(f))
    <3>1. Len(taken) < Len(written)
      <4> DEFINE p == Len(taken)
                 q == Len(written)
      <4>1. p \in Nat /\ q \in Nat /\ p <= q /\ p # q
        BY <1>1
      <4> HIDE DEF p, q
      <4>2. p < q
        BY <4>1
      <4> QED
        BY <4>2 DEF p, q
    <3>2. /\ n \in 0 .. Len(WsPending) /\ n \in Nat /\ n >= 2
          /\ WsFrameFound(f, FormatWsFrame(f), input)
      BY <3>1, WsNextPending
    <3>3. WsPending = input
      BY <1>1, <1>3, ConcatEmptySeq DEF WsPending
    <3>4. ParseWsFrame(input, Len(input)).complete <=> Len(input) >= n
      BY <3>2 DEF WsFrameFound
    <3> HIDE DEF n
    <3>5. Len(input) \in Nat /\ Len(input) >= n /\ Len(input) # 0
      <4> DEFINE l == Len(input)
      <4>1. l \in Nat
        BY <1>1, LenProperties
      <4>2. n \in 0 .. l /\ n \in Nat /\ n >= 2
        BY <3>2, <3>3
      <4> HIDE DEF l
      <4>3. l \in Nat /\ l >= n /\ l # 0
        BY <4>1, <4>2
      <4> QED
        BY <4>3 DEF l
    <3>6. input # <<>>
      BY <3>5, EmptySeq
    <3>7. NoWsFrameIn(input)
      BY <1>3 DEF WsInv
    <3> QED
      BY <3>4, <3>5, <3>6, <3>7 DEF NoWsFrameIn
  <2> QED
    BY <2>1, WsNonePending
<1>4. WsFramesIntact
  BY <1>2, <1>3 DEF WsFramesIntact
<1>5. WsLengthsDecoded
  <2>1. CASE lengthSeen = NULL
    BY <2>1 DEF WsLengthsDecoded
  <2>2. CASE lengthSeen \in SampleLengths
    BY <2>2, LengthsDecoded
  <2> QED
    BY <2>1, <2>2 DEF WsInv, WsTypes
<1> QED
  BY <1>4, <1>5 DEF WsFramesArrive

(* Frames of every length and with every mask arrive as they were written,  *)
(* however the bytes are cut into reads, and every length comes back from   *)
(* its header (ws_format_frame, ws_parse_frame and the loop of              *)
(* stream_ws_peek_frame).                                                   *)
THEOREM WsFramesComeThrough == WsSpec => []WsFramesArrive
<1>1. WsInit => WsInv
  BY WsInitially
<1>2. WsInv /\ [WsNext]_wsVars => WsInv'
  <2> SUFFICES ASSUME WsInv, [WsNext]_wsVars  PROVE WsInv'
    OBVIOUS
  <2>1. CASE UNCHANGED wsVars
    <3>1. /\ written' = written /\ way' = way /\ input' = input /\ looping' = looping
          /\ taken' = taken /\ lengthSeen' = lengthSeen
      BY <2>1 DEF wsVars
    <3>2. WsBytesPending' /\ WsTakenRight' /\ Len(taken') <= Len(written')
      BY <3>1, WsPendingKept DEF WsPending
    <3> QED
      BY <3>1, <3>2 DEF WsInv, WsTypes
  <2>2. CASE WsNext
    BY <2>2, LookAtLengthKeeps, WriteWsFrameKeeps, ReadWsBytesKeeps, TakeWsFrameKeeps,
       AwaitWsBytesKeeps DEF WsNext
  <2> QED
    BY <2>1, <2>2
<1>3. WsInv => WsFramesArrive
  BY WsFramesFollow
<1> QED
  BY <1>1, <1>2, <1>3, PTL DEF WsSpec

=============================================================================
