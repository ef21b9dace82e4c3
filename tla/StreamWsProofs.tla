--------------------------- MODULE StreamWsProofs ---------------------------
(***************************************************************************)
(* Theorems of StreamWs: types, that messages arrive as they were written, *)
(* that two streams are a pipe of bytes each way, and that a connection    *)
(* stays up while both sides are prompt.                                   *)
(***************************************************************************)
EXTENDS StreamWs, SequenceTheorems, FunctionTheorems, FiniteSetTheorems, TLAPS

(* The two peers.                                                           *)
LEMMA OtherPeer ==
    ASSUME NEW p \in Peers
    PROVE  /\ Other(p) \in Peers /\ Other(p) # p /\ Other(Other(p)) = p
           /\ \A q \in Peers : q = p \/ q = Other(p)
           /\ Client \in Peers /\ Server \in Peers /\ Client # Server
           /\ Other(Client) = Server /\ Other(Server) = Client
  BY WsAssumption DEF Peers, Other

-----------------------------------------------------------------------------
(* The bytes of slices.                                                    *)

\* The places of the bytes in the first k slices.
Places(s, k) == UNION {{i} \X DOMAIN s[i].data : i \in 1..k}

(* A slice has a number of bytes.                                           *)
LEMMA SliceData ==
    ASSUME NEW s \in Seq(SliceType)
    PROVE  /\ Len(s) \in Nat /\ DOMAIN s = 1..Len(s)
           /\ \A i \in 1..Len(s) : /\ s[i] \in SliceType /\ s[i].data \in Seq(Nat)
                                   /\ Len(s[i].data) \in Nat
                                   /\ DOMAIN s[i].data = 1..Len(s[i].data)
<1>1. Len(s) \in Nat /\ DOMAIN s = 1..Len(s)
  BY LenProperties
<1> SUFFICES ASSUME NEW i \in 1..Len(s)
             PROVE  /\ s[i] \in SliceType /\ s[i].data \in Seq(Nat)
                    /\ Len(s[i].data) \in Nat
                    /\ DOMAIN s[i].data = 1..Len(s[i].data)
  BY <1>1
<1>2. s[i] \in SliceType
  BY ElementOfSeq
<1>3. s[i].data \in Seq(Nat)
  BY <1>2 DEF SliceType
<1> QED
  BY <1>2, <1>3, LenProperties

(* A place is a slice and a byte of it.                                     *)
LEMMA PlacesAre ==
    ASSUME NEW s, NEW k, NEW x
    PROVE  x \in Places(s, k) <=> \E i \in 1..k : \E j \in DOMAIN s[i].data : x = <<i, j>>
  BY DEF Places

(* There is a number of them.                                               *)
LEMMA PlacesFinite ==
    ASSUME NEW s \in Seq(SliceType), NEW k \in 0..Len(s)
    PROVE  /\ IsFiniteSet(Places(s, k)) /\ BytesIn(s, k) = Cardinality(Places(s, k))
           /\ BytesIn(s, k) \in Nat
<1> DEFINE part(i) == {i} \X DOMAIN s[i].data
           parts == {part(i) : i \in 1..k}
           F == [i \in 1..k |-> part(i)]
<1>1. /\ k \in Nat /\ k <= Len(s)
      /\ \A i \in 1..k : DOMAIN s[i].data = 1..Len(s[i].data) /\ Len(s[i].data) \in Nat
  BY SliceData
<1>2. IsFiniteSet(1..k)
  BY <1>1, FS_Interval
<1>3. F \in Surjection(1..k, parts)
  BY Fun_IsSurj
<1>4. IsFiniteSet(parts)
  <2> HIDE DEF F, parts
  <2> QED
    BY <1>2, <1>3, FS_Surjection
<1>5. \A i \in 1..k : IsFiniteSet(part(i))
  <2> TAKE i \in 1..k
  <2>1. IsFiniteSet(DOMAIN s[i].data)
    <3>1. DOMAIN s[i].data = 1..Len(s[i].data) /\ Len(s[i].data) \in Int
      BY <1>1
    <3> DEFINE n == Len(s[i].data)
    <3>2. n \in Int /\ 1 \in Int
      BY <3>1
    <3> HIDE DEF n
    <3>3. IsFiniteSet(1..n)
      BY <3>2, FS_Interval
    <3> QED
      BY <3>1, <3>3 DEF n
  <2>2. IsFiniteSet({i})
    BY FS_Singleton
  <2> QED
    BY <2>1, <2>2, FS_Product
<1>6. IsFiniteSet(UNION parts)
  <2>1. \A T \in parts : IsFiniteSet(T)
    BY <1>5
  <2> HIDE DEF parts
  <2> QED
    BY <1>4, <2>1, FS_UNION
<1>7. Places(s, k) = UNION parts /\ BytesIn(s, k) = Cardinality(UNION parts)
  BY DEF Places, BytesIn
<1>8. Cardinality(UNION parts) \in Nat
  <2> HIDE DEF parts
  <2> QED
    BY <1>6, FS_CardinalityType
<1> HIDE DEF parts
<1> QED
  BY <1>6, <1>7, <1>8

(* No slice, no byte.                                                       *)
LEMMA NoBytesIn ==
    ASSUME NEW s
    PROVE  BytesIn(s, 0) = 0
<1>1. UNION {{i} \X DOMAIN s[i].data : i \in 1..0} = {}
  <2>1. 1..0 = {}
    OBVIOUS
  <2> QED
    BY <2>1
<1> QED
  BY <1>1, FS_EmptySet DEF BytesIn

(* The first k slices of two sequences of slices.                           *)
LEMMA SameBytesIn ==
    ASSUME NEW s, NEW t, NEW k \in Nat, \A i \in 1..k : s[i] = t[i]
    PROVE  BytesIn(s, k) = BytesIn(t, k)
<1>1. {{i} \X DOMAIN s[i].data : i \in 1..k} = {{i} \X DOMAIN t[i].data : i \in 1..k}
  OBVIOUS
<1> QED
  BY <1>1 DEF BytesIn

(* More slices have no fewer bytes.                                         *)
LEMMA MoreBytesIn ==
    ASSUME NEW s \in Seq(SliceType), NEW k \in 0..Len(s), NEW l \in 0..k
    PROVE  BytesIn(s, l) <= BytesIn(s, k)
<1>1. l \in 0..Len(s)
  BY SliceData
<1>2. Places(s, l) \subseteq Places(s, k)
  <2>1. 1..l \subseteq 1..k
    BY SliceData
  <2> QED
    BY <2>1 DEF Places
<1> QED
  BY <1>1, <1>2, PlacesFinite, FS_Subset

(* The bytes of slices behind others.                                       *)
LEMMA BytesInBehind ==
    ASSUME NEW a \in Seq(SliceType), NEW b \in Seq(SliceType), NEW k \in 0..Len(b)
    PROVE  BytesIn(a \o b, Len(a) + k) = BytesIn(a, Len(a)) + BytesIn(b, k)
<1> DEFINE n == Len(a)
           c == a \o b
           first == Places(c, n)
           all == Places(c, n + k)
           second == all \ first
           B == Places(b, k)
           F == [x \in B |-> <<n + x[1], x[2]>>]
<1>1. /\ c \in Seq(SliceType) /\ Len(c) = n + Len(b) /\ n \in Nat /\ Len(b) \in Nat
      /\ \A i \in 1..n + Len(b) : c[i] = IF i <= n THEN a[i] ELSE b[i - n]
      /\ k \in Nat /\ k <= Len(b)
  BY ConcatProperties, LenProperties
<1> HIDE DEF c, n
<1>2. n \in 0..Len(c) /\ n + k \in 0..Len(c)
  BY <1>1
<1>3. /\ IsFiniteSet(first) /\ IsFiniteSet(all)
      /\ BytesIn(c, n) = Cardinality(first) /\ BytesIn(c, n + k) = Cardinality(all)
      /\ IsFiniteSet(B) /\ BytesIn(b, k) = Cardinality(B)
  BY <1>1, <1>2, PlacesFinite
<1>4. first \subseteq all
  <2>1. 1..n \subseteq 1..n + k
    BY <1>1
  <2> QED
    BY <2>1 DEF Places
<1>5. F \in Bijection(B, second)
  <2>1. \A x \in B : \E i \in 1..k : \E j \in DOMAIN b[i].data : x = <<i, j>>
    BY PlacesAre
  <2>2. \A i \in 1..k : n + i \in 1..n + k /\ n + i \notin 1..n /\ c[n + i] = b[i]
    BY <1>1
  <2>3. ASSUME NEW x \in B
        PROVE  F[x] \in second
    <3>1. PICK i \in 1..k : \E j \in DOMAIN b[i].data : x = <<i, j>>
      BY <2>1
    <3>2. PICK j \in DOMAIN b[i].data : x = <<i, j>>
      BY <3>1
    <3>3. F[x] = <<n + i, j>>
      BY <3>2
    <3> HIDE DEF F
    <3>4. <<n + i, j>> \in all
      <4>1. n + i \in 1..n + k /\ j \in DOMAIN c[n + i].data
        BY <2>2, <3>2
      <4> QED
        BY <4>1, PlacesAre
    <3>5. <<n + i, j>> \notin first
      <4>1. n + i \notin 1..n
        BY <2>2
      <4> QED
        BY <4>1, PlacesAre
    <3> QED
      BY <3>3, <3>4, <3>5
  <2>4. ASSUME NEW x \in B, NEW y \in B, F[x] = F[y]
        PROVE  x = y
    <3>1. PICK i \in 1..k : \E j \in DOMAIN b[i].data : x = <<i, j>>
      BY <2>1
    <3>2. PICK j \in DOMAIN b[i].data : x = <<i, j>>
      BY <3>1
    <3>3. PICK g \in 1..k : \E h \in DOMAIN b[g].data : y = <<g, h>>
      BY <2>1
    <3>4. PICK h \in DOMAIN b[g].data : y = <<g, h>>
      BY <3>3
    <3>5. <<n + i, j>> = <<n + g, h>>
      BY <2>4, <3>2, <3>4
    <3>6. n + i = n + g /\ j = h
      BY <3>5
    <3>7. i = g
      BY <1>1, <3>6
    <3> QED
      BY <3>2, <3>4, <3>6, <3>7
  <2>5. ASSUME NEW y \in second
        PROVE  \E x \in B : F[x] = y
    <3>1. PICK g \in 1..n + k : \E h \in DOMAIN c[g].data : y = <<g, h>>
      BY PlacesAre
    <3>2. PICK h \in DOMAIN c[g].data : y = <<g, h>>
      BY <3>1
    <3>3. g \notin 1..n
      BY <3>2, PlacesAre
    <3>4. g - n \in 1..k /\ n + (g - n) = g
      BY <1>1, <3>3
    <3>5. <<g - n, h>> \in B
      <4>1. h \in DOMAIN b[g - n].data
        BY <2>2, <3>2, <3>4
      <4> QED
        BY <3>4, <4>1, PlacesAre
    <3>6. F[<<g - n, h>>] = <<n + (g - n), h>>
      BY <3>5
    <3> QED
      BY <3>2, <3>4, <3>5, <3>6
  <2>6. F \in [B -> second]
    <3>1. F = [x \in B |-> F[x]]
      OBVIOUS
    <3> QED
      BY <2>3, <3>1
  <2> HIDE DEF F, B, second
  <2> QED
    BY <2>4, <2>5, <2>6, Fun_IsBij
<1>6. Cardinality(second) = Cardinality(B) /\ IsFiniteSet(second)
  <2> HIDE DEF F, B, second
  <2> QED
    BY <1>3, <1>5, FS_Bijection DEF ExistsBijection
<1>7. all = first \cup second /\ first \cap second = {}
  BY <1>4
<1>8. Cardinality(all) = Cardinality(first) + Cardinality(second)
  <2> HIDE DEF all, first, second, B
  <2>1. Cardinality(first \cap second) = 0
    BY <1>7, FS_EmptySet
  <2>2. Cardinality(first) \in Nat /\ Cardinality(second) \in Nat
    BY <1>3, <1>6, FS_CardinalityType
  <2>3. Cardinality(first \cup second)
          = Cardinality(first) + Cardinality(second) - Cardinality(first \cap second)
    BY <1>3, <1>6, FS_Union
  <2> QED
    BY <1>7, <2>1, <2>2, <2>3
<1>9. BytesIn(c, n) = BytesIn(a, n)
  <2>1. \A i \in 1..n : c[i] = a[i]
    BY <1>1
  <2> QED
    BY <1>1, <2>1, SameBytesIn
<1>10. BytesIn(c, n + k) = BytesIn(a, n) + BytesIn(b, k)
  <2> HIDE DEF all, first, second, B
  <2> QED
    BY <1>3, <1>6, <1>8, <1>9
<1> QED
  BY <1>10 DEF c, n
(* A byte is in the slice that SliceOf finds, and in no other.              *)
LEMMA SliceFound ==
    ASSUME NEW s \in Seq(SliceType), NEW i \in 1..BytesIn(s, Len(s))
    PROVE  LET k == SliceOf(s, i)
           IN  /\ k \in 1..Len(s)
               /\ BytesIn(s, k - 1) < i /\ i <= BytesIn(s, k)
<1> DEFINE n == Len(s)
           E == {k \in DOMAIN s : BytesIn(s, k) < i}
           m == Cardinality(E)
<1>1. n \in Nat /\ DOMAIN s = 1..n /\ \A k \in 0..n : BytesIn(s, k) \in Nat
  BY SliceData, PlacesFinite
<1>2. i \in Nat /\ i >= 1 /\ i <= BytesIn(s, n) /\ BytesIn(s, 0) = 0
  BY <1>1, NoBytesIn
<1>3. n \in Nat \ {0}
  BY <1>1, <1>2
<1>4. \A k \in 0..n : \A l \in 0..k : BytesIn(s, l) <= BytesIn(s, k)
  BY MoreBytesIn
<1>5. \A k \in E : k \in 1..n /\ BytesIn(s, k) < i /\ \A l \in 1..k : l \in E
  <2> SUFFICES ASSUME NEW k \in E, NEW l \in 1..k
               PROVE  k \in 1..n /\ BytesIn(s, k) < i /\ l \in E
    <3>1. \A k \in E : k \in 1..n /\ BytesIn(s, k) < i
      BY <1>1
    <3> QED
      BY <3>1
  <2>1. k \in 1..n /\ BytesIn(s, k) < i /\ l \in 1..n /\ k \in 0..n /\ l \in 0..k /\ l \in 0..n
    BY <1>1
  <2>2. BytesIn(s, l) <= BytesIn(s, k) /\ BytesIn(s, l) \in Nat /\ BytesIn(s, k) \in Nat
    BY <1>1, <1>4, <2>1
  <2>3. BytesIn(s, l) < i
    BY <1>2, <2>1, <2>2
  <2> QED
    BY <1>1, <2>1, <2>3
<1>6. \A k \in 1..n : k \notin E => i <= BytesIn(s, k)
  BY <1>1, <1>2
<1>7. n \notin E
  BY <1>1, <1>2
<1>8. E \subseteq 1..n - 1
  BY <1>1, <1>5, <1>7
<1> HIDE DEF E
<1>9. IsFiniteSet(E) /\ m \in Nat /\ m <= n - 1
  <2> HIDE DEF n
  <2>1. n - 1 \in Int /\ 1 \in Int
    BY <1>3
  <2>2. IsFiniteSet(1..n - 1) /\ Cardinality(1..n - 1) = IF 1 > n - 1 THEN 0 ELSE (n - 1) - 1 + 1
    BY <2>1, FS_Interval
  <2>3. Cardinality(1..n - 1) = n - 1
    BY <1>3, <2>2
  <2>4. IsFiniteSet(E) /\ Cardinality(E) <= Cardinality(1..n - 1)
    BY <1>8, <2>2, FS_Subset
  <2> QED
    BY <2>3, <2>4, FS_CardinalityType
<1> HIDE DEF n, m
<1>10. m + 1 \notin E
  <2> SUFFICES ASSUME m + 1 \in E
               PROVE  FALSE
    OBVIOUS
  <2>1. 1..m + 1 \subseteq E
    BY <1>5
  <2>2. Cardinality(1..m + 1) = m + 1
    <3>1. m + 1 \in Int /\ 1 \in Int /\ ~(1 > m + 1)
      BY <1>9
    <3>2. Cardinality(1..m + 1) = (m + 1) - 1 + 1
      BY <3>1, FS_Interval
    <3> QED
      BY <1>9, <3>2
  <2>3. m + 1 <= Cardinality(E)
    BY <1>9, <2>1, <2>2, FS_Subset
  <2> QED
    BY <1>9, <2>3 DEF m
<1>11. m # 0 => m \in E
  <2> SUFFICES ASSUME m # 0, m \notin E
               PROVE  FALSE
    OBVIOUS
  <2>1. E \subseteq 1..m - 1
    <3> SUFFICES ASSUME NEW k \in E
                 PROVE  k \in 1..m - 1
      OBVIOUS
    <3>1. k \in 1..n /\ m \notin 1..k
      BY <1>5
    <3> QED
      BY <1>9, <3>1
  <2>2. IsFiniteSet(1..m - 1) /\ Cardinality(1..m - 1) = m - 1
    <3>1. m - 1 \in Int /\ 1 \in Int
      BY <1>9
    <3>2. /\ IsFiniteSet(1..m - 1)
          /\ Cardinality(1..m - 1) = IF 1 > m - 1 THEN 0 ELSE (m - 1) - 1 + 1
      BY <3>1, FS_Interval
    <3> QED
      BY <1>9, <3>2
  <2>3. Cardinality(E) <= m - 1
    BY <2>1, <2>2, FS_Subset
  <2> QED
    BY <1>9, <2>3 DEF m
<1>12. SliceOf(s, i) = m + 1
  BY DEF SliceOf, E, m
<1>13. m + 1 \in 1..n /\ (m + 1) - 1 = m
  BY <1>3, <1>9
<1>14. BytesIn(s, m) < i
  BY <1>2, <1>5, <1>9, <1>11
<1>15. i <= BytesIn(s, m + 1)
  BY <1>6, <1>10, <1>13
<1> QED
  BY <1>12, <1>13, <1>14, <1>15 DEF n

LEMMA OneSlice ==
    ASSUME NEW s \in Seq(SliceType), NEW i \in Nat, NEW k \in 1..Len(s), NEW l \in 1..Len(s),
           BytesIn(s, k - 1) < i, i <= BytesIn(s, k), BytesIn(s, l - 1) < i, i <= BytesIn(s, l)
    PROVE  k = l
<1>1. /\ Len(s) \in Nat /\ k \in Nat /\ l \in Nat
      /\ \A j \in 0..Len(s) : BytesIn(s, j) \in Nat
  BY SliceData, PlacesFinite
<1>2. \A j \in 0..Len(s) : \A h \in 0..j : BytesIn(s, h) <= BytesIn(s, j)
  BY MoreBytesIn
<1>3. ~(k < l)
  <2> SUFFICES ASSUME k < l
               PROVE  FALSE
    OBVIOUS
  <2>1. l - 1 \in 0..Len(s) /\ k \in 0..l - 1 /\ k \in 0..Len(s)
    BY <1>1
  <2> QED
    BY <1>1, <1>2, <2>1
<1>4. ~(l < k)
  <2> SUFFICES ASSUME l < k
               PROVE  FALSE
    OBVIOUS
  <2>1. k - 1 \in 0..Len(s) /\ l \in 0..k - 1 /\ l \in 0..Len(s)
    BY <1>1
  <2> QED
    BY <1>1, <1>2, <2>1
<1> QED
  BY <1>1, <1>3, <1>4

(* The bytes of one slice.                                                  *)
LEMMA BytesOfOne ==
    ASSUME NEW x \in SliceType
    PROVE  /\ <<x>> \in Seq(SliceType) /\ BytesIn(<<x>>, 1) = Len(x.data)
           /\ Bytes(<<x>>) = x.data
<1> DEFINE s == <<x>>
           d == x.data
<1>1. s \in Seq(SliceType) /\ Len(s) = 1 /\ s[1] = x /\ DOMAIN s = 1..1
  OBVIOUS
<1>2. d \in Seq(Nat)
  BY DEF SliceType
<1>3. Len(d) \in Nat /\ DOMAIN d = 1..Len(d)
  BY <1>2, LenProperties
<1> HIDE DEF s, d
<1>4. BytesIn(s, 1) = Cardinality({1} \X DOMAIN d)
  <2>1. UNION {{i} \X DOMAIN s[i].data : i \in 1..1} = {1} \X DOMAIN d
    <3>1. 1..1 = {1}
      OBVIOUS
    <3>2. {{i} \X DOMAIN s[i].data : i \in 1..1} = {{1} \X DOMAIN d}
      BY <1>1, <3>1 DEF d
    <3> QED
      BY <3>2
  <2> QED
    BY <2>1 DEF BytesIn
<1>5. BytesIn(s, 1) = Len(d)
  <2> DEFINE n == Len(d)
  <2>1. n \in Nat /\ DOMAIN d = 1..n
    BY <1>3
  <2> HIDE DEF n
  <2>2. IsFiniteSet(1..n) /\ Cardinality(1..n) = n
    <3>1. n \in Int /\ 1 \in Int
      BY <2>1
    <3>2. IsFiniteSet(1..n) /\ Cardinality(1..n) = IF 1 > n THEN 0 ELSE n - 1 + 1
      BY <3>1, FS_Interval
    <3> QED
      BY <2>1, <3>2
  <2>3. IsFiniteSet({1}) /\ Cardinality({1}) = 1
    BY FS_Singleton
  <2>4. Cardinality({1} \X (1..n)) = Cardinality({1}) * Cardinality(1..n)
    <3> DEFINE S == {1}
               T == 1..n
    <3>1. IsFiniteSet(S) /\ IsFiniteSet(T)
      BY <2>2, <2>3
    <3> HIDE DEF S, T
    <3>2. Cardinality(S \X T) = Cardinality(S) * Cardinality(T)
      BY <3>1, FS_Product
    <3> QED
      BY <3>2, Zenon DEF S, T
  <2>5. Cardinality({1} \X (1..n)) = 1 * n
    BY <2>2, <2>3, <2>4
  <2>6. Cardinality({1} \X (1..n)) = n
    BY <2>1, <2>5
  <2>7. {1} \X DOMAIN d = {1} \X (1..n)
    BY <2>1, Zenon
  <2>8. BytesIn(s, 1) = n
    BY <1>4, <2>6, <2>7, Zenon
  <2> QED
    BY <2>8 DEF n
<1>6. ASSUME NEW i \in 1..Len(d)
      PROVE  s[SliceOf(s, i)].data[i - BytesIn(s, SliceOf(s, i) - 1)] = d[i]
  <2>1. SliceOf(s, i) \in 1..1
    BY <1>1, <1>5, SliceFound
  <2>2. SliceOf(s, i) = 1 /\ BytesIn(s, 0) = 0 /\ i \in Nat
    BY <1>3, <2>1, NoBytesIn
  <2>3. SliceOf(s, i) - 1 = 0 /\ i - 0 = i
    BY <2>2
  <2> QED
    BY <1>1, <2>2, <2>3 DEF d
<1>7. Bytes(s) = [i \in 1..Len(d) |-> d[i]]
  BY <1>1, <1>5, <1>6 DEF Bytes
<1>8. d = [i \in 1..Len(d) |-> d[i]]
  BY <1>2, <1>3
<1> QED
  BY <1>1, <1>5, <1>7, <1>8 DEF s, d

(* How far it is to the end of a slice.                                     *)
LEMMA NextBytesIn ==
    ASSUME NEW s \in Seq(SliceType), NEW k \in 1..Len(s)
    PROVE  BytesIn(s, k) = BytesIn(s, k - 1) + Len(s[k].data)
<1> DEFINE a == SubSeq(s, 1, k - 1)
           b == <<s[k]>>
           c == a \o b
<1>1. /\ Len(s) \in Nat /\ k \in Nat /\ s[k] \in SliceType /\ k - 1 \in Nat /\ k - 1 <= Len(s)
      /\ k - 1 \in 0..Len(s)
  BY SliceData
<1>2. /\ a \in Seq(SliceType) /\ Len(a) = k - 1
      /\ \A i \in 1..k - 1 : a[i] = s[i]
  <2>1. \A i \in 1..k - 1 : s[i] \in SliceType
    BY <1>1, SliceData
  <2>2. k - 1 \in 1 - 1..Len(s)
    BY <1>1
  <2> QED
    BY <1>1, <2>1, <2>2, SubSeqProperties
<1>3. b \in Seq(SliceType) /\ Len(b) = 1 /\ BytesIn(b, 1) = Len(s[k].data) /\ b[1] = s[k]
  BY <1>1, BytesOfOne
<1> HIDE DEF a, b
<1>4. BytesIn(c, Len(a) + 1) = BytesIn(a, Len(a)) + BytesIn(b, 1)
  <2>1. 1 \in 0..Len(b)
    BY <1>3
  <2> QED
    BY <1>2, <1>3, <2>1, BytesInBehind
<1>5. \A i \in 1..k : c[i] = s[i]
  <2>0. \A i \in 1..Len(a) + Len(b) : c[i] = IF i <= Len(a) THEN a[i] ELSE b[i - Len(a)]
    <3>1. a \in Seq(SliceType) /\ b \in Seq(SliceType)
      BY <1>2, <1>3
    <3> QED
      BY <3>1, ConcatProperties
  <2>1. \A i \in 1..(k - 1) + 1 : c[i] = IF i <= k - 1 THEN a[i] ELSE b[i - (k - 1)]
    <3> HIDE DEF c
    <3> QED
      BY <1>2, <1>3, <2>0
  <2> HIDE DEF c
  <2> SUFFICES ASSUME NEW i \in 1..k
               PROVE  c[i] = s[i]
    OBVIOUS
  <2>2. CASE i <= k - 1
    BY <1>1, <1>2, <2>1, <2>2
  <2>3. CASE i = k
    <3>1. i - (k - 1) = 1 /\ ~(i <= k - 1) /\ i \in 1..(k - 1) + 1
      BY <1>1, <2>3
    <3> QED
      BY <1>3, <2>1, <2>3, <3>1
  <2> QED
    BY <1>1, <2>2, <2>3
<1>6. BytesIn(c, k) = BytesIn(s, k)
  BY <1>1, <1>5, SameBytesIn
<1>7. BytesIn(a, k - 1) = BytesIn(s, k - 1)
  BY <1>1, <1>2, SameBytesIn
<1>8. (k - 1) + 1 = k
  BY <1>1
<1> QED
  BY <1>2, <1>3, <1>4, <1>6, <1>7, <1>8

(* The bytes of slices are a sequence.                                      *)
LEMMA BytesTyped ==
    ASSUME NEW s \in Seq(SliceType)
    PROVE  /\ Bytes(s) \in Seq(Nat) /\ Len(Bytes(s)) = BytesIn(s, Len(s))
           /\ BytesIn(s, Len(s)) \in Nat
<1> DEFINE n == BytesIn(s, Len(s))
           e(i) == s[SliceOf(s, i)].data[i - BytesIn(s, SliceOf(s, i) - 1)]
<1>1. n \in Nat /\ Len(s) \in Nat /\ \A k \in 0..Len(s) : BytesIn(s, k) \in Nat
  <2>1. Len(s) \in Nat
    BY LenProperties
  <2>2. Len(s) \in 0..Len(s)
    BY <2>1
  <2> QED
    BY <2>1, <2>2, PlacesFinite
<1>2. ASSUME NEW i \in 1..n
      PROVE  e(i) \in Nat
  <2> DEFINE k == SliceOf(s, i)
  <2>1. k \in 1..Len(s) /\ BytesIn(s, k - 1) < i /\ i <= BytesIn(s, k)
    BY SliceFound
  <2> HIDE DEF k
  <2>2. /\ BytesIn(s, k) = BytesIn(s, k - 1) + Len(s[k].data)
        /\ s[k].data \in Seq(Nat) /\ Len(s[k].data) \in Nat
    BY <2>1, NextBytesIn, SliceData
  <2>3. BytesIn(s, k - 1) \in Nat
    BY <1>1, <2>1
  <2>4. i - BytesIn(s, k - 1) \in 1..Len(s[k].data)
    BY <2>1, <2>2, <2>3
  <2>5. s[k].data[i - BytesIn(s, k - 1)] \in Nat
    BY <2>2, <2>4, ElementOfSeq
  <2> QED
    BY <2>5 DEF k
<1>3. Bytes(s) = [i \in 1..n |-> e(i)]
  BY DEF Bytes
<1>4. Bytes(s) \in [1..n -> Nat]
  <2> HIDE DEF e, n
  <2> QED
    BY <1>2, <1>3
<1> HIDE DEF n
<1>5. Bytes(s) \in Seq(Nat) /\ Len(Bytes(s)) = n
  BY <1>1, <1>4
<1> QED
  BY <1>1, <1>5 DEF n

(* The bytes of slices behind others.                                       *)
LEMMA BytesBehind ==
    ASSUME NEW a \in Seq(SliceType), NEW b \in Seq(SliceType)
    PROVE  Bytes(a \o b) = Bytes(a) \o Bytes(b)
<1> DEFINE n == Len(a)
           m == Len(b)
           c == a \o b
           A == BytesIn(a, n)
           B == BytesIn(b, m)
           C == BytesIn(c, Len(c))
<1>1. /\ c \in Seq(SliceType) /\ Len(c) = n + m /\ n \in Nat /\ m \in Nat
      /\ \A i \in 1..n + m : c[i] = IF i <= n THEN a[i] ELSE b[i - n]
  BY ConcatProperties, LenProperties
<1>2. \A k \in 0..m : BytesIn(c, n + k) = A + BytesIn(b, k)
  BY BytesInBehind
<1>3. \A k \in 0..n : BytesIn(c, k) = BytesIn(a, k)
  <2> SUFFICES ASSUME NEW k \in 0..n
               PROVE  BytesIn(c, k) = BytesIn(a, k)
    OBVIOUS
  <2>1. k \in Nat /\ \A i \in 1..k : c[i] = a[i]
    BY <1>1
  <2> HIDE DEF c
  <2> QED
    BY <2>1, SameBytesIn
<1>4. A \in Nat /\ B \in Nat /\ \A k \in 0..n : BytesIn(a, k) \in Nat
  BY BytesTyped, PlacesFinite
<1>5. \A k \in 0..m : BytesIn(b, k) \in Nat
  BY PlacesFinite
<1>6. C = A + B
  BY <1>1, <1>2
<1> HIDE DEF A, B, C, c, n, m
<1>7. ASSUME NEW i \in 1..A
      PROVE  Bytes(c)[i] = Bytes(a)[i]
  <2> DEFINE k == SliceOf(a, i)
  <2>1. k \in 1..n /\ BytesIn(a, k - 1) < i /\ i <= BytesIn(a, k)
    BY SliceFound DEF A, n
  <2>2. /\ k \in 1..Len(c) /\ BytesIn(c, k - 1) = BytesIn(a, k - 1) /\ BytesIn(c, k) = BytesIn(a, k)
        /\ c[k] = a[k] /\ i \in 1..C /\ i \in Nat
    <3> HIDE DEF k
    <3>1. k \in 0..n /\ k - 1 \in 0..n /\ k \in 1..n + m /\ k <= n
      BY <1>1, <2>1
    <3> QED
      BY <1>1, <1>3, <1>4, <1>6, <3>1
  <2> DEFINE l == SliceOf(c, i)
  <2>3. l \in 1..Len(c) /\ BytesIn(c, l - 1) < i /\ i <= BytesIn(c, l)
    BY <1>1, <2>2, SliceFound DEF C
  <2> HIDE DEF k, l
  <2>4. k = l
    BY <1>1, <2>1, <2>2, <2>3, OneSlice
  <2>5. Bytes(c)[i] = c[l].data[i - BytesIn(c, l - 1)]
    BY <2>2 DEF Bytes, C, l
  <2>6. Bytes(a)[i] = a[k].data[i - BytesIn(a, k - 1)]
    BY DEF Bytes, A, n, k
  <2> QED
    BY <2>2, <2>4, <2>5, <2>6
<1>8. ASSUME NEW i \in 1..B
      PROVE  Bytes(c)[A + i] = Bytes(b)[i]
  <2> DEFINE k == SliceOf(b, i)
  <2>1. k \in 1..m /\ BytesIn(b, k - 1) < i /\ i <= BytesIn(b, k)
    BY SliceFound DEF B, m
  <2>2. /\ n + k \in 1..Len(c) /\ BytesIn(c, (n + k) - 1) = A + BytesIn(b, k - 1)
        /\ BytesIn(c, n + k) = A + BytesIn(b, k)
        /\ c[n + k] = b[k] /\ A + i \in 1..C /\ A + i \in Nat
        /\ BytesIn(b, k - 1) \in Nat /\ BytesIn(b, k) \in Nat
    <3> HIDE DEF k
    <3>1. /\ k \in 0..m /\ k - 1 \in 0..m /\ n + k \in 1..n + m /\ ~(n + k <= n)
          /\ (n + k) - 1 = n + (k - 1) /\ (n + k) - n = k
      BY <1>1, <2>1
    <3> QED
      BY <1>1, <1>2, <1>4, <1>5, <1>6, <3>1
  <2> DEFINE l == SliceOf(c, A + i)
  <2>3. l \in 1..Len(c) /\ BytesIn(c, l - 1) < A + i /\ A + i <= BytesIn(c, l)
    BY <1>1, <2>2, SliceFound DEF C
  <2> HIDE DEF k, l
  <2>4. BytesIn(c, (n + k) - 1) < A + i /\ A + i <= BytesIn(c, n + k)
    BY <1>4, <2>1, <2>2
  <2>5. n + k = l
    BY <1>1, <2>2, <2>3, <2>4, OneSlice
  <2>6. Bytes(c)[A + i] = c[l].data[(A + i) - BytesIn(c, l - 1)]
    <3> DEFINE h == A + i
    <3>1. h \in 1..C
      BY <2>2
    <3> HIDE DEF h
    <3>2. Bytes(c)[h] = c[SliceOf(c, h)].data[h - BytesIn(c, SliceOf(c, h) - 1)]
      BY <3>1 DEF Bytes, C
    <3> QED
      BY <3>2, Zenon DEF h, l
  <2>7. Bytes(b)[i] = b[k].data[i - BytesIn(b, k - 1)]
    BY DEF Bytes, B, m, k
  <2>8. (A + i) - (A + BytesIn(b, k - 1)) = i - BytesIn(b, k - 1)
    BY <1>4, <2>2
  <2> QED
    BY <2>2, <2>5, <2>6, <2>7, <2>8
<1>9. /\ Bytes(a) \in Seq(Nat) /\ Len(Bytes(a)) = A
      /\ Bytes(b) \in Seq(Nat) /\ Len(Bytes(b)) = B
      /\ Bytes(c) \in Seq(Nat) /\ Len(Bytes(c)) = C
  BY <1>1, BytesTyped DEF A, B, C, n, m
<1> DEFINE x == Bytes(a)
           y == Bytes(b)
           z == Bytes(c)
<1>10. /\ x \in Seq(Nat) /\ Len(x) = A /\ y \in Seq(Nat) /\ Len(y) = B /\ z \in Seq(Nat) /\ Len(z) = A + B
       /\ \A i \in 1..A : z[i] = x[i]
       /\ \A i \in 1..B : z[A + i] = y[i]
  BY <1>6, <1>7, <1>8, <1>9
<1> HIDE DEF x, y, z
<1>11. /\ x \o y \in Seq(Nat) /\ Len(x \o y) = A + B
       /\ \A i \in 1..A + B : (x \o y)[i] = IF i <= A THEN x[i] ELSE y[i - A]
  BY <1>10, ConcatProperties
<1>12. \A i \in 1..A + B : z[i] = (x \o y)[i]
  <2> SUFFICES ASSUME NEW i \in 1..A + B
               PROVE  z[i] = (x \o y)[i]
    OBVIOUS
  <2>1. CASE i <= A
    BY <1>4, <1>10, <1>11, <2>1
  <2>2. CASE ~(i <= A)
    <3>1. i - A \in 1..B /\ A + (i - A) = i
      BY <1>4, <2>2
    <3> QED
      BY <1>10, <1>11, <2>2, <3>1
  <2> QED
    BY <2>1, <2>2
<1>13. z = x \o y
  BY <1>10, <1>11, <1>12, SeqEqual
<1> QED
  BY <1>13 DEF x, y, z, c


-----------------------------------------------------------------------------
(* Types.                                                                  *)

(* The frames that the library writes itself.                               *)
LEMMA ControlTyped ==
    ASSUME NEW m \in BOOLEAN,
           NEW op \in {"CONTINUE", "CLOSE", "PING", "PONG"} \cup Texts
    PROVE  Control(op, m) \in FrameType
<1>1. <<>> \in Seq(Nat)
  OBVIOUS
<1> QED
  BY <1>1 DEF Control, Frame, FrameType

(* A frame on its way.                                                      *)
LEMMA UnitsTyped ==
    ASSUME NEW f \in FrameType
    PROVE  Units(f) \in Seq(UnitType)
<1>1. /\ [frame |-> f, last |-> TRUE] \in UnitType
      /\ [frame |-> f, last |-> FALSE] \in UnitType
  BY DEF UnitType
<1> QED
  BY <1>1 DEF Units

(* An application can count the bytes it has written.                       *)
LEMMA ByteCountTyped ==
    ASSUME NEW p \in Peers, sent[p] \in Seq(SliceType)
    PROVE  ByteCount(p) \in Nat
<1>1. Len(sent[p]) \in 0..Len(sent[p])
  BY SliceData
<1> QED
  BY <1>1, PlacesFinite DEF ByteCount

(* What it writes next.                                                     *)
LEMMA NewBytesTyped ==
    ASSUME NEW p \in Peers, sent[p] \in Seq(SliceType), NEW n \in Lengths
    PROVE  NewBytes(p, n) \in Seq(Nat)
<1>1. ByteCount(p) \in Nat /\ n \in Nat
  BY ByteCountTyped, WsAssumption
<1>2. \A i \in 1..n : ByteCount(p) + i \in Nat
  BY <1>1
<1> QED
  BY <1>1, <1>2, IsASeq DEF NewBytes

(* A payload has its type whoever has masked it.                            *)
LEMMA PayloadTyped ==
    ASSUME NEW p \in Peers, NEW f \in FrameType
    PROVE  Payload(p, f) \in Seq(Nat)
<1>1. f.data \in Seq(Nat)
  BY DEF FrameType
<1>2. Garbled(f.data) \in Seq(Nat)
  BY <1>1 DEF Garbled
<1> QED
  BY <1>1, <1>2 DEF Payload

(* What a frame adds to the way to the other peer.                          *)
LEMMA WritesUnits ==
    ASSUME NEW p \in Peers, NEW f \in FrameType, net \in [Peers -> Seq(UnitType)],
           Writes(p, f)
    PROVE  /\ net' \in [Peers -> Seq(UnitType)]
           /\ net'[p] = net[p]
           /\ net'[Other(p)] = IF gone[Other(p)] = "no" THEN net[Other(p)] \o Units(f)
                               ELSE net[Other(p)]
<1>1. Other(p) \in Peers /\ Other(p) # p
  BY OtherPeer
<1>2. Units(f) \in Seq(UnitType)
  BY UnitsTyped
<1>3. net[Other(p)] \o Units(f) \in Seq(UnitType)
  BY <1>1, <1>2
<1> QED
  BY <1>1, <1>3 DEF Writes
(* A slice is built from its parts.                                         *)
LEMMA SliceTyped ==
    ASSUME NEW op \in {"TEXT", "BINARY"}, NEW fin \in BOOLEAN, NEW d \in Seq(Nat)
    PROVE  Slice(op, fin, d) \in SliceType
  BY DEF Slice, SliceType

(* A data frame is built from its parts.                                    *)
LEMMA DataTyped ==
    ASSUME NEW op \in {"TEXT", "BINARY", "CONTINUE"}, NEW fin \in BOOLEAN,
           NEW m \in BOOLEAN, NEW d \in Seq(Nat)
    PROVE  Frame(op, fin, m, d) \in FrameType
  BY DEF Frame, FrameType

(* The last of the messages, and those before it.                           *)
LEMMA LastTyped ==
    ASSUME NEW q \in Seq(SliceType), q # <<>>
    PROVE  /\ Last(q) \in SliceType /\ Front(q) \in Seq(SliceType)
           /\ Last(q).opcode \in {"TEXT", "BINARY"} /\ Last(q).fin \in BOOLEAN
           /\ Last(q).data \in Seq(Nat)
           /\ Len(q) \in 1..Len(q) /\ Last(q) = q[Len(q)]
<1>1. Len(q) \in Nat /\ Len(q) # 0
  BY EmptySeq, LenProperties
<1>2. Len(q) \in 1..Len(q)
  BY <1>1
<1>3. q[Len(q)] \in SliceType
  BY <1>2, ElementOfSeq
<1>4. Front(q) \in Seq(SliceType)
  BY <1>1, SubSeqProperties DEF Front
<1> QED
  BY <1>2, <1>3, <1>4 DEF Last, SliceType

(* The first of the messages, and those behind it.                          *)
LEMMA HeadTyped ==
    ASSUME NEW q \in Seq(SliceType), q # <<>>
    PROVE  /\ Head(q) \in SliceType /\ Tail(q) \in Seq(SliceType)
           /\ Head(q).opcode \in {"TEXT", "BINARY"} /\ Head(q).fin \in BOOLEAN
           /\ Head(q).data \in Seq(Nat)
<1>1. Head(q) \in SliceType /\ Tail(q) \in Seq(SliceType)
  BY HeadTailProperties
<1> QED
  BY <1>1 DEF SliceType

(* What is left of a message is one.                                        *)
LEMMA CutTyped ==
    ASSUME NEW q \in Seq(SliceType), q # <<>>, NEW k \in 0..Len(Head(q).data)
    PROVE  /\ CutFirst(q, k) \in Seq(SliceType)
           /\ SubSeq(Head(q).data, 1, k) \in Seq(Nat)
<1> DEFINE d == Head(q).data
           rest == SubSeq(d, k + 1, Len(d))
           left == [Head(q) EXCEPT !.data = rest]
<1>1. d \in Seq(Nat) /\ Len(d) \in Nat /\ k \in Nat /\ k <= Len(d)
  BY HeadTyped, LenProperties
<1>2. rest \in Seq(Nat)
  BY <1>1, SubSeqProperties
<1>3. SubSeq(d, 1, k) \in Seq(Nat)
  BY <1>1, SubSeqProperties
<1>4. left \in SliceType
  <2> HIDE DEF rest
  <2> QED
    BY <1>2, HeadTyped DEF SliceType
<1>5. <<left>> \o Tail(q) \in Seq(SliceType)
  <2> HIDE DEF left
  <2> QED
    BY <1>4, HeadTyped
<1>6. CutFirst(q, k) = IF k = Len(d) THEN Tail(q) ELSE <<left>> \o Tail(q)
  BY DEF CutFirst
<1> QED
  BY <1>3, <1>5, <1>6, HeadTyped

(* The library begins in a state of the types.                              *)
LEMMA TypeInit == Init => TypeOK
<1> SUFFICES ASSUME Init
             PROVE  TypeOK
  OBVIOUS
<1>1. Stopped \in TimerType
  BY DEF Stopped, TimerType
<1> QED
  BY <1>1 DEF Init, TypeOK

(* Calls that write keep the types.                                         *)
LEMMA CallsTyped ==
    ASSUME TypeOK, NEW p \in Peers,
           \/ Connect(p) \/ WriteText(p) \/ Write(p) \/ WriteFrame(p) \/ Disconnect(p)
    PROVE  TypeOK'
<1>0. net \in [Peers -> Seq(UnitType)] /\ sent[p] \in Seq(SliceType)
      /\ client_role[p] \in BOOLEAN /\ data_type[p] \in {"TEXT", "BINARY"}
  BY DEF TypeOK
<1>1. CASE Connect(p)
  <2>1. Control("REQUEST", FALSE) \in FrameType
    BY ControlTyped DEF Texts
  <2>2. net' \in [Peers -> Seq(UnitType)]
    BY <1>0, <1>1, <2>1, WritesUnits DEF Connect
  <2> QED
    BY <1>1, <2>2 DEF Connect, TypeOK, timeVars, appVars, HasFrame
<1>2. CASE WriteText(p)
  <2>1. Control("BAD", FALSE) \in FrameType
    BY ControlTyped DEF Texts
  <2>2. net' \in [Peers -> Seq(UnitType)]
    BY <1>0, <1>2, <2>1, WritesUnits DEF WriteText
  <2> QED
    BY <1>2, <2>2 DEF WriteText, TypeOK, timeVars, appVars, HasFrame
<1>3. CASE Write(p)
  <2>1. PICK n \in Lengths :
          /\ Writes(p, Frame(data_type[p], TRUE, client_role[p], NewBytes(p, n)))
          /\ sent' = [sent EXCEPT ![p] = Append(@, Slice(data_type[p], TRUE, NewBytes(p, n)))]
    BY <1>3 DEF Write
  <2>2. NewBytes(p, n) \in Seq(Nat)
    BY <1>0, NewBytesTyped
  <2>3. Frame(data_type[p], TRUE, client_role[p], NewBytes(p, n)) \in FrameType
    BY <1>0, <2>2, DataTyped
  <2>4. net' \in [Peers -> Seq(UnitType)]
    BY <1>0, <2>1, <2>3, WritesUnits
  <2>5. Append(sent[p], Slice(data_type[p], TRUE, NewBytes(p, n))) \in Seq(SliceType)
    BY <1>0, <2>2, SliceTyped, AppendProperties
  <2>6. sent' \in [Peers -> Seq(SliceType)]
    BY <2>1, <2>5 DEF TypeOK
  <2> QED
    BY <1>3, <2>4, <2>6 DEF Write, TypeOK, timeVars, HasFrame
<1>4. CASE WriteFrame(p)
  <2>1. PICK n \in Lengths, fin \in BOOLEAN,
             masked \in IF p \in Careless THEN BOOLEAN ELSE {client_role[p]} :
         \/ /\ ~Open(p) /\ Len(sent[p]) < MaxFrames
            /\ \E opcode \in Opcodes :
                 /\ Writes(p, Frame(opcode, fin, masked, NewBytes(p, n)))
                 /\ sent' = [sent EXCEPT ![p] = Append(@, Slice(opcode, fin, NewBytes(p, n)))]
         \/ /\ Open(p)
            /\ fin \/ Len(Last(sent[p]).data) < MaxFrames
            /\ Writes(p, Frame("CONTINUE", fin, masked, NewBytes(p, n)))
            /\ sent' = [sent EXCEPT ![p] =
                    Append(Front(@), Slice(Last(@).opcode, fin, Last(@).data \o NewBytes(p, n)))]
    BY <1>4 DEF WriteFrame
  <2>2. NewBytes(p, n) \in Seq(Nat) /\ masked \in BOOLEAN
    BY <1>0, NewBytesTyped
  <2>3. net' \in [Peers -> Seq(UnitType)] /\ sent' \in [Peers -> Seq(SliceType)]
    <3>1. ASSUME NEW opcode \in Opcodes,
                 Writes(p, Frame(opcode, fin, masked, NewBytes(p, n))),
                 sent' = [sent EXCEPT ![p] = Append(@, Slice(opcode, fin, NewBytes(p, n)))]
          PROVE  net' \in [Peers -> Seq(UnitType)] /\ sent' \in [Peers -> Seq(SliceType)]
      <4>1. opcode \in {"TEXT", "BINARY"}
        BY WsAssumption
      <4>2. Frame(opcode, fin, masked, NewBytes(p, n)) \in FrameType
        BY <2>2, <4>1, DataTyped
      <4>3. net' \in [Peers -> Seq(UnitType)]
        BY <1>0, <3>1, <4>2, WritesUnits
      <4>4. Append(sent[p], Slice(opcode, fin, NewBytes(p, n))) \in Seq(SliceType)
        BY <1>0, <2>2, <4>1, SliceTyped, AppendProperties
      <4> QED
        BY <3>1, <4>3, <4>4 DEF TypeOK
    <3>2. ASSUME Open(p), Writes(p, Frame("CONTINUE", fin, masked, NewBytes(p, n))),
                 sent' = [sent EXCEPT ![p] =
                    Append(Front(@), Slice(Last(@).opcode, fin, Last(@).data \o NewBytes(p, n)))]
          PROVE  net' \in [Peers -> Seq(UnitType)] /\ sent' \in [Peers -> Seq(SliceType)]
      <4>1. /\ Last(sent[p]).opcode \in {"TEXT", "BINARY"} /\ Last(sent[p]).data \in Seq(Nat)
            /\ Front(sent[p]) \in Seq(SliceType)
        BY <1>0, <3>2, LastTyped DEF Open
      <4>2. Frame("CONTINUE", fin, masked, NewBytes(p, n)) \in FrameType
        BY <2>2, DataTyped
      <4>3. net' \in [Peers -> Seq(UnitType)]
        BY <1>0, <3>2, <4>2, WritesUnits
      <4>4. Last(sent[p]).data \o NewBytes(p, n) \in Seq(Nat)
        BY <2>2, <4>1, ConcatProperties
      <4>5. Slice(Last(sent[p]).opcode, fin, Last(sent[p]).data \o NewBytes(p, n)) \in SliceType
        BY <4>1, <4>4, SliceTyped
      <4>6. Append(Front(sent[p]), Slice(Last(sent[p]).opcode, fin, Last(sent[p]).data \o NewBytes(p, n)))
              \in Seq(SliceType)
        BY <4>1, <4>5, AppendProperties
      <4> QED
        BY <3>2, <4>3, <4>6 DEF TypeOK
    <3> QED
      BY <2>1, <3>1, <3>2
  <2> QED
    BY <1>4, <2>3 DEF WriteFrame, TypeOK, timeVars, HasFrame
<1>5. CASE Disconnect(p)
  <2>1. Control("CLOSE", client_role[p]) \in FrameType
    BY <1>0, ControlTyped
  <2>2. net' \in [Peers -> Seq(UnitType)]
    BY <1>0, <1>5, <2>1, WritesUnits DEF Disconnect
  <2> QED
    BY <1>5, <2>2 DEF Disconnect, TypeOK, timeVars, appVars, HasFrame
<1> QED
  BY <1>1, <1>2, <1>3, <1>4, <1>5
(* The intervals of both roles are numbers.                                 *)
LEMMA StartTyped ==
    /\ \A p \in Peers : Interval(p) \in Nat /\ Started(Interval(p)) \in TimerType
    /\ \A n \in Nat : Started(n) \in TimerType
<1>1. \A n \in Nat : Started(n) \in TimerType
  BY DEF Started, TimerType
<1>2. \A p \in Peers : Interval(p) \in Nat
  BY WsAssumption DEF Interval
<1> QED
  BY <1>1, <1>2

(* Units one after the other.                                               *)
LEMMA UnitsAssociate ==
    ASSUME NEW a \in Seq(UnitType), NEW b \in Seq(UnitType), NEW d \in Seq(UnitType)
    PROVE  /\ (a \o b) \o d = a \o (b \o d)
           /\ a \o b \in Seq(UnitType) /\ a \o (b \o d) \in Seq(UnitType)
<1>1. (a \o b) \o d = a \o (b \o d)
  BY ConcatAssociative
<1>2. a \o b \in Seq(UnitType) /\ b \o d \in Seq(UnitType)
  BY ConcatProperties
<1>3. a \o (b \o d) \in Seq(UnitType)
  BY <1>2, ConcatProperties
<1> QED
  BY <1>1, <1>2, <1>3

(* A read of n units takes them from the way into the buffer.               *)
LEMMA ChunkTaken ==
    ASSUME NEW b \in Seq(UnitType), NEW w \in Seq(UnitType), NEW n \in 1..Len(w)
    PROVE  /\ b \o SubSeq(w, 1, n) \in Seq(UnitType)
           /\ SubSeq(w, n + 1, Len(w)) \in Seq(UnitType)
           /\ (b \o SubSeq(w, 1, n)) \o SubSeq(w, n + 1, Len(w)) = b \o w
           /\ w # <<>>
<1>1. Len(w) \in Nat /\ n \in 1..Len(w) /\ n \in Nat /\ n + 1 \in 1..Len(w) + 1
  OBVIOUS
<1>2. SubSeq(w, 1, n) \in Seq(UnitType) /\ SubSeq(w, n + 1, Len(w)) \in Seq(UnitType)
  BY <1>1, SubSeqProperties
<1>3. SubSeq(w, 1, n) \o SubSeq(w, n + 1, Len(w)) = w
  OBVIOUS
<1>4. w # <<>>
  BY <1>1
<1>5. (b \o SubSeq(w, 1, n)) \o SubSeq(w, n + 1, Len(w)) = b \o (SubSeq(w, 1, n) \o SubSeq(w, n + 1, Len(w)))
  <2> DEFINE u == SubSeq(w, 1, n)
             v == SubSeq(w, n + 1, Len(w))
  <2>1. u \in Seq(UnitType) /\ v \in Seq(UnitType)
    BY <1>2
  <2> HIDE DEF u, v
  <2>2. (b \o u) \o v = b \o (u \o v)
    BY <2>1, UnitsAssociate
  <2> QED
    BY <2>2 DEF u, v
<1> QED
  BY <1>2, <1>3, <1>4, <1>5, ConcatProperties

(* A read of the decorated stream keeps the types.                          *)
LEMMA ReadTyped ==
    ASSUME TypeOK, NEW p \in Peers, ReadChunk(p)
    PROVE  TypeOK'
<1>1. PICK n \in 1..Len(net[p]) :
         LET b    == buffer[p] \o SubSeq(net[p], 1, n)
             rest == SubSeq(net[p], n + 1, Len(net[p]))
         IN  /\ n <= MaxChunk
             /\ IF status[p] = "READY"
                THEN /\ buffer' = [buffer EXCEPT ![p] = b]
                     /\ net' = [net EXCEPT ![p] = rest]
                     /\ loop' = [loop EXCEPT ![p] = HasFrame(b)]
                     /\ UNCHANGED <<status, timeVars, again, told>>
                ELSE Handshake(p, b) /\ Answers(p, b, rest) /\ UNCHANGED loop
  BY DEF ReadChunk
<1> DEFINE b    == buffer[p] \o SubSeq(net[p], 1, n)
           rest == SubSeq(net[p], n + 1, Len(net[p]))
<1>2. b \in Seq(UnitType) /\ rest \in Seq(UnitType)
  <2>1. buffer[p] \in Seq(UnitType) /\ net[p] \in Seq(UnitType)
    BY DEF TypeOK
  <2> QED
    BY <2>1, ChunkTaken
<1>3. /\ UNCHANGED <<client_role, cache, data_type, sent, received, gone>>
      /\ ~loop[p]
  BY DEF ReadChunk, Callable
<1>4. CASE status[p] = "READY"
  <2>1. /\ buffer' = [buffer EXCEPT ![p] = b] /\ net' = [net EXCEPT ![p] = rest]
        /\ loop' = [loop EXCEPT ![p] = HasFrame(b)]
        /\ UNCHANGED <<status, timeVars, again, told>>
    BY <1>1, <1>4
  <2> HIDE DEF b, rest
  <2>2. buffer' \in [Peers -> Seq(UnitType)] /\ net' \in [Peers -> Seq(UnitType)]
    BY <1>2, <2>1 DEF TypeOK
  <2>3. HasFrame(b) \in BOOLEAN
    BY DEF HasFrame
  <2>4. loop' \in [Peers -> BOOLEAN]
    BY <2>1, <2>3, Zenon DEF TypeOK
  <2>5. \A q \in Peers : loop'[q] => HasFrame(buffer'[q])
    <3> SUFFICES ASSUME NEW q \in Peers, loop'[q]
                 PROVE  HasFrame(buffer'[q])
      OBVIOUS
    <3>1. CASE q = p
      BY <2>1, <3>1 DEF TypeOK
    <3>2. CASE q # p
      <4>1. loop'[q] = loop[q] /\ buffer'[q] = buffer[q]
        BY <2>1, <3>2 DEF TypeOK
      <4> QED
        BY <4>1 DEF TypeOK
    <3> QED
      BY <3>1, <3>2
  <2> QED
    BY <1>3, <2>1, <2>2, <2>4, <2>5 DEF TypeOK, timeVars
<1>5. CASE status[p] # "READY"
  <2>1. Handshake(p, b) /\ Answers(p, b, rest) /\ UNCHANGED loop
    BY <1>1, <1>5
  <2> HIDE DEF b, rest
  <2>2. /\ buffer' \in [Peers -> Seq(UnitType)]
        /\ \A q \in Peers : q # p => buffer'[q] = buffer[q]
        /\ status' \in [Peers -> {"INIT", "READY", "CLOSING"}]
        /\ again' \in [Peers -> BOOLEAN] /\ told' \in [Peers -> BOOLEAN]
        /\ keep_alive' \in [Peers -> Nat] /\ keep_alive_timer' \in [Peers -> TimerType]
        /\ keep_alive_responded' \in [Peers -> BOOLEAN]
    <3>a. CASE HasText(b) /\ b[1].frame.opcode # "BAD"
      <4>1. /\ status' = [status EXCEPT ![p] = "READY"] /\ buffer' = [buffer EXCEPT ![p] = <<>>]
            /\ keep_alive' = [keep_alive EXCEPT ![p] = Interval(p)]
            /\ keep_alive_timer' = [keep_alive_timer EXCEPT ![p] = Started(Interval(p))]
            /\ again' = [again EXCEPT ![p] = TRUE]
            /\ UNCHANGED <<keep_alive_responded, told>>
        BY <2>1, <3>a DEF Handshake
      <4>2. Interval(p) \in Nat /\ Started(Interval(p)) \in TimerType
        BY StartTyped
      <4>3. buffer' \in [Peers -> Seq(UnitType)] /\ status' \in [Peers -> {"INIT", "READY", "CLOSING"}]
        BY <4>1 DEF TypeOK
      <4>4. keep_alive' \in [Peers -> Nat] /\ keep_alive_timer' \in [Peers -> TimerType]
        BY <4>1, <4>2 DEF TypeOK
      <4>5. again' \in [Peers -> BOOLEAN]
        BY <4>1, Zenon DEF TypeOK
      <4>6. \A q \in Peers : q # p => buffer'[q] = buffer[q]
        BY <4>1 DEF TypeOK
      <4> QED
        BY <4>1, <4>3, <4>4, <4>5, <4>6 DEF TypeOK
    <3>b. CASE HasText(b) /\ b[1].frame.opcode = "BAD"
      <4>1. /\ buffer' = [buffer EXCEPT ![p] = <<>>] /\ told' = [told EXCEPT ![p] = TRUE]
            /\ UNCHANGED <<status, timeVars, again>>
        BY <2>1, <3>b DEF Handshake
      <4>2. buffer' \in [Peers -> Seq(UnitType)] /\ \A q \in Peers : q # p => buffer'[q] = buffer[q]
        BY <4>1 DEF TypeOK
      <4>3. told' \in [Peers -> BOOLEAN]
        BY <4>1, Zenon DEF TypeOK
      <4> QED
        BY <4>1, <4>2, <4>3 DEF TypeOK, timeVars
    <3>c. CASE ~HasText(b)
      <4>1. /\ buffer' = [buffer EXCEPT ![p] = b] /\ again' = [again EXCEPT ![p] = TRUE]
            /\ UNCHANGED <<status, timeVars, told>>
        BY <2>1, <3>c DEF Handshake
      <4>2. buffer' \in [Peers -> Seq(UnitType)] /\ \A q \in Peers : q # p => buffer'[q] = buffer[q]
        BY <1>2, <4>1 DEF TypeOK
      <4>3. again' \in [Peers -> BOOLEAN]
        BY <4>1, Zenon DEF TypeOK
      <4> QED
        BY <4>1, <4>2, <4>3 DEF TypeOK, timeVars
    <3> QED
      BY <3>a, <3>b, <3>c
  <2>3. net' \in [Peers -> Seq(UnitType)]
    <3>1. Units(Control("RESPONSE", FALSE)) \in Seq(UnitType)
      BY ControlTyped, UnitsTyped DEF Texts
    <3>2. net[Other(p)] \o Units(Control("RESPONSE", FALSE)) \in Seq(UnitType)
      <4>1. net[Other(p)] \in Seq(UnitType)
        BY OtherPeer DEF TypeOK
      <4> QED
        BY <3>1, <4>1, ConcatProperties
    <3>3. [net EXCEPT ![p] = rest] \in [Peers -> Seq(UnitType)]
      BY <1>2 DEF TypeOK
    <3>4. \A w \in Seq(UnitType) :
             [net EXCEPT ![p] = rest, ![Other(p)] = w] \in [Peers -> Seq(UnitType)]
      BY <1>2 DEF TypeOK
    <3> QED
      <4>1. p # Other(p)
        BY OtherPeer
      <4>2. \/ net' = [net EXCEPT ![p] = rest]
            \/ net' = [net EXCEPT ![p] = rest,
                          ![Other(p)] = net[Other(p)] \o Units(Control("RESPONSE", FALSE))]
        BY <2>1, <4>1 DEF Answers, TypeOK
      <4> QED
        BY <3>2, <3>3, <3>4, <4>2
  <2>5. \A q \in Peers : loop'[q] => HasFrame(buffer'[q])
    BY <1>3, <2>1, <2>2 DEF TypeOK
  <2> QED
    BY <1>3, <2>1, <2>2, <2>3, <2>5 DEF TypeOK
<1> QED
  BY <1>4, <1>5
(* The frame at the head of a buffer with a whole one, and what is behind.  *)
LEMMA FirstFrame ==
    ASSUME NEW b \in Seq(UnitType), HasFrame(b)
    PROVE  /\ b # <<>> /\ b[1] \in UnitType /\ Head(b) = b[1]
           /\ Head(b).frame \in FrameType
           /\ Head(b).frame.opcode \in
                {"TEXT", "BINARY", "CONTINUE", "CLOSE", "PING", "PONG"} \cup Texts
           /\ Head(b).frame.fin \in BOOLEAN /\ Head(b).frame.masked \in BOOLEAN
           /\ SubSeq(b, 3, Len(b)) \in Seq(UnitType)
           /\ Len(b) \in Nat /\ Len(b) >= 2
<1>1. Len(b) \in Nat /\ Len(b) >= 2
  BY DEF HasFrame
<1>2. b # <<>> /\ b[1] \in UnitType /\ Head(b) = b[1]
  BY <1>1, ElementOfSeq
<1>3. SubSeq(b, 3, Len(b)) \in Seq(UnitType)
  BY <1>1, SubSeqProperties
<1>4. Head(b).frame \in FrameType
  BY <1>2 DEF UnitType
<1> QED
  BY <1>1, <1>2, <1>3, <1>4 DEF FrameType

(* The loop over the buffer is at a whole frame.                            *)
LEMMA HandledFrame ==
    ASSUME TypeOK, NEW p \in Peers, loop[p]
    PROVE  /\ buffer[p] \in Seq(UnitType) /\ HasFrame(buffer[p])
           /\ Head(buffer[p]).frame \in FrameType
           /\ client_role[p] \in BOOLEAN
<1>1. buffer[p] \in Seq(UnitType) /\ HasFrame(buffer[p])
  BY DEF TypeOK
<1>2. client_role[p] \in BOOLEAN
  BY DEF TypeOK
<1> QED
  BY <1>1, <1>2, FirstFrame

(* What the handler of a frame writes.                                      *)
LEMMA RepliesUnits ==
    ASSUME TypeOK, NEW p \in Peers, NEW f \in FrameType, Replies(p, f)
    PROVE  /\ net' \in [Peers -> Seq(UnitType)]
           /\ net'[p] = net[p]
           /\ \E c \in {<<>>, Units(Control("CLOSE", TRUE))},
                 g \in {<<>>, Units(Control("PONG", client_role[p]))} :
                /\ c \in Seq(UnitType) /\ g \in Seq(UnitType)
                /\ net'[Other(p)] = IF gone[Other(p)] = "no" THEN net[Other(p)] \o (c \o g)
                                    ELSE net[Other(p)]
<1> DEFINE c == IF f.masked /\ client_role[p] THEN Units(Control("CLOSE", TRUE)) ELSE <<>>
           g == IF f.opcode = "PING" THEN Units(Control("PONG", client_role[p])) ELSE <<>>
<1>1. Control("CLOSE", TRUE) \in FrameType /\ Control("PONG", client_role[p]) \in FrameType
  <2>1. client_role[p] \in BOOLEAN
    BY DEF TypeOK
  <2> QED
    BY <2>1, ControlTyped
<1>2. Units(Control("CLOSE", TRUE)) \in Seq(UnitType) /\ Units(Control("PONG", client_role[p])) \in Seq(UnitType)
  BY <1>1, UnitsTyped
<1>3. c \in Seq(UnitType) /\ g \in Seq(UnitType)
  <2>1. <<>> \in Seq(UnitType)
    OBVIOUS
  <2>2. c \in Seq(UnitType)
    BY <1>2, <2>1, Zenon
  <2>3. g \in Seq(UnitType)
    BY <1>2, <2>1, Zenon
  <2> QED
    BY <2>2, <2>3
<1>4. c \in {<<>>, Units(Control("CLOSE", TRUE))} /\ g \in {<<>>, Units(Control("PONG", client_role[p]))}
  OBVIOUS
<1>5. Other(p) \in Peers /\ Other(p) # p /\ net \in [Peers -> Seq(UnitType)]
  BY OtherPeer DEF TypeOK
<1>6. net' = IF gone[Other(p)] = "no" THEN [net EXCEPT ![Other(p)] = @ \o c \o g] ELSE net
  BY DEF Replies
<1> HIDE DEF c, g
<1>7. (net[Other(p)] \o c) \o g = net[Other(p)] \o (c \o g) /\ net[Other(p)] \o (c \o g) \in Seq(UnitType)
  <2>1. net[Other(p)] \in Seq(UnitType)
    BY <1>5
  <2> QED
    BY <1>3, <2>1, UnitsAssociate
<1>8. net' = IF gone[Other(p)] = "no" THEN [net EXCEPT ![Other(p)] = net[Other(p)] \o (c \o g)] ELSE net
  BY <1>5, <1>6, <1>7
<1>9. net' \in [Peers -> Seq(UnitType)] /\ net'[p] = net[p]
      /\ net'[Other(p)] = IF gone[Other(p)] = "no" THEN net[Other(p)] \o (c \o g) ELSE net[Other(p)]
  BY <1>5, <1>7, <1>8
<1> QED
  BY <1>3, <1>4, <1>9

(* A frame that continues a message.                                        *)
LEMMA ContinuedTyped ==
    ASSUME NEW q \in Seq(SliceType), q # <<>>, NEW fin \in BOOLEAN, NEW d \in Seq(Nat)
    PROVE  [q EXCEPT ![LastSlice(q)] = Slice(@.opcode, fin, @.data \o d)] \in Seq(SliceType)
<1>1. /\ Last(q).opcode \in {"TEXT", "BINARY"} /\ Last(q).data \in Seq(Nat)
      /\ Len(q) \in 1..Len(q) /\ Last(q) = q[Len(q)]
  BY LastTyped
<1>2. Last(q).data \o d \in Seq(Nat)
  BY <1>1, ConcatProperties
<1>3. Slice(Last(q).opcode, fin, Last(q).data \o d) \in SliceType
  BY <1>1, <1>2, SliceTyped
<1> QED
  BY <1>1, <1>3, ExceptSeq DEF LastSlice

(* The loop over the frames in the buffer keeps the types.                  *)
LEMMA HandlingTyped ==
    ASSUME TypeOK, NEW p \in Peers, HandleReceivedFrame(p)
    PROVE  TypeOK'
<1> DEFINE f    == Head(buffer[p]).frame
           rest == SubSeq(buffer[p], 3, Len(buffer[p]))
<1>1. /\ gone[p] = "no" /\ loop[p]
      /\ buffer' = [buffer EXCEPT ![p] = rest]
      /\ loop' = [loop EXCEPT ![p] = MoreFrames(rest)]
      /\ CloseIfMasked(p, f)
      /\ Replies(p, f)
      /\ \/ ReceiveMessage(p, f) \/ ReceiveContinue(p, f)
         \/ ReceivePing(p, f) \/ ReceivePong(p, f) \/ ReceiveClose(p, f)
      /\ UNCHANGED <<client_role, again, appVars>>
  BY DEF HandleReceivedFrame
<1>2. f \in FrameType /\ rest \in Seq(UnitType) /\ f.fin \in BOOLEAN
  BY <1>1, HandledFrame, FirstFrame
<1> HIDE DEF f, rest
<1>3. net' \in [Peers -> Seq(UnitType)]
  BY <1>1, <1>2, RepliesUnits
<1>4. status' \in [Peers -> {"INIT", "READY", "CLOSING"}]
  BY <1>1 DEF CloseIfMasked, TypeOK
<1>5. buffer' \in [Peers -> Seq(UnitType)]
  BY <1>1, <1>2 DEF TypeOK
<1>6. loop' \in [Peers -> BOOLEAN] /\ \A q \in Peers : loop'[q] => HasFrame(buffer'[q])
  <2>1. HasFrame(rest) \in BOOLEAN
    BY DEF HasFrame
  <2>2. loop' \in [Peers -> BOOLEAN]
    BY <1>1, <2>1, Zenon DEF MoreFrames, TypeOK
  <2>3. \A q \in Peers : loop'[q] => HasFrame(buffer'[q])
    BY <1>1 DEF TypeOK, MoreFrames
  <2> QED
    BY <2>2, <2>3
<1>7. Payload(p, f) \in Seq(Nat)
  BY <1>2, PayloadTyped
<1>8. /\ cache' \in [Peers -> Seq(SliceType)] /\ data_type' \in [Peers -> {"TEXT", "BINARY"}]
      /\ keep_alive' \in [Peers -> Nat] /\ keep_alive_responded' \in [Peers -> BOOLEAN]
      /\ keep_alive_timer' \in [Peers -> TimerType]
  <2>1. CASE ReceiveMessage(p, f)
    <3>1. Slice(f.opcode, f.fin, Payload(p, f)) \in SliceType
      BY <1>2, <1>7, <2>1, SliceTyped DEF ReceiveMessage
    <3>2. Append(cache[p], Slice(f.opcode, f.fin, Payload(p, f))) \in Seq(SliceType)
      BY <3>1, AppendProperties DEF TypeOK
    <3> QED
      BY <2>1, <3>2 DEF ReceiveMessage, TypeOK, timeVars
  <2>2. CASE ReceiveContinue(p, f)
    <3>1. cache[p] \in Seq(SliceType)
      BY DEF TypeOK
    <3>2. cache' \in [Peers -> Seq(SliceType)]
      <4>1. CASE cache[p] = <<>>
        BY <2>2, <4>1 DEF ReceiveContinue, TypeOK
      <4>2. CASE cache[p] # <<>>
        <5>1. [cache[p] EXCEPT ![LastSlice(cache[p])] = Slice(@.opcode, f.fin, @.data \o Payload(p, f))]
                \in Seq(SliceType)
          BY <1>2, <1>7, <3>1, <4>2, ContinuedTyped
        <5>2. cache' = [cache EXCEPT ![p] =
                [cache[p] EXCEPT ![LastSlice(cache[p])] = Slice(@.opcode, f.fin, @.data \o Payload(p, f))]]
          BY <2>2, <4>2 DEF ReceiveContinue
        <5> QED
          BY <5>1, <5>2 DEF TypeOK
      <4> QED
        BY <4>1, <4>2
    <3> QED
      BY <2>2, <3>2 DEF ReceiveContinue, TypeOK, timeVars
  <2>3. CASE ReceivePing(p, f)
    <3>1. Started(keep_alive[p]) \in TimerType
      BY StartTyped DEF TypeOK
    <3> QED
      BY <2>3, <3>1 DEF ReceivePing, TypeOK
  <2>4. CASE ReceivePong(p, f)
    <3>1. keep_alive_responded' \in [Peers -> BOOLEAN]
      BY <2>4, Zenon DEF ReceivePong, TypeOK
    <3> QED
      BY <2>4, <3>1 DEF ReceivePong, TypeOK
  <2>5. CASE ReceiveClose(p, f)
    BY <2>5 DEF ReceiveClose, TypeOK, timeVars
  <2> QED
    BY <1>1, <2>1, <2>2, <2>3, <2>4, <2>5
<1> QED
  BY <1>1, <1>3, <1>4, <1>5, <1>6, <1>8 DEF TypeOK, appVars

(* Calls that read keep the types.                                          *)
LEMMA ReadsTyped ==
    ASSUME TypeOK, NEW p \in Peers,
           \/ ReadBytes(p) \/ ReadFrame(p) \/ ReadFrameTooLong(p) \/ ReadNothing(p) \/ ReadZero(p)
    PROVE  TypeOK'
<1>0. cache[p] \in Seq(SliceType) /\ received[p] \in Seq(SliceType)
      /\ HasMessage(p) \in BOOLEAN
  BY DEF TypeOK, HasMessage
<1>1. CASE ReadBytes(p)
  <2>1. cache[p] # <<>>
    BY <1>1 DEF ReadBytes
  <2>2. PICK n \in 1..MaxRead :
         LET slice == Head(cache[p])
             k == IF n < Len(slice.data) THEN n ELSE Len(slice.data)
         IN  /\ received' = [received EXCEPT ![p] =
                    Append(@, Slice(slice.opcode, slice.fin, SubSeq(slice.data, 1, k)))]
             /\ cache' = [cache EXCEPT ![p] = CutFirst(@, k)]
             /\ told' = [told EXCEPT ![p] = k = 0]
    BY <1>1 DEF ReadBytes
  <2> DEFINE slice == Head(cache[p])
             k == IF n < Len(slice.data) THEN n ELSE Len(slice.data)
  <2>3. slice.opcode \in {"TEXT", "BINARY"} /\ slice.fin \in BOOLEAN /\ slice.data \in Seq(Nat)
    BY <1>0, <2>1, HeadTyped
  <2>4. k \in 0..Len(slice.data)
    <3>1. Len(slice.data) \in Nat /\ n \in Nat
      BY <2>3, LenProperties, WsAssumption
    <3> QED
      BY <3>1
  <2>5. CutFirst(cache[p], k) \in Seq(SliceType) /\ SubSeq(slice.data, 1, k) \in Seq(Nat)
    BY <1>0, <2>1, <2>4, CutTyped
  <2>6. /\ received' = [received EXCEPT ![p] =
                    Append(@, Slice(slice.opcode, slice.fin, SubSeq(slice.data, 1, k)))]
        /\ cache' = [cache EXCEPT ![p] = CutFirst(@, k)]
        /\ told' = [told EXCEPT ![p] = k = 0]
    BY <2>2
  <2> HIDE DEF slice, k
  <2>7. Slice(slice.opcode, slice.fin, SubSeq(slice.data, 1, k)) \in SliceType
    BY <2>3, <2>5, SliceTyped
  <2>8. Append(received[p], Slice(slice.opcode, slice.fin, SubSeq(slice.data, 1, k))) \in Seq(SliceType)
    BY <1>0, <2>7, AppendProperties
  <2>9. received' \in [Peers -> Seq(SliceType)] /\ cache' \in [Peers -> Seq(SliceType)]
    BY <2>5, <2>6, <2>8 DEF TypeOK
  <2>10. again' \in [Peers -> BOOLEAN]
    <3>1. (again[p] \/ ~HasMessage(p)) \in BOOLEAN
      OBVIOUS
    <3>2. again' = [again EXCEPT ![p] = again[p] \/ ~HasMessage(p)]
      BY <1>1 DEF ReadBytes
    <3> QED
      BY <3>1, <3>2, Zenon DEF TypeOK
  <2>11. told' \in [Peers -> BOOLEAN]
    <3>1. (k = 0) \in BOOLEAN
      OBVIOUS
    <3> QED
      BY <2>6, <3>1, Zenon DEF TypeOK
  <2> QED
    BY <1>1, <2>9, <2>10, <2>11 DEF ReadBytes, TypeOK, timeVars, HasFrame
<1>2. CASE ReadFrame(p)
  <2>1. cache[p] # <<>>
    BY <1>2 DEF ReadFrame, HasMessage
  <2>2. Append(received[p], Head(cache[p])) \in Seq(SliceType) /\ Tail(cache[p]) \in Seq(SliceType)
    BY <1>0, <2>1, HeadTyped, AppendProperties
  <2>3. received' \in [Peers -> Seq(SliceType)] /\ cache' \in [Peers -> Seq(SliceType)]
    BY <1>2, <2>2 DEF ReadFrame, TypeOK
  <2> QED
    BY <1>2, <2>3 DEF ReadFrame, TypeOK, timeVars, HasFrame
<1>3. CASE ReadFrameTooLong(p)
  <2>1. again' \in [Peers -> BOOLEAN]
    BY <1>3, Zenon DEF ReadFrameTooLong, TypeOK
  <2> QED
    BY <1>3, <2>1 DEF ReadFrameTooLong, TypeOK, timeVars, appVars, HasFrame
<1>4. CASE ReadNothing(p)
  <2>1. again' \in [Peers -> BOOLEAN]
    BY <1>4, Zenon DEF ReadNothing, TypeOK
  <2> QED
    BY <1>4, <2>1 DEF ReadNothing, TypeOK, timeVars, appVars, HasFrame
<1>5. CASE ReadZero(p)
  <2>1. told' \in [Peers -> BOOLEAN]
    <3>1. told' = told \/ told' = [told EXCEPT ![p] = TRUE]
      BY <1>5 DEF ReadZero
    <3> QED
      BY <3>1, Zenon DEF TypeOK
  <2> QED
    BY <1>5, <2>1 DEF ReadZero, TypeOK, timeVars, HasFrame
<1> QED
  BY <1>1, <1>2, <1>3, <1>4, <1>5

(* Time and the environment keep the types.                                 *)
LEMMA TimeTyped ==
    ASSUME TypeOK,
           Tick \/ \E p \in Peers : DoTime(p) \/ Close(p) \/ Crash(p)
    PROVE  TypeOK'
<1>1. CASE Tick
  <2>1. \A t \in TimerType : Ticked(t) \in TimerType
    BY DEF Ticked, TimerType
  <2>2. keep_alive_timer' \in [Peers -> TimerType]
    BY <1>1, <2>1 DEF Tick, TypeOK
  <2> QED
    BY <1>1, <2>2 DEF Tick, TypeOK, appVars, HasFrame
<1>2. ASSUME NEW p \in Peers, DoTime(p)
      PROVE  TypeOK'
  <2>1. CASE PingDue(p)
    <3>1. /\ Writes(p, Control("PING", TRUE))
          /\ keep_alive_responded' = [keep_alive_responded EXCEPT ![p] = FALSE]
          /\ keep_alive_timer' = [keep_alive_timer EXCEPT ![p] = Restarted(@)]
          /\ UNCHANGED status
      BY <1>2, <2>1 DEF DoTime
    <3>2. net' \in [Peers -> Seq(UnitType)]
      <4>1. Control("PING", TRUE) \in FrameType
        BY ControlTyped
      <4>2. net \in [Peers -> Seq(UnitType)]
        BY DEF TypeOK
      <4> QED
        BY <3>1, <4>1, <4>2, WritesUnits
    <3>3. \A t \in TimerType : Restarted(t) \in TimerType
      BY DEF Restarted, TimerType
    <3>4. keep_alive_timer' \in [Peers -> TimerType]
      BY <3>1, <3>3 DEF TypeOK
    <3>5. keep_alive_responded' \in [Peers -> BOOLEAN]
      BY <3>1, Zenon DEF TypeOK
    <3> QED
      BY <1>2, <3>1, <3>2, <3>4, <3>5 DEF DoTime, TypeOK, appVars, HasFrame
  <2>2. CASE ~PingDue(p)
    BY <1>2, <2>2 DEF DoTime, TypeOK, appVars, HasFrame
  <2> QED
    BY <2>1, <2>2
<1>3. ASSUME NEW p \in Peers, Close(p)
      PROVE  TypeOK'
  BY <1>3 DEF Close, TypeOK, timeVars, HasFrame
<1>4. ASSUME NEW p \in Peers, Crash(p)
      PROVE  TypeOK'
  BY <1>4 DEF Crash, TypeOK, timeVars, HasFrame
<1> QED
  BY <1>1, <1>2, <1>3, <1>4

(* Every step keeps the types.                                              *)
LEMMA TypeStep == TypeOK /\ [Next]_vars => TypeOK'
<1> SUFFICES ASSUME TypeOK, [Next]_vars
             PROVE  TypeOK'
  OBVIOUS
<1>1. CASE UNCHANGED vars
  BY <1>1 DEF vars, timeVars, appVars, TypeOK, HasFrame
<1>2. CASE Tick
  BY <1>2, TimeTyped
<1>3. ASSUME NEW p \in Peers,
             \/ Connect(p) \/ WriteText(p) \/ Write(p) \/ WriteFrame(p) \/ Disconnect(p)
      PROVE  TypeOK'
  BY <1>3, CallsTyped
<1>4. ASSUME NEW p \in Peers, ReadChunk(p) \/ HandleReceivedFrame(p)
      PROVE  TypeOK'
  BY <1>4, ReadTyped, HandlingTyped
<1>5. ASSUME NEW p \in Peers,
             \/ ReadBytes(p) \/ ReadFrame(p) \/ ReadFrameTooLong(p) \/ ReadNothing(p) \/ ReadZero(p)
      PROVE  TypeOK'
  BY <1>5, ReadsTyped
<1>6. ASSUME NEW p \in Peers, DoTime(p) \/ Close(p) \/ Crash(p)
      PROVE  TypeOK'
  BY <1>6, TimeTyped
<1> QED
  BY <1>1, <1>2, <1>3, <1>4, <1>5, <1>6, Zenon DEF Next

(* Every variable keeps its type, and the loop over the buffer only goes on *)
(* while a whole frame is in it (stream_ws_peek_frame), whatever the        *)
(* applications do and however the bytes are cut.                           *)
THEOREM TypeCorrect == Spec => []TypeOK
  BY TypeInit, TypeStep, PTL DEF Spec
-----------------------------------------------------------------------------
(* What is on its way.                                                     *)

\* What p has not handled yet: the units it has read and those on their way.
Wire(p) == buffer[p] \o net[p]

OpcodesIn(w) == {w[i].frame.opcode : i \in DOMAIN w}

Data == {"TEXT", "BINARY", "CONTINUE"}

TextFree(w) == OpcodesIn(w) \cap Texts = {}

DataFree(w) == OpcodesIn(w) \cap Data = {}

(* The opcodes of sequences of units that are put together.                 *)
LEMMA OpcodesConcat ==
    ASSUME NEW a \in Seq(UnitType), NEW b \in Seq(UnitType)
    PROVE  /\ a \o b \in Seq(UnitType)
           /\ OpcodesIn(a \o b) = OpcodesIn(a) \cup OpcodesIn(b)
<1>1. /\ a \o b \in Seq(UnitType) /\ Len(a \o b) = Len(a) + Len(b)
      /\ \A i \in 1..Len(a) + Len(b) :
            (a \o b)[i] = IF i <= Len(a) THEN a[i] ELSE b[i - Len(a)]
      /\ Len(a) \in Nat /\ Len(b) \in Nat
  BY ConcatProperties, LenProperties
<1>2. /\ DOMAIN (a \o b) = 1..Len(a) + Len(b) /\ DOMAIN a = 1..Len(a) /\ DOMAIN b = 1..Len(b)
  BY <1>1, LenProperties
<1>3. ASSUME NEW x \in OpcodesIn(a \o b)
      PROVE  x \in OpcodesIn(a) \cup OpcodesIn(b)
  <2>1. PICK i \in 1..Len(a) + Len(b) : x = (a \o b)[i].frame.opcode
    BY <1>2, <1>3 DEF OpcodesIn
  <2>2. CASE i <= Len(a)
    BY <1>1, <1>2, <2>1, <2>2 DEF OpcodesIn
  <2>3. CASE ~(i <= Len(a))
    <3>1. i - Len(a) \in 1..Len(b) /\ (a \o b)[i] = b[i - Len(a)]
      BY <1>1, <2>3
    <3> QED
      BY <1>2, <2>1, <3>1 DEF OpcodesIn
  <2> QED
    BY <2>2, <2>3
<1>4. ASSUME NEW x \in OpcodesIn(a)
      PROVE  x \in OpcodesIn(a \o b)
  <2>1. PICK i \in 1..Len(a) : x = a[i].frame.opcode
    BY <1>2, <1>4 DEF OpcodesIn
  <2>2. i \in 1..Len(a) + Len(b) /\ (a \o b)[i] = a[i]
    BY <1>1
  <2> QED
    BY <1>2, <2>1, <2>2 DEF OpcodesIn
<1>5. ASSUME NEW x \in OpcodesIn(b)
      PROVE  x \in OpcodesIn(a \o b)
  <2>1. PICK i \in 1..Len(b) : x = b[i].frame.opcode
    BY <1>2, <1>5 DEF OpcodesIn
  <2>2. i + Len(a) \in 1..Len(a) + Len(b) /\ (a \o b)[i + Len(a)] = b[i]
    BY <1>1
  <2> QED
    BY <1>2, <2>1, <2>2 DEF OpcodesIn
<1> QED
  BY <1>1, <1>3, <1>4, <1>5

(* The opcodes of a frame, and of nothing.                                  *)
LEMMA OpcodesOfFrame ==
    /\ OpcodesIn(<<>>) = {}
    /\ \A f \in FrameType : OpcodesIn(Units(f)) = {f.opcode} /\ Units(f) # <<>>
    /\ \A f \in FrameType : Head(Units(f)).frame = f
<1>1. OpcodesIn(<<>>) = {}
  <2>1. DOMAIN <<>> = {}
    OBVIOUS
  <2> QED
    BY <2>1, Zenon DEF OpcodesIn
<1>2. ASSUME NEW f \in FrameType
      PROVE  OpcodesIn(Units(f)) = {f.opcode} /\ Units(f) # <<>> /\ Head(Units(f)).frame = f
  <2>1. CASE f.opcode \in Texts
    <3>1. Units(f) = <<[frame |-> f, last |-> TRUE]>>
      BY <2>1 DEF Units
    <3> QED
      BY <3>1 DEF OpcodesIn
  <2>2. CASE f.opcode \notin Texts
    <3>1. Units(f) = <<[frame |-> f, last |-> FALSE], [frame |-> f, last |-> TRUE]>>
      BY <2>2 DEF Units
    <3> QED
      BY <3>1 DEF OpcodesIn
  <2> QED
    BY <2>1, <2>2
<1> QED
  BY <1>1, <1>2

(* What is on its way is a sequence of units.                               *)
LEMMA WireTyped ==
    ASSUME TypeOK, NEW p \in Peers
    PROVE  /\ buffer[p] \in Seq(UnitType) /\ net[p] \in Seq(UnitType)
           /\ Wire(p) \in Seq(UnitType)
           /\ OpcodesIn(Wire(p)) = OpcodesIn(buffer[p]) \cup OpcodesIn(net[p])
<1>1. buffer[p] \in Seq(UnitType) /\ net[p] \in Seq(UnitType)
  BY DEF TypeOK
<1> QED
  BY <1>1, OpcodesConcat DEF Wire

(* A frame that is written is on its way to the other peer.                 *)
LEMMA WireWritten ==
    ASSUME TypeOK, NEW p \in Peers, NEW f \in FrameType, Writes(p, f), UNCHANGED buffer
    PROVE  /\ Wire(p)' = Wire(p) /\ net'[p] = net[p]
           /\ gone[Other(p)] # "no" => Wire(Other(p))' = Wire(Other(p)) /\ net'[Other(p)] = net[Other(p)]
           /\ gone[Other(p)] = "no" => /\ Wire(Other(p))' = Wire(Other(p)) \o Units(f)
                                       /\ net'[Other(p)] = net[Other(p)] \o Units(f)
           /\ OpcodesIn(Wire(Other(p))') \subseteq OpcodesIn(Wire(Other(p))) \cup {f.opcode}
           /\ OpcodesIn(net'[Other(p)]) \subseteq OpcodesIn(net[Other(p)]) \cup {f.opcode}
<1> DEFINE q == Other(p)
<1>1. q \in Peers /\ net \in [Peers -> Seq(UnitType)]
  BY OtherPeer DEF TypeOK
<1>2. /\ net'[p] = net[p]
      /\ net'[q] = IF gone[q] = "no" THEN net[q] \o Units(f) ELSE net[q]
  BY <1>1, WritesUnits
<1>3. /\ buffer[q] \in Seq(UnitType) /\ net[q] \in Seq(UnitType) /\ Wire(q) \in Seq(UnitType)
      /\ Units(f) \in Seq(UnitType) /\ OpcodesIn(Units(f)) = {f.opcode}
  BY <1>1, WireTyped, UnitsTyped, OpcodesOfFrame
<1>4. buffer[q] \o (net[q] \o Units(f)) = (buffer[q] \o net[q]) \o Units(f)
  <2> DEFINE a == buffer[q]
             b == net[q]
             u == Units(f)
  <2>1. a \in Seq(UnitType) /\ b \in Seq(UnitType) /\ u \in Seq(UnitType)
    BY <1>3
  <2> HIDE DEF a, b, u
  <2>2. a \o (b \o u) = (a \o b) \o u
    BY <2>1, UnitsAssociate
  <2> QED
    BY <2>2 DEF a, b, u
<1>5. /\ OpcodesIn(Wire(q) \o Units(f)) = OpcodesIn(Wire(q)) \cup {f.opcode}
      /\ OpcodesIn(net[q] \o Units(f)) = OpcodesIn(net[q]) \cup {f.opcode}
  BY <1>3, OpcodesConcat
<1>6. Wire(p)' = Wire(p)
  BY <1>2 DEF Wire
<1>7. Wire(q)' = IF gone[q] = "no" THEN Wire(q) \o Units(f) ELSE Wire(q)
  BY <1>2, <1>4 DEF Wire
<1> HIDE DEF q
<1>8. /\ OpcodesIn(Wire(q)') \subseteq OpcodesIn(Wire(q)) \cup {f.opcode}
      /\ OpcodesIn(net'[q]) \subseteq OpcodesIn(net[q]) \cup {f.opcode}
  BY <1>2, <1>5, <1>7, Zenon
<1> QED
  BY <1>2, <1>6, <1>7, <1>8 DEF q
\* A read of the decorated stream: b is in the buffer then, rest is left on the
\* way.
Takes(p, b, rest) ==
    /\ gone[p] = "no" /\ ~loop[p] /\ ~told[p] /\ net[p] # <<>>
    /\ b \in Seq(UnitType) /\ rest \in Seq(UnitType) /\ b # <<>>
    /\ b \o rest = Wire(p)
    /\ net'[p] = rest /\ buffer'[Other(p)] = buffer[Other(p)]
    /\ OpcodesIn(rest) \subseteq OpcodesIn(net[p])
    /\ buffer[p] = <<>> => /\ Head(b) = Head(net[p]) /\ (Len(net[p]) <= 1 => rest = <<>>)
                           /\ OpcodesIn(rest) \subseteq OpcodesIn(Tail(net[p]))
    /\ UNCHANGED <<client_role, cache, data_type, sent, received, gone>>

\* It is more for the loop,
TakesFrames(p, b) ==
    /\ status[p] = "READY" /\ buffer'[p] = b /\ net'[Other(p)] = net[Other(p)]
    /\ loop' = [loop EXCEPT ![p] = HasFrame(b)]
    /\ UNCHANGED <<status, timeVars, told>>

\* completes the handshake,
TakesText(p, b) ==
    /\ status[p] # "READY" /\ Head(b).frame.opcode \in Texts \ {"BAD"}
    /\ status' = [status EXCEPT ![p] = "READY"]
    /\ buffer'[p] = <<>>
    /\ net'[Other(p)] = IF Head(b).frame.opcode = "REQUEST" /\ gone[Other(p)] = "no"
                        THEN net[Other(p)] \o Units(Control("RESPONSE", FALSE))
                        ELSE net[Other(p)]
    /\ keep_alive_timer'[Other(p)] = keep_alive_timer[Other(p)]
    /\ UNCHANGED <<told, loop>>

\* lets it fail,
TakesBad(p, b) ==
    /\ status[p] # "READY" /\ Head(b).frame.opcode = "BAD"
    /\ buffer'[p] = <<>> /\ net'[Other(p)] = net[Other(p)]
    /\ told' = [told EXCEPT ![p] = TRUE]
    /\ UNCHANGED <<status, timeVars, loop>>

\* or is kept for later.
TakesPart(p, b) ==
    /\ status[p] # "READY" /\ Head(b).frame.opcode \notin Texts
    /\ buffer'[p] = b /\ net'[Other(p)] = net[Other(p)]
    /\ UNCHANGED <<status, timeVars, told, loop>>

(* The opcodes at the ends of a way.                                        *)
LEMMA OpcodesEnds ==
    ASSUME NEW w \in Seq(UnitType), w # <<>>
    PROVE  /\ Head(w) = w[1] /\ Head(w) \in UnitType
           /\ Head(w).frame.opcode \in OpcodesIn(w)
           /\ Head(w).frame \in FrameType
<1>1. Len(w) \in Nat /\ Len(w) # 0
  BY EmptySeq, LenProperties
<1>2. 1 \in DOMAIN w /\ w[1] \in UnitType /\ Head(w) = w[1]
  BY <1>1, ElementOfSeq, LenProperties
<1>3. w[1].frame.opcode \in OpcodesIn(w)
  BY <1>2 DEF OpcodesIn
<1> QED
  BY <1>2, <1>3 DEF UnitType

(* What is left when the first n units are read, and those after the first.  *)
LEMMA TailSplit ==
    ASSUME NEW w \in Seq(UnitType), NEW n \in Nat, n >= 1, n <= Len(w)
    PROVE  /\ SubSeq(w, 2, n) \in Seq(UnitType)
           /\ SubSeq(w, 2, n) \o SubSeq(w, n + 1, Len(w)) = Tail(w)
<1> DEFINE a == SubSeq(w, 2, n)
<1> DEFINE c == SubSeq(w, n + 1, Len(w))
<1>1. Len(w) \in Nat
  OBVIOUS
<1>2. a \in Seq(UnitType) /\ Len(a) = n - 1 /\ \A i \in 1..n - 1 : a[i] = w[i + 1]
  BY <1>1
<1>3. c \in Seq(UnitType) /\ Len(c) = Len(w) - n /\ \A i \in 1..Len(w) - n : c[i] = w[i + n]
  BY <1>1
<1>4. /\ Tail(w) \in Seq(UnitType) /\ Len(Tail(w)) = Len(w) - 1
      /\ \A i \in 1..Len(w) - 1 : Tail(w)[i] = w[i + 1]
  BY <1>1
<1> HIDE DEF a, c
<1>5. /\ a \o c \in Seq(UnitType) /\ Len(a \o c) = Len(w) - 1
      /\ \A i \in 1..Len(w) - 1 : (a \o c)[i] = w[i + 1]
  <2>1. /\ a \o c \in Seq(UnitType) /\ Len(a \o c) = Len(a) + Len(c)
        /\ \A i \in 1..Len(a) + Len(c) : (a \o c)[i] = IF i <= Len(a) THEN a[i] ELSE c[i - Len(a)]
    BY <1>2, <1>3, ConcatProperties
  <2> QED
    BY <1>1, <1>2, <1>3, <2>1
<1>6. a \o c = Tail(w)
  BY <1>4, <1>5, <1>1, SeqEqual
<1> QED
  BY <1>2, <1>6 DEF a, c

(* What ReadChunk does is one of the four.                                  *)
LEMMA ReadWays ==
    ASSUME TypeOK, NEW p \in Peers, ReadChunk(p)
    PROVE  \E b, rest : /\ Takes(p, b, rest)
                        /\ TakesFrames(p, b) \/ TakesText(p, b) \/ TakesBad(p, b) \/ TakesPart(p, b)
<1>1. PICK n \in 1..Len(net[p]) :
         LET b    == buffer[p] \o SubSeq(net[p], 1, n)
             rest == SubSeq(net[p], n + 1, Len(net[p]))
         IN  /\ n <= MaxChunk
             /\ IF status[p] = "READY"
                THEN /\ buffer' = [buffer EXCEPT ![p] = b]
                     /\ net' = [net EXCEPT ![p] = rest]
                     /\ loop' = [loop EXCEPT ![p] = HasFrame(b)]
                     /\ UNCHANGED <<status, timeVars, again, told>>
                ELSE Handshake(p, b) /\ Answers(p, b, rest) /\ UNCHANGED loop
  BY DEF ReadChunk
<1> DEFINE chunk == SubSeq(net[p], 1, n)
           b     == buffer[p] \o chunk
           rest  == SubSeq(net[p], n + 1, Len(net[p]))
           q     == Other(p)
<1>2. buffer[p] \in Seq(UnitType) /\ net[p] \in Seq(UnitType) /\ Len(net[p]) \in Nat
  BY LenProperties DEF TypeOK
<1>3. /\ b \in Seq(UnitType) /\ rest \in Seq(UnitType) /\ net[p] # <<>>
      /\ b \o rest = Wire(p)
  BY <1>2, ChunkTaken DEF Wire
<1>4. /\ chunk \in Seq(UnitType) /\ Len(chunk) = n /\ chunk[1] = net[p][1] /\ chunk \o rest = net[p]
      /\ n \in Nat /\ n >= 1 /\ n <= Len(net[p])
  BY <1>2
<1>5. b # <<>> /\ (buffer[p] = <<>> => Head(b) = Head(net[p]))
  <2> HIDE DEF chunk, rest
  <2>1. Len(b) = Len(buffer[p]) + n /\ Len(b) # 0
    <3>1. \A s, t \in Seq(UnitType) : Len(s \o t) = Len(s) + Len(t) /\ Len(s) \in Nat
      OBVIOUS
    <3>2. chunk \in Seq(UnitType) /\ buffer[p] \in Seq(UnitType)
      BY <1>2, <1>4
    <3>3. Len(b) = Len(buffer[p]) + Len(chunk) /\ Len(buffer[p]) \in Nat
      BY <3>1, <3>2
    <3> QED
      BY <1>4, <3>3
  <2>2. ASSUME buffer[p] = <<>>
        PROVE  Head(b) = Head(net[p])
    <3>1. b = chunk
      BY <1>4, <2>2, ConcatEmptySeq
    <3>2. Head(b) = chunk[1]
      BY <1>3, <2>1, <3>1, EmptySeq, OpcodesEnds
    <3>3. Head(net[p]) = net[p][1]
      BY <1>2, <1>3, OpcodesEnds
    <3> QED
      BY <1>4, <3>2, <3>3
  <2> QED
    BY <2>1, <2>2
<1>6. Len(net[p]) <= 1 => rest = <<>>
  BY <1>2, <1>4
<1>7. OpcodesIn(rest) \subseteq OpcodesIn(net[p])
  <2> HIDE DEF chunk, rest
  <2>1. OpcodesIn(chunk \o rest) = OpcodesIn(chunk) \cup OpcodesIn(rest)
    BY <1>3, <1>4, OpcodesConcat
  <2> QED
    BY <1>4, <2>1
<1>7a. OpcodesIn(rest) \subseteq OpcodesIn(Tail(net[p]))
  <2> DEFINE between == SubSeq(net[p], 2, n)
  <2>1. between \in Seq(UnitType) /\ between \o rest = Tail(net[p])
    BY <1>2, <1>4, TailSplit DEF rest
  <2> HIDE DEF chunk, rest, between
  <2>2. OpcodesIn(between \o rest) = OpcodesIn(between) \cup OpcodesIn(rest)
    BY <1>3, <2>1, OpcodesConcat
  <2> QED
    BY <2>1, <2>2
<1>8. /\ gone[p] = "no" /\ ~loop[p] /\ ~told[p]
      /\ UNCHANGED <<client_role, cache, data_type, sent, received, gone>>
  BY DEF ReadChunk, Callable
<1>9. /\ HasText(b) <=> Head(b).frame.opcode \in Texts
      /\ Head(b) = b[1]
  BY <1>3, <1>5, OpcodesEnds DEF HasText
<1>10. q \in Peers /\ q # p /\ Other(p) \in Peers /\ Other(p) # p
  BY OtherPeer
<1>11. /\ status \in [Peers -> {"INIT", "READY", "CLOSING"}]
       /\ net \in [Peers -> Seq(UnitType)] /\ buffer \in [Peers -> Seq(UnitType)]
       /\ keep_alive_timer \in [Peers -> TimerType]
  BY DEF TypeOK
<1> HIDE DEF b, rest, chunk
<1>12. CASE status[p] = "READY"
  <2>1. /\ buffer' = [buffer EXCEPT ![p] = b] /\ net' = [net EXCEPT ![p] = rest]
        /\ loop' = [loop EXCEPT ![p] = HasFrame(b)]
        /\ UNCHANGED <<status, timeVars, again, told>>
    BY <1>1, <1>12 DEF b, rest, chunk
  <2>2. Takes(p, b, rest)
    BY <1>3, <1>5, <1>6, <1>7, <1>7a, <1>8, <1>10, <1>11, <2>1 DEF Takes
  <2>3. TakesFrames(p, b)
    BY <1>10, <1>11, <1>12, <2>1 DEF TakesFrames
  <2> QED
    BY <2>2, <2>3
<1>13. CASE status[p] # "READY"
  <2>1. Handshake(p, b) /\ Answers(p, b, rest) /\ UNCHANGED loop
    BY <1>1, <1>13 DEF b, rest, chunk
  <2>2. /\ net'[p] = rest
        /\ net'[q] = IF HasText(b) /\ b[1].frame.opcode = "REQUEST" /\ gone[q] = "no"
                     THEN net[q] \o Units(Control("RESPONSE", FALSE)) ELSE net[q]
    BY <1>10, <1>11, <2>1 DEF Answers
  <2>3. CASE HasText(b) /\ b[1].frame.opcode # "BAD"
    <3>1. /\ status' = [status EXCEPT ![p] = "READY"] /\ buffer' = [buffer EXCEPT ![p] = <<>>]
          /\ keep_alive_timer' = [keep_alive_timer EXCEPT ![p] = Started(Interval(p))]
          /\ UNCHANGED told
      BY <2>1, <2>3 DEF Handshake
    <3>2. buffer'[q] = buffer[q] /\ buffer'[p] = <<>> /\ keep_alive_timer'[q] = keep_alive_timer[q]
      BY <1>10, <1>11, <3>1
    <3>3. Takes(p, b, rest)
      BY <1>3, <1>5, <1>6, <1>7, <1>7a, <1>8, <2>2, <3>2 DEF Takes
    <3>4. TakesText(p, b)
      BY <1>9, <1>13, <2>1, <2>2, <2>3, <3>1, <3>2 DEF TakesText
    <3> QED
      BY <3>3, <3>4
  <2>4. CASE HasText(b) /\ b[1].frame.opcode = "BAD"
    <3>1. /\ buffer' = [buffer EXCEPT ![p] = <<>>] /\ told' = [told EXCEPT ![p] = TRUE]
          /\ UNCHANGED <<status, timeVars>>
      BY <2>1, <2>4 DEF Handshake
    <3>2. buffer'[q] = buffer[q] /\ buffer'[p] = <<>>
      BY <1>10, <1>11, <3>1
    <3>3. Takes(p, b, rest)
      BY <1>3, <1>5, <1>6, <1>7, <1>7a, <1>8, <2>2, <3>2 DEF Takes
    <3>4. TakesBad(p, b)
      BY <1>9, <1>13, <2>1, <2>2, <2>4, <3>1, <3>2 DEF TakesBad
    <3> QED
      BY <3>3, <3>4
  <2>5. CASE ~HasText(b)
    <3>1. buffer' = [buffer EXCEPT ![p] = b] /\ UNCHANGED <<status, timeVars, told>>
      BY <2>1, <2>5 DEF Handshake
    <3>2. buffer'[q] = buffer[q] /\ buffer'[p] = b
      BY <1>10, <1>11, <3>1
    <3>3. Takes(p, b, rest)
      BY <1>3, <1>5, <1>6, <1>7, <1>7a, <1>8, <2>2, <3>2 DEF Takes
    <3>4. TakesPart(p, b)
      BY <1>9, <1>13, <2>1, <2>2, <2>5, <3>1, <3>2 DEF TakesPart
    <3> QED
      BY <3>3, <3>4
  <2> QED
    BY <2>3, <2>4, <2>5
<1> QED
  BY <1>12, <1>13

(* The loop takes the first frame, and may write a CLOSE and a PONG.        *)
LEMMA HandlingWays ==
    ASSUME TypeOK, NEW p \in Peers, HandleReceivedFrame(p)
    PROVE  LET f == Head(buffer[p]).frame
               rest == SubSeq(buffer[p], 3, Len(buffer[p]))
           IN  /\ gone[p] = "no" /\ loop[p] /\ f \in FrameType /\ HasFrame(buffer[p])
               /\ rest \in Seq(UnitType)
               /\ buffer'[p] = rest /\ buffer'[Other(p)] = buffer[Other(p)]
               /\ net'[p] = net[p]
               /\ OpcodesIn(Wire(p)') \subseteq OpcodesIn(Wire(p))
               /\ \E more \in Seq(UnitType) :
                    /\ OpcodesIn(more) \subseteq {"CLOSE", "PONG"}
                    /\ net'[Other(p)] = IF gone[Other(p)] = "no" THEN net[Other(p)] \o more
                                        ELSE net[Other(p)]
<1> DEFINE f == Head(buffer[p]).frame
           rest == SubSeq(buffer[p], 3, Len(buffer[p]))
           two == SubSeq(buffer[p], 1, 2)
<1>1. /\ gone[p] = "no" /\ loop[p] /\ buffer' = [buffer EXCEPT ![p] = rest]
      /\ Replies(p, f)
  BY DEF HandleReceivedFrame
<1>2. /\ buffer[p] \in Seq(UnitType) /\ HasFrame(buffer[p]) /\ f \in FrameType
      /\ rest \in Seq(UnitType) /\ Len(buffer[p]) \in Nat /\ Len(buffer[p]) >= 2
  BY <1>1, HandledFrame, FirstFrame
<1>3. two \in Seq(UnitType) /\ two \o rest = buffer[p]
  BY <1>2
<1>4. Other(p) \in Peers /\ Other(p) # p /\ net[p] \in Seq(UnitType)
  BY OtherPeer DEF TypeOK
<1> HIDE DEF rest, two, f
<1>5. buffer'[p] = rest /\ buffer'[Other(p)] = buffer[Other(p)]
  BY <1>1, <1>4 DEF TypeOK
<1>6. net'[p] = net[p]
  BY <1>1, <1>2, RepliesUnits
<1>7. OpcodesIn(Wire(p)') \subseteq OpcodesIn(Wire(p))
  <2>1. Wire(p)' = rest \o net[p]
    BY <1>5, <1>6 DEF Wire
  <2>2. OpcodesIn(rest \o net[p]) = OpcodesIn(rest) \cup OpcodesIn(net[p])
    BY <1>2, <1>4, OpcodesConcat
  <2>3. OpcodesIn(two \o rest) = OpcodesIn(two) \cup OpcodesIn(rest)
    BY <1>2, <1>3, OpcodesConcat
  <2>4. OpcodesIn(Wire(p)) = OpcodesIn(buffer[p]) \cup OpcodesIn(net[p])
    BY WireTyped
  <2> QED
    BY <1>3, <2>1, <2>2, <2>3, <2>4
<1>8. \E more \in Seq(UnitType) :
         /\ OpcodesIn(more) \subseteq {"CLOSE", "PONG"}
         /\ net'[Other(p)] = IF gone[Other(p)] = "no" THEN net[Other(p)] \o more
                             ELSE net[Other(p)]
  <2>1. PICK c \in {<<>>, Units(Control("CLOSE", TRUE))},
             g \in {<<>>, Units(Control("PONG", client_role[p]))} :
          /\ c \in Seq(UnitType) /\ g \in Seq(UnitType)
          /\ net'[Other(p)] = IF gone[Other(p)] = "no" THEN net[Other(p)] \o (c \o g)
                              ELSE net[Other(p)]
    BY <1>1, <1>2, RepliesUnits
  <2>2. Control("CLOSE", TRUE) \in FrameType /\ Control("PONG", client_role[p]) \in FrameType
    <3>1. client_role[p] \in BOOLEAN
      BY DEF TypeOK
    <3> QED
      BY <3>1, ControlTyped
  <2>3. Control("CLOSE", TRUE).opcode = "CLOSE" /\ Control("PONG", client_role[p]).opcode = "PONG"
    BY DEF Control, Frame
  <2>4. OpcodesIn(c) \subseteq {"CLOSE"} /\ OpcodesIn(g) \subseteq {"PONG"}
    <3>1. OpcodesIn(Units(Control("CLOSE", TRUE))) = {"CLOSE"}
      BY <2>2, <2>3, OpcodesOfFrame
    <3>2. OpcodesIn(Units(Control("PONG", client_role[p]))) = {"PONG"}
      BY <2>2, <2>3, OpcodesOfFrame
    <3>3. OpcodesIn(<<>>) = {}
      BY OpcodesOfFrame
    <3>4. c = <<>> \/ c = Units(Control("CLOSE", TRUE))
      OBVIOUS
    <3>5. g = <<>> \/ g = Units(Control("PONG", client_role[p]))
      OBVIOUS
    <3>6. OpcodesIn(c) \subseteq {"CLOSE"}
      BY <3>1, <3>3, <3>4, Zenon
    <3>7. OpcodesIn(g) \subseteq {"PONG"}
      BY <3>2, <3>3, <3>5, Zenon
    <3> QED
      BY <3>6, <3>7
  <2>5. c \o g \in Seq(UnitType) /\ OpcodesIn(c \o g) = OpcodesIn(c) \cup OpcodesIn(g)
    BY <2>1, OpcodesConcat
  <2>6. OpcodesIn(c \o g) \subseteq {"CLOSE", "PONG"}
    BY <2>4, <2>5
  <2> QED
    BY <2>1, <2>5, <2>6
<1> QED
  BY <1>1, <1>2, <1>5, <1>6, <1>7, <1>8 DEF f, rest
-----------------------------------------------------------------------------
(* The handshake.                                                          *)

First(w, opcode) == w # <<>> /\ Head(w).frame.opcode = opcode

\* p has neither written nor received a message.
Unused(p) == sent[p] = <<>> /\ received[p] = <<>> /\ cache[p] = <<>> /\ ~loop[p]

\* The client's stream has the role of one before its server is connected, and
\* the server is connected before its client.
Roles ==
    /\ ~client_role[Server]
    /\ status[Server] # "INIT" => client_role[Client]
    /\ status[Client] # "INIT" => status[Server] # "INIT"

\* A server that was not asked has answered nothing, and gets the request before
\* anything else, if it ever does.
ServerWaits ==
    status[Server] = "INIT" =>
        /\ keep_alive_timer[Server] = Stopped
        /\ OpcodesIn(net[Client]) \subseteq {"BAD"}
        /\ "REQUEST" \in OpcodesIn(net[Server]) => client_role[Client]
        /\ \/ told[Server]
           \/ /\ buffer[Server] = <<>>
              /\ net[Server] # <<>> => First(net[Server], "BAD") \/ First(net[Server], "REQUEST")
              /\ First(net[Server], "REQUEST") => Len(net[Server]) <= 1

\* A client that waits for the answer gets it before anything else; only a server
\* that closes writes more.
AnswerComes ==
    /\ buffer[Client] = <<>>
    /\ net[Client] = <<>> => status[Server] = "INIT"
    /\ net[Client] # <<>> => First(net[Client], "BAD") \/ First(net[Client], "RESPONSE")
    /\ First(net[Client], "RESPONSE") =>
         /\ OpcodesIn(Tail(net[Client])) \subseteq {"CLOSE"}
         /\ status[Server] = "READY" => Len(net[Client]) <= 1

\* No message is written or received before the client has its answer.
ClientWaits ==
    status[Client] = "INIT" =>
        /\ \A p \in Peers : Unused(p)
        /\ keep_alive_timer[Client] = Stopped
        /\ status[Server] # "INIT" => buffer[Server] = <<>> /\ net[Server] = <<>>
        /\ told[Client] \/ gone[Client] # "no" \/ AnswerComes

\* After the handshake there are no texts.
Connected ==
    status[Client] # "INIT" => \A p \in Peers : TextFree(Wire(p))

HandInv == Roles /\ ServerWaits /\ ClientWaits /\ Connected

(* What a frame at the end of a way changes.                                *)
LEMMA FrameAppended ==
    ASSUME NEW w \in Seq(UnitType), NEW f \in FrameType
    PROVE  /\ w \o Units(f) # <<>> /\ w \o Units(f) \in Seq(UnitType)
           /\ OpcodesIn(w \o Units(f)) = OpcodesIn(w) \cup {f.opcode}
           /\ w = <<>> => Head(w \o Units(f)).frame = f
           /\ w = <<>> /\ f.opcode \in Texts => /\ Len(w \o Units(f)) <= 1
                                                /\ OpcodesIn(Tail(w \o Units(f))) = {}
           /\ w # <<>> => /\ Head(w \o Units(f)) = Head(w)
                          /\ OpcodesIn(Tail(w \o Units(f))) = OpcodesIn(Tail(w)) \cup {f.opcode}
<1> DEFINE u == Units(f)
<1>1. /\ u \in Seq(UnitType) /\ OpcodesIn(u) = {f.opcode} /\ u # <<>> /\ Head(u).frame = f
  BY UnitsTyped, OpcodesOfFrame
<1>2. f.opcode \in Texts => u = <<[frame |-> f, last |-> TRUE]>>
  BY DEF Units
<1> HIDE DEF u
<1>3. w \o u \in Seq(UnitType) /\ OpcodesIn(w \o u) = OpcodesIn(w) \cup {f.opcode}
  BY <1>1, OpcodesConcat
<1>4. w \o u # <<>>
  BY <1>1, ConcatEmptySeq, ConcatProperties
<1>5. ASSUME w = <<>>
      PROVE  w \o u = u
  BY <1>1, <1>5, ConcatEmptySeq
<1>6. ASSUME w = <<>>, f.opcode \in Texts
      PROVE  Len(w \o u) <= 1 /\ OpcodesIn(Tail(w \o u)) = {}
  <2>1. w \o u = <<[frame |-> f, last |-> TRUE]>>
    BY <1>2, <1>5, <1>6
  <2>2. Tail(<<[frame |-> f, last |-> TRUE]>>) = <<>> /\ Len(<<[frame |-> f, last |-> TRUE]>>) = 1
    OBVIOUS
  <2> QED
    BY <2>1, <2>2, OpcodesOfFrame
<1>7. ASSUME w # <<>>
      PROVE  /\ Head(w \o u) = Head(w)
             /\ OpcodesIn(Tail(w \o u)) = OpcodesIn(Tail(w)) \cup {f.opcode}
  <2>1. Head(w \o u) = Head(w) /\ Tail(w \o u) = Tail(w) \o u /\ Tail(w) \in Seq(UnitType)
    BY <1>1, <1>7
  <2> QED
    BY <1>1, <2>1, OpcodesConcat
<1> QED
  BY <1>1, <1>3, <1>4, <1>5, <1>6, <1>7 DEF u

(* In the beginning nobody is connected.                                    *)
LEMMA HandInit == Init => HandInv
<1> SUFFICES ASSUME Init
             PROVE  HandInv
  OBVIOUS
<1>1. Client \in Peers /\ Server \in Peers
  BY DEF Peers
<1>2. OpcodesIn(<<>>) = {}
  BY OpcodesOfFrame
<1>3. Roles
  BY <1>1 DEF Init, Roles
<1>4. ServerWaits
  BY <1>1, <1>2 DEF Init, ServerWaits, First
<1>5. ClientWaits
  BY <1>1, <1>2 DEF Init, ClientWaits, Unused, AnswerComes, First
<1>6. Connected
  BY <1>1 DEF Init, Connected
<1> QED
  BY <1>3, <1>4, <1>5, <1>6 DEF HandInv

\* What a stream writes once it is connected.
Later == {"TEXT", "BINARY", "CONTINUE", "CLOSE", "PING", "PONG"}

(* The calls that write frames, and those that may.                         *)
LEMMA CallWrites ==
    ASSUME TypeOK, NEW p \in Peers, Write(p) \/ WriteFrame(p) \/ Disconnect(p) \/ DoTime(p)
    PROVE  /\ UNCHANGED <<buffer, client_role>>
           /\ net' = net \/ \E f \in FrameType : f.opcode \in Later /\ Writes(p, f)
<1>0. client_role[p] \in BOOLEAN /\ data_type[p] \in {"TEXT", "BINARY"} /\ sent[p] \in Seq(SliceType)
  BY DEF TypeOK
<1>1. CASE Write(p)
  <2>1. PICK n \in Lengths : Writes(p, Frame(data_type[p], TRUE, client_role[p], NewBytes(p, n)))
    BY <1>1 DEF Write
  <2>2. Frame(data_type[p], TRUE, client_role[p], NewBytes(p, n)) \in FrameType
    BY <1>0, DataTyped, NewBytesTyped
  <2>3. Frame(data_type[p], TRUE, client_role[p], NewBytes(p, n)).opcode \in Later
    BY <1>0 DEF Frame, Later
  <2> QED
    BY <1>1, <2>1, <2>2, <2>3 DEF Write
<1>2. CASE WriteFrame(p)
  <2>1. PICK n \in Lengths, fin \in BOOLEAN,
             masked \in IF p \in Careless THEN BOOLEAN ELSE {client_role[p]},
             op \in Opcodes \cup {"CONTINUE"} :
            Writes(p, Frame(op, fin, masked, NewBytes(p, n)))
    BY <1>2 DEF WriteFrame
  <2>2. op \in {"TEXT", "BINARY", "CONTINUE"} /\ masked \in BOOLEAN
    BY <1>0, WsAssumption
  <2>3. Frame(op, fin, masked, NewBytes(p, n)) \in FrameType
    BY <1>0, <2>2, DataTyped, NewBytesTyped
  <2>4. Frame(op, fin, masked, NewBytes(p, n)).opcode \in Later
    BY <2>2 DEF Frame, Later
  <2> QED
    BY <1>2, <2>1, <2>3, <2>4 DEF WriteFrame
<1>3. CASE Disconnect(p)
  <2>1. Control("CLOSE", client_role[p]) \in FrameType /\ Control("CLOSE", client_role[p]).opcode \in Later
    BY <1>0, ControlTyped DEF Control, Frame, Later
  <2> QED
    BY <1>3, <2>1 DEF Disconnect
<1>4. CASE DoTime(p)
  <2>1. Control("PING", TRUE) \in FrameType /\ Control("PING", TRUE).opcode \in Later
    BY ControlTyped DEF Control, Frame, Later
  <2> QED
    BY <1>4, <2>1 DEF DoTime
<1> QED
  BY <1>1, <1>2, <1>3, <1>4
(* A step of a connected pair of streams: no text is written or read.       *)
LEMMA ConnectedStep ==
    ASSUME TypeOK, HandInv, status[Client] # "INIT", Next
    PROVE  /\ status'[Client] # "INIT" /\ status'[Server] # "INIT"
           /\ client_role' = client_role
           /\ \A p \in Peers : TextFree(Wire(p)')
<1>1. /\ client_role[Client] /\ status[Server] # "INIT"
      /\ \A p \in Peers : TextFree(Wire(p))
      /\ Client \in Peers /\ Server \in Peers
  BY DEF HandInv, Roles, Connected, Peers
<1>2. /\ status \in [Peers -> {"INIT", "READY", "CLOSING"}]
      /\ net \in [Peers -> Seq(UnitType)] /\ buffer \in [Peers -> Seq(UnitType)]
  BY DEF TypeOK
<1>3. Later \cap Texts = {} /\ "BAD" \in Texts
  BY DEF Later, Texts
<1>4. CASE Tick
  BY <1>1, <1>4 DEF Tick, Wire
<1>5. ASSUME NEW p \in Peers,
             \/ Connect(p) \/ WriteText(p) \/ Write(p) \/ WriteFrame(p) \/ Disconnect(p)
             \/ ReadChunk(p) \/ HandleReceivedFrame(p)
             \/ ReadBytes(p) \/ ReadFrame(p) \/ ReadFrameTooLong(p) \/ ReadNothing(p) \/ ReadZero(p)
             \/ DoTime(p) \/ Close(p) \/ Crash(p)
      PROVE  /\ status'[Client] # "INIT" /\ status'[Server] # "INIT"
             /\ client_role' = client_role
             /\ \A r \in Peers : TextFree(Wire(r)')
  <2> DEFINE q == Other(p)
  <2>1. q \in Peers /\ q # p /\ \A r \in Peers : r = p \/ r = q
    BY OtherPeer
  <2>2. TextFree(Wire(p)) /\ TextFree(Wire(q)) /\ status[p] # "INIT" /\ status[q] # "INIT"
    BY <1>1, <2>1, OtherPeer DEF Peers
  <2>3. ASSUME TextFree(Wire(p)'), TextFree(Wire(q)'), client_role' = client_role,
               \A r \in Peers : status'[r] # "INIT"
        PROVE  /\ status'[Client] # "INIT" /\ status'[Server] # "INIT"
               /\ client_role' = client_role
               /\ \A r \in Peers : TextFree(Wire(r)')
    BY <1>1, <2>1, <2>3
  <2>4. CASE Connect(p) \/ WriteText(p)
    BY <1>1, <2>2, <2>4 DEF Connect, WriteText
  <2>5. CASE Write(p) \/ WriteFrame(p) \/ Disconnect(p) \/ DoTime(p)
    <3>1. /\ UNCHANGED <<buffer, client_role>>
          /\ net' = net \/ \E f \in FrameType : f.opcode \in Later /\ Writes(p, f)
      BY <2>5, CallWrites
    <3>2. \A r \in Peers : status'[r] # "INIT"
      BY <1>2, <2>1, <2>2, <2>5 DEF Write, WriteFrame, Disconnect, DoTime
    <3>3. TextFree(Wire(p)') /\ TextFree(Wire(q)')
      <4>1. CASE net' = net
        BY <2>2, <3>1, <4>1 DEF Wire
      <4>2. ASSUME NEW f \in FrameType, f.opcode \in Later, Writes(p, f)
            PROVE  TextFree(Wire(p)') /\ TextFree(Wire(q)')
        <5>1. Wire(p)' = Wire(p) /\ OpcodesIn(Wire(q)') \subseteq OpcodesIn(Wire(q)) \cup {f.opcode}
          BY <3>1, <4>2, WireWritten
        <5> QED
          BY <1>3, <2>2, <4>2, <5>1 DEF TextFree
      <4> QED
        BY <3>1, <4>1, <4>2
    <3> QED
      BY <2>3, <3>1, <3>2, <3>3
  <2>6. CASE ReadChunk(p)
    <3>1. PICK b, rest : /\ Takes(p, b, rest)
                         /\ TakesFrames(p, b) \/ TakesText(p, b) \/ TakesBad(p, b) \/ TakesPart(p, b)
      BY <2>6, ReadWays
    <3>2. /\ b \in Seq(UnitType) /\ rest \in Seq(UnitType) /\ b # <<>> /\ b \o rest = Wire(p)
          /\ net'[p] = rest /\ buffer'[q] = buffer[q] /\ client_role' = client_role
      BY <3>1 DEF Takes
    <3>3. Head(b).frame.opcode \notin Texts
      <4>1. Head(b).frame.opcode \in OpcodesIn(b) /\ OpcodesIn(b \o rest) = OpcodesIn(b) \cup OpcodesIn(rest)
        BY <3>2, OpcodesConcat, OpcodesEnds
      <4> QED
        BY <2>2, <3>2, <4>1 DEF TextFree
    <3>4. buffer'[p] = b /\ net'[q] = net[q] /\ status' = status
      BY <1>3, <3>1, <3>3 DEF TakesFrames, TakesText, TakesBad, TakesPart
    <3>5. Wire(p)' = Wire(p) /\ Wire(q)' = Wire(q)
      BY <3>2, <3>4 DEF Wire
    <3> QED
      BY <2>1, <2>2, <2>3, <3>2, <3>4, <3>5
  <2>7. CASE HandleReceivedFrame(p)
    <3>1. /\ buffer'[q] = buffer[q] /\ OpcodesIn(Wire(p)') \subseteq OpcodesIn(Wire(p))
          /\ \E more \in Seq(UnitType) :
               /\ OpcodesIn(more) \subseteq {"CLOSE", "PONG"}
               /\ net'[q] = IF gone[q] = "no" THEN net[q] \o more ELSE net[q]
      BY <2>7, HandlingWays
    <3>2. PICK more \in Seq(UnitType) :
            /\ OpcodesIn(more) \subseteq {"CLOSE", "PONG"}
            /\ net'[q] = IF gone[q] = "no" THEN net[q] \o more ELSE net[q]
      BY <3>1
    <3>3. OpcodesIn(Wire(q)') \subseteq OpcodesIn(Wire(q)) \cup {"CLOSE", "PONG"}
      <4>1. CASE gone[q] # "no"
        BY <3>1, <3>2, <4>1 DEF Wire
      <4>2. CASE gone[q] = "no"
        <5> DEFINE a == buffer[q]
                   c == net[q]
        <5>1. a \in Seq(UnitType) /\ c \in Seq(UnitType)
          BY <1>2, <2>1
        <5>2. Wire(q)' = a \o (c \o more) /\ Wire(q) = a \o c
          BY <3>1, <3>2, <4>2 DEF Wire
        <5> HIDE DEF a, c
        <5>3. /\ a \o c \in Seq(UnitType) /\ a \o (c \o more) = (a \o c) \o more
          BY <5>1, UnitsAssociate, OpcodesConcat
        <5>4. OpcodesIn((a \o c) \o more) = OpcodesIn(a \o c) \cup OpcodesIn(more)
          BY <5>3, OpcodesConcat
        <5> QED
          BY <3>2, <5>2, <5>3, <5>4
      <4> QED
        BY <4>1, <4>2
    <3>4. TextFree(Wire(p)') /\ TextFree(Wire(q)')
      BY <2>2, <3>1, <3>3 DEF TextFree, Texts
    <3>5. client_role' = client_role /\ \A r \in Peers : status'[r] # "INIT"
      BY <1>2, <2>1, <2>2, <2>7 DEF HandleReceivedFrame, CloseIfMasked
    <3> QED
      BY <2>3, <3>4, <3>5
  <2>8. CASE ReadBytes(p) \/ ReadFrame(p) \/ ReadFrameTooLong(p) \/ ReadNothing(p) \/ ReadZero(p)
    <3>1. UNCHANGED <<status, buffer, net, client_role>>
      BY <2>8 DEF ReadBytes, ReadFrame, ReadFrameTooLong, ReadNothing, ReadZero, appVars
    <3> QED
      BY <2>1, <2>2, <2>3, <3>1 DEF Wire
  <2>9. CASE Close(p) \/ Crash(p)
    <3>1. UNCHANGED <<status, buffer, client_role>> /\ net' = [net EXCEPT ![p] = <<>>]
      BY <2>9 DEF Close, Crash
    <3>2. Wire(q)' = Wire(q)
      BY <1>2, <2>1, <3>1 DEF Wire
    <3>3. OpcodesIn(Wire(p)') \subseteq OpcodesIn(Wire(p))
      <4>1. buffer[p] \in Seq(UnitType) /\ OpcodesIn(Wire(p)) = OpcodesIn(buffer[p]) \cup OpcodesIn(net[p])
        BY WireTyped
      <4>2. Wire(p)' = buffer[p] \o <<>> /\ buffer[p] \o <<>> = buffer[p]
        BY <1>2, <3>1, <4>1, ConcatEmptySeq DEF Wire
      <4> QED
        BY <4>1, <4>2
    <3> QED
      BY <2>1, <2>2, <2>3, <3>1, <3>2, <3>3 DEF TextFree
  <2> QED
    BY <1>5, <2>4, <2>5, <2>6, <2>7, <2>8, <2>9
<1> QED
  BY <1>4, <1>5 DEF Next
(* A text that is written while nothing else is on the way.                 *)
LEMMA FirstText ==
    ASSUME NEW w \in Seq(UnitType), w = <<>>, NEW f \in FrameType, f.opcode \in Texts
    PROVE  /\ w \o Units(f) # <<>> /\ Head(w \o Units(f)).frame.opcode = f.opcode
           /\ OpcodesIn(w \o Units(f)) = {f.opcode}
           /\ Len(w \o Units(f)) <= 1 /\ OpcodesIn(Tail(w \o Units(f))) = {}
<1>1. OpcodesIn(w) = {}
  BY OpcodesOfFrame
<1>2. /\ w \o Units(f) # <<>>
      /\ OpcodesIn(w \o Units(f)) = OpcodesIn(w) \cup {f.opcode}
      /\ Head(w \o Units(f)).frame = f
      /\ Len(w \o Units(f)) <= 1 /\ OpcodesIn(Tail(w \o Units(f))) = {}
  BY FrameAppended
<1> QED
  BY <1>1, <1>2

(* A step while the client waits for its answer, of a server that writes no *)
(* message before it has heard one.                                         *)
LEMMA WaitingStep ==
    ASSUME TypeOK, HandInv, EarlyData = FALSE, status[Client] = "INIT", Next
    PROVE  HandInv'
<1> DEFINE wc == net[Client]
           ws == net[Server]
           request == Control("REQUEST", FALSE)
           answer == Control("RESPONSE", FALSE)
           bad == Control("BAD", FALSE)
           close == Control("CLOSE", FALSE)
<1>1. /\ Client \in Peers /\ Server \in Peers /\ Client # Server
      /\ Other(Client) = Server /\ Other(Server) = Client
      /\ \A p \in Peers : p = Client \/ p = Server
  BY WsAssumption DEF Peers, Other
<1>2. /\ status \in [Peers -> {"INIT", "READY", "CLOSING"}]
      /\ net \in [Peers -> Seq(UnitType)] /\ buffer \in [Peers -> Seq(UnitType)]
      /\ client_role \in [Peers -> BOOLEAN] /\ told \in [Peers -> BOOLEAN]
      /\ gone \in [Peers -> {"no", "closed", "silent"}]
      /\ keep_alive_timer \in [Peers -> TimerType]
      /\ wc \in Seq(UnitType) /\ ws \in Seq(UnitType)
  BY <1>1 DEF TypeOK
<1>3. Roles /\ ServerWaits /\ Connected
  BY DEF HandInv
<1>4. /\ \A p \in Peers : Unused(p)
      /\ keep_alive_timer[Client] = Stopped
      /\ status[Server] # "INIT" => buffer[Server] = <<>> /\ ws = <<>>
      /\ told[Client] \/ gone[Client] # "no" \/ AnswerComes
  BY DEF HandInv, ClientWaits
<1>5. /\ ~client_role[Server]
      /\ status[Server] # "INIT" => client_role[Client]
  BY <1>3 DEF Roles
<1>6. status[Server] = "INIT" =>
        /\ keep_alive_timer[Server] = Stopped
        /\ OpcodesIn(wc) \subseteq {"BAD"}
        /\ "REQUEST" \in OpcodesIn(ws) => client_role[Client]
        /\ \/ told[Server]
           \/ /\ buffer[Server] = <<>>
              /\ ws # <<>> => First(ws, "BAD") \/ First(ws, "REQUEST")
              /\ First(ws, "REQUEST") => Len(ws) <= 1
  BY <1>3 DEF ServerWaits
<1>7. AnswerComes <=>
         /\ buffer[Client] = <<>>
         /\ wc = <<>> => status[Server] = "INIT"
         /\ wc # <<>> => First(wc, "BAD") \/ First(wc, "RESPONSE")
         /\ First(wc, "RESPONSE") =>
              /\ OpcodesIn(Tail(wc)) \subseteq {"CLOSE"}
              /\ status[Server] = "READY" => Len(wc) <= 1
  BY DEF AnswerComes
<1>8. /\ (wc # <<>> => Head(wc).frame.opcode \in OpcodesIn(wc))
      /\ (ws # <<>> => Head(ws).frame.opcode \in OpcodesIn(ws))
  BY <1>2, OpcodesEnds
<1>9. request \in FrameType /\ answer \in FrameType
      /\ bad \in FrameType /\ close \in FrameType
  BY ControlTyped DEF Texts
<1>10. /\ request.opcode = "REQUEST" /\ answer.opcode = "RESPONSE"
       /\ bad.opcode = "BAD" /\ close.opcode = "CLOSE"
       /\ {"REQUEST", "RESPONSE", "BAD"} = Texts
  BY DEF Control, Frame, Texts
\* What a frame f makes of the way to a peer.
<1>11. ASSUME NEW p \in Peers, NEW f \in FrameType, Writes(p, f)
       PROVE  /\ net'[p] = net[p]
              /\ net'[Other(p)] = IF gone[Other(p)] = "no" THEN net[Other(p)] \o Units(f) ELSE net[Other(p)]
  BY <1>2, <1>11, WritesUnits
\* A step that leaves everything as it is, but may tell an application.
<1>12. ASSUME UNCHANGED <<status, buffer, client_role, net, keep_alive_timer, gone>>,
              UNCHANGED <<sent, received, cache, loop>>,
              \A p \in Peers : told[p] => told'[p]
       PROVE  HandInv'
  <2>1. Roles'
    BY <1>3, <1>12 DEF Roles
  <2>2. ServerWaits'
    BY <1>1, <1>6, <1>12 DEF ServerWaits, First
  <2>3. ClientWaits'
    <3>1. AnswerComes => AnswerComes'
      BY <1>7, <1>12 DEF AnswerComes, First
    <3>2. \A p \in Peers : Unused(p)'
      BY <1>4, <1>12 DEF Unused
    <3> QED
      BY <1>1, <1>4, <1>12, <3>1, <3>2 DEF ClientWaits
  <2>4. Connected'
    BY <1>12 DEF Connected
  <2> QED
    BY <2>1, <2>2, <2>3, <2>4 DEF HandInv
<1> HIDE DEF wc, ws, request, answer, bad, close
<1>27. ASSUME NEW w \in Seq(UnitType), NEW f \in {request, answer, bad}
       PROVE  \/ w # <<>>
              \/ /\ w \o Units(f) # <<>> /\ Head(w \o Units(f)).frame.opcode = f.opcode
                 /\ OpcodesIn(w \o Units(f)) = {f.opcode}
                 /\ Len(w \o Units(f)) <= 1 /\ OpcodesIn(Tail(w \o Units(f))) = {}
  BY <1>9, <1>10, FirstText
<1>28. \A f \in {request, answer, bad} :
        /\ \/ ws # <<>>
           \/ /\ ws \o Units(f) # <<>> /\ Head(ws \o Units(f)).frame.opcode = f.opcode
              /\ OpcodesIn(ws \o Units(f)) = {f.opcode}
              /\ Len(ws \o Units(f)) <= 1 /\ OpcodesIn(Tail(ws \o Units(f))) = {}
        /\ \/ wc # <<>>
           \/ /\ wc \o Units(f) # <<>> /\ Head(wc \o Units(f)).frame.opcode = f.opcode
              /\ OpcodesIn(wc \o Units(f)) = {f.opcode}
              /\ Len(wc \o Units(f)) <= 1 /\ OpcodesIn(Tail(wc \o Units(f))) = {}
  BY <1>2, <1>27
<1>13. CASE Tick
  <2>1. /\ UNCHANGED <<status, buffer, client_role, net, told, gone, sent, received, cache, loop>>
        /\ keep_alive_timer' = [p \in Peers |-> Ticked(keep_alive_timer[p])]
    BY <1>13 DEF Tick, appVars
  <2>2. Ticked(Stopped) = Stopped
    <3>1. \A t \in TimerType : t.left = 0 => [t EXCEPT !.left = 0] = t
      BY DEF TimerType
    <3>2. Stopped \in TimerType /\ Stopped.left = 0
      BY DEF TimerType, Stopped
    <3> HIDE DEF Stopped
    <3> QED
      BY <3>1, <3>2, Zenon DEF Ticked
  <2>3. Roles'
    BY <1>3, <2>1 DEF Roles
  <2>4. ServerWaits'
    BY <1>1, <1>6, <2>1, <2>2 DEF ServerWaits, First, ws, wc
  <2>5. ClientWaits'
    <3>1. AnswerComes => AnswerComes'
      BY <1>7, <2>1 DEF AnswerComes, First, wc
    <3>2. \A p \in Peers : Unused(p)'
      BY <1>4, <2>1 DEF Unused
    <3>3. keep_alive_timer'[Client] = Stopped
      BY <1>1, <1>4, <2>1, <2>2
    <3> QED
      BY <1>1, <1>4, <2>1, <3>1, <3>2, <3>3 DEF ClientWaits, ws
  <2>6. Connected'
    BY <2>1 DEF Connected
  <2> QED
    BY <2>3, <2>4, <2>5, <2>6 DEF HandInv
<1>14. ASSUME NEW p \in Peers, Connect(p)
       PROVE  HandInv'
  <2>1. /\ p = Client /\ status[Server] = "INIT" /\ ~client_role[Client]
        /\ client_role' = [client_role EXCEPT ![Client] = TRUE]
        /\ Writes(Client, request)
        /\ UNCHANGED <<status, buffer, keep_alive_timer, told, gone, sent, received, cache, loop>>
    BY <1>5, <1>14 DEF Connect, appVars, timeVars, request
  <2>2. /\ net'[Client] = wc
        /\ net'[Server] = IF gone[Server] = "no" THEN ws \o Units(request) ELSE ws
    BY <1>1, <1>9, <1>11, <2>1 DEF wc, ws
  <2>3. Roles'
    BY <1>1, <1>2, <1>5, <2>1 DEF Roles
  <2>4. client_role'[Client]
    BY <1>1, <1>2, <2>1
  <2>5. ~First(ws, "REQUEST")
    BY <1>6, <1>8, <2>1 DEF First
  <2>6. \/ told[Server]
        \/ /\ buffer[Server] = <<>>
           /\ net'[Server] # <<>> => First(net'[Server], "BAD") \/ First(net'[Server], "REQUEST")
           /\ First(net'[Server], "REQUEST") => Len(net'[Server]) <= 1
    <3>1. CASE gone[Server] # "no"
      BY <1>6, <2>1, <2>2, <3>1
    <3>2. CASE gone[Server] = "no"
      <4>1. CASE ws = <<>>
        <5>1. /\ net'[Server] # <<>> /\ Head(net'[Server]).frame.opcode = "REQUEST"
              /\ Len(net'[Server]) <= 1
          BY <1>10, <1>28, <2>2, <3>2, <4>1
        <5> QED
          BY <1>6, <2>1, <5>1 DEF First
      <4>2. CASE ws # <<>>
        <5>1. net'[Server] # <<>> /\ Head(net'[Server]) = Head(ws)
          BY <1>2, <1>9, <2>2, <3>2, <4>2, FrameAppended
        <5> QED
          BY <1>6, <2>1, <2>5, <4>2, <5>1 DEF First
      <4> QED
        BY <4>1, <4>2
    <3> QED
      BY <3>1, <3>2
  <2>7. ServerWaits'
    BY <1>6, <2>1, <2>2, <2>4, <2>6 DEF ServerWaits, First
  <2>8. ClientWaits'
    <3>1. AnswerComes => AnswerComes'
      BY <1>7, <2>1, <2>2 DEF AnswerComes, First
    <3>2. \A r \in Peers : Unused(r)'
      BY <1>4, <2>1 DEF Unused
    <3> QED
      BY <1>4, <2>1, <3>1, <3>2 DEF ClientWaits
  <2>9. Connected'
    BY <2>1 DEF Connected
  <2> QED
    BY <2>3, <2>7, <2>8, <2>9 DEF HandInv
<1>15. ASSUME NEW p \in Peers, WriteText(p)
       PROVE  HandInv'
  <2>1. /\ Writes(p, bad)
        /\ status[Other(p)] = "INIT" /\ net[Other(p)] = <<>>
        /\ UNCHANGED <<status, buffer, client_role, keep_alive_timer, told, gone, sent, received, cache, loop>>
    BY <1>15 DEF WriteText, appVars, timeVars, bad
  <2>2. /\ net'[p] = net[p]
        /\ net'[Other(p)] = IF gone[Other(p)] = "no" THEN net[Other(p)] \o Units(bad) ELSE net[Other(p)]
    BY <1>9, <1>11, <2>1
  <2>3. Roles'
    BY <1>3, <2>1 DEF Roles
  <2>4. \A r \in Peers : Unused(r)'
    BY <1>4, <2>1 DEF Unused
  <2>5. Connected'
    BY <2>1 DEF Connected
  <2>6. CASE p = Client
    <3>1. /\ net'[Client] = wc /\ status[Server] = "INIT" /\ ws = <<>>
          /\ net'[Server] = IF gone[Server] = "no" THEN ws \o Units(bad) ELSE ws
      BY <1>1, <2>1, <2>2, <2>6 DEF wc, ws
    <3>2. /\ OpcodesIn(net'[Server]) \subseteq {"BAD"}
          /\ net'[Server] # <<>> => First(net'[Server], "BAD")
      <4>1. CASE gone[Server] # "no"
        BY <3>1, <4>1, OpcodesOfFrame
      <4>2. CASE gone[Server] = "no"
        <5>1. /\ net'[Server] # <<>> /\ Head(net'[Server]).frame.opcode = "BAD"
              /\ OpcodesIn(net'[Server]) = {"BAD"}
          BY <1>10, <1>28, <3>1, <4>2
        <5> QED
          BY <5>1 DEF First
      <4> QED
        BY <4>1, <4>2
    <3>3. ~First(net'[Server], "REQUEST")
      BY <3>2 DEF First
    <3>4. ServerWaits'
      BY <1>6, <2>1, <3>1, <3>2, <3>3 DEF ServerWaits, First
    <3>5. AnswerComes => AnswerComes'
      BY <1>7, <2>1, <3>1 DEF AnswerComes, First
    <3>6. ClientWaits'
      BY <1>4, <2>1, <2>4, <3>1, <3>5 DEF ClientWaits
    <3> QED
      BY <2>3, <2>5, <3>4, <3>6 DEF HandInv
  <2>7. CASE p = Server
    <3>1. /\ net'[Server] = ws /\ wc = <<>>
          /\ net'[Client] = IF gone[Client] = "no" THEN wc \o Units(bad) ELSE wc
      BY <1>1, <2>1, <2>2, <2>7 DEF wc, ws
    <3>2. /\ OpcodesIn(net'[Client]) \subseteq {"BAD"}
          /\ gone[Client] = "no" => First(net'[Client], "BAD")
      <4>1. CASE gone[Client] # "no"
        BY <3>1, <4>1, OpcodesOfFrame
      <4>2. CASE gone[Client] = "no"
        <5>1. /\ net'[Client] # <<>> /\ Head(net'[Client]).frame.opcode = "BAD"
              /\ OpcodesIn(net'[Client]) = {"BAD"}
          BY <1>10, <1>28, <3>1, <4>2
        <5> QED
          BY <5>1 DEF First
      <4> QED
        BY <4>1, <4>2
    <3>3. ServerWaits'
      BY <1>6, <2>1, <3>1, <3>2 DEF ServerWaits, First
    <3>4. AnswerComes /\ gone[Client] = "no" => AnswerComes'
      BY <1>7, <2>1, <3>1, <3>2 DEF AnswerComes, First
    <3>5. ClientWaits'
      BY <1>4, <2>1, <2>4, <3>1, <3>4 DEF ClientWaits
    <3> QED
      BY <2>3, <2>5, <3>3, <3>5 DEF HandInv
  <2> QED
    BY <1>1, <2>6, <2>7
\* The server's stream is closing.
<1>16. ASSUME status[Server] # "INIT", status' = [status EXCEPT ![Server] = "CLOSING"],
              UNCHANGED <<buffer, client_role, told, gone, sent, received, cache, loop>>,
              keep_alive_timer'[Client] = Stopped, net'[Server] = ws,
              \/ net'[Client] = wc
              \/ gone[Client] # "no"
              \/ net'[Client] = wc \o Units(close)
       PROVE  HandInv'
  <2>1. status'[Client] = "INIT" /\ status'[Server] = "CLOSING"
    BY <1>1, <1>2, <1>16
  <2>2. Roles'
    BY <1>5, <1>16, <2>1 DEF Roles
  <2>3. ServerWaits' /\ Connected'
    BY <2>1 DEF ServerWaits, Connected
  <2>4. \A r \in Peers : Unused(r)'
    BY <1>4, <1>16 DEF Unused
  <2>5. ASSUME AnswerComes, gone[Client] = "no"
        PROVE  AnswerComes'
    <3>1. wc # <<>>
      BY <1>7, <1>16, <2>5
    <3>2. CASE net'[Client] = wc
      BY <1>7, <1>16, <2>1, <2>5, <3>1, <3>2 DEF AnswerComes, First
    <3>3. CASE net'[Client] = wc \o Units(close)
      <4>1. /\ net'[Client] # <<>> /\ Head(net'[Client]) = Head(wc)
            /\ OpcodesIn(Tail(net'[Client])) = OpcodesIn(Tail(wc)) \cup {"CLOSE"}
        BY <1>2, <1>9, <1>10, <3>1, <3>3, FrameAppended
      <4> QED
        BY <1>7, <1>16, <2>1, <2>5, <3>1, <4>1 DEF AnswerComes, First
    <3> QED
      BY <1>16, <2>5, <3>2, <3>3
  <2>6. ClientWaits'
    BY <1>4, <1>16, <2>1, <2>4, <2>5 DEF ClientWaits
  <2> QED
    BY <2>2, <2>3, <2>6 DEF HandInv
<1>17. ASSUME NEW p \in Peers, Disconnect(p)
       PROVE  HandInv'
  <2>1. /\ status[p] = "READY" /\ Writes(p, Control("CLOSE", client_role[p]))
        /\ status' = [status EXCEPT ![p] = "CLOSING"]
        /\ UNCHANGED <<buffer, client_role, keep_alive_timer, told, gone, sent, received, cache, loop>>
    BY <1>17 DEF Disconnect, appVars, timeVars
  <2>2. p = Server
    BY <1>1, <2>1
  <2>3. client_role[p] = FALSE
    BY <1>1, <1>2, <1>5, <2>2
  <2>4. /\ net'[Server] = ws
        /\ net'[Client] = IF gone[Client] = "no" THEN wc \o Units(close) ELSE wc
    BY <1>1, <1>9, <1>11, <2>1, <2>2, <2>3 DEF wc, ws, close
  <2> QED
    BY <1>4, <1>16, <2>1, <2>2, <2>4
<1>18. ASSUME NEW p \in Peers, DoTime(p)
       PROVE  HandInv'
  <2>1. Expired(keep_alive_timer[p])
    BY <1>18 DEF DoTime
  <2>2. p = Server /\ status[Server] # "INIT"
    BY <1>1, <1>4, <1>6, <2>1 DEF Expired, Running, Stopped
  <2>3. ~PingDue(p)
    BY <1>5, <2>2 DEF PingDue
  <2>4. /\ status' = [status EXCEPT ![p] = "CLOSING"]
        /\ UNCHANGED <<buffer, client_role, keep_alive_timer, net, told, gone, sent, received, cache, loop>>
    BY <1>18, <2>3 DEF DoTime, appVars
  <2> QED
    BY <1>4, <1>16, <2>2, <2>4 DEF wc, ws
<1>19. ASSUME NEW p \in Peers, Write(p) \/ WriteFrame(p)
       PROVE  FALSE
  <2>1. MayWrite(p)
    BY <1>19 DEF Write, WriteFrame
  <2> QED
    BY <1>1, <1>4, <2>1 DEF MayWrite, Unused
<1>20. ASSUME NEW p \in Peers, HandleReceivedFrame(p) \/ ReadBytes(p) \/ ReadFrame(p) \/ ReadFrameTooLong(p)
       PROVE  FALSE
  BY <1>4, <1>20 DEF HandleReceivedFrame, ReadBytes, ReadFrame, ReadFrameTooLong, HasMessage, Unused
<1>21. ASSUME NEW p \in Peers, ReadNothing(p) \/ ReadZero(p)
       PROVE  HandInv'
  <2>1. UNCHANGED <<status, buffer, client_role, net, keep_alive_timer, gone, sent, received, cache, loop>>
    BY <1>21 DEF ReadNothing, ReadZero, timeVars, appVars
  <2>2. told' = told \/ told' = [told EXCEPT ![p] = TRUE]
    BY <1>21 DEF ReadNothing, ReadZero, appVars
  <2>3. \A r \in Peers : told[r] => told'[r]
    BY <1>2, <2>2
  <2> QED
    BY <1>12, <2>1, <2>3
<1>22. ASSUME NEW p \in Peers, Close(p) \/ Crash(p)
       PROVE  HandInv'
  <2>1. /\ UNCHANGED <<status, buffer, client_role, keep_alive_timer, told, sent, received, cache, loop>>
        /\ net' = [net EXCEPT ![p] = <<>>]
        /\ \E how \in {"closed", "silent"} : gone' = [gone EXCEPT ![p] = how]
    BY <1>22 DEF Close, Crash, timeVars
  <2>2. /\ gone'[p] # "no" /\ net'[p] = <<>>
        /\ \A r \in Peers : r # p => gone'[r] = gone[r] /\ net'[r] = net[r]
    BY <1>2, <2>1
  <2>3. Roles'
    BY <1>3, <2>1 DEF Roles
  <2>4. Connected'
    BY <2>1 DEF Connected
  <2>5. \A r \in Peers : Unused(r)'
    BY <1>4, <2>1 DEF Unused
  <2>6. OpcodesIn(<<>>) = {}
    BY OpcodesOfFrame
  <2>7. CASE p = Client
    <3>1. net'[Client] = <<>> /\ net'[Server] = ws /\ gone'[Client] # "no"
      BY <1>1, <2>2, <2>7 DEF ws
    <3>2. OpcodesIn(net'[Client]) \subseteq {"BAD"}
      BY <2>6, <3>1
    <3>3. ServerWaits'
      BY <1>6, <2>1, <3>1, <3>2 DEF ServerWaits, First
    <3>4. ClientWaits'
      BY <1>4, <2>1, <2>5, <3>1 DEF ClientWaits
    <3> QED
      BY <2>3, <2>4, <3>3, <3>4 DEF HandInv
  <2>8. CASE p = Server
    <3>1. net'[Server] = <<>> /\ net'[Client] = wc /\ gone'[Client] = gone[Client]
      BY <1>1, <2>2, <2>8 DEF wc
    <3>2. OpcodesIn(net'[Server]) = {}
      BY <2>6, <3>1
    <3>3. ServerWaits'
      BY <1>6, <2>1, <3>1, <3>2 DEF ServerWaits, First
    <3>4. AnswerComes => AnswerComes'
      BY <1>7, <2>1, <3>1 DEF AnswerComes, First
    <3>5. ClientWaits'
      BY <1>4, <2>1, <2>5, <3>1, <3>4 DEF ClientWaits
    <3> QED
      BY <2>3, <2>4, <3>3, <3>5 DEF HandInv
  <2> QED
    BY <1>1, <2>7, <2>8
<1>23. ASSUME ReadChunk(Server)
       PROVE  HandInv'
  <2>1. PICK b, rest : /\ Takes(Server, b, rest)
                       /\ \/ TakesFrames(Server, b) \/ TakesText(Server, b)
                          \/ TakesBad(Server, b) \/ TakesPart(Server, b)
    BY <1>1, <1>23, ReadWays
  <2>2. /\ ~told[Server] /\ ws # <<>> /\ net'[Server] = rest /\ buffer'[Client] = buffer[Client]
        /\ OpcodesIn(rest) \subseteq OpcodesIn(ws)
        /\ buffer[Server] = <<>> => Head(b) = Head(ws) /\ (Len(ws) <= 1 => rest = <<>>)
        /\ UNCHANGED <<client_role, cache, sent, received, gone>>
    BY <1>1, <2>1 DEF Takes, ws
  <2>3. /\ status[Server] = "INIT" /\ buffer[Server] = <<>>
        /\ First(ws, "BAD") \/ First(ws, "REQUEST")
        /\ First(ws, "REQUEST") => Len(ws) <= 1
    BY <1>4, <1>6, <2>2
  <2>4. Head(b) = Head(ws) /\ Head(b).frame.opcode \in {"BAD", "REQUEST"}
    BY <2>2, <2>3 DEF First
  <2>5. TakesText(Server, b) \/ TakesBad(Server, b)
    BY <1>10, <2>1, <2>3, <2>4 DEF TakesFrames, TakesPart
  <2>6. CASE TakesText(Server, b)
    <3>1. /\ status' = [status EXCEPT ![Server] = "READY"] /\ buffer'[Server] = <<>>
          /\ net'[Client] = IF Head(b).frame.opcode = "REQUEST" /\ gone[Client] = "no"
                            THEN wc \o Units(answer) ELSE wc
          /\ keep_alive_timer'[Client] = keep_alive_timer[Client] /\ UNCHANGED <<told, loop>>
      BY <1>1, <2>6 DEF TakesText, wc, answer
    <3>2. Head(b).frame.opcode = "REQUEST" /\ First(ws, "REQUEST")
      BY <2>2, <2>4, <2>6 DEF TakesText, First
    <3>3. client_role[Client] /\ net'[Server] = <<>>
      BY <1>6, <1>8, <2>2, <2>3, <2>4, <3>2
    <3>4. status'[Client] = "INIT" /\ status'[Server] = "READY"
      BY <1>1, <1>2, <3>1
    <3>5. Roles'
      BY <1>5, <2>2, <3>3, <3>4 DEF Roles
    <3>6. ServerWaits' /\ Connected'
      BY <3>4 DEF ServerWaits, Connected
    <3>7. \A r \in Peers : Unused(r)'
      BY <1>4, <2>2, <3>1 DEF Unused
    <3>8. ASSUME AnswerComes, gone[Client] = "no"
          PROVE  AnswerComes'
      <4>1. net'[Client] = wc \o Units(answer) /\ OpcodesIn(wc) \subseteq {"BAD"}
        BY <1>6, <2>3, <3>1, <3>2, <3>8
      <4>2. CASE wc = <<>>
        <5>1. /\ net'[Client] # <<>> /\ Head(net'[Client]).frame.opcode = "RESPONSE"
              /\ Len(net'[Client]) <= 1 /\ OpcodesIn(Tail(net'[Client])) = {}
          BY <1>10, <1>28, <4>1, <4>2
        <5> QED
          BY <1>7, <2>2, <3>8, <5>1 DEF AnswerComes, First
      <4>3. CASE wc # <<>>
        <5>1. net'[Client] # <<>> /\ Head(net'[Client]) = Head(wc)
          BY <1>2, <1>9, <4>1, <4>3, FrameAppended
        <5>2. Head(wc).frame.opcode = "BAD"
          BY <1>8, <4>1, <4>3
        <5> QED
          BY <1>7, <2>2, <3>8, <5>1, <5>2 DEF AnswerComes, First
      <4> QED
        BY <4>2, <4>3
    <3>9. ClientWaits'
      BY <1>4, <2>2, <3>1, <3>3, <3>7, <3>8 DEF ClientWaits
    <3> QED
      BY <3>5, <3>6, <3>9 DEF HandInv
  <2>7. CASE TakesBad(Server, b)
    <3>1. /\ net'[Client] = wc /\ told' = [told EXCEPT ![Server] = TRUE]
          /\ UNCHANGED <<status, keep_alive_timer, loop>>
      BY <1>1, <2>7 DEF TakesBad, timeVars, wc
    <3>2. told'[Server] /\ told'[Client] = told[Client]
      BY <1>1, <1>2, <3>1
    <3>3. Roles'
      BY <1>3, <2>2, <3>1 DEF Roles
    <3>4. ServerWaits'
      BY <1>6, <2>2, <3>1, <3>2 DEF ServerWaits, First
    <3>5. \A r \in Peers : Unused(r)'
      BY <1>4, <2>2, <3>1 DEF Unused
    <3>6. AnswerComes => AnswerComes'
      BY <1>7, <2>2, <3>1 DEF AnswerComes, First
    <3>7. ClientWaits'
      BY <1>4, <2>2, <2>3, <3>1, <3>2, <3>5, <3>6 DEF ClientWaits
    <3>8. Connected'
      BY <3>1 DEF Connected
    <3> QED
      BY <3>3, <3>4, <3>7, <3>8 DEF HandInv
  <2> QED
    BY <2>5, <2>6, <2>7
<1>24. ASSUME ReadChunk(Client)
       PROVE  HandInv'
  <2>1. PICK b, rest : /\ Takes(Client, b, rest)
                       /\ \/ TakesFrames(Client, b) \/ TakesText(Client, b)
                          \/ TakesBad(Client, b) \/ TakesPart(Client, b)
    BY <1>1, <1>24, ReadWays
  <2>2. /\ gone[Client] = "no" /\ ~told[Client] /\ wc # <<>> /\ net'[Client] = rest
        /\ buffer'[Server] = buffer[Server] /\ rest \in Seq(UnitType)
        /\ OpcodesIn(rest) \subseteq OpcodesIn(wc)
        /\ buffer[Client] = <<>> => Head(b) = Head(wc) /\ OpcodesIn(rest) \subseteq OpcodesIn(Tail(wc))
        /\ UNCHANGED <<client_role, cache, sent, received, gone>>
    BY <1>1, <2>1 DEF Takes, wc
  <2>3. /\ AnswerComes /\ buffer[Client] = <<>>
        /\ First(wc, "BAD") \/ First(wc, "RESPONSE")
        /\ First(wc, "RESPONSE") => OpcodesIn(Tail(wc)) \subseteq {"CLOSE"}
    BY <1>4, <1>7, <2>2
  <2>4. Head(b) = Head(wc) /\ Head(b).frame.opcode \in {"BAD", "RESPONSE"}
    BY <2>2, <2>3 DEF First
  <2>5. TakesText(Client, b) \/ TakesBad(Client, b)
    BY <1>10, <2>1, <2>4 DEF TakesFrames, TakesPart
  <2>6. CASE TakesText(Client, b)
    <3>1. First(wc, "RESPONSE") /\ Head(b).frame.opcode = "RESPONSE"
      BY <2>2, <2>4, <2>6 DEF TakesText, First
    <3>2. /\ status' = [status EXCEPT ![Client] = "READY"] /\ buffer'[Client] = <<>>
          /\ net'[Server] = ws
      BY <1>1, <2>6, <3>1 DEF TakesText, ws
    <3>3. status[Server] # "INIT"
      BY <1>6, <1>8, <2>2, <2>4, <3>1
    <3>4. buffer'[Server] = <<>> /\ net'[Server] = <<>> /\ client_role'[Client] /\ ~client_role'[Server]
      BY <1>4, <1>5, <2>2, <3>2, <3>3
    <3>5. status'[Client] # "INIT" /\ status'[Server] # "INIT"
      BY <1>1, <1>2, <3>2, <3>3
    <3>6. Wire(Client)' = rest /\ Wire(Server)' = <<>>
      <4>1. <<>> \o rest = rest /\ <<>> \o <<>> = <<>>
        BY <2>2, ConcatEmptySeq
      <4> QED
        BY <2>2, <3>2, <3>4, <4>1 DEF Wire
    <3>7. TextFree(rest) /\ TextFree(<<>>)
      BY <2>2, <2>3, <3>1, OpcodesOfFrame DEF TextFree, Texts
    <3>8. Roles' /\ ServerWaits' /\ ClientWaits'
      BY <3>4, <3>5 DEF Roles, ServerWaits, ClientWaits
    <3>9. Connected'
      BY <1>1, <3>6, <3>7 DEF Connected
    <3> QED
      BY <3>8, <3>9 DEF HandInv
  <2>7. CASE TakesBad(Client, b)
    <3>1. /\ net'[Server] = ws /\ told' = [told EXCEPT ![Client] = TRUE]
          /\ UNCHANGED <<status, keep_alive_timer, loop>>
      BY <1>1, <2>7 DEF TakesBad, timeVars, ws
    <3>2. told'[Client] /\ told'[Server] = told[Server]
      BY <1>1, <1>2, <3>1
    <3>3. Roles'
      BY <1>3, <2>2, <3>1 DEF Roles
    <3>4. ServerWaits'
      BY <1>6, <2>2, <3>1, <3>2 DEF ServerWaits, First
    <3>5. \A r \in Peers : Unused(r)'
      BY <1>4, <2>2, <3>1 DEF Unused
    <3>6. ClientWaits'
      BY <1>4, <2>2, <3>1, <3>2, <3>5 DEF ClientWaits
    <3>7. Connected'
      BY <3>1 DEF Connected
    <3> QED
      BY <3>3, <3>4, <3>6, <3>7 DEF HandInv
  <2> QED
    BY <2>5, <2>6, <2>7
<1>25. ASSUME NEW p \in Peers, ReadChunk(p)
       PROVE  HandInv'
  BY <1>1, <1>23, <1>24, <1>25
<1> QED
  BY <1>13, <1>14, <1>15, <1>17, <1>18, <1>19, <1>20, <1>21, <1>22, <1>25 DEF Next

(* The handshake, step by step.                                             *)
LEMMA HandStep ==
    ASSUME TypeOK, HandInv, EarlyData = FALSE, [Next]_vars
    PROVE  HandInv'
<1>1. CASE UNCHANGED vars
  BY <1>1 DEF HandInv, Roles, ServerWaits, ClientWaits, Connected, AnswerComes, Unused, First, Wire,
              vars, timeVars, appVars
<1>2. CASE Next /\ status[Client] = "INIT"
  BY <1>2, WaitingStep
<1>3. CASE Next /\ status[Client] # "INIT"
  <2>1. /\ status'[Client] # "INIT" /\ status'[Server] # "INIT" /\ client_role' = client_role
        /\ \A p \in Peers : TextFree(Wire(p)')
    BY <1>3, ConnectedStep
  <2>2. ~client_role[Server] /\ client_role[Client]
    BY <1>3 DEF HandInv, Roles
  <2> QED
    BY <2>1, <2>2 DEF HandInv, Roles, ServerWaits, ClientWaits, Connected
<1> QED
  BY <1>1, <1>2, <1>3
-----------------------------------------------------------------------------
(* What the frames on their way make of the messages that were received.    *)

\* The slices in s that are complete are the same ones in t.
Settled(s, t) == Len(s) <= Len(t) /\ \A k \in 1..Len(s) : s[k].fin => t[k] = s[k]

\* A frame f turns the slices s into t.
Effect(f, s, t) ==
    \/ /\ f.opcode \in {"TEXT", "BINARY"}
       /\ t = Append(s, Slice(f.opcode, f.fin, f.data))
    \/ /\ f.opcode = "CONTINUE"
       /\ s # <<>> /\ ~s[Len(s)].fin
       /\ t = [s EXCEPT ![Len(s)] = Slice(s[Len(s)].opcode, f.fin, s[Len(s)].data \o f.data)]
    \/ f.opcode \notin Data /\ t = s

\* The units w are those of the frames in fs, which turn s into the last of ss,
\* which is t.  The data frames among them are in m.
Path(w, fs, ss, s, t, m) ==
    /\ Len(w) = 2 * Len(fs)
    /\ \A k \in 1..Len(fs) : /\ w[2 * k - 1] = [frame |-> fs[k], last |-> FALSE]
                             /\ w[2 * k] = [frame |-> fs[k], last |-> TRUE]
    /\ ss[0] = s /\ ss[Len(fs)] = t
    /\ \A k \in 1..Len(fs) : Effect(fs[k], ss[k - 1], ss[k])
    /\ \A k \in 1..Len(fs) : fs[k].opcode \in Data => fs[k] \in m
    /\ \A k \in 0..Len(fs) : Settled(ss[k], t)

Carries(w, s, t, m) ==
    \E fs \in Seq(FrameType) : \E ss \in [0..Len(fs) -> Seq(SliceType)] : Path(w, fs, ss, s, t, m)

(* A frame does not change the messages that are complete.                  *)
LEMMA SettledOn ==
    ASSUME NEW s \in Seq(SliceType), NEW t \in Seq(SliceType), NEW u \in Seq(SliceType),
           NEW f \in FrameType, Settled(s, t), Effect(f, t, u)
    PROVE  Settled(s, u)
<1>1. Len(s) \in Nat /\ Len(t) \in Nat /\ Len(s) <= Len(t)
  BY DEF Settled
<1>2. CASE f.opcode \in {"TEXT", "BINARY"} /\ u = Append(t, Slice(f.opcode, f.fin, f.data))
  <2>1. Slice(f.opcode, f.fin, f.data) \in SliceType
    BY <1>2, SliceTyped DEF FrameType
  <2>2. Len(u) = Len(t) + 1 /\ \A k \in 1..Len(t) : u[k] = t[k]
    BY <1>2, <2>1, AppendProperties
  <2> QED
    BY <1>1, <2>2 DEF Settled
<1>3. CASE /\ t # <<>> /\ ~t[Len(t)].fin
           /\ u = [t EXCEPT ![Len(t)] = Slice(t[Len(t)].opcode, f.fin, t[Len(t)].data \o f.data)]
  <2>1. Len(u) = Len(t) /\ \A k \in 1..Len(t) : k # Len(t) => u[k] = t[k]
    <3> DEFINE e == Slice(t[Len(t)].opcode, f.fin, t[Len(t)].data \o f.data)
    <3>1. DOMAIN u = DOMAIN t /\ \A k \in DOMAIN t : k # Len(t) => u[k] = t[k]
      BY <1>3
    <3> QED
      BY <3>1, LenProperties
  <2>2. ASSUME NEW k \in 1..Len(s), s[k].fin
        PROVE  u[k] = s[k]
    <3>1. t[k] = s[k] /\ k \in 1..Len(t)
      BY <1>1, <2>2 DEF Settled
    <3>2. k # Len(t)
      BY <1>3, <2>2, <3>1
    <3> QED
      BY <2>1, <3>1, <3>2
  <2> QED
    BY <1>1, <2>1, <2>2 DEF Settled
<1>4. CASE u = t
  BY <1>4
<1> QED
  BY <1>2, <1>3, <1>4 DEF Effect

(* Nothing on the way changes nothing.                                      *)
LEMMA CarriesNothing ==
    ASSUME NEW s \in Seq(SliceType), NEW m
    PROVE  Carries(<<>>, s, s, m)
<1> DEFINE fs == <<>>
           ss == [k \in 0..0 |-> s]
<1>1. fs \in Seq(FrameType) /\ Len(fs) = 0
  BY EmptySeq
<1>2. ss \in [0..Len(fs) -> Seq(SliceType)] /\ ss[0] = s /\ \A k \in 0..Len(fs) : ss[k] = s
  BY <1>1
<1>3. Settled(s, s)
  BY LenProperties DEF Settled
<1>4. 1..Len(fs) = {} /\ Len(<<>>) = 2 * Len(fs)
  BY <1>1
<1> HIDE DEF fs, ss
<1>5. Path(<<>>, fs, ss, s, s, m)
  BY <1>1, <1>2, <1>3, <1>4 DEF Path
<1> QED
  BY <1>1, <1>2, <1>5 DEF Carries

(* One more frame at the end of the way.                                    *)
LEMMA CarriesMore ==
    ASSUME NEW w \in Seq(UnitType), NEW s \in Seq(SliceType), NEW t \in Seq(SliceType), NEW m,
           Carries(w, s, t, m),
           NEW f \in FrameType, f.opcode \notin Texts, NEW u \in Seq(SliceType),
           Effect(f, t, u), f.opcode \in Data => f \in m
    PROVE  Carries(w \o Units(f), s, u, m)
<1>1. PICK fs \in Seq(FrameType) : \E ss \in [0..Len(fs) -> Seq(SliceType)] : Path(w, fs, ss, s, t, m)
  BY DEF Carries
<1>2. PICK ss \in [0..Len(fs) -> Seq(SliceType)] : Path(w, fs, ss, s, t, m)
  BY <1>1
<1> DEFINE n == Len(fs)
           gs == Append(fs, f)
           tt == [k \in 0..n + 1 |-> IF k <= n THEN ss[k] ELSE u]
           a == [frame |-> f, last |-> FALSE]
           b == [frame |-> f, last |-> TRUE]
<1>3. /\ n \in Nat /\ gs \in Seq(FrameType) /\ Len(gs) = n + 1
      /\ gs[n + 1] = f /\ \A k \in 1..n : gs[k] = fs[k]
  BY AppendProperties, LenProperties
<1>4. /\ tt \in [0..Len(gs) -> Seq(SliceType)] /\ tt[n + 1] = u
      /\ \A k \in 0..n : tt[k] = ss[k]
  BY <1>3
<1>5. Units(f) = <<a, b>> /\ a \in UnitType /\ b \in UnitType
  BY DEF Units, UnitType
<1> HIDE DEF n, gs, tt, a, b
<1>6. /\ <<a, b>> \in Seq(UnitType) /\ Len(<<a, b>>) = 2 /\ <<a, b>>[1] = a /\ <<a, b>>[2] = b
  BY <1>5
<1>7. Len(w) = 2 * n /\ Len(w) \in Nat
  BY <1>2, <1>3 DEF Path, n
<1> DEFINE v == w \o Units(f)
<1>8. /\ Len(v) = 2 * n + 2 /\ v[2 * n + 1] = a /\ v[2 * n + 2] = b
      /\ \A i \in 1..2 * n : v[i] = w[i]
  <2> DEFINE x == <<a, b>>
  <2>1. x \in Seq(UnitType) /\ Len(x) = 2 /\ x[1] = a /\ x[2] = b /\ v = w \o x
    BY <1>5, <1>6
  <2> HIDE DEF x, v
  <2>2. /\ Len(v) = Len(w) + Len(x)
        /\ \A i \in 1..Len(w) + Len(x) : v[i] = IF i <= Len(w) THEN w[i] ELSE x[i - Len(w)]
    BY <2>1, ConcatProperties
  <2>3. /\ 2 * n \in Nat /\ 2 * n + 1 \in 1..2 * n + 2 /\ 2 * n + 2 \in 1..2 * n + 2
        /\ (2 * n + 1) - 2 * n = 1 /\ (2 * n + 2) - 2 * n = 2
        /\ ~(2 * n + 1 <= 2 * n) /\ ~(2 * n + 2 <= 2 * n)
        /\ \A i \in 1..2 * n : i \in 1..2 * n + 2 /\ i <= 2 * n
    BY <1>3
  <2>4. /\ Len(v) = 2 * n + 2
        /\ \A i \in 1..2 * n + 2 : v[i] = IF i <= 2 * n THEN w[i] ELSE x[i - 2 * n]
    BY <1>7, <2>1, <2>2
  <2> QED
    BY <2>1, <2>3, <2>4
<1> HIDE DEF v
<1>9. \A k \in 1..n + 1 : /\ v[2 * k - 1] = [frame |-> gs[k], last |-> FALSE]
                          /\ v[2 * k] = [frame |-> gs[k], last |-> TRUE]
  <2> SUFFICES ASSUME NEW k \in 1..n + 1
               PROVE  /\ v[2 * k - 1] = [frame |-> gs[k], last |-> FALSE]
                      /\ v[2 * k] = [frame |-> gs[k], last |-> TRUE]
    OBVIOUS
  <2>1. CASE k = n + 1
    <3>1. 2 * k - 1 = 2 * n + 1 /\ 2 * k = 2 * n + 2
      <4>1. \A i, j \in Nat : i = j + 1 => 2 * i - 1 = 2 * j + 1 /\ 2 * i = 2 * j + 2
        OBVIOUS
      <4>2. n \in Nat /\ k \in Nat
        BY <1>3
      <4> QED
        BY <2>1, <4>1, <4>2
    <3> QED
      BY <1>3, <1>8, <2>1, <3>1 DEF a, b
  <2>2. CASE k # n + 1
    <3>1. k \in 1..n /\ 2 * k - 1 \in 1..2 * n /\ 2 * k \in 1..2 * n
      BY <1>3, <2>2
    <3>2. w[2 * k - 1] = [frame |-> fs[k], last |-> FALSE] /\ w[2 * k] = [frame |-> fs[k], last |-> TRUE]
      BY <1>2, <3>1 DEF Path, n
    <3> QED
      BY <1>3, <1>8, <3>1, <3>2
  <2> QED
    BY <2>1, <2>2
<1>10. tt[0] = s /\ tt[Len(gs)] = u
  BY <1>2, <1>3, <1>4 DEF Path, n
<1>11. \A k \in 1..n + 1 : Effect(gs[k], tt[k - 1], tt[k])
  <2> SUFFICES ASSUME NEW k \in 1..n + 1
               PROVE  Effect(gs[k], tt[k - 1], tt[k])
    OBVIOUS
  <2>1. CASE k = n + 1
    <3>1. k - 1 = n /\ tt[n] = t
      BY <1>2, <1>3, <1>4, <2>1 DEF Path, n
    <3> QED
      BY <1>3, <1>4, <2>1, <3>1
  <2>2. CASE k # n + 1
    <3>1. k \in 1..n /\ k - 1 \in 0..n /\ k \in 0..n
      BY <1>3, <2>2
    <3>2. Effect(fs[k], ss[k - 1], ss[k])
      BY <1>2, <3>1 DEF Path, n
    <3> QED
      BY <1>3, <1>4, <3>1, <3>2
  <2> QED
    BY <2>1, <2>2
<1>12. \A k \in 1..n + 1 : gs[k].opcode \in Data => gs[k] \in m
  <2> SUFFICES ASSUME NEW k \in 1..n + 1
               PROVE  gs[k].opcode \in Data => gs[k] \in m
    OBVIOUS
  <2>1. CASE k = n + 1
    BY <1>3, <2>1
  <2>2. CASE k # n + 1
    <3>1. k \in 1..n
      BY <1>3, <2>2
    <3>2. fs[k].opcode \in Data => fs[k] \in m
      BY <1>2, <3>1 DEF Path, n
    <3> QED
      BY <1>3, <3>1, <3>2
  <2> QED
    BY <2>1, <2>2
<1>13. \A k \in 0..n + 1 : Settled(tt[k], u)
  <2> SUFFICES ASSUME NEW k \in 0..n + 1
               PROVE  Settled(tt[k], u)
    OBVIOUS
  <2>1. CASE k = n + 1
    BY <1>4, <2>1, LenProperties DEF Settled
  <2>2. CASE k # n + 1
    <3>1. k \in 0..n /\ tt[k] = ss[k]
      BY <1>3, <1>4, <2>2
    <3>2. ss[k] \in Seq(SliceType) /\ Settled(ss[k], t)
      BY <1>2, <3>1 DEF Path, n
    <3>3. Settled(ss[k], u)
      BY <3>2, SettledOn
    <3> QED
      BY <3>1, <3>3
  <2> QED
    BY <2>1, <2>2
<1>14. Path(v, gs, tt, s, u, m)
  BY <1>3, <1>8, <1>9, <1>10, <1>11, <1>12, <1>13 DEF Path
<1> QED
  BY <1>3, <1>4, <1>14 DEF Carries, v

(* The first frame of the way is handled.                                   *)
LEMMA CarriesLess ==
    ASSUME NEW w \in Seq(UnitType), NEW s \in Seq(SliceType), NEW t \in Seq(SliceType), NEW m,
           Carries(w, s, t, m), w # <<>>
    PROVE  \E u \in Seq(SliceType) :
             /\ Effect(Head(w).frame, s, u)
             /\ Head(w).frame.opcode \in Data => Head(w).frame \in m
             /\ Carries(SubSeq(w, 3, Len(w)), u, t, m)
<1>1. PICK fs \in Seq(FrameType) : \E ss \in [0..Len(fs) -> Seq(SliceType)] : Path(w, fs, ss, s, t, m)
  BY DEF Carries
<1>2. PICK ss \in [0..Len(fs) -> Seq(SliceType)] : Path(w, fs, ss, s, t, m)
  BY <1>1
<1> DEFINE n == Len(fs)
           gs == Tail(fs)
           tt == [k \in 0..n - 1 |-> ss[k + 1]]
           v == SubSeq(w, 3, Len(w))
<1>3. Len(w) = 2 * n /\ n \in Nat /\ n >= 1
  <2>1. Len(w) \in Nat /\ Len(w) # 0 /\ n \in Nat
    BY EmptySeq, LenProperties
  <2> QED
    BY <1>2, <2>1 DEF Path
<1>4. gs \in Seq(FrameType) /\ Len(gs) = n - 1 /\ \A k \in 1..n - 1 : gs[k] = fs[k + 1]
  <2>1. fs # <<>>
    BY <1>3, EmptySeq
  <2> QED
    BY <2>1, HeadTailProperties
<1>5. /\ tt \in [0..n - 1 -> Seq(SliceType)]
      /\ \A k \in 0..n - 1 : tt[k] = ss[k + 1]
  BY <1>3
<1>6. v \in Seq(UnitType) /\ Len(v) = 2 * n - 2 /\ \A i \in 1..2 * n - 2 : v[i] = w[i + 2]
  BY <1>3
<1>7. Head(w) = [frame |-> fs[1], last |-> FALSE] /\ Head(w).frame = fs[1]
  <2>1. Head(w) = w[1]
    BY OpcodesEnds
  <2>2. w[1] = [frame |-> fs[1], last |-> FALSE]
    <3>1. PICK k \in 1..n : k = 1
      BY <1>3
    <3>2. 2 * k - 1 = 1
      BY <3>1
    <3> QED
      BY <1>2, <3>1, <3>2 DEF Path
  <2> QED
    BY <2>1, <2>2
<1>8. ss[1] \in Seq(SliceType) /\ ss[0] = s
  <2>1. 1 \in 0..n
    BY <1>3
  <2> QED
    BY <1>2, <2>1 DEF Path
<1>9. Effect(fs[1], s, ss[1]) /\ (fs[1].opcode \in Data => fs[1] \in m)
  <2>1. 1 \in 1..n /\ 1 - 1 = 0
    BY <1>3
  <2> QED
    BY <1>2, <1>8, <2>1 DEF Path
<1>10. Carries(v, ss[1], t, m)
  <2> HIDE DEF n, gs, tt, v
  <2>1. Len(v) = 2 * Len(gs)
    BY <1>3, <1>4, <1>6
  <2>2. \A k \in 1..Len(gs) : /\ v[2 * k - 1] = [frame |-> gs[k], last |-> FALSE]
                              /\ v[2 * k] = [frame |-> gs[k], last |-> TRUE]
    <3> SUFFICES ASSUME NEW k \in 1..n - 1
                 PROVE  /\ v[2 * k - 1] = [frame |-> gs[k], last |-> FALSE]
                        /\ v[2 * k] = [frame |-> gs[k], last |-> TRUE]
      BY <1>4
    <3>1. /\ k + 1 \in 1..n /\ 2 * k - 1 \in 1..2 * n - 2 /\ 2 * k \in 1..2 * n - 2
          /\ (2 * k - 1) + 2 = 2 * (k + 1) - 1 /\ 2 * k + 2 = 2 * (k + 1)
      BY <1>3
    <3>2. /\ w[2 * (k + 1) - 1] = [frame |-> fs[k + 1], last |-> FALSE]
          /\ w[2 * (k + 1)] = [frame |-> fs[k + 1], last |-> TRUE]
      BY <1>2, <3>1 DEF Path, n
    <3> QED
      BY <1>4, <1>6, <3>1, <3>2
  <2>3. tt[0] = ss[1] /\ tt[Len(gs)] = t
    <3>1. 0 \in 0..n - 1 /\ n - 1 \in 0..n - 1 /\ (n - 1) + 1 = n /\ 0 + 1 = 1
      BY <1>3
    <3> QED
      BY <1>2, <1>4, <1>5, <3>1 DEF Path, n
  <2>4. \A k \in 1..Len(gs) : Effect(gs[k], tt[k - 1], tt[k])
    <3> SUFFICES ASSUME NEW k \in 1..n - 1
                 PROVE  Effect(gs[k], tt[k - 1], tt[k])
      BY <1>4
    <3>1. k + 1 \in 1..n /\ k - 1 \in 0..n - 1 /\ k \in 0..n - 1 /\ (k - 1) + 1 = k /\ (k + 1) - 1 = k
      BY <1>3
    <3>2. Effect(fs[k + 1], ss[(k + 1) - 1], ss[k + 1])
      BY <1>2, <3>1 DEF Path, n
    <3> QED
      BY <1>4, <1>5, <3>1, <3>2
  <2>5. \A k \in 1..Len(gs) : gs[k].opcode \in Data => gs[k] \in m
    <3> SUFFICES ASSUME NEW k \in 1..n - 1
                 PROVE  gs[k].opcode \in Data => gs[k] \in m
      BY <1>4
    <3>1. k + 1 \in 1..n
      BY <1>3
    <3>2. fs[k + 1].opcode \in Data => fs[k + 1] \in m
      BY <1>2, <3>1 DEF Path, n
    <3> QED
      BY <1>4, <3>2
  <2>6. \A k \in 0..Len(gs) : Settled(tt[k], t)
    <3> SUFFICES ASSUME NEW k \in 0..n - 1
                 PROVE  Settled(tt[k], t)
      BY <1>4
    <3>1. k + 1 \in 0..n
      BY <1>3
    <3>2. Settled(ss[k + 1], t)
      BY <1>2, <3>1 DEF Path, n
    <3> QED
      BY <1>5, <3>2
  <2>7. Path(v, gs, tt, ss[1], t, m)
    BY <2>1, <2>2, <2>3, <2>4, <2>5, <2>6 DEF Path
  <2>8. tt \in [0..Len(gs) -> Seq(SliceType)]
    BY <1>4, <1>5
  <2> QED
    BY <1>4, <2>7, <2>8 DEF Carries
<1> QED
  BY <1>7, <1>8, <1>9, <1>10

(* The messages that are complete are so at the other end.                  *)
LEMMA CarriesSettled ==
    ASSUME NEW w, NEW s \in Seq(SliceType), NEW t \in Seq(SliceType), NEW m, Carries(w, s, t, m)
    PROVE  Settled(s, t)
<1>1. PICK fs \in Seq(FrameType) : \E ss \in [0..Len(fs) -> Seq(SliceType)] : Path(w, fs, ss, s, t, m)
  BY DEF Carries
<1>2. PICK ss \in [0..Len(fs) -> Seq(SliceType)] : Path(w, fs, ss, s, t, m)
  BY <1>1
<1>3. 0 \in 0..Len(fs)
  BY LenProperties
<1> QED
  BY <1>2, <1>3 DEF Path
-----------------------------------------------------------------------------
(* The messages of one stream, on their way to the application of the other. *)

\* What the application of p has read are whole messages of the other.
Delivered(p) ==
    /\ \A k \in 1..Len(received[p]) : received[p][k].fin
    /\ Settled(received[p], sent[Other(p)])

\* The answer to p was followed by a CLOSE, which p has perhaps read in part.
Broken(p) ==
    /\ status[Other(p)] = "CLOSING" /\ DataFree(Wire(p))
    /\ sent[Other(p)] = <<>> /\ received[p] = <<>> /\ cache[p] = <<>>

\* The data frames that are read as they were written: a client does not unmask
\* one, and an application that reads bytes does not wait for the next one.
Allowed(p) ==
    {f \in FrameType : /\ f.masked => ~client_role[p]
                       /\ p \in ByteReaders => f.fin /\ f.opcode # "CONTINUE"}

\* The slices s, with the frames on their way to p, are what the other has written.
Under(p, s) ==
    status[Client] # "INIT" /\ gone[p] = "no" =>
        Broken(p) \/ Carries(Wire(p), s, sent[Other(p)], Allowed(p))

OnTheWay(p) == Under(p, received[p] \o cache[p])

MsgInv == \A p \in Peers \ ByteReaders : Delivered(p) /\ OnTheWay(p)

(* In the beginning there are no messages.                                  *)
LEMMA MsgInit == Init => MsgInv
<1> SUFFICES ASSUME Init, NEW p \in Peers
             PROVE  Delivered(p) /\ OnTheWay(p)
  BY DEF MsgInv
<1>1. /\ received[p] = <<>> /\ sent[Other(p)] = <<>> /\ status[Client] = "INIT"
  BY OtherPeer DEF Init
<1>2. Len(<<>>) = 0 /\ 1..0 = {}
  OBVIOUS
<1> QED
  BY <1>1, <1>2 DEF Delivered, Settled, OnTheWay, Under

(* What a stream has read, and what waits in its cache.                     *)
LEMMA SlicesTyped ==
    ASSUME TypeOK, NEW p \in Peers
    PROVE  /\ received[p] \in Seq(SliceType) /\ cache[p] \in Seq(SliceType)
           /\ sent[p] \in Seq(SliceType) /\ received[p] \o cache[p] \in Seq(SliceType)
           /\ Wire(p) \in Seq(UnitType) /\ client_role[p] \in BOOLEAN
<1>1. received[p] \in Seq(SliceType) /\ cache[p] \in Seq(SliceType) /\ sent[p] \in Seq(SliceType)
      /\ client_role[p] \in BOOLEAN
  BY DEF TypeOK
<1> QED
  BY <1>1, WireTyped, ConcatProperties

(* Nothing happens to the messages of p.                                    *)
LEMMA NothingOnTheWay ==
    ASSUME NEW p \in Peers, NEW s, Under(p, s), status[Client] # "INIT",
           Wire(p)' = Wire(p), received'[p] = received[p], cache'[p] = cache[p],
           sent'[Other(p)] = sent[Other(p)], client_role' = client_role,
           gone'[p] = "no" => gone[p] = "no",
           status[Other(p)] = "CLOSING" => status'[Other(p)] = "CLOSING"
    PROVE  Under(p, s)'
<1>1. Broken(p) => Broken(p)'
  BY DEF Broken
<1>2. Allowed(p)' = Allowed(p)
  BY DEF Allowed
<1>3. Carries(Wire(p), s, sent[Other(p)], Allowed(p))
        => Carries(Wire(p)', s, sent'[Other(p)], Allowed(p)')
  BY <1>2
<1> QED
  BY <1>1, <1>3 DEF Under

LEMMA NothingHappens ==
    ASSUME NEW p \in Peers, Delivered(p), OnTheWay(p), status[Client] # "INIT",
           Wire(p)' = Wire(p), received'[p] = received[p], cache'[p] = cache[p],
           sent'[Other(p)] = sent[Other(p)], client_role' = client_role,
           gone'[p] = "no" => gone[p] = "no",
           status[Other(p)] = "CLOSING" => status'[Other(p)] = "CLOSING"
    PROVE  Delivered(p)' /\ OnTheWay(p)'
<1>1. Delivered(p)'
  BY DEF Delivered
<1>2. PICK s : s = received[p] \o cache[p]
  OBVIOUS
<1>3. Under(p, s)
  BY <1>2 DEF OnTheWay
<1>4. Under(p, s)'
  BY <1>3, NothingOnTheWay
<1>5. received'[p] \o cache'[p] = s
  BY <1>2
<1> QED
  BY <1>1, <1>4, <1>5 DEF OnTheWay, Under

(* The stream that goes out of its way to write a frame that is no data.    *)
LEMMA ControlOnTheWay ==
    ASSUME NEW w \in Seq(UnitType), NEW s \in Seq(SliceType), NEW t \in Seq(SliceType), NEW m,
           Carries(w, s, t, m), NEW f \in FrameType, f.opcode \notin Texts, f.opcode \notin Data
    PROVE  Carries(w \o Units(f), s, t, m)
<1>1. Effect(f, t, t)
  BY DEF Effect
<1> QED
  BY <1>1, CarriesMore

(* The client's stream is connected when it takes its answer.               *)
LEMMA OnlyAnswerConnects ==
    ASSUME TypeOK, HandInv, EarlyData = FALSE, status[Client] = "INIT", Next, status'[Client] # "INIT"
    PROVE  ReadChunk(Client)
<1>1. /\ Client \in Peers /\ Server \in Peers /\ Client # Server
      /\ Other(Client) = Server /\ \A p \in Peers : p = Client \/ p = Server
  BY WsAssumption DEF Peers, Other
<1>2. status \in [Peers -> {"INIT", "READY", "CLOSING"}]
  BY DEF TypeOK
<1>3. Unused(Client) /\ keep_alive_timer[Client] = Stopped
  BY <1>1 DEF HandInv, ClientWaits
<1>4. ~Tick
  BY DEF Tick
<1>5. ASSUME NEW p \in Peers,
             \/ Connect(p) \/ WriteText(p) \/ Write(p) \/ WriteFrame(p)
             \/ ReadBytes(p) \/ ReadFrame(p) \/ ReadFrameTooLong(p) \/ ReadNothing(p) \/ ReadZero(p)
             \/ Close(p) \/ Crash(p)
      PROVE  FALSE
  BY <1>5 DEF Connect, WriteText, Write, WriteFrame, ReadBytes, ReadFrame, ReadFrameTooLong, ReadNothing,
              ReadZero, Close, Crash
<1>6. ASSUME NEW p \in Peers, Disconnect(p) \/ DoTime(p) \/ HandleReceivedFrame(p)
      PROVE  FALSE
  <2>1. p # Server
    BY <1>1, <1>2, <1>6 DEF Disconnect, DoTime, HandleReceivedFrame, CloseIfMasked
  <2>2. p = Client
    BY <1>1, <2>1
  <2>3. ~Disconnect(p)
    BY <2>2 DEF Disconnect
  <2>4. ~HandleReceivedFrame(p)
    BY <1>3, <2>2 DEF HandleReceivedFrame, Unused
  <2>5. ~Expired(Stopped)
    BY DEF Expired, Running, Stopped
  <2>6. ~DoTime(p)
    BY <1>3, <2>2, <2>5 DEF DoTime
  <2> QED
    BY <1>6, <2>3, <2>4, <2>6
<1>7. ASSUME NEW p \in Peers, ReadChunk(p)
      PROVE  p = Client
  <2>1. ASSUME p = Server
        PROVE  FALSE
    <3>1. \E b, rest : TakesFrames(p, b) \/ TakesText(p, b) \/ TakesBad(p, b) \/ TakesPart(p, b)
      BY <1>7, ReadWays
    <3>2. status'[Client] = status[Client]
      BY <1>1, <1>2, <2>1, <3>1 DEF TakesFrames, TakesText, TakesBad, TakesPart
    <3> QED
      BY <3>2
  <2> QED
    BY <1>1, <2>1
<1> QED
  BY <1>4, <1>5, <1>6, <1>7 DEF Next

(* A step of streams that are not connected yet.                            *)
LEMMA MsgOpening ==
    ASSUME TypeOK, HandInv, HandInv', EarlyData = FALSE, status[Client] = "INIT", Next,
           NEW p \in Peers
    PROVE  Delivered(p)' /\ OnTheWay(p)'
<1>1. /\ Client \in Peers /\ Server \in Peers /\ Client # Server
      /\ Other(Client) = Server /\ Other(Server) = Client /\ \A r \in Peers : r = Client \/ r = Server
  BY WsAssumption DEF Peers, Other
<1>2. Len(<<>>) = 0 /\ 1..0 = {}
  OBVIOUS
<1>3. CASE status'[Client] = "INIT"
  <2>1. received'[p] = <<>> /\ sent'[Other(p)] = <<>>
    BY <1>3, OtherPeer DEF HandInv, ClientWaits, Unused
  <2> QED
    BY <1>2, <1>3, <2>1 DEF Delivered, Settled, OnTheWay, Under
<1>4. CASE status'[Client] # "INIT"
  <2>1. ReadChunk(Client)
    BY <1>4, OnlyAnswerConnects
  <2>2. PICK b, rest : /\ Takes(Client, b, rest)
                       /\ \/ TakesFrames(Client, b) \/ TakesText(Client, b)
                          \/ TakesBad(Client, b) \/ TakesPart(Client, b)
    BY <1>1, <2>1, ReadWays
  <2>3. TakesText(Client, b)
    BY <1>4, <2>2 DEF TakesFrames, TakesBad, TakesPart
  <2>4. /\ gone[Client] = "no" /\ ~told[Client] /\ net[Client] # <<>> /\ net'[Client] = rest
        /\ buffer'[Server] = buffer[Server] /\ rest \in Seq(UnitType)
        /\ buffer[Client] = <<>> => /\ Head(b) = Head(net[Client])
                                    /\ Len(net[Client]) <= 1 => rest = <<>>
                                    /\ OpcodesIn(rest) \subseteq OpcodesIn(Tail(net[Client]))
        /\ UNCHANGED <<client_role, cache, sent, received, gone>>
    BY <1>1, <2>2 DEF Takes
  <2>5. /\ \A r \in Peers : sent[r] = <<>> /\ received[r] = <<>> /\ cache[r] = <<>>
        /\ status[Server] # "INIT" => buffer[Server] = <<>> /\ net[Server] = <<>>
        /\ buffer[Client] = <<>>
        /\ First(net[Client], "BAD") \/ First(net[Client], "RESPONSE")
        /\ First(net[Client], "RESPONSE") =>
             /\ OpcodesIn(Tail(net[Client])) \subseteq {"CLOSE"}
             /\ status[Server] = "READY" => Len(net[Client]) <= 1
    BY <2>4 DEF HandInv, ClientWaits, Unused, AnswerComes
  <2>6. First(net[Client], "RESPONSE") /\ Head(b).frame.opcode = "RESPONSE"
    BY <2>3, <2>4, <2>5 DEF TakesText, First
  <2>7. /\ status' = [status EXCEPT ![Client] = "READY"] /\ buffer'[Client] = <<>>
        /\ net'[Server] = net[Server]
    BY <1>1, <2>3, <2>6 DEF TakesText
  <2>8. status[Server] # "INIT"
    <3>1. ASSUME status[Server] = "INIT"
          PROVE  FALSE
      <4>1. OpcodesIn(net[Client]) \subseteq {"BAD"}
        BY <3>1 DEF HandInv, ServerWaits
      <4>2. net[Client] \in Seq(UnitType)
        BY <1>1 DEF TypeOK
      <4>3. Head(net[Client]).frame.opcode \in OpcodesIn(net[Client])
        BY <2>4, <4>2, OpcodesEnds
      <4> QED
        BY <2>6, <4>1, <4>3 DEF First
    <3> QED
      BY <3>1
  <2>9. status'[Server] = status[Server] /\ status[Server] \in {"READY", "CLOSING"}
    BY <1>1, <2>7, <2>8 DEF TypeOK
  <2>10. Delivered(p)'
    <3>1. received'[p] = <<>> /\ sent'[Other(p)] = <<>>
      BY <2>4, <2>5, OtherPeer
    <3> QED
      BY <1>2, <3>1 DEF Delivered, Settled
  <2>11. <<>> \in Seq(SliceType) /\ <<>> \o <<>> = <<>> /\ <<>> \o rest = rest
    BY <2>4, EmptySeq, ConcatEmptySeq
  <2>12. ASSUME Wire(p)' = <<>>
         PROVE  OnTheWay(p)'
    <3>1. received'[p] \o cache'[p] = <<>> /\ sent'[Other(p)] = <<>>
      BY <2>4, <2>5, <2>11, OtherPeer
    <3>2. Carries(<<>>, <<>>, <<>>, Allowed(p)')
      BY <2>11, CarriesNothing
    <3> QED
      BY <2>12, <3>1, <3>2 DEF OnTheWay, Under
  <2>13. Wire(Client)' = rest /\ Wire(Server)' = <<>>
    BY <2>4, <2>5, <2>7, <2>8, <2>11 DEF Wire
  <2>14. CASE p = Server
    BY <2>10, <2>12, <2>13, <2>14
  <2>15. CASE p = Client /\ status[Server] = "READY"
    <3>1. rest = <<>>
      BY <2>4, <2>5, <2>6, <2>15
    <3> QED
      BY <2>10, <2>12, <2>13, <2>15, <3>1
  <2>16. CASE p = Client /\ status[Server] = "CLOSING"
    <3>1. DataFree(rest)
      BY <2>4, <2>5, <2>6 DEF DataFree, Data
    <3>2. Broken(Client)'
      BY <1>1, <2>4, <2>5, <2>9, <2>13, <2>16, <3>1 DEF Broken
    <3> QED
      BY <2>10, <2>16, <3>2 DEF OnTheWay, Under
  <2> QED
    BY <1>1, <2>9, <2>14, <2>15, <2>16
<1> QED
  BY <1>3, <1>4

\* d is c but for its last element, which is x.
Ends(d, c, x) ==
    /\ Len(d) = Len(c)
    /\ \A i \in 1..Len(c) : d[i] = IF i = Len(c) THEN x ELSE c[i]

(* A message that goes on, behind those that were read.                     *)
LEMMA ContinuedBehind ==
    ASSUME NEW r \in Seq(SliceType), NEW c \in Seq(SliceType), c # <<>>, NEW x,
           NEW d \in Seq(SliceType), NEW e \in Seq(SliceType),
           Ends(d, c, x), Ends(e, r \o c, x)
    PROVE  (r \o c)[Len(r \o c)] = c[Len(c)] /\ r \o d = e
<1>1. /\ r \o c \in Seq(SliceType) /\ Len(r \o c) = Len(r) + Len(c)
      /\ \A i \in 1..Len(r) + Len(c) : (r \o c)[i] = IF i <= Len(r) THEN r[i] ELSE c[i - Len(r)]
      /\ Len(r) \in Nat /\ Len(c) \in Nat
  BY ConcatProperties, LenProperties
<1> DEFINE n == Len(c)
           m == Len(r)
           a == r \o c
<1>2. n \in Nat /\ n # 0 /\ m \in Nat /\ n \in 1..n /\ m + n \in 1..m + n
  BY <1>1, EmptySeq
<1>3. a \in Seq(SliceType) /\ Len(a) = m + n
  BY <1>1
<1>4. \A i \in 1..m + n : a[i] = IF i <= m THEN r[i] ELSE c[i - m]
  BY <1>1
<1>5. Len(d) = n /\ \A i \in 1..n : d[i] = IF i = n THEN x ELSE c[i]
  BY DEF Ends
<1>6. Len(e) = m + n /\ \A i \in 1..m + n : e[i] = IF i = m + n THEN x ELSE a[i]
  BY <1>1 DEF Ends
<1> HIDE DEF n, m, a
<1>7. /\ r \o d \in Seq(SliceType) /\ Len(r \o d) = m + n
      /\ \A i \in 1..m + n : (r \o d)[i] = IF i <= m THEN r[i] ELSE d[i - m]
  <2>1. /\ r \o d \in Seq(SliceType) /\ Len(r \o d) = Len(r) + Len(d)
        /\ \A i \in 1..Len(r) + Len(d) : (r \o d)[i] = IF i <= Len(r) THEN r[i] ELSE d[i - Len(r)]
    BY ConcatProperties
  <2>2. Len(d) = n /\ Len(r) = m
    BY <1>5 DEF m
  <2> QED
    BY <2>1, <2>2
<1>8. ASSUME NEW i \in 1..m + n
      PROVE  (r \o d)[i] = e[i]
  <2>1. CASE i <= m
    <3>1. i # m + n
      BY <1>2, <2>1
    <3> QED
      BY <1>4, <1>6, <1>7, <2>1, <3>1
  <2>2. CASE ~(i <= m)
    <3>1. i - m \in 1..n /\ (i - m = n <=> i = m + n)
      BY <1>2, <2>2
    <3> QED
      BY <1>4, <1>5, <1>6, <1>7, <2>2, <3>1
  <2> QED
    BY <2>1, <2>2
<1>9. r \o d = e
  BY <1>6, <1>7, <1>8, SeqEqual
<1>10. a[m + n] = c[n]
  <2>1. ~(m + n <= m) /\ (m + n) - m = n /\ m + n # 0
    BY <1>2
  <2> QED
    BY <1>2, <1>3, <1>4, <2>1, EmptySeq
<1> QED
  BY <1>3, <1>9, <1>10 DEF n, m, a

(* What is behind the messages that were read.                              *)
LEMMA BehindTheRead ==
    ASSUME NEW r \in Seq(SliceType), NEW c \in Seq(SliceType), NEW x \in SliceType
    PROVE  /\ r \o Append(c, x) = Append(r \o c, x)
           /\ c # <<>> => Append(r, Head(c)) \o Tail(c) = r \o c
<1>1. /\ r \o c \in Seq(SliceType) /\ Len(r \o c) = Len(r) + Len(c)
      /\ \A i \in 1..Len(r) + Len(c) : (r \o c)[i] = IF i <= Len(r) THEN r[i] ELSE c[i - Len(r)]
      /\ Len(r) \in Nat /\ Len(c) \in Nat
  BY ConcatProperties, LenProperties
<1>2. r \o Append(c, x) = Append(r \o c, x)
  <2>1. Append(c, x) = c \o <<x>> /\ Append(r \o c, x) = (r \o c) \o <<x>> /\ <<x>> \in Seq(SliceType)
    BY <1>1, AppendIsConcat
  <2> QED
    BY <2>1, ConcatAssociative
<1>3. ASSUME c # <<>>
      PROVE  Append(r, Head(c)) \o Tail(c) = r \o c
  <2>1. /\ Head(c) \in SliceType /\ Tail(c) \in Seq(SliceType) /\ <<Head(c)>> \in Seq(SliceType)
        /\ c = <<Head(c)>> \o Tail(c)
    BY <1>3
  <2>2. Append(r, Head(c)) = r \o <<Head(c)>>
    BY <2>1, AppendIsConcat
  <2>3. (r \o <<Head(c)>>) \o Tail(c) = r \o (<<Head(c)>> \o Tail(c))
    BY <2>1, ConcatAssociative
  <2> QED
    BY <2>1, <2>2, <2>3
<1> QED
  BY <1>2, <1>3

(* The handler of a frame does to the messages what the frame is for.       *)
LEMMA HandledEffect ==
    ASSUME TypeOK, NEW p \in Peers, HandleReceivedFrame(p),
           \A k \in 1..Len(received[p]) : received[p][k].fin,
           NEW u, Effect(Head(buffer[p]).frame, received[p] \o cache[p], u),
           Head(buffer[p]).frame.opcode \in Data => Head(buffer[p]).frame \in Allowed(p)
    PROVE  received[p] \o cache'[p] = u
<1> DEFINE f == Head(buffer[p]).frame
           r == received[p]
           c == cache[p]
<1>1. /\ f \in FrameType /\ f.opcode \in {"TEXT", "BINARY", "CONTINUE", "CLOSE", "PING", "PONG"} \cup Texts
      /\ f.fin \in BOOLEAN /\ f.masked \in BOOLEAN /\ f.data \in Seq(Nat)
  <2>1. f \in FrameType
    BY HandledFrame DEF HandleReceivedFrame
  <2> HIDE DEF f
  <2> QED
    BY <2>1 DEF FrameType
<1>2. r \in Seq(SliceType) /\ c \in Seq(SliceType) /\ cache \in [Peers -> Seq(SliceType)]
  BY SlicesTyped DEF TypeOK
<1>3. /\ ReceiveMessage(p, f) \/ ReceiveContinue(p, f) \/ ReceivePing(p, f) \/ ReceivePong(p, f) \/ ReceiveClose(p, f)
  BY DEF HandleReceivedFrame
<1>4. Effect(f, r \o c, u) /\ \A k \in 1..Len(r) : r[k].fin
  OBVIOUS
<1>5. f.opcode \in Data => Payload(p, f) = f.data
  BY <1>1 DEF Payload, Allowed
<1> HIDE DEF f, r, c
<1>6. CASE f.opcode \in {"TEXT", "BINARY"}
  <2>1. cache' = [cache EXCEPT ![p] = Append(@, Slice(f.opcode, f.fin, Payload(p, f)))]
    BY <1>3, <1>6 DEF ReceiveMessage, ReceiveContinue, ReceivePing, ReceivePong, ReceiveClose
  <2> DEFINE x == Slice(f.opcode, f.fin, f.data)
  <2>2. cache'[p] = Append(c, x)
    BY <1>2, <1>5, <1>6, <2>1 DEF c, Data
  <2>3. u = Append(r \o c, x)
    BY <1>4, <1>6 DEF Effect, Data
  <2>4. x \in SliceType
    BY <1>1, <1>6, SliceTyped
  <2> HIDE DEF x
  <2>5. r \o Append(c, x) = Append(r \o c, x)
    BY <1>2, <2>4, BehindTheRead
  <2> QED
    BY <2>2, <2>3, <2>5 DEF r
<1>7. CASE f.opcode = "CONTINUE"
  <2> DEFINE s == r \o c
  <2>1. /\ s # <<>> /\ ~s[Len(s)].fin
        /\ u = [s EXCEPT ![Len(s)] = Slice(s[Len(s)].opcode, f.fin, s[Len(s)].data \o f.data)]
    BY <1>4, <1>7 DEF Effect, Data
  <2>2. c # <<>>
    <3>1. ASSUME c = <<>>
          PROVE  FALSE
      <4>1. s = r
        BY <1>2, <3>1, ConcatEmptySeq
      <4>2. Len(r) \in 1..Len(r)
        BY <1>2, <2>1, <4>1, LastTyped
      <4> QED
        BY <1>4, <2>1, <4>1, <4>2
    <3> QED
      BY <3>1
  <2> DEFINE x == Slice(c[Len(c)].opcode, f.fin, c[Len(c)].data \o f.data)
  <2>3. x \in SliceType
    <3>1. c[Len(c)].opcode \in {"TEXT", "BINARY"} /\ c[Len(c)].data \in Seq(Nat)
      BY <1>2, <2>2, LastTyped
    <3>2. c[Len(c)].data \o f.data \in Seq(Nat)
      BY <1>1, <3>1, ConcatProperties
    <3> QED
      BY <1>1, <3>1, <3>2, SliceTyped
  <2>4. cache' = [cache EXCEPT ![p][LastSlice(cache[p])] = Slice(@.opcode, f.fin, @.data \o Payload(p, f))]
    BY <1>3, <1>7, <2>2 DEF ReceiveMessage, ReceiveContinue, ReceivePing, ReceivePong, ReceiveClose, c
  <2>5. cache'[p] = [c EXCEPT ![Len(c)] = x]
    BY <1>2, <1>5, <1>7, <2>4 DEF LastSlice, c, Data
  <2> DEFINE d == [c EXCEPT ![Len(c)] = x]
             e == [s EXCEPT ![Len(s)] = x]
  <2>6. s[Len(s)] = c[Len(c)] /\ r \o d = e
    <3> HIDE DEF x
    <3>1. r \in Seq(SliceType) /\ c \in Seq(SliceType) /\ Len(c) \in 1..Len(c)
      BY <1>2, <2>2, LastTyped
    <3>2. d \in Seq(SliceType) /\ Ends(d, c, x)
      BY <2>3, <3>1, ExceptSeq DEF Ends
    <3>3. s \in Seq(SliceType)
      BY <3>1, ConcatProperties
    <3> HIDE DEF s
    <3>4. Len(s) \in 1..Len(s)
      BY <2>1, <3>3, LastTyped
    <3>5. e \in Seq(SliceType) /\ Ends(e, s, x)
      BY <2>3, <3>3, <3>4, ExceptSeq DEF Ends
    <3> HIDE DEF d, e
    <3> QED
      BY <2>2, <3>1, <3>2, <3>5, ContinuedBehind DEF s
  <2>7. u = e
    BY <2>1, <2>6
  <2> QED
    BY <2>5, <2>6, <2>7 DEF r
<1>8. CASE f.opcode \notin Data
  <2>1. cache' = cache
    BY <1>3, <1>8 DEF Data, ReceiveMessage, ReceiveContinue, ReceivePing, ReceivePong, ReceiveClose
  <2>2. u = r \o c
    BY <1>4, <1>8 DEF Effect, Data
  <2> QED
    BY <2>1, <2>2 DEF r, c
<1> QED
  BY <1>6, <1>7, <1>8 DEF Data
(* What the calls that write messages do.                                   *)
LEMMA WriteEffect ==
    ASSUME TypeOK, NEW q \in Peers, Write(q) \/ WriteFrame(q)
    PROVE  /\ status[q] = "READY"
           /\ UNCHANGED <<status, buffer, client_role, cache, received, gone>>
           /\ sent'[q] \in Seq(SliceType)
           /\ \E f \in FrameType :
                /\ f.opcode \in Data /\ Writes(q, f) /\ Effect(f, sent[q], sent'[q])
                /\ q \notin Careless => f.masked = client_role[q]
                /\ q \notin Fragmenters => f.fin /\ f.opcode # "CONTINUE"
<1>0. /\ client_role[q] \in BOOLEAN /\ data_type[q] \in {"TEXT", "BINARY"}
      /\ sent \in [Peers -> Seq(SliceType)] /\ sent[q] \in Seq(SliceType)
  BY DEF TypeOK
<1>1. /\ status[q] = "READY"
      /\ UNCHANGED <<status, buffer, client_role, cache, received, gone>>
  BY DEF Write, WriteFrame, MayWrite
<1>2. ASSUME NEW op \in {"TEXT", "BINARY"}, NEW fin \in BOOLEAN, NEW m \in BOOLEAN, NEW d \in Seq(Nat),
             Writes(q, Frame(op, fin, m, d)),
             sent' = [sent EXCEPT ![q] = Append(@, Slice(op, fin, d))],
             q \notin Careless => m = client_role[q]
      PROVE  /\ sent'[q] \in Seq(SliceType)
             /\ \E f \in FrameType :
                  /\ f.opcode \in Data /\ Writes(q, f) /\ Effect(f, sent[q], sent'[q])
                  /\ q \notin Careless => f.masked = client_role[q]
                  /\ f.fin = fin /\ f.opcode = op
  <2> DEFINE f == Frame(op, fin, m, d)
             x == Slice(op, fin, d)
  <2>1. f \in FrameType /\ x \in SliceType
    BY DataTyped, SliceTyped
  <2>2. f.opcode = op /\ f.fin = fin /\ f.masked = m /\ f.data = d
    BY DEF Frame
  <2>3. sent'[q] = Append(sent[q], x)
    BY <1>0, <1>2
  <2>4. sent'[q] \in Seq(SliceType)
    <3> HIDE DEF x
    <3> QED
      BY <1>0, <2>1, <2>3, AppendProperties
  <2>5. Effect(f, sent[q], sent'[q])
    <3> HIDE DEF f
    <3> QED
      BY <2>2, <2>3 DEF Effect
  <2>6. f.opcode \in Data /\ Writes(q, f)
    BY <1>2, <2>2 DEF Data
  <2> HIDE DEF f
  <2> QED
    BY <1>2, <2>1, <2>2, <2>4, <2>5, <2>6
<1>3. ASSUME NEW fin \in BOOLEAN, NEW m \in BOOLEAN, NEW d \in Seq(Nat), Open(q),
             Writes(q, Frame("CONTINUE", fin, m, d)),
             sent' = [sent EXCEPT ![q] = Append(Front(@), Slice(Last(@).opcode, fin, Last(@).data \o d))],
             q \notin Careless => m = client_role[q]
      PROVE  /\ sent'[q] \in Seq(SliceType)
             /\ \E f \in FrameType :
                  /\ f.opcode \in Data /\ Writes(q, f) /\ Effect(f, sent[q], sent'[q])
                  /\ q \notin Careless => f.masked = client_role[q]
  <2> DEFINE f == Frame("CONTINUE", fin, m, d)
             s == sent[q]
             n == Len(s)
             x == Slice(s[n].opcode, fin, s[n].data \o d)
             t == Append(Front(s), x)
             e == [s EXCEPT ![n] = x]
  <2>1. f \in FrameType
    BY DataTyped
  <2>2. f.opcode = "CONTINUE" /\ f.fin = fin /\ f.masked = m /\ f.data = d
    BY DEF Frame
  <2>3. s \in Seq(SliceType) /\ s # <<>> /\ ~s[n].fin /\ sent'[q] = t
    BY <1>0, <1>3 DEF Open, Last
  <2>4. n \in 1..n /\ n \in Nat /\ s[n].opcode \in {"TEXT", "BINARY"} /\ s[n].data \in Seq(Nat)
    BY <2>3, LastTyped, LenProperties
  <2>5. x \in SliceType
    BY <2>4, ConcatProperties, SliceTyped
  <2>6. Front(s) \in Seq(SliceType) /\ Len(Front(s)) = n - 1 /\ \A i \in 1..n - 1 : Front(s)[i] = s[i]
    BY <2>3, <2>4 DEF Front
  <2> HIDE DEF x, n, s
  <2>7. /\ t \in Seq(SliceType) /\ Len(t) = n
        /\ \A i \in 1..n : t[i] = IF i = n THEN x ELSE s[i]
    <3> DEFINE g == Front(s)
    <3>1. g \in Seq(SliceType) /\ Len(g) = n - 1 /\ \A i \in 1..n - 1 : g[i] = s[i]
      BY <2>6
    <3> HIDE DEF g
    <3>2. /\ Append(g, x) \in Seq(SliceType) /\ Len(Append(g, x)) = Len(g) + 1
          /\ \A i \in 1..Len(g) : Append(g, x)[i] = g[i]
          /\ Append(g, x)[Len(g) + 1] = x
      BY <2>5, <3>1, AppendProperties
    <3> QED
      BY <2>4, <3>1, <3>2 DEF g
  <2>8. e \in Seq(SliceType) /\ Len(e) = n /\ \A i \in 1..n : e[i] = IF i = n THEN x ELSE s[i]
    BY <2>3, <2>4, <2>5, ExceptSeq DEF n
  <2>9. t = e
    <3> HIDE DEF t, e
    <3> QED
      BY <2>7, <2>8, SeqEqual
  <2>10. Effect(f, s, t)
    <3> HIDE DEF f, t
    <3>1. t = [s EXCEPT ![Len(s)] = Slice(s[Len(s)].opcode, f.fin, s[Len(s)].data \o f.data)]
      BY <2>2, <2>9 DEF x, n
    <3> QED
      BY <2>2, <2>3, <3>1 DEF Effect, n
  <2>11. f.opcode \in Data /\ Writes(q, f)
    BY <1>3, <2>2 DEF Data
  <2> HIDE DEF f, t
  <2> QED
    BY <1>3, <2>1, <2>2, <2>3, <2>7, <2>10, <2>11 DEF s
<1>4. CASE Write(q)
  <2>1. PICK n \in Lengths :
          /\ Writes(q, Frame(data_type[q], TRUE, client_role[q], NewBytes(q, n)))
          /\ sent' = [sent EXCEPT ![q] = Append(@, Slice(data_type[q], TRUE, NewBytes(q, n)))]
    BY <1>4 DEF Write
  <2>2. NewBytes(q, n) \in Seq(Nat)
    BY <1>0, NewBytesTyped
  <2>3. /\ sent'[q] \in Seq(SliceType)
        /\ \E f \in FrameType :
             /\ f.opcode \in Data /\ Writes(q, f) /\ Effect(f, sent[q], sent'[q])
             /\ q \notin Careless => f.masked = client_role[q]
             /\ f.fin = TRUE /\ f.opcode = data_type[q]
    BY <1>0, <1>2, <2>1, <2>2
  <2>4. data_type[q] # "CONTINUE"
    BY <1>0
  <2> QED
    BY <1>1, <2>3, <2>4
<1>5. CASE WriteFrame(q)
  <2>0. q \in Fragmenters
    BY <1>5 DEF WriteFrame
  <2>1. PICK n \in Lengths, fin \in BOOLEAN,
             masked \in IF q \in Careless THEN BOOLEAN ELSE {client_role[q]} :
         \/ /\ ~Open(q) /\ Len(sent[q]) < MaxFrames
            /\ \E opcode \in Opcodes :
                 /\ Writes(q, Frame(opcode, fin, masked, NewBytes(q, n)))
                 /\ sent' = [sent EXCEPT ![q] = Append(@, Slice(opcode, fin, NewBytes(q, n)))]
         \/ /\ Open(q)
            /\ fin \/ Len(Last(sent[q]).data) < MaxFrames
            /\ Writes(q, Frame("CONTINUE", fin, masked, NewBytes(q, n)))
            /\ sent' = [sent EXCEPT ![q] =
                    Append(Front(@), Slice(Last(@).opcode, fin, Last(@).data \o NewBytes(q, n)))]
    BY <1>5 DEF WriteFrame
  <2>2. /\ NewBytes(q, n) \in Seq(Nat) /\ masked \in BOOLEAN
        /\ q \notin Careless => masked = client_role[q]
    BY <1>0, NewBytesTyped
  <2>3. CASE \E opcode \in Opcodes :
                 /\ Writes(q, Frame(opcode, fin, masked, NewBytes(q, n)))
                 /\ sent' = [sent EXCEPT ![q] = Append(@, Slice(opcode, fin, NewBytes(q, n)))]
    <3>1. PICK opcode \in Opcodes :
                 /\ Writes(q, Frame(opcode, fin, masked, NewBytes(q, n)))
                 /\ sent' = [sent EXCEPT ![q] = Append(@, Slice(opcode, fin, NewBytes(q, n)))]
      BY <2>3
    <3>2. opcode \in {"TEXT", "BINARY"}
      BY WsAssumption
    <3> QED
      BY <1>1, <1>2, <2>0, <2>2, <3>1, <3>2
  <2>4. CASE /\ Open(q)
             /\ Writes(q, Frame("CONTINUE", fin, masked, NewBytes(q, n)))
             /\ sent' = [sent EXCEPT ![q] =
                    Append(Front(@), Slice(Last(@).opcode, fin, Last(@).data \o NewBytes(q, n)))]
    BY <1>1, <1>3, <2>0, <2>2, <2>4
  <2> QED
    BY <2>1, <2>3, <2>4
<1> QED
  BY <1>4, <1>5

(* A stream that is connected reads frames.                                 *)
LEMMA ConnectedRead ==
    ASSUME TypeOK, NEW p \in Peers, TextFree(Wire(p)), ReadChunk(p)
    PROVE  /\ Wire(p)' = Wire(p) /\ Wire(Other(p))' = Wire(Other(p))
           /\ UNCHANGED <<status, client_role, cache, sent, received, gone>>
<1>1. PICK b, rest : /\ Takes(p, b, rest)
                     /\ TakesFrames(p, b) \/ TakesText(p, b) \/ TakesBad(p, b) \/ TakesPart(p, b)
  BY ReadWays
<1>2. /\ b \in Seq(UnitType) /\ rest \in Seq(UnitType) /\ b # <<>> /\ b \o rest = Wire(p)
      /\ net'[p] = rest /\ buffer'[Other(p)] = buffer[Other(p)]
      /\ UNCHANGED <<client_role, cache, sent, received, gone>>
  BY <1>1 DEF Takes
<1>3. Head(b).frame.opcode \notin Texts
  <2>1. Head(b).frame.opcode \in OpcodesIn(b) /\ OpcodesIn(b \o rest) = OpcodesIn(b) \cup OpcodesIn(rest)
    BY <1>2, OpcodesConcat, OpcodesEnds
  <2> QED
    BY <1>2, <2>1 DEF TextFree
<1>4. buffer'[p] = b /\ net'[Other(p)] = net[Other(p)] /\ status' = status
  BY <1>1, <1>3 DEF TakesFrames, TakesText, TakesBad, TakesPart, Texts
<1> QED
  BY <1>2, <1>4 DEF Wire

(* What is behind the first frame in a buffer.                              *)
LEMMA BehindFrame ==
    ASSUME NEW b \in Seq(UnitType), Len(b) >= 2
    PROVE  /\ SubSeq(b, 3, Len(b)) \in Seq(UnitType) /\ Len(SubSeq(b, 3, Len(b))) = Len(b) - 2
           /\ \A i \in 1..Len(b) - 2 : SubSeq(b, 3, Len(b))[i] = b[i + 2]
<1> DEFINE n == Len(b)
<1>1. n \in Nat /\ n >= 2 /\ \A i \in 3..n : b[i] \in UnitType
  BY LenProperties, ElementOfSeq
<1> HIDE DEF n
<1>2. /\ SubSeq(b, 3, n) \in Seq(UnitType)
      /\ Len(SubSeq(b, 3, n)) = IF 3 <= n THEN n - 3 + 1 ELSE 0
      /\ \A i \in 1..n - 3 + 1 : SubSeq(b, 3, n)[i] = b[3 + i - 1]
  BY <1>1, SubSeqProperties
<1>3. Len(SubSeq(b, 3, n)) = n - 2
  BY <1>1, <1>2
<1>4. ASSUME NEW i \in 1..n - 2
      PROVE  SubSeq(b, 3, n)[i] = b[i + 2]
  <2>1. i \in 1..n - 3 + 1 /\ 3 + i - 1 = i + 2
    BY <1>1
  <2> QED
    BY <1>2, <2>1
<1> QED
  BY <1>2, <1>3, <1>4 DEF n

(* The rest of the way, when the first frame has been handled.              *)
LEMMA RestOfTheWay ==
    ASSUME NEW b \in Seq(UnitType), NEW w \in Seq(UnitType), Len(b) >= 2
    PROVE  /\ SubSeq(b, 3, Len(b)) \o w = SubSeq(b \o w, 3, Len(b \o w))
           /\ b \o w # <<>> /\ Head(b \o w) = Head(b)
<1> DEFINE a == b \o w
           s == SubSeq(b, 3, Len(b))
           t == SubSeq(a, 3, Len(a))
<1>1. /\ a \in Seq(UnitType) /\ Len(a) = Len(b) + Len(w) /\ Len(b) \in Nat /\ Len(w) \in Nat
      /\ \A i \in 1..Len(b) + Len(w) : a[i] = IF i <= Len(b) THEN b[i] ELSE w[i - Len(b)]
  BY ConcatProperties, LenProperties
<1>2. s \in Seq(UnitType) /\ Len(s) = Len(b) - 2 /\ \A i \in 1..Len(b) - 2 : s[i] = b[i + 2]
  BY BehindFrame
<1>3. t \in Seq(UnitType) /\ Len(t) = Len(a) - 2 /\ \A i \in 1..Len(a) - 2 : t[i] = a[i + 2]
  <2> HIDE DEF a
  <2>1. a \in Seq(UnitType) /\ Len(a) >= 2
    BY <1>1
  <2> QED
    BY <2>1, BehindFrame
<1> HIDE DEF a, s, t
<1>4. /\ s \o w \in Seq(UnitType) /\ Len(s \o w) = Len(s) + Len(w)
      /\ \A i \in 1..Len(s) + Len(w) : (s \o w)[i] = IF i <= Len(s) THEN s[i] ELSE w[i - Len(s)]
  BY <1>2, ConcatProperties
<1>5. Len(s \o w) = Len(t)
  BY <1>1, <1>2, <1>3, <1>4
<1>6. ASSUME NEW i \in 1..Len(s \o w)
      PROVE  (s \o w)[i] = t[i]
  <2>1. i \in 1..Len(a) - 2 /\ i + 2 \in 1..Len(b) + Len(w) /\ t[i] = a[i + 2]
    BY <1>1, <1>2, <1>3, <1>4
  <2>2. CASE i <= Len(s)
    <3>1. i + 2 <= Len(b) /\ i \in 1..Len(b) - 2
      BY <1>1, <1>2, <2>2
    <3> QED
      BY <1>1, <1>2, <1>4, <2>1, <2>2, <3>1
  <2>3. CASE ~(i <= Len(s))
    <3>1. ~(i + 2 <= Len(b)) /\ (i + 2) - Len(b) = i - Len(s)
      BY <1>1, <1>2, <2>3
    <3> QED
      BY <1>1, <1>4, <2>1, <2>3, <3>1
  <2> QED
    BY <2>2, <2>3
<1>7. s \o w = t
  BY <1>3, <1>4, <1>5, <1>6, SeqEqual
<1>8. a # <<>> /\ b # <<>> /\ Head(a) = Head(b)
  <2>1. a # <<>> /\ b # <<>>
    BY <1>1, EmptySeq
  <2>2. Head(a) = a[1] /\ Head(b) = b[1]
    BY <1>1, <2>1, OpcodesEnds
  <2>3. a[1] = b[1]
    BY <1>1
  <2> QED
    BY <2>1, <2>2, <2>3
<1> QED
  BY <1>7, <1>8 DEF a, s, t

(* What the application of p does besides reading messages and frames.      *)
LEMMA QuietSteps ==
    ASSUME TypeOK, NEW p \in Peers, status[p] # "INIT", client_role[Client], TextFree(Wire(p)),
           \/ Connect(p) \/ WriteText(p) \/ Write(p) \/ WriteFrame(p) \/ Disconnect(p)
           \/ ReadChunk(p) \/ ReadFrameTooLong(p) \/ ReadNothing(p) \/ ReadZero(p) \/ DoTime(p),
           status[Other(p)] # "INIT"
    PROVE  /\ Wire(p)' = Wire(p) /\ UNCHANGED <<client_role, received, cache, gone>>
           /\ sent'[Other(p)] = sent[Other(p)] /\ status'[Other(p)] = status[Other(p)]
<1>1. Other(p) \in Peers /\ Other(p) # p
  BY OtherPeer
<1>2. ~Connect(p) /\ ~WriteText(p)
  BY <1>1 DEF Connect, WriteText
<1>3. CASE Write(p) \/ WriteFrame(p) \/ Disconnect(p) \/ DoTime(p)
  <2>1. /\ UNCHANGED <<buffer, client_role>>
        /\ net' = net \/ \E f \in FrameType : f.opcode \in Later /\ Writes(p, f)
    BY <1>1, <1>3, CallWrites
  <2>2. Wire(p)' = Wire(p)
    BY <1>1, <2>1, WireWritten DEF Wire
  <2>3. UNCHANGED <<received, cache, gone>>
    BY <1>3 DEF Write, WriteFrame, Disconnect, DoTime, appVars
  <2>4. sent'[Other(p)] = sent[Other(p)]
    BY <1>1, <1>3 DEF Write, WriteFrame, Disconnect, DoTime, appVars, TypeOK
  <2>5. status'[Other(p)] = status[Other(p)]
    BY <1>1, <1>3 DEF Write, WriteFrame, Disconnect, DoTime, TypeOK
  <2> QED
    BY <2>1, <2>2, <2>3, <2>4, <2>5
<1>4. CASE ReadChunk(p)
  BY <1>4, ConnectedRead
<1>5. CASE ReadFrameTooLong(p) \/ ReadNothing(p) \/ ReadZero(p)
  <2>1. UNCHANGED <<status, buffer, net, client_role, cache, sent, received, gone>>
    BY <1>5 DEF ReadFrameTooLong, ReadNothing, ReadZero, appVars
  <2> QED
    BY <2>1 DEF Wire
<1> QED
  BY <1>2, <1>3, <1>4, <1>5

(* The handler takes the first frame of the way to p.                       *)
LEMMA FrameTaken ==
    ASSUME TypeOK, NEW p \in Peers, HandleReceivedFrame(p)
    PROVE  /\ gone[p] = "no" /\ Head(buffer[p]).frame \in FrameType
           /\ Wire(p)' = SubSeq(Wire(p), 3, Len(Wire(p))) /\ Wire(p) # <<>>
           /\ Head(Wire(p)) = Head(buffer[p])
           /\ UNCHANGED <<client_role, sent, received, gone>>
           /\ Broken(p) => Broken(p)'
<1> DEFINE b == buffer[p]
           f == Head(b).frame
           rest == SubSeq(b, 3, Len(b))
           q == Other(p)
<1>1. q \in Peers /\ q # p
  BY OtherPeer
<1>2. /\ gone[p] = "no" /\ HasFrame(b) /\ buffer'[p] = rest /\ net'[p] = net[p]
      /\ OpcodesIn(Wire(p)') \subseteq OpcodesIn(Wire(p))
  BY <1>1, HandlingWays
<1>3. UNCHANGED <<client_role, sent, received, gone>> /\ status'[q] = status[q]
  BY <1>1 DEF HandleReceivedFrame, CloseIfMasked, appVars, TypeOK
<1>4. b \in Seq(UnitType) /\ net[p] \in Seq(UnitType) /\ Len(b) >= 2 /\ b # <<>> /\ f \in FrameType
  BY <1>1, <1>2, FirstFrame DEF TypeOK, HasFrame
<1>5. /\ Wire(p)' = SubSeq(Wire(p), 3, Len(Wire(p))) /\ Wire(p) # <<>> /\ Head(Wire(p)) = Head(b)
  <2> DEFINE w == net[p]
  <2>1. w \in Seq(UnitType) /\ Wire(p) = b \o w /\ Wire(p)' = rest \o w
    BY <1>2, <1>4 DEF Wire
  <2> HIDE DEF w, b
  <2> QED
    BY <1>4, <2>1, RestOfTheWay
<1>6. ASSUME Broken(p)
      PROVE  Broken(p)'
  <2>1. f.opcode \notin Data
    <3>1. f.opcode \in OpcodesIn(Wire(p))
      BY <1>5, WireTyped, OpcodesEnds
    <3> QED
      BY <1>6, <3>1 DEF Broken, DataFree
  <2>2. cache' = cache
    BY <2>1 DEF HandleReceivedFrame, Data, ReceiveMessage, ReceiveContinue, ReceivePing,
                      ReceivePong, ReceiveClose
  <2> QED
    BY <1>2, <1>3, <1>6, <2>2 DEF Broken, DataFree
<1> QED
  BY <1>2, <1>3, <1>4, <1>5, <1>6

(* A step of the application of p, whose messages are on their way.         *)
LEMMA ReaderSteps ==
    ASSUME TypeOK, HandInv, Next, status[Client] # "INIT",
           NEW p \in Peers \ ByteReaders, Delivered(p), OnTheWay(p),
           \/ Connect(p) \/ WriteText(p) \/ Write(p) \/ WriteFrame(p) \/ Disconnect(p)
           \/ ReadChunk(p) \/ HandleReceivedFrame(p)
           \/ ReadBytes(p) \/ ReadFrame(p) \/ ReadFrameTooLong(p) \/ ReadNothing(p) \/ ReadZero(p)
           \/ DoTime(p) \/ Close(p) \/ Crash(p)
    PROVE  Delivered(p)' /\ OnTheWay(p)'
<1> DEFINE q == Other(p)
           r == received[p]
           c == cache[p]
           t == sent[q]
           m == Allowed(p)
<1>1. p \in Peers /\ q \in Peers /\ q # p
  BY OtherPeer
<1>2. /\ status[p] # "INIT" /\ status[q] # "INIT" /\ client_role[Client]
      /\ TextFree(Wire(p)) /\ client_role' = client_role
  <2>1. /\ status[Server] # "INIT" /\ client_role[Client] /\ client_role' = client_role
        /\ \A s \in Peers : TextFree(Wire(s))
    BY ConnectedStep DEF HandInv, Roles, Connected
  <2> QED
    BY <1>1, <2>1 DEF Peers
<1>3. /\ r \in Seq(SliceType) /\ c \in Seq(SliceType) /\ r \o c \in Seq(SliceType) /\ t \in Seq(SliceType)
      /\ Wire(p) \in Seq(UnitType)
  BY <1>1, SlicesTyped
<1>4. Allowed(p)' = m
  BY <1>2 DEF Allowed
<1>5. CASE \/ Connect(p) \/ WriteText(p) \/ Write(p) \/ WriteFrame(p) \/ Disconnect(p)
           \/ ReadChunk(p) \/ ReadFrameTooLong(p) \/ ReadNothing(p) \/ ReadZero(p) \/ DoTime(p)
  <2>1. /\ Wire(p)' = Wire(p) /\ UNCHANGED <<client_role, received, cache, gone>>
        /\ sent'[q] = sent[q] /\ status'[q] = status[q]
    BY <1>1, <1>2, <1>5, QuietSteps
  <2> QED
    BY <1>1, <2>1, NothingHappens
<1>6. CASE HandleReceivedFrame(p)
  <2> DEFINE f == Head(buffer[p]).frame
             w == Wire(p)
             s == r \o c
  <2>1. /\ gone[p] = "no" /\ Wire(p)' = SubSeq(w, 3, Len(w)) /\ w # <<>> /\ Head(w).frame = f
        /\ UNCHANGED <<client_role, sent, received, gone>>
        /\ Broken(p) => Broken(p)'
    BY <1>1, <1>6, FrameTaken
  <2>2. Delivered(p)' /\ \A k \in 1..Len(r) : r[k].fin
    BY <2>1 DEF Delivered
  <2>3. Broken(p) \/ Carries(w, s, t, m)
    BY <2>1 DEF OnTheWay, Under
  <2>4. CASE Broken(p)
    BY <2>1, <2>2, <2>4 DEF OnTheWay, Under
  <2>5. CASE Carries(w, s, t, m)
    <3>1. w \in Seq(UnitType) /\ s \in Seq(SliceType)
      BY <1>3
    <3> HIDE DEF w, s, t, m, f
    <3>2. PICK u \in Seq(SliceType) :
             /\ Effect(Head(w).frame, s, u)
             /\ Head(w).frame.opcode \in Data => Head(w).frame \in m
             /\ Carries(SubSeq(w, 3, Len(w)), u, t, m)
      BY <1>3, <2>1, <2>5, <3>1, CarriesLess
    <3>3. Effect(f, s, u) /\ (f.opcode \in Data => f \in m) /\ Carries(Wire(p)', u, t, m)
      BY <2>1, <3>2
    <3>4. received[p] \o cache'[p] = u
      BY <1>1, <1>6, <2>2, <3>3, HandledEffect DEF f, s, m
    <3>5. Carries(Wire(p)', received'[p] \o cache'[p], sent'[q], Allowed(p)')
      BY <1>4, <2>1, <3>3, <3>4 DEF t
    <3> QED
      BY <2>2, <3>5 DEF OnTheWay, Under
  <2> QED
    BY <2>3, <2>4, <2>5
<1>7. CASE ReadFrame(p)
  <2>1. /\ gone[p] = "no" /\ HasMessage(p)
        /\ received' = [received EXCEPT ![p] = Append(@, Head(cache[p]))]
        /\ cache' = [cache EXCEPT ![p] = Tail(@)]
        /\ UNCHANGED <<status, buffer, net, sent, gone>>
    BY <1>7 DEF ReadFrame, Callable
  <2>2. received'[p] = Append(r, Head(c)) /\ cache'[p] = Tail(c) /\ c # <<>> /\ Head(c).fin
    BY <1>1, <2>1 DEF TypeOK, HasMessage
  <2>3. Carries(Wire(p), r \o c, t, m)
    BY <2>1, <2>2 DEF OnTheWay, Under, Broken
  <2>4. Wire(p)' = Wire(p)
    BY <2>1 DEF Wire
  <2> HIDE DEF r, c, t, m
  <2>5. Head(c) \in SliceType
    BY <1>3, <2>2, HeadTyped
  <2>6. Append(r, Head(c)) \o Tail(c) = r \o c
    BY <1>3, <2>2, <2>5, BehindTheRead
  <2>7. OnTheWay(p)'
    <3>1. Carries(Wire(p)', received'[p] \o cache'[p], sent'[q], Allowed(p)')
      BY <1>4, <2>1, <2>2, <2>3, <2>4, <2>6 DEF t
    <3> QED
      BY <3>1 DEF OnTheWay, Under
  <2> DEFINE g == Append(r, Head(c))
  <2>8. /\ g \in Seq(SliceType) /\ Len(g) = Len(r) + 1 /\ g[Len(r) + 1] = Head(c)
        /\ \A k \in 1..Len(r) : g[k] = r[k]
    BY <1>3, <2>5, AppendProperties
  <2>9. Settled(r \o c, t)
    <3> DEFINE s == r \o c
    <3>1. s \in Seq(SliceType) /\ Carries(Wire(p), s, t, m)
      BY <1>3, <2>3
    <3> HIDE DEF s
    <3>2. Settled(s, t)
      BY <1>3, <3>1, CarriesSettled
    <3> QED
      BY <3>2 DEF s
  <2>10. /\ Len(r) + 1 <= Len(r \o c) /\ Len(r) \in Nat /\ Len(t) \in Nat /\ Len(r \o c) \in Nat
         /\ \A k \in 1..Len(r) + 1 : (r \o c)[k] = g[k] /\ k \in 1..Len(r \o c)
    <3>1. /\ Tail(c) \in Seq(SliceType) /\ g \o Tail(c) = r \o c
      BY <1>3, <2>2, <2>6, HeadTyped
    <3> HIDE DEF g
    <3>2. /\ Len(g \o Tail(c)) = Len(g) + Len(Tail(c))
          /\ \A k \in 1..Len(g) + Len(Tail(c)) : k <= Len(g) => (g \o Tail(c))[k] = g[k]
          /\ Len(g) \in Nat /\ Len(Tail(c)) \in Nat
      BY <2>8, <3>1, ConcatProperties, LenProperties
    <3>3. Len(r) \in Nat /\ Len(t) \in Nat
      BY <1>3, LenProperties
    <3> QED
      BY <2>8, <3>1, <3>2, <3>3
  <2>11. \A k \in 1..Len(r) : r[k].fin
    BY DEF Delivered, r
  <2> HIDE DEF g
  <2>12. \A k \in 1..Len(r) + 1 : g[k].fin
    <3> SUFFICES ASSUME NEW k \in 1..Len(r) + 1
                 PROVE  g[k].fin
      OBVIOUS
    <3>1. k \in 1..Len(r) \/ k = Len(r) + 1
      BY <2>10
    <3> QED
      BY <2>2, <2>8, <2>11, <3>1
  <2>13. Settled(g, t)
    <3>1. Len(r) + 1 <= Len(t)
      BY <2>9, <2>10 DEF Settled
    <3>2. ASSUME NEW k \in 1..Len(r) + 1, g[k].fin
          PROVE  t[k] = g[k]
      BY <2>9, <2>10, <3>2 DEF Settled
    <3> QED
      BY <2>8, <3>1, <3>2 DEF Settled
  <2>14. Delivered(p)'
    <3>1. received'[p] = g /\ sent'[q] = t
      BY <2>1, <2>2 DEF g, t
    <3> QED
      BY <2>8, <2>12, <2>13, <3>1 DEF Delivered
  <2> QED
    BY <2>7, <2>14
<1>8. ~ReadBytes(p)
  BY DEF ReadBytes
<1>9. CASE Close(p) \/ Crash(p)
  <2>1. UNCHANGED <<sent, received>> /\ gone'[p] # "no"
    BY <1>1, <1>9 DEF Close, Crash, TypeOK
  <2> QED
    BY <2>1 DEF Delivered, OnTheWay, Under
<1> QED
  BY <1>5, <1>6, <1>7, <1>8, <1>9

(* Two frames at the end of the way.                                        *)
LEMMA FourParts ==
    ASSUME NEW a \in Seq(UnitType), NEW d \in Seq(UnitType), NEW x \in Seq(UnitType), NEW y \in Seq(UnitType)
    PROVE  /\ a \o (d \o (x \o y)) = ((a \o d) \o x) \o y
           /\ (a \o d) \o x \in Seq(UnitType)
<1> DEFINE g == d \o x
<1>1. /\ (d \o x) \o y = d \o (x \o y)
      /\ d \o x \in Seq(UnitType) /\ d \o (x \o y) \in Seq(UnitType)
  BY UnitsAssociate
<1>2. /\ (a \o d) \o x = a \o (d \o x)
      /\ a \o d \in Seq(UnitType) /\ a \o (d \o x) \in Seq(UnitType)
  BY UnitsAssociate
<1>3. g \in Seq(UnitType)
  BY <1>1
<1> HIDE DEF g
<1>4. /\ (a \o g) \o y = a \o (g \o y)
      /\ a \o g \in Seq(UnitType) /\ a \o (g \o y) \in Seq(UnitType)
  BY <1>3, UnitsAssociate
<1>5. a \o (d \o (x \o y)) = a \o (g \o y)
  BY <1>1 DEF g
<1>6. (a \o g) \o y = ((a \o d) \o x) \o y
  BY <1>2 DEF g
<1>7. (a \o d) \o x \in Seq(UnitType)
  BY <1>2
<1> QED
  BY <1>4, <1>5, <1>6, <1>7

(* Two frames written behind what is under way.                             *)
LEMMA WireAnswered ==
    ASSUME TypeOK, NEW p \in Peers, NEW x \in Seq(UnitType), NEW y \in Seq(UnitType),
           buffer'[p] = buffer[p], net'[p] = net[p] \o (x \o y)
    PROVE  /\ Wire(p)' = (Wire(p) \o x) \o y
           /\ Wire(p) \o x \in Seq(UnitType)
<1> DEFINE a == buffer[p]
           d == net[p]
<1>1. a \in Seq(UnitType) /\ d \in Seq(UnitType)
  BY DEF TypeOK
<1>2. Wire(p)' = a \o (d \o (x \o y)) /\ Wire(p) = a \o d
  BY DEF Wire
<1> HIDE DEF a, d
<1>3. a \o (d \o (x \o y)) = ((a \o d) \o x) \o y /\ (a \o d) \o x \in Seq(UnitType)
  BY <1>1, FourParts
<1> QED
  BY <1>2, <1>3

(* A step of the other side, which writes what is on the way.               *)
LEMMA WriterWay ==
    ASSUME TypeOK, HandInv, Next, status[Client] # "INIT", Server \notin Careless,
           NEW p \in Peers, NEW s \in Seq(SliceType), Under(p, s), NEW q, q = Other(p),
           p \in ByteReaders => q \notin Fragmenters,
           \/ Connect(q) \/ WriteText(q) \/ Write(q) \/ WriteFrame(q) \/ Disconnect(q)
           \/ ReadChunk(q) \/ HandleReceivedFrame(q)
           \/ ReadBytes(q) \/ ReadFrame(q) \/ ReadFrameTooLong(q) \/ ReadNothing(q) \/ ReadZero(q)
           \/ DoTime(q) \/ Close(q) \/ Crash(q)
    PROVE  Under(p, s)'
<1> DEFINE t == sent[q]
           m == Allowed(p)
           w == Wire(p)
<1>1. p \in Peers /\ q \in Peers /\ q # p /\ Other(q) = p
  BY OtherPeer
<1>2. /\ status[p] # "INIT" /\ status[q] # "INIT" /\ client_role[Client] /\ ~client_role[Server]
      /\ TextFree(Wire(q)) /\ client_role' = client_role
  <2>1. /\ status[Server] # "INIT" /\ client_role[Client] /\ client_role' = client_role
        /\ ~client_role[Server] /\ \A x \in Peers : TextFree(Wire(x))
    BY ConnectedStep DEF HandInv, Roles, Connected
  <2> QED
    BY <1>1, <2>1 DEF Peers
<1>3. t \in Seq(SliceType) /\ w \in Seq(UnitType)
  BY <1>1, SlicesTyped
<1>13. Allowed(p)' = m
  BY <1>2 DEF Allowed
<1>4. ~Connect(q) /\ ~WriteText(q)
  BY <1>1, <1>2 DEF Connect, WriteText
<1>5. ASSUME UNCHANGED <<buffer, cache, received, gone>>, sent'[q] = sent[q],
             NEW f \in FrameType, f.opcode \in {"CLOSE", "PING"}, Writes(q, f),
             status[q] = "CLOSING" => status'[q] = "CLOSING"
      PROVE  Under(p, s)'
  <2>1. /\ gone[p] # "no" => Wire(p)' = w
        /\ gone[p] = "no" => Wire(p)' = w \o Units(f)
        /\ OpcodesIn(Wire(p)') \subseteq OpcodesIn(w) \cup {f.opcode}
    BY <1>1, <1>5, WireWritten
  <2>3. CASE gone[p] # "no"
    BY <1>5, <2>3 DEF Under
  <2>4. CASE Broken(p)
    <3>1. Broken(p)'
      BY <1>5, <2>1, <2>4 DEF Broken, DataFree, Data
    <3> QED
      BY <3>1 DEF Under
  <2>5. CASE gone[p] = "no" /\ Carries(w, s, t, m)
    <3>1. Carries(w, s, t, m) /\ f.opcode \notin Texts /\ f.opcode \notin Data
      BY <1>3, <1>5, <2>5 DEF Texts, Data
    <3> HIDE DEF t, m, w
    <3>2. Carries(w \o Units(f), s, t, m)
      BY <1>3, <1>5, <3>1, ControlOnTheWay
    <3>3. Carries(Wire(p)', s, sent'[q], Allowed(p)')
      BY <1>5, <1>13, <2>1, <2>5, <3>2 DEF t
    <3> QED
      BY <3>3 DEF Under
  <2> QED
    BY <2>3, <2>4, <2>5 DEF Under
<1>6. CASE Write(q) \/ WriteFrame(q)
  <2>1. /\ status[q] = "READY" /\ sent'[q] \in Seq(SliceType)
        /\ UNCHANGED <<status, buffer, client_role, cache, received, gone>>
    BY <1>1, <1>6, WriteEffect
  <2>2. PICK f \in FrameType :
          /\ f.opcode \in Data /\ Writes(q, f) /\ Effect(f, sent[q], sent'[q])
          /\ q \notin Careless => f.masked = client_role[q]
          /\ q \notin Fragmenters => f.fin /\ f.opcode # "CONTINUE"
    BY <1>1, <1>6, WriteEffect
  <2> DEFINE u == sent'[q]
  <2>4. CASE gone[p] # "no"
    BY <2>1, <2>4 DEF Under
  <2>5. CASE gone[p] = "no"
    <3>1. Carries(w, s, t, m)
      BY <2>1, <2>5 DEF Under, Broken
    <3>2. Wire(p)' = w \o Units(f)
      <4>1. f \in FrameType /\ Writes(q, f) /\ UNCHANGED buffer
        BY <2>1, <2>2
      <4>2. gone[Other(q)] = "no" => Wire(Other(q))' = Wire(Other(q)) \o Units(f)
        BY <1>1, <4>1, WireWritten
      <4>3. Other(q) = p
        BY <1>1
      <4> HIDE DEF w
      <4> QED
        BY <2>5, <4>2, <4>3 DEF w
    <3>3. f \in m
      <4>1. CASE p = Client
        <5>1. q = Server
          BY <4>1, OtherPeer
        <5> QED
          BY <1>2, <2>2, <5>1 DEF Allowed
      <4>2. CASE p = Server
        BY <1>2, <2>2, <4>2 DEF Allowed
      <4> QED
        BY <4>1, <4>2 DEF Peers
    <3>4. u \in Seq(SliceType) /\ Effect(f, t, u) /\ f.opcode \notin Texts
      BY <2>1, <2>2 DEF Texts, Data
    <3> HIDE DEF t, m, w, u
    <3>5. Carries(w \o Units(f), s, u, m)
      BY <1>3, <2>2, <3>1, <3>3, <3>4, CarriesMore
    <3>6. Carries(Wire(p)', s, sent'[q], Allowed(p)')
      BY <1>13, <3>2, <3>5 DEF u
    <3> QED
      BY <3>6 DEF Under
  <2> QED
    BY <2>4, <2>5
<1>7. CASE Disconnect(q)
  <2>1. /\ Writes(q, Control("CLOSE", client_role[q])) /\ status' = [status EXCEPT ![q] = "CLOSING"]
        /\ UNCHANGED <<buffer, cache, received, gone, sent>>
    BY <1>7 DEF Disconnect, appVars
  <2>2. status'[q] = "CLOSING"
    BY <1>1, <2>1 DEF TypeOK
  <2> DEFINE f == Control("CLOSE", client_role[q])
  <2>3. f \in FrameType /\ f.opcode = "CLOSE"
    <3>1. client_role[q] \in BOOLEAN
      BY <1>1 DEF TypeOK
    <3> QED
      BY <3>1, ControlTyped DEF Control, Frame
  <2>4. Writes(q, f)
    BY <2>1
  <2> HIDE DEF f
  <2> QED
    BY <1>5, <2>1, <2>2, <2>3, <2>4
<1>8. CASE DoTime(q)
  <2>1. UNCHANGED <<buffer, cache, received, gone, sent>>
    BY <1>8 DEF DoTime, appVars
  <2>2. CASE PingDue(q)
    <3> DEFINE f == Control("PING", TRUE)
    <3>1. Writes(q, f) /\ status' = status
      BY <1>8, <2>2 DEF DoTime
    <3>2. f \in FrameType /\ f.opcode = "PING"
      BY ControlTyped DEF Control, Frame
    <3> HIDE DEF f
    <3> QED
      BY <1>5, <2>1, <3>1, <3>2
  <2>3. CASE ~PingDue(q)
    <3>1. net' = net /\ status' = [status EXCEPT ![q] = "CLOSING"]
      BY <1>8, <2>3 DEF DoTime
    <3>2. Wire(p)' = Wire(p) /\ status'[q] = "CLOSING"
      BY <1>1, <2>1, <3>1 DEF Wire, TypeOK
    <3> QED
      BY <1>1, <1>2, <2>1, <3>2, NothingOnTheWay
  <2> QED
    BY <2>2, <2>3
<1>9. CASE ReadChunk(q)
  <2>1. /\ Wire(p)' = Wire(p)
        /\ UNCHANGED <<status, client_role, cache, sent, received, gone>>
    BY <1>1, <1>2, <1>9, ConnectedRead
  <2> QED
    BY <1>1, <2>1, NothingOnTheWay
<1>10. CASE HandleReceivedFrame(q)
  <2> DEFINE f == Head(buffer[q]).frame
  <2>1. /\ buffer'[p] = buffer[p] /\ f \in FrameType
        /\ UNCHANGED <<sent, received, gone>>
        /\ Replies(q, f)
    BY <1>1, <1>10, HandlingWays DEF HandleReceivedFrame, appVars
  <2>2. cache'[p] = cache[p]
    BY <1>1, <1>10 DEF HandleReceivedFrame, ReceiveMessage, ReceiveContinue, ReceivePing, ReceivePong,
                       ReceiveClose, TypeOK
  <2>3. status[q] = "CLOSING" => status'[q] = "CLOSING"
    BY <1>1, <1>10 DEF HandleReceivedFrame, CloseIfMasked, TypeOK
  <2> HIDE DEF f
  <2> DEFINE close == Control("CLOSE", TRUE)
             pong == Control("PONG", client_role[q])
  <2>4. /\ close \in FrameType /\ close.opcode = "CLOSE"
        /\ pong \in FrameType /\ pong.opcode = "PONG"
    <3>1. client_role[q] \in BOOLEAN
      BY <1>1 DEF TypeOK
    <3> QED
      BY <3>1, ControlTyped DEF Control, Frame
  <2>5. PICK x \in {<<>>, Units(close)}, y \in {<<>>, Units(pong)} :
           /\ x \in Seq(UnitType) /\ y \in Seq(UnitType)
           /\ net'[p] = IF gone[p] = "no" THEN net[p] \o (x \o y) ELSE net[p]
    BY <1>1, <2>1, RepliesUnits
  <2> HIDE DEF close, pong
  <2>7. CASE gone[p] # "no"
    BY <2>1, <2>7 DEF Under
  <2>8. CASE gone[p] = "no"
    <3>1. Wire(p)' = (w \o x) \o y /\ w \o x \in Seq(UnitType)
      <4>1. x \in Seq(UnitType) /\ y \in Seq(UnitType) /\ net'[p] = net[p] \o (x \o y)
        BY <2>5, <2>8
      <4>2. buffer'[p] = buffer[p]
        BY <2>1
      <4> QED
        BY <1>1, <4>1, <4>2, WireAnswered
    <3>2. CASE Broken(p)
      <4>1. OpcodesIn(x) \subseteq {"CLOSE"} /\ OpcodesIn(y) \subseteq {"PONG"}
        BY <2>4, <2>5, OpcodesOfFrame
      <4>2. OpcodesIn(Wire(p)') = (OpcodesIn(w) \cup OpcodesIn(x)) \cup OpcodesIn(y)
        <5>1. OpcodesIn(w \o x) = OpcodesIn(w) \cup OpcodesIn(x)
          BY <1>3, <2>5, OpcodesConcat
        <5> DEFINE v == w \o x
        <5>2. v \in Seq(UnitType)
          BY <3>1
        <5> HIDE DEF v
        <5>3. OpcodesIn(v \o y) = OpcodesIn(v) \cup OpcodesIn(y)
          BY <2>5, <5>2, OpcodesConcat
        <5> QED
          BY <3>1, <5>1, <5>3 DEF v
      <4>3. DataFree(Wire(p)')
        BY <3>2, <4>1, <4>2 DEF Broken, DataFree, Data
      <4>4. Broken(p)'
        BY <2>1, <2>2, <2>3, <3>2, <4>3 DEF Broken
      <4> QED
        BY <4>4 DEF Under
    <3>3. CASE Carries(w, s, t, m)
      <4> DEFINE v == w \o x
      <4>1. Carries(w, s, t, m) /\ v \in Seq(UnitType)
        BY <1>3, <3>1, <3>3
      <4>2. /\ close.opcode \notin Texts /\ close.opcode \notin Data
            /\ pong.opcode \notin Texts /\ pong.opcode \notin Data
        BY <2>4 DEF Texts, Data
      <4> HIDE DEF t, m, w
      <4>3. Carries(v, s, t, m)
        <5>1. CASE x = <<>>
          <6>1. v = w
            BY <1>3, <5>1, ConcatEmptySeq
          <6> QED
            BY <4>1, <6>1
        <5>2. CASE x = Units(close)
          BY <1>3, <2>4, <4>1, <4>2, <5>2, ControlOnTheWay
        <5> QED
          BY <2>5, <5>1, <5>2
      <4> HIDE DEF v
      <4>4. Carries(v \o y, s, t, m)
        <5>1. CASE y = <<>>
          <6>1. v \o y = v
            BY <4>1, <5>1, ConcatEmptySeq
          <6> QED
            BY <4>3, <6>1
        <5>2. CASE y = Units(pong)
          BY <1>3, <2>4, <4>1, <4>2, <4>3, <5>2, ControlOnTheWay
        <5> QED
          BY <2>5, <5>1, <5>2
      <4>5. Carries(Wire(p)', s, sent'[q], Allowed(p)')
        BY <1>13, <2>1, <3>1, <4>4 DEF t, v
      <4> QED
        BY <4>5 DEF Under
    <3> QED
      BY <2>8, <3>2, <3>3 DEF Under
  <2> QED
    BY <2>7, <2>8
<1>11. CASE ReadBytes(q) \/ ReadFrame(q) \/ ReadFrameTooLong(q) \/ ReadNothing(q) \/ ReadZero(q)
  <2>1. UNCHANGED <<status, buffer, net, client_role, sent, gone>>
    BY <1>11 DEF ReadBytes, ReadFrame, ReadFrameTooLong, ReadNothing, ReadZero, appVars
  <2>2. received'[p] = received[p] /\ cache'[p] = cache[p]
    BY <1>1, <1>11 DEF ReadBytes, ReadFrame, ReadFrameTooLong, ReadNothing, ReadZero, appVars, TypeOK
  <2>3. Wire(p)' = Wire(p)
    BY <2>1 DEF Wire
  <2> QED
    BY <1>1, <2>1, <2>2, <2>3, NothingOnTheWay
<1>12. CASE Close(q) \/ Crash(q)
  <2>1. UNCHANGED <<status, buffer, client_role, cache, sent, received>>
    BY <1>12 DEF Close, Crash
  <2>2. net'[p] = net[p] /\ gone'[p] = gone[p]
    BY <1>1, <1>12 DEF Close, Crash, TypeOK
  <2>3. Wire(p)' = Wire(p)
    BY <2>1, <2>2 DEF Wire
  <2> QED
    BY <1>1, <2>1, <2>2, <2>3, NothingOnTheWay
<1> QED
  BY <1>4, <1>6, <1>7, <1>8, <1>9, <1>10, <1>11, <1>12


(* It leaves what p has alone, and writes messages with two calls only.     *)
LEMMA WriterLeaves ==
    ASSUME TypeOK, NEW q \in Peers,
           \/ Connect(q) \/ WriteText(q) \/ Write(q) \/ WriteFrame(q) \/ Disconnect(q)
           \/ ReadChunk(q) \/ HandleReceivedFrame(q)
           \/ ReadBytes(q) \/ ReadFrame(q) \/ ReadFrameTooLong(q) \/ ReadNothing(q) \/ ReadZero(q)
           \/ DoTime(q) \/ Close(q) \/ Crash(q)
    PROVE  /\ received'[Other(q)] = received[Other(q)] /\ cache'[Other(q)] = cache[Other(q)]
           /\ sent'[Other(q)] = sent[Other(q)]
           /\ Write(q) \/ WriteFrame(q) \/ sent' = sent
<1>1. Other(q) \in Peers /\ Other(q) # q
  BY OtherPeer
<1>2. CASE Connect(q) \/ WriteText(q) \/ Disconnect(q) \/ DoTime(q) \/ Close(q) \/ Crash(q)
           \/ ReadFrameTooLong(q) \/ ReadNothing(q) \/ ReadZero(q)
  BY <1>2 DEF Connect, WriteText, Disconnect, DoTime, Close, Crash, ReadFrameTooLong, ReadNothing,
              ReadZero, appVars
<1>3. CASE Write(q) \/ WriteFrame(q)
  BY <1>1, <1>3 DEF Write, WriteFrame, TypeOK
<1>4. CASE ReadChunk(q)
  BY <1>4 DEF ReadChunk
<1>5. CASE HandleReceivedFrame(q)
  BY <1>1, <1>5 DEF HandleReceivedFrame, ReceiveMessage, ReceiveContinue, ReceivePing, ReceivePong,
                    ReceiveClose, appVars, TypeOK
<1>6. CASE ReadBytes(q) \/ ReadFrame(q)
  BY <1>1, <1>6 DEF ReadBytes, ReadFrame, TypeOK
<1> QED
  BY <1>2, <1>3, <1>4, <1>5, <1>6

(* So the messages that are on their way to p still are.                    *)
LEMMA WriterSteps ==
    ASSUME TypeOK, HandInv, Next, status[Client] # "INIT", Server \notin Careless,
           NEW p \in Peers \ ByteReaders, Delivered(p), OnTheWay(p), NEW q, q = Other(p),
           \/ Connect(q) \/ WriteText(q) \/ Write(q) \/ WriteFrame(q) \/ Disconnect(q)
           \/ ReadChunk(q) \/ HandleReceivedFrame(q)
           \/ ReadBytes(q) \/ ReadFrame(q) \/ ReadFrameTooLong(q) \/ ReadNothing(q) \/ ReadZero(q)
           \/ DoTime(q) \/ Close(q) \/ Crash(q)
    PROVE  Delivered(p)' /\ OnTheWay(p)'
<1>1. p \in Peers /\ q \in Peers /\ Other(q) = p
  BY OtherPeer
<1>2. /\ received'[p] = received[p] /\ cache'[p] = cache[p]
      /\ Write(q) \/ WriteFrame(q) \/ sent' = sent
  BY <1>1, WriterLeaves
<1>3. OnTheWay(p)'
  <2>1. PICK s \in Seq(SliceType) : s = received[p] \o cache[p]
    BY <1>1, SlicesTyped
  <2>2. Under(p, s)
    BY <2>1 DEF OnTheWay
  <2>3. Under(p, s)'
    BY <1>1, <2>2, WriterWay
  <2>4. received'[p] \o cache'[p] = s
    BY <1>2, <2>1
  <2> QED
    BY <2>3, <2>4 DEF OnTheWay, Under
<1>4. Delivered(p)'
  <2>1. CASE sent' = sent
    BY <1>2, <2>1 DEF Delivered
  <2>2. CASE Write(q) \/ WriteFrame(q)
    <3> DEFINE r == received[p]
               t == sent[q]
               u == sent'[q]
    <3>1. PICK f \in FrameType : Effect(f, t, u)
      BY <1>1, <2>2, WriteEffect
    <3>2. r \in Seq(SliceType) /\ t \in Seq(SliceType) /\ u \in Seq(SliceType) /\ Settled(r, t)
      BY <1>1, <2>2, SlicesTyped, WriteEffect DEF Delivered
    <3> HIDE DEF r, t, u
    <3>3. Settled(r, u)
      BY <3>1, <3>2, SettledOn
    <3> QED
      BY <1>2, <3>3 DEF Delivered, r, u
  <2> QED
    BY <1>2, <2>1, <2>2
<1> QED
  BY <1>3, <1>4

(* The messages, step by step.                                              *)
LEMMA MsgStep ==
    ASSUME TypeOK, HandInv, HandInv', MsgInv, EarlyData = FALSE, Server \notin Careless, [Next]_vars
    PROVE  MsgInv'
<1> SUFFICES ASSUME NEW p \in Peers \ ByteReaders
             PROVE  Delivered(p)' /\ OnTheWay(p)'
  BY DEF MsgInv
<1>1. Delivered(p) /\ OnTheWay(p) /\ p \in Peers
  BY DEF MsgInv
<1>2. CASE UNCHANGED vars
  BY <1>1, <1>2 DEF Delivered, OnTheWay, Under, Allowed, Broken, Wire, vars, timeVars, appVars
<1>3. CASE Next /\ status[Client] = "INIT"
  BY <1>1, <1>3, MsgOpening
<1>4. CASE Next /\ status[Client] # "INIT"
  <2>1. CASE Tick
    <3>1. UNCHANGED <<status, buffer, client_role, net, gone, sent, received, cache>>
      BY <2>1 DEF Tick, appVars
    <3> QED
      BY <1>1, <3>1 DEF Delivered, OnTheWay, Under, Allowed, Broken, Wire
  <2>2. ASSUME NEW q \in Peers,
           \/ Connect(q) \/ WriteText(q) \/ Write(q) \/ WriteFrame(q) \/ Disconnect(q)
           \/ ReadChunk(q) \/ HandleReceivedFrame(q)
           \/ ReadBytes(q) \/ ReadFrame(q) \/ ReadFrameTooLong(q) \/ ReadNothing(q) \/ ReadZero(q)
           \/ DoTime(q) \/ Close(q) \/ Crash(q)
        PROVE  Delivered(p)' /\ OnTheWay(p)'
    <3>1. CASE q = p
      BY <1>1, <1>4, <2>2, <3>1, ReaderSteps
    <3>2. CASE q = Other(p)
      BY <1>1, <1>4, <2>2, <3>2, WriterSteps
    <3> QED
      BY <1>1, <3>1, <3>2, OtherPeer
  <2> QED
    BY <1>4, <2>1, <2>2 DEF Next
<1> QED
  BY <1>2, <1>3, <1>4

(* MessagesIntact follows: what is complete on one side is so on the other.  *)
LEMMA IntactMessages ==
    ASSUME TypeOK, MsgInv
    PROVE  MessagesIntact
<1> SUFFICES ASSUME NEW p \in Peers \ ByteReaders
             PROVE  IsPrefix(received[p], sent[Other(p)])
  BY DEF MessagesIntact
<1> DEFINE r == received[p]
           t == sent[Other(p)]
<1>1. p \in Peers /\ Other(p) \in Peers
  BY OtherPeer
<1>2. r \in Seq(SliceType) /\ t \in Seq(SliceType)
  BY <1>1, SlicesTyped
<1>3. (\A k \in 1..Len(r) : r[k].fin) /\ Settled(r, t)
  BY DEF MsgInv, Delivered
<1> HIDE DEF r, t
<1>4. /\ Len(r) \in Nat /\ Len(t) \in Nat /\ Len(r) <= Len(t)
      /\ \A k \in 1..Len(r) : t[k] = r[k]
  BY <1>2, <1>3, LenProperties DEF Settled
<1> DEFINE u == SubSeq(t, 1, Len(r))
<1>5. u \in Seq(SliceType) /\ Len(u) = Len(r) /\ \A k \in 1..Len(r) : u[k] = t[k]
  BY <1>2, <1>4
<1> HIDE DEF u
<1>6. r = u
  BY <1>2, <1>4, <1>5, SeqEqual
<1> QED
  BY <1>4, <1>6 DEF IsPrefix, r, t, u

(* Whatever the frames, the reads and the control frames in between: an     *)
(* application that reads messages gets those the other one wrote, if the   *)
(* server does not speak before it has heard its client and does not mask   *)
(* what it writes with stream_ws_write_frame.                               *)
THEOREM MessagesArrive ==
    ASSUME EarlyData = FALSE, Server \notin Careless
    PROVE  Spec => []MessagesIntact
<1>1. Init => HandInv /\ MsgInv
  BY HandInit, MsgInit
<1>2. TypeOK /\ HandInv /\ MsgInv /\ [Next]_vars => HandInv' /\ MsgInv'
  BY HandStep, MsgStep
<1>3. TypeOK /\ MsgInv => MessagesIntact
  BY IntactMessages
<1> QED
  BY <1>1, <1>2, <1>3, TypeCorrect, PTL DEF Spec

-----------------------------------------------------------------------------
(* The bytes of one stream, on their way to the application of the other.  *)

(* Bytes one after the other.                                               *)
LEMMA BytesAssociate ==
    ASSUME NEW a \in Seq(Nat), NEW b \in Seq(Nat), NEW d \in Seq(Nat)
    PROVE  /\ (a \o b) \o d = a \o (b \o d)
           /\ a \o b \in Seq(Nat) /\ b \o d \in Seq(Nat)
<1>1. (a \o b) \o d = a \o (b \o d)
  BY ConcatAssociative
<1>2. a \o b \in Seq(Nat) /\ b \o d \in Seq(Nat)
  BY ConcatProperties
<1> QED
  BY <1>1, <1>2

(* No slice has no bytes, and one more slice has its bytes more.            *)
LEMMA MoreBytes ==
    /\ Bytes(<<>>) = <<>>
    /\ \A s \in Seq(SliceType) : \A x \in SliceType :
        /\ Append(s, x) \in Seq(SliceType) /\ x.data \in Seq(Nat)
        /\ Bytes(Append(s, x)) = Bytes(s) \o x.data
<1>1. Bytes(<<>>) = <<>>
  <2>1. <<>> \in Seq(SliceType) /\ Len(<<>>) = 0
    BY EmptySeq
  <2>2. Bytes(<<>>) \in Seq(Nat) /\ Len(Bytes(<<>>)) = BytesIn(<<>>, 0)
    BY <2>1, BytesTyped
  <2>3. Len(Bytes(<<>>)) = 0
    BY <2>2, NoBytesIn
  <2> QED
    BY <2>2, <2>3, EmptySeq
<1>2. ASSUME NEW s \in Seq(SliceType), NEW x \in SliceType
      PROVE  /\ Append(s, x) \in Seq(SliceType) /\ x.data \in Seq(Nat)
             /\ Bytes(Append(s, x)) = Bytes(s) \o x.data
  <2>1. Append(s, x) = s \o <<x>> /\ Append(s, x) \in Seq(SliceType)
    BY AppendIsConcat, AppendProperties
  <2>2. <<x>> \in Seq(SliceType) /\ Bytes(<<x>>) = x.data
    BY BytesOfOne
  <2>3. Bytes(s \o <<x>>) = Bytes(s) \o Bytes(<<x>>)
    BY <2>2, BytesBehind
  <2> QED
    BY <2>1, <2>2, <2>3 DEF SliceType
<1> QED
  BY <1>1, <1>2

(* Whole messages of t are the first bytes of it.                           *)
LEMMA SettledBytes ==
    ASSUME NEW s \in Seq(SliceType), NEW t \in Seq(SliceType), Settled(s, t),
           \A k \in 1..Len(s) : s[k].fin
    PROVE  \E d \in Seq(Nat) : Bytes(t) = Bytes(s) \o d
<1> DEFINE n == Len(s)
           m == Len(t)
           u == SubSeq(t, 1, n)
           v == SubSeq(t, n + 1, m)
<1>1. n \in Nat /\ m \in Nat /\ n <= m /\ \A k \in 1..n : t[k] = s[k]
  BY LenProperties DEF Settled
<1>2. /\ u \in Seq(SliceType) /\ Len(u) = n /\ \A k \in 1..n : u[k] = t[k]
      /\ v \in Seq(SliceType)
  BY <1>1
<1>3. u \o v = t
  <2>1. 1 \in 1..m + 1 /\ n \in 1 - 1..m /\ m \in n..m
    BY <1>1
  <2>2. SubSeq(t, 1, n) \o SubSeq(t, n + 1, m) = SubSeq(t, 1, m)
    BY <2>1, ConcatAdjacentSubSeq
  <2> QED
    BY <2>2, SubSeqFull
<1> HIDE DEF u, v
<1>4. u = s
  BY <1>1, <1>2, SeqEqual
<1>5. Bytes(v) \in Seq(Nat) /\ Bytes(u \o v) = Bytes(u) \o Bytes(v)
  BY <1>2, BytesBehind, BytesTyped
<1> QED
  BY <1>3, <1>4, <1>5

(* The bytes that are read from a cache and those that stay in it.          *)
LEMMA CutBytes ==
    ASSUME NEW c \in Seq(SliceType), c # <<>>, NEW k \in 0..Len(Head(c).data),
           NEW x \in SliceType, x.data = SubSeq(Head(c).data, 1, k)
    PROVE  Bytes(c) = x.data \o Bytes(CutFirst(c, k))
<1> DEFINE h == Head(c)
           d == h.data
           rest == SubSeq(d, k + 1, Len(d))
           left == [h EXCEPT !.data = rest]
           a == Tail(c)
<1>1. h \in SliceType /\ a \in Seq(SliceType) /\ d \in Seq(Nat) /\ Len(d) \in Nat /\ k \in Nat /\ k <= Len(d)
  BY HeadTyped, LenProperties
<1>2. <<h>> \in Seq(SliceType) /\ c = <<h>> \o a
  BY <1>1
<1>3. CutFirst(c, k) = IF k = Len(d) THEN a ELSE <<left>> \o a
  BY DEF CutFirst
<1>4. x.data = SubSeq(d, 1, k)
  OBVIOUS
<1>5. rest \in Seq(Nat) /\ SubSeq(d, 1, k) \in Seq(Nat)
  BY <1>1
<1>6. SubSeq(d, 1, k) \o rest = d
  <2> HIDE DEF d
  <2>1. 1 \in 1..Len(d) + 1 /\ k \in 1 - 1..Len(d) /\ Len(d) \in k..Len(d)
    BY <1>1
  <2>2. SubSeq(d, 1, k) \o SubSeq(d, k + 1, Len(d)) = SubSeq(d, 1, Len(d))
    BY <1>1, <2>1, ConcatAdjacentSubSeq
  <2> QED
    BY <1>1, <2>2, SubSeqFull
<1>7. k = Len(d) => SubSeq(d, 1, k) = d
  <2> HIDE DEF d
  <2> QED
    BY <1>1, SubSeqFull
<1>8. left \in SliceType /\ left.data = rest
  <2> HIDE DEF h, rest
  <2> QED
    BY <1>1, <1>5 DEF SliceType
<1>9. Bytes(a) \in Seq(Nat)
  BY <1>1, BytesTyped
<1>10. Bytes(c) = d \o Bytes(a)
  <2>1. Bytes(<<h>>) = d
    BY <1>1, BytesOfOne
  <2> HIDE DEF h, a, d
  <2>2. Bytes(<<h>> \o a) = Bytes(<<h>>) \o Bytes(a)
    BY <1>1, <1>2, BytesBehind
  <2> QED
    BY <1>2, <2>1, <2>2
<1> HIDE DEF h, d, rest, left, a
<1>11. CASE k = Len(d)
  BY <1>3, <1>4, <1>7, <1>10, <1>11
<1>12. CASE k # Len(d)
  <2>1. <<left>> \in Seq(SliceType) /\ Bytes(<<left>>) = rest
    BY <1>8, BytesOfOne
  <2>2. Bytes(<<left>> \o a) = Bytes(<<left>>) \o Bytes(a)
    BY <1>1, <2>1, BytesBehind
  <2>3. (SubSeq(d, 1, k) \o rest) \o Bytes(a) = SubSeq(d, 1, k) \o (rest \o Bytes(a))
    BY <1>5, <1>9, BytesAssociate
  <2> QED
    BY <1>3, <1>4, <1>6, <1>10, <1>12, <2>1, <2>2, <2>3
<1> QED
  BY <1>11, <1>12

(* The bytes that an application writes are numbered on.                    *)
LEMMA BytesWritten ==
    ASSUME TypeOK, NEW q \in Peers, Write(q) \/ WriteFrame(q)
    PROVE  \E n \in Lengths :
             /\ NewBytes(q, n) \in Seq(Nat)
             /\ Bytes(sent'[q]) = Bytes(sent[q]) \o NewBytes(q, n)
<1>0. /\ data_type[q] \in {"TEXT", "BINARY"} /\ sent \in [Peers -> Seq(SliceType)]
      /\ sent[q] \in Seq(SliceType)
  BY DEF TypeOK
<1>1. ASSUME NEW op \in {"TEXT", "BINARY"}, NEW fin \in BOOLEAN, NEW d \in Seq(Nat),
             sent' = [sent EXCEPT ![q] = Append(@, Slice(op, fin, d))]
      PROVE  Bytes(sent'[q]) = Bytes(sent[q]) \o d
  <2>1. Slice(op, fin, d) \in SliceType /\ Slice(op, fin, d).data = d
    BY SliceTyped DEF Slice
  <2>2. sent'[q] = Append(sent[q], Slice(op, fin, d))
    BY <1>0, <1>1
  <2> QED
    BY <1>0, <2>1, <2>2, MoreBytes
<1>2. ASSUME NEW fin \in BOOLEAN, NEW d \in Seq(Nat), Open(q),
             sent' = [sent EXCEPT ![q] = Append(Front(@), Slice(Last(@).opcode, fin, Last(@).data \o d))]
      PROVE  Bytes(sent'[q]) = Bytes(sent[q]) \o d
  <2> DEFINE s == sent[q]
             e == Last(s)
             f == Front(s)
             x == Slice(e.opcode, fin, e.data \o d)
  <2>1. s \in Seq(SliceType) /\ s # <<>>
    BY <1>0, <1>2 DEF Open
  <2>2. /\ e \in SliceType /\ f \in Seq(SliceType) /\ e.opcode \in {"TEXT", "BINARY"}
        /\ e.data \in Seq(Nat) /\ e.data \o d \in Seq(Nat)
    <3>1. /\ e \in SliceType /\ f \in Seq(SliceType) /\ e.opcode \in {"TEXT", "BINARY"}
          /\ e.data \in Seq(Nat)
      BY <2>1, LastTyped
    <3> QED
      BY <3>1, ConcatProperties
  <2>3. s = Append(f, e)
    <3> HIDE DEF s
    <3>1. Len(s) \in Nat /\ Len(s) # 0
      BY <2>1, EmptySeq, LenProperties
    <3>5. e = s[Len(s)] /\ f = SubSeq(s, 1, Len(s) - 1)
      BY DEF Last, Front
    <3>2. 1 \in 1..Len(s) /\ Len(s) \in 1..Len(s)
      BY <3>1
    <3>3. SubSeq(s, 1, Len(s)) = SubSeq(s, 1, Len(s) - 1) \o <<s[Len(s)]>>
      BY <2>1, <3>2, SubSeqRecursiveSecond
    <3>4. s = f \o <<e>>
      BY <2>1, <3>3, <3>5, SubSeqFull
    <3> HIDE DEF e, f
    <3> QED
      BY <2>2, <3>4, AppendIsConcat
  <2>4. sent'[q] = Append(f, x)
    BY <1>0, <1>2
  <2>5. x \in SliceType /\ x.data = e.data \o d
    <3> HIDE DEF e
    <3> QED
      BY <2>2, SliceTyped DEF Slice
  <2> HIDE DEF s, e, f, x
  <2>6. Bytes(s) = Bytes(f) \o e.data /\ Bytes(Append(f, x)) = Bytes(f) \o (e.data \o d)
    BY <2>2, <2>3, <2>5, MoreBytes
  <2>7. Bytes(f) \in Seq(Nat)
    BY <2>2, BytesTyped
  <2>8. (Bytes(f) \o e.data) \o d = Bytes(f) \o (e.data \o d)
    <3> DEFINE g == Bytes(f)
               h == e.data
    <3>1. g \in Seq(Nat) /\ h \in Seq(Nat) /\ d \in Seq(Nat)
      BY <2>2, <2>7
    <3> HIDE DEF g, h
    <3>2. (g \o h) \o d = g \o (h \o d)
      BY <3>1, BytesAssociate
    <3> QED
      BY <3>2 DEF g, h
  <2> QED
    BY <2>4, <2>6, <2>8 DEF s
<1>3. \A n \in Lengths : NewBytes(q, n) \in Seq(Nat)
  BY <1>0, NewBytesTyped
<1>4. CASE Write(q)
  <2>1. PICK n \in Lengths :
          sent' = [sent EXCEPT ![q] = Append(@, Slice(data_type[q], TRUE, NewBytes(q, n)))]
    BY <1>4 DEF Write
  <2> QED
    BY <1>0, <1>1, <1>3, <2>1
<1>5. CASE WriteFrame(q)
  <2>1. PICK n \in Lengths, fin \in BOOLEAN :
         \/ \E opcode \in Opcodes :
              sent' = [sent EXCEPT ![q] = Append(@, Slice(opcode, fin, NewBytes(q, n)))]
         \/ /\ Open(q)
            /\ sent' = [sent EXCEPT ![q] =
                    Append(Front(@), Slice(Last(@).opcode, fin, Last(@).data \o NewBytes(q, n)))]
    BY <1>5 DEF WriteFrame
  <2>2. Opcodes \subseteq {"TEXT", "BINARY"}
    BY WsAssumption
  <2>3. NewBytes(q, n) \in Seq(Nat)
    BY <1>3
  <2>4. CASE \E opcode \in Opcodes :
              sent' = [sent EXCEPT ![q] = Append(@, Slice(opcode, fin, NewBytes(q, n)))]
    <3>1. PICK opcode \in Opcodes :
              sent' = [sent EXCEPT ![q] = Append(@, Slice(opcode, fin, NewBytes(q, n)))]
      BY <2>4
    <3>2. opcode \in {"TEXT", "BINARY"}
      BY <2>2
    <3>3. Bytes(sent'[q]) = Bytes(sent[q]) \o NewBytes(q, n)
      BY <1>1, <2>3, <3>1, <3>2
    <3> QED
      BY <2>3, <3>3
  <2>5. CASE /\ Open(q)
             /\ sent' = [sent EXCEPT ![q] =
                    Append(Front(@), Slice(Last(@).opcode, fin, Last(@).data \o NewBytes(q, n)))]
    <3>1. Bytes(sent'[q]) = Bytes(sent[q]) \o NewBytes(q, n)
      BY <1>2, <2>3, <2>5
    <3> QED
      BY <2>3, <3>1
  <2> QED
    BY <2>1, <2>4, <2>5
<1> QED
  BY <1>4, <1>5

\* The bytes that the application of p has read are the first the other wrote.
BytesRead(p) == \E d \in Seq(Nat) : Bytes(sent[Other(p)]) = Bytes(received[p]) \o d

\* With those in its cache they are the bytes of the whole messages s, and the
\* others are on their way.
ByteWay(p) ==
    \E s \in Seq(SliceType) :
        /\ Under(p, s)
        /\ \A k \in 1..Len(s) : s[k].fin
        /\ Bytes(received[p]) \o Bytes(cache[p]) = Bytes(s)

ByteInv == \A p \in ByteReaders : BytesRead(p) /\ ByteWay(p)

(* When nothing was read it is the first of all there is.                   *)
LEMMA NoBytesRead ==
    /\ \A t \in Seq(SliceType) : \E d \in Seq(Nat) : Bytes(t) = Bytes(<<>>) \o d
    /\ Bytes(<<>>) \o Bytes(<<>>) = Bytes(<<>>) /\ <<>> \o <<>> = <<>>
    /\ <<>> \in Seq(SliceType) /\ \A k \in 1..Len(<<>>) : <<>>[k].fin
<1>1. Bytes(<<>>) = <<>>
  BY MoreBytes
<1>2. \A t \in Seq(SliceType) : Bytes(t) \in Seq(Nat)
  BY BytesTyped
<1>3. \A b \in Seq(Nat) : <<>> \o b = b
  BY ConcatEmptySeq
<1>4. <<>> \in Seq(Nat) /\ <<>> \in Seq(SliceType) /\ 1..Len(<<>>) = {}
  BY EmptySeq
<1> QED
  BY <1>1, <1>2, <1>3, <1>4

(* In the beginning nothing was read.                                       *)
LEMMA ByteInit == Init => ByteInv
<1> SUFFICES ASSUME Init, NEW p \in ByteReaders
             PROVE  BytesRead(p) /\ ByteWay(p)
  BY DEF ByteInv
<1>1. p \in Peers
  BY WsAssumption
<1>2. /\ received[p] = <<>> /\ cache[p] = <<>> /\ sent[Other(p)] = <<>> /\ status[Client] = "INIT"
  BY <1>1, OtherPeer DEF Init
<1>3. Under(p, <<>>)
  BY <1>2 DEF Under
<1> QED
  BY <1>2, <1>3, NoBytesRead DEF BytesRead, ByteWay

(* What was read stays the first of what was written when more is.          *)
LEMMA MoreIsWritten ==
    ASSUME TypeOK, NEW p \in Peers, NEW q, q = Other(p), BytesRead(p), received'[p] = received[p],
           Write(q) \/ WriteFrame(q) \/ sent'[q] = sent[q]
    PROVE  BytesRead(p)'
<1>1. q \in Peers
  BY OtherPeer
<1>2. PICK d \in Seq(Nat) : Bytes(sent[q]) = Bytes(received[p]) \o d
  BY DEF BytesRead
<1>3. CASE sent'[q] = sent[q]
  BY <1>2, <1>3 DEF BytesRead
<1>4. CASE Write(q) \/ WriteFrame(q)
  <2>1. PICK n \in Lengths : /\ NewBytes(q, n) \in Seq(Nat)
                             /\ Bytes(sent'[q]) = Bytes(sent[q]) \o NewBytes(q, n)
    BY <1>1, <1>4, BytesWritten
  <2> DEFINE e == NewBytes(q, n)
             b == Bytes(received[p])
  <2>2. b \in Seq(Nat) /\ e \in Seq(Nat)
    BY <2>1, SlicesTyped, BytesTyped
  <2>3. Bytes(sent'[q]) = (b \o d) \o e
    BY <1>2, <2>1
  <2> HIDE DEF b, e
  <2>4. (b \o d) \o e = b \o (d \o e) /\ d \o e \in Seq(Nat)
    BY <2>2, BytesAssociate
  <2>5. Bytes(sent'[q]) = Bytes(received'[p]) \o (d \o e)
    BY <2>3, <2>4 DEF b
  <2> QED
    BY <2>4, <2>5 DEF BytesRead
<1> QED
  BY <1>3, <1>4

(* A frame that is whole gives its bytes to the cache.                      *)
LEMMA HandledBytes ==
    ASSUME TypeOK, NEW p \in ByteReaders, HandleReceivedFrame(p),
           NEW s \in Seq(SliceType), NEW u \in Seq(SliceType),
           Effect(Head(buffer[p]).frame, s, u),
           Head(buffer[p]).frame.opcode \in Data => Head(buffer[p]).frame \in Allowed(p),
           \A k \in 1..Len(s) : s[k].fin,
           Bytes(received[p]) \o Bytes(cache[p]) = Bytes(s)
    PROVE  /\ \A k \in 1..Len(u) : u[k].fin
           /\ Bytes(received[p]) \o Bytes(cache'[p]) = Bytes(u)
<1> DEFINE f == Head(buffer[p]).frame
           r == received[p]
           c == cache[p]
           x == Slice(f.opcode, f.fin, f.data)
<1>1. p \in Peers
  BY WsAssumption
<1>2. f \in FrameType /\ f.fin \in BOOLEAN /\ f.masked \in BOOLEAN /\ f.data \in Seq(Nat)
  <2>1. f \in FrameType
    BY <1>1, FrameTaken
  <2> HIDE DEF f
  <2> QED
    BY <2>1 DEF FrameType
<1>3. r \in Seq(SliceType) /\ c \in Seq(SliceType) /\ cache \in [Peers -> Seq(SliceType)]
  BY <1>1, SlicesTyped DEF TypeOK
<1>4. ReceiveMessage(p, f) \/ ReceiveContinue(p, f) \/ ReceivePing(p, f) \/ ReceivePong(p, f) \/ ReceiveClose(p, f)
  BY DEF HandleReceivedFrame
<1>5. Effect(f, s, u) /\ Bytes(r) \o Bytes(c) = Bytes(s) /\ (f.opcode \in Data => f \in Allowed(p))
  OBVIOUS
<1> HIDE DEF f, r, c
<1>6. CASE f.opcode \in {"TEXT", "BINARY"}
  <2>1. f.fin /\ Payload(p, f) = f.data
    BY <1>2, <1>5, <1>6 DEF Data, Allowed, Payload
  <2>2. x \in SliceType /\ x.fin /\ x.data = f.data
    <3>1. x \in SliceType
      BY <1>2, <1>6, SliceTyped
    <3> QED
      BY <2>1, <3>1 DEF Slice
  <2>3. cache'[p] = Append(c, x)
    BY <1>1, <1>3, <1>4, <1>6, <2>1
       DEF ReceiveMessage, ReceiveContinue, ReceivePing, ReceivePong, ReceiveClose, c
  <2>4. u = Append(s, x)
    BY <1>5, <1>6 DEF Effect, Data
  <2> HIDE DEF x
  <2>5. Bytes(Append(c, x)) = Bytes(c) \o x.data /\ Bytes(u) = Bytes(s) \o x.data /\ x.data \in Seq(Nat)
    BY <1>3, <2>2, <2>4, MoreBytes
  <2>6. Bytes(r) \in Seq(Nat) /\ Bytes(c) \in Seq(Nat)
    BY <1>3, BytesTyped
  <2>7. (Bytes(r) \o Bytes(c)) \o x.data = Bytes(r) \o (Bytes(c) \o x.data)
    BY <2>5, <2>6, BytesAssociate
  <2>8. Bytes(r) \o Bytes(cache'[p]) = Bytes(u)
    BY <1>5, <2>3, <2>5, <2>7
  <2>9. /\ Len(u) = Len(s) + 1 /\ u[Len(s) + 1] = x /\ \A k \in 1..Len(s) : u[k] = s[k]
        /\ Len(s) \in Nat
    BY <2>2, <2>4, AppendProperties, LenProperties
  <2>10. \A k \in 1..Len(u) : u[k].fin
    <3> SUFFICES ASSUME NEW k \in 1..Len(s) + 1
                 PROVE  u[k].fin
      BY <2>9
    <3>1. k \in 1..Len(s) \/ k = Len(s) + 1
      BY <2>9
    <3> QED
      BY <2>2, <2>9, <3>1
  <2> QED
    BY <2>8, <2>10 DEF r
<1>7. CASE f.opcode \notin Data
  <2>1. cache' = cache
    BY <1>4, <1>7 DEF Data, ReceiveMessage, ReceiveContinue, ReceivePing, ReceivePong, ReceiveClose
  <2>2. u = s
    BY <1>5, <1>7 DEF Effect, Data
  <2> QED
    BY <1>5, <2>1, <2>2 DEF r, c
<1>8. f.opcode # "CONTINUE"
  BY <1>5 DEF Data, Allowed
<1> QED
  BY <1>6, <1>7, <1>8 DEF Data

(* An application that reads bytes, step by step.                           *)
LEMMA ByteReaderSteps ==
    ASSUME TypeOK, TypeOK', HandInv, Next, status[Client] # "INIT",
           NEW p \in ByteReaders, BytesRead(p), ByteWay(p),
           \/ Connect(p) \/ WriteText(p) \/ Write(p) \/ WriteFrame(p) \/ Disconnect(p)
           \/ ReadChunk(p) \/ HandleReceivedFrame(p)
           \/ ReadBytes(p) \/ ReadFrame(p) \/ ReadFrameTooLong(p) \/ ReadNothing(p) \/ ReadZero(p)
           \/ DoTime(p) \/ Close(p) \/ Crash(p)
    PROVE  BytesRead(p)' /\ ByteWay(p)'
<1> DEFINE q == Other(p)
           r == received[p]
           c == cache[p]
           t == sent[q]
           m == Allowed(p)
<1>1. p \in Peers /\ q \in Peers /\ q # p
  BY OtherPeer, WsAssumption
<1>2. /\ status[p] # "INIT" /\ status[q] # "INIT" /\ client_role[Client]
      /\ TextFree(Wire(p)) /\ client_role' = client_role
  <2>1. /\ status[Server] # "INIT" /\ client_role[Client] /\ client_role' = client_role
        /\ \A x \in Peers : TextFree(Wire(x))
    BY ConnectedStep DEF HandInv, Roles, Connected
  <2> QED
    BY <1>1, <2>1 DEF Peers
<1>3. /\ r \in Seq(SliceType) /\ c \in Seq(SliceType) /\ t \in Seq(SliceType)
      /\ Wire(p) \in Seq(UnitType)
  BY <1>1, SlicesTyped
<1>4. Allowed(p)' = m
  BY <1>2 DEF Allowed
<1>5. PICK s \in Seq(SliceType) :
        /\ Under(p, s) /\ \A k \in 1..Len(s) : s[k].fin
        /\ Bytes(r) \o Bytes(c) = Bytes(s)
  BY DEF ByteWay
<1>6. CASE \/ Connect(p) \/ WriteText(p) \/ Write(p) \/ WriteFrame(p) \/ Disconnect(p)
           \/ ReadChunk(p) \/ ReadFrameTooLong(p) \/ ReadNothing(p) \/ ReadZero(p) \/ DoTime(p)
  <2>1. /\ Wire(p)' = Wire(p) /\ UNCHANGED <<client_role, received, cache, gone>>
        /\ sent'[q] = sent[q] /\ status'[q] = status[q]
    BY <1>1, <1>2, <1>6, QuietSteps
  <2>2. Under(p, s)'
    BY <1>1, <1>5, <2>1, NothingOnTheWay
  <2> QED
    BY <1>5, <2>1, <2>2 DEF BytesRead, ByteWay
<1>7. CASE HandleReceivedFrame(p)
  <2> DEFINE f == Head(buffer[p]).frame
             w == Wire(p)
  <2>1. /\ gone[p] = "no" /\ Wire(p)' = SubSeq(w, 3, Len(w)) /\ w # <<>> /\ Head(w).frame = f
        /\ UNCHANGED <<client_role, sent, received, gone>>
        /\ Broken(p) => Broken(p)'
    BY <1>1, <1>7, FrameTaken
  <2>2. BytesRead(p)'
    BY <2>1 DEF BytesRead
  <2>3. Broken(p) \/ Carries(w, s, t, m)
    BY <1>5, <2>1 DEF Under
  <2>4. CASE Broken(p)
    <3>1. received'[p] = <<>> /\ cache'[p] = <<>> /\ Under(p, <<>>)'
      BY <2>1, <2>4 DEF Broken, Under
    <3> QED
      BY <2>2, <3>1, NoBytesRead DEF ByteWay
  <2>5. CASE Carries(w, s, t, m)
    <3>1. w \in Seq(UnitType)
      BY <1>3
    <3> HIDE DEF w, t, m, f
    <3>2. PICK u \in Seq(SliceType) :
             /\ Effect(Head(w).frame, s, u)
             /\ Head(w).frame.opcode \in Data => Head(w).frame \in m
             /\ Carries(SubSeq(w, 3, Len(w)), u, t, m)
      BY <1>3, <2>1, <2>5, <3>1, CarriesLess
    <3>3. Effect(f, s, u) /\ (f.opcode \in Data => f \in m) /\ Carries(Wire(p)', u, t, m)
      BY <2>1, <3>2
    <3>4. /\ \A k \in 1..Len(u) : u[k].fin
          /\ Bytes(received[p]) \o Bytes(cache'[p]) = Bytes(u)
      BY <1>5, <1>7, <3>3, HandledBytes DEF f, m
    <3>5. Carries(Wire(p)', u, sent'[q], Allowed(p)')
      BY <1>4, <2>1, <3>3 DEF t
    <3>6. Under(p, u)'
      BY <3>5 DEF Under
    <3> QED
      BY <2>1, <2>2, <3>4, <3>6 DEF ByteWay
  <2> QED
    BY <2>3, <2>4, <2>5
<1>8. CASE ReadBytes(p)
  <2>1. /\ gone[p] = "no" /\ c # <<>>
        /\ UNCHANGED <<status, buffer, client_role, net, sent, gone>>
    BY <1>8 DEF ReadBytes, Callable
  <2>2. PICK n \in 1..MaxRead :
         LET slice == Head(cache[p])
             k == IF n < Len(slice.data) THEN n ELSE Len(slice.data)
         IN  /\ received' = [received EXCEPT ![p] =
                    Append(@, Slice(slice.opcode, slice.fin, SubSeq(slice.data, 1, k)))]
             /\ cache' = [cache EXCEPT ![p] = CutFirst(@, k)]
    BY <1>8 DEF ReadBytes
  <2> DEFINE h == Head(c)
             k == IF n < Len(h.data) THEN n ELSE Len(h.data)
             x == Slice(h.opcode, h.fin, SubSeq(h.data, 1, k))
  <2>3. received'[p] = Append(r, x) /\ cache'[p] = CutFirst(c, k)
    BY <1>1, <2>2 DEF TypeOK
  <2>4. k \in 0..Len(h.data)
    <3>1. Len(h.data) \in Nat /\ n \in Nat
      BY <1>3, <2>1, HeadTyped, LenProperties, WsAssumption
    <3> QED
      BY <3>1
  <2>5. x \in SliceType /\ x.data = SubSeq(h.data, 1, k)
    <3>1. SubSeq(h.data, 1, k) \in Seq(Nat) /\ h.opcode \in {"TEXT", "BINARY"} /\ h.fin \in BOOLEAN
      BY <1>3, <2>1, <2>4, CutTyped, HeadTyped
    <3> HIDE DEF h, k
    <3> QED
      BY <3>1, SliceTyped DEF Slice
  <2>6. cache'[p] \in Seq(SliceType)
    BY <1>1 DEF TypeOK
  <2> DEFINE left == cache'[p]
  <2>7. Bytes(c) = x.data \o Bytes(left) /\ Bytes(Append(r, x)) = Bytes(r) \o x.data /\ x.data \in Seq(Nat)
    <3>1. Bytes(c) = x.data \o Bytes(CutFirst(c, k))
      <4> HIDE DEF c, k, x
      <4> QED
        BY <1>3, <2>1, <2>4, <2>5, CutBytes
    <3> HIDE DEF r, x
    <3>2. Bytes(Append(r, x)) = Bytes(r) \o x.data /\ x.data \in Seq(Nat)
      BY <1>3, <2>5, MoreBytes
    <3> QED
      BY <2>3, <3>1, <3>2
  <2>8. Bytes(r) \in Seq(Nat) /\ Bytes(left) \in Seq(Nat)
    BY <1>3, <2>6, BytesTyped
  <2>9. Bytes(received'[p]) \in Seq(Nat) /\ Bytes(received'[p]) \o Bytes(left) = Bytes(s)
    <3> DEFINE a == Bytes(r)
               b == x.data
               d == Bytes(left)
    <3>1. a \in Seq(Nat) /\ b \in Seq(Nat) /\ d \in Seq(Nat)
      BY <2>7, <2>8
    <3>2. Bytes(received'[p]) = a \o b /\ Bytes(s) = a \o (b \o d)
      BY <1>5, <2>3, <2>7
    <3> HIDE DEF a, b, d
    <3>3. (a \o b) \o d = a \o (b \o d) /\ a \o b \in Seq(Nat)
      BY <3>1, BytesAssociate
    <3> QED
      BY <3>2, <3>3 DEF d
  <2>10. Wire(p)' = Wire(p)
    BY <2>1 DEF Wire
  <2>11. Carries(Wire(p), s, t, m)
    BY <1>5, <2>1 DEF Under, Broken
  <2>12. ByteWay(p)'
    <3>1. Carries(Wire(p)', s, sent'[q], Allowed(p)')
      BY <1>4, <2>1, <2>10, <2>11
    <3>2. Under(p, s)'
      BY <3>1 DEF Under
    <3> QED
      BY <1>5, <2>9, <3>2 DEF ByteWay
  <2>13. BytesRead(p)'
    <3> HIDE DEF t, m
    <3>1. Settled(s, t)
      BY <1>3, <1>5, <2>11, CarriesSettled
    <3>2. PICK d \in Seq(Nat) : Bytes(t) = Bytes(s) \o d
      BY <1>3, <1>5, <3>1, SettledBytes
    <3> DEFINE a == Bytes(received'[p])
               b == Bytes(left)
    <3>3. Bytes(t) = (a \o b) \o d /\ a \in Seq(Nat) /\ b \in Seq(Nat)
      BY <2>8, <2>9, <3>2
    <3>4. BytesRead(p)' = \E e \in Seq(Nat) : Bytes(sent'[q]) = a \o e
      BY DEF BytesRead
    <3> HIDE DEF a, b
    <3>5. (a \o b) \o d = a \o (b \o d) /\ b \o d \in Seq(Nat)
      BY <3>3, BytesAssociate
    <3>6. sent'[q] = t
      BY <2>1 DEF t
    <3> QED
      BY <3>3, <3>4, <3>5, <3>6
  <2> QED
    BY <2>12, <2>13
<1>9. ~ReadFrame(p)
  BY DEF ReadFrame
<1>10. CASE Close(p) \/ Crash(p)
  <2>1. UNCHANGED <<sent, received, cache>> /\ gone'[p] # "no"
    BY <1>1, <1>10 DEF Close, Crash, TypeOK
  <2>2. Under(p, s)'
    BY <2>1 DEF Under
  <2> QED
    BY <1>5, <2>1, <2>2 DEF BytesRead, ByteWay
<1> QED
  BY <1>6, <1>7, <1>8, <1>9, <1>10

(* The step that connects the client reads no bytes.                        *)
LEMMA ByteOpening ==
    ASSUME TypeOK, HandInv, HandInv', EarlyData = FALSE, status[Client] = "INIT", Next,
           NEW p \in Peers, TypeOK'
    PROVE  BytesRead(p)' /\ ByteWay(p)'
<1>1. OnTheWay(p)'
  BY MsgOpening
<1>2. received'[p] = <<>> /\ cache'[p] = <<>>
  <2>1. CASE status'[Client] = "INIT"
    BY <2>1 DEF HandInv, ClientWaits, Unused
  <2>2. CASE status'[Client] # "INIT"
    <3>1. received[p] = <<>> /\ cache[p] = <<>>
      BY DEF HandInv, ClientWaits, Unused
    <3>2. ReadChunk(Client)
      BY <2>2, OnlyAnswerConnects
    <3>3. UNCHANGED <<received, cache>>
      BY <3>2 DEF ReadChunk
    <3> QED
      BY <3>1, <3>3
  <2> QED
    BY <2>1, <2>2
<1>3. Under(p, <<>>)'
  <2>1. Under(p, <<>> \o <<>>)'
    BY <1>1, <1>2 DEF OnTheWay, Under
  <2>2. <<>> \o <<>> = <<>>
    BY NoBytesRead
  <2> QED
    BY <2>1, <2>2 DEF Under
<1>4. sent'[Other(p)] \in Seq(SliceType)
  BY OtherPeer DEF TypeOK
<1>5. BytesRead(p)'
  BY <1>2, <1>4, NoBytesRead DEF BytesRead
<1>6. ByteWay(p)'
  <2>1. Bytes(received'[p]) \o Bytes(cache'[p]) = Bytes(<<>>)
    BY <1>2, NoBytesRead
  <2> QED
    BY <1>3, <2>1, NoBytesRead DEF ByteWay
<1> QED
  BY <1>5, <1>6

(* The bytes, step by step.                                                 *)
LEMMA ByteStep ==
    ASSUME TypeOK, TypeOK', HandInv, HandInv', ByteInv, EarlyData = FALSE, Server \notin Careless,
           \A p \in ByteReaders : Other(p) \notin Fragmenters, [Next]_vars
    PROVE  ByteInv'
<1> SUFFICES ASSUME NEW p \in ByteReaders
             PROVE  BytesRead(p)' /\ ByteWay(p)'
  BY DEF ByteInv
<1>1. BytesRead(p) /\ ByteWay(p) /\ p \in Peers /\ Other(p) \notin Fragmenters
  BY WsAssumption DEF ByteInv
<1>5. PICK s \in Seq(SliceType) :
        /\ Under(p, s) /\ \A k \in 1..Len(s) : s[k].fin
        /\ Bytes(received[p]) \o Bytes(cache[p]) = Bytes(s)
  BY <1>1 DEF ByteWay
<1>2. CASE UNCHANGED vars
  <2>1. UNCHANGED <<status, buffer, client_role, net, gone, sent, received, cache>>
    BY <1>2 DEF vars, timeVars, appVars
  <2>2. Under(p, s)'
    BY <1>5, <2>1 DEF Under, Allowed, Broken, Wire
  <2> QED
    BY <1>1, <1>5, <2>1, <2>2 DEF BytesRead, ByteWay
<1>3. CASE Next /\ status[Client] = "INIT"
  BY <1>1, <1>3, ByteOpening
<1>4. CASE Next /\ status[Client] # "INIT"
  <2>1. CASE Tick
    <3>1. UNCHANGED <<status, buffer, client_role, net, gone, sent, received, cache>>
      BY <2>1 DEF Tick, appVars
    <3>2. Under(p, s)'
      BY <1>5, <3>1 DEF Under, Allowed, Broken, Wire
    <3> QED
      BY <1>1, <1>5, <3>1, <3>2 DEF BytesRead, ByteWay
  <2>2. ASSUME NEW q \in Peers,
           \/ Connect(q) \/ WriteText(q) \/ Write(q) \/ WriteFrame(q) \/ Disconnect(q)
           \/ ReadChunk(q) \/ HandleReceivedFrame(q)
           \/ ReadBytes(q) \/ ReadFrame(q) \/ ReadFrameTooLong(q) \/ ReadNothing(q) \/ ReadZero(q)
           \/ DoTime(q) \/ Close(q) \/ Crash(q)
        PROVE  BytesRead(p)' /\ ByteWay(p)'
    <3>1. CASE q = p
      BY <1>1, <1>4, <2>2, <3>1, ByteReaderSteps
    <3>2. CASE q = Other(p)
      <4>1. /\ received'[p] = received[p] /\ cache'[p] = cache[p]
            /\ Write(q) \/ WriteFrame(q) \/ sent'[q] = sent[q]
        BY <1>1, <2>2, <3>2, WriterLeaves, OtherPeer
      <4>2. Under(p, s)'
        BY <1>1, <1>4, <1>5, <2>2, <3>2, WriterWay
      <4>3. BytesRead(p)'
        BY <1>1, <3>2, <4>1, MoreIsWritten
      <4> QED
        BY <1>5, <4>1, <4>2, <4>3 DEF ByteWay
    <3> QED
      BY <1>1, <3>1, <3>2, OtherPeer
  <2> QED
    BY <1>4, <2>1, <2>2 DEF Next
<1> QED
  BY <1>2, <1>3, <1>4

(* An application that reads messages reads their bytes.                    *)
LEMMA AllBytesRead ==
    ASSUME TypeOK', MsgInv', ByteInv', NEW p \in Peers
    PROVE  BytesRead(p)'
<1>1. CASE p \in ByteReaders
  BY <1>1 DEF ByteInv
<1>2. CASE p \notin ByteReaders
  <2>1. received'[p] \in Seq(SliceType) /\ sent'[Other(p)] \in Seq(SliceType)
    BY OtherPeer DEF TypeOK
  <2>2. /\ \A k \in 1..Len(received'[p]) : received'[p][k].fin
        /\ Settled(received'[p], sent'[Other(p)])
    BY <1>2 DEF MsgInv, Delivered
  <2> QED
    BY <2>1, <2>2, SettledBytes DEF BytesRead
<1> QED
  BY <1>1, <1>2

(* The first bytes of w, when b more of them are read.                      *)
LEMMA BytesTaken ==
    ASSUME NEW a \in Seq(Nat), NEW b \in Seq(Nat), NEW d \in Seq(Nat)
    PROVE  \/ a \o b = a
           \/ \E n \in 1 .. Len((a \o b) \o d) - Len(a) :
                 a \o b = SubSeq((a \o b) \o d, 1, Len(a) + n)
<1> DEFINE e == a \o b
           w == e \o d
<1>1. /\ Len(a) \in Nat /\ Len(b) \in Nat /\ Len(d) \in Nat
      /\ e \in Seq(Nat) /\ Len(e) = Len(a) + Len(b)
  BY ConcatProperties, LenProperties
<1> HIDE DEF e
<1>2. /\ w \in Seq(Nat) /\ Len(w) = Len(e) + Len(d)
      /\ \A i \in 1..Len(e) + Len(d) : w[i] = IF i <= Len(e) THEN e[i] ELSE d[i - Len(e)]
  <2>2. /\ e \o d \in Seq(Nat) /\ Len(e \o d) = Len(e) + Len(d)
        /\ \A i \in 1..Len(e) + Len(d) : (e \o d)[i] = IF i <= Len(e) THEN e[i] ELSE d[i - Len(e)]
    <3>1. e \in Seq(Nat) /\ d \in Seq(Nat)
      BY <1>1
    <3> QED
      BY <3>1, ConcatProperties
  <2> QED
    BY <2>2
<1> HIDE DEF w
<1>3. CASE Len(b) = 0
  BY <1>3, EmptySeq, ConcatEmptySeq DEF e
<1>4. CASE Len(b) # 0
  <2>1. Len(b) \in 1 .. Len(w) - Len(a)
    BY <1>1, <1>2, <1>4
  <2> DEFINE f == SubSeq(w, 1, Len(a) + Len(b))
  <2>2. f \in Seq(Nat) /\ Len(f) = Len(e) /\ \A i \in 1..Len(e) : f[i] = e[i]
    <3>1. Len(e) \in Nat /\ Len(e) <= Len(w) /\ f = SubSeq(w, 1, Len(e))
      BY <1>1, <1>2
    <3>2. \A i \in 1..Len(e) : i \in 1..Len(e) + Len(d) /\ i <= Len(e)
      BY <1>1
    <3> HIDE DEF f
    <3>3. f \in Seq(Nat) /\ Len(f) = Len(e) /\ \A i \in 1..Len(e) : f[i] = w[i]
      BY <1>2, <3>1
    <3> QED
      BY <1>2, <3>2, <3>3
  <2> HIDE DEF f
  <2>3. f = e
    BY <1>1, <2>2, SeqEqual
  <2> QED
    BY <2>1, <2>3 DEF e, f, w
<1> QED
  BY <1>3, <1>4

(* An application reads a slice with two calls only.                        *)
LEMMA ReaderTakes ==
    ASSUME TypeOK, NEW p \in Peers,
           \/ Connect(p) \/ WriteText(p) \/ Write(p) \/ WriteFrame(p) \/ Disconnect(p)
           \/ ReadChunk(p) \/ HandleReceivedFrame(p)
           \/ ReadBytes(p) \/ ReadFrame(p) \/ ReadFrameTooLong(p) \/ ReadNothing(p) \/ ReadZero(p)
           \/ DoTime(p) \/ Close(p) \/ Crash(p)
    PROVE  \/ received'[p] = received[p]
           \/ \E x \in SliceType : received'[p] = Append(received[p], x)
<1>1. CASE Connect(p) \/ WriteText(p) \/ Disconnect(p) \/ DoTime(p) \/ Close(p) \/ Crash(p)
           \/ ReadFrameTooLong(p) \/ ReadNothing(p) \/ ReadZero(p)
  BY <1>1 DEF Connect, WriteText, Disconnect, DoTime, Close, Crash, ReadFrameTooLong, ReadNothing,
              ReadZero, appVars
<1>2. CASE Write(p) \/ WriteFrame(p)
  BY <1>2, WriteEffect
<1>3. CASE ReadChunk(p)
  BY <1>3 DEF ReadChunk
<1>4. CASE HandleReceivedFrame(p)
  BY <1>4 DEF HandleReceivedFrame, appVars
<1>5. received \in [Peers -> Seq(SliceType)] /\ cache[p] \in Seq(SliceType)
  BY DEF TypeOK
<1>6. CASE ReadFrame(p)
  <2>1. cache[p] # <<>> /\ received' = [received EXCEPT ![p] = Append(@, Head(cache[p]))]
    BY <1>6 DEF ReadFrame, HasMessage
  <2>2. Head(cache[p]) \in SliceType
    BY <1>5, <2>1, HeadTyped
  <2> QED
    BY <1>5, <2>1, <2>2
<1>7. CASE ReadBytes(p)
  <2> DEFINE h == Head(cache[p])
             k(n) == IF n < Len(h.data) THEN n ELSE Len(h.data)
             x(n) == Slice(h.opcode, h.fin, SubSeq(h.data, 1, k(n)))
  <2>1. cache[p] # <<>>
    BY <1>7 DEF ReadBytes
  <2>2. PICK n \in 1..MaxRead : received' = [received EXCEPT ![p] = Append(@, x(n))]
    BY <1>7 DEF ReadBytes
  <2>3. k(n) \in 0..Len(h.data)
    <3>1. Len(h.data) \in Nat /\ n \in Nat
      BY <1>5, <2>1, HeadTyped, LenProperties, WsAssumption
    <3> QED
      BY <3>1
  <2>4. x(n) \in SliceType
    <3>1. SubSeq(h.data, 1, k(n)) \in Seq(Nat) /\ h.opcode \in {"TEXT", "BINARY"} /\ h.fin \in BOOLEAN
      BY <1>5, <2>1, <2>3, CutTyped, HeadTyped
    <3> HIDE DEF h, k
    <3> QED
      BY <3>1, SliceTyped
  <2> HIDE DEF x
  <2> QED
    BY <1>5, <2>2, <2>4
<1> QED
  BY <1>1, <1>2, <1>3, <1>4, <1>6, <1>7

\* What p reads and the other one writes is a step of a pipe, or none.
PipeStep(p, longest) ==
    LET w == Bytes(sent[Other(p)])
        r == Bytes(received[p])
    IN  \/ w' = w /\ r' = r
        \/ \E n \in 1..longest : w' = w \o [i \in 1..n |-> Len(w) + i] /\ r' = r
        \/ \E n \in 1 .. Len(w) - Len(r) : r' = SubSeq(w, 1, Len(r) + n) /\ w' = w

(* The application of p.                                                    *)
LEMMA ReaderPipes ==
    ASSUME TypeOK, NEW p \in Peers, NEW longest, BytesRead(p)',
           \/ Connect(p) \/ WriteText(p) \/ Write(p) \/ WriteFrame(p) \/ Disconnect(p)
           \/ ReadChunk(p) \/ HandleReceivedFrame(p)
           \/ ReadBytes(p) \/ ReadFrame(p) \/ ReadFrameTooLong(p) \/ ReadNothing(p) \/ ReadZero(p)
           \/ DoTime(p) \/ Close(p) \/ Crash(p)
    PROVE  PipeStep(p, longest)
<1> DEFINE q == Other(p)
           w == Bytes(sent[q])
           a == Bytes(received[p])
<1>1. sent'[q] = sent[q]
  BY WriterLeaves
<1>2. received[p] \in Seq(SliceType) /\ a \in Seq(Nat)
  BY SlicesTyped, BytesTyped
<1>3. CASE received'[p] = received[p]
  BY <1>1, <1>3 DEF PipeStep
<1>4. ASSUME NEW x \in SliceType, received'[p] = Append(received[p], x)
      PROVE  PipeStep(p, longest)
  <2> DEFINE b == x.data
  <2>1. b \in Seq(Nat) /\ Bytes(received'[p]) = a \o b
    BY <1>2, <1>4, MoreBytes
  <2>2. PICK d \in Seq(Nat) : Bytes(sent'[q]) = Bytes(received'[p]) \o d
    BY DEF BytesRead
  <2>3. d \in Seq(Nat) /\ w = (a \o b) \o d
    BY <1>1, <2>1, <2>2
  <2> HIDE DEF w, a, b
  <2>4. a \o b = a \/ \E n \in 1 .. Len(w) - Len(a) : a \o b = SubSeq(w, 1, Len(a) + n)
    <3>1. a \in Seq(Nat) /\ b \in Seq(Nat)
      BY <1>2, <2>1
    <3>2. \/ a \o b = a
          \/ \E n \in 1 .. Len((a \o b) \o d) - Len(a) :
                 a \o b = SubSeq((a \o b) \o d, 1, Len(a) + n)
      BY <2>3, <3>1, BytesTaken
    <3> QED
      BY <2>3, <3>2
  <2>5. Bytes(sent'[q]) = w
    BY <1>1 DEF w
  <2>6. PipeStep(p, longest) =
          \/ Bytes(sent'[q]) = w /\ Bytes(received'[p]) = a
          \/ \E n \in 1..longest : /\ Bytes(sent'[q]) = w \o [i \in 1..n |-> Len(w) + i]
                                   /\ Bytes(received'[p]) = a
          \/ \E n \in 1 .. Len(w) - Len(a) : /\ Bytes(received'[p]) = SubSeq(w, 1, Len(a) + n)
                                             /\ Bytes(sent'[q]) = w
    BY DEF PipeStep, w, a
  <2> QED
    BY <2>1, <2>4, <2>5, <2>6
<1> QED
  BY <1>3, <1>4, ReaderTakes

(* The other one.                                                           *)
LEMMA WriterPipes ==
    ASSUME TypeOK, NEW p \in Peers, NEW q, q = Other(p),
           NEW longest \in Nat, \A n \in Lengths : n <= longest,
           \/ Connect(q) \/ WriteText(q) \/ Write(q) \/ WriteFrame(q) \/ Disconnect(q)
           \/ ReadChunk(q) \/ HandleReceivedFrame(q)
           \/ ReadBytes(q) \/ ReadFrame(q) \/ ReadFrameTooLong(q) \/ ReadNothing(q) \/ ReadZero(q)
           \/ DoTime(q) \/ Close(q) \/ Crash(q)
    PROVE  PipeStep(p, longest)
<1>1. q \in Peers /\ Other(q) = p
  BY OtherPeer
<1>2. received'[p] = received[p] /\ (Write(q) \/ WriteFrame(q) \/ sent' = sent)
  BY <1>1, WriterLeaves
<1>3. CASE sent' = sent
  BY <1>2, <1>3 DEF PipeStep
<1>4. CASE Write(q) \/ WriteFrame(q)
  <2> DEFINE w == Bytes(sent[q])
  <2>1. PICK n \in Lengths : /\ NewBytes(q, n) \in Seq(Nat)
                             /\ Bytes(sent'[q]) = w \o NewBytes(q, n)
    BY <1>1, <1>4, BytesWritten
  <2>2. w \in Seq(Nat) /\ ByteCount(q) = Len(w)
    BY <1>1, SlicesTyped, BytesTyped DEF ByteCount
  <2> HIDE DEF w
  <2>3. NewBytes(q, n) = [i \in 1..n |-> Len(w) + i]
    BY <2>2 DEF NewBytes
  <2>4. n \in Nat /\ n <= longest
    BY WsAssumption
  <2>5. CASE n = 0
    <3> DEFINE e == NewBytes(q, n)
    <3>1. e \in Seq(Nat) /\ DOMAIN e = 1..0
      BY <2>1, <2>3, <2>5
    <3> HIDE DEF e
    <3>2. Len(e) = 0
      BY <3>1, LenProperties
    <3>3. w \o e = w
      BY <2>2, <3>1, <3>2, EmptySeq, ConcatEmptySeq
    <3> QED
      BY <1>2, <2>1, <3>3 DEF PipeStep, w, e
  <2>6. CASE n # 0
    <3>1. n \in 1..longest
      BY <2>4, <2>6
    <3>2. Bytes(sent'[q]) = w \o [i \in 1..n |-> Len(w) + i]
      BY <2>1, <2>3
    <3> QED
      BY <1>2, <3>1, <3>2 DEF PipeStep, w
  <2> QED
    BY <2>5, <2>6
<1> QED
  BY <1>2, <1>3, <1>4

(* Every step.                                                              *)
LEMMA Pipes ==
    ASSUME TypeOK, MsgInv', ByteInv', TypeOK', [Next]_vars, NEW p \in Peers,
           NEW longest \in Nat, \A n \in Lengths : n <= longest
    PROVE  PipeStep(p, longest)
<1>1. BytesRead(p)'
  BY AllBytesRead
<1>2. CASE UNCHANGED vars \/ Tick
  <2>1. UNCHANGED <<sent, received>>
    BY <1>2 DEF vars, Tick, appVars
  <2> QED
    BY <2>1 DEF PipeStep
<1>3. ASSUME NEW q \in Peers,
           \/ Connect(q) \/ WriteText(q) \/ Write(q) \/ WriteFrame(q) \/ Disconnect(q)
           \/ ReadChunk(q) \/ HandleReceivedFrame(q)
           \/ ReadBytes(q) \/ ReadFrame(q) \/ ReadFrameTooLong(q) \/ ReadNothing(q) \/ ReadZero(q)
           \/ DoTime(q) \/ Close(q) \/ Crash(q)
      PROVE  PipeStep(p, longest)
  <2>1. CASE q = p
    BY <1>1, <1>3, <2>1, ReaderPipes
  <2>2. CASE q = Other(p)
    BY <1>3, <2>2, WriterPipes
  <2> QED
    BY <2>1, <2>2, OtherPeer
<1> QED
  BY <1>2, <1>3 DEF Next

(* Two streams are a pipe of bytes in each direction, on which others can   *)
(* be stacked, whatever is cut where: what an application has read is the   *)
(* beginning of what the other one has written, and grows as that does. One *)
(* that reads bytes does not get to the end of a message that comes in more *)
(* than one frame.                                                          *)
THEOREM PipesImplemented ==
    ASSUME EarlyData = FALSE, Server \notin Careless,
           \A p \in ByteReaders : Other(p) \notin Fragmenters,
           NEW longest \in Lengths, \A n \in Lengths : n <= longest
    PROVE  Spec => BothPipes
<1> DEFINE IInv == HandInv /\ MsgInv /\ ByteInv
<1>1. Init => IInv
  BY HandInit, MsgInit, ByteInit
<1>2. TypeOK /\ TypeOK' /\ IInv /\ [Next]_vars => IInv'
  <2> SUFFICES ASSUME TypeOK, TypeOK', IInv, [Next]_vars
               PROVE  IInv'
    OBVIOUS
  <2>1. HandInv'
    BY HandStep
  <2>2. MsgInv'
    BY <2>1, MsgStep
  <2>3. ByteInv'
    BY <2>1, ByteStep
  <2> QED
    BY <2>1, <2>2, <2>3
<1>3. /\ Client \in Peers /\ Server \in Peers
      /\ Other(Client) = Server /\ Other(Server) = Client
  BY WsAssumption DEF Peers, Other
<1>4. Init => ToServer!Init /\ ToClient!Init
  <2> SUFFICES ASSUME Init
               PROVE  ToServer!Init /\ ToClient!Init
    OBVIOUS
  <2>1. \A p \in Peers : sent[p] = <<>> /\ received[p] = <<>>
    BY DEF Init
  <2> QED
    BY <1>3, <2>1, MoreBytes DEF ToServer!Init, ToClient!Init
<1>5. Max(Lengths) = longest /\ longest \in Nat
  <2>1. longest \in Nat /\ Lengths \subseteq Nat
    BY WsAssumption
  <2>2. longest \in Lengths /\ \A y \in Lengths : longest >= y
    BY <2>1
  <2>3. \A x \in Lengths : (\A y \in Lengths : x >= y) => x = longest
    BY <2>1
  <2> QED
    BY <2>1, <2>2, <2>3 DEF Max
<1>6. TypeOK /\ TypeOK' /\ IInv' /\ [Next]_vars
        => /\ [ToServer!Next]_<<Bytes(sent[Client]), Bytes(received[Server])>>
           /\ [ToClient!Next]_<<Bytes(sent[Server]), Bytes(received[Client])>>
  <2> SUFFICES ASSUME TypeOK, TypeOK', IInv', [Next]_vars
               PROVE  /\ [ToServer!Next]_<<Bytes(sent[Client]), Bytes(received[Server])>>
                      /\ [ToClient!Next]_<<Bytes(sent[Server]), Bytes(received[Client])>>
    OBVIOUS
  <2>1. PipeStep(Server, longest) /\ PipeStep(Client, longest)
    BY <1>3, <1>5, Pipes
  <2>2. [ToServer!Next]_<<Bytes(sent[Client]), Bytes(received[Server])>>
    BY <1>3, <1>5, <2>1 DEF PipeStep, ToServer!Next, ToServer!Write, ToServer!Read
  <2>3. [ToClient!Next]_<<Bytes(sent[Server]), Bytes(received[Client])>>
    BY <1>3, <1>5, <2>1 DEF PipeStep, ToClient!Next, ToClient!Write, ToClient!Read
  <2> QED
    BY <2>2, <2>3
<1>7. (/\ ToServer!Init /\ [][ToServer!Next]_<<Bytes(sent[Client]), Bytes(received[Server])>>
       /\ ToClient!Init /\ [][ToClient!Next]_<<Bytes(sent[Server]), Bytes(received[Client])>>)
        => BothPipes
  BY DEF BothPipes, ClientPipe, ServerPipe, ToServer!Spec, ToClient!Spec
<1> QED
  BY <1>1, <1>2, <1>4, <1>6, <1>7, TypeCorrect, PTL DEF Spec

-----------------------------------------------------------------------------
(* What keeps a connection up.                                             *)

\* The units w are those of whole frames.
Paired(w) ==
    \E n \in Nat :
        /\ Len(w) = 2 * n
        /\ \A k \in 1..n : ~w[2 * k - 1].last /\ w[2 * k].frame = w[2 * k - 1].frame

\* No unit of w makes a client close its connection or restart its timer.
Plain(w) == \A i \in DOMAIN w : ~w[i].frame.masked /\ w[i].frame.opcode # "PING"

\* Before the client has its answer no time passes for a server that gave it.
Opening ==
    /\ ~told[Client] /\ keep_alive_responded[Client] = TRUE
    /\ "BAD" \notin OpcodesIn(net[Client])
    /\ status[Server] # "INIT" => /\ keep_alive_timer[Server] = Started(ServerTimeout)
                                  /\ keep_alive[Server] = ServerTimeout

\* Afterwards there are whole frames on both ways, and a loop that ends leaves
\* less than one in the buffer.
Linked ==
    /\ \A p \in Peers : Paired(Wire(p)) /\ (HasFrame(buffer[p]) => loop[p])
    /\ Plain(Wire(Client))

\* The server's timer has more time left than its client's, unless a ping is on
\* its way; a ping that is not answered yet is on its way, or its answer is.
Timing ==
    /\ keep_alive[Server] = ServerTimeout
    /\ keep_alive_timer[Client].interval = ClientTimeout
    /\ keep_alive_timer[Client].left <= ClientTimeout
    /\ keep_alive_timer[Server].left > 0
    /\ \/ "PING" \in OpcodesIn(Wire(Server))
       \/ keep_alive_timer[Server].left > keep_alive_timer[Client].left
    /\ \/ keep_alive_responded[Client]
       \/ /\ keep_alive_timer[Client].left > 0
          /\ "PING" \in OpcodesIn(Wire(Server)) \/ "PONG" \in OpcodesIn(Wire(Client))

\* Nobody has left, and both sides do in time what is due.
AllPrompt == Prompt /\ \A p \in Peers : gone[p] = "no"

UpInv ==
    AllPrompt =>
        /\ \A p \in Peers : status[p] # "CLOSING"
        /\ status[Client] = "INIT" => Opening
        /\ status[Client] # "INIT" => Linked /\ Timing

(* Nothing is a sequence of whole frames.                                   *)
LEMMA PairedNothing == Paired(<<>>) /\ Plain(<<>>)
<1>1. Len(<<>>) = 2 * 0 /\ 1..0 = {} /\ DOMAIN <<>> = {} /\ 0 \in Nat
  OBVIOUS
<1>2. Paired(<<>>)
  BY <1>1 DEF Paired
<1>3. Plain(<<>>)
  BY <1>1, Zenon DEF Plain
<1> QED
  BY <1>2, <1>3

(* A frame is two units.                                                    *)
LEMMA TwoUnits ==
    ASSUME NEW f \in FrameType, f.opcode \notin Texts
    PROVE  /\ Units(f) \in Seq(UnitType) /\ Len(Units(f)) = 2
           /\ Units(f)[1] = [frame |-> f, last |-> FALSE]
           /\ Units(f)[2] = [frame |-> f, last |-> TRUE]
<1>1. Units(f) = <<[frame |-> f, last |-> FALSE], [frame |-> f, last |-> TRUE]>>
  BY DEF Units
<1> DEFINE x == [frame |-> f, last |-> FALSE]
           y == [frame |-> f, last |-> TRUE]
<1>2. <<x, y>>[1] = x /\ <<x, y>>[2] = y /\ Len(<<x, y>>) = 2
  <2> HIDE DEF x, y
  <2> QED
    OBVIOUS
<1> QED
  BY <1>1, <1>2, UnitsTyped, Zenon

(* Another frame behind whole ones.                                         *)
LEMMA PairedMore ==
    ASSUME NEW w \in Seq(UnitType), Paired(w), NEW f \in FrameType, f.opcode \notin Texts
    PROVE  Paired(w \o Units(f))
<1>1. PICK n \in Nat :
        /\ Len(w) = 2 * n
        /\ \A k \in 1..n : ~w[2 * k - 1].last /\ w[2 * k].frame = w[2 * k - 1].frame
  BY DEF Paired
<1> DEFINE u == Units(f)
           a == w \o u
<1>2. /\ u \in Seq(UnitType) /\ Len(u) = 2
      /\ u[1] = [frame |-> f, last |-> FALSE] /\ u[2] = [frame |-> f, last |-> TRUE]
  BY TwoUnits
<1> HIDE DEF u
<1>3. /\ Len(a) = Len(w) + Len(u)
      /\ \A i \in 1..Len(w) + Len(u) : a[i] = IF i <= Len(w) THEN w[i] ELSE u[i - Len(w)]
  BY <1>2, ConcatProperties
<1>4. Len(a) = 2 * (n + 1) /\ n + 1 \in Nat
  BY <1>1, <1>2, <1>3
<1> HIDE DEF a
<1>5. ASSUME NEW k \in 1..n + 1
      PROVE  ~a[2 * k - 1].last /\ a[2 * k].frame = a[2 * k - 1].frame
  <2>1. CASE k \in 1..n
    <3>1. /\ 2 * k - 1 \in 1..Len(w) + Len(u) /\ 2 * k \in 1..Len(w) + Len(u)
          /\ 2 * k - 1 <= Len(w) /\ 2 * k <= Len(w)
      BY <1>1, <1>2, <2>1
    <3>2. a[2 * k - 1] = w[2 * k - 1] /\ a[2 * k] = w[2 * k]
      BY <1>3, <3>1
    <3> QED
      BY <1>1, <2>1, <3>2
  <2>2. CASE k = n + 1
    <3>1. /\ 2 * k - 1 \in 1..Len(w) + Len(u) /\ 2 * k \in 1..Len(w) + Len(u)
          /\ ~(2 * k - 1 <= Len(w)) /\ ~(2 * k <= Len(w))
          /\ (2 * k - 1) - Len(w) = 1 /\ 2 * k - Len(w) = 2
      BY <1>1, <1>2, <2>2
    <3>2. a[2 * k - 1] = u[1] /\ a[2 * k] = u[2]
      BY <1>3, <3>1
    <3> QED
      BY <1>2, <3>2
  <2> QED
    BY <1>1, <2>1, <2>2
<1> QED
  BY <1>4, <1>5 DEF Paired, a, u

(* The units of a plain frame behind plain ones.                            *)
LEMMA PlainMore ==
    ASSUME NEW w \in Seq(UnitType), Plain(w), NEW f \in FrameType, f.opcode \notin Texts,
           ~f.masked, f.opcode # "PING"
    PROVE  Plain(w \o Units(f))
<1> DEFINE u == Units(f)
           a == w \o u
<1>1. /\ u \in Seq(UnitType) /\ Len(u) = 2
      /\ u[1] = [frame |-> f, last |-> FALSE] /\ u[2] = [frame |-> f, last |-> TRUE]
  BY TwoUnits
<1> HIDE DEF u
<1>2. /\ a \in Seq(UnitType) /\ Len(a) = Len(w) + Len(u) /\ Len(w) \in Nat
      /\ \A i \in 1..Len(w) + Len(u) : a[i] = IF i <= Len(w) THEN w[i] ELSE u[i - Len(w)]
  BY <1>1, ConcatProperties, LenProperties
<1>3. DOMAIN a = 1..Len(w) + 2 /\ DOMAIN w = 1..Len(w)
  BY <1>1, <1>2, LenProperties
<1> HIDE DEF a
<1>4. ASSUME NEW i \in DOMAIN a
      PROVE  ~a[i].frame.masked /\ a[i].frame.opcode # "PING"
  <2>1. CASE i <= Len(w)
    <3>1. i \in DOMAIN w /\ a[i] = w[i]
      BY <1>1, <1>2, <1>3, <2>1
    <3> QED
      BY <3>1 DEF Plain
  <2>2. CASE ~(i <= Len(w))
    <3>1. i - Len(w) = 1 \/ i - Len(w) = 2
      BY <1>2, <1>3, <2>2
    <3>2. a[i] = u[i - Len(w)]
      BY <1>1, <1>2, <1>3, <2>2
    <3>3. a[i].frame = f
      BY <1>1, <3>1, <3>2
    <3> QED
      BY <3>3
  <2> QED
    BY <2>1, <2>2
<1> QED
  BY <1>4 DEF Plain, a, u

(* What is left of whole frames without the first.                          *)
LEMMA PairedLess ==
    ASSUME NEW w \in Seq(UnitType), Paired(w), Len(w) >= 2
    PROVE  LET v == SubSeq(w, 3, Len(w))
           IN  /\ v \in Seq(UnitType) /\ Paired(v)
               /\ OpcodesIn(w) = {Head(w).frame.opcode} \cup OpcodesIn(v)
               /\ Plain(w) => Plain(v) /\ ~Head(w).frame.masked /\ Head(w).frame.opcode # "PING"
<1> DEFINE v == SubSeq(w, 3, Len(w))
<1>1. PICK n \in Nat :
        /\ Len(w) = 2 * n
        /\ \A k \in 1..n : ~w[2 * k - 1].last /\ w[2 * k].frame = w[2 * k - 1].frame
  BY DEF Paired
<1>2. v \in Seq(UnitType) /\ Len(v) = Len(w) - 2 /\ \A i \in 1..Len(w) - 2 : v[i] = w[i + 2]
  BY BehindFrame
<1>3. n - 1 \in Nat /\ Len(v) = 2 * (n - 1) /\ 1 \in 1..n
  BY <1>1, <1>2
<1>4. DOMAIN w = 1..Len(w) /\ DOMAIN v = 1..Len(w) - 2 /\ Len(w) \in Nat
  BY <1>2, LenProperties
<1> HIDE DEF v
<1>5. Paired(v)
  <2>1. ASSUME NEW k \in 1..n - 1
        PROVE  ~v[2 * k - 1].last /\ v[2 * k].frame = v[2 * k - 1].frame
    <3> DEFINE j == k + 1
    <3>1. /\ 2 * k - 1 \in 1..Len(w) - 2 /\ 2 * k \in 1..Len(w) - 2 /\ j \in 1..n
          /\ (2 * k - 1) + 2 = 2 * j - 1 /\ 2 * k + 2 = 2 * j
      BY <1>1, <1>3
    <3> HIDE DEF j
    <3>2. v[2 * k - 1] = w[2 * j - 1] /\ v[2 * k] = w[2 * j]
      BY <1>2, <3>1
    <3> QED
      BY <1>1, <3>1, <3>2
  <2> QED
    BY <1>3, <2>1 DEF Paired
<1>6. w # <<>> /\ Head(w) = w[1] /\ w[2].frame = w[1].frame /\ 1 \in DOMAIN w
  <2>1. w # <<>>
    BY <1>1, EmptySeq
  <2>2. ~w[2 * 1 - 1].last /\ w[2 * 1].frame = w[2 * 1 - 1].frame
    BY <1>1, <1>3
  <2> QED
    BY <1>4, <2>1, <2>2, OpcodesEnds
<1>7. \A i \in 1..Len(w) : w[i].frame = w[1].frame \/ (i - 2 \in 1..Len(w) - 2 /\ v[i - 2] = w[i])
  <2> TAKE i \in 1..Len(w)
  <2>1. CASE i = 1 \/ i = 2
    BY <1>6, <2>1
  <2>2. CASE ~(i = 1 \/ i = 2)
    <3>1. i - 2 \in 1..Len(w) - 2 /\ (i - 2) + 2 = i
      BY <1>4, <2>2
    <3> QED
      BY <1>2, <3>1
  <2> QED
    BY <2>1, <2>2
<1>8. \A i \in 1..Len(w) - 2 : i + 2 \in 1..Len(w) /\ v[i] = w[i + 2]
  BY <1>2, <1>4
<1>9. OpcodesIn(w) = {Head(w).frame.opcode} \cup OpcodesIn(v)
  <2>1. ASSUME NEW x \in OpcodesIn(w)
        PROVE  x \in {Head(w).frame.opcode} \cup OpcodesIn(v)
    BY <1>4, <1>6, <1>7 DEF OpcodesIn
  <2>2. ASSUME NEW x \in OpcodesIn(v)
        PROVE  x \in OpcodesIn(w)
    BY <1>4, <1>8 DEF OpcodesIn
  <2>3. Head(w).frame.opcode \in OpcodesIn(w)
    BY <1>6 DEF OpcodesIn
  <2> QED
    BY <2>1, <2>2, <2>3
<1>10. ASSUME Plain(w)
       PROVE  Plain(v) /\ ~Head(w).frame.masked /\ Head(w).frame.opcode # "PING"
  BY <1>4, <1>6, <1>8, <1>10 DEF Plain
<1> QED
  BY <1>2, <1>5, <1>9, <1>10 DEF v

(* Units of whole frames in which there is no whole frame are none.         *)
LEMMA PairedEmpty ==
    ASSUME NEW w \in Seq(UnitType), Paired(w), ~HasFrame(w)
    PROVE  w = <<>>
<1>1. PICK n \in Nat :
        /\ Len(w) = 2 * n
        /\ \A k \in 1..n : ~w[2 * k - 1].last /\ w[2 * k].frame = w[2 * k - 1].frame
  BY DEF Paired
<1>2. CASE n = 0
  BY <1>1, <1>2, EmptySeq
<1>3. CASE n # 0
  <2>1. 1 \in 1..n /\ 2 * 1 - 1 = 1 /\ Len(w) >= 2
    BY <1>1, <1>3
  <2>2. ~w[1].last
    BY <1>1, <2>1
  <2> QED
    BY <2>1, <2>2 DEF HasFrame
<1> QED
  BY <1>2, <1>3

(* A handshake that is completed starts the timer with the interval of the  *)
(* role.                                                                    *)
LEMMA HandshakeStarts ==
    ASSUME TypeOK, NEW p \in Peers, ReadChunk(p), status[p] # "READY", status'[p] = "READY"
    PROVE  /\ keep_alive'[p] = Interval(p) /\ keep_alive_timer'[p] = Started(Interval(p))
           /\ keep_alive'[Other(p)] = keep_alive[Other(p)]
           /\ keep_alive_timer'[Other(p)] = keep_alive_timer[Other(p)]
           /\ keep_alive_responded' = keep_alive_responded
<1>1. PICK b : Handshake(p, b)
  BY DEF ReadChunk
<1>2. /\ keep_alive' = [keep_alive EXCEPT ![p] = Interval(p)]
      /\ keep_alive_timer' = [keep_alive_timer EXCEPT ![p] = Started(Interval(p))]
      /\ UNCHANGED keep_alive_responded
  BY <1>1 DEF Handshake
<1>3. Other(p) \in Peers /\ Other(p) # p
  BY OtherPeer
<1> QED
  BY <1>2, <1>3 DEF TypeOK

(* A step while the client waits for its answer.                            *)
LEMMA OpeningUp ==
    ASSUME TypeOK, HandInv, EarlyData = FALSE, Closers = {}, Server \notin Strangers,
           ClientTimeout < ServerTimeout,
           UpInv, AllPrompt, AllPrompt', Next, status[Client] = "INIT"
    PROVE  /\ \A p \in Peers : status'[p] # "CLOSING"
           /\ status'[Client] = "INIT" => Opening'
           /\ status'[Client] # "INIT" => Linked' /\ Timing'
<1>1. /\ Client \in Peers /\ Server \in Peers /\ Client # Server
      /\ Other(Client) = Server /\ Other(Server) = Client
      /\ \A p \in Peers : p = Client \/ p = Server
  BY WsAssumption DEF Peers, Other
<1>2. /\ status \in [Peers -> {"INIT", "READY", "CLOSING"}]
      /\ net \in [Peers -> Seq(UnitType)] /\ told \in [Peers -> BOOLEAN]
      /\ net[Client] \in Seq(UnitType) /\ net[Server] \in Seq(UnitType)
  BY <1>1 DEF TypeOK
<1>3. /\ \A p \in Peers : status[p] # "CLOSING"
      /\ Opening /\ Prompt /\ \A p \in Peers : gone[p] = "no" /\ gone'[p] = "no"
  BY DEF UpInv, AllPrompt
<1>4. /\ ~told[Client] /\ keep_alive_responded[Client] = TRUE
      /\ "BAD" \notin OpcodesIn(net[Client])
      /\ status[Server] # "INIT" => /\ keep_alive_timer[Server] = Started(ServerTimeout)
                                    /\ keep_alive[Server] = ServerTimeout
  BY <1>3 DEF Opening
<1>5. /\ \A p \in Peers : sent[p] = <<>> /\ received[p] = <<>> /\ cache[p] = <<>> /\ ~loop[p]
      /\ keep_alive_timer[Client] = Stopped
      /\ status[Server] # "INIT" => buffer[Server] = <<>> /\ net[Server] = <<>>
      /\ AnswerComes
  BY <1>1, <1>3, <1>4 DEF HandInv, ClientWaits, Unused
<1>6. /\ status[Server] = "INIT" => /\ keep_alive_timer[Server] = Stopped
                                    /\ OpcodesIn(net[Client]) \subseteq {"BAD"}
      /\ ~client_role[Server] /\ (status[Server] # "INIT" => client_role[Client])
  BY DEF HandInv, ServerWaits, Roles
<1>7. /\ buffer[Client] = <<>>
      /\ net[Client] = <<>> => status[Server] = "INIT"
      /\ First(net[Client], "RESPONSE") /\ status[Server] = "READY" => Len(net[Client]) <= 1
      /\ net[Client] # <<>> => /\ First(net[Client], "RESPONSE") /\ status[Server] = "READY"
  <2>1. net[Client] # <<>> => Head(net[Client]).frame.opcode \in OpcodesIn(net[Client])
    BY <1>2, OpcodesEnds
  <2>2. net[Client] # <<>> => First(net[Client], "BAD") \/ First(net[Client], "RESPONSE")
    BY <1>5 DEF AnswerComes
  <2>3. net[Client] # <<>> => First(net[Client], "RESPONSE")
    BY <1>4, <2>1, <2>2 DEF First
  <2>4. net[Client] # <<>> => status[Server] # "INIT"
    BY <1>4, <1>6, <2>1
  <2>5. status[Server] # "INIT" => status[Server] = "READY"
    BY <1>1, <1>2, <1>3
  <2> QED
    BY <1>5, <2>3, <2>4, <2>5 DEF AnswerComes
<1>8. /\ ~Expired(Stopped) /\ ~Expired(Started(ServerTimeout)) /\ Stopped.left = 0
      /\ Started(ServerTimeout).left = ServerTimeout
  BY WsAssumption DEF Expired, Running, Stopped, Started
\* Nothing that matters here has changed.
<1>9. ASSUME status' = status, told'[Client] = told[Client], net'[Client] = net[Client], UNCHANGED timeVars
      PROVE  /\ \A p \in Peers : status'[p] # "CLOSING"
             /\ status'[Client] = "INIT" => Opening'
             /\ status'[Client] # "INIT" => Linked' /\ Timing'
  <2>1. Opening'
    BY <1>4, <1>9 DEF Opening, timeVars
  <2> QED
    BY <1>3, <1>9, <2>1
<1>10. ~Tick
  <2>1. ASSUME Tick
        PROVE  FALSE
    <3>1. \A p \in Peers : ~Owed(p)
      BY <1>3, <2>1 DEF Tick
    <3>2. net[Client] = <<>>
      BY <1>1, <3>1 DEF Owed
    <3>3. \A p \in Peers : keep_alive_timer[p] = Stopped
      BY <1>1, <1>5, <1>6, <1>7, <3>2
    <3>4. PICK p \in Peers : keep_alive_timer[p].left > 0
      BY <2>1 DEF Tick
    <3>5. Stopped.left > 0
      BY <3>3, <3>4
    <3> QED
      BY <1>8, <3>5
  <2> QED
    BY <2>1
<1>11. ASSUME NEW p \in Peers, Connect(p) \/ WriteText(p)
       PROVE  status' = status /\ told'[Client] = told[Client] /\ net'[Client] = net[Client]
              /\ UNCHANGED timeVars
  <2>1. p = Client
    BY <1>1, <1>11 DEF Connect, WriteText
  <2>2. Control("REQUEST", FALSE) \in FrameType /\ Control("BAD", FALSE) \in FrameType
    BY ControlTyped DEF Texts
  <2>3. net'[Client] = net[Client]
    <3>1. CASE Connect(p)
      BY <1>1, <1>2, <2>1, <2>2, <3>1, WritesUnits DEF Connect
    <3>2. CASE WriteText(p)
      BY <1>1, <1>2, <2>1, <2>2, <3>2, WritesUnits DEF WriteText
    <3> QED
      BY <1>11, <3>1, <3>2
  <2> QED
    BY <1>11, <2>3 DEF Connect, WriteText, appVars
<1>12. ASSUME NEW p \in Peers,
              \/ Write(p) \/ WriteFrame(p) \/ Disconnect(p) \/ HandleReceivedFrame(p)
              \/ ReadBytes(p) \/ ReadFrame(p) \/ ReadFrameTooLong(p) \/ ReadZero(p)
              \/ DoTime(p) \/ Close(p) \/ Crash(p)
       PROVE  FALSE
  <2>1. Other(p) \in Peers
    BY OtherPeer
  <2>2. ~Write(p) /\ ~WriteFrame(p)
    BY <1>1, <1>5 DEF Write, WriteFrame, MayWrite
  <2>3. ~Disconnect(p) /\ ~HandleReceivedFrame(p) /\ ~ReadBytes(p) /\ ~ReadFrame(p) /\ ~ReadFrameTooLong(p)
    BY <1>5 DEF Disconnect, HandleReceivedFrame, ReadBytes, ReadFrame, ReadFrameTooLong, HasMessage
  <2>4. ~ReadZero(p)
    BY <1>3, <1>5, <2>1 DEF ReadZero, PeekReturnsZero, HasMessage, AtEndOfFile
  <2>5. ~DoTime(p)
    BY <1>1, <1>4, <1>5, <1>6, <1>8 DEF DoTime
  <2>6. ~Close(p) /\ ~Crash(p)
    <3>1. gone \in [Peers -> {"no", "closed", "silent"}] /\ gone'[p] = "no"
      BY <1>3 DEF TypeOK
    <3> QED
      BY <3>1 DEF Close, Crash
  <2> QED
    BY <1>12, <2>2, <2>3, <2>4, <2>5, <2>6
<1>13. ASSUME NEW p \in Peers, ReadNothing(p)
       PROVE  status' = status /\ told'[Client] = told[Client] /\ net'[Client] = net[Client]
              /\ UNCHANGED timeVars
  BY <1>13 DEF ReadNothing, appVars
<1>14. ASSUME ReadChunk(Server)
       PROVE  /\ \A p \in Peers : status'[p] # "CLOSING"
              /\ status'[Client] = "INIT" => Opening'
              /\ status'[Client] # "INIT" => Linked' /\ Timing'
  <2>1. PICK b, rest : /\ Takes(Server, b, rest)
                       /\ \/ TakesFrames(Server, b) \/ TakesText(Server, b)
                          \/ TakesBad(Server, b) \/ TakesPart(Server, b)
    BY <1>1, <1>14, ReadWays
  <2>2. status[Server] = "INIT"
    BY <1>5, <2>1 DEF Takes
  <2>3. CASE TakesText(Server, b)
    <3> DEFINE f == Control("RESPONSE", FALSE)
    <3>1. /\ status' = [status EXCEPT ![Server] = "READY"] /\ told' = told
          /\ \/ net'[Client] = net[Client]
             \/ net'[Client] = net[Client] \o Units(f)
      BY <1>1, <2>3 DEF TakesText
    <3>2. f \in FrameType /\ f.opcode = "RESPONSE"
      BY ControlTyped DEF Texts, Control, Frame
    <3> HIDE DEF f
    <3>3. OpcodesIn(net[Client] \o Units(f)) = OpcodesIn(net[Client]) \cup {f.opcode}
      BY <1>2, <3>2, FrameAppended
    <3>4. "BAD" \notin OpcodesIn(net'[Client])
      <4>1. CASE net'[Client] = net[Client]
        BY <1>4, <4>1
      <4>2. CASE net'[Client] = net[Client] \o Units(f)
        BY <1>4, <3>2, <3>3, <4>2
      <4> QED
        BY <3>1, <4>1, <4>2
    <3>5. status'[Server] = "READY" /\ status'[Client] = status[Client]
      BY <1>1, <1>2, <3>1
    <3>6. keep_alive'[Server] = ServerTimeout /\ keep_alive_timer'[Server] = Started(ServerTimeout)
          /\ keep_alive_responded' = keep_alive_responded
      BY <1>1, <1>6, <1>14, <2>2, <3>5, HandshakeStarts DEF Interval
    <3>7. Opening'
      BY <1>4, <3>1, <3>4, <3>6 DEF Opening
    <3> QED
      BY <1>1, <3>5, <3>7
  <2>4. CASE TakesBad(Server, b) \/ TakesPart(Server, b)
    BY <1>1, <1>2, <1>9, <2>4 DEF TakesBad, TakesPart
  <2> QED
    BY <2>1, <2>2, <2>3, <2>4 DEF TakesFrames
<1>15. ASSUME ReadChunk(Client)
       PROVE  /\ \A p \in Peers : status'[p] # "CLOSING"
              /\ Linked' /\ Timing'
  <2>1. PICK b, rest : /\ Takes(Client, b, rest)
                       /\ \/ TakesFrames(Client, b) \/ TakesText(Client, b)
                          \/ TakesBad(Client, b) \/ TakesPart(Client, b)
    BY <1>1, <1>15, ReadWays
  <2>2. /\ net[Client] # <<>> /\ net'[Client] = rest /\ Head(b) = Head(net[Client])
        /\ Len(net[Client]) <= 1 => rest = <<>>
        /\ buffer'[Server] = buffer[Server]
    BY <1>1, <1>7, <2>1 DEF Takes
  <2>3. /\ status[Server] = "READY" /\ Head(b).frame.opcode = "RESPONSE" /\ rest = <<>>
    BY <1>7, <2>2 DEF First
  <2>4. /\ status' = [status EXCEPT ![Client] = "READY"] /\ buffer'[Client] = <<>>
        /\ net'[Server] = net[Server] /\ loop' = loop
    BY <1>1, <2>1, <2>3 DEF TakesFrames, TakesText, TakesBad, TakesPart, Texts
  <2>5. /\ buffer[Server] = <<>> /\ net[Server] = <<>> /\ <<>> \o <<>> = <<>>
        /\ client_role[Client]
    BY <1>5, <1>6, <2>3
  <2>6. \A p \in Peers : buffer'[p] = <<>> /\ net'[p] = <<>> /\ Wire(p)' = <<>>
    BY <1>1, <2>2, <2>3, <2>4, <2>5 DEF Wire
  <2>7. status'[Client] = "READY" /\ status'[Server] = "READY"
    BY <1>1, <1>2, <2>3, <2>4
  <2>8. /\ keep_alive_timer'[Client] = Started(ClientTimeout)
        /\ keep_alive_timer'[Server] = Started(ServerTimeout) /\ keep_alive'[Server] = ServerTimeout
        /\ keep_alive_responded'[Client] = TRUE
    BY <1>1, <1>4, <1>15, <2>3, <2>5, <2>7, HandshakeStarts DEF Interval
  <2>9. Linked'
    <3>1. \A p \in Peers : ~HasFrame(buffer'[p])
      BY <2>6 DEF HasFrame
    <3>2. \A p \in Peers : Paired(Wire(p)')
      BY <2>6, PairedNothing
    <3>3. Plain(Wire(Client)')
      BY <1>1, <2>6, PairedNothing
    <3> QED
      BY <3>1, <3>2, <3>3 DEF Linked
  <2>10. Timing'
    BY <2>8, WsAssumption DEF Timing, Started
  <2> QED
    BY <1>1, <2>7, <2>9, <2>10
<1>16. ASSUME NEW p \in Peers, ReadChunk(p)
       PROVE  /\ \A r \in Peers : status'[r] # "CLOSING"
              /\ status'[Client] = "INIT" => Opening'
              /\ status'[Client] # "INIT" => Linked' /\ Timing'
  <2>1. CASE p = Server
    BY <1>14, <1>16, <2>1
  <2>2. CASE p = Client
    <3>1. ReadChunk(Client)
      BY <1>16, <2>2
    <3>2. PICK b, rest : /\ Takes(Client, b, rest)
                         /\ \/ TakesFrames(Client, b) \/ TakesText(Client, b)
                            \/ TakesBad(Client, b) \/ TakesPart(Client, b)
      BY <1>1, <3>1, ReadWays
    <3>3. status'[Client] # "INIT"
      <4>1. Head(b).frame.opcode = "RESPONSE"
        BY <1>1, <1>7, <3>2 DEF Takes, First
      <4> QED
        BY <1>1, <1>2, <3>2, <4>1 DEF TakesFrames, TakesText, TakesBad, TakesPart, Texts
    <3> QED
      BY <1>15, <3>1, <3>3
  <2> QED
    BY <1>1, <2>1, <2>2
<1> QED
  BY <1>9, <1>10, <1>11, <1>12, <1>13, <1>16 DEF Next

(* A frame that is written while both are there.                            *)
LEMMA LinkedWritten ==
    ASSUME TypeOK, Linked, NEW q \in Peers, NEW f \in FrameType, f.opcode \notin Texts, Writes(q, f),
           UNCHANGED <<buffer, loop>>, gone[Other(q)] = "no",
           q = Server => ~f.masked /\ f.opcode # "PING"
    PROVE  /\ Linked'
           /\ OpcodesIn(Wire(q)') = OpcodesIn(Wire(q))
           /\ OpcodesIn(Wire(Other(q))') = OpcodesIn(Wire(Other(q))) \cup {f.opcode}
<1> DEFINE r == Other(q)
           w == Wire(r)
<1>1. /\ r \in Peers /\ r # q /\ \A s \in Peers : s = q \/ s = r
      /\ Client \in Peers /\ (Client = r => q = Server)
  BY OtherPeer
<1>2. Wire(q)' = Wire(q) /\ Wire(r)' = w \o Units(f) /\ w \in Seq(UnitType)
  BY <1>1, WireWritten, WireTyped
<1>3. Paired(w) /\ Paired(Wire(q)) /\ Plain(Wire(Client))
  BY <1>1 DEF Linked
<1> HIDE DEF w, r
<1>4. OpcodesIn(w \o Units(f)) = OpcodesIn(w) \cup {f.opcode} /\ Paired(w \o Units(f))
  BY <1>2, <1>3, FrameAppended, PairedMore
<1>5. \A s \in Peers : Paired(Wire(s)')
  BY <1>1, <1>2, <1>3, <1>4
<1>6. Plain(Wire(Client)')
  <2>1. CASE Client = q
    BY <1>2, <1>3, <2>1
  <2>2. CASE Client = r
    <3>1. Plain(w) /\ Wire(Client)' = w \o Units(f)
      BY <1>2, <1>3, <2>2 DEF w
    <3>2. Plain(w \o Units(f))
      BY <1>1, <1>2, <2>2, <3>1, PlainMore
    <3> QED
      BY <3>1, <3>2
  <2> QED
    BY <1>1, <2>1, <2>2
<1>7. \A s \in Peers : HasFrame(buffer'[s]) => loop'[s]
  BY DEF Linked
<1>8. Linked'
  BY <1>5, <1>6, <1>7 DEF Linked
<1> QED
  BY <1>2, <1>4, <1>8 DEF r, w

(* All that the handler of a frame writes that is not masked for a client.  *)
LEMMA OnlyPong ==
    ASSUME TypeOK, NEW p \in Peers, NEW f \in FrameType, Replies(p, f),
           gone[Other(p)] = "no", ~(f.masked /\ client_role[p])
    PROVE  net'[Other(p)] = IF f.opcode = "PING" THEN net[Other(p)] \o Units(Control("PONG", client_role[p]))
                            ELSE net[Other(p)]
<1> DEFINE q == Other(p)
           pong == Units(Control("PONG", client_role[p]))
<1>1. q \in Peers /\ net \in [Peers -> Seq(UnitType)] /\ net[q] \in Seq(UnitType)
      /\ client_role[p] \in BOOLEAN
  BY OtherPeer DEF TypeOK
<1>2. pong \in Seq(UnitType)
  BY <1>1, ControlTyped, UnitsTyped
<1>3. CASE f.opcode = "PING"
  <2>1. net' = [net EXCEPT ![q] = (net[q] \o <<>>) \o pong]
    BY <1>1, <1>3 DEF Replies
  <2>2. net[q] \o <<>> = net[q]
    BY <1>1, ConcatEmptySeq
  <2> QED
    BY <1>1, <1>3, <2>1, <2>2
<1>4. CASE f.opcode # "PING"
  <2>1. net' = [net EXCEPT ![q] = (net[q] \o <<>>) \o <<>>]
    BY <1>1, <1>4 DEF Replies
  <2>2. net[q] \o <<>> = net[q]
    BY <1>1, ConcatEmptySeq
  <2> QED
    BY <1>1, <1>4, <2>1, <2>2
<1> QED
  BY <1>3, <1>4

(* A frame that is handled while both are there.                            *)
LEMMA LinkedHandled ==
    ASSUME TypeOK, Linked, ~client_role[Server], NEW p \in Peers, HandleReceivedFrame(p),
           gone[Other(p)] = "no"
    PROVE  LET f == Head(buffer[p]).frame
           IN  /\ Linked' /\ status' = status
               /\ OpcodesIn(Wire(p)) = {f.opcode} \cup OpcodesIn(Wire(p)')
               /\ OpcodesIn(Wire(Other(p))) \subseteq OpcodesIn(Wire(Other(p))')
               /\ f.opcode = "PING" => p = Server /\ "PONG" \in OpcodesIn(Wire(Other(p))')
               /\ \/ f.opcode = "PING" /\ ReceivePing(p, f)
                  \/ f.opcode = "PONG" /\ ReceivePong(p, f)
                  \/ f.opcode \notin {"PING", "PONG"} /\ UNCHANGED timeVars
<1> DEFINE f == Head(buffer[p]).frame
           rest == SubSeq(buffer[p], 3, Len(buffer[p]))
           q == Other(p)
           w == Wire(p)
           v == Wire(q)
           g == Control("PONG", client_role[p])
<1>1. /\ loop[p] /\ buffer' = [buffer EXCEPT ![p] = rest]
      /\ loop' = [loop EXCEPT ![p] = MoreFrames(rest)]
      /\ CloseIfMasked(p, f) /\ Replies(p, f)
      /\ \/ ReceiveMessage(p, f) \/ ReceiveContinue(p, f)
         \/ ReceivePing(p, f) \/ ReceivePong(p, f) \/ ReceiveClose(p, f)
  BY DEF HandleReceivedFrame
<1>2. /\ q \in Peers /\ q # p /\ (\A s \in Peers : s = p \/ s = q)
      /\ Client \in Peers /\ (p = Client \/ p = Server) /\ (q = Client => p = Server)
  BY OtherPeer DEF Peers
<1>3. /\ buffer[p] \in Seq(UnitType) /\ HasFrame(buffer[p]) /\ f \in FrameType
      /\ rest \in Seq(UnitType) /\ Len(buffer[p]) >= 2 /\ client_role[p] \in BOOLEAN
      /\ net[p] \in Seq(UnitType) /\ net[q] \in Seq(UnitType) /\ buffer[q] \in Seq(UnitType)
      /\ w \in Seq(UnitType) /\ v \in Seq(UnitType)
  BY <1>1, <1>2, HandledFrame, FirstFrame, WireTyped
<1>4. /\ buffer'[p] = rest /\ buffer'[q] = buffer[q] /\ net'[p] = net[p]
      /\ loop'[p] = HasFrame(rest) /\ loop'[q] = loop[q]
  BY <1>1, <1>2, <1>3, RepliesUnits DEF TypeOK, MoreFrames
<1>5. Paired(w) /\ Paired(v) /\ Plain(Wire(Client)) /\ (HasFrame(buffer[q]) => loop[q])
  BY <1>2 DEF Linked
<1>6. /\ Wire(p)' = rest \o net[p]
      /\ rest \o net[p] = SubSeq(w, 3, Len(w)) /\ Head(w) = Head(buffer[p])
  BY <1>3, <1>4, RestOfTheWay DEF Wire
<1>7. Len(w) >= 2
  <2>1. Len(w) = Len(buffer[p]) + Len(net[p])
    BY <1>3, ConcatProperties DEF Wire
  <2>2. Len(buffer[p]) \in Nat /\ Len(net[p]) \in Nat /\ Len(buffer[p]) >= 2
    BY <1>3, LenProperties
  <2>3. \A m, n \in Nat : m >= 2 => m + n >= 2
    OBVIOUS
  <2>4. Len(buffer[p]) + Len(net[p]) >= 2
    BY <2>2, <2>3
  <2> HIDE DEF w
  <2> QED
    BY <2>1, <2>4, Zenon
<1>8. /\ Paired(Wire(p)') /\ OpcodesIn(w) = {f.opcode} \cup OpcodesIn(Wire(p)')
      /\ Plain(w) => Plain(Wire(p)') /\ ~f.masked /\ f.opcode # "PING"
  <2> HIDE DEF w
  <2> QED
    BY <1>3, <1>5, <1>6, <1>7, PairedLess
<1>9. ~(f.masked /\ client_role[p]) /\ (f.opcode = "PING" => p = Server)
  BY <1>2, <1>5, <1>8
<1>10. status' = status
  BY <1>1, <1>9 DEF CloseIfMasked
<1>11. net'[q] = IF f.opcode = "PING" THEN net[q] \o Units(g) ELSE net[q]
  BY <1>1, <1>3, <1>9, OnlyPong
<1>12. g \in FrameType /\ g.opcode = "PONG" /\ g.masked = client_role[p]
  BY <1>3, ControlTyped DEF Control, Frame
<1>13. /\ Paired(Wire(q)') /\ OpcodesIn(v) \subseteq OpcodesIn(Wire(q)')
       /\ f.opcode = "PING" => "PONG" \in OpcodesIn(Wire(q)')
       /\ q = Client => Plain(Wire(q)')
  <2>1. CASE f.opcode # "PING"
    <3>1. Wire(q)' = v
      BY <1>4, <1>11, <2>1 DEF Wire
    <3> QED
      BY <1>5, <2>1, <3>1
  <2>2. CASE f.opcode = "PING"
    <3>1. Wire(q)' = buffer[q] \o (net[q] \o Units(g)) /\ v = buffer[q] \o net[q]
      BY <1>4, <1>11, <2>2 DEF Wire
    <3>2. Units(g) \in Seq(UnitType)
      BY <1>12, UnitsTyped
    <3>3. Wire(q)' = v \o Units(g)
      <4> DEFINE a == buffer[q]
                 b == net[q]
                 u == Units(g)
      <4>1. a \in Seq(UnitType) /\ b \in Seq(UnitType) /\ u \in Seq(UnitType)
        BY <1>3, <3>2
      <4> HIDE DEF a, b, u
      <4>2. a \o (b \o u) = (a \o b) \o u
        BY <4>1, UnitsAssociate
      <4> QED
        BY <3>1, <4>2 DEF a, b, u
    <3> HIDE DEF v, g
    <3>4. OpcodesIn(v \o Units(g)) = OpcodesIn(v) \cup {g.opcode} /\ Paired(v \o Units(g))
      <4>1. g.opcode \notin Texts
        BY <1>12 DEF Texts
      <4> QED
        BY <1>3, <1>5, <1>12, <4>1, FrameAppended, PairedMore
    <3>5. ASSUME q = Client
          PROVE  Plain(v \o Units(g))
      <4>1. Plain(v) /\ ~g.masked /\ g.opcode # "PING" /\ g.opcode \notin Texts
        BY <1>2, <1>5, <1>12, <3>5 DEF v, Texts
      <4> QED
        BY <1>3, <1>12, <4>1, PlainMore
    <3> QED
      BY <1>12, <3>3, <3>4, <3>5
  <2> QED
    BY <2>1, <2>2
<1>14. Linked'
  <2>1. \A s \in Peers : Paired(Wire(s)')
    BY <1>2, <1>8, <1>13
  <2>2. \A s \in Peers : HasFrame(buffer'[s]) => loop'[s]
    BY <1>2, <1>4, <1>5
  <2>3. Plain(Wire(Client)')
    BY <1>2, <1>5, <1>8, <1>13
  <2> QED
    BY <2>1, <2>2, <2>3 DEF Linked
<1>15. \/ f.opcode = "PING" /\ ReceivePing(p, f)
       \/ f.opcode = "PONG" /\ ReceivePong(p, f)
       \/ f.opcode \notin {"PING", "PONG"} /\ UNCHANGED timeVars
  BY <1>1 DEF ReceiveMessage, ReceiveContinue, ReceivePing, ReceivePong, ReceiveClose
<1> QED
  BY <1>8, <1>9, <1>10, <1>13, <1>14, <1>15

(* A step of two streams that are connected.                                *)
LEMMA ConnectedUp ==
    ASSUME TypeOK, HandInv, Closers = {}, Server \notin Careless, ClientTimeout < ServerTimeout,
           UpInv, AllPrompt, AllPrompt', Next, status[Client] # "INIT"
    PROVE  (\A p \in Peers : status'[p] # "CLOSING") /\ Linked' /\ Timing'
<1> DEFINE C == keep_alive_timer[Client]
           S == keep_alive_timer[Server]
<1>1. /\ Client \in Peers /\ Server \in Peers /\ Client # Server
      /\ Other(Client) = Server /\ Other(Server) = Client
      /\ \A p \in Peers : p = Client \/ p = Server
  BY WsAssumption DEF Peers, Other
<1>2. /\ \A p \in Peers : status[p] # "CLOSING"
      /\ Linked /\ Timing /\ Prompt /\ \A p \in Peers : gone[p] = "no" /\ gone'[p] = "no"
  BY DEF UpInv, AllPrompt
<1>3. /\ client_role[Client] = TRUE /\ ~client_role[Server] /\ status[Server] # "INIT"
      /\ \A p \in Peers : TextFree(Wire(p))
  BY <1>1 DEF HandInv, Roles, Connected, TypeOK
<1>4. /\ keep_alive[Server] = ServerTimeout
      /\ C.interval = ClientTimeout /\ C.left <= ClientTimeout /\ S.left > 0
      /\ "PING" \in OpcodesIn(Wire(Server)) \/ S.left > C.left
      /\ \/ keep_alive_responded[Client] = TRUE
         \/ /\ C.left > 0
            /\ "PING" \in OpcodesIn(Wire(Server)) \/ "PONG" \in OpcodesIn(Wire(Client))
  BY <1>1, <1>2 DEF Timing, TypeOK
<1>5. /\ C \in TimerType /\ S \in TimerType /\ C.left \in Nat /\ S.left \in Nat
      /\ keep_alive_timer \in [Peers -> TimerType] /\ keep_alive \in [Peers -> Nat]
      /\ keep_alive_responded \in [Peers -> BOOLEAN]
      /\ ServerTimeout \in Nat \ {0} /\ ClientTimeout \in Nat \ {0}
  BY <1>1, WsAssumption DEF TypeOK, TimerType
\* What happens to the timers is nothing.
<1>6. ASSUME Linked', status' = status, UNCHANGED timeVars,
             \A p \in Peers : OpcodesIn(Wire(p)) \subseteq OpcodesIn(Wire(p)')
      PROVE  (\A p \in Peers : status'[p] # "CLOSING") /\ Linked' /\ Timing'
  <2>1. Timing'
    BY <1>1, <1>4, <1>6 DEF Timing, timeVars
  <2> QED
    BY <1>2, <1>6, <2>1
<1>7. ASSUME NEW p \in Peers, Connect(p) \/ WriteText(p) \/ Disconnect(p) \/ Close(p) \/ Crash(p)
      PROVE  FALSE
  <2>1. gone \in [Peers -> {"no", "closed", "silent"}] /\ gone'[p] = "no" /\ Other(p) \in Peers
    BY <1>2, OtherPeer DEF TypeOK
  <2>2. status[Other(p)] # "INIT"
    BY <1>1, <1>3, <2>1
  <2> QED
    BY <1>3, <1>7, <2>1, <2>2 DEF Connect, WriteText, Disconnect, Close, Crash
<1>8. ASSUME NEW p \in Peers, Write(p) \/ WriteFrame(p)
      PROVE  (\A r \in Peers : status'[r] # "CLOSING") /\ Linked' /\ Timing'
  <2>1. PICK f \in FrameType : /\ f.opcode \in Data /\ Writes(p, f)
                               /\ p \notin Careless => f.masked = client_role[p]
    BY <1>8, WriteEffect
  <2>2. UNCHANGED <<buffer, loop, status, timeVars>>
    BY <1>8 DEF Write, WriteFrame
  <2>3. f.opcode \notin Texts /\ f.opcode # "PING" /\ (p = Server => ~f.masked) /\ gone[Other(p)] = "no"
    BY <1>2, <1>3, <2>1, OtherPeer DEF Texts, Data
  <2>4. /\ Linked' /\ OpcodesIn(Wire(p)') = OpcodesIn(Wire(p))
        /\ OpcodesIn(Wire(Other(p))') = OpcodesIn(Wire(Other(p))) \cup {f.opcode}
    BY <1>2, <2>1, <2>2, <2>3, LinkedWritten
  <2>5. \A r \in Peers : OpcodesIn(Wire(r)) \subseteq OpcodesIn(Wire(r)')
    BY <2>4, OtherPeer
  <2> QED
    BY <1>6, <2>2, <2>4, <2>5
<1>9. ASSUME NEW p \in Peers,
             ReadBytes(p) \/ ReadFrame(p) \/ ReadFrameTooLong(p) \/ ReadNothing(p) \/ ReadZero(p)
      PROVE  (\A r \in Peers : status'[r] # "CLOSING") /\ Linked' /\ Timing'
  <2>1. UNCHANGED <<status, buffer, net, loop, timeVars>>
    BY <1>9 DEF ReadBytes, ReadFrame, ReadFrameTooLong, ReadNothing, ReadZero, appVars
  <2>2. Linked' /\ \A r \in Peers : Wire(r)' = Wire(r)
    BY <1>2, <2>1 DEF Linked, Wire
  <2> QED
    BY <1>6, <2>1, <2>2
<1>10. ASSUME NEW p \in Peers, ReadChunk(p)
       PROVE  (\A r \in Peers : status'[r] # "CLOSING") /\ Linked' /\ Timing'
  <2>1. PICK b, rest : /\ Takes(p, b, rest)
                       /\ TakesFrames(p, b) \/ TakesText(p, b) \/ TakesBad(p, b) \/ TakesPart(p, b)
    BY <1>10, ReadWays
  <2>2. status[p] = "READY"
    <3>1. status[p] \in {"INIT", "READY", "CLOSING"} /\ status[p] # "CLOSING" /\ status[p] # "INIT"
      BY <1>1, <1>2, <1>3 DEF TypeOK
    <3> QED
      BY <3>1
  <2>3. /\ buffer'[p] = b /\ buffer'[Other(p)] = buffer[Other(p)]
        /\ loop' = [loop EXCEPT ![p] = HasFrame(b)] /\ UNCHANGED <<status, timeVars>>
    BY <2>1, <2>2 DEF Takes, TakesFrames, TakesText, TakesBad, TakesPart
  <2>4. Wire(p)' = Wire(p) /\ Wire(Other(p))' = Wire(Other(p))
    BY <1>3, <1>10, ConnectedRead
  <2>5. \A r \in Peers : Wire(r)' = Wire(r)
    BY <2>4, OtherPeer
  <2>6. \A r \in Peers : HasFrame(buffer'[r]) => loop'[r]
    <3>1. /\ Other(p) \in Peers /\ Other(p) # p /\ (HasFrame(buffer[Other(p)]) => loop[Other(p)])
          /\ loop \in [Peers -> BOOLEAN]
      BY <1>2, OtherPeer DEF Linked, TypeOK
    <3>2. loop'[Other(p)] = loop[Other(p)] /\ loop'[p] = HasFrame(b)
      BY <2>3, <3>1
    <3>3. (HasFrame(buffer'[p]) => loop'[p]) /\ (HasFrame(buffer'[Other(p)]) => loop'[Other(p)])
      BY <2>3, <3>1, <3>2
    <3> QED
      BY <3>3, OtherPeer
  <2>7. Linked'
    BY <1>1, <1>2, <2>5, <2>6 DEF Linked
  <2> QED
    BY <1>6, <2>3, <2>5, <2>7
<1>11. ASSUME NEW p \in Peers, HandleReceivedFrame(p)
       PROVE  (\A r \in Peers : status'[r] # "CLOSING") /\ Linked' /\ Timing'
  <2> DEFINE f == Head(buffer[p]).frame
  <2>1. /\ Linked' /\ status' = status
        /\ OpcodesIn(Wire(p)) = {f.opcode} \cup OpcodesIn(Wire(p)')
        /\ OpcodesIn(Wire(Other(p))) \subseteq OpcodesIn(Wire(Other(p))')
        /\ f.opcode = "PING" => p = Server /\ "PONG" \in OpcodesIn(Wire(Other(p))')
        /\ \/ f.opcode = "PING" /\ ReceivePing(p, f)
           \/ f.opcode = "PONG" /\ ReceivePong(p, f)
           \/ f.opcode \notin {"PING", "PONG"} /\ UNCHANGED timeVars
    BY <1>2, <1>3, <1>11, LinkedHandled, OtherPeer
  <2>2. CASE f.opcode = "PING"
    <3>1. /\ p = Server /\ keep_alive' = keep_alive /\ keep_alive_responded' = keep_alive_responded
          /\ keep_alive_timer' = [keep_alive_timer EXCEPT ![Server] = Started(ServerTimeout)]
      BY <1>4, <2>1, <2>2 DEF ReceivePing
    <3>2. keep_alive_timer'[Client] = C /\ keep_alive_timer'[Server] = Started(ServerTimeout)
      BY <1>1, <1>5, <3>1
    <3>3. Started(ServerTimeout).left = ServerTimeout
      BY DEF Started
    <3>4. "PONG" \in OpcodesIn(Wire(Client)')
      BY <1>1, <2>1, <2>2, <3>1
    <3>5. Timing'
      <4>1. ServerTimeout > C.left /\ ServerTimeout > 0
        BY <1>4, <1>5
      <4> QED
        BY <1>4, <3>1, <3>2, <3>3, <3>4, <4>1 DEF Timing
    <3> QED
      BY <1>2, <2>1, <3>5
  <2>3. CASE f.opcode = "PONG"
    <3>1. /\ keep_alive' = keep_alive /\ keep_alive_timer' = keep_alive_timer
          /\ keep_alive_responded' = [keep_alive_responded EXCEPT ![p] = TRUE]
      BY <2>1, <2>3 DEF ReceivePong
    <3>2. CASE p = Client
      <4>1. keep_alive_responded'[Client] = TRUE
        BY <1>1, <1>5, <3>1, <3>2
      <4>2. "PING" \in OpcodesIn(Wire(Server)) => "PING" \in OpcodesIn(Wire(Server)')
        BY <1>1, <2>1, <3>2
      <4>3. Timing'
        BY <1>4, <3>1, <4>1, <4>2 DEF Timing
      <4> QED
        BY <1>2, <2>1, <4>3
    <3>3. CASE p = Server
      <4>1. keep_alive_responded'[Client] = keep_alive_responded[Client]
        BY <1>1, <1>5, <3>1, <3>3
      <4>2. /\ "PING" \in OpcodesIn(Wire(Server)) => "PING" \in OpcodesIn(Wire(Server)')
            /\ "PONG" \in OpcodesIn(Wire(Client)) => "PONG" \in OpcodesIn(Wire(Client)')
        BY <1>1, <2>1, <2>3, <3>3
      <4>3. Timing'
        BY <1>4, <3>1, <4>1, <4>2 DEF Timing
      <4> QED
        BY <1>2, <2>1, <4>3
    <3> QED
      BY <1>1, <3>2, <3>3
  <2>4. CASE f.opcode \notin {"PING", "PONG"}
    <3>1. /\ "PING" \in OpcodesIn(Wire(Server)) => "PING" \in OpcodesIn(Wire(Server)')
          /\ "PONG" \in OpcodesIn(Wire(Client)) => "PONG" \in OpcodesIn(Wire(Client)')
      BY <1>1, <2>1, <2>4
    <3>2. UNCHANGED timeVars
      BY <2>1, <2>4
    <3>3. Timing'
      BY <1>4, <3>1, <3>2 DEF Timing, timeVars
    <3> QED
      BY <1>2, <2>1, <3>3
  <2> QED
    BY <2>2, <2>3, <2>4
<1>12. ASSUME NEW p \in Peers, DoTime(p)
       PROVE  (\A r \in Peers : status'[r] # "CLOSING") /\ Linked' /\ Timing'
  <2>1. Expired(keep_alive_timer[p])
    BY <1>12 DEF DoTime
  <2>2. p = Client /\ C.left = 0 /\ keep_alive_responded[Client] = TRUE
    BY <1>1, <1>4, <2>1 DEF Expired
  <2>3. PingDue(Client)
    BY <1>3, <2>1, <2>2 DEF PingDue
  <2>4. /\ Writes(Client, Control("PING", TRUE))
        /\ keep_alive_responded' = [keep_alive_responded EXCEPT ![Client] = FALSE]
        /\ keep_alive_timer' = [keep_alive_timer EXCEPT ![Client] = Restarted(@)]
        /\ UNCHANGED <<status, buffer, keep_alive, loop>>
    BY <1>12, <2>2, <2>3 DEF DoTime
  <2> DEFINE f == Control("PING", TRUE)
  <2>5. f \in FrameType /\ f.opcode = "PING" /\ f.opcode \notin Texts
    BY ControlTyped DEF Control, Frame, Texts
  <2>6. Writes(Client, f)
    BY <2>4
  <2> HIDE DEF f
  <2>7. Linked' /\ OpcodesIn(Wire(Server)') = OpcodesIn(Wire(Server)) \cup {f.opcode}
    BY <1>1, <1>2, <2>4, <2>5, <2>6, LinkedWritten
  <2>8. keep_alive_timer'[Server] = S /\ keep_alive_timer'[Client] = Restarted(C)
    BY <1>1, <1>5, <2>4
  <2>9. Restarted(C).interval = ClientTimeout /\ Restarted(C).left = ClientTimeout
    BY <1>4, <1>5 DEF Restarted, TimerType
  <2>10. Timing'
    BY <1>4, <1>5, <2>4, <2>5, <2>7, <2>8, <2>9 DEF Timing
  <2> QED
    BY <1>2, <2>4, <2>7, <2>10
<1>13. ASSUME Tick
       PROVE  (\A r \in Peers : status'[r] # "CLOSING") /\ Linked' /\ Timing'
  <2>1. /\ \A p \in Peers : ~Owed(p)
        /\ keep_alive_timer' = [p \in Peers |-> Ticked(keep_alive_timer[p])]
        /\ UNCHANGED <<status, buffer, net, loop, keep_alive, keep_alive_responded>>
    BY <1>2, <1>13 DEF Tick
  <2>2. \A p \in Peers : Wire(p) = <<>>
    <3> TAKE p \in Peers
    <3>1. net[p] = <<>> /\ ~loop[p]
      BY <2>1 DEF Owed
    <3>2. buffer[p] \in Seq(UnitType) /\ Wire(p) = buffer[p] /\ <<>> \in Seq(UnitType)
      BY <3>1, WireTyped, ConcatEmptySeq DEF Wire
    <3>3. Paired(buffer[p]) /\ ~HasFrame(buffer[p])
      BY <1>2, <3>1, <3>2 DEF Linked
    <3> QED
      BY <3>2, <3>3, PairedEmpty
  <2>3. \A p \in Peers : OpcodesIn(Wire(p)) = {}
    BY <2>2, OpcodesOfFrame
  <2>4. keep_alive_responded[Client] = TRUE /\ S.left > C.left
    BY <1>1, <1>4, <2>3
  <2>5. C.left > 0
    <3>1. ~Expired(C)
      BY <1>1, <1>2, <2>1 DEF Owed
    <3> QED
      BY <1>4, <1>5, <3>1 DEF Expired, Running
  <2>6. keep_alive_timer'[Client] = Ticked(C) /\ keep_alive_timer'[Server] = Ticked(S)
    BY <1>1, <2>1
  <2>7. /\ Ticked(C).interval = ClientTimeout /\ Ticked(C).left = C.left - 1
        /\ Ticked(S).left = S.left - 1
    BY <1>4, <1>5, <2>5 DEF Ticked, TimerType
  <2>8. Timing'
    <3>1. S.left - 1 > C.left - 1 /\ S.left - 1 > 0 /\ C.left - 1 <= ClientTimeout
      BY <1>4, <1>5, <2>4, <2>5
    <3> HIDE DEF C, S
    <3> QED
      BY <1>4, <2>1, <2>4, <2>6, <2>7, <3>1 DEF Timing
  <2>9. Linked'
    BY <1>2, <2>1 DEF Linked, Wire
  <2> QED
    BY <1>2, <2>1, <2>8, <2>9
<1> QED
  BY <1>7, <1>8, <1>9, <1>10, <1>11, <1>12, <1>13 DEF Next

(* Nobody comes back.                                                       *)
LEMMA GoneStays ==
    ASSUME TypeOK, Next
    PROVE  \A p \in Peers : gone'[p] = "no" => gone[p] = "no"
<1>1. gone \in [Peers -> {"no", "closed", "silent"}]
  BY DEF TypeOK
<1>2. CASE Tick
  BY <1>2 DEF Tick, appVars
<1>3. ASSUME NEW q \in Peers, Close(q) \/ Crash(q)
      PROVE  \A p \in Peers : gone'[p] = "no" => gone[p] = "no"
  BY <1>1, <1>3 DEF Close, Crash
<1>4. ASSUME NEW q \in Peers,
             \/ Connect(q) \/ WriteText(q) \/ Write(q) \/ WriteFrame(q) \/ Disconnect(q)
             \/ ReadChunk(q) \/ HandleReceivedFrame(q)
             \/ ReadBytes(q) \/ ReadFrame(q) \/ ReadFrameTooLong(q) \/ ReadNothing(q) \/ ReadZero(q)
             \/ DoTime(q)
      PROVE  gone' = gone
  BY <1>4 DEF Connect, WriteText, Write, WriteFrame, Disconnect, ReadChunk, HandleReceivedFrame,
              ReadBytes, ReadFrame, ReadFrameTooLong, ReadNothing, ReadZero, DoTime, appVars
<1> QED
  BY <1>2, <1>3, <1>4 DEF Next

(* Every step keeps what a connection needs to stay up.                     *)
LEMMA UpStep ==
    ASSUME TypeOK, HandInv, EarlyData = FALSE, Closers = {}, Server \notin Strangers,
           Server \notin Careless, ClientTimeout < ServerTimeout, UpInv, [Next]_vars
    PROVE  UpInv'
<1> SUFFICES ASSUME AllPrompt'
             PROVE  /\ \A p \in Peers : status'[p] # "CLOSING"
                    /\ status'[Client] = "INIT" => Opening'
                    /\ status'[Client] # "INIT" => Linked' /\ Timing'
  BY DEF UpInv
<1>1. CASE UNCHANGED vars
  <2>1. AllPrompt
    BY <1>1 DEF AllPrompt, vars, appVars
  <2>2. (\A p \in Peers : status[p] # "CLOSING") /\ (status[Client] = "INIT" => Opening)
        /\ (status[Client] # "INIT" => Linked /\ Timing)
    BY <2>1 DEF UpInv
  <2>3. (Opening => Opening') /\ (Linked => Linked') /\ (Timing => Timing') /\ status' = status
    BY <1>1 DEF Opening, Linked, Timing, Wire, vars, timeVars, appVars
  <2> QED
    BY <2>2, <2>3
<1>2. CASE Next
  <2>1. AllPrompt
    <3>1. \A p \in Peers : gone'[p] = "no" => gone[p] = "no"
      BY <1>2, GoneStays
    <3> QED
      BY <3>1 DEF AllPrompt
  <2>2. CASE status[Client] = "INIT"
    BY <1>2, <2>1, <2>2, OpeningUp
  <2>3. CASE status[Client] # "INIT"
    <3>1. status'[Client] # "INIT"
      BY <1>2, <2>3, ConnectedStep
    <3> QED
      BY <1>2, <2>1, <2>3, <3>1, ConnectedUp
  <2> QED
    BY <2>2, <2>3
<1> QED
  BY <1>1, <1>2

(* Two streams that are used as the code prescribes are never closed by     *)
(* stream_ws_do_time or stream_ws_handle_received_frame, however long they  *)
(* are connected, if both sides do what is due within a unit of time: the   *)
(* interval of the server is longer than that of its client.                *)
THEOREM ConnectionStaysUp ==
    ASSUME Closers = {}, Server \notin Careless, Server \notin Strangers, EarlyData = FALSE,
           ClientTimeout < ServerTimeout
    PROVE  Spec => []StaysUp
<1>1. Init => HandInv /\ UpInv
  <2>1. Init => UpInv
    <3> SUFFICES ASSUME Init
                 PROVE  UpInv
      OBVIOUS
    <3>1. Client \in Peers /\ Server \in Peers
      BY DEF Peers
    <3>2. OpcodesIn(<<>>) = {}
      BY OpcodesOfFrame
    <3> QED
      BY <3>1, <3>2 DEF Init, UpInv, Opening
  <2> QED
    BY <2>1, HandInit
<1>2. TypeOK /\ HandInv /\ UpInv /\ [Next]_vars => HandInv' /\ UpInv'
  BY HandStep, UpStep
<1>3. UpInv => StaysUp
  BY DEF UpInv, StaysUp, AllPrompt
<1> QED
  BY <1>1, <1>2, <1>3, TypeCorrect, PTL DEF Spec

=============================================================================
