-------------------------- MODULE StreamMqttProofs --------------------------
(***************************************************************************)
(* Theorems of StreamMqtt: what removing frames from its queues returns,   *)
(* for queues of any length; type correctness; and the resend timer never  *)
(* runs for an empty queue.                                                *)
(***************************************************************************)
EXTENDS StreamMqtt, FiniteSetTheorems, WellFoundedInduction, TLAPS

-----------------------------------------------------------------------------
(* What removing entries from a queue returns (FrameQueue).  The existence *)
(* of the n-th smallest position is shown with the smallest position up to *)
(* which n positions are kept.                                             *)

(* A set of naturals that is not empty has a smallest member (TAILQ_FOREACH *)
(* meets the entries of a queue in the order of their positions).           *)
LEMMA SmallestNat ==
    ASSUME NEW T \in SUBSET Nat, T # {}
    PROVE  \E x \in T : \A y \in T : x <= y
<1>1. PICK x \in T : \A y \in T : ~ (<<y, x>> \in OpToRel(<, Nat))
  BY NatLessThanWellFounded, WFMin
<1>2. \A y \in T : ~ (y < x)
  BY <1>1 DEF OpToRel
<1> QED
  BY <1>2

(* Position n of a queue that was reduced to the positions in K exists and  *)
(* is one of K (stream_mqtt_remove_frame relinks only kept entries).        *)
LEMMA NthExists ==
    ASSUME NEW m \in Nat, NEW K, K \subseteq 1..m, NEW n \in 1..Cardinality(K)
    PROVE  Nth(K, n) \in K /\ Cardinality(UpTo(K, Nth(K, n))) = n
<1>1. IsFiniteSet(K) /\ Cardinality(K) \in Nat
  <2>1. IsFiniteSet(1..m)
    BY FS_Interval
  <2> QED
    BY <2>1, FS_Subset, FS_CardinalityType
<1> DEFINE count(k) == Cardinality(UpTo(K, k))
<1>2. \A k \in Nat : IsFiniteSet(UpTo(K, k)) /\ count(k) \in Nat
  <2> SUFFICES ASSUME NEW k \in Nat PROVE IsFiniteSet(UpTo(K, k)) /\ count(k) \in Nat
    OBVIOUS
  <2>1. UpTo(K, k) \in SUBSET K
    BY DEF UpTo
  <2> QED
    BY <1>1, <2>1, FS_Subset, FS_CardinalityType
<1>3. UpTo(K, m) = K
  <2>1. \A x \in K : x \in Nat /\ x <= m
    OBVIOUS
  <2> QED
    BY <2>1 DEF UpTo
<1>4. UpTo(K, 0) = {}
  <2>1. \A x \in K : ~ (x <= 0)
    OBVIOUS
  <2> QED
    BY <2>1 DEF UpTo
<1>5. count(m) >= n /\ count(0) = 0
  BY <1>1, <1>3, <1>4, FS_EmptySet
<1> DEFINE T == {k \in Nat : count(k) >= n}
<1>6. PICK k \in T : \A j \in T : k <= j
  <2>1. T \in SUBSET Nat /\ T # {}
    BY <1>5
  <2> HIDE DEF T
  <2> QED
    BY <2>1, SmallestNat
<1>7. k \in Nat /\ k # 0 /\ count(k) >= n
  BY <1>5, <1>6
<1>8. k - 1 \in Nat /\ count(k - 1) < n /\ count(k - 1) \in Nat
  <2>1. k - 1 \in Nat /\ k - 1 \notin T
    BY <1>6, <1>7
  <2> QED
    BY <1>2, <2>1
<1>9. k \in K /\ UpTo(K, k) = UpTo(K, k - 1) \cup {k}
  <2>1. \A x \in K : x \in Nat /\ (x <= k <=> x <= k - 1 \/ x = k)
    BY <1>7
  <2>2. CASE k \in K
    BY <2>1, <2>2, <1>7 DEF UpTo
  <2>3. CASE k \notin K
    <3>1. UpTo(K, k) = UpTo(K, k - 1)
      BY <2>1, <2>3 DEF UpTo
    <3> QED
      BY <3>1, <1>7, <1>8
  <2> QED
    BY <2>2, <2>3
<1>10. count(k) <= count(k - 1) + 1
  <2>1. IsFiniteSet(UpTo(K, k - 1))
    BY <1>2, <1>8
  <2>2. \A U : IsFiniteSet(U) /\ Cardinality(U) \in Nat
                 => Cardinality(U \cup {k}) <= Cardinality(U) + 1
    <3> HIDE DEF T, count
    <3> SUFFICES ASSUME NEW U, IsFiniteSet(U), Cardinality(U) \in Nat
                 PROVE  Cardinality(U \cup {k}) <= Cardinality(U) + 1
      OBVIOUS
    <3>1. Cardinality(U \cup {k}) = IF k \in U THEN Cardinality(U) ELSE Cardinality(U) + 1
      BY FS_AddElement
    <3> QED
      BY <3>1
  <2> QED
    BY <2>1, <2>2, <1>8, <1>9
<1>11. k \in K /\ count(k) = n
  <2>1. n \in Nat /\ count(k) \in Nat /\ count(k) >= n
    BY <1>1, <1>2, <1>7
  <2> HIDE DEF count
  <2> QED
    BY <2>1, <1>8, <1>9, <1>10
<1> QED
  BY <1>11 DEF Nth

(* Removing entries gives a queue of entries of the original queue.         *)
THEOREM WithoutType ==
    ASSUME NEW S, NEW q \in Seq(S), NEW D
    PROVE  Without(q, D) \in Seq(S)
<1> DEFINE K == DOMAIN q \ D
<1>1. K \subseteq 1..Len(q) /\ Len(q) \in Nat
  OBVIOUS
<1>2. Cardinality(K) \in Nat
  <2>1. IsFiniteSet(1..Len(q))
    BY <1>1, FS_Interval
  <2> QED
    BY <1>1, <2>1, FS_Subset, FS_CardinalityType
<1>3. \A n \in 1..Cardinality(K) : q[Nth(K, n)] \in S
  BY <1>1, NthExists
<1>4. \A len \in Nat : [1..len -> S] \subseteq Seq(S)
  OBVIOUS
<1>5. [n \in 1..Cardinality(K) |-> q[Nth(K, n)]] \in [1..Cardinality(K) -> S]
  BY <1>3
<1> QED
  BY <1>2, <1>4, <1>5 DEF Without

(* Removing nothing leaves the queue as it was: an acknowledgement that     *)
(* matches no entry of outgoing changes no entry.                           *)
THEOREM WithoutNothing ==
    ASSUME NEW S, NEW q \in Seq(S)
    PROVE  Without(q, {}) = q
<1> DEFINE K == 1..Len(q)
<1>1. Len(q) \in Nat /\ DOMAIN q \ {} = K
  OBVIOUS
<1>2. Cardinality(K) = Len(q)
  BY <1>1, FS_Interval
<1>3. \A k \in K : Cardinality(UpTo(K, k)) = k
  <2> SUFFICES ASSUME NEW k \in K PROVE Cardinality(UpTo(K, k)) = k
    OBVIOUS
  <2>1. UpTo(K, k) = 1..k
    BY <1>1 DEF UpTo
  <2> QED
    BY <2>1, <1>1, FS_Interval
<1>4. \A n \in K : Nth(K, n) = n
  BY <1>3 DEF Nth
<1>5. Without(q, {}) = [n \in K |-> q[n]]
  BY <1>1, <1>2, <1>4 DEF Without
<1> QED
  BY <1>5

(* Every kept entry is still there, and nothing else is.                    *)
THEOREM WithoutEntries ==
    ASSUME NEW S, NEW q \in Seq(S), NEW D
    PROVE  /\ \A n \in DOMAIN Without(q, D) : \E k \in DOMAIN q \ D : Without(q, D)[n] = q[k]
           /\ \A k \in DOMAIN q \ D : \E n \in DOMAIN Without(q, D) : Without(q, D)[n] = q[k]
<1> DEFINE K == DOMAIN q \ D
<1>1. K \subseteq 1..Len(q) /\ Len(q) \in Nat
  OBVIOUS
<1>2. IsFiniteSet(K) /\ Cardinality(K) \in Nat
  <2>1. IsFiniteSet(1..Len(q))
    BY <1>1, FS_Interval
  <2> QED
    BY <1>1, <2>1, FS_Subset, FS_CardinalityType
<1>3. DOMAIN Without(q, D) = 1..Cardinality(K)
  BY DEF Without
<1>4. \A n \in 1..Cardinality(K) : Without(q, D)[n] = q[Nth(K, n)] /\ Nth(K, n) \in K
  BY <1>1, NthExists DEF Without
<1>5. ASSUME NEW k \in K
      PROVE  \E n \in 1..Cardinality(K) : Nth(K, n) = k
  <2> DEFINE n == Cardinality(UpTo(K, k))
  <2>1. \A j \in K : UpTo(K, j) \in SUBSET K /\ j \in UpTo(K, j)
    BY <1>1 DEF UpTo
  <2>2. \A j \in K : IsFiniteSet(UpTo(K, j)) /\ UpTo(K, j) # {}
    BY <2>1, <1>2, FS_Subset
  <2>3. n \in 1..Cardinality(K)
    <3>1. n \in Nat /\ n # 0
      BY <2>2, FS_CardinalityType, FS_EmptySet
    <3>2. n <= Cardinality(K)
      BY <2>1, <1>2, FS_Subset
    <3> HIDE DEF n, K
    <3> QED
      BY <3>1, <3>2, <1>2
  <2>4. Nth(K, n) \in K /\ Cardinality(UpTo(K, Nth(K, n))) = n
    <3> HIDE DEF n
    <3> QED
      BY <2>3, <1>1, NthExists
  <2>5. ASSUME NEW i \in K, NEW j \in K, i < j
        PROVE  Cardinality(UpTo(K, i)) # Cardinality(UpTo(K, j))
    <3>1. UpTo(K, i) \in SUBSET UpTo(K, j) /\ j \notin UpTo(K, i)
      BY <1>1, <2>5 DEF UpTo
    <3> QED
      BY <3>1, <2>1, <2>2, FS_Subset
  <2>6. Nth(K, n) = k
    <3> DEFINE i == Nth(K, n)
    <3>1. i \in K /\ Cardinality(UpTo(K, i)) = Cardinality(UpTo(K, k))
      BY <2>4
    <3> HIDE DEF i, n
    <3>2. i \in Int /\ k \in Int
      BY <3>1, <1>1
    <3>3. ~ (i < k) /\ ~ (k < i)
      BY <3>1, <2>5
    <3>4. i = k
      BY <3>2, <3>3
    <3> QED
      BY <3>4 DEF i
  <2> QED
    BY <2>3, <2>6
<1> QED
  BY <1>3, <1>4, <1>5

-----------------------------------------------------------------------------
(* Which entries a queue holds and which of them come first.               *)

\* x is at a position of q before one of y.
Before(q, x, y) == \E i, j \in DOMAIN q : i < j /\ q[i] = x /\ q[j] = y

(* Which of two pairs of neighbours is joined first makes no difference.    *)
LEMMA ConcatAssociates ==
    ASSUME NEW S, NEW q \in Seq(S), NEW r \in Seq(S), NEW t \in Seq(S)
    PROVE  q \o (r \o t) = (q \o r) \o t
  OBVIOUS

(* A queue followed by another (TAILQ_CONCAT, frames written behind others) *)
(* holds the entries of both, those of the first before the others.         *)
LEMMA ConcatEntries ==
    ASSUME NEW S, NEW q \in Seq(S), NEW r \in Seq(S)
    PROVE  /\ ToSet(q \o r) = ToSet(q) \cup ToSet(r)
           /\ \A x, y : Before(q \o r, x, y) <=>
                \/ Before(q, x, y) \/ Before(r, x, y)
                \/ x \in ToSet(q) /\ y \in ToSet(r)
<1> DEFINE qr == q \o r
<1>1. Len(q) \in Nat /\ Len(r) \in Nat /\ DOMAIN q = 1..Len(q) /\ DOMAIN r = 1..Len(r)
  OBVIOUS
<1>2. DOMAIN qr = 1..(Len(q) + Len(r))
  BY <1>1
<1>3. \A k \in DOMAIN q : k \in DOMAIN qr /\ qr[k] = q[k]
  BY <1>1
<1>4. \A k \in DOMAIN r : Len(q) + k \in DOMAIN qr /\ qr[Len(q) + k] = r[k]
  BY <1>1
<1>5. ASSUME NEW k \in DOMAIN qr, k \notin DOMAIN q
      PROVE  k > Len(q) /\ k - Len(q) \in DOMAIN r /\ qr[k] = r[k - Len(q)]
  BY <1>1, <1>2, <1>5
<1> HIDE DEF qr
<1>6. ToSet(qr) = ToSet(q) \cup ToSet(r)
  <2>1. ToSet(qr) \subseteq ToSet(q) \cup ToSet(r)
    BY <1>3, <1>5 DEF ToSet
  <2>2. ToSet(q) \subseteq ToSet(qr)
    BY <1>3 DEF ToSet
  <2>3. ToSet(r) \subseteq ToSet(qr)
    BY <1>4 DEF ToSet
  <2> QED
    BY <2>1, <2>2, <2>3
<1>7. ASSUME NEW x, NEW y, Before(qr, x, y)
      PROVE  Before(q, x, y) \/ Before(r, x, y) \/ (x \in ToSet(q) /\ y \in ToSet(r))
  <2>1. PICK i \in DOMAIN qr, j \in DOMAIN qr : i < j /\ qr[i] = x /\ qr[j] = y
    BY <1>7 DEF Before
  <2>2. i \in Int /\ j \in Int /\ Len(q) \in Int
    BY <1>1, <1>2
  <2>3. CASE i \in DOMAIN q /\ j \in DOMAIN q
    BY <2>1, <2>3, <1>3 DEF Before
  <2>4. CASE i \in DOMAIN q /\ j \notin DOMAIN q
    <3>1. j - Len(q) \in DOMAIN r /\ r[j - Len(q)] = y
      BY <2>1, <2>4, <1>5
    <3>2. x = q[i]
      BY <2>1, <2>4, <1>3
    <3> QED
      BY <3>1, <3>2, <2>4 DEF ToSet
  <2>5. CASE i \notin DOMAIN q
    <3>1. i > Len(q) /\ j > Len(q)
      BY <2>1, <2>2, <2>5, <1>5
    <3>2. j \notin DOMAIN q
      BY <3>1, <2>2, <1>1
    <3>3. i - Len(q) \in DOMAIN r /\ r[i - Len(q)] = x
      BY <2>1, <2>5, <1>5
    <3>4. j - Len(q) \in DOMAIN r /\ r[j - Len(q)] = y
      BY <2>1, <3>2, <1>5
    <3>5. i - Len(q) < j - Len(q)
      BY <2>1, <2>2
    <3> QED
      BY <3>3, <3>4, <3>5 DEF Before
  <2> QED
    BY <2>3, <2>4, <2>5
<1>8. ASSUME NEW x, NEW y, Before(q, x, y)
      PROVE  Before(qr, x, y)
  BY <1>8, <1>3 DEF Before
<1>9. ASSUME NEW x, NEW y, Before(r, x, y)
      PROVE  Before(qr, x, y)
  <2>1. PICK i \in DOMAIN r, j \in DOMAIN r : i < j /\ r[i] = x /\ r[j] = y
    BY <1>9 DEF Before
  <2>2. Len(q) + i < Len(q) + j
    BY <2>1, <1>1
  <2> QED
    BY <2>1, <2>2, <1>4 DEF Before
<1>10. ASSUME NEW x, NEW y, x \in ToSet(q), y \in ToSet(r)
       PROVE  Before(qr, x, y)
  <2>1. PICK i \in DOMAIN q, j \in DOMAIN r : q[i] = x /\ r[j] = y
    BY <1>10 DEF ToSet
  <2>2. i < Len(q) + j
    BY <2>1, <1>1
  <2>3. qr[i] = x /\ qr[Len(q) + j] = y /\ i \in DOMAIN qr /\ Len(q) + j \in DOMAIN qr
    BY <2>1, <1>3, <1>4
  <2> QED
    BY <2>2, <2>3 DEF Before
<1>11. \A x, y : Before(qr, x, y) <=>
                \/ Before(q, x, y) \/ Before(r, x, y)
                \/ x \in ToSet(q) /\ y \in ToSet(r)
  BY <1>7, <1>8, <1>9, <1>10
<1> QED
  BY <1>6, <1>11 DEF qr

(* A queue of one entry.                                                    *)
LEMMA SingleEntry ==
    ASSUME NEW x
    PROVE  /\ ToSet(<<x>>) = {x}
           /\ \A y, z : ~Before(<<x>>, y, z)
<1>1. DOMAIN <<x>> = {1} /\ <<x>>[1] = x
  OBVIOUS
<1> QED
  BY <1>1 DEF ToSet, Before

(* An empty queue.                                                          *)
LEMMA NoEntry == ToSet(<<>>) = {} /\ \A y, z : ~Before(<<>>, y, z)
<1>1. DOMAIN <<>> = {}
  OBVIOUS
<1> QED
  BY <1>1 DEF ToSet, Before

(* The first entry comes before the others (TAILQ_FIRST).                   *)
LEMMA HeadEntries ==
    ASSUME NEW S, NEW q \in Seq(S), q # <<>>
    PROVE  /\ Head(q) \in S /\ Tail(q) \in Seq(S)
           /\ q = <<Head(q)>> \o Tail(q)
           /\ ToSet(q) = {Head(q)} \cup ToSet(Tail(q))
           /\ \A x, y : Before(q, x, y) <=>
                \/ Before(Tail(q), x, y)
                \/ x = Head(q) /\ y \in ToSet(Tail(q))
<1>1. Head(q) \in S /\ Tail(q) \in Seq(S) /\ <<Head(q)>> \in Seq(S)
  OBVIOUS
<1>2. q = <<Head(q)>> \o Tail(q)
  OBVIOUS
<1> DEFINE h == <<Head(q)>>
           t == Tail(q)
<1>3. /\ ToSet(h \o t) = ToSet(h) \cup ToSet(t)
      /\ \A x, y : Before(h \o t, x, y) <=>
            Before(h, x, y) \/ Before(t, x, y) \/ (x \in ToSet(h) /\ y \in ToSet(t))
  BY <1>1, ConcatEntries
<1>4. ToSet(h) = {Head(q)} /\ \A x, y : ~Before(h, x, y)
  BY SingleEntry
<1>5. q = h \o t
  BY <1>2
<1> HIDE DEF h, t
<1>6. /\ ToSet(q) = {Head(q)} \cup ToSet(t)
      /\ \A x, y : Before(q, x, y) <=> Before(t, x, y) \/ (x = Head(q) /\ y \in ToSet(t))
  BY <1>3, <1>4, <1>5
<1> QED
  BY <1>1, <1>2, <1>6 DEF t

(* The members of a reduced queue keep their order.                         *)
LEMMA NthIncreases ==
    ASSUME NEW m \in Nat, NEW K, K \subseteq 1..m,
           NEW n \in 1..Cardinality(K), NEW k \in 1..Cardinality(K), n < k
    PROVE  Nth(K, n) < Nth(K, k)
<1>1. IsFiniteSet(K) /\ Cardinality(K) \in Nat
  <2>1. IsFiniteSet(1..m)
    BY FS_Interval
  <2> QED
    BY <2>1, FS_Subset, FS_CardinalityType
<1>2. /\ Nth(K, n) \in K /\ Cardinality(UpTo(K, Nth(K, n))) = n
      /\ Nth(K, k) \in K /\ Cardinality(UpTo(K, Nth(K, k))) = k
  BY NthExists
<1> DEFINE a == Nth(K, n)
           b == Nth(K, k)
<1>a. \A x \in K : x \in Int
  OBVIOUS
<1>3. a \in Int /\ b \in Int
  BY <1>2, <1>a
<1>4. ASSUME b <= a PROVE FALSE
  <2>1. UpTo(K, b) \in SUBSET UpTo(K, a) /\ UpTo(K, a) \in SUBSET K
    <3> HIDE DEF a, b
    <3>1. UpTo(K, a) \in SUBSET K
      BY DEF UpTo
    <3>2. ASSUME NEW x \in K, x <= b PROVE x <= a
      BY <1>a, <1>3, <1>4, <3>2
    <3>3. UpTo(K, b) \in SUBSET UpTo(K, a)
      BY <3>2 DEF UpTo
    <3> QED
      BY <3>1, <3>3
  <2>2. IsFiniteSet(UpTo(K, a))
    BY <2>1, <1>1, FS_Subset
  <2>3. Cardinality(UpTo(K, b)) <= Cardinality(UpTo(K, a))
    BY <2>1, <2>2, FS_Subset
  <2> QED
    BY <2>3, <1>1, <1>2
<1> QED
  BY <1>3, <1>4

(* Removing entries leaves the others, in their order (TAILQ_REMOVE).       *)
LEMMA WithoutOrder ==
    ASSUME NEW S, NEW q \in Seq(S), NEW D
    PROVE  /\ ToSet(Without(q, D)) = {q[k] : k \in DOMAIN q \ D}
           /\ \A x, y : Before(Without(q, D), x, y) =>
                \E i, j \in DOMAIN q \ D : i < j /\ q[i] = x /\ q[j] = y
<1> DEFINE K == DOMAIN q \ D
           w == Without(q, D)
<1>1. K \subseteq 1..Len(q) /\ Len(q) \in Nat
  OBVIOUS
<1>2. DOMAIN w = 1..Cardinality(K)
  BY DEF Without
<1>3. \A n \in DOMAIN w : w[n] = q[Nth(K, n)] /\ Nth(K, n) \in K
  BY <1>1, NthExists DEF Without
<1>4. ToSet(w) = {q[k] : k \in K}
  <2>1. /\ \A n \in DOMAIN w : \E k \in K : w[n] = q[k]
        /\ \A k \in K : \E n \in DOMAIN w : w[n] = q[k]
    BY WithoutEntries
  <2> HIDE DEF K, w
  <2> QED
    BY <2>1 DEF ToSet
<1>5. ASSUME NEW x, NEW y, Before(w, x, y)
      PROVE  \E i, j \in K : i < j /\ q[i] = x /\ q[j] = y
  <2>1. PICK n \in DOMAIN w, k \in DOMAIN w : n < k /\ w[n] = x /\ w[k] = y
    BY <1>5 DEF Before
  <2>2. Nth(K, n) < Nth(K, k)
    BY <2>1, <1>1, <1>2, NthIncreases
  <2> HIDE DEF K, w
  <2> QED
    BY <2>1, <2>2, <1>3
<1> QED
  BY <1>4, <1>5

(* What is taken out of a queue keeps its order as well.                    *)
LEMMA OnlyOrder ==
    ASSUME NEW S, NEW q \in Seq(S), NEW D
    PROVE  /\ Only(q, D) \in Seq(S)
           /\ ToSet(Only(q, D)) = {q[k] : k \in DOMAIN q \cap D}
           /\ \A x, y : Before(Only(q, D), x, y) => Before(q, x, y)
<1>1. DOMAIN q \ (DOMAIN q \ D) = DOMAIN q \cap D
  OBVIOUS
<1>2. /\ ToSet(Only(q, D)) = {q[k] : k \in DOMAIN q \ (DOMAIN q \ D)}
      /\ \A x, y : Before(Only(q, D), x, y) =>
           \E i, j \in DOMAIN q \ (DOMAIN q \ D) : i < j /\ q[i] = x /\ q[j] = y
  BY WithoutOrder DEF Only
<1>3. ASSUME NEW x, NEW y, Before(Only(q, D), x, y)
      PROVE  Before(q, x, y)
  <2>1. PICK i, j \in DOMAIN q \ (DOMAIN q \ D) : i < j /\ q[i] = x /\ q[j] = y
    BY <1>2, <1>3
  <2> QED
    BY <2>1 DEF Before
<1> QED
  BY <1>1, <1>2, <1>3, WithoutType DEF Only

-----------------------------------------------------------------------------
(* What the building blocks of the actions keep.                           *)

(* Frames and items built from well-typed parts are well typed.             *)
LEMMA FrameTyped ==
    /\ \A t \in FrameTypes, i \in PacketIds \cup {NoId}, a \in Nat : Frame(t, i, a) \in FrameType
    /\ \A f \in FrameType, n \in Nat : Item(f, n) \in ItemType
    /\ \A item \in ItemType : FrameOf(item) \in FrameType
  BY DEF Frame, Item, FrameOf, FrameType, ItemType

(* Started, stopped, restarted and ticked timers are timers.                *)
LEMMA TimerTyped ==
    /\ Stopped \in TimerType
    /\ \A n \in Nat : Started(n) \in TimerType
    /\ \A t \in TimerType : Restarted(t) \in TimerType /\ Ticked(t) \in TimerType
  BY DEF Stopped, Started, Restarted, Ticked, TimerType

(* The parts of a queue.                                                    *)
LEMMA QueueTyped ==
    ASSUME NEW S, NEW q \in Seq(S)
    PROVE  /\ \A x \in S : /\ Append(q, x) \in Seq(S) /\ Append(q, x) # <<>>
                          /\ InsertHead(x, q) \in Seq(S) /\ InsertHead(x, q) # <<>>
           /\ \A r \in Seq(S) : q \o r \in Seq(S)
           /\ q # <<>> => Head(q) \in S /\ Tail(q) \in Seq(S)
           /\ \A m, n \in Nat : n <= Len(q) => SubSeq(q, m + 1, n) \in Seq(S)
           /\ ToSet(q) \subseteq S
<1>1. \A x \in S : Append(q, x) \in Seq(S) /\ Append(q, x) # <<>>
  <2> SUFFICES ASSUME NEW x \in S PROVE Append(q, x) \in Seq(S) /\ Append(q, x) # <<>>
    OBVIOUS
  <2>1. Append(q, x) \in Seq(S) /\ Len(Append(q, x)) = Len(q) + 1 /\ Len(q) \in Nat
    OBVIOUS
  <2>2. Len(<<>>) = 0
    OBVIOUS
  <2>3. Len(Append(q, x)) # 0
    BY <2>1
  <2> QED
    BY <2>1, <2>2, <2>3
<1>2. \A x \in S : InsertHead(x, q) \in Seq(S) /\ InsertHead(x, q) # <<>>
  BY DEF InsertHead
<1>3. \A r \in Seq(S) : q \o r \in Seq(S)
  OBVIOUS
<1>4. q # <<>> => Head(q) \in S /\ Tail(q) \in Seq(S)
  OBVIOUS
<1>5. \A m, n \in Nat : n <= Len(q) => SubSeq(q, m + 1, n) \in Seq(S)
  <2> SUFFICES ASSUME NEW m \in Nat, NEW n \in Nat, n <= Len(q)
               PROVE  SubSeq(q, m + 1, n) \in Seq(S)
    OBVIOUS
  <2>1. \A i \in (m + 1)..n : q[i] \in S
    OBVIOUS
  <2> QED
    BY <2>1
<1>6. ToSet(q) \subseteq S
  BY DEF ToSet
<1> QED
  BY <1>1, <1>2, <1>3, <1>4, <1>5, <1>6

(* The wire only carries frames.                                            *)
LEMMA WritesTyped ==
    ASSUME TypeOK, NEW p \in Peers, NEW frames \in Seq(FrameType), Writes(p, frames)
    PROVE  net' \in [Peers -> Seq(FrameType)]
<1>1. Other(p) \in Peers
  BY DEF Other, Peers
<1>2. net[Other(p)] \o frames \in Seq(FrameType)
  BY <1>1 DEF TypeOK
<1> QED
  BY <1>1, <1>2 DEF Writes, TypeOK

RecvTyped ==
    /\ incoming \in [Peers -> Seq(FrameType)]
    /\ delivered \in [Peers -> Seq(FrameType)]
    /\ todo \in [Peers -> SUBSET {f \in FrameType : f.type \in Requests}]

(* The application is only given frames.                                    *)
LEMMA HandTyped ==
    ASSUME TypeOK, NEW p \in Peers, NEW frames \in Seq(FrameType), Hand(p, frames)
    PROVE  /\ delivered' \in [Peers -> Seq(FrameType)]
           /\ todo' \in [Peers -> SUBSET {f \in FrameType : f.type \in Requests}]
<1>1. delivered[p] \o frames \in Seq(FrameType)
  BY DEF TypeOK
<1>2. ToSet(frames) \subseteq FrameType
  BY QueueTyped
<1> QED
  BY <1>1, <1>2 DEF Hand, TypeOK

(* stream_mqtt_notify_observer passes frames on as frames.                  *)
LEMMA NotifyTyped ==
    ASSUME TypeOK, NEW p \in Peers, NEW frames \in Seq(FrameType), Notify(p, frames)
    PROVE  RecvTyped'
<1>1. incoming[p] \o frames \in Seq(FrameType)
  BY DEF TypeOK
<1>2. CASE Hand(p, frames) /\ UNCHANGED incoming
  BY <1>2, HandTyped DEF RecvTyped, TypeOK
<1>3. CASE incoming' = [incoming EXCEPT ![p] = @ \o frames] /\ UNCHANGED <<delivered, todo>>
  BY <1>1, <1>3 DEF RecvTyped, TypeOK
<1> QED
  BY <1>2, <1>3 DEF Notify

ResendTyped ==
    /\ resend_attempts \in [Peers -> 0..(ResendAttempts - 1)]
    /\ resend_timer \in [Peers -> TimerType]

(* Starting to resend keeps the timer and the attempts in their ranges.     *)
LEMMA StartResendingTyped ==
    ASSUME TypeOK, NEW p \in Peers, StartResending(p)
    PROVE  ResendTyped'
<1>1. Started(ResendTimeout) \in TimerType /\ 0 \in 0..(ResendAttempts - 1)
  BY NumbersAssumption, TimerTyped
<1> QED
  BY <1>1 DEF StartResending, SetResendTimer, ResendTyped, TypeOK

(* A submitted frame is written or queued as a frame.                       *)
LEMMA SubmitTyped ==
    ASSUME TypeOK, NEW p \in Peers, NEW f \in FrameType, NEW acknowledged \in BOOLEAN,
           Submit(p, f, acknowledged)
    PROVE  /\ net' \in [Peers -> Seq(FrameType)]
           /\ outgoing' \in [Peers -> Seq(ItemType)]
           /\ ResendTyped'
<1>1. net' \in [Peers -> Seq(FrameType)]
  <2>1. <<f>> \in Seq(FrameType)
    OBVIOUS
  <2>2. Writes(p, <<f>>) \/ UNCHANGED net
    BY DEF Submit
  <2> QED
    BY <2>1, <2>2, WritesTyped DEF TypeOK
<1>2. outgoing' \in [Peers -> Seq(ItemType)]
  <2>1. \A n \in Nat : Append(outgoing[p], Item(f, n)) \in Seq(ItemType)
    <3>1. \A n \in Nat : Item(f, n) \in ItemType
      BY FrameTyped
    <3>2. outgoing[p] \in Seq(ItemType)
      BY DEF TypeOK
    <3> QED
      BY <3>1, <3>2
  <2>2. \/ outgoing' = [outgoing EXCEPT ![p] = Append(outgoing[p], Item(f, 0))]
        \/ outgoing' = [outgoing EXCEPT ![p] = Append(outgoing[p], Item(f, 1))]
        \/ outgoing' = outgoing
    BY DEF Submit
  <2>3. outgoing \in [Peers -> Seq(ItemType)]
    BY DEF TypeOK
  <2> QED
    BY <2>1, <2>2, <2>3
<1>3. ResendTyped'
  <2>1. StartResending(p) \/ UNCHANGED <<resend_timer, resend_attempts>>
    BY DEF Submit
  <2> QED
    BY <2>1, StartResendingTyped DEF ResendTyped, TypeOK
<1> QED
  BY <1>1, <1>2, <1>3

-----------------------------------------------------------------------------
(* Type correctness, by groups of actions.                                 *)

(* stream_mqtt_init leaves a well-typed stream.                             *)
LEMMA TypeInit == Init => TypeOK
  BY NumbersAssumption, TimerTyped DEF Init, TypeOK

(* The calls of the application keep the types.                             *)
LEMMA CallsKeepTypes ==
    ASSUME TypeOK, NEW p \in Peers,
           \/ Connect(p) \/ Answer(p) \/ Publish(p) \/ Request(p)
           \/ Disconnect(p) \/ ByteCall(p)
    PROVE  TypeOK'
<1>1. CASE Connect(p)
  <2>1. PICK ka \in KeepAlives :
             /\ keep_alive' = [keep_alive EXCEPT ![p] = ka]
             /\ Writes(p, <<Frame("CONNECT", NoId, ka)>>)
    BY <1>1 DEF Connect
  <2>2. ka \in Nat
    BY AppAssumption
  <2>3. <<Frame("CONNECT", NoId, ka)>> \in Seq(FrameType)
    BY <2>2, FrameTyped DEF FrameTypes
  <2>4. net' \in [Peers -> Seq(FrameType)]
    BY <2>1, <2>3, WritesTyped
  <2> QED
    BY <1>1, <2>1, <2>2, <2>4 DEF Connect, TypeOK, resendVars, recvVars, callVars, envVars
<1>2. CASE Answer(p)
  <2>1. PICK f \in todo[p], code \in ReturnCodes :
             /\ todo' = [todo EXCEPT ![p] = @ \ {f}]
             /\ Writes(p, <<Frame(AnswerType(f.type), f.id, code)>>)
             /\ status' = IF f.type = "CONNECT" /\ code = 0
                          THEN [status EXCEPT ![p] = "READY"] ELSE status
    BY <1>2 DEF Answer
  <2>2. f \in FrameType /\ f.type \in Requests /\ code \in Nat
    BY AppAssumption DEF TypeOK
  <2>3. AnswerType(f.type) \in FrameTypes /\ f.id \in PacketIds \cup {NoId}
    BY <2>2 DEF AnswerType, Requests, FrameTypes, FrameType
  <2>4. <<Frame(AnswerType(f.type), f.id, code)>> \in Seq(FrameType)
    <3>1. Frame(AnswerType(f.type), f.id, code) \in FrameType
      BY <2>2, <2>3 DEF Frame, FrameType
    <3> QED
      BY <3>1
  <2>5. net' \in [Peers -> Seq(FrameType)]
    BY <2>1, <2>4, WritesTyped
  <2> QED
    BY <1>2, <2>1, <2>5 DEF Answer, TypeOK, resendVars, callVars, envVars
<1>3. CASE Publish(p)
  <2>1. PICK id \in PacketIds, qos \in QosLevels :
             /\ published' = [published EXCEPT ![p] = Append(@, Frame("PUBLISH", id, qos))]
             /\ Submit(p, Frame("PUBLISH", id, qos), qos > 0)
    BY <1>3 DEF Publish
  <2>2. qos \in Nat /\ (qos > 0) \in BOOLEAN
    BY AppAssumption
  <2>3. Frame("PUBLISH", id, qos) \in FrameType
    BY <2>2, FrameTyped DEF FrameTypes
  <2>4. /\ net' \in [Peers -> Seq(FrameType)]
        /\ outgoing' \in [Peers -> Seq(ItemType)]
        /\ ResendTyped'
    BY <2>1, <2>2, <2>3, SubmitTyped
  <2>5. published' \in [Peers -> Seq(FrameType)]
    BY <2>1, <2>3 DEF TypeOK
  <2> QED
    BY <1>3, <2>4, <2>5 DEF Publish, TypeOK, ResendTyped, linkVars, recvVars, envVars
<1>4. CASE Request(p)
  <2>1. PICK type \in {"SUBSCRIBE", "UNSUBSCRIBE"}, id \in PacketIds :
             /\ requested' = [requested EXCEPT ![p] = @ \cup {Frame(type, id, 0)}]
             /\ Submit(p, Frame(type, id, 0), TRUE)
    BY <1>4 DEF Request
  <2>2. Frame(type, id, 0) \in FrameType
    BY FrameTyped DEF FrameTypes
  <2>3. /\ net' \in [Peers -> Seq(FrameType)]
        /\ outgoing' \in [Peers -> Seq(ItemType)]
        /\ ResendTyped'
    BY <2>1, <2>2, SubmitTyped
  <2>4. requested' \in [Peers -> SUBSET FrameType]
    BY <2>1, <2>2 DEF TypeOK
  <2> QED
    BY <1>4, <2>3, <2>4 DEF Request, TypeOK, ResendTyped, linkVars, recvVars, envVars
<1>5. CASE Disconnect(p)
  <2>1. <<Frame("DISCONNECT", NoId, 0)>> \in Seq(FrameType)
    BY FrameTyped DEF FrameTypes
  <2>2. net' \in [Peers -> Seq(FrameType)]
    BY <1>5, <2>1, WritesTyped DEF Disconnect
  <2> QED
    BY <1>5, <2>2 DEF Disconnect, TypeOK, resendVars, recvVars, callVars, envVars
<1>6. CASE ByteCall(p)
  BY <1>6 DEF ByteCall, TypeOK, resendVars, recvVars, callVars, envVars
<1> QED
  BY <1>1, <1>2, <1>3, <1>4, <1>5, <1>6

(* Reading from the decorated stream and taking a frame keep the types.     *)
LEMMA ReadsKeepTypes ==
    ASSUME TypeOK, NEW p \in Peers, Read(p) \/ TakeFrame(p)
    PROVE  TypeOK'
<1>1. CASE Read(p)
  <2>1. PICK n \in 1..Len(net[p]) :
             /\ buffer' = [buffer EXCEPT ![p] = SubSeq(net[p], 1, n)]
             /\ net' = [net EXCEPT ![p] = SubSeq(@, n + 1, Len(@))]
    BY <1>1 DEF Read
  <2>2. net[p] \in Seq(FrameType) /\ Len(net[p]) \in Nat /\ n \in Nat /\ n <= Len(net[p])
    BY DEF TypeOK
  <2>3. \A m, k \in Nat : k <= Len(net[p]) => SubSeq(net[p], m + 1, k) \in Seq(FrameType)
    BY <2>2, QueueTyped
  <2>4. SubSeq(net[p], 1, n) \in Seq(FrameType) /\ SubSeq(net[p], n + 1, Len(net[p])) \in Seq(FrameType)
    <3>1. SubSeq(net[p], 0 + 1, n) \in Seq(FrameType)
      BY <2>2, <2>3
    <3>2. SubSeq(net[p], n + 1, Len(net[p])) \in Seq(FrameType)
      BY <2>2, <2>3
    <3> QED
      BY <3>1, <3>2
  <2> QED
    BY <1>1, <2>1, <2>4 DEF Read, TypeOK, linkVars, resendVars, recvVars, callVars, envVars
<1>2. CASE TakeFrame(p)
  <2>1. Head(incoming[p]) \in FrameType /\ Tail(incoming[p]) \in Seq(FrameType)
    BY <1>2, QueueTyped DEF TakeFrame, TypeOK
  <2>2. /\ delivered' \in [Peers -> Seq(FrameType)]
        /\ todo' \in [Peers -> SUBSET {f \in FrameType : f.type \in Requests}]
    <3>1. <<Head(incoming[p])>> \in Seq(FrameType)
      BY <2>1
    <3> QED
      BY <1>2, <3>1, HandTyped DEF TakeFrame
  <2> QED
    BY <1>2, <2>1, <2>2 DEF TakeFrame, TypeOK, linkVars, resendVars, callVars, envVars
<1> QED
  BY <1>1, <1>2

\* What the cases of stream_mqtt_handle_received_frame change.
HandlerTyped ==
    /\ RecvTyped /\ ResendTyped
    /\ status \in [Peers -> {"INIT", "READY", "CLOSING"}]
    /\ keep_alive \in [Peers -> Nat]
    /\ keep_alive_responded \in [Peers -> BOOLEAN]
    /\ keep_alive_timer \in [Peers -> TimerType]
    /\ outgoing \in [Peers -> Seq(ItemType)]
    /\ inbound \in [Peers -> Seq(FrameType)]
    /\ net \in [Peers -> Seq(FrameType)]

(* Every case of stream_mqtt_handle_received_frame keeps the types.         *)
LEMMA HandlersKeepTypes ==
    ASSUME TypeOK, NEW p \in Peers, NEW f \in FrameType,
           \/ ReceiveConnect(p, f) \/ ReceiveConnack(p, f) \/ ReceiveForApplication(p, f)
           \/ ReceivePublish(p, f) \/ ReceiveAck(p, f) \/ ReceivePubrel(p, f)
           \/ ReceivePing(p, f)
    PROVE  HandlerTyped'
<1> USE DEF HandlerTyped, RecvTyped, ResendTyped, recvVars
<1>0. HandlerTyped /\ f.type \in FrameTypes /\ f.id \in PacketIds \cup {NoId} /\ f.arg \in Nat
  BY DEF TypeOK, FrameType
<1>1. <<f>> \in Seq(FrameType)
  OBVIOUS
<1>2. Notify(p, <<f>>) => RecvTyped'
  BY <1>1, NotifyTyped
<1>3. \A t \in FrameTypes, i \in PacketIds \cup {NoId} :
        Writes(p, <<Frame(t, i, 0)>>) => net' \in [Peers -> Seq(FrameType)]
  <2> SUFFICES ASSUME NEW t \in FrameTypes, NEW i \in PacketIds \cup {NoId},
                      Writes(p, <<Frame(t, i, 0)>>)
               PROVE  net' \in [Peers -> Seq(FrameType)]
    OBVIOUS
  <2>1. Frame(t, i, 0) \in FrameType
    BY FrameTyped
  <2>2. <<Frame(t, i, 0)>> \in Seq(FrameType)
    BY <2>1
  <2> QED
    BY <2>2, WritesTyped
<1>4. CASE ReceiveConnect(p, f)
  <2>1. WithMargin(f.arg) \in Nat /\ Started(WithMargin(f.arg)) \in TimerType
    BY <1>0, NumbersAssumption, TimerTyped DEF WithMargin
  <2>2. \/ UNCHANGED <<keep_alive, keep_alive_timer>>
        \/ /\ keep_alive' = [keep_alive EXCEPT ![p] = WithMargin(f.arg)]
           /\ keep_alive_timer' =
                [keep_alive_timer EXCEPT ![p] = Started(WithMargin(f.arg))]
    BY <1>4 DEF ReceiveConnect
  <2>3. keep_alive' \in [Peers -> Nat]
    BY <1>0, <2>1, <2>2
  <2>4. keep_alive_timer' \in [Peers -> TimerType]
    BY <1>0, <2>1, <2>2
  <2>5. Notify(p, <<f>>) /\ UNCHANGED <<status, keep_alive_responded, resend_attempts,
                                       resend_timer, outgoing, inbound, net>>
    BY <1>4 DEF ReceiveConnect
  <2> QED
    BY <1>0, <1>2, <2>3, <2>4, <2>5
<1>5. CASE ReceiveConnack(p, f)
  <2>1. Started(keep_alive[p]) \in TimerType
    BY <1>0, TimerTyped
  <2>2. \/ UNCHANGED <<keep_alive_timer, status>>
        \/ /\ status' = [status EXCEPT ![p] = "READY"]
           /\ keep_alive_timer' =
                [keep_alive_timer EXCEPT ![p] = Started(keep_alive[p])]
    BY <1>5 DEF ReceiveConnack
  <2>3. status' \in [Peers -> {"INIT", "READY", "CLOSING"}]
    BY <1>0, <2>2
  <2>4. keep_alive_timer' \in [Peers -> TimerType]
    BY <1>0, <2>1, <2>2
  <2>5. Notify(p, <<f>>) /\ UNCHANGED <<keep_alive, keep_alive_responded, resend_attempts,
                                       resend_timer, outgoing, inbound, net>>
    BY <1>5 DEF ReceiveConnack
  <2> QED
    BY <1>0, <1>2, <2>3, <2>4, <2>5
<1>6. CASE ReceiveForApplication(p, f)
  BY <1>0, <1>2, <1>6 DEF ReceiveForApplication
<1>7. CASE ReceivePublish(p, f)
  <2>1. net' \in [Peers -> Seq(FrameType)]
    <3>1. {"PUBREC", "PUBACK"} \subseteq FrameTypes
      BY DEF FrameTypes
    <3>2. \/ Writes(p, <<Frame("PUBREC", f.id, 0)>>) \/ Writes(p, <<Frame("PUBACK", f.id, 0)>>)
          \/ UNCHANGED net
      BY <1>7 DEF ReceivePublish
    <3> QED
      BY <1>0, <1>3, <3>1, <3>2
  <2>2. inbound' \in [Peers -> Seq(FrameType)]
    <3>1. inbound[p] \in Seq(FrameType)
      BY <1>0
    <3>2. ReplacingCopies(inbound[p], f) \in Seq(FrameType)
      <4>1. Without(inbound[p], Matches(inbound[p], "PUBLISH", f.id)) \in Seq(FrameType)
        BY <3>1, WithoutType
      <4> QED
        BY <4>1, QueueTyped DEF ReplacingCopies
    <3>3. \/ inbound' = [inbound EXCEPT ![p] = ReplacingCopies(inbound[p], f)]
          \/ UNCHANGED inbound
      BY <1>7 DEF ReceivePublish
    <3> QED
      BY <1>0, <3>2, <3>3
  <2>3. RecvTyped'
    <3>1. Notify(p, <<f>>) \/ UNCHANGED recvVars
      BY <1>7 DEF ReceivePublish
    <3> QED
      BY <1>0, <1>2, <3>1
  <2> QED
    BY <1>0, <1>7, <2>1, <2>2, <2>3 DEF ReceivePublish
<1>8. CASE ReceiveAck(p, f)
  <2> DEFINE acked == Matches(outgoing[p], RequestType(f.type), f.id)
             rest == Without(outgoing[p], acked)
             pubrel == Frame("PUBREL", f.id, 0)
  <2>1. rest \in Seq(ItemType)
    <3>1. outgoing[p] \in Seq(ItemType)
      BY <1>0
    <3> QED
      BY <3>1, WithoutType
  <2>2. InsertHead(Item(pubrel, 1), rest) \in Seq(ItemType)
    <3>1. Item(pubrel, 1) \in ItemType
      BY <1>0, FrameTyped DEF FrameTypes
    <3> HIDE DEF rest, pubrel
    <3> QED
      BY <2>1, <3>1, QueueTyped
  <2>3. RecvTyped'
    <3>1. Notify(p, <<f>>) \/ UNCHANGED recvVars
      BY <1>8 DEF ReceiveAck
    <3> QED
      BY <1>0, <1>2, <3>1
  <2>4. CASE f.type = "PUBREC"
    <3>1. /\ outgoing' = [outgoing EXCEPT ![p] = InsertHead(Item(pubrel, 1), rest)]
          /\ Writes(p, <<pubrel>>)
          /\ StartResending(p)
      BY <1>8, <2>4 DEF ReceiveAck
    <3>2. net' \in [Peers -> Seq(FrameType)]
      BY <1>0, <1>3, <3>1 DEF FrameTypes
    <3>3. ResendTyped'
      BY <3>1, StartResendingTyped
    <3>4. outgoing' \in [Peers -> Seq(ItemType)]
      BY <1>0, <2>2, <3>1
    <3> QED
      BY <1>0, <1>8, <2>3, <3>2, <3>3, <3>4 DEF ReceiveAck
  <2>5. CASE f.type # "PUBREC"
    <3>1. /\ outgoing' = [outgoing EXCEPT ![p] = rest]
          /\ resend_timer' = [resend_timer EXCEPT ![p] = TimerAfterAck(p, acked)]
          /\ UNCHANGED <<net, resend_attempts>>
      BY <1>8, <2>5 DEF ReceiveAck, SetResendTimer
    <3>2. TimerAfterAck(p, acked) \in TimerType
      BY <1>0, TimerTyped DEF TimerAfterAck
    <3>3. outgoing' \in [Peers -> Seq(ItemType)] /\ ResendTyped'
      BY <1>0, <2>1, <3>1, <3>2
    <3> QED
      BY <1>0, <1>8, <2>3, <3>1, <3>3 DEF ReceiveAck
  <2> QED
    BY <2>4, <2>5
<1>9. CASE ReceivePubrel(p, f)
  <2>1. net' \in [Peers -> Seq(FrameType)]
    BY <1>0, <1>3, <1>9 DEF ReceivePubrel, FrameTypes
  <2>2. \A D : Without(inbound[p], D) \in Seq(FrameType)
    <3>1. inbound[p] \in Seq(FrameType)
      BY <1>0
    <3> QED
      BY <3>1, WithoutType
  <2>3. PICK D, E : /\ inbound' = [inbound EXCEPT ![p] = Without(inbound[p], D)]
                    /\ Notify(p, Without(inbound[p], E))
    BY <1>9 DEF ReceivePubrel, Only
  <2>4. RecvTyped' /\ inbound' \in [Peers -> Seq(FrameType)]
    BY <1>0, <2>2, <2>3, NotifyTyped
  <2> QED
    BY <1>0, <1>9, <2>1, <2>4 DEF ReceivePubrel
<1>10. CASE ReceivePing(p, f)
  <2>1. \/ UNCHANGED net
        \/ Writes(p, <<Frame("PINGRESP", NoId, 0)>>)
    BY <1>10 DEF ReceivePing
  <2>2. net' \in [Peers -> Seq(FrameType)]
    BY <1>0, <1>3, <2>1 DEF FrameTypes
  <2>3. Started(keep_alive[p]) \in TimerType
    BY <1>0, TimerTyped
  <2>4. keep_alive_timer' \in [Peers -> TimerType] /\ keep_alive_responded' \in [Peers -> BOOLEAN]
    BY <1>0, <1>10, <2>3 DEF ReceivePing
  <2> QED
    BY <1>0, <1>10, <2>2, <2>4 DEF ReceivePing
<1> QED
  BY <1>4, <1>5, <1>6, <1>7, <1>8, <1>9, <1>10

(* One turn of the loop of stream_mqtt_peek_frame keeps the types.          *)
LEMMA HandlingKeepsTypes ==
    ASSUME TypeOK, NEW p \in Peers, HandleReceivedFrame(p)
    PROVE  TypeOK'
<1> DEFINE f == Head(buffer[p])
<1>1. buffer[p] \in Seq(FrameType) /\ buffer[p] # <<>>
  BY DEF HandleReceivedFrame, TypeOK
<1>2. f \in FrameType /\ Tail(buffer[p]) \in Seq(FrameType)
  BY <1>1, QueueTyped
<1>3. \/ ReceiveConnect(p, f) \/ ReceiveConnack(p, f) \/ ReceiveForApplication(p, f)
      \/ ReceivePublish(p, f) \/ ReceiveAck(p, f) \/ ReceivePubrel(p, f)
      \/ ReceivePing(p, f)
  BY DEF HandleReceivedFrame
<1>4. HandlerTyped'
  <2> HIDE DEF f
  <2> QED
    BY <1>2, <1>3, HandlersKeepTypes
<1>5. buffer' \in [Peers -> Seq(FrameType)]
  BY <1>2 DEF HandleReceivedFrame, TypeOK
<1> QED
  BY <1>4, <1>5
  DEF HandleReceivedFrame, TypeOK, HandlerTyped, RecvTyped, ResendTyped, callVars, envVars

(* stream_mqtt_do_time keeps the types.                                     *)
LEMMA TimeKeepsTypes ==
    ASSUME TypeOK, NEW p \in Peers, DoTime(p)
    PROVE  TypeOK'
<1>1. /\ status' \in [Peers -> {"INIT", "READY", "CLOSING"}]
      /\ keep_alive_responded' \in [Peers -> BOOLEAN]
      /\ keep_alive_timer' \in [Peers -> TimerType]
  <2>1. Restarted(keep_alive_timer[p]) \in TimerType
    BY TimerTyped DEF TypeOK
  <2> QED
    BY <2>1 DEF DoTime, KeepAliveTime, TypeOK
<1>2. \A frames \in Seq(FrameType) : TimeWrites(p, frames) => net' \in [Peers -> Seq(FrameType)]
  <2> SUFFICES ASSUME NEW frames \in Seq(FrameType), TimeWrites(p, frames)
               PROVE  net' \in [Peers -> Seq(FrameType)]
    OBVIOUS
  <2> DEFINE pings == IF PingDue(p) THEN <<Frame("PINGREQ", NoId, 0)>> ELSE <<>>
  <2>1. pings \in Seq(FrameType)
    BY FrameTyped DEF FrameTypes
  <2>2. Writes(p, pings \o frames)
    BY DEF TimeWrites
  <2> HIDE DEF pings
  <2>3. pings \o frames \in Seq(FrameType)
    BY <2>1
  <2> QED
    BY <2>2, <2>3, WritesTyped
<1>3. outgoing[p] \in Seq(ItemType)
  BY DEF TypeOK
<1>4. \A q \in Seq(ItemType) : q # <<>> => /\ <<FrameOf(Head(q))>> \in Seq(FrameType)
                                           /\ Written(q) \in Seq(ItemType)
  <2> SUFFICES ASSUME NEW q \in Seq(ItemType), q # <<>>
               PROVE  /\ <<FrameOf(Head(q))>> \in Seq(FrameType)
                      /\ Written(q) \in Seq(ItemType)
    OBVIOUS
  <2>1. Head(q) \in ItemType /\ Tail(q) \in Seq(ItemType) /\ q[1] = Head(q)
    BY QueueTyped
  <2>2. FrameOf(Head(q)) \in FrameType
    BY <2>1, FrameTyped
  <2>3. [q[1] EXCEPT !.sent = @ + 1] \in ItemType
    BY <2>1 DEF ItemType
  <2>4. Written(q) \in Seq(ItemType)
    BY <2>1, <2>3, QueueTyped DEF Written
  <2>5. <<FrameOf(Head(q))>> \in Seq(FrameType)
    BY <2>2
  <2> QED
    BY <2>4, <2>5
<1>5. Started(ResendTimeout) \in TimerType /\ Stopped \in TimerType
  BY NumbersAssumption, TimerTyped
<1>6. /\ ResendTyped'
      /\ net' \in [Peers -> Seq(FrameType)]
      /\ outgoing' \in [Peers -> Seq(ItemType)]
      /\ abandoned' \in [Peers -> SUBSET ItemType]
  <2>1. CASE ResendHead(p)
    <3>1. resend_attempts[p] + 1 \in 0..(ResendAttempts - 1)
      BY <2>1, NumbersAssumption DEF ResendHead, AttemptsLeft, TypeOK
    <3>2. outgoing[p] # <<>>
      BY <2>1 DEF ResendHead, ResendDue
    <3> QED
      BY <1>2, <1>3, <1>4, <1>5, <2>1, <3>1, <3>2
      DEF ResendHead, ResendTyped, SetResendTimer, TypeOK
  <2>2. CASE AbandonHead(p)
    <3> DEFINE rest == Tail(outgoing[p])
    <3>1. outgoing[p] # <<>>
      BY <2>2 DEF AbandonHead, ResendDue
    <3>2. rest \in Seq(ItemType) /\ Head(outgoing[p]) \in ItemType
      BY <1>3, <3>1, QueueTyped
    <3>3. 0 \in 0..(ResendAttempts - 1)
      BY NumbersAssumption
    <3>4. /\ resend_attempts' \in [Peers -> 0..(ResendAttempts - 1)]
          /\ abandoned' \in [Peers -> SUBSET ItemType]
      BY <2>2, <3>2, <3>3 DEF AbandonHead, TypeOK
    <3>a. resend_timer \in [Peers -> TimerType] /\ outgoing \in [Peers -> Seq(ItemType)]
      BY DEF TypeOK
    <3>5. CASE rest = <<>>
      <4>1. <<>> \in Seq(FrameType)
        OBVIOUS
      <4>2. /\ TimeWrites(p, <<>>)
            /\ outgoing' = [outgoing EXCEPT ![p] = rest]
            /\ resend_timer' = [resend_timer EXCEPT ![p] = Stopped]
        BY <2>2, <3>5 DEF AbandonHead, SetResendTimer
      <4>3. net' \in [Peers -> Seq(FrameType)]
        BY <1>2, <4>1, <4>2
      <4>4. outgoing' \in [Peers -> Seq(ItemType)] /\ resend_timer' \in [Peers -> TimerType]
        BY <1>5, <3>2, <3>a, <4>2
      <4> QED
        BY <3>4, <4>3, <4>4 DEF ResendTyped
    <3>6. CASE rest # <<>>
      <4>1. <<FrameOf(Head(rest))>> \in Seq(FrameType) /\ Written(rest) \in Seq(ItemType)
        BY <1>4, <3>2, <3>6
      <4>2. /\ TimeWrites(p, <<FrameOf(Head(rest))>>)
            /\ outgoing' = [outgoing EXCEPT ![p] = Written(rest)]
            /\ resend_timer' = [resend_timer EXCEPT ![p] = Started(ResendTimeout)]
        BY <2>2, <3>6 DEF AbandonHead, SetResendTimer
      <4> HIDE DEF rest
      <4>3. net' \in [Peers -> Seq(FrameType)]
        BY <1>2, <4>1, <4>2
      <4>4. outgoing' \in [Peers -> Seq(ItemType)] /\ resend_timer' \in [Peers -> TimerType]
        BY <1>5, <3>a, <4>1, <4>2
      <4> QED
        BY <3>4, <4>3, <4>4 DEF ResendTyped
    <3> QED
      BY <3>5, <3>6
  <2>3. CASE WriteNext(p)
    <3>1. outgoing[p] # <<>>
      BY <2>3 DEF WriteNext, NextDue
    <3> QED
      BY <1>2, <1>3, <1>4, <1>5, <2>3, <3>1
      DEF WriteNext, ResendTyped, SetResendTimer, TypeOK
  <2>4. CASE NothingToWrite(p)
    <3>1. <<>> \in Seq(FrameType)
      OBVIOUS
    <3> QED
      BY <1>2, <2>4, <3>1 DEF NothingToWrite, ResendTyped, TypeOK, resendVars
  <2> QED
    BY <2>1, <2>2, <2>3, <2>4 DEF DoTime
<1> QED
  BY <1>1, <1>6 DEF DoTime, TypeOK, ResendTyped, recvVars, callVars, envVars

(* The clock, a lost frame and a stopped process keep the types.            *)
LEMMA EnvironmentKeepsTypes ==
    ASSUME TypeOK, Tick \/ \E p \in Peers : Lose(p) \/ Crash(p)
    PROVE  TypeOK'
<1>1. CASE Tick
  <2>1. \A p \in Peers : /\ Ticked(keep_alive_timer[p]) \in TimerType
                         /\ Ticked(resend_timer[p]) \in TimerType
    BY TimerTyped DEF TypeOK
  <2> QED
    BY <1>1, <2>1 DEF Tick, TypeOK, recvVars, callVars, envVars
<1>2. ASSUME NEW p \in Peers, Lose(p)
      PROVE  TypeOK'
  <2>1. \A k : Without(net[p], {k}) \in Seq(FrameType)
    <3>1. net[p] \in Seq(FrameType)
      BY DEF TypeOK
    <3> QED
      BY <3>1, WithoutType
  <2>2. net' \in [Peers -> Seq(FrameType)]
    <3>1. PICK k : net' = [net EXCEPT ![p] = Without(net[p], {k})]
      BY <1>2 DEF Lose
    <3> QED
      BY <2>1, <3>1 DEF TypeOK
  <2>3. losses' \in 0..MaxLoss
    BY <1>2, NumbersAssumption DEF Lose, TypeOK
  <2> QED
    BY <1>2, <2>2, <2>3 DEF Lose, TypeOK, linkVars, resendVars, recvVars, callVars
<1>3. ASSUME NEW p \in Peers, Crash(p)
      PROVE  TypeOK'
  BY <1>3 DEF Crash, TypeOK, linkVars, resendVars, recvVars, callVars
<1> QED
  BY <1>1, <1>2, <1>3

(* Every step keeps the types.                                              *)
LEMMA TypeStep == TypeOK /\ [Next]_vars => TypeOK'
<1> SUFFICES ASSUME TypeOK, [Next]_vars PROVE TypeOK'
  OBVIOUS
<1>1. CASE UNCHANGED vars
  BY <1>1 DEF TypeOK, vars, linkVars, resendVars, recvVars, callVars, envVars
<1>2. CASE Next
  BY <1>2, CallsKeepTypes, ReadsKeepTypes, HandlingKeepsTypes, TimeKeepsTypes,
     EnvironmentKeepsTypes DEF Next
<1> QED
  BY <1>1, <1>2

(* Type correctness, for any packet ids, bounds and timeouts: the attempts  *)
(* stay below MQTT_RESEND_ATTEMPTS, whatever is lost or comes late.         *)
THEOREM TypeCorrect == Spec => []TypeOK
  BY TypeInit, TypeStep, PTL DEF Spec

-----------------------------------------------------------------------------
(* The resend timer never runs for an empty queue.                         *)

(* A submitted frame that starts the timer is in the queue.                 *)
LEMMA SubmitKeepsWork ==
    ASSUME TypeOK, ResendTimerHasWork, NEW p \in Peers, NEW f \in FrameType,
           NEW acknowledged \in BOOLEAN, Submit(p, f, acknowledged)
    PROVE  ResendTimerHasWork'
<1>1. outgoing[p] \in Seq(ItemType) /\ \A n \in Nat : Item(f, n) \in ItemType
  BY FrameTyped DEF TypeOK
<1>2. \A n \in Nat : Append(outgoing[p], Item(f, n)) # <<>>
  BY <1>1, QueueTyped
<1>3. \/ outgoing' = [outgoing EXCEPT ![p] = Append(outgoing[p], Item(f, 0))]
      \/ outgoing' = [outgoing EXCEPT ![p] = Append(outgoing[p], Item(f, 1))]
      \/ outgoing' = outgoing /\ resend_timer' = resend_timer
  BY DEF Submit
<1>4. \A q \in Peers : q # p => resend_timer'[q] = resend_timer[q]
  BY DEF Submit, StartResending, SetResendTimer, TypeOK
<1>5. CASE outgoing' = outgoing /\ resend_timer' = resend_timer
  BY <1>5 DEF ResendTimerHasWork
<1>6. CASE \/ outgoing' = [outgoing EXCEPT ![p] = Append(outgoing[p], Item(f, 0))]
           \/ outgoing' = [outgoing EXCEPT ![p] = Append(outgoing[p], Item(f, 1))]
  <2>1. outgoing'[p] # <<>> /\ \A q \in Peers : q # p => outgoing'[q] = outgoing[q]
    BY <1>2, <1>6 DEF TypeOK
  <2> QED
    BY <1>4, <2>1 DEF ResendTimerHasWork
<1> QED
  BY <1>3, <1>5, <1>6

(* An acknowledgement that removes something stops the timer; one that      *)
(* finds nothing leaves the queue as it was.                                *)
LEMMA AckKeepsWork ==
    ASSUME TypeOK, ResendTimerHasWork, NEW p \in Peers, NEW f \in FrameType, ReceiveAck(p, f)
    PROVE  ResendTimerHasWork'
<1> DEFINE acked == Matches(outgoing[p], RequestType(f.type), f.id)
           rest == Without(outgoing[p], acked)
           pubrel == Item(Frame("PUBREL", f.id, 0), 1)
<1>1. outgoing[p] \in Seq(ItemType)
  BY DEF TypeOK
<1>2. \A q \in Peers : q # p => /\ outgoing'[q] = outgoing[q]
                               /\ resend_timer'[q] = resend_timer[q]
  BY DEF ReceiveAck, StartResending, SetResendTimer, TypeOK
<1>3. CASE f.type = "PUBREC"
  <2>1. pubrel \in ItemType
    BY FrameTyped DEF FrameType, FrameTypes
  <2>2. rest \in Seq(ItemType)
    BY <1>1, WithoutType
  <2>3. InsertHead(pubrel, rest) # <<>>
    <3> HIDE DEF pubrel, rest
    <3> QED
      BY <2>1, <2>2, QueueTyped
  <2>4. outgoing'[p] = InsertHead(pubrel, rest)
    BY <1>3 DEF ReceiveAck, TypeOK
  <2> QED
    BY <1>2, <2>3, <2>4 DEF ResendTimerHasWork
<1>4. CASE f.type # "PUBREC"
  <2>1. outgoing'[p] = rest /\ resend_timer'[p] = TimerAfterAck(p, acked)
    BY <1>4 DEF ReceiveAck, SetResendTimer, TypeOK
  <2>2. CASE acked # {}
    <3>1. ~Running(resend_timer'[p])
      BY <2>1, <2>2 DEF TimerAfterAck, Stopped, Running
    <3> QED
      BY <1>2, <3>1 DEF ResendTimerHasWork
  <2>3. CASE acked = {}
    <3>1. rest = outgoing[p]
      BY <1>1, <2>3, WithoutNothing
    <3>2. resend_timer'[p] = resend_timer[p]
      BY <2>1, <2>3 DEF TimerAfterAck
    <3> QED
      BY <1>2, <2>1, <3>1, <3>2 DEF ResendTimerHasWork
  <2> QED
    BY <2>2, <2>3
<1> QED
  BY <1>3, <1>4

(* stream_mqtt_do_time starts the timer for the head it has written, and    *)
(* stops it when it has abandoned the last frame.                           *)
LEMMA TimeKeepsWork ==
    ASSUME TypeOK, ResendTimerHasWork, NEW p \in Peers, DoTime(p)
    PROVE  ResendTimerHasWork'
<1>1. outgoing[p] \in Seq(ItemType)
  BY DEF TypeOK
<1>2. \A q \in Seq(ItemType) : q # <<>> => Written(q) # <<>>
  <2> SUFFICES ASSUME NEW q \in Seq(ItemType), q # <<>> PROVE Written(q) # <<>>
    OBVIOUS
  <2>1. Head(q) \in ItemType /\ Tail(q) \in Seq(ItemType) /\ q[1] = Head(q)
    BY QueueTyped
  <2>2. [q[1] EXCEPT !.sent = @ + 1] \in ItemType
    BY <2>1 DEF ItemType
  <2> QED
    BY <2>1, <2>2, QueueTyped DEF Written
<1>3. \A q \in Peers : q # p => /\ outgoing'[q] = outgoing[q]
                               /\ resend_timer'[q] = resend_timer[q]
  <2>1. \/ UNCHANGED <<outgoing, resend_timer>>
        \/ \E o, t : /\ outgoing' = [outgoing EXCEPT ![p] = o]
                     /\ resend_timer' = [resend_timer EXCEPT ![p] = t]
    BY DEF DoTime, ResendHead, AbandonHead, WriteNext, NothingToWrite, resendVars,
           SetResendTimer
  <2>2. outgoing \in [Peers -> Seq(ItemType)] /\ resend_timer \in [Peers -> TimerType]
    BY DEF TypeOK
  <2> QED
    BY <2>1, <2>2
<1>4. Running(resend_timer'[p]) => outgoing'[p] # <<>>
  <2>1. CASE ResendHead(p)
    BY <1>1, <1>2, <2>1 DEF ResendHead, ResendDue, TypeOK
  <2>2. CASE AbandonHead(p)
    <3> DEFINE rest == Tail(outgoing[p])
    <3>1. rest \in Seq(ItemType)
      BY <1>1, <2>2 DEF AbandonHead, ResendDue
    <3>2. CASE rest = <<>>
      BY <2>2, <3>2 DEF AbandonHead, SetResendTimer, Stopped, Running, TypeOK
    <3>3. CASE rest # <<>>
      <4>1. outgoing'[p] = Written(rest)
        BY <2>2, <3>3 DEF AbandonHead, TypeOK
      <4> QED
        BY <1>2, <3>1, <3>3, <4>1
    <3> QED
      BY <3>2, <3>3
  <2>3. CASE WriteNext(p)
    BY <1>1, <1>2, <2>3 DEF WriteNext, NextDue, TypeOK
  <2>4. CASE NothingToWrite(p)
    BY <2>4 DEF NothingToWrite, resendVars, ResendTimerHasWork
  <2> QED
    BY <2>1, <2>2, <2>3, <2>4 DEF DoTime
<1> QED
  BY <1>3, <1>4 DEF ResendTimerHasWork

(* Every step keeps the work of a running resend timer.                     *)
LEMMA WorkStep == TypeOK /\ ResendTimerHasWork /\ [Next]_vars => ResendTimerHasWork'
<1> SUFFICES ASSUME TypeOK, ResendTimerHasWork, [Next]_vars PROVE ResendTimerHasWork'
  OBVIOUS
<1> DEFINE Same == outgoing' = outgoing /\ resend_timer' = resend_timer
<1>1. Same => ResendTimerHasWork'
  BY DEF ResendTimerHasWork
<1>2. CASE UNCHANGED vars
  BY <1>1, <1>2 DEF vars, resendVars
<1>3. CASE Tick
  <2>1. \A t \in TimerType : Ticked(t).interval = t.interval
    BY DEF Ticked, TimerType
  <2>2. \A q \in Peers : resend_timer'[q] = Ticked(resend_timer[q])
    BY <1>3 DEF Tick
  <2>3. \A q \in Peers : resend_timer'[q].interval = resend_timer[q].interval
    BY <2>1, <2>2 DEF TypeOK
  <2> QED
    BY <1>3, <2>3 DEF Tick, Running, ResendTimerHasWork
<1>4. ASSUME NEW p \in Peers,
             \/ Connect(p) \/ Answer(p) \/ Disconnect(p) \/ ByteCall(p)
             \/ Read(p) \/ TakeFrame(p) \/ Lose(p) \/ Crash(p)
      PROVE  ResendTimerHasWork'
  BY <1>1, <1>4
  DEF Connect, Answer, Disconnect, ByteCall, Read, TakeFrame, Lose, Crash, resendVars
<1>5. ASSUME NEW p \in Peers, Publish(p)
      PROVE  ResendTimerHasWork'
  <2>1. PICK id \in PacketIds, qos \in QosLevels :
             Submit(p, Frame("PUBLISH", id, qos), qos > 0)
    BY <1>5 DEF Publish
  <2>2. qos \in Nat /\ (qos > 0) \in BOOLEAN
    BY AppAssumption
  <2>3. Frame("PUBLISH", id, qos) \in FrameType
    BY <2>2, FrameTyped DEF FrameTypes
  <2> QED
    BY <2>1, <2>2, <2>3, SubmitKeepsWork
<1>6. ASSUME NEW p \in Peers, Request(p)
      PROVE  ResendTimerHasWork'
  <2>1. PICK type \in {"SUBSCRIBE", "UNSUBSCRIBE"}, id \in PacketIds :
             Submit(p, Frame(type, id, 0), TRUE)
    BY <1>6 DEF Request
  <2>2. Frame(type, id, 0) \in FrameType
    BY FrameTyped DEF FrameTypes
  <2> QED
    BY <2>1, <2>2, SubmitKeepsWork
<1>7. ASSUME NEW p \in Peers, HandleReceivedFrame(p)
      PROVE  ResendTimerHasWork'
  <2> DEFINE f == Head(buffer[p])
  <2>1. f \in FrameType
    BY <1>7 DEF HandleReceivedFrame, TypeOK
  <2>2. CASE ReceiveAck(p, f)
    <3> HIDE DEF f
    <3> QED
      BY <2>1, <2>2, AckKeepsWork
  <2>3. CASE ~ReceiveAck(p, f)
    <3>1. Same
      BY <1>7, <2>3
      DEF HandleReceivedFrame, ReceiveConnect, ReceiveConnack, ReceiveForApplication,
          ReceivePublish, ReceivePubrel, ReceivePing
    <3> QED
      BY <1>1, <3>1
  <2> QED
    BY <2>2, <2>3
<1>8. ASSUME NEW p \in Peers, DoTime(p)
      PROVE  ResendTimerHasWork'
  BY <1>8, TimeKeepsWork
<1> QED
  BY <1>2, <1>3, <1>4, <1>5, <1>6, <1>7, <1>8 DEF Next

(* A running resend timer has a frame to resend: do_time, which never stops *)
(* a timer without a frame, always finds one when the timer expires.        *)
THEOREM ResendTimerWorks == Spec => []ResendTimerHasWork
<1>1. Init => ResendTimerHasWork
  BY DEF Init, ResendTimerHasWork, Stopped, Running
<1> QED
  BY <1>1, TypeInit, TypeStep, WorkStep, PTL DEF Spec

=============================================================================
